-------------------------------- MODULE EcCoE --------------------------------
(***************************************************************************)
(* CANopen over EtherCAT: ecx_SDOread and ecx_SDOwrite, from the message    *)
(* that came back to the next request or the return.  One object is read    *)
(* and written, so its index and subindex are left out; an expedited        *)
(* transfer is one whose data fits the first message, as in the normal one. *)
(***************************************************************************)
EXTENDS EcCall

ReadSDO == "SDO_read"
WriteSDO == "SDO_write"

\* The request that is in MbxOut.
SDORequest ==
  CASE call.op = ReadSDO /\ call.step = "request" ->
         [kind |-> "upload", cnt |-> mbx_cnt]
    [] call.op = ReadSDO /\ call.step = "segment" ->
         [kind |-> "upload_segment", toggle |-> call.toggle, cnt |-> mbx_cnt]
    [] call.op = WriteSDO /\ call.step = "request" ->
         [kind |-> "download", size |-> Len(call.data), data |-> Chunk, cnt |-> mbx_cnt]
    [] call.op = WriteSDO /\ call.step = "segment" ->
         [kind |-> "download_segment", toggle |-> call.toggle, data |-> Chunk,
          last |-> ~call.more, cnt |-> mbx_cnt]

\* An SDO response with the index of the object.  A segment's has data there.
IsResponse(m) == m.kind \in {"upload_response", "download_response"}

\* What a message that is not expected makes of the call: the error that is
\* pushed, ecx_SDOerror's for an abort and ecx_packeterror's for the rest.
Unexpected(m) == IF m.kind = "abort" THEN "abort" ELSE "packet_error"

-----------------------------------------------------------------------------
(* ecx_SDOread                                                             *)

\* The object has room at p.
Fits(m) == m.size <= call.room

\* The response to the upload request.
UploadBegins(m) ==
  IF ~IsResponse(m) THEN Return(Unexpected(m), <<>>)
  ELSE IF ~Fits(m) THEN Return("too_small", <<>>)
  ELSE IF Len(m.data) < m.size
  THEN Compose([call EXCEPT !.step = "segment", !.got = m.data, !.more = TRUE])
  ELSE Return("done", m.data)

\* A slip: the toggle bit stays.
ToggledNever(c) == c

\* The toggle bit of the next segment.
Toggled(c) == [c EXCEPT !.toggle = ~c.toggle]

\* A segment, or nothing.  Without an answer NotLast keeps its value: the next
\* segment is asked for, with the next toggle bit.
UploadContinues(m) ==
  IF m = Nothing THEN Compose(Toggled(call))
  ELSE IF m.kind # "upload_segment_response" THEN Return(Unexpected(m), <<>>)
  ELSE IF m.last THEN Return("done", call.got \o m.data)
  ELSE Compose([Toggled(call) EXCEPT !.got = call.got \o m.data])

-----------------------------------------------------------------------------
(* ecx_SDOwrite                                                            *)

\* A slip: NotLast is not reset.
NextChunkNeverLast(c, units) ==
  LET to == Min2(c.sent + units, Len(c.data))
  IN  [c EXCEPT !.from = c.sent, !.sent = to, !.more = c.more \/ to < Len(c.data)]

\* The next units of data are put into the message.
NextChunk(c, units) ==
  LET to == Min2(c.sent + units, Len(c.data))
  IN  [c EXCEPT !.from = c.sent, !.sent = to, !.more = to < Len(c.data)]

\* The next segment, if one is left.
NextSegment(c) ==
  IF c.more THEN Compose([NextChunk(c, UnitsMore) EXCEPT !.step = "segment"])
            ELSE Return("done", <<>>)

\* The response to the download request.
DownloadBegins(m) ==
  IF IsResponse(m) THEN NextSegment(call) ELSE Return(Unexpected(m), <<>>)

\* The response to a segment, or nothing: that ends only the last segment.
DownloadContinues(m) ==
  IF m = Nothing
  THEN IF call.more THEN NextSegment(Toggled(call)) ELSE Return("no_answer", <<>>)
  ELSE IF m.kind = "download_segment_response" THEN NextSegment(Toggled(call))
  ELSE Return(Unexpected(m), <<>>)

-----------------------------------------------------------------------------
(* Both                                                                    *)

\* The first request, after the OUT mailbox is emptied.
SDOBegins ==
  Compose([(IF call.op = WriteSDO THEN NextChunk(call, UnitsFirst) ELSE call)
           EXCEPT !.step = "request"])

\* What comes next when ecx_mbxreceive has returned m.
SDOReceived(m) ==
  CASE call.step = "drain" -> SDOBegins
    [] call.step = "request" /\ m = Nothing -> Return("no_answer", <<>>)
    [] call.step = "request" /\ m # Nothing /\ call.op = ReadSDO -> UploadBegins(m)
    [] call.step = "request" /\ m # Nothing /\ call.op = WriteSDO -> DownloadBegins(m)
    [] call.step = "segment" /\ call.op = ReadSDO -> UploadContinues(m)
    [] call.step = "segment" /\ call.op = WriteSDO -> DownloadContinues(m)

\* What comes next when ecx_mbxsend has returned: without success as without an
\* answer.
SDOSent(ok) == IF ok THEN Await ELSE SDOReceived(Nothing)

\* The outcomes for which ecx_SDOerror or ecx_packeterror pushes an error.
SDOErrors == {"abort", "packet_error", "too_small"}
=============================================================================
