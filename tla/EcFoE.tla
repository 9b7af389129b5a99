-------------------------------- MODULE EcFoE --------------------------------
(***************************************************************************)
(* File access over EtherCAT: ecx_FOEread and ecx_FOEwrite, from the message *)
(* that came back to the next request or the return.  A file is cut into    *)
(* packets of UnitsMore units; a packet that is not full is the last.       *)
(***************************************************************************)
EXTENDS EcCall

ReadFile == "FoE_read"
WriteFile == "FoE_write"

\* The request that is in MbxOut.
FoERequest ==
  CASE call.step = "request" -> [kind |-> call.op, cnt |-> mbx_cnt]
    [] call.step = "ack" -> [kind |-> "ack", packet |-> call.packet, cnt |-> mbx_cnt]
    [] call.step = "data" ->
         [kind |-> "data", packet |-> call.packet, data |-> Chunk, cnt |-> mbx_cnt]

\* What FoE makes of a message that it does not expect.
FoEFails(m) == IF m.kind = "FoE_error" THEN "error" ELSE "packet_error"

-----------------------------------------------------------------------------
(* ecx_FOEread                                                             *)

\* Another packet follows a full one.
MorePackets(data) == Len(data) = UnitsMore

\* A data packet with the next number that has room at p is acknowledged.
FileContinues(m) ==
  IF m.kind # "data" THEN Return(FoEFails(m), <<>>)
  ELSE IF m.packet = call.packet + 1 /\ Len(call.got) + Len(m.data) <= call.room
  THEN Compose([call EXCEPT !.step = "ack", !.packet = call.packet + 1,
                            !.got = call.got \o m.data, !.more = MorePackets(m.data)])
  ELSE Return("too_small", <<>>)

-----------------------------------------------------------------------------
(* ecx_FOEwrite                                                            *)

\* A slip: no empty packet closes a file whose last packet was full.
FinalZeroNever(left, segmentdata) == FALSE

\* A full last packet is followed by an empty one.
FinalZero(left, segmentdata) == left = 0 /\ segmentdata = UnitsMore

\* The next packet, if there is one, after the acknowledge of the one before.
NextPacket ==
  LET to == Min2(call.sent + UnitsMore, Len(call.data))
  IN  IF to > call.sent \/ call.zero
      THEN Compose([call EXCEPT !.step = "data", !.packet = call.packet + 1,
                                !.from = call.sent, !.sent = to,
                                !.zero = FinalZero(Len(call.data) - to, to - call.sent)])
      ELSE Return("done", <<>>)

\* The acknowledge of the packet that was sent last, 0 for the request.
RightAck(m) == m.packet = call.packet

\* The answer to the request or a packet.  A busy slave has the packet taken
\* back, and then the loop ends, for worktodo is FALSE, with the work counter
\* of the answer.
Acknowledged(m) ==
  IF m.kind = "ack"
  THEN IF RightAck(m) THEN NextPacket ELSE Return("packet_number", <<>>)
  ELSE IF m.kind = "busy" THEN Return("done", <<>>)
  ELSE Return(FoEFails(m), <<>>)

-----------------------------------------------------------------------------
(* Both                                                                    *)

\* What comes next when ecx_mbxreceive has returned m.
FoEReceived(m) ==
  CASE call.step = "drain" -> Compose([call EXCEPT !.step = "request"])
    [] call.step # "drain" /\ m = Nothing -> Return("no_answer", <<>>)
    [] call.step # "drain" /\ m # Nothing /\ call.op = ReadFile -> FileContinues(m)
    [] call.step # "drain" /\ m # Nothing /\ call.op = WriteFile -> Acknowledged(m)

\* What comes next when ecx_mbxsend has returned: the last acknowledge ends a
\* read.
FoESent(ok) ==
  IF ~ok THEN Return("no_answer", <<>>)
  ELSE IF call.step = "ack" /\ ~call.more THEN Return("done", call.got)
  ELSE Await
=============================================================================
