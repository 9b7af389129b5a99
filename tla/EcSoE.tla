-------------------------------- MODULE EcSoE --------------------------------
(***************************************************************************)
(* Servo profile over EtherCAT: ecx_SoEread and ecx_SoEwrite, from the       *)
(* message that came back to the next request or the return.  One IDN of    *)
(* one drive is read and written.  A read is one request with as many       *)
(* responses as it takes; a write is as many requests with one response.    *)
(***************************************************************************)
EXTENDS EcCall

ReadSoE == "SoE_read"
WriteSoE == "SoE_write"

\* The request that is in MbxOut.
SoERequest ==
  IF call.op = ReadSoE THEN [kind |-> ReadSoE, cnt |-> mbx_cnt]
  ELSE [kind |-> WriteSoE, data |-> Chunk, last |-> ~call.more, cnt |-> mbx_cnt]

\* The response that the service waits for.
ExpectedSoE(m) == m.kind = IF call.op = ReadSoE THEN "SoE_data" ELSE "SoE_ack"

\* No message, or another one, is put into the error list by ecx_packeterror or
\* ecx_SoEerror: also where the call goes on.
SoEErrs(m) == call.step # "drain" /\ (m = Nothing \/ ~ExpectedSoE(m))
SoEError(m) == IF m # Nothing /\ m.kind = "SoE_error" THEN "SoE_error" ELSE "packet_error"

\* A slip: what the buffer cannot hold is taken off the whole of the fragment.
CutFragmentEmpty(got, data) ==
  IF Len(got) + Len(data) <= call.room THEN got \o data ELSE got

\* A fragment is cut to what is left of the buffer.
CutFragment(got, data) ==
  got \o SubSeq(data, 1, Min2(Len(data), call.room - Len(got)))

\* The response to a read: its data is added as far as there is room, and the
\* next one is waited for if it is incomplete.
FragmentReceived(m) ==
  IF ~ExpectedSoE(m) THEN Return("error", <<>>)
  ELSE LET got == CutFragment(call.got, m.data)
       IN  IF m.last THEN Return("done", got)
           ELSE /\ call' = [call EXCEPT !.got = got]
                /\ pc' = "poll" /\ expired' = FALSE
                /\ UNCHANGED <<mbx_cnt, result>>

\* The next fragment of a write.
NextFragment ==
  LET to == Min2(call.sent + UnitsMore, Len(call.data))
  IN  Compose([call EXCEPT !.step = "segment", !.from = call.sent, !.sent = to,
                           !.more = to < Len(call.data)])

\* The first request, after the OUT mailbox is emptied.
SoEBegins ==
  IF call.op = WriteSoE THEN NextFragment ELSE Compose([call EXCEPT !.step = "request"])

\* A fragment that was not the last is followed by another, once the slave has
\* taken it; if it does not, the service looks for a response.
FragmentTaken == pc = "empty" /\ inbox = Nothing /\ NextFragment /\ UNCHANGED <<mailboxes, mishaps>>
FragmentNotTaken == pc = "empty" /\ inbox # Nothing /\ expired /\ Await /\ UNCHANGED <<mailboxes, mishaps>>

\* What comes next when ecx_mbxreceive has returned m.  Without a response to a
\* fragment that was not the last the loop of ecx_SoEwrite goes on.
SoEReceived(m) ==
  CASE call.step = "drain" -> SoEBegins
    [] call.step # "drain" /\ m = Nothing ->
         IF call.more THEN NextFragment ELSE Return("no_answer", <<>>)
    [] call.step = "request" /\ m # Nothing -> FragmentReceived(m)
    [] call.step = "segment" /\ m # Nothing ->
         Return(IF ExpectedSoE(m) THEN "done" ELSE "error", <<>>)

\* What comes next when ecx_mbxsend has returned.  The loop of ecx_SoEwrite
\* goes on with the next fragment when this one could not be sent.
SoESent(ok) ==
  IF ~ok THEN IF call.more THEN NextFragment ELSE Return("no_answer", <<>>)
  ELSE IF call.more
  THEN pc' = "empty" /\ expired' = FALSE /\ UNCHANGED <<mbx_cnt, call, result>>
  ELSE Await
=============================================================================
