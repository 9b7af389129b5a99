------------------------------- MODULE EcCall -------------------------------
(***************************************************************************)
(* A mailbox service of the EtherCAT master in progress: the local          *)
(* variables of ecx_SDOread, ecx_FOEread, ecx_SoEread and their writes, and  *)
(* how such a call starts, sends its next request and returns.             *)
(*                                                                         *)
(* Data is counted in units: UnitsFirst of them fit into the message that   *)
(* starts a CoE transfer (mailbox - 16 bytes), UnitsMore into its segments  *)
(* and into a FoE data packet.                                             *)
(***************************************************************************)
EXTENDS EcMailbox, FiniteSetsExt

CONSTANTS UnitsFirst, UnitsMore

CallAssumption == UnitsFirst \in Nat \ {0} /\ UnitsMore \in Nat \ {0}
ASSUME CallAssumption

Min2(a, b) == Min({a, b})

\* A call before its first statement.
\*  op    what is called            data  the contents to write (p, psize)
\*  room  units at p to read into   step  where in the call
\*  got   what has been read        more  NotLast, worktodo
\*  from, sent  the units of data in the last message are from + 1 .. sent
\*  toggle  of the segment          packet  prevpacket, sendpacket
\*  zero  dofinalzero
NewCall(op, data, room) ==
  [op |-> op, data |-> data, room |-> room, step |-> "drain", got |-> <<>>,
   more |-> FALSE, from |-> 0, sent |-> 0, toggle |-> FALSE, packet |-> 0, zero |-> FALSE]

\* The units of the message that is composed, and how many are left after it.
Chunk == SubSeq(call.data, call.from + 1, call.sent)

\* The call begins by reading the OUT mailbox with timeout 0, to empty it.
Start(op, data, room) ==
  /\ pc = "idle" /\ pc' = "poll" /\ expired' = TRUE
  /\ call' = NewCall(op, data, room)
  /\ result' = Nothing
  /\ UNCHANGED <<mbx_cnt, mailboxes, mishaps>>

\* The next request is composed in c, gets a counter and is sent.
Compose(c) ==
  /\ call' = c
  /\ mbx_cnt' = nextmbxcnt
  /\ pc' = "send" /\ expired' = FALSE
  /\ UNCHANGED result

\* ecx_mbxreceive is called.
Await ==
  /\ pc' = "poll" /\ expired' = FALSE
  /\ UNCHANGED <<mbx_cnt, call, result>>

\* The call ends with this outcome, and with what has been read.
Return(outcome, got) ==
  /\ result' = [op |-> call.op, outcome |-> outcome, got |-> got]
  /\ call' = Nothing
  /\ pc' = "idle" /\ expired' = FALSE
  /\ UNCHANGED mbx_cnt
=============================================================================
