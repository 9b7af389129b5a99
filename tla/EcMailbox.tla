----------------------------- MODULE EcMailbox -----------------------------
(***************************************************************************)
(* The mailbox of an EtherCAT slave, as the master uses it: ecx_mbxsend     *)
(* writes the slave's IN mailbox once it is empty, ecx_mbxreceive waits for  *)
(* the OUT mailbox to fill, reads it, and asks for a repetition when the     *)
(* read is lost.  Every datagram is one step: the poll of a status register, *)
(* the write or the read of a mailbox, the write of the repeat bit.         *)
(*                                                                         *)
(* The master is one thread of control.  What it does with a message, or    *)
(* with the success of a write, is the business of the service that called: *)
(* where the call ends, the service's next step is part of the action, and  *)
(* EcServices adds it (it sets master, which such an action leaves open).   *)
(***************************************************************************)
EXTENDS Integers, Sequences

CONSTANTS Nothing,     \* no message
          Mishaps,     \* what may come between: answers that get lost, emergencies,
                       \* a slave that stops
          MaxMishaps,  \* how often in a behaviour
          Timely,      \* until it stops, the slave is never slower than the
                       \* master's timeouts
          MaxCnt       \* the last mailbox counter, 7 in the code

MailboxAssumption ==
  /\ Mishaps \subseteq {"read_answer", "write_answer", "emergency", "stop"}
  /\ MaxMishaps \in Nat
  /\ MaxCnt \in Nat \ {0, 1}
  /\ Timely \in BOOLEAN
ASSUME MailboxAssumption

VARIABLES
  pc,       \* where the master's thread is
  expired,  \* its timer has run out
  mbx_cnt,  \* slavelist[slave].mbx_cnt
  inbox,    \* the slave's IN mailbox, written by the master
  out,      \* the slave's OUT mailbox
  queue,    \* messages the slave has for the OUT mailbox
  last,     \* the message that was read from it last
  repeat,   \* the repeat bit in SM1STAT, written by the master
  ack,      \* its acknowledge in SM1CONTR
  seen,     \* the counter of the last request the slave took
  stopped,  \* the slave has stopped for good
  mishaps,  \* how many mishaps so far
  call,     \* the local variables of the service that called, or Nothing
  result    \* what the last service returned

\* What the master's thread sets.
master == <<pc, expired, mbx_cnt, call, result>>
mailboxes == <<inbox, out, queue, last, repeat, ack, seen, stopped>>

\* The messages that are handled within ecx_mbxreceive.
Reports == {[kind |-> "emergency"], [kind |-> "mailbox_error"]}

MailboxInit ==
  /\ pc = "idle" /\ expired = FALSE /\ mbx_cnt = 0
  /\ inbox = Nothing /\ out = Nothing /\ queue = <<>> /\ last = Nothing
  /\ repeat = FALSE /\ ack = FALSE /\ seen = 0 /\ stopped = FALSE
  /\ mishaps = 0 /\ call = Nothing /\ result = Nothing

\* The thread goes on within ecx_mbxsend or ecx_mbxreceive.
Goto(there) == pc' = there /\ UNCHANGED <<expired, mbx_cnt, call, result>>

\* The answer to the read or the write of a mailbox gets lost, or an emergency
\* arises.
Happens(mishap) == mishap \in Mishaps /\ mishaps < MaxMishaps /\ mishaps' = mishaps + 1

-----------------------------------------------------------------------------
(* ecx_mbxsend                                                             *)

\* A slip: the counter does not wrap around.
nextmbxcntUnbounded == mbx_cnt + 1

\* ec_nextmbxcnt: 0 is used once at the start and never again.
nextmbxcnt == IF mbx_cnt + 1 > MaxCnt THEN 1 ELSE mbx_cnt + 1

\* The write of a request, when SM0STAT shows an empty mailbox.
WriteMailbox(request) ==
  /\ pc = "send" /\ inbox = Nothing
  /\ inbox' = request
  /\ UNCHANGED <<out, queue, last, repeat, ack, seen, stopped, mishaps>>

\* The answer to the write gets lost: the slave has the request all the same.
WriteUnanswered(request) ==
  /\ pc = "send" /\ inbox = Nothing
  /\ inbox' = request /\ Happens("write_answer")
  /\ Goto("send_again")
  /\ UNCHANGED <<out, queue, last, repeat, ack, seen, stopped>>

\* ecx_srconfirm sends a datagram without an answer again.  A slave that has
\* taken the request in the meantime gets it twice; the mailbox of one that has
\* not is still full, and the work counter 0.
WriteAgain(request, ok) ==
  /\ pc = "send_again"
  /\ IF ok THEN inbox = Nothing /\ inbox' = request
     ELSE inbox # Nothing /\ (Timely => stopped) /\ UNCHANGED inbox
  /\ UNCHANGED <<out, queue, last, repeat, ack, seen, stopped, mishaps>>

\* The slave did not empty its mailbox in time (ecx_mbxempty).
SendGivesUp ==
  /\ pc = "send" /\ inbox # Nothing /\ expired
  /\ UNCHANGED <<mailboxes, mishaps>>

-----------------------------------------------------------------------------
(* ecx_mbxreceive                                                          *)

\* SM1STAT shows a message.
PollFull ==
  /\ pc = "poll" /\ out # Nothing
  /\ Goto("read")
  /\ UNCHANGED <<mailboxes, mishaps>>

\* It shows none, and the time is up.
PollGivesUp ==
  /\ pc = "poll" /\ expired /\ out = Nothing
  /\ UNCHANGED <<mailboxes, mishaps>>

\* Messages that ecx_mbxreceive puts into the error list itself.
IsReport(m) == m \in Reports

\* The read of the mailbox brings the message.
ReadMailbox ==
  /\ pc = "read" /\ out # Nothing
  /\ out' = Nothing /\ last' = out
  /\ UNCHANGED <<inbox, queue, repeat, ack, seen, stopped, mishaps>>

\* The answer to the read gets lost, and the mailbox is emptied all the same.
ReadUnanswered ==
  /\ pc = "read" /\ out # Nothing
  /\ out' = Nothing /\ last' = out /\ Happens("read_answer")
  /\ Goto("toggle")
  /\ UNCHANGED <<inbox, queue, repeat, ack, seen, stopped>>

\* With nothing in the mailbox the work counter is 0: it looks like a lost read.
ReadEmpty ==
  /\ pc = "read" /\ out = Nothing
  /\ Goto("toggle")
  /\ UNCHANGED <<mailboxes, mishaps>>

\* The repeat bit is toggled.
Toggle ==
  /\ pc = "toggle" /\ Goto("ack")
  /\ repeat' = ~repeat
  /\ UNCHANGED <<inbox, out, queue, last, ack, seen, stopped, mishaps>>

\* The slave has acknowledged the bit, or the time is up.
AckSeen ==
  /\ pc = "ack" /\ (ack = repeat \/ expired)
  /\ Goto("avail")
  /\ UNCHANGED <<mailboxes, mishaps>>

\* There is a message again, or the time is up.
Available ==
  /\ pc = "avail" /\ (out # Nothing \/ expired)
  /\ UNCHANGED <<mailboxes, mishaps>>

\* A slip: the loop has no end but a message.
ReadsAgainUntimed == Goto("read")

\* The end of the loop around the read: it is repeated while there is time.
ReadsAgain == ~expired /\ Goto("read")

\* The slave has nothing more to do for the master.
SlaveAtRest == inbox = Nothing /\ out = Nothing /\ queue = <<>> /\ repeat = ack

\* A timer runs out: at any time, or only when waiting is in vain.
Expire ==
  /\ pc \in {"send", "empty", "poll", "read", "toggle", "ack", "avail"} /\ ~expired
  /\ Timely => stopped \/ (SlaveAtRest /\ pc \in {"poll", "read", "avail"})
  /\ expired' = TRUE
  /\ UNCHANGED <<pc, mbx_cnt, call, result, mailboxes, mishaps>>

-----------------------------------------------------------------------------
(* The slave's mailbox, which is not in the repository                     *)

\* The slave stops: it takes nothing out of its mailbox and puts nothing in.
Stops ==
  /\ ~stopped /\ Happens("stop")
  /\ stopped' = TRUE
  /\ UNCHANGED <<master, inbox, out, queue, last, repeat, ack, seen>>

\* The next message goes into the OUT mailbox, after a repetition asked for.
Post ==
  /\ ~stopped /\ out = Nothing /\ queue # <<>> /\ repeat = ack
  /\ out' = Head(queue) /\ queue' = Tail(queue)
  /\ UNCHANGED <<master, inbox, last, repeat, ack, seen, stopped, mishaps>>

\* A repeat request: the message read last goes back into the mailbox, in
\* front of one that has not been read yet.
Repeats ==
  /\ ~stopped /\ repeat # ack /\ ack' = repeat
  /\ IF last = Nothing THEN UNCHANGED <<out, queue>>
     ELSE /\ out' = last
          /\ queue' = IF out = Nothing THEN queue ELSE <<out>> \o queue
  /\ UNCHANGED <<master, inbox, last, repeat, seen, stopped, mishaps>>

\* An emergency, of the slave's own accord.
SendsReport ==
  /\ ~stopped /\ Happens("emergency")
  /\ queue' = Append(queue, [kind |-> "emergency"])
  /\ UNCHANGED <<master, inbox, out, last, repeat, ack, seen, stopped>>

\* A request with the counter of the one before is taken for its repetition.
IgnoresRepetition ==
  /\ ~stopped /\ inbox # Nothing /\ inbox.cnt = seen
  /\ inbox' = Nothing
  /\ UNCHANGED <<master, out, queue, last, repeat, ack, seen, stopped, mishaps>>

\* The slave takes a request and answers with the messages in answers.
Answers(answers) ==
  /\ ~stopped /\ inbox # Nothing /\ inbox.cnt # seen
  /\ inbox' = Nothing /\ seen' = inbox.cnt
  /\ queue' = queue \o answers
  /\ UNCHANGED <<master, out, last, repeat, ack, stopped, mishaps>>
=============================================================================
