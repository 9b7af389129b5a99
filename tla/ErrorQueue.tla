----------------------------- MODULE ErrorQueue -----------------------------
(***************************************************************************)
(* What the error list of the EtherCAT master promises: the newest          *)
(* Capacity errors that nobody has popped, oldest first, and a flag that is *)
(* up whenever there is one.                                               *)
(***************************************************************************)
EXTENDS Naturals, Sequences

CONSTANTS Capacity, \* the most errors that are kept
          Errors,   \* the values an error can have
          NoError   \* what is popped of an empty list

VARIABLES queue,  \* the errors that are kept, oldest first
          raised, \* the application is told of an error
          popped  \* what it has popped last

vars == <<queue, raised, popped>>

Init == queue = <<>> /\ raised = FALSE /\ popped = NoError

\* A new error is always kept: with Capacity errors there, the oldest goes.
Push(e) ==
  /\ queue' = Append(IF Len(queue) = Capacity THEN Tail(queue) ELSE queue, e)
  /\ raised' = TRUE
  /\ UNCHANGED popped

\* Popping takes the oldest; only popping from the empty list lowers the flag.
Pop ==
  \/ /\ queue # <<>>
     /\ queue' = Tail(queue) /\ popped' = Head(queue)
     /\ UNCHANGED raised
  \/ /\ queue = <<>>
     /\ raised' = FALSE /\ popped' = NoError
     /\ UNCHANGED queue

Next == (\E e \in Errors : Push(e)) \/ Pop

Spec == Init /\ [][Next]_vars
=============================================================================
