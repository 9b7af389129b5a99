----------------------------- MODULE ErrorList -----------------------------
(***************************************************************************)
(* The error list of the EtherCAT master (ecx_pusherror, ecx_poperror,      *)
(* ecx_iserror): a ring of MaxList + 1 places in which head = tail means    *)
(* empty, and the flag ecaterror that the application polls.               *)
(***************************************************************************)
EXTENDS Integers, Sequences

CONSTANTS MaxList, \* EC_MAXELIST
          Errors,  \* the errors told apart (ec_errort without its time)
          NoError  \* what a place holds whose Signal is FALSE

\* The ring keeps at least one error.
ErrorListAssumption == MaxList \in Nat \ {0}
ASSUME ErrorListAssumption

VARIABLES Error,    \* elist->Error
          head,     \* elist->head, the place of the next error
          tail,     \* elist->tail, the place of the oldest error
          ecaterror, \* the flag
          popped    \* what ecx_poperror returned last, NoError for FALSE

elist == <<Error, head, tail, ecaterror, popped>>

Places == 0..MaxList

\* One place further on, as "++" and the comparison with EC_MAXELIST do it.
Following(place) == IF place + 1 > MaxList THEN 0 ELSE place + 1

ListInit ==
  /\ Error = [p \in Places |-> NoError]
  /\ head = 0 /\ tail = 0
  /\ ecaterror = FALSE /\ popped = NoError

\* ecx_iserror.
iserror == head # tail

\* A slip: the flag is set for what was in the ring before.
pusherrorLateFlag(e) ==
  /\ Error' = [Error EXCEPT ![head] = e]
  /\ head' = Following(head)
  /\ tail' = IF Following(head) = tail THEN Following(tail) ELSE tail
  /\ ecaterror' = (ecaterror \/ iserror)
  /\ UNCHANGED popped

\* A slip: a full ring does not lose its oldest error.
pusherrorKeepsTail(e) ==
  /\ Error' = [Error EXCEPT ![head] = e]
  /\ head' = Following(head)
  /\ ecaterror' = TRUE
  /\ UNCHANGED <<tail, popped>>

\* ecx_pusherror: the error always goes in, and pushes the oldest out of a
\* full ring.
pusherror(e) ==
  /\ Error' = [Error EXCEPT ![head] = e]
  /\ head' = Following(head)
  /\ tail' = IF Following(head) = tail THEN Following(tail) ELSE tail
  /\ ecaterror' = TRUE
  /\ UNCHANGED popped

\* A slip: the flag is lowered for the newest error, not for the empty ring.
poperrorAhead ==
  /\ tail' = IF iserror THEN Following(tail) ELSE tail
  /\ ecaterror' = (Following(tail) # head /\ ecaterror)
  /\ popped' = IF iserror THEN Error[tail] ELSE NoError
  /\ Error' = [Error EXCEPT ![tail] = NoError]
  /\ UNCHANGED head

\* ecx_poperror.  With Signal FALSE the place holds no error.
poperror ==
  /\ Error' = [Error EXCEPT ![tail] = NoError]
  /\ tail' = IF iserror THEN Following(tail) ELSE tail
  /\ ecaterror' = IF iserror THEN ecaterror ELSE FALSE
  /\ popped' = IF iserror THEN Error[tail] ELSE NoError
  /\ UNCHANGED head

ListNext == (\E e \in Errors : pusherror(e)) \/ poperror

ListSpec == ListInit /\ [][ListNext]_elist

-----------------------------------------------------------------------------
(* Types and properties                                                    *)

ListTypeOK ==
  /\ Error \in [Places -> Errors \cup {NoError}]
  /\ head \in Places
  /\ tail \in Places
  /\ ecaterror \in BOOLEAN
  /\ popped \in Errors \cup {NoError}

\* The number of errors in the ring, and the ring's content oldest first.
Filled == IF tail <= head THEN head - tail ELSE head - tail + MaxList + 1
Place(i) == IF tail + i - 1 > MaxList THEN tail + i - 2 - MaxList ELSE tail + i - 1
Kept == [i \in 1..Filled |-> Error[Place(i)]]

Queue == INSTANCE ErrorQueue WITH Capacity <- MaxList, queue <- Kept, raised <- ecaterror

\* The ring is the queue of the newest MaxList errors: nothing is lost before
\* it is full, a full ring loses its oldest error and no other, and errors are
\* popped in the order of their pushes, over the wrap-around too (ecx_pusherror,
\* ecx_poperror).
ImplementsErrorQueue == Queue!Spec

\* An application that looks at the flag alone misses no error: the flag is up
\* as long as the ring holds one (ecx_poperror lowers it only when empty).
ErrorFlagged == iserror => ecaterror
=============================================================================
