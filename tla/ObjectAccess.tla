---------------------------- MODULE ObjectAccess ----------------------------
(***************************************************************************)
(* What the mailbox services of the EtherCAT master promise: a call reads   *)
(* or writes the whole of what the slave stores in one step, some time      *)
(* between the call and the return, and fails only with a reason.           *)
(***************************************************************************)
EXTENDS Naturals, Sequences

CONSTANTS Nothing,
          Contents,  \* what the slave can store
          Rooms,     \* sizes of a reader's buffer
          Refusable, \* the slave may refuse a call, or leave it without an answer
          CanBeBusy  \* it may tell the writer that it is busy

VARIABLES store, \* what the slave stores
          asked, \* the call in progress
          told   \* what the last call returned

vars == <<store, asked, told>>

\* A read cuts what does not fit into its buffer, or fails.
Calls == [write : {TRUE}, data : Contents, room : {0}, cuts : {FALSE}]
         \cup [write : {FALSE}, data : {<<>>}, room : Rooms, cuts : BOOLEAN]

\* What fits into the buffer.
Fitting == IF Len(store) <= asked.room THEN store ELSE SubSeq(store, 1, asked.room)

Init == store \in Contents /\ asked = Nothing /\ told = Nothing

Ask ==
  /\ asked = Nothing /\ asked' \in Calls
  /\ told' = Nothing
  /\ UNCHANGED store

\* The data of a write replaces what is stored, all of it.
Write ==
  /\ asked # Nothing /\ asked.write
  /\ store' = asked.data
  /\ UNCHANGED <<asked, told>>

\* Success tells that the data was written, or what is stored; but not when
\* the slave was busy: then the writer is told of success all the same.
Succeed ==
  /\ asked # Nothing
  /\ \E busy \in BOOLEAN :
       /\ busy => CanBeBusy /\ asked.write
       /\ IF asked.write THEN store = asked.data \/ busy ELSE asked.cuts \/ Fitting = store
       /\ told' = [outcome |-> "done", busy |-> busy, got |-> IF asked.write THEN <<>> ELSE Fitting]
  /\ asked' = Nothing
  /\ UNCHANGED store

\* Failure tells why.
Fail ==
  /\ asked # Nothing
  /\ \/ Refusable /\ told' = [outcome |-> "refused", busy |-> FALSE, got |-> <<>>]
     \/ /\ ~asked.write /\ ~asked.cuts /\ Len(store) > asked.room
        /\ told' = [outcome |-> "too_small", busy |-> FALSE, got |-> <<>>]
  /\ asked' = Nothing
  /\ UNCHANGED store

Next == Ask \/ Write \/ Succeed \/ Fail

Spec == Init /\ [][Next]_vars
=============================================================================
