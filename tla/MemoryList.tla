----------------------------- MODULE MemoryList -----------------------------
(***************************************************************************)
(* What List_RAM promises (the "Function" part of the header of            *)
(* Libraries/Basics/Memory/List_RAM.vhdp): a list of at most Width blocks. *)
(* An operation is requested by op going to it, and happens at once, with  *)
(* the position and the data that are asked for at that time: none is left *)
(* out, none happens twice or by itself.  Positions count from 0.  One on  *)
(* a position that is not used, or one that needs room when there is none, *)
(* does nothing; what is read there is not said.                           *)
(***************************************************************************)
EXTENDS Integers

CONSTANTS Width, Data

VARIABLES op, pos, data,   \* what is asked for
          asked,           \* op when it was looked at last
          size, item, out

list == <<op, pos, data, asked, size, item, out>>

Positions  == 0 .. Width - 1
Operations == {"None", "Add", "Insert", "Remove", "Clear", "Read"}

ListInit ==
  /\ op = "None" /\ pos \in Positions /\ data \in Data /\ asked = "None"
  /\ size = 0 /\ item = [i \in 0 .. size - 1 |-> 0] /\ out \in Data

Requested(o) == op = o /\ asked # o
Used(p)      == p \in 0 .. size - 1

CanAdd    == Requested("Add") /\ size < Width
CanInsert == Requested("Insert") /\ size < Width /\ Used(pos)
CanRemove == Requested("Remove") /\ Used(pos)

Add ==
  /\ CanAdd
  /\ size' = size + 1
  /\ item' = [i \in 0 .. size |-> IF i < size THEN item[i] ELSE data]
  /\ UNCHANGED out

Insert ==
  /\ CanInsert
  /\ size' = size + 1
  /\ item' = [i \in 0 .. size |-> IF i < pos THEN item[i]
                                  ELSE IF i = pos THEN data ELSE item[i - 1]]
  /\ UNCHANGED out

Remove ==
  /\ CanRemove
  /\ size' = size - 1
  /\ item' = [i \in 0 .. size - 2 |-> IF i < pos THEN item[i] ELSE item[i + 1]]
  /\ UNCHANGED out

Clear ==
  /\ Requested("Clear")
  /\ size' = 0 /\ item' = [i \in 0 .. size' - 1 |-> 0]
  /\ UNCHANGED out

Read ==
  /\ Requested("Read")
  /\ out' \in (IF Used(pos) THEN {item[pos]} ELSE Data)
  /\ UNCHANGED <<size, item>>

Nothing ==
  /\ ~CanAdd /\ ~CanInsert /\ ~CanRemove /\ ~Requested("Clear") /\ ~Requested("Read")
  /\ UNCHANGED <<size, item, out>>

(* Every request is looked at, and the next one made meanwhile.            *)
ListNext ==
  /\ asked' = op
  /\ op' \in Operations /\ pos' \in Positions /\ data' \in Data
  /\ Add \/ Insert \/ Remove \/ Clear \/ Read \/ Nothing

ListSpec == ListInit /\ [][ListNext]_list

============================================================================
