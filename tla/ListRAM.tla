------------------------------- MODULE ListRAM -------------------------------
(***************************************************************************)
(* List_RAM (Libraries/Basics/Memory/List_RAM.vhdp): a list in a block RAM *)
(* that writes one block and reads one block per clock.  Insert and Remove *)
(* move the blocks behind the position one by one, in the clocks that      *)
(* follow, while Busy is 1.  One step is one clock of the process, which   *)
(* runs through its parts in the order of the code: what a part assigns to *)
(* a variable (the record proc) the next part sees, what it assigns to a   *)
(* signal is seen in the next clock.                                       *)
(*                                                                         *)
(* The user is the header's and the SeqFunctions': an operation starts     *)
(* with Operation going from None to it, when Busy is 0, and Operation     *)
(* returns to None in any later clock.                                     *)
(***************************************************************************)
EXTENDS Integers

CONSTANTS Width,   \* number of blocks
          Data     \* values of a block

ASSUME ListAssumption == Width \in Nat \ {0} /\ Data # {}

VARIABLES Operation, Address, Data_IN,               \* input ports
          RAM, Count_reg, read_en, read_data_reg,    \* signals
          Busy, data_out_reg,
          Operation_Reg, proc                        \* variables of the process

ports   == <<Operation, Address, Data_IN>>
signals == <<RAM, Count_reg, read_en, read_data_reg, Busy, data_out_reg>>
vars    == <<ports, signals, Operation_Reg, proc>>

Operations == {"None", "Add", "Insert", "Remove", "Clear", "Read"}
Slots      == 0 .. Width - 1

(* addr: where the next write goes, one away from it while blocks move.    *)
(* save, the request to write, lives within one clock.                     *)
Proc == [addr : -1 .. Width, data : Data, save : {0, 1}, read_addr : Int,
         inse : {0, 1}, inse_data : Data, inse_addr : Slots, remo : {0, 1}]

(* The RAM, the read registers and the output have no initial value.       *)
Init ==
  /\ Operation = "None" /\ Address \in Slots /\ Data_IN \in Data
  /\ RAM \in [Slots -> Data] /\ read_data_reg \in Data /\ data_out_reg \in Data
  /\ Count_reg = 0 /\ read_en = 0 /\ Busy = 0 /\ Operation_Reg = "None"
  /\ proc \in [addr : {0}, data : Data, save : {0}, read_addr : {0},
               inse : {0}, inse_data : Data, inse_addr : {0}, remo : {0}]

----------------------------------------------------------------------------
(* The parts of the process, in order.                                     *)

Starts(op) == Operation = op /\ Operation_Reg # op

Adding    == Starts("Add") /\ Count_reg < Width
Inserting == Starts("Insert") /\ Count_reg < Width /\ Address < Count_reg
Removing  == Starts("Remove") /\ Count_reg > 0 /\ Address < Count_reg

AddStart(p) ==
  IF Adding THEN [p EXCEPT !.addr = Count_reg, !.data = Data_IN, !.save = 1] ELSE p

(* A slip: the move ends one block too early.                              *)
InsertMoveShort(p) ==
  IF p.inse = 0 THEN p
  ELSE IF p.addr - 2 > p.inse_addr
       THEN [p EXCEPT !.addr = p.addr - 1, !.read_addr = p.addr - 3,
                      !.data = read_data_reg, !.save = 1]
       ELSE [p EXCEPT !.addr = p.addr - 1, !.data = p.inse_data,
                      !.inse = 0, !.save = 1]

InsertMove(p) ==
  IF p.inse = 0 THEN p
  ELSE IF p.addr - 1 > p.inse_addr
       THEN [p EXCEPT !.addr = p.addr - 1, !.read_addr = p.addr - 3,
                      !.data = read_data_reg, !.save = 1]
       ELSE [p EXCEPT !.addr = p.addr - 1, !.data = p.inse_data,
                      !.inse = 0, !.save = 1]

(* A slip: the move starts one block too low.                              *)
InsertStartLow(p) ==
  IF Inserting THEN [p EXCEPT !.inse = 1, !.inse_data = Data_IN, !.inse_addr = Address,
                              !.addr = Count_reg, !.read_addr = Count_reg - 1]
  ELSE p

InsertStart(p) ==
  IF Inserting THEN [p EXCEPT !.inse = 1, !.inse_data = Data_IN, !.inse_addr = Address,
                              !.addr = Count_reg + 1, !.read_addr = Count_reg - 1]
  ELSE p

(* A slip: the end of the move is not noticed.                             *)
RemoveMoveOn(p) ==
  IF p.remo = 0 THEN p
  ELSE [p EXCEPT !.addr = IF p.addr + 1 < Count_reg THEN p.addr + 1 ELSE p.addr,
                 !.read_addr = IF p.addr + 1 < Count_reg - 1 THEN p.addr + 3
                                                             ELSE p.read_addr,
                 !.data = read_data_reg, !.save = 1]

RemoveMove(p) ==
  IF p.remo = 0 THEN p
  ELSE IF p.addr + 1 < Count_reg - 1
       THEN [p EXCEPT !.addr = p.addr + 1, !.read_addr = p.addr + 3,
                      !.data = read_data_reg, !.save = 1]
       ELSE [p EXCEPT !.addr = p.addr + 1, !.remo = 0,
                      !.data = read_data_reg, !.save = 1]

RemoveStart(p) ==
  IF ~Removing THEN p
  ELSE IF Address < Count_reg - 1
       THEN [p EXCEPT !.addr = Address - 1, !.remo = 1, !.read_addr = Address + 1]
       ELSE [p EXCEPT !.addr = Address - 1]

ReadStart(p) == IF Starts("Read") THEN [p EXCEPT !.read_addr = Address] ELSE p

Written == RemoveStart(RemoveMove(InsertStart(InsertMove(AddStart([proc EXCEPT !.save = 0])))))

(* The block the RAM gives for an address; outside of it, any block.       *)
BlockAt(a) == IF a \in Slots THEN {RAM[a]} ELSE {RAM[i] : i \in Slots}

(* Data_OUT is the read register in the clock after a Read and holds it.   *)
Data_OUT == IF read_en = 1 THEN read_data_reg ELSE data_out_reg

Clock ==
  LET w == Written
      r == ReadStart(w)
  IN /\ proc' = r
     /\ RAM' = IF w.save = 1 THEN [RAM EXCEPT ![w.addr] = w.data] ELSE RAM
     /\ Count_reg' = CASE Adding \/ Inserting -> Count_reg + 1
                       [] Removing            -> Count_reg - 1
                       [] Starts("Clear")     -> 0
                       [] OTHER               -> Count_reg
     /\ read_en' = IF Starts("Read") THEN 1 ELSE 0
     /\ read_data_reg' \in BlockAt(r.read_addr)
     /\ data_out_reg' = Data_OUT
     /\ Busy' = IF w.remo = 1 \/ w.inse = 1 THEN 1 ELSE 0
     /\ Operation_Reg' = Operation

----------------------------------------------------------------------------
User ==
  \/ /\ Operation = "None" /\ Busy = 0
     /\ Operation' \in Operations /\ Address' \in Slots /\ Data_IN' \in Data
  \/ /\ Operation' \in {Operation, "None"}
     /\ UNCHANGED <<Address, Data_IN>>

Next == User /\ Clock

Spec == Init /\ [][Next]_vars /\ WF_vars(Next)

----------------------------------------------------------------------------
(* The list behind the RAM: while an insertion is moving blocks up, those  *)
(* not yet moved are still one below their place, and the new block is not *)
(* written; while a removal is moving them down, one above.                *)
Item(i) ==
  IF proc.inse = 1 /\ i = proc.inse_addr THEN proc.inse_data
  ELSE IF proc.inse = 1 /\ i > proc.inse_addr /\ i < proc.addr THEN RAM[i - 1]
  ELSE IF proc.remo = 1 /\ i > proc.addr THEN RAM[i + 1]
  ELSE RAM[i]

List == INSTANCE MemoryList
          WITH op <- Operation, pos <- Address, data <- Data_IN, asked <- Operation_Reg,
               size <- Count_reg, item <- [i \in 0 .. Count_reg - 1 |-> Item(i)],
               out <- Data_OUT

(* Every operation that the ports ask for changes the list as MemoryList   *)
(* says, with the Address and Data_IN of that clock and at once: none is   *)
(* left out or done twice, the moves that follow change nothing in the     *)
(* list, and Data_OUT only follows a Read.                                 *)
ImplementsList == List!ListSpec

(* Every insertion and removal comes to an end.                            *)
BusyEnds == Busy = 1 ~> Busy = 0

TypeOK ==
  /\ Operation \in Operations /\ Address \in Slots /\ Data_IN \in Data
  /\ RAM \in [Slots -> Data] /\ Count_reg \in 0 .. Width
  /\ read_en \in {0, 1} /\ read_data_reg \in Data /\ data_out_reg \in Data
  /\ Busy \in {0, 1} /\ Operation_Reg \in Operations
  /\ proc \in Proc

(* What is going on between two clocks.                                    *)
Moving ==
  /\ Busy = IF proc.inse = 1 \/ proc.remo = 1 THEN 1 ELSE 0
  /\ Operation # "None" /\ Operation_Reg # Operation => Busy = 0
  /\ proc.inse = 1 => /\ proc.remo = 0
                      /\ proc.inse_addr < proc.addr
                      /\ proc.addr <= Count_reg
                      /\ proc.addr - 2 >= proc.inse_addr
                           => read_data_reg = RAM[proc.addr - 2]
  /\ proc.remo = 1 => /\ proc.addr + 1 < Count_reg
                      /\ Count_reg < Width
                      /\ read_data_reg = RAM[proc.addr + 2]

IInv == TypeOK /\ Moving

============================================================================
