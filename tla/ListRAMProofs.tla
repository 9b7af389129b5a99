--------------------------- MODULE ListRAMProofs ---------------------------
(***************************************************************************)
(* Proofs that List_RAM implements the list of MemoryList, for every width *)
(* and every set of blocks.                                                *)
(***************************************************************************)
EXTENDS ListRAM, TLAPS

(* What the process does in one clock, by what is going on: no two of the  *)
(* parts that write meet.                                                  *)
Quiet == proc.inse = 0 /\ proc.remo = 0

LEMMA WidthNat == Width \in Nat /\ Width >= 1
  BY ListAssumption

LEMMA StartsAlone ==
  ASSUME IInv, NEW op \in Operations \ {"None"}, Starts(op)
  PROVE  Quiet /\ \A other \in Operations \ {op} : ~Starts(other)
  BY DEF IInv, Moving, TypeOK, Proc, Starts, Quiet, Operations

LEMMA NoStart ==
  ASSUME IInv, \A op \in Operations \ {"None"} : ~Starts(op)
  PROVE  /\ ~Adding /\ ~Inserting /\ ~Removing
         /\ ~Starts("Clear") /\ ~Starts("Read")
  BY DEF Adding, Inserting, Removing, Operations

LEMMA WrittenAdd ==
  ASSUME IInv, Adding
  PROVE  Written = [[proc EXCEPT !.save = 0]
                      EXCEPT !.addr = Count_reg, !.data = Data_IN, !.save = 1]
<1>1. Quiet /\ ~Inserting /\ ~Removing
  BY StartsAlone DEF Adding, Inserting, Removing, Operations
<1>2. proc \in Proc
  BY DEF IInv, TypeOK
<1> QED BY <1>1, <1>2 DEF Written, AddStart, InsertMove, InsertStart, RemoveMove,
           RemoveStart, Quiet, Proc

LEMMA WrittenInsertStart ==
  ASSUME IInv, Inserting
  PROVE  Written = [proc EXCEPT !.save = 0, !.inse = 1, !.inse_data = Data_IN,
                                !.inse_addr = Address, !.addr = Count_reg + 1,
                                !.read_addr = Count_reg - 1]
<1>1. Quiet /\ ~Adding /\ ~Removing
  BY StartsAlone DEF Adding, Inserting, Removing, Operations
<1>2. proc \in Proc
  BY DEF IInv, TypeOK
<1> QED BY <1>1, <1>2, Inserting DEF Written, AddStart, InsertMove, InsertStart, RemoveMove,
           RemoveStart, Quiet, Proc

LEMMA WrittenRemoveStart ==
  ASSUME IInv, Removing
  PROVE  Written = IF Address < Count_reg - 1
                   THEN [proc EXCEPT !.save = 0, !.addr = Address - 1, !.remo = 1,
                                     !.read_addr = Address + 1]
                   ELSE [proc EXCEPT !.save = 0, !.addr = Address - 1]
<1>1. Quiet /\ ~Adding /\ ~Inserting
  BY StartsAlone DEF Adding, Inserting, Removing, Operations
<1>2. proc \in Proc
  BY DEF IInv, TypeOK
<1> QED BY <1>1, <1>2 DEF Written, AddStart, InsertMove, InsertStart, RemoveMove,
           RemoveStart, Quiet, Proc

LEMMA WrittenQuiet ==
  ASSUME IInv, Quiet, ~Adding, ~Inserting, ~Removing
  PROVE  Written = [proc EXCEPT !.save = 0]
<1>1. proc \in Proc
  BY DEF IInv, TypeOK
<1> QED BY <1>1 DEF Written, AddStart, InsertMove, InsertStart, RemoveMove,
           RemoveStart, Quiet, Proc

LEMMA WrittenInsertMove ==
  ASSUME IInv, proc.inse = 1
  PROVE  Written = InsertMove([proc EXCEPT !.save = 0])
<1>1. ~Adding /\ ~Inserting /\ ~Removing /\ proc.remo = 0
  BY StartsAlone DEF IInv, Moving, Adding, Inserting, Removing, Quiet, Operations
<1>2. proc \in Proc
  BY DEF IInv, TypeOK
<1> QED BY <1>1, <1>2 DEF Written, AddStart, InsertMove, InsertStart, RemoveMove,
           RemoveStart, Proc

LEMMA WrittenRemoveMove ==
  ASSUME IInv, proc.remo = 1
  PROVE  Written = RemoveMove([proc EXCEPT !.save = 0])
<1>1. ~Adding /\ ~Inserting /\ ~Removing /\ proc.inse = 0
  BY StartsAlone DEF IInv, Moving, TypeOK, Proc, Adding, Inserting, Removing, Quiet, Operations
<1>2. proc \in Proc
  BY DEF IInv, TypeOK
<1> QED BY <1>1, <1>2 DEF Written, AddStart, InsertMove, InsertStart, RemoveMove,
           RemoveStart, Proc

(* The situations of one clock.                                            *)
LEMMA Situations ==
  ASSUME IInv
  PROVE  \/ Adding
         \/ Inserting
         \/ Removing
         \/ Quiet /\ ~Adding /\ ~Inserting /\ ~Removing
         \/ proc.inse = 1
         \/ proc.remo = 1
  BY DEF Quiet, IInv, TypeOK, Proc

----------------------------------------------------------------------------
LEMMA TypeInit == Init => TypeOK
  BY WidthNat DEF Init, TypeOK, Proc, Operations, Slots

LEMMA MovingInit == Init => Moving
  BY DEF Init, Moving

(* A write leaves the type of the process's variables.                     *)
LEMMA EditWrite ==
  ASSUME NEW p \in Proc, NEW a \in -1 .. Width, NEW d \in Data, NEW n \in Int
  PROVE  /\ [p EXCEPT !.addr = a, !.data = d, !.save = 1] \in Proc
         /\ [p EXCEPT !.addr = a, !.read_addr = n, !.data = d, !.save = 1] \in Proc
         /\ [p EXCEPT !.addr = a, !.data = d, !.inse = 0, !.save = 1] \in Proc
         /\ [p EXCEPT !.addr = a, !.remo = 0, !.data = d, !.save = 1] \in Proc
  BY DEF Proc

LEMMA Fields ==
  ASSUME TypeOK
  PROVE  /\ proc \in Proc /\ proc.addr \in -1 .. Width /\ proc.inse_addr \in Slots
         /\ proc.data \in Data /\ proc.inse_data \in Data /\ proc.read_addr \in Int
         /\ proc.inse \in {0, 1} /\ proc.remo \in {0, 1}
         /\ \A i \in Slots : RAM[i] \in Data
         /\ Count_reg \in 0 .. Width /\ read_data_reg \in Data /\ Data_IN \in Data
         /\ Address \in 0 .. Width - 1
  BY DEF TypeOK, Proc, Slots

LEMMA Saved ==
  ASSUME TypeOK, NEW p, p = [proc EXCEPT !.save = 0]
  PROVE  /\ p \in Proc /\ p.save = 0 /\ p.addr = proc.addr /\ p.data = proc.data
         /\ p.read_addr = proc.read_addr /\ p.inse = proc.inse /\ p.remo = proc.remo
         /\ p.inse_data = proc.inse_data /\ p.inse_addr = proc.inse_addr
  BY DEF TypeOK, Proc

LEMMA WrittenType ==
  ASSUME IInv
  PROVE  Written \in Proc
<1> DEFINE p == [proc EXCEPT !.save = 0]
<1>1. /\ p \in Proc /\ p.addr = proc.addr /\ p.inse = proc.inse /\ p.remo = proc.remo
      /\ p.inse_data = proc.inse_data /\ p.inse_addr = proc.inse_addr
  BY Saved DEF IInv
<1>2. /\ proc \in Proc /\ proc.addr \in -1 .. Width /\ proc.inse_addr \in Slots
      /\ proc.inse_addr \in 0 .. Width - 1
      /\ proc.inse_data \in Data /\ Count_reg \in 0 .. Width /\ Data_IN \in Data
      /\ read_data_reg \in Data /\ Address \in Slots /\ Address \in 0 .. Width - 1
  BY Fields DEF IInv, Slots
<1> HIDE DEF p
<1>3. CASE Adding
  <2>1. Count_reg \in -1 .. Width
    BY <1>2, WidthNat
  <2>2. [p EXCEPT !.addr = Count_reg, !.data = Data_IN, !.save = 1] \in Proc
    BY <1>1, <1>2, <2>1 DEF Proc
  <2> QED BY <1>3, <2>2, WrittenAdd DEF p
<1>4. CASE Inserting
  <2>1. Count_reg + 1 \in -1 .. Width /\ Count_reg - 1 \in Int
    BY <1>2, <1>4, WidthNat DEF Inserting
  <2>2. [proc EXCEPT !.save = 0, !.inse = 1, !.inse_data = Data_IN, !.inse_addr = Address,
                     !.addr = Count_reg + 1, !.read_addr = Count_reg - 1] \in Proc
    BY <1>2, <2>1 DEF Proc
  <2> QED BY <1>4, <2>2, WrittenInsertStart
<1>5. CASE Removing
  <2>1. Address - 1 \in -1 .. Width /\ Address + 1 \in Int
    BY <1>2, WidthNat
  <2>2. /\ [proc EXCEPT !.save = 0, !.addr = Address - 1, !.remo = 1,
                        !.read_addr = Address + 1] \in Proc
        /\ [proc EXCEPT !.save = 0, !.addr = Address - 1] \in Proc
    BY <1>2, <2>1 DEF Proc
  <2> QED BY <1>5, <2>2, WrittenRemoveStart
<1>6. CASE Quiet /\ ~Adding /\ ~Inserting /\ ~Removing
  BY <1>1, <1>6, WrittenQuiet, SMTT(20) DEF p
<1>7. CASE proc.inse = 1
  <2>1. p.addr - 1 \in -1 .. Width /\ p.addr - 3 \in Int
    BY <1>1, <1>2, <1>7, WidthNat DEF IInv, Moving
  <2>2. Written = InsertMove(p)
    BY <1>7, WrittenInsertMove DEF p
  <2> QED BY <1>1, <1>2, <1>7, <2>1, <2>2, EditWrite DEF InsertMove
<1>8. CASE proc.remo = 1
  <2>1. p.addr + 1 \in -1 .. Width /\ p.addr + 3 \in Int
    BY <1>1, <1>2, <1>8, WidthNat DEF IInv, Moving
  <2>2. Written = RemoveMove(p)
    BY <1>8, WrittenRemoveMove DEF p
  <2> QED BY <1>1, <1>2, <1>8, <2>1, <2>2, EditWrite DEF RemoveMove
<1> QED BY <1>3, <1>4, <1>5, <1>6, <1>7, <1>8, Situations

LEMMA BlockType ==
  ASSUME IInv, NEW a \in Int, NEW b \in BlockAt(a)
  PROVE  b \in Data /\ (a \in Slots => b = RAM[a])
  BY DEF IInv, TypeOK, BlockAt

LEMMA TypeStep == IInv /\ [Next]_vars => TypeOK'
<1> SUFFICES ASSUME IInv, [Next]_vars PROVE TypeOK'
  OBVIOUS
<1>1. CASE UNCHANGED vars
  BY <1>1 DEF IInv, TypeOK, vars, ports, signals
<1>2. CASE User /\ Clock
  <2>1. Operation' \in Operations /\ Address' \in Slots /\ Data_IN' \in Data
        /\ Operation_Reg' \in Operations
    BY <1>2 DEF User, Clock, IInv, TypeOK, Operations
  <2>2. Written \in Proc
    BY WrittenType
  <2>3. ReadStart(Written) \in Proc
    <3>1. Address \in Int
      BY DEF IInv, TypeOK, Slots
    <3>2. [Written EXCEPT !.read_addr = Address] \in Proc
      BY <2>2, <3>1 DEF Proc
    <3> QED BY <2>2, <3>2 DEF ReadStart
  <2>4. proc' \in Proc
    BY <1>2, <2>3 DEF Clock
  <2>5. RAM' \in [Slots -> Data]
    BY <1>2, <2>2 DEF Clock, IInv, TypeOK, Proc
  <2>6. Count_reg' \in 0 .. Width
    BY <1>2, WidthNat DEF Clock, Adding, Inserting, Removing, IInv, TypeOK
  <2>7. read_data_reg' \in Data
    BY <1>2, <2>3, BlockType DEF Clock, Proc
  <2>8. read_en' \in {0, 1} /\ Busy' \in {0, 1} /\ data_out_reg' \in Data
    BY <1>2 DEF Clock, Data_OUT, IInv, TypeOK
  <2> QED BY <2>1, <2>4, <2>5, <2>6, <2>7, <2>8 DEF TypeOK
<1> QED BY <1>1, <1>2 DEF Next

(* The next clock starts an operation only when nothing is moving.         *)
LEMMA UserStep ==
  ASSUME IInv, User, Clock
  PROVE  Operation' # "None" /\ Operation_Reg' # Operation'
           => /\ Operation = "None" /\ Busy = 0
              /\ \A op \in Operations \ {"None"} : ~Starts(op)
  BY DEF User, Clock, Starts, IInv, TypeOK

(* The registers after a clock, field by field.                            *)
LEMMA After ==
  ASSUME IInv, Clock
  PROVE  /\ proc'.addr = Written.addr /\ proc'.inse = Written.inse
         /\ proc'.remo = Written.remo /\ proc'.inse_addr = Written.inse_addr
         /\ proc'.inse_data = Written.inse_data
         /\ ~Starts("Read") =>
              /\ Written.read_addr \in Slots => read_data_reg' = RAM[Written.read_addr]
         /\ Written.save = 0 => RAM' = RAM
         /\ Written.save = 1 => RAM' = [RAM EXCEPT ![Written.addr] = Written.data]
         /\ Written.inse \in {0, 1} /\ Written.remo \in {0, 1}
         /\ Written.read_addr \in Int
<1>1. Written \in Proc
  BY WrittenType
<1>2. proc' = ReadStart(Written)
  BY DEF Clock
<1>3. /\ proc'.addr = Written.addr /\ proc'.inse = Written.inse
      /\ proc'.remo = Written.remo /\ proc'.inse_addr = Written.inse_addr
      /\ proc'.inse_data = Written.inse_data
  BY <1>1, <1>2 DEF ReadStart, Proc
<1>4. ASSUME ~Starts("Read"), Written.read_addr \in Slots
      PROVE  read_data_reg' = RAM[Written.read_addr]
  <2>1. read_data_reg' \in BlockAt(Written.read_addr)
    BY <1>4 DEF Clock, ReadStart
  <2> QED BY <1>4, <2>1 DEF BlockAt
<1>5. /\ Written.save = 0 => RAM' = RAM
      /\ Written.save = 1 => RAM' = [RAM EXCEPT ![Written.addr] = Written.data]
  BY DEF Clock
<1>6. Written.inse \in {0, 1} /\ Written.remo \in {0, 1} /\ Written.read_addr \in Int
  BY <1>1 DEF Proc
<1> QED BY <1>3, <1>4, <1>5, <1>6

LEMMA AfterAdd ==
  ASSUME IInv, Clock, Adding
  PROVE  /\ proc'.inse = 0 /\ proc'.remo = 0
         /\ RAM' = [RAM EXCEPT ![Count_reg] = Data_IN]
         /\ Count_reg' = Count_reg + 1
<1>1. Quiet /\ ~Inserting /\ ~Removing /\ ~Starts("Clear")
  BY StartsAlone DEF Adding, Inserting, Removing, Operations
<1>2. proc \in Proc
  BY DEF IInv, TypeOK
<1>3. /\ Written.inse = 0 /\ Written.remo = 0 /\ Written.save = 1
      /\ Written.addr = Count_reg /\ Written.data = Data_IN
  BY <1>1, <1>2, WrittenAdd DEF Quiet, Proc
<1>4. Count_reg' = Count_reg + 1
  BY <1>1 DEF Clock
<1> QED BY <1>3, <1>4, After

LEMMA AfterInsertStart ==
  ASSUME IInv, Clock, Inserting
  PROVE  /\ proc'.inse = 1 /\ proc'.remo = 0 /\ proc'.inse_data = Data_IN
         /\ proc'.inse_addr = Address /\ proc'.addr = Count_reg + 1
         /\ read_data_reg' = RAM[Count_reg - 1] /\ RAM' = RAM
         /\ Count_reg' = Count_reg + 1
<1>1. Quiet /\ ~Starts("Read") /\ ~Adding /\ ~Removing /\ ~Starts("Clear")
  BY StartsAlone DEF Adding, Inserting, Removing, Operations
<1>2. proc \in Proc
  BY DEF IInv, TypeOK
<1>3. /\ Written.inse = 1 /\ Written.remo = 0 /\ Written.save = 0
      /\ Written.inse_data = Data_IN /\ Written.inse_addr = Address
      /\ Written.addr = Count_reg + 1 /\ Written.read_addr = Count_reg - 1
  BY <1>1, <1>2, WrittenInsertStart DEF Quiet, Proc
<1>4. Count_reg' = Count_reg + 1
  BY <1>1 DEF Clock
<1>5. Count_reg - 1 \in Slots
  BY WidthNat DEF Inserting, IInv, TypeOK, Slots
<1> QED BY <1>1, <1>3, <1>4, <1>5, After

LEMMA AfterRemoveStart ==
  ASSUME IInv, Clock, Removing
  PROVE  /\ proc'.inse = 0 /\ proc'.addr = Address - 1 /\ RAM' = RAM
         /\ Count_reg' = Count_reg - 1
         /\ Address < Count_reg - 1
              => proc'.remo = 1 /\ read_data_reg' = RAM[Address + 1]
         /\ ~(Address < Count_reg - 1) => proc'.remo = 0
<1>1. Quiet /\ ~Starts("Read") /\ ~Adding /\ ~Inserting /\ ~Starts("Clear")
  BY StartsAlone DEF Adding, Inserting, Removing, Operations
<1>2. proc \in Proc
  BY DEF IInv, TypeOK
<1>3. /\ Written.inse = 0 /\ Written.save = 0 /\ Written.addr = Address - 1
      /\ Address < Count_reg - 1 => Written.remo = 1 /\ Written.read_addr = Address + 1
      /\ ~(Address < Count_reg - 1) => Written.remo = 0
  BY <1>1, <1>2, WrittenRemoveStart DEF Quiet, Proc
<1>4. Count_reg' = Count_reg - 1
  BY <1>1 DEF Clock
<1>5. Address < Count_reg - 1 => Address + 1 \in Slots
  BY WidthNat DEF Removing, IInv, TypeOK, Slots
<1> QED BY <1>1, <1>3, <1>4, <1>5, After

LEMMA AfterQuiet ==
  ASSUME IInv, Clock, Quiet, ~Adding, ~Inserting, ~Removing
  PROVE  /\ proc'.inse = 0 /\ proc'.remo = 0 /\ RAM' = RAM
         /\ Count_reg' = IF Starts("Clear") THEN 0 ELSE Count_reg
<1>1. proc \in Proc
  BY DEF IInv, TypeOK
<1>2. Written.inse = 0 /\ Written.remo = 0 /\ Written.save = 0
  BY <1>1, WrittenQuiet DEF Quiet, Proc
<1>3. Count_reg' = IF Starts("Clear") THEN 0 ELSE Count_reg
  BY DEF Clock
<1> QED BY <1>2, <1>3, After

LEMMA MovingAlone ==
  ASSUME IInv, proc.inse = 1 \/ proc.remo = 1
  PROVE  /\ ~Adding /\ ~Inserting /\ ~Removing
         /\ ~Starts("Clear") /\ ~Starts("Read")
  BY StartsAlone DEF Quiet, Adding, Inserting, Removing, Operations

LEMMA AfterInsertMove ==
  ASSUME IInv, Clock, proc.inse = 1
  PROVE  /\ proc'.addr = proc.addr - 1 /\ proc'.remo = 0 /\ Count_reg' = Count_reg
         /\ proc'.inse_data = proc.inse_data /\ proc'.inse_addr = proc.inse_addr
         /\ proc.addr - 1 > proc.inse_addr
              => /\ proc'.inse = 1
                 /\ RAM' = [RAM EXCEPT ![proc.addr - 1] = read_data_reg]
                 /\ proc.addr - 3 \in Slots => read_data_reg' = RAM[proc.addr - 3]
         /\ ~(proc.addr - 1 > proc.inse_addr)
              => /\ proc'.inse = 0
                 /\ RAM' = [RAM EXCEPT ![proc.addr - 1] = proc.inse_data]
<1> DEFINE p == [proc EXCEPT !.save = 0]
<1>1. /\ p \in Proc /\ p.addr = proc.addr /\ p.inse = proc.inse /\ p.remo = proc.remo
      /\ p.inse_data = proc.inse_data /\ p.inse_addr = proc.inse_addr
  BY Saved DEF IInv
<1>2. Written = InsertMove(p)
  BY WrittenInsertMove DEF p
<1> HIDE DEF p
<1>3. proc.remo = 0
  BY DEF IInv, Moving
<1>4. /\ Written.addr = proc.addr - 1 /\ Written.remo = 0 /\ Written.save = 1
      /\ Written.inse_data = proc.inse_data /\ Written.inse_addr = proc.inse_addr
      /\ proc.addr - 1 > proc.inse_addr
           => /\ Written.inse = 1 /\ Written.data = read_data_reg
              /\ Written.read_addr = proc.addr - 3
      /\ ~(proc.addr - 1 > proc.inse_addr)
           => Written.inse = 0 /\ Written.data = proc.inse_data
  BY <1>1, <1>2, <1>3 DEF InsertMove, Proc
<1>5. Count_reg' = Count_reg
  BY MovingAlone DEF Clock
<1> QED BY <1>4, <1>5, After, MovingAlone

LEMMA AfterRemoveMove ==
  ASSUME IInv, Clock, proc.remo = 1
  PROVE  /\ proc'.addr = proc.addr + 1 /\ proc'.inse = 0 /\ Count_reg' = Count_reg
         /\ RAM' = [RAM EXCEPT ![proc.addr + 1] = read_data_reg]
         /\ proc.addr + 1 < Count_reg - 1
              => /\ proc'.remo = 1
                 /\ proc.addr + 3 \in Slots => read_data_reg' = RAM[proc.addr + 3]
         /\ ~(proc.addr + 1 < Count_reg - 1) => proc'.remo = 0
<1> DEFINE p == [proc EXCEPT !.save = 0]
<1>1. /\ p \in Proc /\ p.addr = proc.addr /\ p.inse = proc.inse /\ p.remo = proc.remo
  BY Saved DEF IInv
<1>2. Written = RemoveMove(p)
  BY WrittenRemoveMove DEF p
<1> HIDE DEF p
<1>3. proc.inse = 0
  BY DEF IInv, Moving, TypeOK, Proc
<1>4. /\ Written.addr = proc.addr + 1 /\ Written.inse = 0 /\ Written.save = 1
      /\ Written.data = read_data_reg
      /\ proc.addr + 1 < Count_reg - 1
           => Written.remo = 1 /\ Written.read_addr = proc.addr + 3
      /\ ~(proc.addr + 1 < Count_reg - 1) => Written.remo = 0
  BY <1>1, <1>2, <1>3 DEF RemoveMove, Proc
<1>5. Count_reg' = Count_reg
  BY MovingAlone DEF Clock
<1> QED BY <1>4, <1>5, After, MovingAlone

----------------------------------------------------------------------------
LEMMA MovingStep == IInv /\ [Next]_vars => Moving'
<1> SUFFICES ASSUME IInv, [Next]_vars PROVE Moving'
  OBVIOUS
<1>1. CASE UNCHANGED vars
  BY <1>1 DEF IInv, Moving, vars, ports, signals
<1>2. CASE User /\ Clock
  <2>1. Busy' = IF proc'.inse = 1 \/ proc'.remo = 1 THEN 1 ELSE 0
    BY <1>2, After DEF Clock
  <2>2. Operation' # "None" /\ Operation_Reg' # Operation' => Busy' = 0
    <3>1. SUFFICES ASSUME Operation' # "None", Operation_Reg' # Operation'
                   PROVE  Busy' = 0
      OBVIOUS
    <3>2. Busy = 0 /\ \A op \in Operations \ {"None"} : ~Starts(op)
      BY <1>2, <3>1, UserStep
    <3>3. Quiet
      BY <3>2 DEF IInv, Moving, TypeOK, Proc, Quiet
    <3> QED BY <1>2, <2>1, <3>2, <3>3, NoStart, AfterQuiet
  <2>3. proc'.inse = 1 => /\ proc'.remo = 0
                          /\ proc'.inse_addr < proc'.addr
                          /\ proc'.addr <= Count_reg'
                          /\ proc'.addr - 2 >= proc'.inse_addr
                               => read_data_reg' = RAM'[proc'.addr - 2]
    <3> USE <1>2, Fields, WidthNat DEF IInv
    <3>1. CASE Adding  BY <3>1, AfterAdd
    <3>2. CASE Inserting  BY <3>2, AfterInsertStart DEF Inserting
    <3>3. CASE Removing  BY <3>3, AfterRemoveStart
    <3>4. CASE Quiet /\ ~Adding /\ ~Inserting /\ ~Removing
      BY <3>4, AfterQuiet
    <3>5. CASE proc.inse = 1
      <4>1. /\ proc.addr \in Int /\ proc.inse_addr \in Nat /\ Count_reg \in 0 .. Width
            /\ proc.inse_addr < proc.addr /\ proc.addr <= Count_reg
            /\ RAM \in [Slots -> Data]
        BY <3>5 DEF Moving, TypeOK, Slots
      <4>2. CASE proc.addr - 1 > proc.inse_addr
        <5>1. /\ proc'.addr = proc.addr - 1 /\ proc'.remo = 0 /\ Count_reg' = Count_reg
              /\ proc'.inse_addr = proc.inse_addr
              /\ RAM' = [RAM EXCEPT ![proc.addr - 1] = read_data_reg]
              /\ proc.addr - 3 \in Slots => read_data_reg' = RAM[proc.addr - 3]
          BY <3>5, <4>2, AfterInsertMove
        <5>2. ASSUME proc.addr - 3 >= proc.inse_addr
              PROVE  read_data_reg' = RAM'[proc.addr - 3]
          <6>1. proc.addr - 3 \in Slots /\ proc.addr - 3 # proc.addr - 1
            BY <4>1, <5>2 DEF Slots
          <6> QED BY <4>1, <5>1, <6>1
        <5> QED BY <4>1, <4>2, <5>1, <5>2
      <4>3. CASE ~(proc.addr - 1 > proc.inse_addr)
        BY <3>5, <4>3, AfterInsertMove
      <4> QED BY <4>2, <4>3
    <3>6. CASE proc.remo = 1  BY <3>6, AfterRemoveMove
    <3> QED BY <3>1, <3>2, <3>3, <3>4, <3>5, <3>6, Situations
  <2>4. proc'.remo = 1 => /\ proc'.addr + 1 < Count_reg'
                          /\ Count_reg' < Width
                          /\ read_data_reg' = RAM'[proc'.addr + 2]
    <3> USE <1>2, Fields, WidthNat DEF IInv
    <3>1. CASE Adding  BY <3>1, AfterAdd
    <3>2. CASE Inserting  BY <3>2, AfterInsertStart
    <3>3. CASE Removing  BY <3>3, AfterRemoveStart DEF Removing
    <3>4. CASE Quiet /\ ~Adding /\ ~Inserting /\ ~Removing
      BY <3>4, AfterQuiet
    <3>5. CASE proc.inse = 1  BY <3>5, AfterInsertMove
    <3>6. CASE proc.remo = 1
      <4>1. /\ proc.addr \in -1 .. Width /\ Count_reg \in 0 .. Width
            /\ proc.addr + 1 < Count_reg /\ Count_reg < Width
            /\ RAM \in [Slots -> Data]
        BY <3>6 DEF Moving, TypeOK, Slots
      <4>2. CASE proc.addr + 1 < Count_reg - 1
        <5>1. /\ proc'.addr = proc.addr + 1 /\ Count_reg' = Count_reg
              /\ RAM' = [RAM EXCEPT ![proc.addr + 1] = read_data_reg]
              /\ proc.addr + 3 \in Slots => read_data_reg' = RAM[proc.addr + 3]
          BY <3>6, <4>2, AfterRemoveMove
        <5>2. proc.addr + 3 \in Slots /\ proc.addr + 3 # proc.addr + 1
          BY <4>1, <4>2, SMTT(30) DEF Slots
        <5>3. read_data_reg' = RAM'[proc.addr + 3]
          <6>1. RAM'[proc.addr + 3] = RAM[proc.addr + 3]
            BY <4>1, <5>1, <5>2
          <6> QED BY <5>1, <5>2, <6>1, Zenon
        <5> QED BY <4>1, <4>2, <5>1, <5>3
      <4>3. CASE ~(proc.addr + 1 < Count_reg - 1)
        BY <3>6, <4>3, AfterRemoveMove
      <4> QED BY <4>2, <4>3
    <3> QED BY <3>1, <3>2, <3>3, <3>4, <3>5, <3>6, Situations
  <2> QED BY <2>1, <2>2, <2>3, <2>4 DEF Moving
<1> QED BY <1>1, <1>2 DEF Next

(* The registers keep their types, and a move knows what it has still to   *)
(* move, in every reachable state.                                         *)
THEOREM Invariance == Spec => []IInv
<1>1. Init => IInv
  BY TypeInit, MovingInit DEF IInv
<1>2. IInv /\ [Next]_vars => IInv'
  BY TypeStep, MovingStep DEF IInv
<1> QED BY <1>1, <1>2, PTL DEF Spec

----------------------------------------------------------------------------
(* The refinement: what each situation does to the list behind the RAM.    *)

LEMMA OutAfter ==
  ASSUME IInv, Clock
  PROVE  /\ ~Starts("Read") => Data_OUT' = Data_OUT
         /\ Starts("Read") => Data_OUT' = RAM[Address]
<1>1. CASE ~Starts("Read")
  BY <1>1 DEF Clock, Data_OUT
<1>2. CASE Starts("Read")
  <2>1. Written \in Proc
    BY WrittenType
  <2>2. ReadStart(Written).read_addr = Address
    BY <1>2, <2>1 DEF ReadStart, Proc
  <2>3. read_data_reg' \in BlockAt(Address) /\ read_en' = 1
    BY <1>2, <2>2 DEF Clock
  <2> QED BY <1>2, <2>3 DEF BlockAt, Data_OUT, IInv, TypeOK
<1> QED BY <1>1, <1>2

LEMMA QuietItems ==
  /\ Quiet => \A i \in Slots : Item(i) = RAM[i]
  /\ proc'.inse = 0 /\ proc'.remo = 0 => \A i \in Slots : Item(i)' = RAM'[i]
  BY DEF Quiet, Item

(* A clock that only moves blocks changes no item.                         *)
LEMMA InsertMoveItems ==
  ASSUME IInv, Clock, proc.inse = 1, NEW i \in 0 .. Count_reg - 1
  PROVE  Item(i)' = Item(i)
<1>1. /\ proc.addr \in Int /\ proc.inse_addr \in Nat /\ Count_reg \in 0 .. Width
      /\ proc.inse_addr < proc.addr /\ proc.addr <= Count_reg /\ proc.remo = 0
      /\ RAM \in [Slots -> Data] /\ Width \in Nat
      /\ proc.addr - 2 >= proc.inse_addr => read_data_reg = RAM[proc.addr - 2]
  BY Fields, WidthNat DEF IInv, Moving, TypeOK, Slots
<1>2. i \in Slots /\ i \in Int /\ proc.addr - 1 \in Slots
  BY <1>1 DEF Slots
<1>3. CASE proc.addr - 1 > proc.inse_addr
  <2>1. /\ proc'.addr = proc.addr - 1 /\ proc'.remo = 0 /\ proc'.inse = 1
        /\ proc'.inse_data = proc.inse_data /\ proc'.inse_addr = proc.inse_addr
        /\ RAM' = [RAM EXCEPT ![proc.addr - 1] = RAM[proc.addr - 2]]
    BY <1>1, <1>3, AfterInsertMove
  <2>2. CASE i = proc.addr - 1
    BY <1>1, <1>2, <1>3, <2>1, <2>2 DEF Item
  <2>3. CASE i # proc.addr - 1 /\ i > proc.inse_addr /\ i < proc.addr
    <3>1. RAM'[i - 1] = RAM[i - 1]
      BY <1>1, <1>2, <2>1, <2>3 DEF Slots
    <3> QED BY <1>1, <1>2, <2>1, <2>3, <3>1 DEF Item
  <2>4. CASE i <= proc.inse_addr \/ i >= proc.addr
    BY <1>1, <1>2, <1>3, <2>1, <2>4 DEF Item
  <2> QED BY <1>1, <1>2, <2>2, <2>3, <2>4
<1>4. CASE ~(proc.addr - 1 > proc.inse_addr)
  <2>1. /\ proc'.remo = 0 /\ proc'.inse = 0
        /\ RAM' = [RAM EXCEPT ![proc.inse_addr] = proc.inse_data]
    BY <1>1, <1>4, AfterInsertMove
  <2> QED BY <1>1, <1>2, <1>4, <2>1 DEF Item
<1> QED BY <1>3, <1>4

LEMMA RemoveMoveItems ==
  ASSUME IInv, Clock, proc.remo = 1, NEW i \in 0 .. Count_reg - 1
  PROVE  Item(i)' = Item(i)
<1>1. /\ proc.addr \in -1 .. Width /\ Count_reg \in 0 .. Width /\ Width \in Nat
      /\ proc.addr + 1 < Count_reg /\ Count_reg < Width /\ proc.inse = 0
      /\ RAM \in [Slots -> Data] /\ read_data_reg = RAM[proc.addr + 2]
  BY Fields, WidthNat DEF IInv, Moving, TypeOK
<1>2. i \in Slots /\ i \in Int /\ i + 1 \in Slots /\ proc.addr + 1 \in Slots
  BY <1>1 DEF Slots
<1>3. /\ proc'.addr = proc.addr + 1 /\ proc'.inse = 0
      /\ RAM' = [RAM EXCEPT ![proc.addr + 1] = RAM[proc.addr + 2]]
      /\ proc.addr + 1 < Count_reg - 1 => proc'.remo = 1
      /\ ~(proc.addr + 1 < Count_reg - 1) => proc'.remo = 0
  BY <1>1, AfterRemoveMove
<1>4. CASE i <= proc.addr
  BY <1>1, <1>2, <1>3, <1>4 DEF Item
<1>5. CASE i = proc.addr + 1
  BY <1>1, <1>2, <1>3, <1>5 DEF Item
<1>6. CASE i > proc.addr + 1
  <2>1. RAM'[i + 1] = RAM[i + 1] /\ proc'.remo = 1
    BY <1>1, <1>2, <1>3, <1>6 DEF Slots
  <2> QED BY <1>1, <1>2, <1>3, <1>6, <2>1 DEF Item
<1> QED BY <1>1, <1>2, <1>4, <1>5, <1>6

(* The conditions of the process are those of the list.                    *)
LEMMA SameConditions ==
  ASSUME IInv
  PROVE  /\ Adding <=> List!CanAdd
         /\ Inserting <=> List!CanInsert
         /\ Removing <=> List!CanRemove
         /\ \A o : Starts(o) <=> List!Requested(o)
<1>1. Address \in Nat /\ Count_reg \in Nat
  BY WidthNat DEF IInv, TypeOK, Slots
<1>2. \A o : Starts(o) <=> List!Requested(o)
  BY DEF Starts, List!Requested
<1>3. Address \in 0 .. Count_reg - 1 <=> Address < Count_reg
  BY <1>1
<1>4. Address < Count_reg => Count_reg > 0
  BY <1>1
<1> QED BY <1>2, <1>3, <1>4
        DEF Adding, Inserting, Removing, List!CanAdd, List!CanInsert, List!CanRemove, List!Used

(* Each situation as an operation of the list.                             *)
LEMMA AddImplements ==
  ASSUME IInv, Clock, Adding
  PROVE  List!Add
<1>1. Count_reg \in 0 .. Width /\ Count_reg < Width /\ RAM \in [Slots -> Data] /\ Width \in Nat
  BY WidthNat DEF IInv, TypeOK, Adding
<1>2. Quiet /\ ~Starts("Read")
  BY StartsAlone DEF Adding, Operations
<1>3. /\ proc'.inse = 0 /\ proc'.remo = 0
      /\ RAM' = [RAM EXCEPT ![Count_reg] = Data_IN] /\ Count_reg' = Count_reg + 1
  BY AfterAdd
<1>4. ASSUME NEW i \in 0 .. Count_reg
      PROVE  Item(i)' = IF i < Count_reg THEN Item(i) ELSE Data_IN
  <2>1. i \in Slots /\ i \in Int
    BY <1>1 DEF Slots
  <2>2. Item(i) = RAM[i] /\ Item(i)' = RAM'[i]
    BY <1>2, <1>3, <2>1, QuietItems
  <2>3. RAM'[i] = IF i = Count_reg THEN Data_IN ELSE RAM[i]
    BY <1>1, <1>3, <2>1
  <2> QED BY <1>1, <2>1, <2>2, <2>3
<1>5. [i \in 0 .. Count_reg - 1 |-> Item(i)]'
        = [i \in 0 .. Count_reg |->
             IF i < Count_reg THEN [j \in 0 .. Count_reg - 1 |-> Item(j)][i] ELSE Data_IN]
  <2>1. Count_reg' - 1 = Count_reg
    BY <1>1, <1>3
  <2>2. \A i \in 0 .. Count_reg : i < Count_reg => i \in 0 .. Count_reg - 1
    BY <1>1
  <2> QED BY <1>4, <2>1, <2>2
<1> QED BY <1>1, <1>2, <1>3, <1>5, SameConditions, OutAfter DEF List!Add

LEMMA InsertImplements ==
  ASSUME IInv, Clock, Inserting
  PROVE  List!Insert
<1>1. /\ Count_reg \in 0 .. Width /\ Count_reg < Width /\ RAM \in [Slots -> Data]
      /\ Width \in Nat /\ Address \in 0 .. Count_reg - 1
  BY WidthNat DEF IInv, TypeOK, Inserting, Slots
<1>2. Quiet /\ ~Starts("Read")
  BY StartsAlone DEF Inserting, Operations
<1>3. /\ proc'.inse = 1 /\ proc'.remo = 0 /\ proc'.inse_data = Data_IN
      /\ proc'.inse_addr = Address /\ proc'.addr = Count_reg + 1
      /\ RAM' = RAM /\ Count_reg' = Count_reg + 1
  BY AfterInsertStart
<1>4. ASSUME NEW i \in 0 .. Count_reg
      PROVE  Item(i)' = IF i < Address THEN Item(i)
                        ELSE IF i = Address THEN Data_IN ELSE Item(i - 1)
  <2>1. i \in Slots /\ i \in Int /\ i < Count_reg + 1 /\ (i > Address => i - 1 \in Slots)
    BY <1>1 DEF Slots
  <2>2. Item(i) = RAM[i] /\ (i > Address => Item(i - 1) = RAM[i - 1])
    BY <1>2, <2>1, QuietItems
  <2> QED BY <1>1, <1>3, <2>1, <2>2 DEF Item
<1>5. [i \in 0 .. Count_reg - 1 |-> Item(i)]'
        = [i \in 0 .. Count_reg |->
             IF i < Address THEN [j \in 0 .. Count_reg - 1 |-> Item(j)][i]
             ELSE IF i = Address THEN Data_IN
             ELSE [j \in 0 .. Count_reg - 1 |-> Item(j)][i - 1]]
  <2>1. Count_reg' - 1 = Count_reg
    BY <1>1, <1>3
  <2>2. \A i \in 0 .. Count_reg : /\ i < Address => i \in 0 .. Count_reg - 1
                                  /\ i > Address => i - 1 \in 0 .. Count_reg - 1
                                  /\ i \in Int
    BY <1>1
  <2>3. Address \in Int
    BY <1>1
  <2> QED BY <1>4, <2>1, <2>2, <2>3
<1> QED BY <1>1, <1>2, <1>3, <1>5, SameConditions, OutAfter DEF List!Insert

LEMMA RemoveImplements ==
  ASSUME IInv, Clock, Removing
  PROVE  List!Remove
<1>1. /\ Count_reg \in 0 .. Width /\ Count_reg > 0 /\ RAM \in [Slots -> Data]
      /\ Width \in Nat /\ Address \in 0 .. Count_reg - 1
  BY WidthNat DEF IInv, TypeOK, Removing, Slots
<1>2. Quiet /\ ~Starts("Read")
  BY StartsAlone DEF Removing, Operations
<1>3. /\ proc'.inse = 0 /\ proc'.addr = Address - 1 /\ RAM' = RAM
      /\ Count_reg' = Count_reg - 1
      /\ Address < Count_reg - 1 => proc'.remo = 1
      /\ ~(Address < Count_reg - 1) => proc'.remo = 0
  BY AfterRemoveStart
<1>4. ASSUME NEW i \in 0 .. Count_reg - 2
      PROVE  Item(i)' = IF i < Address THEN Item(i) ELSE Item(i + 1)
  <2>1. i \in Slots /\ i \in Int /\ i + 1 \in Slots
    BY <1>1 DEF Slots
  <2>2. Item(i) = RAM[i] /\ Item(i + 1) = RAM[i + 1]
    BY <1>2, <2>1, QuietItems
  <2> QED BY <1>1, <1>3, <2>1, <2>2 DEF Item
<1>5. [i \in 0 .. Count_reg - 1 |-> Item(i)]'
        = [i \in 0 .. Count_reg - 2 |->
             IF i < Address THEN [j \in 0 .. Count_reg - 1 |-> Item(j)][i]
             ELSE [j \in 0 .. Count_reg - 1 |-> Item(j)][i + 1]]
  <2>1. Count_reg' - 1 = Count_reg - 2
    BY <1>1, <1>3
  <2>2. \A i \in 0 .. Count_reg - 2 : i \in 0 .. Count_reg - 1 /\ i + 1 \in 0 .. Count_reg - 1
    BY <1>1
  <2> QED BY <1>4, <2>1, <2>2
<1> QED BY <1>1, <1>2, <1>3, <1>5, SameConditions, OutAfter DEF List!Remove

LEMMA ClearImplements ==
  ASSUME IInv, Clock, Starts("Clear")
  PROVE  List!Clear
<1>1. Quiet /\ ~Starts("Read") /\ ~Adding /\ ~Inserting /\ ~Removing
  BY StartsAlone DEF Adding, Inserting, Removing, Operations
<1>2. Count_reg' = 0
  BY <1>1, AfterQuiet
<1>3. [i \in 0 .. Count_reg - 1 |-> Item(i)]' = [i \in 0 .. Count_reg' - 1 |-> 0]
  BY <1>2
<1> QED BY <1>1, <1>2, <1>3, SameConditions, OutAfter DEF List!Clear

LEMMA ReadImplements ==
  ASSUME IInv, Clock, Starts("Read")
  PROVE  List!Read
<1>1. Quiet /\ ~Starts("Clear") /\ ~Adding /\ ~Inserting /\ ~Removing
  BY StartsAlone DEF Adding, Inserting, Removing, Operations
<1>2. /\ Address \in Slots /\ Address \in Int /\ Count_reg \in 0 .. Width
      /\ Width \in Nat /\ RAM \in [Slots -> Data]
  BY WidthNat DEF IInv, TypeOK, Slots
<1>3. proc'.inse = 0 /\ proc'.remo = 0 /\ RAM' = RAM /\ Count_reg' = Count_reg
  BY <1>1, AfterQuiet
<1>4. ASSUME NEW i \in 0 .. Count_reg - 1
      PROVE  Item(i) = RAM[i] /\ Item(i)' = Item(i)
  <2>1. i \in Slots
    BY <1>2 DEF Slots
  <2> QED BY <1>1, <1>3, <2>1, QuietItems
<1>5. [i \in 0 .. Count_reg - 1 |-> Item(i)]' = [i \in 0 .. Count_reg - 1 |-> Item(i)]
  BY <1>3, <1>4
<1>6. Data_OUT' = RAM[Address] /\ RAM[Address] \in Data
  BY <1>2, OutAfter
<1> QED BY <1>2, <1>3, <1>4, <1>5, <1>6, SameConditions DEF List!Read, List!Used

LEMMA StutterImplements ==
  ASSUME IInv, Clock, ~Adding, ~Inserting, ~Removing, ~Starts("Clear"), ~Starts("Read")
  PROVE  List!Nothing
<1>1. Count_reg' = Count_reg
  BY DEF Clock
<1>2. ASSUME NEW i \in 0 .. Count_reg - 1
      PROVE  Item(i)' = Item(i)
  <2>1. CASE Quiet
    <3>1. i \in Slots
      BY WidthNat DEF IInv, TypeOK, Slots
    <3> QED BY <2>1, <3>1, AfterQuiet, QuietItems
  <2>2. CASE proc.inse = 1
    BY <2>2, InsertMoveItems
  <2>3. CASE proc.remo = 1
    BY <2>3, RemoveMoveItems
  <2> QED BY <2>1, <2>2, <2>3 DEF Quiet, IInv, TypeOK, Proc
<1>3. [i \in 0 .. Count_reg - 1 |-> Item(i)]' = [i \in 0 .. Count_reg - 1 |-> Item(i)]
  BY <1>1, <1>2
<1> QED BY <1>1, <1>3, SameConditions, OutAfter DEF List!Nothing

LEMMA ImplementsStep == IInv /\ IInv' /\ [Next]_vars => [List!ListNext]_(List!list)
<1> SUFFICES ASSUME IInv, IInv', [Next]_vars PROVE [List!ListNext]_(List!list)
  OBVIOUS
<1>1. CASE UNCHANGED vars
  BY <1>1 DEF vars, ports, signals, List!list, Item, Data_OUT
<1>2. CASE Clock
  <2>1. /\ Operation_Reg' = Operation /\ Operation' \in List!Operations
        /\ Address' \in List!Positions /\ Data_IN' \in Data
    BY <1>2 DEF Clock, IInv, TypeOK, Operations, Slots, List!Operations, List!Positions
  <2> USE <1>2 DEF List!ListNext
  <2>2. CASE Adding
    BY <2>1, <2>2, AddImplements
  <2>3. CASE Inserting
    BY <2>1, <2>3, InsertImplements
  <2>4. CASE Removing
    BY <2>1, <2>4, RemoveImplements
  <2>5. CASE Starts("Clear")
    BY <2>1, <2>5, ClearImplements
  <2>6. CASE Starts("Read")
    BY <2>1, <2>6, ReadImplements
  <2>7. CASE ~Adding /\ ~Inserting /\ ~Removing /\ ~Starts("Clear") /\ ~Starts("Read")
    BY <2>1, <2>7, StutterImplements
  <2> QED BY <2>2, <2>3, <2>4, <2>5, <2>6, <2>7
<1> QED BY <1>1, <1>2 DEF Next

LEMMA ImplementsInit == Init => List!ListInit
<1> SUFFICES ASSUME Init PROVE List!ListInit
  OBVIOUS
<1>1. /\ Count_reg = 0 /\ Data_OUT \in Data
      /\ Operation = "None" /\ Operation_Reg = "None" /\ Data_IN \in Data
      /\ Address \in List!Positions
  BY DEF Init, Data_OUT, Slots, List!Positions
<1>2. [i \in 0 .. Count_reg - 1 |-> Item(i)] = [i \in 0 .. Count_reg - 1 |-> 0]
  BY <1>1
<1> QED BY <1>1, <1>2 DEF List!ListInit

(* List_RAM is a list, for every width: each operation that the ports ask  *)
(* for takes effect once and at once, at the Address and with the Data_IN  *)
(* of that clock, and the moves that follow it are not seen.               *)
THEOREM Implementation == Spec => ImplementsList
<1>1. Init => List!ListInit
  BY ImplementsInit
<1>2. IInv /\ IInv' /\ [Next]_vars => [List!ListNext]_(List!list)
  BY ImplementsStep
<1> QED BY <1>1, <1>2, Invariance, PTL DEF Spec, ImplementsList, List!ListSpec

============================================================================
