--------------------------- MODULE I2CStackProofs ---------------------------
(***************************************************************************)
(* Proofs about the I2C stack, for every clock, width of bytes, number of  *)
(* bytes, set of requests and slave.                                       *)
(***************************************************************************)
EXTENDS I2CStack, SequenceTheorems, TLAPS

(* The master of the stack is that of I2CMasterBus, whose user is the      *)
(* controller.                                                             *)
Core == INSTANCE I2CMasterProofs
  WITH Enable <- i2c_ena, Command <- CommandOf(i2c_addr, i2c_rw), Data_WR <- i2c_data_wr,
       Busy <- i2c_busy, Data_RD <- i2c_data_rd, UserBytes <- Bytes

(* What the code needs and does not check: quarters of two clocks and      *)
(* bytes of two bits (I2CMasterBus), requests of two bytes (one byte is    *)
(* sent twice, see the README), and that the first request comes when the  *)
(* Busy of the master is down after a reset, or no register powers up with *)
(* a request.                                                              *)
WithinLimits ==
  /\ Divider >= 2 /\ Width >= 2
  /\ \A r \in Requests : Len(r.writes) + r.reads >= 2
  /\ IF ResetFirst THEN Settle >= Divider ELSE 1 \notin PowerUp

----------------------------------------------------------------------------
(* The invariant.  Last is the number of bytes of the request, Number that *)
(* of the byte that the master is at: the controller counts it when it has *)
(* seen the edge of Busy.                                                  *)

Top  == Width - 1
Bit  == {0, 1}
Last == WR_Bytes + RD_Bytes

Number == IF i2c_busy = 1 /\ busy_prev = 1 THEN busy_cnt ELSE busy_cnt + 1

Events == [kind : {"start", "stop"}]
          \cup [kind : {"command"}, addr : Addresses, rw : Bit, ack : Bit]
          \cup [kind : {"write", "read"}, byte : Bytes, ack : Bit]

UserTypes ==
  /\ Reset \in Bit /\ user \in {"idle", "asked", "waiting"} /\ settle \in 0 .. Settle
  /\ Enable \in Bit /\ Address \in Addresses
  /\ WR_Bytes \in 0 .. Max_Bytes /\ RD_Bytes \in 0 .. Max_Bytes
  /\ Data_WR \in [0 .. Max_Bytes - 1 -> Bytes]

ArrayTypes ==
  /\ ena_prev \in Bit /\ get_data \in Bit /\ Busy \in Bit /\ busy_prev \in Bit
  /\ busy_cnt \in 0 .. 2 * Max_Bytes /\ Data_RD \in [0 .. Max_Bytes - 1 -> Bytes]
  /\ i2c_addr \in Addresses /\ i2c_rw \in Bit

SlaveTypes ==
  /\ old_sda \in Bit /\ old_scl \in Bit /\ mode \in {"off", "command", "write", "read"}
  /\ bits \in Seq(Bit) /\ slave_sda \in Bit /\ hold \in Nat

Types == UserTypes /\ ArrayTypes /\ Core!TypeOK /\ SlaveTypes

(* The request is that of the ports until Busy is down again, and the      *)
(* count is 0 in between.                                                  *)
Asking ==
  /\ Busy = get_data
  /\ get_data = 0 => busy_cnt = 0
  /\ busy_cnt = 0 => busy_prev = 0
  /\ busy_cnt <= Last \/ busy_cnt = 1
  /\ busy_cnt >= Last => busy_cnt = 0 \/ busy_prev = 1
  /\ user = "idle" => Busy = 0
  /\ (Enable = 1 /\ ena_prev = 0) <=> (user = "asked" /\ Busy = 0)
  /\ Reset = 1 => user = "idle" /\ Enable = 0 /\ Busy = 0

AsAsked ==
  user # "idle" =>
    /\ request \in Requests
    /\ Address = request.addr /\ WR_Bytes = Len(request.writes) /\ RD_Bytes = request.reads
    /\ \A i \in 1 .. WR_Bytes : Data_WR[i - 1] = request.writes[i]

----------------------------------------------------------------------------
(* The parts of a step                                                     *)

USE DEF Core!Byte, Core!BitNo, Core!Top, Core!Bit, Bytes, Addresses, Top, Bit

LEMMA SameMaster ==
  /\ Master!SdaOut = Core!SdaOut /\ Master!SclOut = Core!SclOut
  /\ Master!MasterInit <=> Core!MasterInit
  /\ Master!MasterClock(Reset, SDA, SCL) <=> Core!MasterClock(Reset, SDA, SCL)
  /\ Master!timing = Core!timing /\ Master!machine = Core!machine
<1>1. Master!Timing(SCL) <=> Core!Timing(SCL)
  BY DEF Master!Timing, Core!Timing, Master!NextCount, Core!NextCount, Master!Stretched,
         Core!Stretched, Master!Quarter3, Core!Quarter3
<1> USE DEF Master!Byte, Master!BitNo, Master!Top, Master!Bit
<1>2. Master!MasterReset <=> Core!MasterReset
  BY DEF Master!MasterReset, Core!MasterReset
<1> USE DEF Master!Rising, Core!Rising, Master!Falling, Core!Falling
<1>3. /\ Master!Ready <=> Core!Ready
      /\ Master!Start <=> Core!Start
      /\ Master!SendCommand <=> Core!SendCommand
      /\ Master!SlvAck1 <=> Core!SlvAck1
      /\ Master!Wr <=> Core!Wr
      /\ Master!Stop <=> Core!Stop
  BY DEF Master!Ready, Core!Ready, Master!Start, Core!Start, Master!SendCommand,
         Core!SendCommand, Master!ShiftOut, Core!ShiftOut, Master!SlvAck1, Core!SlvAck1,
         Master!Wr, Core!Wr, Master!Stop, Core!Stop
<1>4. /\ Master!Rd <=> Core!Rd
      /\ Master!SlvAck2 <=> Core!SlvAck2
      /\ Master!MstrAck <=> Core!MstrAck
  BY DEF Master!Rd, Core!Rd, Master!Continuing, Core!Continuing, Master!SlvAck2,
         Core!SlvAck2, Master!MstrAck, Core!MstrAck, Master!NextByte, Core!NextByte
<1>5. /\ Master!StartFall <=> Core!StartFall
      /\ Master!AckFall(SDA) <=> Core!AckFall(SDA)
      /\ Master!RdFall(SDA) <=> Core!RdFall(SDA)
      /\ Master!StopFall <=> Core!StopFall
      /\ Master!Hold <=> Core!Hold
  BY DEF Master!StartFall, Core!StartFall, Master!AckFall, Core!AckFall, Master!RdFall,
         Core!RdFall, Master!StopFall, Core!StopFall, Master!Hold, Core!Hold,
         Master!machine, Core!machine
<1>6. Master!Machine(SDA) <=> Core!Machine(SDA)
  BY <1>3, <1>4, <1>5 DEF Master!Machine, Core!Machine
<1> QED
  BY <1>1, <1>2, <1>6
  DEF Master!SdaOut, Core!SdaOut, Master!SclOut, Core!SclOut, Master!MasterInit,
      Core!MasterInit, Master!MasterClock, Core!MasterClock, Master!timing, Core!timing,
      Master!machine, Core!machine

----------------------------------------------------------------------------
(* Types                                                                   *)

TypeInv == Types /\ Asking /\ AsAsked

LEMMA WiresAreBits == SDA \in Bit /\ SCL \in Bit
BY DEF SDA, SCL

LEMMA CommandIsByte ==
  ASSUME NEW a \in Addresses, NEW rw \in Bit
  PROVE  /\ CommandOf(a, rw) \in Bytes /\ CommandOf(a, rw)[0] = rw
         /\ \A i \in 1 .. Top : CommandOf(a, rw)[i] = a[i - 1]
BY StackAssumption DEF StackAssumption, CommandOf

LEMMA RequestFields ==
  \A r \in Requests :
    /\ r.addr \in Addresses /\ r.writes \in Seq(Bytes) /\ r.reads \in 0 .. Max_Bytes
    /\ Len(r.writes) \in 0 .. Max_Bytes
    /\ \A i \in 1 .. Len(r.writes) : r.writes[i] \in Bytes
<1> TAKE r \in Requests
<1>1. r \in [addr : Addresses, writes : Seq(Bytes), reads : 0 .. Max_Bytes] /\ Len(r.writes) <= Max_Bytes
  BY StackAssumption DEF StackAssumption
<1>2. r.addr \in Addresses /\ r.writes \in Seq(Bytes) /\ r.reads \in 0 .. Max_Bytes
  BY <1>1
<1> QED
  BY <1>1, <1>2, LenProperties, ElementOfSeq, StackAssumption DEF StackAssumption

LEMMA NoDataIsData == NoData \in [0 .. Max_Bytes - 1 -> Bytes] /\ NoData[0] \in Bytes
BY StackAssumption DEF StackAssumption, NoData

LEMMA InitTypes == Init => TypeInv
<1> SUFFICES ASSUME Init PROVE TypeInv
    OBVIOUS
<1> USE StackAssumption DEF StackAssumption
<1>1. UserTypes
  BY NoDataIsData DEF Init, UserTypes
<1>2. ArrayTypes
  BY NoDataIsData DEF Init, ArrayTypes, Array!ArrayInit
<1>3. Core!TypeOK
  <2>1. i2c_ena \in Bit /\ i2c_rw \in Bit /\ i2c_addr \in Addresses /\ i2c_data_wr \in Bytes
    BY NoDataIsData DEF Init, Array!ArrayInit
  <2>2. CommandOf(i2c_addr, i2c_rw) \in Bytes
    BY <2>1, CommandIsByte
  <2>3. Core!MasterInit
    BY SameMaster DEF Init
  <2> QED
    BY <2>1, <2>2, <2>3 DEF Core!MasterInit, Core!TypeOK, Core!States
<1>4. SlaveTypes
  BY DEF Init, Slave!SlaveInit, SlaveTypes
<1>5. Asking
  BY DEF Init, Array!ArrayInit, Asking, Last
<1>6. AsAsked
  BY DEF Init, AsAsked
<1> QED
  BY <1>1, <1>2, <1>3, <1>4, <1>5, <1>6 DEF TypeInv, Types

LEMMA UserStep ==
  ASSUME TypeInv, User
  PROVE  UserTypes' /\ Reset' = 0
<1> USE StackAssumption DEF StackAssumption
<1>1. ASSUME NEW r \in Requests, Ask(r)
      PROVE  UserTypes'
  <2>1. /\ r.addr \in Addresses /\ r.reads \in 0 .. Max_Bytes
        /\ Len(r.writes) \in 0 .. Max_Bytes
        /\ \A i \in 1 .. Len(r.writes) : r.writes[i] \in Bytes
    BY RequestFields
  <2>2. Data_WR' \in [0 .. Max_Bytes - 1 -> Bytes]
    BY <1>1, <2>1, NoDataIsData DEF Ask
  <2> QED
    BY <1>1, <2>1, <2>2 DEF Ask, UserTypes, TypeInv, Types, User
<1>2. CASE Watch
  BY <1>2, SMTT(20) DEF Watch, UserTypes, TypeInv, Types, User
<1> QED
  BY <1>1, <1>2 DEF User

LEMMA ArrayStep ==
  ASSUME TypeInv, Array!ArrayClock(Reset)
  PROVE  ArrayTypes' /\ i2c_ena' \in Bit /\ i2c_data_wr' \in Bytes
<1> USE StackAssumption DEF StackAssumption, TypeInv, Types
<1>1. i2c_ena \in Bit /\ i2c_busy \in Bit /\ i2c_data_wr \in Bytes /\ i2c_data_rd \in Bytes
  BY DEF Core!TypeOK
<1>2. CASE Array!ArrayReset
  BY <1>1, <1>2 DEF Array!ArrayReset, ArrayTypes
<1>3. ASSUME ena_prev' = Enable, Array!Waiting
      PROVE  ArrayTypes' /\ i2c_ena' \in Bit /\ i2c_data_wr' \in Bytes
  BY <1>1, <1>3 DEF Array!Waiting, Array!Accept, Array!command, ArrayTypes, UserTypes
<1>4. ASSUME ena_prev' = Enable, Array!Transferring
      PROVE  ArrayTypes' /\ i2c_ena' \in Bit /\ i2c_data_wr' \in Bytes
  <2>1. /\ busy_prev' \in Bit /\ ena_prev' \in Bit
    BY <1>1, <1>4 DEF Array!Transferring, UserTypes
  <2>2. Array!Accept => get_data' \in Bit /\ Busy' \in Bit
    BY DEF Array!Accept, ArrayTypes
  <2>3. busy_cnt < Last /\ Array!CountBusy => busy_cnt' \in 0 .. 2 * Max_Bytes
    BY DEF Array!CountBusy, ArrayTypes, UserTypes, Last
  <2>4. Array!DropEnable => i2c_ena' \in Bit
    BY <1>1 DEF Array!DropEnable
  <2>5. \A n, b : b \in Bytes => [Data_RD EXCEPT ![n] = b] \in [0 .. Max_Bytes - 1 -> Bytes]
    BY DEF ArrayTypes
  <2>6. \A i \in 0 .. Max_Bytes - 1 : Data_WR[i] \in Bytes
    BY DEF UserTypes
  <2>7. CASE Array!FirstCommand
    BY <2>7, <1>1, <2>1, <2>2, <2>6 DEF Array!FirstCommand, ArrayTypes, UserTypes
  <2>8. CASE Array!WriteNext
    <3>1. busy_cnt \in 0 .. Max_Bytes - 1 /\ busy_cnt < Last
      BY <2>8 DEF Array!WriteNext, ArrayTypes, UserTypes, Last
    <3> QED
      BY <2>8, <3>1, <1>1, <2>1, <2>2, <2>3, <2>4, <2>6 DEF Array!WriteNext, ArrayTypes
  <2>9. CASE Array!ReadNext
    <3>1. i2c_rw' \in Bit /\ Data_RD' \in [0 .. Max_Bytes - 1 -> Bytes]
      <4>1. \/ i2c_rw' = 1 /\ Data_RD' = Data_RD
            \/ /\ Data_RD' = [Data_RD EXCEPT ![Array!ReadSlot] = i2c_data_rd] \/ Data_RD' = Data_RD
               /\ i2c_rw' = i2c_rw
        BY <2>9, Zenon DEF Array!ReadNext
      <4>2. i2c_rw \in Bit /\ 1 \in Bit /\ Data_RD \in [0 .. Max_Bytes - 1 -> Bytes]
        BY DEF ArrayTypes
      <4>3. i2c_rw' \in Bit
        BY <4>1, <4>2
      <4>4. [Data_RD EXCEPT ![Array!ReadSlot] = i2c_data_rd] \in [0 .. Max_Bytes - 1 -> Bytes]
        BY <1>1, <2>5, Zenon
      <4>5. Data_RD' \in [0 .. Max_Bytes - 1 -> Bytes]
        BY <4>1, <4>2, <4>4, Zenon
      <4> QED
        BY <4>3, <4>5
    <3>2. /\ i2c_addr' \in Addresses /\ i2c_data_wr' \in Bytes
          /\ get_data' \in Bit /\ Busy' \in Bit /\ i2c_ena' \in Bit
      BY <2>9, <1>1, <2>2, <2>4 DEF Array!ReadNext, ArrayTypes
    <3>3. busy_cnt' \in 0 .. 2 * Max_Bytes
      BY <2>9, <2>3 DEF Array!ReadNext, Array!All, Last
    <3> QED
      BY <2>1, <3>1, <3>2, <3>3 DEF ArrayTypes
  <2>10. CASE Array!LastByte
    <3>1. busy_cnt # 0 /\ busy_cnt >= Last
      BY <2>10 DEF Array!LastByte, Array!All, Last
    <3>2. busy_prev = 1
      BY <3>1 DEF Asking
    <3> QED
      BY <2>10, <3>2, <1>1, <2>1, <2>2 DEF Array!LastByte, Array!CountBusy, Array!command, ArrayTypes
  <2>11. CASE Array!Finish
    <3>1. Data_RD' \in [0 .. Max_Bytes - 1 -> Bytes]
      BY <2>11, <1>1, <2>5 DEF Array!Finish, ArrayTypes
    <3> QED
      BY <2>11, <3>1, <1>1, <2>1 DEF Array!Finish, ArrayTypes
  <2> QED
    BY <1>4, <2>7, <2>8, <2>9, <2>10, <2>11 DEF Array!Transferring
<1> QED
  BY <1>2, <1>3, <1>4 DEF Array!ArrayClock

LEMMA TimingStep ==
  ASSUME Core!TypeOK, Core!Timing(SCL)
  PROVE  /\ count' \in 0 .. 4 * Divider - 1 /\ stretch' \in Bit
         /\ data_clk' \in Bit /\ data_clk_prev' \in Bit /\ scl_clk' \in Bit
<1>1. /\ count \in 0 .. 4 * Divider - 1 /\ stretch \in Bit /\ data_clk \in Bit /\ SCL \in Bit
      /\ Divider \in Nat \ {0}
  BY WiresAreBits, StackAssumption DEF StackAssumption, Core!TypeOK
<1>2. Core!NextCount \in 0 .. 4 * Divider - 1
  BY <1>1 DEF Core!NextCount
<1>3. Core!Stretched(Core!NextCount, SCL) \in Bit
  BY <1>1 DEF Core!Stretched
<1> QED
  BY <1>1, <1>2, <1>3 DEF Core!Timing

LEMMA MasterStep ==
  ASSUME TypeInv, Master!MasterClock(Reset, SDA, SCL), i2c_ena' \in Bit,
         i2c_addr' \in Addresses, i2c_rw' \in Bit, i2c_data_wr' \in Bytes
  PROVE  Core!TypeOK'
<1>1. Core!TypeOK /\ Core!MasterClock(Reset, SDA, SCL) /\ SDA \in Bit /\ SCL \in Bit
  BY SameMaster, WiresAreBits DEF TypeInv, Types
<1>2. CommandOf(i2c_addr, i2c_rw)' \in Bytes
  BY CommandIsByte DEF CommandOf
<1>n. Divider \in Nat \ {0} /\ Width \in Nat \ {0}
  BY StackAssumption DEF StackAssumption
<1> USE <1>n DEF Core!TypeOK, Core!States
<1>3. CASE Core!MasterReset
  BY <1>1, <1>2, <1>3 DEF Core!MasterReset
<1>4. ASSUME Core!Timing(SCL), Core!Machine(SDA)
      PROVE  Core!TypeOK'
  <2>1. /\ count' \in 0 .. 4 * Divider - 1 /\ stretch' \in Bit
        /\ data_clk' \in Bit /\ data_clk_prev' \in Bit /\ scl_clk' \in Bit
    BY <1>1, <1>4, TimingStep
  <2> DEFINE M == /\ state' \in Core!States /\ i2c_busy' \in Bit /\ scl_ena' \in Bit
                  /\ sda_int' \in Bit /\ addr_rw' \in Bytes /\ data_tx' \in Bytes
                  /\ data_rx' \in Bytes /\ bit_cnt' \in 0 .. Top /\ i2c_data_rd' \in Bytes
                  /\ Ack_Error' \in Bit
  <2>2. M
    <3>1. /\ \A i \in 0 .. Top : addr_rw[i] \in Bit /\ data_tx[i] \in Bit /\ i2c_data_wr[i] \in Bit
          /\ CommandOf(i2c_addr, i2c_rw) \in Bytes
      BY <1>1
    <3>2. CASE Core!Ready  BY <1>1, <3>1, <3>2 DEF Core!Ready
    <3>3. CASE Core!Start  BY <1>1, <3>1, <3>3 DEF Core!Start
    <3>4. CASE Core!SendCommand  BY <1>1, <3>1, <3>4 DEF Core!SendCommand, Core!ShiftOut
    <3>5. CASE Core!SlvAck1  BY <1>1, <3>1, <3>5 DEF Core!SlvAck1
    <3>6. CASE Core!Wr  BY <1>1, <3>1, <3>6 DEF Core!Wr, Core!ShiftOut
    <3>7. CASE Core!Rd  BY <1>1, <3>1, <3>7 DEF Core!Rd
    <3>8. CASE Core!SlvAck2  BY <1>1, <3>1, <3>8 DEF Core!SlvAck2, Core!NextByte
    <3>9. CASE Core!MstrAck  BY <1>1, <3>1, <3>9 DEF Core!MstrAck, Core!NextByte
    <3>10. CASE Core!Stop  BY <1>1, <3>1, <3>10 DEF Core!Stop
    <3>11. CASE Core!StartFall  BY <1>1, <3>11 DEF Core!StartFall
    <3>12. CASE Core!AckFall(SDA)  BY <1>1, <3>12 DEF Core!AckFall
    <3>13. CASE Core!RdFall(SDA)  BY <1>1, <3>13 DEF Core!RdFall
    <3>14. CASE Core!StopFall  BY <1>1, <3>14 DEF Core!StopFall
    <3>15. CASE Core!Hold  BY <1>1, <3>15 DEF Core!Hold, Core!machine
    <3> QED
      BY <1>4, <3>2, <3>3, <3>4, <3>5, <3>6, <3>7, <3>8, <3>9, <3>10, <3>11, <3>12, <3>13,
         <3>14, <3>15 DEF Core!Machine
  <2> QED
    BY <1>2, <2>1, <2>2
<1> QED
  BY <1>1, <1>3, <1>4 DEF Core!MasterClock

LEMMA SlaveStep ==
  ASSUME TypeInv, NEW log, Slave!SlaveClock(SDA, SCL, log)
  PROVE  SlaveTypes'
<1> USE StackAssumption, WiresAreBits DEF StackAssumption, TypeInv, Types, SlaveTypes
<1>1. old_sda' \in Bit /\ old_scl' \in Bit
  BY DEF Slave!SlaveClock
<1>2. CASE Slave!OnStart(log)
  BY <1>1, <1>2 DEF Slave!OnStart
<1>3. CASE Slave!OnStop(log)
  BY <1>1, <1>3 DEF Slave!OnStop
<1>4. CASE Slave!OnRise(SDA, log)
  BY <1>1, <1>4 DEF Slave!OnRise
<1>5. CASE Slave!OnFall(log)
  BY <1>1, <1>5 DEF Slave!OnFall, Slave!ModeAfter
<1>6. CASE Slave!Quiet(log)
  BY <1>1, <1>6 DEF Slave!Quiet
<1> QED
  BY <1>2, <1>3, <1>4, <1>5, <1>6 DEF Slave!SlaveClock

(* The ports change only with a request, when the controller is idle.      *)
LEMMA PortsStep ==
  ASSUME TypeInv, User
  PROVE  \/ /\ user = "idle" /\ settle = 0 /\ Busy = 0 /\ Enable = 0
            /\ user' = "asked" /\ Enable' = 1 /\ settle' = settle /\ AsAsked'
         \/ /\ UNCHANGED <<request, Address, WR_Bytes, Data_WR, RD_Bytes>>
            /\ Enable' = Enable \/ Enable' = 0
            /\ user' = CASE user = "asked" /\ Busy = 1   -> "waiting"
                         [] user = "waiting" /\ Busy = 0 -> "idle"
                         [] OTHER                        -> user
            /\ settle' = IF settle > 0 THEN settle - 1 ELSE 0
<1>1. ASSUME NEW r \in Requests, Ask(r)
      PROVE  AsAsked'
  BY <1>1, RequestFields, StackAssumption DEF StackAssumption, Ask, AsAsked
<1> QED
  BY <1>1 DEF User, Ask, Watch

LEMMA AsAskedStep ==
  ASSUME TypeInv, User
  PROVE  AsAsked'
<1>1. CASE AsAsked'
  BY <1>1
<1>2. CASE /\ UNCHANGED <<request, Address, WR_Bytes, Data_WR, RD_Bytes>>
           /\ user' = CASE user = "asked" /\ Busy = 1   -> "waiting"
                        [] user = "waiting" /\ Busy = 0 -> "idle"
                        [] OTHER                        -> user
  BY <1>2 DEF TypeInv, AsAsked
<1> QED
  BY <1>1, <1>2, PortsStep

(* The count of the controller.                                            *)
LEMMA CountingStep ==
  ASSUME TypeInv, Array!ArrayClock(Reset)
  PROVE  /\ get_data' = 0 => busy_cnt' = 0
         /\ busy_cnt' = 0 => busy_prev' = 0
         /\ busy_cnt' <= Last \/ busy_cnt' = 1
         /\ busy_cnt' >= Last => busy_cnt' = 0 \/ busy_prev' = 1
<1>1. /\ busy_cnt \in Nat /\ WR_Bytes \in Nat /\ RD_Bytes \in Nat /\ i2c_busy \in Bit
      /\ get_data \in Bit /\ Last \in Nat
  BY DEF TypeInv, Types, UserTypes, ArrayTypes, Core!TypeOK, Last
<1>2. /\ get_data = 0 => busy_cnt = 0
      /\ busy_cnt = 0 => busy_prev = 0
      /\ busy_cnt <= Last \/ busy_cnt = 1
      /\ busy_cnt >= Last => busy_cnt = 0 \/ busy_prev = 1
  BY DEF TypeInv, Asking
<1>3. CASE Array!ArrayReset
  BY <1>1, <1>3 DEF Array!ArrayReset
<1>4. CASE Array!Waiting
  BY <1>1, <1>2, <1>4 DEF Array!Waiting
<1>5. CASE Array!Transferring
  <2>1. get_data = 1 /\ busy_prev' = i2c_busy
    BY <1>5 DEF Array!Transferring
  <2>2. Array!Accept => get_data' = 1
    BY <2>1 DEF Array!Accept
  <2>3. CASE Array!FirstCommand
    BY <1>1, <2>1, <2>2, <2>3 DEF Array!FirstCommand
  <2>4. ASSUME Array!CountBusy, Array!Accept, busy_cnt # 0, busy_cnt < Last
        PROVE  /\ get_data' = 1 /\ busy_cnt' # 0 /\ busy_cnt' <= Last
               /\ busy_cnt' >= Last => busy_prev' = 1
    BY <1>1, <2>1, <2>2, <2>4 DEF Array!CountBusy
  <2>5. CASE Array!WriteNext
    <3>1. busy_cnt < Last
      BY <1>1, <2>5 DEF Array!WriteNext, Last
    <3> QED
      BY <2>4, <2>5, <3>1 DEF Array!WriteNext
  <2>6. CASE Array!ReadNext
    BY <2>4, <2>6 DEF Array!ReadNext, Array!All, Last
  <2>7. CASE Array!LastByte
    <3>1. busy_prev = 1 /\ i2c_busy = 1
      BY <1>2, <2>7 DEF Array!LastByte, Array!All, Last
    <3> QED
      BY <1>2, <2>1, <2>2, <2>7, <3>1 DEF Array!LastByte, Array!CountBusy
  <2>8. CASE Array!Finish
    BY <1>1, <2>1, <2>8 DEF Array!Finish
  <2> QED
    BY <1>5, <2>3, <2>5, <2>6, <2>7, <2>8 DEF Array!Transferring
<1> QED
  BY <1>3, <1>4, <1>5 DEF Array!ArrayClock

(* Busy follows a request, and ends with the count.                        *)
LEMMA BusyStep ==
  ASSUME TypeInv, Array!ArrayClock(Reset)
  PROVE  /\ Busy' = get_data' /\ Busy' \in Bit
         /\ Reset = 0 => ena_prev' = Enable
         /\ Reset = 1 => ena_prev' = 0 /\ Busy' = 0
         /\ Reset = 0 /\ Busy = 0 => Busy' = IF Enable = 1 /\ ena_prev = 0 THEN 1 ELSE 0
<1>1. Busy = get_data /\ get_data \in Bit /\ i2c_busy \in Bit
  BY DEF TypeInv, Types, Asking, ArrayTypes, Core!TypeOK
<1>2. CASE Reset = 1 /\ Array!ArrayReset
  BY <1>2 DEF Array!ArrayReset
<1>3. CASE Reset = 0 /\ ena_prev' = Enable /\ Array!Waiting
  BY <1>1, <1>3 DEF Array!Waiting, Array!Accept, Array!Requested
<1>4. CASE Reset = 0 /\ ena_prev' = Enable /\ Array!Transferring
  BY <1>1, <1>4 DEF Array!Transferring, Array!FirstCommand, Array!WriteNext, Array!ReadNext,
     Array!LastByte, Array!Finish, Array!Accept
<1> QED
  BY <1>2, <1>3, <1>4 DEF Array!ArrayClock

LEMMA AskingStep ==
  ASSUME TypeInv, Next
  PROVE  Asking'
<1>1. User /\ Array!ArrayClock(Reset) /\ Reset' = 0
  BY DEF Next, User
<1>2. /\ user \in {"idle", "asked", "waiting"} /\ Enable \in Bit /\ Reset \in Bit /\ Busy \in Bit
      /\ ena_prev \in Bit
  BY DEF TypeInv, Types, UserTypes, ArrayTypes
<1>3. /\ Busy' = get_data'
      /\ user' = "idle" => Busy' = 0
      /\ (Enable' = 1 /\ ena_prev' = 0) <=> (user' = "asked" /\ Busy' = 0)
  BY <1>1, <1>2, BusyStep, PortsStep DEF TypeInv, Asking
<1>4. Busy = 0 /\ get_data = 0 => busy_cnt' = 0
  BY <1>1 DEF Array!ArrayClock, Array!ArrayReset, Array!Waiting, Array!Transferring, TypeInv, Asking
<1>5. /\ busy_cnt' <= Last' \/ busy_cnt' = 1
      /\ busy_cnt' >= Last' => busy_cnt' = 0 \/ busy_prev' = 1
  <2>1. CASE Busy = 0
    <3>1. Last' \in Nat
      BY <1>1, UserStep DEF UserTypes, Last
    <3> QED
      BY <2>1, <3>1, <1>4 DEF TypeInv, Asking
  <2>2. CASE Busy # 0
    <3>1. Last' = Last
      BY <1>1, <2>2, PortsStep DEF Last
    <3> QED
      BY <1>1, <3>1, CountingStep
  <2> QED
    BY <2>1, <2>2
<1> QED
  BY <1>1, <1>3, <1>5, CountingStep DEF Asking

LEMMA TypeStep == TypeInv /\ [Next]_vars => TypeInv'
<1> SUFFICES ASSUME TypeInv, [Next]_vars PROVE TypeInv'
    OBVIOUS
<1>1. CASE Next
  <2>1. /\ User /\ Array!ArrayClock(Reset) /\ Master!MasterClock(Reset, SDA, SCL)
        /\ Slave!SlaveClock(SDA, SCL, Log)
    BY <1>1 DEF Next
  <2>2. UserTypes' /\ ArrayTypes' /\ SlaveTypes' /\ i2c_ena' \in Bit /\ i2c_data_wr' \in Bytes
    BY <2>1, UserStep, ArrayStep, SlaveStep
  <2>3. Core!TypeOK'
    BY <2>1, <2>2, MasterStep DEF ArrayTypes
  <2> QED
    BY <1>1, <2>1, <2>2, <2>3, AsAskedStep, AskingStep DEF TypeInv, Types
<1>2. CASE UNCHANGED vars
  BY <1>2 DEF vars, userVars, ports, Array!arrayVars, Array!command, Master!timing,
     Master!machine, Slave!slaveVars, TypeInv, Types, UserTypes, ArrayTypes, SlaveTypes,
     Core!TypeOK, Asking, AsAsked, Last, CommandOf
<1> QED
  BY <1>1, <1>2

(* The registers of the stack have the types of their declarations         *)
(* (I2C_Array.vhdp), the count of Busy edges its range, for every request. *)
THEOREM TypeCorrect == Spec => []TypeOK
<1>1. Init => TypeInv
  BY InitTypes
<1>2. TypeInv /\ [Next]_vars => TypeInv'
  BY TypeStep
<1>3. TypeInv => TypeOK
  BY DEF TypeInv, Types, UserTypes, ArrayTypes, Asking, Core!TypeOK, TypeOK
<1> QED
  BY <1>1, <1>2, <1>3, PTL DEF Spec

----------------------------------------------------------------------------
(* The controller and the master                                           *)

(* Before the first request, with a reset at the start.                    *)
Starting ==
  Reset = 1 => /\ settle = Settle /\ Settle >= Divider
               /\ state = "ready" /\ scl_ena = 0 /\ sda_int = 1

(* The direction of byte k of the request, and the bytes that come with a  *)
(* start and a command.                                                    *)
ReadKind(k) == IF k > WR_Bytes THEN 1 ELSE 0
Begins(k)   == k \in {1, WR_Bytes + 1}

(* The master is ready before and after the bytes of a request, with Busy  *)
(* down.                                                                   *)
Resting ==
  /\ get_data = 0 => state = "ready" /\ i2c_ena = 0
  /\ state = "ready" /\ get_data = 1 =>
       i2c_busy = 0 /\ busy_cnt \in {0, Last} /\ (busy_cnt = Last => i2c_ena = 0)

(* After a reset Busy is up for a quarter period, and the user waits.      *)
Settling ==
  state = "ready" /\ i2c_busy = 1 =>
    /\ count <= Divider /\ get_data = 0 /\ user # "waiting"
    /\ user = "idle" => settle >= Divider - 1 - count
    /\ user = "asked" => count = Divider

(* The master is at byte Number, with its command and data.                *)
AtByte ==
  state # "ready" =>
    /\ Number \in 1 .. Last
    /\ addr_rw = CommandOf(Address, ReadKind(Number))
    /\ Number <= WR_Bytes => data_tx = Data_WR[Number - 1]
    /\ state \in {"start", "command", "slv_ack1"} => Begins(Number)
    /\ state \in {"wr", "slv_ack2"} => Number <= WR_Bytes
    /\ state \in {"rd", "mstr_ack"} => Number > WR_Bytes
    /\ state = "stop" => Number = Last /\ i2c_busy = 1 /\ i2c_ena = 0
    /\ state = "start" => scl_ena = IF Number = 1 /\ count \in Divider + 1 .. 3 * Divider
                                    THEN 0 ELSE 1

(* Busy is down from the command of a byte to its first bit; the           *)
(* controller counts it a clock after it has gone up.                      *)
BusyEdges ==
  state # "ready" =>
    /\ i2c_busy = 0 => busy_cnt > 0 /\ state \in {"start", "wr", "rd"} /\ bit_cnt = Top
    /\ i2c_busy = 1 /\ busy_prev = 0 => count = Divider + 1
    /\ busy_cnt = 0 => state = "start" /\ i2c_busy = 1 /\ i2c_ena = 1

(* The controller gives the command of the next byte long before the       *)
(* master takes it, and lowers the enable after the last was taken.        *)
Commands ==
  /\ busy_cnt > 0 \/ i2c_ena = 1 => i2c_addr = Address
  /\ busy_cnt = 0 /\ i2c_ena = 1 => i2c_rw = ReadKind(1)
  /\ busy_cnt = 0 /\ i2c_ena = 1 /\ WR_Bytes > 0 => i2c_data_wr = Data_WR[0]
  /\ busy_cnt > 0 /\ busy_cnt < WR_Bytes =>
       i2c_rw = 0 /\ (i2c_data_wr = Data_WR[busy_cnt] \/ count = Divider + 2)
  /\ busy_cnt > WR_Bytes => i2c_rw = 1
  /\ busy_cnt > 0 /\ busy_cnt = WR_Bytes /\ RD_Bytes > 0 => i2c_rw = 1 \/ count = Divider + 2
  /\ busy_cnt > 0 /\ busy_cnt < Last - 1 => i2c_ena = 1
  /\ busy_cnt > 0 /\ busy_cnt = Last - 1 =>
       /\ i2c_busy = 1 => i2c_ena = busy_prev
       /\ i2c_busy = 0 => i2c_ena = 0 \/ count = Divider + 1
  /\ busy_cnt > 0 /\ busy_cnt = Last => i2c_ena = 0

Running == Reset = 0 => /\ Core!IInv
                        /\ Resting /\ Settling /\ AtByte /\ BusyEdges /\ Commands

ControlInv == TypeInv /\ Starting /\ Running

(* The controller in a clock of a request.                                 *)
LEMMA ControllerStep ==
  ASSUME TypeInv, Array!ArrayClock(0), get_data = 1
  PROVE  /\ busy_prev' = i2c_busy
         /\ busy_cnt = 0 =>
              /\ get_data' = 1 /\ busy_cnt' = i2c_busy /\ i2c_ena' = 1 /\ i2c_addr' = Address
              /\ i2c_rw' = ReadKind(1) /\ (WR_Bytes > 0 => i2c_data_wr' = Data_WR[0])
         /\ busy_cnt > 0 /\ busy_cnt < Last =>
              /\ get_data' = 1 /\ i2c_addr' = i2c_addr
              /\ busy_cnt' = IF busy_prev = 0 /\ i2c_busy = 1 THEN busy_cnt + 1 ELSE busy_cnt
              /\ i2c_ena' = IF i2c_busy = 0 /\ busy_cnt = Last - 1 THEN 0 ELSE i2c_ena
              /\ busy_cnt < WR_Bytes => i2c_data_wr' = Data_WR[busy_cnt] /\ i2c_rw' = i2c_rw
              /\ busy_cnt = WR_Bytes => i2c_rw' = 1
              /\ busy_cnt > WR_Bytes => i2c_rw' = i2c_rw
         /\ busy_cnt > 0 /\ busy_cnt >= Last /\ i2c_busy = 1 =>
              /\ get_data' = 1 /\ busy_cnt' = busy_cnt
              /\ UNCHANGED <<i2c_ena, i2c_addr, i2c_rw, i2c_data_wr>>
         /\ busy_cnt > 0 /\ busy_cnt >= Last /\ i2c_busy = 0 =>
              get_data' = 0 /\ busy_cnt' = 0 /\ i2c_ena' = 0
<1>1. /\ busy_cnt \in Nat /\ WR_Bytes \in Nat /\ RD_Bytes \in Nat /\ i2c_busy \in {0, 1}
      /\ Busy = get_data
  BY DEF TypeInv, Types, UserTypes, ArrayTypes, Core!TypeOK, Asking
<1>2. busy_cnt > 0 /\ busy_cnt >= Last => busy_prev = 1
  BY <1>1 DEF TypeInv, Asking
<1>3. Array!Transferring /\ (Array!Accept => get_data' = 1)
  BY DEF Array!ArrayClock, Array!Waiting, Array!Accept
<1> USE <1>1 DEF Last, ReadKind, Array!All
<1>4. CASE Array!FirstCommand
  BY <1>3, <1>4 DEF Array!Transferring, Array!FirstCommand
<1>5. CASE Array!WriteNext
  BY <1>3, <1>5 DEF Array!Transferring, Array!WriteNext, Array!CountBusy, Array!DropEnable
<1>6. CASE Array!ReadNext
  BY <1>3, <1>6 DEF Array!Transferring, Array!ReadNext, Array!CountBusy, Array!DropEnable
<1>7. CASE Array!LastByte
  BY <1>2, <1>3, <1>7 DEF Array!Transferring, Array!LastByte, Array!CountBusy, Array!command
<1>8. CASE Array!Finish
  BY <1>3, <1>8 DEF Array!Transferring, Array!Finish
<1> QED
  BY <1>3, <1>4, <1>5, <1>6, <1>7, <1>8 DEF Array!Transferring

(* What the proofs about the master assume of its constants.               *)
LEMMA MasterLimits ==
  ASSUME WithinLimits
  PROVE  /\ Core!MasterAssumption /\ Core!BusAssumption
         /\ Divider \in Nat /\ Divider >= 2 /\ Width \in Nat /\ Width >= 2
BY StackAssumption DEF StackAssumption, WithinLimits, Core!MasterAssumption, Core!BusAssumption

(* The master in a clock of a transfer: it acts on an edge of its clock,   *)
(* in the first and the third quarter.                                     *)
MovesOn ==
  /\ UNCHANGED <<addr_rw, data_tx>>
  /\ \/ state = "start" /\ state' = "command" /\ i2c_busy' = 1
     \/ state = "command" /\ state' \in {"command", "slv_ack1"} /\ i2c_busy' = i2c_busy
     \/ state = "wr" /\ state' \in {"wr", "slv_ack2"} /\ i2c_busy' = 1
     \/ state = "rd" /\ state' \in {"rd", "mstr_ack"} /\ i2c_busy' = 1
     \/ /\ state = "slv_ack1" /\ i2c_busy' = i2c_busy
        /\ state' = IF addr_rw[0] = 0 THEN "wr" ELSE "rd"

TakesNext ==
  /\ state \in {"slv_ack2", "mstr_ack"} /\ i2c_ena = 1
  /\ i2c_busy' = 0 /\ bit_cnt' = bit_cnt
  /\ addr_rw' = CommandOf(i2c_addr, i2c_rw) /\ data_tx' = i2c_data_wr
  /\ \/ addr_rw # CommandOf(i2c_addr, i2c_rw) /\ state' = "start"
     \/ /\ addr_rw = CommandOf(i2c_addr, i2c_rw)
        /\ state' = IF state = "slv_ack2" THEN "wr" ELSE "rd"

Ends ==
  /\ state \in {"slv_ack2", "mstr_ack"} /\ i2c_ena # 1
  /\ state' = "stop" /\ UNCHANGED <<i2c_busy, addr_rw, data_tx>>

Stays ==
  /\ UNCHANGED <<state, i2c_busy, addr_rw, data_tx, bit_cnt>>
  /\ state = "start" => scl_ena' = IF count = 3 * Divider THEN 1 ELSE scl_ena

LEMMA MasterMoves ==
  ASSUME WithinLimits, Core!IInv, Core!Timing(SCL), Core!Machine(SDA), state # "ready"
  PROVE  \/ count # Divider /\ Stays
         \/ /\ count = Divider /\ count' = Divider + 1 /\ scl_ena' = scl_ena
            /\ \/ MovesOn \/ TakesNext \/ Ends
               \/ state = "stop" /\ state' = "ready" /\ i2c_busy' = 0
<1>1. /\ Core!Rising => count = Divider
      /\ Core!Falling => count = 3 * Divider
      /\ count = 3 * Divider => Core!Falling
      /\ count = Divider => Core!Rising
      /\ 3 * Divider # Divider
  BY MasterLimits, Core!EdgeCount
<1>2. count = Divider => count' = Divider + 1
  BY MasterLimits, WiresAreBits, Core!CountStep
<1> USE <1>1, <1>2
<1>3. CASE Core!Ready  BY <1>3 DEF Core!Ready
<1>4. CASE Core!Start  BY <1>4 DEF Core!Start, MovesOn
<1>5. CASE Core!SendCommand  BY <1>5 DEF Core!SendCommand, Core!ShiftOut, MovesOn
<1>6. CASE Core!SlvAck1  BY <1>6 DEF Core!SlvAck1, MovesOn
<1>7. CASE Core!Wr  BY <1>7 DEF Core!Wr, Core!ShiftOut, MovesOn
<1>8. CASE Core!Rd  BY <1>8 DEF Core!Rd, MovesOn
<1>9. CASE Core!SlvAck2  BY <1>9 DEF Core!SlvAck2, Core!NextByte, TakesNext, Ends
<1>10. CASE Core!MstrAck  BY <1>10 DEF Core!MstrAck, Core!NextByte, TakesNext, Ends
<1>11. CASE Core!Stop  BY <1>11 DEF Core!Stop
<1>12. CASE Core!StartFall  BY <1>12 DEF Core!StartFall, Stays
<1>13. CASE Core!AckFall(SDA)  BY <1>13 DEF Core!AckFall, Stays
<1>14. CASE Core!RdFall(SDA)  BY <1>14 DEF Core!RdFall, Stays
<1>15. CASE Core!StopFall  BY <1>15 DEF Core!StopFall, Stays
<1>16. CASE Core!Hold  BY <1>16 DEF Core!Hold, Core!machine, Stays
<1> QED
  BY <1>3, <1>4, <1>5, <1>6, <1>7, <1>8, <1>9, <1>10, <1>11, <1>12, <1>13, <1>14,
     <1>15, <1>16 DEF Core!Machine

(* One clock in the middle of a request: before and after.                 *)
Working ==
  /\ WithinLimits /\ TypeInv /\ Core!IInv /\ AtByte /\ BusyEdges /\ Commands
  /\ get_data = 1 /\ state # "ready"

Edge ==
  /\ Array!ArrayClock(0) /\ Core!Timing(SCL) /\ Core!Machine(SDA)
  /\ UNCHANGED <<Address, WR_Bytes, RD_Bytes, Data_WR>>

LEMMA Numbers ==
  ASSUME WithinLimits, TypeInv, get_data = 1
  PROVE  /\ busy_cnt \in Nat /\ WR_Bytes \in Nat /\ RD_Bytes \in Nat /\ Last = WR_Bytes + RD_Bytes
         /\ count \in 0 .. 4 * Divider - 1 /\ Divider \in Nat /\ Divider >= 2
         /\ i2c_busy \in {0, 1} /\ busy_prev \in {0, 1} /\ i2c_ena \in {0, 1} /\ i2c_rw \in {0, 1}
         /\ scl_ena \in {0, 1} /\ Last >= 2 /\ Address \in Addresses
<1>1. user # "idle"
  BY DEF TypeInv, Asking
<1>2. Last >= 2
  BY <1>1 DEF TypeInv, AsAsked, WithinLimits, Last
<1> QED
  BY <1>2, MasterLimits DEF TypeInv, Types, UserTypes, ArrayTypes, Core!TypeOK, Last

(* The clock after an edge of Busy: the controller counts it, and the      *)
(* master has just acted.                                                  *)
LEMMA Counts ==
  ASSUME Working, Edge, i2c_busy = 1, busy_prev = 0
  PROVE  /\ count = Divider + 1 /\ count' = Divider + 2 /\ Stays
         /\ busy_prev' = 1 /\ busy_cnt' = busy_cnt + 1 /\ busy_cnt < Last /\ get_data' = 1
         /\ i2c_addr' = Address
         /\ i2c_ena' = IF busy_cnt = 0 THEN 1 ELSE i2c_ena
         /\ busy_cnt >= WR_Bytes => i2c_rw' = 1
         /\ busy_cnt > 0 => i2c_rw' = i2c_rw
         /\ busy_cnt < WR_Bytes => i2c_rw' = 0
<1>1. /\ busy_cnt \in Nat /\ WR_Bytes \in Nat /\ RD_Bytes \in Nat /\ Last = WR_Bytes + RD_Bytes
      /\ count \in 0 .. 4 * Divider - 1 /\ Divider \in Nat /\ Divider >= 2
      /\ i2c_ena \in {0, 1}
  BY Numbers DEF Working
<1>2. count = Divider + 1
  BY DEF Working, BusyEdges
<1>3. busy_cnt < Last
  BY <1>1 DEF Working, AtByte, Number
<1>4. count' = Divider + 2
  <2>1. stretch \in Bit /\ (stretch = 1 => count \in 2 * Divider .. 3 * Divider - 1)
    BY DEF Working, Core!IInv, Core!TypeOK, Core!StretchInQuarter3
  <2>2. stretch = 0
    BY <1>1, <1>2, <2>1
  <2> QED
    BY <1>1, <1>2, <2>2 DEF Edge, Core!Timing, Core!NextCount
<1>5. Stays
  BY <1>1, <1>2, MasterMoves DEF Working, Edge
<1>6. /\ busy_cnt > 0 => i2c_addr = Address
      /\ busy_cnt > 0 /\ busy_cnt = WR_Bytes => i2c_rw = 1
      /\ busy_cnt > WR_Bytes => i2c_rw = 1
      /\ busy_cnt > 0 /\ busy_cnt < WR_Bytes => i2c_rw = 0
  BY <1>1, <1>2, <1>3 DEF Working, Commands
<1> QED
  BY <1>1, <1>2, <1>3, <1>4, <1>5, <1>6, ControllerStep DEF Working, Edge, ReadKind

(* Where the start condition of the first byte switches SCL on.            *)
LEMMA StartStays ==
  ASSUME Working, Edge, Stays, state = "start", Number' = Number
  PROVE  scl_ena' = IF Number' = 1 /\ count' \in Divider + 1 .. 3 * Divider THEN 0 ELSE 1
<1>1. /\ count = Divider => count' = Divider + 1
      /\ count = 3 * Divider => count' = 3 * Divider + 1
      /\ count \notin {Divider, 3 * Divider}
           => (count' \in Divider + 1 .. 3 * Divider <=> count \in Divider + 1 .. 3 * Divider)
  BY MasterLimits, WiresAreBits, Core!CountStep DEF Working, Edge
<1>2. count # Divider
  BY MasterMoves DEF Working, Edge, Stays, MovesOn, TakesNext, Ends
<1>3. scl_ena = IF Number = 1 /\ count \in Divider + 1 .. 3 * Divider THEN 0 ELSE 1
  BY DEF Working, AtByte
<1>4. Divider \in Nat
  BY MasterLimits DEF Working
<1> QED
  BY <1>1, <1>2, <1>3, <1>4 DEF Stays

LEMMA StaysAtByte ==
  ASSUME Working, Edge, Stays, Number' = Number, state = "stop" => i2c_ena' = 0
  PROVE  AtByte'
<1>1. /\ state' = state /\ addr_rw' = addr_rw /\ data_tx' = data_tx /\ i2c_busy' = i2c_busy
      /\ Address' = Address /\ WR_Bytes' = WR_Bytes /\ RD_Bytes' = RD_Bytes
      /\ Data_WR' = Data_WR /\ Last' = Last
  BY DEF Stays, Edge, Last
<1>2. /\ Number \in 1 .. Last /\ addr_rw = CommandOf(Address, ReadKind(Number))
      /\ Number <= WR_Bytes => data_tx = Data_WR[Number - 1]
      /\ state \in {"start", "command", "slv_ack1"} => Begins(Number)
      /\ state \in {"wr", "slv_ack2"} => Number <= WR_Bytes
      /\ state \in {"rd", "mstr_ack"} => Number > WR_Bytes
      /\ state = "stop" => Number = Last /\ i2c_busy = 1
  BY DEF Working, AtByte
<1>3. state = "start" =>
        scl_ena' = IF Number' = 1 /\ count' \in Divider + 1 .. 3 * Divider THEN 0 ELSE 1
  BY StartStays
<1>4. /\ ReadKind(Number)' = ReadKind(Number)
      /\ Begins(Number)' <=> Begins(Number)
      /\ CommandOf(Address, ReadKind(Number))' = CommandOf(Address, ReadKind(Number))
  BY <1>1 DEF ReadKind, Begins, CommandOf
<1> DEFINE m == Number'
           k == CommandOf(Address, ReadKind(Number))'
           b == Begins(Number)'
<1>5. /\ m = Number /\ k = CommandOf(Address, ReadKind(Number))
      /\ b <=> Begins(Number)
  BY <1>4
<1> HIDE DEF m, k, b
<1>6. /\ m \in 1 .. Last' /\ addr_rw' = k
      /\ m <= WR_Bytes' => data_tx' = Data_WR'[m - 1]
      /\ state' \in {"start", "command", "slv_ack1"} => b
      /\ state' \in {"wr", "slv_ack2"} => m <= WR_Bytes'
      /\ state' \in {"rd", "mstr_ack"} => m > WR_Bytes'
      /\ state' = "stop" => m = Last' /\ i2c_busy' = 1 /\ i2c_ena' = 0
  BY <1>1, <1>2, <1>5
<1> QED
  BY <1>1, <1>3, <1>6 DEF AtByte, m, k, b

LEMMA CountsStep ==
  ASSUME Working, Edge, i2c_busy = 1, busy_prev = 0
  PROVE  AtByte' /\ BusyEdges' /\ Commands'
<1>1. /\ busy_cnt \in Nat /\ WR_Bytes \in Nat /\ RD_Bytes \in Nat /\ Last = WR_Bytes + RD_Bytes
      /\ i2c_busy \in {0, 1} /\ busy_prev \in {0, 1} /\ i2c_ena \in {0, 1} /\ Last >= 2
  BY Numbers DEF Working
<1>2. /\ count = Divider + 1 /\ count' = Divider + 2 /\ Stays
      /\ busy_prev' = 1 /\ busy_cnt' = busy_cnt + 1 /\ busy_cnt < Last /\ get_data' = 1
      /\ i2c_addr' = Address
      /\ i2c_ena' = IF busy_cnt = 0 THEN 1 ELSE i2c_ena
      /\ busy_cnt >= WR_Bytes => i2c_rw' = 1
      /\ busy_cnt > 0 => i2c_rw' = i2c_rw
      /\ busy_cnt < WR_Bytes => i2c_rw' = 0
  BY Counts
<1>3. /\ i2c_busy' = 1 /\ Last' = Last /\ WR_Bytes' = WR_Bytes /\ RD_Bytes' = RD_Bytes
      /\ Address' = Address /\ Data_WR' = Data_WR
  BY <1>2 DEF Stays, Edge, Last
<1>4. AtByte'
  <2>1. Number' = Number
    BY <1>2, <1>3 DEF Number
  <2>2. state = "stop" => i2c_ena = 0 /\ busy_cnt # 0
    BY DEF Working, AtByte, BusyEdges
  <2> QED
    BY <1>2, <2>1, <2>2, StaysAtByte
<1>5. BusyEdges'
  BY <1>1, <1>2, <1>3 DEF BusyEdges
<1>6. /\ busy_cnt > 0 /\ busy_cnt < Last - 1 => i2c_ena = 1
      /\ busy_cnt > 0 /\ busy_cnt = Last - 1 => i2c_ena = 0
  BY DEF Working, Commands
<1>7. Commands'
  BY <1>1, <1>2, <1>3, <1>6 DEF Commands
<1> QED
  BY <1>4, <1>5, <1>7

LEMMA OtherCommand ==
  ASSUME NEW a \in Addresses, NEW i \in Bit, NEW j \in Bit
  PROVE  CommandOf(a, i) = CommandOf(a, j) <=> i = j
BY CommandIsByte

(* While the master is in a byte, what the controller has set up stays.    *)
LEMMA Watches ==
  ASSUME Working, Edge, i2c_busy = 1, busy_prev = 1
  PROVE  /\ busy_prev' = 1 /\ busy_cnt' = busy_cnt /\ Number = busy_cnt
         /\ busy_cnt \in 1 .. Last /\ get_data' = 1
         /\ i2c_addr = Address /\ i2c_addr' = Address /\ i2c_ena' = i2c_ena
         /\ i2c_ena = IF busy_cnt < Last THEN 1 ELSE 0
         /\ busy_cnt < WR_Bytes => i2c_rw' = 0 /\ i2c_data_wr' = Data_WR[busy_cnt]
         /\ busy_cnt = WR_Bytes /\ RD_Bytes > 0 => i2c_rw' = 1
         /\ busy_cnt > WR_Bytes => i2c_rw' = 1 /\ i2c_rw = 1
<1>1. /\ busy_cnt \in Nat /\ WR_Bytes \in Nat /\ RD_Bytes \in Nat /\ Last = WR_Bytes + RD_Bytes
      /\ i2c_ena \in {0, 1}
  BY Numbers DEF Working
<1>2. Number = busy_cnt /\ busy_cnt \in 1 .. Last
  BY <1>1 DEF Working, AtByte, Number
<1>3. /\ i2c_addr = Address
      /\ busy_cnt < WR_Bytes => i2c_rw = 0
      /\ busy_cnt > WR_Bytes => i2c_rw = 1
      /\ busy_cnt < Last - 1 => i2c_ena = 1
      /\ busy_cnt = Last - 1 => i2c_ena = 1
      /\ busy_cnt = Last => i2c_ena = 0
  BY <1>1, <1>2 DEF Working, Commands
<1>4. /\ busy_prev' = i2c_busy
      /\ busy_cnt < Last =>
           /\ get_data' = 1 /\ i2c_addr' = i2c_addr
           /\ busy_cnt' = busy_cnt /\ i2c_ena' = i2c_ena
           /\ busy_cnt < WR_Bytes => i2c_data_wr' = Data_WR[busy_cnt] /\ i2c_rw' = i2c_rw
           /\ busy_cnt = WR_Bytes => i2c_rw' = 1
           /\ busy_cnt > WR_Bytes => i2c_rw' = i2c_rw
      /\ busy_cnt >= Last =>
           /\ get_data' = 1 /\ busy_cnt' = busy_cnt
           /\ UNCHANGED <<i2c_ena, i2c_addr, i2c_rw, i2c_data_wr>>
  BY <1>1, <1>2, ControllerStep DEF Working, Edge
<1> QED
  BY <1>1, <1>2, <1>3, <1>4

LEMMA WatchesCommands ==
  ASSUME Working, Edge, i2c_busy = 1, busy_prev = 1,
         i2c_busy' = 1 \/ (i2c_busy' = 0 /\ count' = Divider + 1)
  PROVE  Commands'
<1>1. /\ busy_cnt \in Nat /\ WR_Bytes \in Nat /\ RD_Bytes \in Nat /\ Last = WR_Bytes + RD_Bytes
      /\ i2c_ena \in {0, 1}
      /\ Last' = Last /\ WR_Bytes' = WR_Bytes /\ RD_Bytes' = RD_Bytes
      /\ Address' = Address /\ Data_WR' = Data_WR
  BY Numbers DEF Working, Edge, Last
<1>2. /\ busy_prev' = 1 /\ busy_cnt' = busy_cnt
      /\ busy_cnt \in 1 .. Last /\ i2c_addr' = Address /\ i2c_ena' = i2c_ena
      /\ i2c_ena = IF busy_cnt < Last THEN 1 ELSE 0
      /\ busy_cnt < WR_Bytes => i2c_rw' = 0 /\ i2c_data_wr' = Data_WR[busy_cnt]
      /\ busy_cnt = WR_Bytes /\ RD_Bytes > 0 => i2c_rw' = 1
      /\ busy_cnt > WR_Bytes => i2c_rw' = 1
  BY Watches
<1> QED
  BY <1>1, <1>2 DEF Commands

(* The master takes the next byte, or stops after the last.                *)
LEMMA NextByteStep ==
  ASSUME Working, Edge, i2c_busy = 1, busy_prev = 1, count' = Divider + 1, scl_ena' = scl_ena,
         TakesNext
  PROVE  AtByte' /\ BusyEdges'
<1>1. /\ busy_cnt \in Nat /\ WR_Bytes \in Nat /\ RD_Bytes \in Nat /\ Last = WR_Bytes + RD_Bytes
      /\ i2c_rw \in {0, 1} /\ Address \in Addresses /\ i2c_ena \in {0, 1}
      /\ Last' = Last /\ WR_Bytes' = WR_Bytes /\ RD_Bytes' = RD_Bytes
      /\ Address' = Address /\ Data_WR' = Data_WR
  BY Numbers DEF Working, Edge, Last
<1>2. /\ busy_prev' = 1 /\ busy_cnt' = busy_cnt /\ Number = busy_cnt
      /\ busy_cnt \in 1 .. Last /\ i2c_addr = Address
      /\ i2c_ena = IF busy_cnt < Last THEN 1 ELSE 0
  BY Watches
<1>3. /\ busy_cnt < Last
      /\ busy_cnt < WR_Bytes => i2c_rw = 0 /\ i2c_data_wr = Data_WR[busy_cnt]
      /\ busy_cnt >= WR_Bytes => i2c_rw = 1
  <2>1. busy_cnt < Last /\ count = Divider
    <3>1. count = Divider
      BY MasterMoves DEF Working, Edge, TakesNext, Stays
    <3> QED
      BY <1>1, <1>2, <3>1 DEF TakesNext
  <2>2. Divider # Divider + 2
    BY MasterLimits DEF Working
  <2> QED
    BY <1>1, <1>2, <2>1, <2>2 DEF Working, Commands
<1>4. Number' = busy_cnt + 1
  BY <1>2 DEF Number, TakesNext
<1>5. i2c_rw = ReadKind(busy_cnt + 1) /\ i2c_rw = ReadKind(Number')
  BY <1>1, <1>3, <1>4 DEF ReadKind
<1>6. addr_rw = CommandOf(Address, ReadKind(busy_cnt))
  BY <1>2 DEF Working, AtByte
<1>7. addr_rw = CommandOf(i2c_addr, i2c_rw) <=> ReadKind(busy_cnt) = i2c_rw
  <2>1. ReadKind(busy_cnt) \in Bit
    BY DEF ReadKind
  <2> QED
    BY <1>1, <1>2, <1>6, <2>1, OtherCommand
<1>8. ReadKind(busy_cnt) = i2c_rw <=> (busy_cnt < WR_Bytes \/ busy_cnt > WR_Bytes)
  BY <1>1, <1>3 DEF ReadKind
<1>9. /\ state = "slv_ack2" => busy_cnt <= WR_Bytes
      /\ state = "mstr_ack" => busy_cnt > WR_Bytes
      /\ bit_cnt = Top /\ scl_ena = 1
  BY <1>2 DEF Working, AtByte, Core!IInv, Core!BitCount, Core!SclWhileBusy, TakesNext
<1>10. /\ i2c_busy' = 0 /\ bit_cnt' = bit_cnt /\ addr_rw' = CommandOf(Address, i2c_rw)
       /\ data_tx' = i2c_data_wr
       /\ state' = IF busy_cnt = WR_Bytes THEN "start"
                   ELSE IF state = "slv_ack2" THEN "wr" ELSE "rd"
       /\ state \in {"slv_ack2", "mstr_ack"}
  BY <1>1, <1>2, <1>7, <1>8 DEF TakesNext
<1>11. AtByte'
  <2>1. addr_rw' = CommandOf(Address, ReadKind(Number))'
    BY <1>1, <1>5, <1>10 DEF CommandOf, ReadKind
  <2>2. Number' \in 1 .. Last' /\ (Number' <= WR_Bytes' => data_tx' = Data_WR'[Number' - 1])
    BY <1>1, <1>2, <1>3, <1>4, <1>10
  <2>3. /\ state' \in {"wr", "rd", "start"}
        /\ state' = "start" => busy_cnt = WR_Bytes
        /\ state' = "wr" => busy_cnt < WR_Bytes
        /\ state' = "rd" => busy_cnt > WR_Bytes
    BY <1>1, <1>9, <1>10
  <2>4. /\ state' = "start" => Begins(Number)' /\ Number' # 1
        /\ state' = "wr" => Number' <= WR_Bytes'
        /\ state' = "rd" => Number' > WR_Bytes'
    BY <1>1, <1>2, <1>4, <2>3 DEF Begins
  <2>5. scl_ena' = 1
    BY <1>9
  <2> DEFINE m == Number'
             k == CommandOf(Address, ReadKind(Number))'
             b == Begins(Number)'
  <2>6. /\ addr_rw' = k /\ m \in 1 .. Last'
        /\ m <= WR_Bytes' => data_tx' = Data_WR'[m - 1]
        /\ state' = "start" => b /\ m # 1
        /\ state' = "wr" => m <= WR_Bytes'
        /\ state' = "rd" => m > WR_Bytes'
    BY <2>1, <2>2, <2>4
  <2> HIDE DEF m, k, b
  <2>7. /\ state' \in {"start", "command", "slv_ack1"} => b
        /\ state' \in {"wr", "slv_ack2"} => m <= WR_Bytes'
        /\ state' \in {"rd", "mstr_ack"} => m > WR_Bytes'
        /\ state' = "stop" => m = Last' /\ i2c_busy' = 1 /\ i2c_ena' = 0
        /\ state' = "start" => scl_ena' = IF m = 1 /\ count' \in Divider + 1 .. 3 * Divider
                                          THEN 0 ELSE 1
    BY <2>3, <2>5, <2>6
  <2> QED
    BY <2>6, <2>7 DEF AtByte, m, k, b
<1>12. BusyEdges'
  BY <1>1, <1>2, <1>9, <1>10 DEF BusyEdges
<1> QED
  BY <1>11, <1>12

(* The same byte in another state: only the state and Busy have moved.     *)
LEMMA SameByte ==
  ASSUME Working, Edge, count = Divider, count' = Divider + 1, MovesOn, Number' = Number
  PROVE  AtByte'
<1>1. /\ addr_rw' = addr_rw /\ data_tx' = data_tx
      /\ Address' = Address /\ WR_Bytes' = WR_Bytes /\ RD_Bytes' = RD_Bytes
      /\ Data_WR' = Data_WR /\ Last' = Last
      /\ Number \in 1 .. Last /\ addr_rw = CommandOf(Address, ReadKind(Number))
      /\ Number <= WR_Bytes => data_tx = Data_WR[Number - 1]
      /\ Number \in Nat /\ WR_Bytes \in Nat /\ Address \in Addresses
  BY Numbers DEF Working, AtByte, MovesOn, Edge, Last
<1>2. /\ state' \in {"command", "slv_ack1"} => Begins(Number)
      /\ state' \in {"wr", "slv_ack2"} => Number <= WR_Bytes
      /\ state' \in {"rd", "mstr_ack"} => Number > WR_Bytes
      /\ state' \in {"command", "slv_ack1", "wr", "slv_ack2", "rd", "mstr_ack"}
  <2>1. /\ state \in {"start", "command", "slv_ack1"} => Begins(Number)
        /\ state \in {"wr", "slv_ack2"} => Number <= WR_Bytes
        /\ state \in {"rd", "mstr_ack"} => Number > WR_Bytes
    BY DEF Working, AtByte
  <2>2. CASE state = "slv_ack1"
    <3>1. ReadKind(Number) \in Bit
      BY DEF ReadKind
    <3>2. addr_rw[0] = ReadKind(Number)
      BY <1>1, <3>1, CommandIsByte
    <3>3. state' = IF Number > WR_Bytes THEN "rd" ELSE "wr"
      BY <2>2, <3>2 DEF MovesOn, ReadKind
    <3> QED
      BY <1>1, <3>3
  <2>3. CASE state # "slv_ack1"
    BY <2>1, <2>3 DEF MovesOn
  <2> QED
    BY <2>2, <2>3
<1>3. /\ addr_rw' = CommandOf(Address, ReadKind(Number))'
      /\ Begins(Number)' <=> Begins(Number)
  BY <1>1 DEF ReadKind, Begins, CommandOf
<1> DEFINE m == Number'
           k == CommandOf(Address, ReadKind(Number))'
           b == Begins(Number)'
<1>4. /\ m = Number /\ addr_rw' = k
      /\ b <=> Begins(Number)
  BY <1>3
<1> HIDE DEF m, k, b
<1>5. /\ m \in 1 .. Last' /\ addr_rw' = k
      /\ m <= WR_Bytes' => data_tx' = Data_WR'[m - 1]
      /\ state' \in {"start", "command", "slv_ack1"} => b
      /\ state' \in {"wr", "slv_ack2"} => m <= WR_Bytes'
      /\ state' \in {"rd", "mstr_ack"} => m > WR_Bytes'
      /\ state' # "stop" /\ state' # "start"
  BY <1>1, <1>2, <1>4
<1> QED
  BY <1>5 DEF AtByte, m, k, b

(* After the last byte the master stops.                                   *)
LEMMA StopStep ==
  ASSUME Working, Edge, i2c_busy = 1, busy_prev = 1, Ends
  PROVE  AtByte' /\ BusyEdges'
<1>1. /\ busy_cnt \in Nat /\ Last \in Nat /\ WR_Bytes \in Nat
      /\ Address' = Address /\ WR_Bytes' = WR_Bytes /\ RD_Bytes' = RD_Bytes
      /\ Data_WR' = Data_WR /\ Last' = Last
  BY Numbers DEF Working, Edge, Last
<1>2. /\ busy_prev' = 1 /\ busy_cnt' = busy_cnt /\ Number = busy_cnt
      /\ busy_cnt \in 1 .. Last /\ i2c_ena' = i2c_ena
      /\ i2c_ena = IF busy_cnt < Last THEN 1 ELSE 0
  BY Watches
<1>3. /\ i2c_busy' = 1 /\ state' = "stop" /\ addr_rw' = addr_rw /\ data_tx' = data_tx
      /\ busy_cnt = Last /\ i2c_ena' = 0 /\ Number' = Last
  BY <1>1, <1>2 DEF Ends, Number
<1>4. /\ addr_rw = CommandOf(Address, ReadKind(Last))
      /\ Last <= WR_Bytes => data_tx = Data_WR[Last - 1]
  BY <1>2, <1>3 DEF Working, AtByte
<1>5. addr_rw' = CommandOf(Address, ReadKind(Number))'
  BY <1>1, <1>3, <1>4 DEF ReadKind, CommandOf
<1> DEFINE m == Number'
           k == CommandOf(Address, ReadKind(Number))'
<1>6. m = Last /\ addr_rw' = k
  BY <1>3, <1>5
<1> HIDE DEF m, k
<1>7. /\ m \in 1 .. Last' /\ addr_rw' = k /\ m = Last'
      /\ m <= WR_Bytes' => data_tx' = Data_WR'[m - 1]
  BY <1>1, <1>2, <1>3, <1>4, <1>6
<1>8. AtByte'
  BY <1>3, <1>7 DEF AtByte, m, k
<1>9. BusyEdges'
  BY <1>1, <1>2, <1>3 DEF BusyEdges
<1> QED
  BY <1>8, <1>9

LEMMA WatchesStep ==
  ASSUME Working, Edge, i2c_busy = 1, busy_prev = 1
  PROVE  /\ AtByte' /\ BusyEdges' /\ Commands'
         /\ state' = "ready" => i2c_busy' = 0 /\ busy_cnt' = Last /\ i2c_ena' = 0
<1>1. /\ busy_cnt \in Nat /\ Last \in Nat /\ Divider \in Nat
  BY Numbers DEF Working
<1>2. /\ busy_prev' = 1 /\ busy_cnt' = busy_cnt /\ Number = busy_cnt
      /\ busy_cnt \in 1 .. Last /\ i2c_ena' = i2c_ena
  BY Watches
<1>3. CASE Stays
  <2>1. i2c_busy' = 1 /\ state' = state
    BY <1>3 DEF Stays
  <2>2. Number' = Number
    BY <1>2, <2>1 DEF Number
  <2>3. state = "stop" => i2c_ena' = 0
    BY <1>2 DEF Working, AtByte
  <2>4. BusyEdges'
    BY <1>1, <1>2, <2>1 DEF BusyEdges
  <2> QED
    BY <2>1, <2>2, <2>3, <2>4, <1>3, StaysAtByte, WatchesCommands DEF Working
<1>4. CASE count = Divider /\ count' = Divider + 1 /\ MovesOn
  <2>1. i2c_busy' = 1 /\ state' # "ready"
    BY <1>4 DEF MovesOn
  <2>2. Number' = Number
    BY <1>2, <2>1 DEF Number
  <2>3. BusyEdges'
    BY <1>1, <1>2, <2>1 DEF BusyEdges
  <2> QED
    BY <1>4, <2>1, <2>2, <2>3, SameByte, WatchesCommands
<1>5. CASE count = Divider /\ count' = Divider + 1 /\ scl_ena' = scl_ena /\ TakesNext
  <2>1. i2c_busy' = 0 /\ state' # "ready"
    BY <1>5 DEF TakesNext
  <2> QED
    BY <1>5, <2>1, NextByteStep, WatchesCommands
<1>6. CASE Ends
  <2>1. i2c_busy' = 1 /\ state' # "ready"
    BY <1>6 DEF Ends
  <2> QED
    BY <1>6, <2>1, StopStep, WatchesCommands
<1>7. CASE count = Divider /\ count' = Divider + 1 /\ state = "stop" /\ state' = "ready" /\ i2c_busy' = 0
  <2>1. busy_cnt' = Last /\ i2c_ena' = 0
    BY <1>2, <1>7 DEF Working, AtByte
  <2> QED
    BY <1>7, <2>1, WatchesCommands DEF AtByte, BusyEdges
<1> QED
  BY <1>3, <1>4, <1>5, <1>6, <1>7, MasterMoves DEF Working, Edge

(* From the command of a byte to its first bit Busy is down.               *)
LEMMA BusyDownStep ==
  ASSUME Working, Edge, i2c_busy = 0
  PROVE  AtByte' /\ BusyEdges' /\ Commands' /\ get_data' = 1 /\ state' # "ready"
<1>1. /\ busy_cnt \in Nat /\ WR_Bytes \in Nat /\ RD_Bytes \in Nat /\ Last = WR_Bytes + RD_Bytes
      /\ i2c_ena \in {0, 1} /\ Divider \in Nat
      /\ Last' = Last /\ WR_Bytes' = WR_Bytes /\ RD_Bytes' = RD_Bytes
      /\ Address' = Address /\ Data_WR' = Data_WR
  BY Numbers DEF Working, Edge, Last
<1>2. /\ busy_cnt > 0 /\ state \in {"start", "wr", "rd"} /\ bit_cnt = Top
      /\ Number = busy_cnt + 1 /\ Number \in 1 .. Last /\ busy_cnt < Last
  BY <1>1 DEF Working, BusyEdges, AtByte, Number
<1>3. /\ busy_prev' = 0 /\ get_data' = 1 /\ i2c_addr' = i2c_addr /\ busy_cnt' = busy_cnt
      /\ i2c_ena' = IF busy_cnt = Last - 1 THEN 0 ELSE i2c_ena
      /\ busy_cnt < WR_Bytes => i2c_data_wr' = Data_WR[busy_cnt] /\ i2c_rw' = i2c_rw
      /\ busy_cnt = WR_Bytes => i2c_rw' = 1
      /\ busy_cnt > WR_Bytes => i2c_rw' = i2c_rw
  BY <1>1, <1>2, ControllerStep DEF Working, Edge
<1>4. /\ i2c_addr = Address
      /\ busy_cnt < WR_Bytes => i2c_rw = 0
      /\ busy_cnt > WR_Bytes => i2c_rw = 1
      /\ busy_cnt < Last - 1 => i2c_ena = 1
  BY <1>1, <1>2 DEF Working, Commands
<1>5. Commands'
  BY <1>1, <1>2, <1>3, <1>4 DEF Commands
<1>6. Number' = Number
  BY <1>1, <1>2, <1>3 DEF Number
<1>7. CASE Stays
  <2>1. i2c_busy' = 0 /\ state' = state /\ bit_cnt' = bit_cnt
    BY <1>7 DEF Stays
  <2>2. BusyEdges'
    BY <1>1, <1>2, <1>3, <2>1 DEF BusyEdges
  <2> QED
    BY <1>2, <1>3, <1>5, <1>6, <1>7, <2>1, <2>2, StaysAtByte
<1>8. CASE count = Divider /\ count' = Divider + 1 /\ MovesOn
  <2>1. i2c_busy' = 1 /\ state' # "ready"
    BY <1>2, <1>8 DEF MovesOn
  <2>2. BusyEdges'
    BY <1>1, <1>2, <1>3, <1>8, <2>1 DEF BusyEdges
  <2> QED
    BY <1>2, <1>3, <1>5, <1>6, <1>8, <2>1, <2>2, SameByte
<1> QED
  BY <1>2, <1>7, <1>8, MasterMoves DEF Working, Edge, TakesNext, Ends

(* What a clock in the middle of a request leaves alone: the contract.     *)
LEMMA ContractStep ==
  ASSUME Working, Edge, i2c_busy = 1, state \in {"rd", "mstr_ack"}
  PROVE  UNCHANGED <<i2c_ena, i2c_addr, i2c_rw>>
<1>1. /\ busy_cnt \in Nat /\ WR_Bytes \in Nat /\ busy_prev \in {0, 1}
  BY Numbers DEF Working
<1>2. busy_cnt > 0 /\ Number > WR_Bytes
  BY <1>1 DEF Working, BusyEdges, AtByte
<1>3. i2c_addr = Address
  BY <1>2 DEF Working, Commands
<1>4. CASE busy_prev = 0
  BY <1>1, <1>2, <1>3, <1>4, Counts
<1>5. CASE busy_prev = 1
  BY <1>1, <1>2, <1>5, Watches
<1> QED
  BY <1>1, <1>4, <1>5

(* The master when no byte is under way.                                   *)
LEMMA MasterReady ==
  ASSUME WithinLimits, Core!IInv, Core!Timing(SCL), Core!Machine(SDA), state = "ready"
  PROVE  /\ \/ /\ i2c_ena = 1 /\ count = Divider /\ count' = Divider + 1
               /\ state' = "start" /\ i2c_busy' = 1 /\ scl_ena' = 0
               /\ addr_rw' = CommandOf(i2c_addr, i2c_rw) /\ data_tx' = i2c_data_wr
            \/ state' = "ready" /\ i2c_busy' = 0
            \/ state' = "ready" /\ i2c_busy' = i2c_busy /\ count # Divider
         /\ count < Divider => count' = count + 1
<1>1. /\ Divider \in Nat /\ Divider >= 2 /\ count \in 0 .. 4 * Divider - 1 /\ stretch \in Bit
      /\ stretch = 1 => count \in 2 * Divider .. 3 * Divider - 1
      /\ scl_ena = 0
  BY MasterLimits DEF Core!IInv, Core!TypeOK, Core!StretchInQuarter3, Core!SclWhileBusy
<1>2. count < Divider => count' = count + 1
  BY <1>1 DEF Core!Timing, Core!NextCount
<1>3. /\ Core!Rising /\ i2c_ena = 1 => count = Divider
      /\ count = Divider => count' = Divider + 1
  BY MasterLimits, WiresAreBits, Core!EdgeCount, Core!CountStep
<1>4. count = Divider => Core!Rising
  BY <1>1 DEF Core!IInv, Core!ClockInStep, Core!DataHigh, Core!DataPrev, Core!Rising
<1>5. CASE Core!Ready
  BY <1>1, <1>2, <1>3, <1>5 DEF Core!Ready
<1>6. CASE Core!Hold
  BY <1>2, <1>4, <1>6 DEF Core!Hold, Core!machine
<1> QED
  BY <1>5, <1>6 DEF Core!Machine, Core!Start, Core!SendCommand, Core!SlvAck1, Core!Wr, Core!Rd,
     Core!SlvAck2, Core!MstrAck, Core!Stop, Core!StartFall, Core!AckFall, Core!RdFall, Core!StopFall

LEMMA IdleStep ==
  ASSUME WithinLimits, ControlInv, Next, Reset = 0, get_data = 0
  PROVE  Resting' /\ Settling' /\ AtByte' /\ BusyEdges' /\ Commands'
<1>1. /\ User /\ Array!ArrayClock(0) /\ Core!Timing(SCL) /\ Core!Machine(SDA)
  BY SameMaster DEF Next, Core!MasterClock
<1>2. /\ TypeInv /\ Core!IInv /\ state = "ready" /\ i2c_ena = 0 /\ Busy = 0
      /\ busy_cnt = 0 /\ settle \in Nat /\ count \in Nat /\ Divider \in Nat
      /\ i2c_busy \in {0, 1} /\ get_data' \in {0, 1}
  <2>1. get_data' \in {0, 1}
    BY <1>1, ArrayStep DEF ControlInv, ArrayTypes
  <2> QED
    BY <2>1, MasterLimits DEF ControlInv, Running, TypeInv, Types, UserTypes, ArrayTypes,
       Core!TypeOK, Asking, Resting
<1>3. /\ i2c_ena' = 0 /\ busy_cnt' = 0
      /\ get_data' = 1 => user = "asked"
  <2>1. CASE Array!Waiting
    BY <1>2, <2>1 DEF Array!Waiting, Array!command, Array!Accept, Array!Requested, ControlInv,
       TypeInv, Asking
  <2> QED
    BY <1>1, <2>1 DEF Array!ArrayClock, Array!Transferring
<1>4. /\ state' = "ready"
      /\ i2c_busy' = 0 \/ (i2c_busy' = i2c_busy /\ count # Divider)
      /\ count < Divider => count' = count + 1
  BY <1>1, <1>2, MasterReady
<1>5. Settling'
  <2> SUFFICES ASSUME i2c_busy' = 1
               PROVE  /\ count' <= Divider /\ get_data' = 0 /\ user' # "waiting"
                      /\ user' = "idle" => settle' >= Divider - 1 - count'
                      /\ user' = "asked" => count' = Divider
    BY DEF Settling
  <2>1. /\ i2c_busy = 1 /\ count # Divider
    BY <1>4
  <2>2. /\ count <= Divider /\ user # "waiting"
        /\ user = "idle" => settle >= Divider - 1 - count
        /\ user = "asked" => count = Divider
    BY <1>2, <2>1 DEF ControlInv, Running, Settling
  <2>3. /\ count' = count + 1 /\ user = "idle"
    BY <1>2, <1>4, <2>1, <2>2 DEF TypeInv, Types, UserTypes
  <2>4. get_data' = 0
    BY <1>2, <1>3, <2>3
  <2>5. CASE user = "idle" /\ settle = 0 /\ user' = "asked"
    BY <1>2, <2>1, <2>2, <2>3, <2>4, <2>5
  <2>6. CASE user' = "idle" /\ settle' = IF settle > 0 THEN settle - 1 ELSE 0
    BY <1>2, <2>1, <2>2, <2>3, <2>4, <2>6
  <2> QED
    BY <1>1, <1>2, <2>3, <2>5, <2>6, PortsStep
<1>6. Resting'
  <2>1. get_data' = 1 => i2c_busy' = 0
    BY <1>5, <1>4, SameMaster, <1>2 DEF Settling
  <2> QED
    BY <1>3, <1>4, <2>1 DEF Resting
<1>7. AtByte' /\ BusyEdges'
  BY <1>4 DEF AtByte, BusyEdges
<1>8. Commands'
  <2>1. WR_Bytes' \in Nat /\ RD_Bytes' \in Nat
    BY <1>1, <1>2, UserStep DEF UserTypes
  <2> QED
    BY <1>3, <2>1 DEF Commands
<1> QED
  BY <1>5, <1>6, <1>7, <1>8

(* The ports of a request stay while the controller works on it.           *)
LEMMA PortsStay ==
  ASSUME TypeInv, User, get_data = 1
  PROVE  UNCHANGED <<request, Address, WR_Bytes, Data_WR, RD_Bytes>>
BY PortsStep DEF TypeInv, Types, ArrayTypes, Asking

(* Before the first byte, and after the last.                              *)
LEMMA AskedStep ==
  ASSUME WithinLimits, ControlInv, Next, Reset = 0, get_data = 1, state = "ready"
  PROVE  Resting' /\ Settling' /\ AtByte' /\ BusyEdges' /\ Commands'
<1>1. /\ User /\ Array!ArrayClock(0) /\ Core!Timing(SCL) /\ Core!Machine(SDA)
      /\ TypeInv /\ Core!IInv
  BY SameMaster DEF Next, Core!MasterClock, ControlInv, Running
<1>2. /\ busy_cnt \in Nat /\ WR_Bytes \in Nat /\ RD_Bytes \in Nat /\ Last = WR_Bytes + RD_Bytes
      /\ Divider \in Nat /\ i2c_ena \in {0, 1} /\ Last >= 2 /\ Address \in Addresses
  BY <1>1, Numbers
<1>3. /\ i2c_busy = 0 /\ busy_cnt \in {0, Last} /\ (busy_cnt = Last => i2c_ena = 0)
  BY DEF ControlInv, Running, Resting
<1>4. /\ WR_Bytes' = WR_Bytes /\ RD_Bytes' = RD_Bytes /\ Last' = Last /\ Address' = Address
      /\ Data_WR' = Data_WR
  BY <1>1, PortsStay DEF Last
<1>5. CASE busy_cnt = Last
  <2>1. get_data' = 0 /\ busy_cnt' = 0 /\ i2c_ena' = 0
    BY <1>1, <1>2, <1>3, <1>5, ControllerStep
  <2>2. state' = "ready" /\ i2c_busy' = 0
    BY <1>1, <1>3, <1>5, MasterReady
  <2>3. Resting' /\ Settling' /\ AtByte' /\ BusyEdges'
    BY <2>1, <2>2 DEF Resting, Settling, AtByte, BusyEdges
  <2>4. Commands'
    BY <1>2, <1>4, <2>1 DEF Commands
  <2> QED
    BY <2>3, <2>4
<1>6. CASE busy_cnt = 0
  <2>1. /\ get_data' = 1 /\ busy_prev' = 0 /\ busy_cnt' = 0 /\ i2c_ena' = 1 /\ i2c_addr' = Address
        /\ i2c_rw' = ReadKind(1)
        /\ WR_Bytes > 0 => i2c_data_wr' = Data_WR[0]
    BY <1>1, <1>3, <1>6, ControllerStep
  <2>2. ReadKind(1)' = ReadKind(1)
    BY <1>4 DEF ReadKind
  <2>3. Commands'
    BY <1>2, <1>4, <2>1, <2>2 DEF Commands
  <2>4. CASE state' = "ready" /\ i2c_busy' = 0
    <3>1. Resting'
      BY <1>2, <1>4, <2>1, <2>4 DEF Resting
    <3>2. Settling' /\ AtByte' /\ BusyEdges'
      BY <2>4 DEF Settling, AtByte, BusyEdges
    <3> QED
      BY <2>3, <3>1, <3>2
  <2>5. CASE /\ i2c_ena = 1 /\ count = Divider /\ count' = Divider + 1
             /\ state' = "start" /\ i2c_busy' = 1 /\ scl_ena' = 0
             /\ addr_rw' = CommandOf(i2c_addr, i2c_rw) /\ data_tx' = i2c_data_wr
    <3>1. /\ i2c_addr = Address /\ i2c_rw = ReadKind(1)
          /\ WR_Bytes > 0 => i2c_data_wr = Data_WR[0]
      BY <1>6, <2>5 DEF ControlInv, Running, Commands
    <3>2. Number' = 1
      BY <2>1 DEF Number
    <3>3. addr_rw' = CommandOf(Address, ReadKind(Number))'
      BY <1>4, <2>2, <2>5, <3>1, <3>2 DEF CommandOf, ReadKind
    <3>4. Begins(Number)'
      BY <3>2 DEF Begins
    <3> DEFINE m == Number'
               k == CommandOf(Address, ReadKind(Number))'
               b == Begins(Number)'
    <3>5. m = 1 /\ addr_rw' = k /\ b
      BY <3>2, <3>3, <3>4
    <3> HIDE DEF m, k, b
    <3>6. /\ m \in 1 .. Last' /\ addr_rw' = k /\ b
          /\ m <= WR_Bytes' => data_tx' = Data_WR'[m - 1]
          /\ scl_ena' = IF m = 1 /\ count' \in Divider + 1 .. 3 * Divider THEN 0 ELSE 1
      <4>1. Divider + 1 \in Divider + 1 .. 3 * Divider
        BY MasterLimits
      <4> QED
        BY <1>2, <1>4, <2>5, <3>1, <3>5, <4>1
    <3>7. AtByte'
      BY <2>5, <3>6 DEF AtByte, m, k, b
    <3>8. BusyEdges'
      BY <2>1, <2>5 DEF BusyEdges
    <3>9. Resting' /\ Settling'
      BY <2>1, <2>5 DEF Resting, Settling
    <3> QED
      BY <2>3, <3>7, <3>8, <3>9
  <2> QED
    BY <1>1, <1>3, <2>4, <2>5, MasterReady
<1> QED
  BY <1>3, <1>5, <1>6

LEMMA TransferStep ==
  ASSUME WithinLimits, ControlInv, Next, Reset = 0, get_data = 1, state # "ready"
  PROVE  /\ Resting' /\ Settling' /\ AtByte' /\ BusyEdges' /\ Commands'
         /\ Core!Reading => UNCHANGED <<i2c_ena, i2c_addr, i2c_rw>>
<1>1. User /\ TypeInv /\ Working /\ Edge
  BY SameMaster, PortsStay DEF Next, Core!MasterClock, ControlInv, Running, Working, Edge
<1>2. /\ busy_cnt \in Nat /\ Last \in Nat /\ i2c_busy \in {0, 1} /\ busy_prev \in {0, 1}
      /\ Last' = Last /\ Last >= 2
  BY <1>1, Numbers DEF Edge, Last, Working
<1>3. /\ AtByte' /\ BusyEdges' /\ Commands'
      /\ get_data' = 1
      /\ state' = "ready" => i2c_busy' = 0 /\ busy_cnt' = Last /\ i2c_ena' = 0
  <2>1. CASE i2c_busy = 1 /\ busy_prev = 0
    BY <1>1, <2>1, Counts, CountsStep DEF Stays, Working
  <2>2. CASE i2c_busy = 1 /\ busy_prev = 1
    BY <1>1, <2>2, Watches, WatchesStep
  <2>3. CASE i2c_busy = 0
    BY <1>1, <2>3, BusyDownStep
  <2> QED
    BY <1>2, <2>1, <2>2, <2>3
<1>4. Resting' /\ Settling'
  BY <1>2, <1>3 DEF Resting, Settling
<1>5. Core!Reading => UNCHANGED <<i2c_ena, i2c_addr, i2c_rw>>
  BY <1>1, ContractStep DEF Core!Reading
<1> QED
  BY <1>3, <1>4, <1>5

(* The controller is a user that the master can be trusted with.           *)
LEMMA MasterInvStep ==
  ASSUME WithinLimits, ControlInv, Next, Reset = 0
  PROVE  Core!IInv'
<1>1. /\ Core!MasterClock(0, SDA, SCL) /\ TypeInv /\ Core!IInv
  BY SameMaster DEF Next, ControlInv, Running
<1>2. TypeInv'
  BY <1>1, TypeStep
<1>3. i2c_ena' \in Bit /\ CommandOf(i2c_addr, i2c_rw)' \in Bytes /\ i2c_data_wr' \in Bytes
  BY <1>2 DEF TypeInv, Types, Core!TypeOK
<1>4. Core!Reading => UNCHANGED <<i2c_ena, i2c_addr, i2c_rw>>
  <2>1. Core!Reading => get_data = 1 /\ state # "ready"
    BY DEF Core!Reading, ControlInv, Running, Resting, TypeInv, Types, ArrayTypes
  <2> QED
    BY <2>1, TransferStep
<1>5. Core!Reading => UNCHANGED <<i2c_ena, CommandOf(i2c_addr, i2c_rw)>>
  BY <1>4 DEF CommandOf
<1>6. Core!User(0)
  BY <1>3, <1>5 DEF Core!User
<1>7. SDA <= Core!SdaOut /\ SCL <= Core!SclOut
  <2>1. Core!SdaOut \in Bit
    BY <1>1 DEF Core!SdaOut, Core!IInv, Core!TypeOK
  <2>2. Core!SclOut \in Bit
    BY DEF Core!SclOut
  <2>3. (SDA = 0 \/ SDA = Core!SdaOut) /\ (SCL = 0 \/ SCL = Core!SclOut)
    BY <2>1, <2>2, SameMaster DEF SDA, SCL
  <2> QED
    BY <2>1, <2>2, <2>3
<1>8. Core!Next
  BY <1>1, <1>6, <1>7, WiresAreBits DEF Core!Next
<1> QED
  BY <1>1, <1>8, MasterLimits, Core!IInvStep

(* A reset puts both into their first state.                               *)
LEMMA ResetStep ==
  ASSUME WithinLimits, ControlInv, Next, Reset = 1
  PROVE  ControlInv'
<1>1. /\ TypeInv' /\ User /\ Array!ArrayReset /\ Core!MasterReset /\ Reset' = 0
  BY TypeStep, SameMaster DEF Next, User, ControlInv, Array!ArrayClock, Core!MasterClock
<1>2. /\ get_data' = 0 /\ busy_cnt' = 0 /\ i2c_ena' = 0 /\ count' = 0 /\ stretch' = 0
      /\ state' = "ready" /\ scl_ena' = 0 /\ sda_int' = 1 /\ bit_cnt' = Top
  BY <1>1 DEF Array!ArrayReset, Core!MasterReset
<1>3. Core!IInv'
  BY <1>1, <1>2 DEF TypeInv, Types, Core!IInv, Core!ClockInStep, Core!StretchInQuarter3,
     Core!SclWhileBusy, Core!SdaReleased, Core!BitCount, Core!AckAsAsked
<1>4. Settling'
  <2>1. /\ user = "idle" /\ settle \in Nat /\ settle >= Divider /\ Divider \in Nat /\ Divider >= 2
    BY MasterLimits, StackAssumption DEF StackAssumption, ControlInv, TypeInv, Asking, Starting
  <2>2. user' = "idle" /\ settle' = settle - 1
    BY <1>1, <2>1, PortsStep DEF ControlInv
  <2> QED
    BY <1>2, <2>1, <2>2 DEF Settling
<1>5. Resting' /\ AtByte' /\ BusyEdges'
  BY <1>2 DEF Resting, AtByte, BusyEdges
<1>6. Commands'
  BY <1>1, <1>2 DEF Commands, TypeInv, Types, UserTypes
<1> QED
  BY <1>1, <1>3, <1>4, <1>5, <1>6 DEF ControlInv, Starting, Running

LEMMA ControlStep ==
  ASSUME WithinLimits, ControlInv, [Next]_vars
  PROVE  ControlInv'
<1>1. TypeInv'
  BY TypeStep DEF ControlInv
<1>2. CASE Next /\ Reset = 0
  <2>1. get_data \in {0, 1}
    BY DEF ControlInv, TypeInv, Types, ArrayTypes
  <2>2. Resting' /\ Settling' /\ AtByte' /\ BusyEdges' /\ Commands'
    BY <1>2, <2>1, IdleStep, AskedStep, TransferStep
  <2>3. Reset' = 0
    BY <1>2 DEF Next, User
  <2> QED
    BY <1>1, <1>2, <2>2, <2>3, MasterInvStep DEF ControlInv, Starting, Running
<1>3. CASE Next /\ Reset = 1
  BY <1>3, ResetStep
<1>4. CASE UNCHANGED vars
  <2>1. CommandOf(i2c_addr, i2c_rw)' = CommandOf(i2c_addr, i2c_rw)
    BY <1>4 DEF vars, Array!arrayVars, Array!command, CommandOf
  <2>2. Core!IInv => Core!IInv'
    <3>1. [Core!Next]_(Core!vars)
      BY <1>4, <2>1 DEF vars, Core!vars, Core!inputs, Array!arrayVars, Array!command,
         Master!timing, Master!machine, Core!timing, Core!machine
    <3> QED
      BY <3>1, MasterLimits, Core!IInvStep
  <2>3. /\ Number' = Number /\ Last' = Last
        /\ CommandOf(Address, ReadKind(Number))' = CommandOf(Address, ReadKind(Number))
        /\ ReadKind(1)' = ReadKind(1)
        /\ Begins(Number)' <=> Begins(Number)
    BY <1>4 DEF vars, ports, Array!arrayVars, Master!machine, Number, Last, CommandOf, ReadKind, Begins
  <2>4. (Starting => Starting') /\ (Resting => Resting') /\ (Settling => Settling')
        /\ (BusyEdges => BusyEdges')
    BY <1>4, <2>3 DEF vars, userVars, ports, Array!arrayVars, Array!command, Master!timing,
       Master!machine, Starting, Resting, Settling, BusyEdges
  <2>5. (AtByte => AtByte') /\ (Commands => Commands')
    BY <1>4, <2>3 DEF vars, userVars, ports, Array!arrayVars, Array!command, Master!timing,
       Master!machine, AtByte, Commands
  <2> QED
    BY <1>1, <1>4, <2>2, <2>4, <2>5 DEF ControlInv, Running, vars, userVars
<1>5. Reset \in {0, 1}
  BY DEF ControlInv, TypeInv, Types, UserTypes
<1> QED
  BY <1>2, <1>3, <1>4, <1>5

LEMMA ControlInit ==
  ASSUME WithinLimits, Init
  PROVE  ControlInv
<1>1. TypeInv
  BY InitTypes
<1>2. /\ get_data = 0 /\ busy_cnt = 0 /\ state = "ready" /\ scl_ena = 0 /\ sda_int = 1
      /\ i2c_busy = 0 /\ settle = Settle /\ Reset = (IF ResetFirst THEN 1 ELSE 0)
      /\ i2c_ena \in PowerUp /\ Core!MasterInit
  BY SameMaster DEF Init, Array!ArrayInit, Core!MasterInit
<1>3. Starting
  BY <1>2, StackAssumption DEF StackAssumption, Starting, WithinLimits
<1>4. Reset = 0 => i2c_ena = 0
  BY <1>2, StackAssumption DEF StackAssumption, WithinLimits
<1>5. Reset = 0 => Core!IInv
  <2>1. i2c_data_wr \in Bytes /\ CommandOf(i2c_addr, i2c_rw) \in Bytes
    BY <1>1 DEF TypeInv, Types, Core!TypeOK
  <2>2. Reset = 0 => Core!Init
    BY <1>2, <1>4, <2>1 DEF Core!Init
  <2> QED
    BY <2>2, MasterLimits, Core!IInvInit
<1>6. Reset = 0 => Resting /\ Settling /\ AtByte /\ BusyEdges
  BY <1>2, <1>4 DEF Resting, Settling, AtByte, BusyEdges
<1>7. Reset = 0 => Commands
  BY <1>1, <1>2, <1>4 DEF Commands, TypeInv, Types, UserTypes
<1> QED
  BY <1>1, <1>3, <1>5, <1>6, <1>7 DEF ControlInv, Running

LEMMA Controlled ==
  ASSUME WithinLimits
  PROVE  Spec => []ControlInv
<1>1. Init => ControlInv
  BY ControlInit
<1>2. ControlInv /\ [Next]_vars => ControlInv'
  BY ControlStep
<1> QED
  BY <1>1, <1>2, PTL DEF Spec

(* While the master reads a byte, the controller leaves its enable and its *)
(* command alone (the counting of I2C_Array.vhdp): the acknowledge that    *)
(* the master decides on a bit earlier is the right one.  Every request of *)
(* two bytes or more, every slave, every clock.                            *)
THEOREM ContractKept ==
  ASSUME WithinLimits
  PROVE  Spec => KeepsReadContract
<1> DEFINE Kept == Reset = 0 /\ i2c_busy = 1 /\ state \in {"rd", "mstr_ack"}
                     => UNCHANGED <<i2c_ena, i2c_addr, i2c_rw>>
<1>1. ControlInv /\ [Next]_vars => [Kept]_vars
  <2> SUFFICES ASSUME ControlInv, Next, Reset = 0, i2c_busy = 1, state \in {"rd", "mstr_ack"}
               PROVE  UNCHANGED <<i2c_ena, i2c_addr, i2c_rw>>
    BY DEF Kept
  <2>1. get_data = 1 /\ state # "ready"
    BY DEF ControlInv, Running, Resting, TypeInv, Types, ArrayTypes
  <2> QED
    BY <2>1, TransferStep DEF Core!Reading
<1>2. Spec => []ControlInv
  BY Controlled
<1> QED
  BY <1>1, <1>2, PTL DEF Spec, KeepsReadContract, Kept

----------------------------------------------------------------------------
(* The wires and the slave                                                 *)

(* The levels of the wires, by state and place in the SCL period.          *)
Levels ==
  /\ SCL = IF (scl_ena = 1 /\ count < 2 * Divider) \/ hold > 0 THEN 0 ELSE 1
  /\ SDA = IF \/ slave_sda = 0
              \/ state = "start" /\ count \notin Divider + 1 .. 3 * Divider
              \/ state = "stop" /\ count \in Divider + 1 .. 3 * Divider
              \/ state \notin {"ready", "start", "stop"} /\ sda_int = 0
           THEN 0 ELSE 1

LEMMA LevelsHold == WithinLimits /\ TypeInv /\ Core!IInv => Levels
<1> SUFFICES ASSUME WithinLimits, TypeInv, Core!IInv PROVE Levels
    OBVIOUS
<1>1. /\ Divider \in Nat /\ Divider >= 2 /\ count \in 0 .. 4 * Divider - 1
      /\ scl_ena \in {0, 1} /\ scl_clk \in {0, 1} /\ sda_int \in {0, 1}
      /\ hold \in Nat /\ slave_sda \in {0, 1}
  BY MasterLimits DEF TypeInv, Types, SlaveTypes, Core!TypeOK
<1>2. /\ state # "ready" => scl_clk = Core!High(count) /\ data_clk_prev = Core!DataPrev(count)
      /\ state = "ready" => sda_int = 1 /\ scl_ena = 0
  BY <1>1 DEF Core!IInv, Core!ClockInStep, Core!SclWhileBusy, Core!SdaReleased
<1>3. SCL = IF (scl_ena = 1 /\ count < 2 * Divider) \/ hold > 0 THEN 0 ELSE 1
  BY <1>1, <1>2, SameMaster DEF SCL, Core!SclOut, Slave!SlaveScl, Core!High
<1>4. SDA = IF Core!SdaOut = 0 \/ slave_sda = 0 THEN 0 ELSE 1
  BY SameMaster DEF SDA
<1>5. Core!SdaOut = 0 <=>
        \/ state = "start" /\ count \notin Divider + 1 .. 3 * Divider
        \/ state = "stop" /\ count \in Divider + 1 .. 3 * Divider
        \/ state \notin {"ready", "start", "stop"} /\ sda_int = 0
  BY <1>1, <1>2 DEF Core!SdaOut, Core!DataPrev
<1> QED
  BY <1>3, <1>4, <1>5 DEF Levels

LEMMA LevelsNext ==
  ASSUME WithinLimits
  PROVE  TypeInv' /\ Core!IInv' => Levels'
<1>1. TypeInv /\ Core!IInv => Levels
  BY LevelsHold
<1> QED
  BY <1>1, PTL

(* What the slave remembers of the wires, in each part of an SCL period: a *)
(* hold begins with SCL low and ends before the third quarter goes on.     *)
Wires ==
  /\ scl_ena = 0 => old_scl = 1 /\ hold = 0 /\ stretch = 0
  /\ scl_ena = 1 =>
       /\ count = 0 => old_scl = 1 /\ hold = 0
       /\ count \in 1 .. 2 * Divider - 1 => old_scl = 0
       /\ count = 2 * Divider => IF stretch = 1 THEN old_scl = 0 ELSE old_scl = 1 /\ hold = 0
       /\ count > 2 * Divider => old_scl = 1 /\ hold = 0
  /\ stretch = 1 => count = 2 * Divider
  /\ state = "ready" => old_sda = 1
  /\ state \in {"ready", "start", "stop"} => slave_sda = 1
  /\ scl_ena = 0 /\ state = "start" => old_sda = 1
  /\ scl_ena = 0 /\ state = "stop" => old_sda = IF count = 3 * Divider + 1 THEN 0 ELSE 1
  /\ scl_ena = 1 /\ count \in 2 * Divider .. 4 * Divider - 1 =>
       old_sda = IF count = 3 * Divider + 1 /\ state = "start" THEN 1 ELSE SDA

(* The parts of a period: the slave has seen the bit, has seen SCL fall,   *)
(* has seen the start or the stop condition.                               *)
Sampled == count <= Divider \/ count > 2 * Divider \/ (count = 2 * Divider /\ stretch = 0)
Fallen  == count \in 1 .. Divider
Past    == count <= Divider \/ count > 3 * Divider + 1

(* What the slave does at a clock, and when.                               *)
SlaveRests(log) ==
  /\ Slave!Quiet(log)
  /\ count = 0 => scl_ena = 0
  /\ count = 2 * Divider /\ stretch = 1 => hold > 0
  /\ count = 3 * Divider + 1 => state \notin {"start", "stop"}

SlaveActs(log) ==
  \/ scl_ena = 1 /\ count = 0 /\ Slave!OnFall(log)
  \/ scl_ena = 1 /\ count = 2 * Divider /\ stretch = 1 /\ hold = 0 /\ Slave!OnRise(SDA, log)
  \/ scl_ena = 1 /\ count = 3 * Divider + 1 /\ state = "start" /\ Slave!OnStart(log)
  \/ scl_ena = 0 /\ count = 3 * Divider + 1 /\ state = "stop" /\ Slave!OnStop(log)

LEMMA SlaveMoves ==
  ASSUME WithinLimits, TypeInv, Core!IInv, Wires, NEW log, Slave!SlaveClock(SDA, SCL, log)
  PROVE  SlaveRests(log) \/ SlaveActs(log)
<1>1. /\ Divider \in Nat /\ Divider >= 2 /\ count \in 0 .. 4 * Divider - 1
      /\ scl_ena \in {0, 1} /\ stretch \in {0, 1} /\ hold \in Nat /\ SDA \in {0, 1}
  BY MasterLimits, WiresAreBits DEF TypeInv, Types, SlaveTypes, Core!TypeOK
<1>2. /\ scl_ena = 0 => state \in {"ready", "start", "stop"}
      /\ state = "ready" => scl_ena = 0
      /\ state = "start" /\ scl_ena = 0 => count \in Divider + 1 .. 3 * Divider
      /\ state = "stop" => (scl_ena = 1 <=> count \in Divider + 1 .. 3 * Divider)
  BY DEF Core!IInv, Core!SclWhileBusy
<1>3. /\ SCL = IF (scl_ena = 1 /\ count < 2 * Divider) \/ hold > 0 THEN 0 ELSE 1
      /\ scl_ena = 0 => SDA = 1
      /\ state = "start" /\ count = 3 * Divider + 1 => SDA = 0
  BY <1>1, <1>2, LevelsHold DEF Levels, Wires
<1>4. CASE scl_ena = 0
  <2>1. old_scl = 1 /\ SCL = 1 /\ stretch = 0
    BY <1>1, <1>3, <1>4 DEF Wires
  <2>2. old_sda = IF state = "stop" /\ count = 3 * Divider + 1 THEN 0 ELSE 1
    BY <1>2, <1>4 DEF Wires
  <2> QED
    BY <1>1, <1>2, <1>3, <1>4, <2>1, <2>2
    DEF Slave!SlaveClock, Slave!StartSeen, Slave!StopSeen, SlaveRests, SlaveActs
<1>5. CASE scl_ena = 1 /\ count < 2 * Divider
  <2>1. SCL = 0 /\ (old_scl = IF count = 0 THEN 1 ELSE 0)
    BY <1>1, <1>3, <1>5 DEF Wires
  <2> QED
    BY <1>1, <1>5, <2>1
    DEF Slave!SlaveClock, Slave!StartSeen, Slave!StopSeen, SlaveRests, SlaveActs
<1>6. CASE scl_ena = 1 /\ count >= 2 * Divider
  <2>1. /\ old_scl = IF count = 2 * Divider /\ stretch = 1 THEN 0 ELSE 1
        /\ SCL = IF hold > 0 THEN 0 ELSE 1
        /\ hold > 0 => count = 2 * Divider /\ stretch = 1
        /\ old_sda = IF count = 3 * Divider + 1 /\ state = "start" THEN 1 ELSE SDA
        /\ state = "stop" => count # 3 * Divider + 1
    BY <1>1, <1>2, <1>3, <1>6 DEF Wires
  <2> QED
    BY <1>1, <1>3, <1>6, <2>1
    DEF Slave!SlaveClock, Slave!StartSeen, Slave!StopSeen, SlaveRests, SlaveActs
<1> QED
  BY <1>1, <1>4, <1>5, <1>6

(* The master between its acts: it reads SDA and switches SCL at the end   *)
(* of the third quarter, and leaves everything else.                       *)
Keeps ==
  /\ UNCHANGED <<state, i2c_busy, sda_int, addr_rw, data_tx, bit_cnt, i2c_data_rd>>
  /\ scl_ena' = IF count = 3 * Divider /\ state \in {"start", "stop"}
                THEN (IF state = "start" THEN 1 ELSE 0) ELSE scl_ena
  /\ data_rx' = IF count = 3 * Divider /\ state = "rd"
                THEN [data_rx EXCEPT ![bit_cnt] = SDA] ELSE data_rx
  /\ Ack_Error' = CASE count = 3 * Divider /\ state = "start" /\ scl_ena = 0 -> 0
                    [] count = 3 * Divider /\ state \in {"slv_ack1", "slv_ack2"} /\ SDA # 0 -> 1
                    [] OTHER -> Ack_Error

(* The acts of the master in a transfer, at the end of the first quarter.  *)
Acts ==
  /\ count = Divider /\ count' = Divider + 1
  /\ UNCHANGED <<scl_ena, data_rx, Ack_Error>>
  /\ \/ Core!Start \/ Core!SendCommand \/ Core!SlvAck1 \/ Core!Wr \/ Core!Rd
     \/ Core!SlvAck2 \/ Core!MstrAck \/ Core!Stop

LEMMA MasterSteps ==
  ASSUME WithinLimits, Core!IInv, Core!Timing(SCL), Core!Machine(SDA), state # "ready"
  PROVE  (count # Divider /\ Keeps) \/ Acts
<1>1. /\ Core!Rising => count = Divider
      /\ Core!Falling => count = 3 * Divider
      /\ count = 3 * Divider => Core!Falling
      /\ count = Divider => Core!Rising
      /\ 3 * Divider # Divider
  BY MasterLimits, Core!EdgeCount
<1>2. count = Divider => count' = Divider + 1
  BY MasterLimits, WiresAreBits, Core!CountStep
<1> USE <1>1, <1>2
<1>3. CASE Core!Ready  BY <1>3 DEF Core!Ready
<1>4. CASE Core!Start  BY <1>4 DEF Core!Start, Acts
<1>5. CASE Core!SendCommand  BY <1>5 DEF Core!SendCommand, Core!ShiftOut, Acts
<1>6. CASE Core!SlvAck1  BY <1>6 DEF Core!SlvAck1, Acts
<1>7. CASE Core!Wr  BY <1>7 DEF Core!Wr, Core!ShiftOut, Acts
<1>8. CASE Core!Rd  BY <1>8 DEF Core!Rd, Acts
<1>9. CASE Core!SlvAck2  BY <1>9 DEF Core!SlvAck2, Core!NextByte, Acts
<1>10. CASE Core!MstrAck  BY <1>10 DEF Core!MstrAck, Core!NextByte, Acts
<1>11. CASE Core!Stop  BY <1>11 DEF Core!Stop, Acts
<1>12. CASE Core!StartFall  BY <1>12 DEF Core!StartFall, Keeps
<1>13. CASE Core!AckFall(SDA)  BY <1>13 DEF Core!AckFall, Keeps
<1>14. CASE Core!RdFall(SDA)  BY <1>14 DEF Core!RdFall, Keeps
<1>15. CASE Core!StopFall  BY <1>15 DEF Core!StopFall, Keeps
<1>16. CASE Core!Hold  BY <1>16 DEF Core!Hold, Core!machine, Keeps
<1> QED
  BY <1>3, <1>4, <1>5, <1>6, <1>7, <1>8, <1>9, <1>10, <1>11, <1>12, <1>13, <1>14,
     <1>15, <1>16 DEF Core!Machine

LEMMA ReadySteps ==
  ASSUME Core!Machine(SDA), state = "ready"
  PROVE  UNCHANGED <<sda_int, scl_ena, bit_cnt, data_rx, i2c_data_rd, Ack_Error>>
BY DEF Core!Machine, Core!Ready, Core!Start, Core!SendCommand, Core!SlvAck1, Core!Wr, Core!Rd,
   Core!SlvAck2, Core!MstrAck, Core!Stop, Core!StartFall, Core!AckFall, Core!RdFall,
   Core!StopFall, Core!Hold, Core!machine

(* The count of the timing generator, which waits for SCL at the start of  *)
(* the third quarter.                                                      *)
LEMMA CountMoves ==
  ASSUME WithinLimits, TypeInv, Wires, Core!Timing(SCL)
  PROVE  /\ count' = IF count = 4 * Divider - 1 THEN 0
                     ELSE IF stretch = 1 THEN 2 * Divider ELSE count + 1
         /\ stretch' = IF count' \in 2 * Divider .. 3 * Divider - 1 THEN 1 - SCL ELSE stretch
         /\ stretch = 1 => count = 2 * Divider
         /\ Divider \in Nat /\ Divider >= 2 /\ count \in 0 .. 4 * Divider - 1 /\ stretch \in {0, 1}
<1>1. /\ Divider \in Nat /\ Divider >= 2 /\ count \in 0 .. 4 * Divider - 1 /\ stretch \in {0, 1}
      /\ stretch = 1 => count = 2 * Divider
  BY MasterLimits DEF TypeInv, Types, Core!TypeOK, Wires
<1> QED
  BY <1>1 DEF Core!Timing, Core!NextCount, Core!Stretched, Core!Quarter3

(* What the slave has seen of the byte that the master is at: all bits     *)
(* down to the present one, which the wire carries, and after a byte its   *)
(* acknowledge.  What a slave sends is in data_rx when SCL falls.          *)
InByte == state \in {"command", "wr", "rd"}
InAck  == state \in {"slv_ack1", "slv_ack2", "mstr_ack"}

ModeOf == CASE state \in {"command", "slv_ack1"} -> "command"
            [] state \in {"wr", "slv_ack2"}      -> "write"
            [] OTHER                             -> "read"
Sends  == CASE state \in {"command", "slv_ack1"} -> addr_rw
            [] state \in {"wr", "slv_ack2"}      -> data_tx
            [] state = "rd"                      -> data_rx
            [] OTHER                             -> i2c_data_rd

AtStart == state = "start" /\ Past => mode = "command" /\ bits = <<>>

InBits ==
  InByte =>
    /\ mode = ModeOf
    /\ sda_int = IF state = "rd" THEN 1 ELSE Sends[bit_cnt]
    /\ Len(bits) = Top - bit_cnt + (IF Sampled THEN 1 ELSE 0)
    /\ (state = "rd") = (bit_cnt = 0 /\ Fallen) => slave_sda = 1
    /\ \A j \in 1 .. Top - bit_cnt : bits[j] = Sends[Width - j]
    /\ Sampled => bits[Width - bit_cnt] =
         IF state = "rd" /\ count \in 2 * Divider .. 3 * Divider THEN slave_sda ELSE Sends[bit_cnt]

AtAck ==
  InAck =>
    IF Fallen
    THEN /\ bits = <<>>
         /\ mode = CASE state = "slv_ack1" -> IF addr_rw[0] = 0 THEN "write" ELSE "read"
                     [] state = "slv_ack2" -> "write"
                     [] OTHER              -> IF sda_int = 0 THEN "read" ELSE "off"
         /\ mode # "read" => slave_sda = 1
    ELSE /\ mode = ModeOf
         /\ Len(bits) = Width + (IF Sampled THEN 1 ELSE 0)
         /\ state = "mstr_ack" => slave_sda = 1
         /\ \A j \in 1 .. Width : bits[j] = Sends[Width - j]
         /\ Sampled => bits[Width + 1] = IF state = "mstr_ack" THEN sda_int ELSE slave_sda

BusInv == TypeInv /\ Core!IInv /\ Wires /\ AtStart /\ InBits /\ AtAck

BusStep(log) ==
  Core!Timing(SCL) /\ Core!Machine(SDA) /\ Slave!SlaveClock(SDA, SCL, log)

(* SCL                                                                     *)
LEMMA SclMoves ==
  ASSUME WithinLimits, BusInv, NEW log, BusStep(log)
  PROVE  /\ scl_ena' = IF count = 3 * Divider /\ state \in {"start", "stop"}
                       THEN (IF state = "start" THEN 1 ELSE 0) ELSE scl_ena
         /\ scl_ena \in {0, 1}
         /\ old_scl' = IF (scl_ena = 1 /\ count < 2 * Divider) \/ hold > 0 THEN 0 ELSE 1
         /\ old_scl' = SCL /\ old_sda' = SDA
         /\ hold' = 0 \/ (hold' = hold - 1 /\ hold > 0) \/ (scl_ena = 1 /\ count = 0)
<1>1. /\ scl_ena' = IF count = 3 * Divider /\ state \in {"start", "stop"}
                    THEN (IF state = "start" THEN 1 ELSE 0) ELSE scl_ena
  <2>1. CASE state = "ready"
    BY <2>1, ReadySteps DEF BusStep
  <2>2. CASE state # "ready"
    <3>1. Divider # 3 * Divider
      BY MasterLimits
    <3> QED
      BY <2>2, <3>1, MasterSteps DEF BusInv, BusStep, Keeps, Acts
  <2> QED
    BY <2>1, <2>2
<1>2. hold \in Nat /\ scl_ena \in {0, 1}
  BY DEF BusInv, TypeInv, Types, SlaveTypes, Core!TypeOK
<1>3. hold' = 0 \/ (hold' = hold - 1 /\ hold > 0) \/ (scl_ena = 1 /\ count = 0)
  BY <1>2, SlaveMoves DEF BusInv, BusStep, SlaveRests, SlaveActs, Slave!Quiet, Slave!OnStart, Slave!OnStop,
     Slave!OnRise
<1>4. old_scl' = SCL /\ old_sda' = SDA
  BY DEF BusStep, Slave!SlaveClock
<1>5. SCL = IF (scl_ena = 1 /\ count < 2 * Divider) \/ hold > 0 THEN 0 ELSE 1
  BY LevelsHold DEF BusInv, Levels
<1> QED
  BY <1>1, <1>2, <1>3, <1>4, <1>5

LEMMA SclStep ==
  ASSUME WithinLimits, BusInv, NEW log, BusStep(log)
  PROVE  /\ scl_ena' = 0 => old_scl' = 1 /\ hold' = 0 /\ stretch' = 0
         /\ scl_ena' = 1 =>
              /\ count' = 0 => old_scl' = 1 /\ hold' = 0
              /\ count' \in 1 .. 2 * Divider - 1 => old_scl' = 0
              /\ count' = 2 * Divider => IF stretch' = 1 THEN old_scl' = 0
                                                        ELSE old_scl' = 1 /\ hold' = 0
              /\ count' > 2 * Divider => old_scl' = 1 /\ hold' = 0
         /\ stretch' = 1 => count' = 2 * Divider
<1>1. /\ count' = IF count = 4 * Divider - 1 THEN 0
                  ELSE IF stretch = 1 THEN 2 * Divider ELSE count + 1
      /\ stretch' = IF count' \in 2 * Divider .. 3 * Divider - 1 THEN 1 - SCL ELSE stretch
      /\ stretch = 1 => count = 2 * Divider
      /\ Divider \in Nat /\ Divider >= 2 /\ count \in 0 .. 4 * Divider - 1 /\ stretch \in {0, 1}
  BY CountMoves DEF BusInv, BusStep
<1>2. /\ scl_ena' = IF count = 3 * Divider /\ state \in {"start", "stop"}
                    THEN (IF state = "start" THEN 1 ELSE 0) ELSE scl_ena
      /\ scl_ena \in {0, 1}
      /\ old_scl' = IF (scl_ena = 1 /\ count < 2 * Divider) \/ hold > 0 THEN 0 ELSE 1
      /\ old_scl' = SCL
      /\ hold' = 0 \/ (hold' = hold - 1 /\ hold > 0) \/ (scl_ena = 1 /\ count = 0)
  BY SclMoves
<1>3. /\ hold \in Nat
      /\ scl_ena = 0 => hold = 0 /\ stretch = 0
      /\ scl_ena = 1 /\ count = 0 => hold = 0
      /\ scl_ena = 1 /\ count = 2 * Divider /\ stretch = 0 => hold = 0
      /\ scl_ena = 1 /\ count > 2 * Divider => hold = 0
  BY <1>1 DEF BusInv, Wires, TypeInv, Types, SlaveTypes
<1>4. CASE scl_ena = 0
  <2>1. old_scl' = 1 /\ hold' = 0 /\ stretch' = 0
    BY <1>1, <1>2, <1>3, <1>4
  <2>2. scl_ena' = 1 => count' > 2 * Divider
    BY <1>1, <1>2, <1>3, <1>4
  <2> QED
    BY <1>1, <1>2, <2>1, <2>2
<1>5. CASE scl_ena = 1 /\ count < 2 * Divider
  <2>1. scl_ena' = 1 /\ old_scl' = 0 /\ count' = count + 1 /\ SCL = 0
    BY <1>1, <1>2, <1>5
  <2>2. stretch' = IF count' = 2 * Divider THEN 1 ELSE 0
    BY <1>1, <1>5, <2>1
  <2> QED
    BY <1>1, <1>5, <2>1, <2>2
<1>6. CASE scl_ena = 1 /\ count = 2 * Divider
  <2>1. scl_ena' = 1 /\ (stretch = 0 => hold = 0) /\ hold \in Nat /\ old_scl' = SCL
    BY <1>1, <1>2, <1>3, <1>6
  <2>2. SCL = IF hold > 0 THEN 0 ELSE 1
    BY <1>1, <1>2, <1>6
  <2>3. hold = 0 => hold' = 0
    BY <1>1, <1>2, <1>6
  <2>4. stretch' = 1 - SCL /\ count' = IF stretch = 1 THEN 2 * Divider ELSE 2 * Divider + 1
    BY <1>1, <1>6
  <2> QED
    BY <1>1, <2>1, <2>2, <2>3, <2>4
<1>7. CASE scl_ena = 1 /\ count > 2 * Divider
  <2>1. old_scl' = 1 /\ hold' = 0 /\ stretch = 0 /\ SCL = 1
    BY <1>1, <1>2, <1>3, <1>7
  <2>2. stretch' = 0 /\ (count' = 0 \/ count' > 2 * Divider)
    BY <1>1, <1>7, <2>1
  <2> QED
    BY <1>1, <2>1, <2>2
<1> QED
  BY <1>1, <1>2, <1>4, <1>5, <1>6, <1>7

(* SDA.  While the master acts, in the middle of SCL low, the slave only   *)
(* waits.                                                                  *)
LEMMA SlaveWaits ==
  ASSUME WithinLimits, BusInv, NEW log, BusStep(log), state = "ready" \/ Acts
  PROVE  SlaveRests(log)
<1>1. /\ Divider \in Nat /\ Divider >= 2
      /\ state = "ready" => scl_ena = 0
  BY MasterLimits DEF BusInv, Core!IInv, Core!SclWhileBusy
<1>2. SlaveRests(log) \/ SlaveActs(log)
  BY SlaveMoves DEF BusInv, BusStep
<1> QED
  BY <1>1, <1>2 DEF SlaveActs, Acts

LEMMA EmptyBits ==
  ASSUME WithinLimits
  PROVE  Len(<<>>) = 0 /\ 0 # Width /\ 0 # Width + 1
BY MasterLimits

LEMMA ReleasedStep ==
  ASSUME WithinLimits, BusInv, NEW log, BusStep(log)
  PROVE  state' \in {"ready", "start", "stop"} => slave_sda' = 1
<1>1. /\ state \in {"ready", "start", "stop"} => slave_sda = 1
      /\ state = "ready" => scl_ena = 0
      /\ state = "stop" => (scl_ena = 1 <=> count \in Divider + 1 .. 3 * Divider)
      /\ state = "start" /\ Past => mode = "command" /\ bits = <<>>
  BY DEF BusInv, Wires, AtStart, Core!IInv, Core!SclWhileBusy
<1>2. CASE state = "ready"
  BY <1>1, <1>2, SlaveWaits DEF SlaveRests, Slave!Quiet
<1>3. CASE state # "ready" /\ Keeps
  <2>1. state' = state
    BY <1>3 DEF Keeps
  <2>2. CASE count = 0 /\ scl_ena = 1 /\ Slave!OnFall(log)
    <3>1. Divider \in Nat /\ count \notin Divider + 1 .. 3 * Divider /\ Past
      BY <2>2, MasterLimits DEF Past
    <3>2. state = "start" => slave_sda' \in {1}
      BY <1>1, <2>2, <3>1, EmptyBits DEF Slave!OnFall, Slave!Drives
    <3> QED
      BY <1>1, <1>3, <2>1, <2>2, <3>1, <3>2
  <2>3. CASE SlaveRests(log)
    BY <1>1, <2>1, <2>3 DEF SlaveRests, Slave!Quiet
  <2>4. SlaveRests(log) \/ SlaveActs(log)
    BY SlaveMoves DEF BusInv, BusStep
  <2> QED
    BY <1>1, <2>1, <2>2, <2>3, <2>4 DEF SlaveActs, Slave!OnRise, Slave!OnStart, Slave!OnStop
<1>4. CASE state # "ready" /\ Acts
  <2>1. slave_sda' = slave_sda
    BY <1>4, SlaveWaits DEF SlaveRests, Slave!Quiet
  <2>2. Fallen
    BY <1>4, MasterLimits DEF Acts, Fallen
  <2>3. state \in {"slv_ack2", "mstr_ack"} /\ state' \in {"start", "stop"} => slave_sda = 1
    <3>1. CASE state = "slv_ack2"
      BY <2>2, <3>1 DEF BusInv, AtAck, InAck
    <3>2. CASE state = "mstr_ack" /\ state' \in {"start", "stop"}
      <4>1. ~Core!Continuing
        BY <1>4, <3>2 DEF Acts, Core!Start, Core!SendCommand, Core!SlvAck1, Core!Wr, Core!Rd, Core!SlvAck2,
           Core!MstrAck, Core!Stop, Core!NextByte, Core!Continuing
      <4>2. sda_int = 1
        BY <3>2, <4>1 DEF BusInv, Core!IInv, Core!AckAsAsked
      <4> QED
        BY <2>2, <3>2, <4>2 DEF BusInv, AtAck, InAck
    <3> QED
      BY <3>1, <3>2
  <2>4. state' \in {"ready", "start", "stop"} => state \in {"slv_ack2", "mstr_ack", "stop"}
    BY <1>4 DEF Acts, Core!Start, Core!SendCommand, Core!ShiftOut, Core!SlvAck1, Core!Wr, Core!Rd,
       Core!SlvAck2, Core!MstrAck, Core!Stop, Core!NextByte
  <2>5. state' = "ready" => state = "stop"
    BY <1>4 DEF Acts, Core!Start, Core!SendCommand, Core!ShiftOut, Core!SlvAck1, Core!Wr, Core!Rd,
       Core!SlvAck2, Core!MstrAck, Core!Stop, Core!NextByte
  <2> QED
    BY <1>1, <2>1, <2>3, <2>4, <2>5
<1> QED
  BY <1>2, <1>3, <1>4, MasterSteps DEF BusInv, BusStep

LEMMA OldSdaStep ==
  ASSUME WithinLimits, BusInv, TypeInv', Core!IInv', NEW log, BusStep(log)
  PROVE  /\ state' = "ready" => old_sda' = 1
         /\ scl_ena' = 0 /\ state' = "start" => old_sda' = 1
         /\ scl_ena' = 0 /\ state' = "stop" => old_sda' = IF count' = 3 * Divider + 1 THEN 0 ELSE 1
         /\ scl_ena' = 1 /\ count' \in 2 * Divider .. 4 * Divider - 1 =>
              old_sda' = IF count' = 3 * Divider + 1 /\ state' = "start" THEN 1 ELSE SDA'
<1>1. /\ count' = IF count = 4 * Divider - 1 THEN 0
                  ELSE IF stretch = 1 THEN 2 * Divider ELSE count + 1
      /\ stretch = 1 => count = 2 * Divider
      /\ Divider \in Nat /\ Divider >= 2 /\ count \in 0 .. 4 * Divider - 1 /\ stretch \in {0, 1}
  BY CountMoves DEF BusInv, BusStep
<1>2. /\ old_sda' = SDA /\ scl_ena \in {0, 1}
      /\ scl_ena' = IF count = 3 * Divider /\ state \in {"start", "stop"}
                    THEN (IF state = "start" THEN 1 ELSE 0) ELSE scl_ena
      /\ scl_ena = 0 => state \in {"ready", "start", "stop"} /\ stretch = 0
      /\ state = "ready" => scl_ena = 0
      /\ state = "start" /\ scl_ena = 0 => count \in Divider + 1 .. 3 * Divider
      /\ state = "stop" => (scl_ena = 1 <=> count \in Divider + 1 .. 3 * Divider)
  BY SclMoves DEF BusInv, Wires, Core!IInv, Core!SclWhileBusy
<1> DEFINE Level(s, c, o, i) == IF \/ o = 0
                                   \/ s = "start" /\ c \notin Divider + 1 .. 3 * Divider
                                   \/ s = "stop" /\ c \in Divider + 1 .. 3 * Divider
                                   \/ s \notin {"ready", "start", "stop"} /\ i = 0
                                THEN 0 ELSE 1
           sda == SDA'
<1>3. SDA = Level(state, count, slave_sda, sda_int)
  BY LevelsHold DEF BusInv, Levels
<1>4. sda = Level(state', count', slave_sda', sda_int')
  BY LevelsNext DEF Levels
<1>5. state \in {"ready", "start", "stop"} => slave_sda = 1
  BY DEF BusInv, Wires
<1> HIDE DEF sda
<1>6. CASE state = "ready"
  <2>1. state' \in {"ready", "start"} /\ scl_ena' = 0
    BY <1>2, <1>6, MasterReady, MasterSteps DEF BusInv, BusStep
  <2> QED
    BY <1>2, <1>3, <1>5, <1>6, <2>1
<1>7. CASE state # "ready" /\ Acts
  <2>1. count = Divider /\ count' = Divider + 1 /\ scl_ena' = scl_ena
    BY <1>7 DEF Acts
  <2>2. state = "stop" => SDA = 1
    BY <1>1, <1>3, <1>5, <2>1
  <2>3. /\ state' = "ready" => state = "stop"
        /\ state' \in {"start", "stop"} => scl_ena = 1
    BY <1>2, <1>7 DEF Acts, Core!Start, Core!SendCommand, Core!ShiftOut, Core!SlvAck1, Core!Wr, Core!Rd,
       Core!SlvAck2, Core!MstrAck, Core!Stop, Core!NextByte
  <2>4. count' \notin 2 * Divider .. 4 * Divider - 1
    BY <1>1, <2>1
  <2> QED
    BY <1>2, <2>1, <2>2, <2>3, <2>4
<1>8. CASE state # "ready" /\ Keeps
  <2>1. state' = state /\ sda_int' = sda_int
    BY <1>8 DEF Keeps
  <2>2. scl_ena' = 0 /\ state' = "start" => SDA = 1
    BY <1>2, <1>3, <1>5, <2>1
  <2>3. scl_ena' = 0 /\ state' = "stop" => SDA = IF count' = 3 * Divider + 1 THEN 0 ELSE 1
    BY <1>1, <1>2, <1>3, <1>5, <2>1
  <2>4. ASSUME scl_ena' = 1, count' \in 2 * Divider .. 4 * Divider - 1
        PROVE  SDA = IF count' = 3 * Divider + 1 /\ state' = "start" THEN 1 ELSE sda
    <3>1. count \in 2 * Divider - 1 .. 4 * Divider - 2
      BY <1>1, <2>4
    <3>2. slave_sda' = slave_sda
      <4>1. count # 0
        BY <1>1, <3>1
      <4>2. SlaveRests(log) \/ SlaveActs(log)
        BY SlaveMoves DEF BusInv, BusStep
      <4> QED
        BY <1>5, <4>1, <4>2 DEF SlaveRests, SlaveActs, Slave!Quiet, Slave!OnRise, Slave!OnStart, Slave!OnStop
    <3>3. CASE state = "start"
      <4>1. SDA = IF count \in Divider + 1 .. 3 * Divider THEN 1 ELSE 0
        BY <1>3, <1>5, <3>3
      <4>2. sda = IF count' \in Divider + 1 .. 3 * Divider THEN 1 ELSE 0
        BY <1>4, <1>5, <2>1, <3>2, <3>3
      <4>3. count' # 3 * Divider + 1 => (count \in Divider + 1 .. 3 * Divider <=> count' \in Divider + 1 .. 3 * Divider)
        BY <1>1, <3>1
      <4>4. count' = 3 * Divider + 1 => count = 3 * Divider
        BY <1>1, <3>1
      <4> QED
        BY <1>1, <2>1, <3>3, <4>1, <4>2, <4>3, <4>4
    <3>4. CASE state = "stop"
      <4>1. count \in Divider + 1 .. 3 * Divider /\ count # 3 * Divider
        BY <1>2, <2>4, <3>4
      <4>2. count' \in Divider + 1 .. 3 * Divider
        BY <1>1, <3>1, <4>1
      <4> QED
        BY <1>3, <1>4, <2>1, <3>4, <4>1, <4>2
    <3>5. CASE state \notin {"start", "stop"}
      BY <1>3, <1>4, <1>8, <2>1, <3>2, <3>5
    <3> QED
      BY <3>3, <3>4, <3>5
  <2> QED
    BY <1>2, <1>8, <2>1, <2>2, <2>3, <2>4 DEF sda
<1> QED
  BY <1>6, <1>7, <1>8, MasterSteps DEF BusInv, BusStep

(* The bits                                                                *)
LEMMA BitFacts ==
  ASSUME WithinLimits, BusInv
  PROVE  /\ Divider \in Nat /\ Divider >= 2 /\ Width \in Nat /\ Width >= 2
         /\ count \in 0 .. 4 * Divider - 1 /\ stretch \in {0, 1}
         /\ bit_cnt \in 0 .. Top /\ sda_int \in {0, 1} /\ slave_sda \in {0, 1}
         /\ addr_rw \in Bytes /\ data_tx \in Bytes /\ data_rx \in Bytes /\ i2c_data_rd \in Bytes
         /\ i2c_data_wr \in Bytes /\ bits \in Seq(Bit) /\ Len(bits) \in Nat
         /\ state \notin {"command", "wr", "rd"} => bit_cnt = Top
         /\ state \in {"ready", "stop", "slv_ack1", "slv_ack2"} => sda_int = 1
         /\ state \notin {"ready", "start", "stop"} => scl_ena = 1
         /\ state = "start" /\ scl_ena = 0 => count \in Divider + 1 .. 3 * Divider
BY MasterLimits, LenProperties DEF BusInv, TypeInv, Types, SlaveTypes, Core!TypeOK, Core!IInv, Core!BitCount,
   Core!SdaReleased, Core!SclWhileBusy

LEMMA ActPhase ==
  ASSUME WithinLimits, Acts
  PROVE  Sampled /\ Fallen /\ Past /\ ~Sampled' /\ ~Fallen' /\ ~Past' /\ count \notin 2 * Divider .. 3 * Divider
BY MasterLimits DEF Acts, Sampled, Fallen, Past

(* The master begins a byte or an acknowledge.                             *)
LEMMA ActBits ==
  ASSUME WithinLimits, BusInv, NEW log, BusStep(log), state # "ready", Acts
  PROVE  AtStart' /\ InBits' /\ AtAck'
<1>1. /\ mode' = mode /\ bits' = bits /\ slave_sda' = slave_sda
  BY SlaveWaits DEF SlaveRests, Slave!Quiet
<1>2. AtStart'
  BY ActPhase DEF AtStart
<1> USE ActPhase, EmptyBits
<1>3. CASE Core!Start
  <2>1. /\ state = "start" /\ state' = "command" /\ bit_cnt' = Top /\ addr_rw' = addr_rw
        /\ sda_int' = addr_rw[Top] /\ mode = "command" /\ bits = <<>> /\ slave_sda = 1
    BY <1>3, BitFacts DEF Core!Start, BusInv, AtStart, Wires
  <2>2. InBits' /\ AtAck'
    BY <1>1, <2>1, BitFacts DEF InBits, AtAck, InByte, InAck, ModeOf, Sends
  <2> QED
    BY <1>2, <2>2
<1>4. ASSUME InByte
      PROVE  /\ mode = ModeOf /\ Len(bits) = Width - bit_cnt
             /\ (state = "rd") = (bit_cnt = 0) => slave_sda = 1
             /\ \A j \in 1 .. Width - bit_cnt : bits[j] = Sends[Width - j]
  <2>1. /\ mode = ModeOf /\ Len(bits) = Top - bit_cnt + 1
        /\ (state = "rd") = (bit_cnt = 0) => slave_sda = 1
        /\ \A j \in 1 .. Top - bit_cnt : bits[j] = Sends[Width - j]
        /\ bits[Width - bit_cnt] = Sends[bit_cnt]
    BY <1>4 DEF BusInv, InBits
  <2>2. Top \in Int /\ Width = Top + 1 /\ bit_cnt \in 0 .. Top
    BY BitFacts, SMTT(20)
  <2>3. ASSUME NEW j \in 1 .. Width - bit_cnt
        PROVE  bits[j] = Sends[Width - j]
    <3>1. CASE j = Width - bit_cnt
      <4>1. Width - j = bit_cnt
        BY <2>2, <3>1
      <4> QED
        BY <2>1, <3>1, <4>1
    <3>2. CASE j # Width - bit_cnt
      <4>1. j \in 1 .. Top - bit_cnt
        BY <2>2, <3>2
      <4> QED
        BY <2>1, <4>1
    <3> QED
      BY <3>1, <3>2
  <2>4. Len(bits) = Width - bit_cnt
    BY <2>1, <2>2
  <2> QED
    BY <2>1, <2>3, <2>4
<1>5. CASE Core!SendCommand
  <2>1. state = "command" /\ addr_rw' = addr_rw /\ InByte /\ ModeOf = "command" /\ Sends = addr_rw
    BY <1>5 DEF Core!SendCommand, InByte, ModeOf, Sends
  <2>2. CASE bit_cnt = 0
    <3>1. state' = "slv_ack1"
      BY <1>5, <2>2 DEF Core!SendCommand, Core!ShiftOut
    <3> QED
      BY <1>1, <1>2, <1>4, <2>1, <2>2, <3>1, BitFacts DEF InBits, AtAck, InByte, InAck, ModeOf, Sends
  <2>3. CASE bit_cnt # 0
    <3>1. state' = "command" /\ bit_cnt' = bit_cnt - 1 /\ sda_int' = addr_rw[bit_cnt - 1]
      BY <1>5, <2>1, <2>3 DEF Core!SendCommand, Core!ShiftOut
    <3> QED
      BY <1>1, <1>2, <1>4, <2>1, <2>3, <3>1, BitFacts, SMTT(20) DEF InBits, AtAck, InByte, InAck, ModeOf, Sends
  <2> QED
    BY <2>2, <2>3
<1>6. CASE Core!Wr
  <2>1. state = "wr" /\ data_tx' = data_tx /\ InByte /\ ModeOf = "write" /\ Sends = data_tx
    BY <1>6 DEF Core!Wr, InByte, ModeOf, Sends
  <2>2. CASE bit_cnt = 0
    <3>1. state' = "slv_ack2"
      BY <1>6, <2>2 DEF Core!Wr, Core!ShiftOut
    <3> QED
      BY <1>1, <1>2, <1>4, <2>1, <2>2, <3>1, BitFacts DEF InBits, AtAck, InByte, InAck, ModeOf, Sends
  <2>3. CASE bit_cnt # 0
    <3>1. state' = "wr" /\ bit_cnt' = bit_cnt - 1 /\ sda_int' = data_tx[bit_cnt - 1]
      BY <1>6, <2>1, <2>3 DEF Core!Wr, Core!ShiftOut
    <3> QED
      BY <1>1, <1>2, <1>4, <2>1, <2>3, <3>1, BitFacts, SMTT(20) DEF InBits, AtAck, InByte, InAck, ModeOf, Sends
  <2> QED
    BY <2>2, <2>3
<1>7. CASE Core!Rd
  <2>1. state = "rd" /\ data_rx' = data_rx /\ InByte /\ ModeOf = "read" /\ Sends = data_rx
    BY <1>7 DEF Core!Rd, InByte, ModeOf, Sends
  <2>2. CASE bit_cnt = 0
    <3>1. state' = "mstr_ack" /\ i2c_data_rd' = data_rx
      BY <1>7, <2>2 DEF Core!Rd
    <3> QED
      BY <1>1, <1>2, <1>4, <2>1, <2>2, <3>1, BitFacts DEF InBits, AtAck, InByte, InAck, ModeOf, Sends
  <2>3. CASE bit_cnt # 0
    <3>1. state' = "rd" /\ bit_cnt' = bit_cnt - 1 /\ sda_int' = 1
      BY <1>7, <2>1, <2>3 DEF Core!Rd, BusInv, InBits
    <3> QED
      BY <1>1, <1>2, <1>4, <2>1, <2>3, <3>1, BitFacts, SMTT(20) DEF InBits, AtAck, InByte, InAck, ModeOf, Sends
  <2> QED
    BY <2>2, <2>3
<1>8. CASE Core!SlvAck1
  <2>1. /\ state = "slv_ack1" /\ data_tx' = data_tx /\ bit_cnt' = Top /\ bits = <<>>
        /\ mode = IF addr_rw[0] = 0 THEN "write" ELSE "read"
        /\ mode # "read" => slave_sda = 1
        /\ state' = IF addr_rw[0] = 0 THEN "wr" ELSE "rd"
        /\ sda_int' = IF addr_rw[0] = 0 THEN data_tx[Top] ELSE 1
    BY <1>8, BitFacts DEF Core!SlvAck1, BusInv, AtAck, InAck
  <2> QED
    BY <1>1, <1>2, <2>1, BitFacts DEF InBits, AtAck, InByte, InAck, ModeOf, Sends
<1>9. CASE Core!SlvAck2
  <2>1. /\ state = "slv_ack2" /\ bit_cnt' = Top /\ bits = <<>> /\ mode = "write" /\ slave_sda = 1
        /\ \/ state' = "wr" /\ data_tx' = i2c_data_wr /\ sda_int' = i2c_data_wr[Top]
           \/ state' \in {"start", "stop"}
    BY <1>9, BitFacts DEF Core!SlvAck2, Core!NextByte, BusInv, AtAck, InAck
  <2> QED
    BY <1>1, <1>2, <2>1, BitFacts DEF InBits, AtAck, InByte, InAck, ModeOf, Sends
<1>10. CASE Core!MstrAck
  <2>1. /\ state = "mstr_ack" /\ bit_cnt' = Top /\ bits = <<>>
        /\ mode = IF sda_int = 0 THEN "read" ELSE "off"
        /\ \/ state' = "rd" /\ sda_int' = 1 /\ Core!Continuing
           \/ state' \in {"start", "stop"}
    BY <1>10, BitFacts DEF Core!MstrAck, Core!NextByte, Core!Continuing, BusInv, AtAck, InAck
  <2>2. Core!Continuing => mode = "read"
    BY <2>1 DEF BusInv, Core!IInv, Core!AckAsAsked
  <2> QED
    BY <1>1, <1>2, <2>1, <2>2, BitFacts DEF InBits, AtAck, InByte, InAck, ModeOf, Sends
<1>11. CASE Core!Stop
  BY <1>2, <1>11 DEF Core!Stop, InBits, AtAck, InByte, InAck
<1> QED
  BY <1>3, <1>5, <1>6, <1>7, <1>8, <1>9, <1>10, <1>11 DEF Acts

(* In the clocks in between nothing moves but the count.                   *)
LEMMA RestPhase ==
  ASSUME WithinLimits, BusInv, NEW log, BusStep(log), state # "ready", count # Divider, SlaveRests(log)
  PROVE  /\ state # "start" \/ count # 3 * Divider + 1
         /\ state \notin {"start", "stop"} => (Sampled' <=> Sampled) /\ (Fallen' <=> Fallen)
         /\ state = "start" => (Past' <=> Past)
         /\ state \notin {"start", "stop"} /\ Sampled /\ count # 3 * Divider =>
              (count' \in 2 * Divider .. 3 * Divider <=> count \in 2 * Divider .. 3 * Divider)
<1>1. /\ count' = IF count = 4 * Divider - 1 THEN 0
                  ELSE IF stretch = 1 THEN 2 * Divider ELSE count + 1
      /\ stretch' = IF count' \in 2 * Divider .. 3 * Divider - 1 THEN 1 - SCL ELSE stretch
      /\ stretch = 1 => count = 2 * Divider
      /\ Divider \in Nat /\ Divider >= 2 /\ count \in 0 .. 4 * Divider - 1 /\ stretch \in {0, 1}
  BY CountMoves DEF BusInv, BusStep
<1>2. /\ SCL = IF (scl_ena = 1 /\ count < 2 * Divider) \/ hold > 0 THEN 0 ELSE 1
      /\ scl_ena = 1 /\ count > 2 * Divider => hold = 0
      /\ scl_ena = 1 /\ count = 2 * Divider /\ stretch = 0 => hold = 0
      /\ scl_ena \in {0, 1} /\ hold \in Nat
      /\ count = 0 => scl_ena = 0
      /\ count = 2 * Divider /\ stretch = 1 => hold > 0
      /\ count = 3 * Divider + 1 => state \notin {"start", "stop"}
      /\ state \notin {"ready", "start", "stop"} => scl_ena = 1
      /\ state = "start" /\ scl_ena = 0 => count \in Divider + 1 .. 3 * Divider
  BY <1>1, LevelsHold, SclMoves, BitFacts DEF BusInv, Levels, Wires, SlaveRests, TypeInv, Types, SlaveTypes
<1>3. state = "start" => (Past' <=> Past)
  BY <1>1, <1>2 DEF Past
<1>4. ASSUME state \notin {"start", "stop"}
      PROVE  /\ Sampled' <=> Sampled
             /\ Fallen' <=> Fallen
             /\ Sampled /\ count # 3 * Divider =>
                  (count' \in 2 * Divider .. 3 * Divider <=> count \in 2 * Divider .. 3 * Divider)
  <2>1. scl_ena = 1 /\ count # 0
    BY <1>2, <1>4
  <2>2. CASE count < 2 * Divider
    <3>1. SCL = 0 /\ count' = count + 1
      BY <1>1, <1>2, <2>1, <2>2
    <3> QED
      BY <1>1, <2>1, <2>2, <3>1 DEF Sampled, Fallen
  <2>3. CASE count = 2 * Divider /\ stretch = 1
    <3>1. SCL = 0 /\ count' = 2 * Divider /\ stretch' = 1
      BY <1>1, <1>2, <2>3
    <3> QED
      BY <1>1, <2>3, <3>1 DEF Sampled, Fallen
  <2>4. CASE (count = 2 * Divider /\ stretch = 0) \/ count > 2 * Divider
    <3>1. count' = 0 \/ (count' = count + 1 /\ count' > 2 * Divider)
      BY <1>1, <2>4
    <3>2. Sampled /\ Sampled' /\ ~Fallen /\ ~Fallen'
      BY <1>1, <2>4, <3>1 DEF Sampled, Fallen
    <3> QED
      BY <1>1, <2>4, <3>1, <3>2
  <2> QED
    BY <1>1, <2>2, <2>3, <2>4
<1> QED
  BY <1>2, <1>3, <1>4

LEMMA RestBits ==
  ASSUME WithinLimits, BusInv, NEW log, BusStep(log), state # "ready", count # Divider, Keeps, SlaveRests(log)
  PROVE  AtStart' /\ InBits' /\ AtAck'
<1>1. /\ mode' = mode /\ bits' = bits /\ slave_sda' = slave_sda /\ state' = state /\ sda_int' = sda_int
      /\ addr_rw' = addr_rw /\ data_tx' = data_tx /\ bit_cnt' = bit_cnt /\ i2c_data_rd' = i2c_data_rd
  BY DEF SlaveRests, Slave!Quiet, Keeps
<1>2. AtStart'
  BY <1>1, RestPhase DEF AtStart, BusInv
<1>3. AtAck'
  <2>1. InAck => (Sampled' <=> Sampled) /\ (Fallen' <=> Fallen)
    BY RestPhase DEF InAck
  <2>2. InAck => Sends' = Sends
    BY <1>1 DEF InAck, Sends
  <2>3. ModeOf' = ModeOf /\ (InAck' <=> InAck)
    BY <1>1 DEF ModeOf, InAck
  <2>4. AtAck
    BY DEF BusInv
  <2> QED
    BY <1>1, <2>1, <2>2, <2>3, <2>4 DEF AtAck
<1>4. InBits'
  <2> SUFFICES ASSUME InByte
               PROVE  /\ mode' = ModeOf'
                      /\ sda_int' = IF state' = "rd" THEN 1 ELSE Sends'[bit_cnt']
                      /\ Len(bits') = Top - bit_cnt' + (IF Sampled' THEN 1 ELSE 0)
                      /\ (state' = "rd") = (bit_cnt' = 0 /\ Fallen') => slave_sda' = 1
                      /\ \A j \in 1 .. Top - bit_cnt' : bits'[j] = Sends'[Width - j]
                      /\ Sampled' => bits'[Width - bit_cnt'] =
                           IF state' = "rd" /\ count' \in 2 * Divider .. 3 * Divider
                           THEN slave_sda' ELSE Sends'[bit_cnt']
    BY <1>1 DEF InBits, InByte
  <2>1. (Sampled' <=> Sampled) /\ (Fallen' <=> Fallen) /\ ModeOf' = ModeOf
    BY <1>1, RestPhase DEF InByte, ModeOf
  <2>2. /\ mode = ModeOf
        /\ sda_int = IF state = "rd" THEN 1 ELSE Sends[bit_cnt]
        /\ Len(bits) = Top - bit_cnt + (IF Sampled THEN 1 ELSE 0)
        /\ (state = "rd") = (bit_cnt = 0 /\ Fallen) => slave_sda = 1
        /\ \A j \in 1 .. Top - bit_cnt : bits[j] = Sends[Width - j]
        /\ Sampled => bits[Width - bit_cnt] =
             IF state = "rd" /\ count \in 2 * Divider .. 3 * Divider THEN slave_sda ELSE Sends[bit_cnt]
    BY DEF BusInv, InBits
  <2>3. CASE state # "rd"
    <3>1. Sends' = Sends
      BY <1>1, <2>3 DEF InByte, Sends
    <3> QED
      BY <1>1, <2>1, <2>2, <2>3, <3>1
  <2>4. CASE state = "rd" /\ count # 3 * Divider
    <3>1. Sends' = Sends
      BY <1>1, <2>4 DEF Keeps, Sends
    <3>2. Sampled => (count' \in 2 * Divider .. 3 * Divider <=> count \in 2 * Divider .. 3 * Divider)
      BY <2>4, RestPhase
    <3> QED
      BY <1>1, <2>1, <2>2, <2>4, <3>1, <3>2
  <2>5. CASE state = "rd" /\ count = 3 * Divider
    <3>1. Sends = data_rx /\ Sends' = [data_rx EXCEPT ![bit_cnt] = SDA]
      BY <1>1, <2>5 DEF Keeps, Sends
    <3>2. SDA = slave_sda
      BY <2>2, <2>5, LevelsHold, BitFacts DEF BusInv, Levels
    <3>3. /\ Sends'[bit_cnt] = slave_sda
          /\ \A j \in 1 .. Top - bit_cnt : Sends'[Width - j] = Sends[Width - j]
      BY <3>1, <3>2, BitFacts
    <3>4. Sampled /\ count \in 2 * Divider .. 3 * Divider
      BY <2>5, BitFacts DEF Sampled
    <3> QED
      BY <1>1, <2>1, <2>2, <2>5, <3>3, <3>4
  <2> QED
    BY <2>3, <2>4, <2>5
<1> QED
  BY <1>2, <1>3, <1>4

(* SCL falls: the slave takes the byte if it is whole, and goes on.        *)
LEMMA FallBits ==
  ASSUME WithinLimits, BusInv, NEW log, BusStep(log), state # "ready", Keeps, scl_ena = 1, count = 0,
         Slave!OnFall(log)
  PROVE  AtStart' /\ InBits' /\ AtAck'
<1>1. /\ state' = state /\ sda_int' = sda_int /\ data_rx' = data_rx /\ Divider \in Nat /\ Divider >= 2
      /\ addr_rw' = addr_rw /\ data_tx' = data_tx /\ bit_cnt' = bit_cnt /\ i2c_data_rd' = i2c_data_rd
  BY MasterLimits DEF Keeps
<1>2. count' = 1 /\ Sampled /\ Sampled' /\ Fallen' /\ ~Fallen /\ Past
      /\ count \notin 2 * Divider .. 3 * Divider /\ count' \notin 2 * Divider .. 3 * Divider
  <2>1. count' = 1
    BY <1>1, CountMoves DEF BusInv, BusStep
  <2> QED
    BY <1>1, <2>1 DEF Sampled, Fallen, Past
<1>3. ModeOf' = ModeOf /\ Sends' = Sends
  BY <1>1 DEF ModeOf, Sends
<1>4. CASE state = "start"
  <2>1. mode = "command" /\ bits = <<>>
    BY <1>2, <1>4 DEF BusInv, AtStart
  <2>2. mode' = "command" /\ bits' = <<>>
    BY <2>1, EmptyBits DEF Slave!OnFall
  <2> QED
    BY <1>1, <1>4, <2>2 DEF AtStart, InBits, InByte, AtAck, InAck
<1>5. CASE InByte
  <2>1. /\ mode = ModeOf
        /\ sda_int = IF state = "rd" THEN 1 ELSE Sends[bit_cnt]
        /\ Len(bits) = Top - bit_cnt + 1
        /\ \A j \in 1 .. Top - bit_cnt : bits[j] = Sends[Width - j]
        /\ bits[Width - bit_cnt] = Sends[bit_cnt]
    BY <1>2, <1>5 DEF BusInv, InBits
  <2>2. Len(bits) # Width + 1 /\ (Len(bits) = Width <=> bit_cnt = 0)
    BY <2>1, BitFacts
  <2>3. /\ mode' = mode /\ bits' = bits
        /\ slave_sda' \in IF Slave!Drives(mode, Len(bits)) THEN Answers ELSE {1}
    BY <2>2 DEF Slave!OnFall
  <2>4. (state = "rd") = (bit_cnt = 0) => slave_sda' = 1
    <3>1. mode = "read" <=> state = "rd"
      BY <1>5, <2>1 DEF ModeOf, InByte
    <3> QED
      BY <2>2, <2>3, <3>1 DEF Slave!Drives
  <2>5. InBits'
    BY <1>1, <1>2, <1>3, <2>1, <2>3, <2>4 DEF InBits
  <2> QED
    BY <1>1, <1>5, <2>5 DEF InByte, AtStart, AtAck, InAck
<1>6. CASE InAck
  <2>1. /\ mode = ModeOf /\ Len(bits) = Width + 1
        /\ \A j \in 1 .. Width : bits[j] = Sends[Width - j]
        /\ state = "mstr_ack" => bits[Width + 1] = sda_int
    BY <1>2, <1>6 DEF BusInv, AtAck
  <2>2. bits[Width] = Sends[0]
    BY <2>1, BitFacts
  <2>3. ModeOf # "off"
    BY DEF ModeOf
  <2>4. /\ mode' = Slave!ModeAfter /\ bits' = <<>>
        /\ slave_sda' \in IF Slave!Drives(Slave!ModeAfter, 0) THEN Answers ELSE {1}
    BY <2>1, <2>3, EmptyBits DEF Slave!OnFall
  <2>5. mode' # "read" => slave_sda' = 1
    BY <2>4, EmptyBits DEF Slave!Drives
  <2>6. mode' = CASE state = "slv_ack1" -> IF addr_rw[0] = 0 THEN "write" ELSE "read"
                  [] state = "slv_ack2" -> "write"
                  [] OTHER              -> IF sda_int = 0 THEN "read" ELSE "off"
    BY <1>6, <2>1, <2>2, <2>4, BitFacts DEF InAck, ModeOf, Sends, Slave!ModeAfter
  <2>7. AtAck'
    BY <1>1, <1>2, <2>4, <2>5, <2>6 DEF AtAck
  <2> QED
    BY <1>1, <1>6, <2>7 DEF InAck, AtStart, InBits, InByte
<1>7. CASE state = "stop"
  BY <1>1, <1>7 DEF AtStart, InBits, InByte, AtAck, InAck
<1>8. state \in {"start", "command", "slv_ack1", "wr", "rd", "slv_ack2", "mstr_ack", "stop"}
  BY DEF BusInv, TypeInv, Types, Core!TypeOK, Core!States
<1> QED
  BY <1>4, <1>5, <1>6, <1>7, <1>8 DEF InByte, InAck

(* SCL rises: the slave takes the bit that is on the wire.                 *)
LEMMA RiseBits ==
  ASSUME WithinLimits, BusInv, NEW log, BusStep(log), state # "ready", Keeps, scl_ena = 1,
         count = 2 * Divider, stretch = 1, hold = 0, Slave!OnRise(SDA, log)
  PROVE  AtStart' /\ InBits' /\ AtAck'
<1>1. /\ state' = state /\ sda_int' = sda_int /\ data_rx' = data_rx /\ slave_sda' = slave_sda /\ mode' = mode
      /\ addr_rw' = addr_rw /\ data_tx' = data_tx /\ bit_cnt' = bit_cnt /\ i2c_data_rd' = i2c_data_rd
      /\ Divider \in Nat /\ Divider >= 2
  BY MasterLimits DEF Keeps, Slave!OnRise
<1>2. /\ count' = 2 * Divider /\ stretch' = 0
  <2>1. SCL = 1
    BY LevelsHold, <1>1 DEF BusInv, Levels
  <2> QED
    BY <1>1, <2>1, CountMoves DEF BusInv, BusStep
<1>3. ~Sampled /\ Sampled' /\ ~Fallen /\ ~Fallen' /\ ~Past'
  BY <1>1, <1>2 DEF Sampled, Fallen, Past
<1>4. ModeOf' = ModeOf /\ Sends' = Sends /\ ModeOf # "off"
  BY <1>1 DEF ModeOf, Sends
<1>5. AtStart'
  BY <1>3 DEF AtStart
<1>6. mode # "off" =>
        /\ bits' = Append(bits, SDA) /\ Len(bits') = Len(bits) + 1 /\ bits'[Len(bits) + 1] = SDA
        /\ \A j \in 1 .. Len(bits) : bits'[j] = bits[j]
  BY BitFacts, WiresAreBits, AppendProperties DEF Slave!OnRise
<1>7. state \notin {"ready", "start", "stop"} =>
        SDA = IF slave_sda = 0 \/ sda_int = 0 THEN 0 ELSE 1
  BY LevelsHold DEF BusInv, Levels
<1>8. CASE InByte
  <2>1. /\ mode = ModeOf
        /\ sda_int = IF state = "rd" THEN 1 ELSE Sends[bit_cnt]
        /\ Len(bits) = Top - bit_cnt
        /\ state # "rd" => slave_sda = 1
        /\ \A j \in 1 .. Top - bit_cnt : bits[j] = Sends[Width - j]
    BY <1>3, <1>8, BitFacts DEF BusInv, InBits
  <2>2. SDA = IF state = "rd" THEN slave_sda ELSE Sends[bit_cnt]
    BY <1>7, <1>8, <2>1, BitFacts DEF InByte
  <2>3. /\ Len(bits') = Top - bit_cnt + 1 /\ bits'[Width - bit_cnt] = SDA
        /\ \A j \in 1 .. Top - bit_cnt : bits'[j] = Sends[Width - j]
    BY <1>4, <1>6, <2>1, BitFacts, SMTT(20)
  <2>4. count' \in 2 * Divider .. 3 * Divider
    BY <1>1, <1>2
  <2>5. InBits'
    BY <1>1, <1>3, <1>4, <2>1, <2>2, <2>3, <2>4 DEF InBits
  <2> QED
    BY <1>1, <1>5, <1>8, <2>5 DEF InByte, AtAck, InAck
<1>9. CASE InAck
  <2>1. /\ mode = ModeOf /\ Len(bits) = Width
        /\ state = "mstr_ack" => slave_sda = 1
        /\ \A j \in 1 .. Width : bits[j] = Sends[Width - j]
    BY <1>3, <1>9, BitFacts DEF BusInv, AtAck
  <2>2. SDA = IF state = "mstr_ack" THEN sda_int ELSE slave_sda
    BY <1>7, <1>9, <2>1, BitFacts DEF InAck
  <2>3. /\ Len(bits') = Width + 1 /\ bits'[Width + 1] = SDA
        /\ \A j \in 1 .. Width : bits'[j] = Sends[Width - j]
    BY <1>4, <1>6, <2>1, BitFacts
  <2>4. AtAck'
    BY <1>1, <1>3, <1>4, <2>1, <2>2, <2>3 DEF AtAck
  <2> QED
    BY <1>1, <1>5, <1>9, <2>4 DEF InAck, InBits, InByte
<1>10. CASE ~InByte /\ ~InAck
  BY <1>1, <1>5, <1>10 DEF InByte, InAck, InBits, AtAck
<1> QED
  BY <1>8, <1>9, <1>10

LEMMA BitsStep ==
  ASSUME WithinLimits, BusInv, NEW log, BusStep(log)
  PROVE  AtStart' /\ InBits' /\ AtAck'
<1>1. CASE state = "ready"
  <2>1. state' \in {"ready", "start"}
    BY <1>1, MasterReady DEF BusInv, BusStep
  <2>2. state' = "start" => count' = Divider + 1
    BY <1>1, MasterReady DEF BusInv, BusStep
  <2>3. AtStart'
    BY <2>2, MasterLimits DEF AtStart, Past
  <2> QED
    BY <2>1, <2>3 DEF InBits, AtAck, InByte, InAck
<1>2. CASE state # "ready" /\ Acts
  BY <1>2, ActBits
<1>3. CASE state # "ready" /\ count # Divider /\ Keeps
  <2>1. CASE SlaveRests(log)
    BY <1>3, <2>1, RestBits
  <2>2. CASE scl_ena = 1 /\ count = 0 /\ Slave!OnFall(log)
    BY <1>3, <2>2, FallBits
  <2>3. CASE scl_ena = 1 /\ count = 2 * Divider /\ stretch = 1 /\ hold = 0 /\ Slave!OnRise(SDA, log)
    BY <1>3, <2>3, RiseBits
  <2>4. CASE state = "start" /\ Slave!OnStart(log)
    BY <1>3, <2>4 DEF Keeps, Slave!OnStart, AtStart, InBits, AtAck, InByte, InAck
  <2>5. CASE state = "stop"
    BY <1>3, <2>5 DEF Keeps, AtStart, InBits, AtAck, InByte, InAck
  <2> QED
    BY <2>1, <2>2, <2>3, <2>4, <2>5, SlaveMoves DEF BusInv, BusStep, SlaveActs
<1> QED
  BY <1>1, <1>2, <1>3, MasterSteps DEF BusInv, BusStep

LEMMA BusInvStep ==
  ASSUME WithinLimits, BusInv, TypeInv', Core!IInv', NEW log, BusStep(log)
  PROVE  BusInv'
<1>1. Wires'
  BY SclStep, ReleasedStep, OldSdaStep DEF Wires
<1> QED
  BY <1>1, BitsStep DEF BusInv

----------------------------------------------------------------------------
(* The script of a request, byte by byte: byte k is at its place, the first*)
(* written and the first read byte with a start and a command before it.   *)

PlaceOf(w, k) == k + (IF k <= w \/ w = 0 THEN 2 ELSE 4)

Steps == [kind : {"start", "stop"}] \cup [kind : {"command"}, addr : Addresses, rw : Bit]
         \cup [kind : {"write"}, byte : Bytes] \cup [kind : {"read"}, ack : Bit]

LEMMA FunctionIsSeq ==
  ASSUME NEW S, NEW n \in Nat, NEW f \in [1 .. n -> S]
  PROVE  f \in Seq(S) /\ Len(f) = n
OBVIOUS

(* Two sequences of steps, one after the other.                            *)
Joined(a, b) == a \o b

LEMMA TwoParts ==
  ASSUME NEW a \in Seq(Steps), NEW b \in Seq(Steps)
  PROVE  /\ Joined(a, b) \in Seq(Steps) /\ Len(Joined(a, b)) = Len(a) + Len(b)
         /\ \A i \in 1 .. Len(a) : Joined(a, b)[i] = a[i]
         /\ \A i \in 1 .. Len(b) : Joined(a, b)[Len(a) + i] = b[i]
<1> DEFINE m == Len(a)
           n == Len(b)
           c == a \o b
<1>1. /\ c \in Seq(Steps) /\ Len(c) = m + n /\ m \in Nat /\ n \in Nat
      /\ \A i \in 1 .. m + n : c[i] = IF i <= m THEN a[i] ELSE b[i - m]
  BY ConcatProperties, LenProperties
<1> HIDE DEF m, n, c
<1>2. \A i \in 1 .. m : c[i] = a[i]
  BY <1>1
<1>3. ASSUME NEW i \in 1 .. n
      PROVE  c[m + i] = b[i]
  <2>1. m + i \in 1 .. m + n /\ ~(m + i <= m) /\ (m + i) - m = i
    BY <1>1
  <2> QED
    BY <1>1, <2>1
<1> QED
  BY <1>1, <1>2, <1>3 DEF m, n, c, Joined

LEMMA AddressPart ==
  ASSUME NEW a \in Addresses, NEW rw \in Bit
  PROVE  /\ Transfer!Address(a, rw) \in Seq(Steps) /\ Len(Transfer!Address(a, rw)) = 2
         /\ Transfer!Address(a, rw)[1] = [kind |-> "start"]
         /\ Transfer!Address(a, rw)[2] = [kind |-> "command", addr |-> a, rw |-> rw]
BY DEF Transfer!Address, Steps

(* An address and the bytes after it, if there are any.                    *)
Part(a, rw, n, f) == IF n = 0 THEN <<>> ELSE Joined(Transfer!Address(a, rw), f)

LEMMA PartOfScript ==
  ASSUME NEW a \in Addresses, NEW rw \in Bit, NEW n \in Nat, NEW f \in [1 .. n -> Steps]
  PROVE  /\ Part(a, rw, n, f) \in Seq(Steps)
         /\ Len(Part(a, rw, n, f)) = IF n = 0 THEN 0 ELSE n + 2
         /\ n > 0 => Part(a, rw, n, f)[1] = [kind |-> "start"]
         /\ n > 0 => Part(a, rw, n, f)[2] = [kind |-> "command", addr |-> a, rw |-> rw]
         /\ \A k \in 1 .. n : Part(a, rw, n, f)[2 + k] = f[k]
<1>1. f \in Seq(Steps) /\ Len(f) = n
  BY FunctionIsSeq
<1>2. CASE n = 0
  BY <1>2 DEF Part
<1>3. CASE n > 0
  <2> DEFINE s == Transfer!Address(a, rw)
             p == Joined(s, f)
  <2>1. /\ s \in Seq(Steps) /\ Len(s) = 2 /\ s[1] = [kind |-> "start"]
        /\ s[2] = [kind |-> "command", addr |-> a, rw |-> rw]
    BY AddressPart
  <2>2. Part(a, rw, n, f) = p
    BY <1>3 DEF Part
  <2> HIDE DEF s
  <2>3. /\ p \in Seq(Steps) /\ Len(p) = Len(s) + Len(f)
        /\ \A i \in 1 .. Len(s) : p[i] = s[i]
        /\ \A i \in 1 .. Len(f) : p[Len(s) + i] = f[i]
    BY <1>1, <2>1, TwoParts
  <2> HIDE DEF p
  <2>4. /\ Len(p) = 2 + n
        /\ p[1] = s[1] /\ p[2] = s[2]
        /\ \A i \in 1 .. n : p[2 + i] = f[i]
    BY <1>1, <2>1, <2>3
  <2> QED
    BY <1>3, <2>1, <2>2, <2>3, <2>4
<1> QED
  BY <1>2, <1>3

LEMMA ScriptOf ==
  ASSUME NEW r \in Requests
  PROVE  LET w == Len(r.writes)
             d == r.reads
             n == w + d
             s == Transfer!Script(r)
         IN  n > 0 =>
               /\ Len(s) = PlaceOf(w, n) + 1 /\ s[PlaceOf(w, n) + 1] = [kind |-> "stop"]
               /\ \A k \in 1 .. n : k \in {1, w + 1} =>
                    /\ s[PlaceOf(w, k) - 2] = [kind |-> "start"]
                    /\ s[PlaceOf(w, k) - 1] =
                         [kind |-> "command", addr |-> r.addr, rw |-> IF k > w THEN 1 ELSE 0]
               /\ \A k \in 1 .. n : k <= w =>
                    s[PlaceOf(w, k)] = [kind |-> "write", byte |-> r.writes[k]]
               /\ \A k \in 1 .. n : k > w =>
                    s[PlaceOf(w, k)] = [kind |-> "read", ack |-> IF k = n THEN 1 ELSE 0]
<1> DEFINE w  == Len(r.writes)
           d  == r.reads
           n  == w + d
           s  == Transfer!Script(r)
           fw == [i \in 1 .. w |-> [kind |-> "write", byte |-> r.writes[i]]]
           fr == [i \in 1 .. d |-> [kind |-> "read", ack |-> IF i = d THEN 1 ELSE 0]]
           sw == Part(r.addr, 0, w, fw)
           sr == Part(r.addr, 1, d, fr)
           e  == <<[kind |-> "stop"]>>
           q  == Joined(sw, sr)
           m  == IF w = 0 THEN 0 ELSE w + 2
           h  == IF d = 0 THEN 0 ELSE d + 2
<1>1. /\ r.addr \in Addresses /\ d \in Nat /\ w \in Nat
      /\ \A i \in 1 .. w : r.writes[i] \in Bytes
      /\ r.writes = <<>> <=> w = 0
  BY RequestFields, LenProperties, EmptySeq
<1>2. fw \in [1 .. w -> Steps] /\ fr \in [1 .. d -> Steps]
  BY <1>1 DEF Steps
<1>3. s = Joined(q, e)
  BY <1>1 DEF Transfer!Script, Part, Joined
<1>4. /\ \A k \in 1 .. w : fw[k] = [kind |-> "write", byte |-> r.writes[k]]
      /\ \A k \in 1 .. d : fr[k] = [kind |-> "read", ack |-> IF k = d THEN 1 ELSE 0]
  OBVIOUS
<1>5. e \in Seq(Steps) /\ Len(e) = 1 /\ e[1] = [kind |-> "stop"]
  BY DEF Steps
<1>6. m \in Nat /\ h \in Nat
  BY <1>1
<1>n. n = w + d
  OBVIOUS
<1>14. m = (IF w = 0 THEN 0 ELSE w + 2) /\ h = (IF d = 0 THEN 0 ELSE d + 2)
  OBVIOUS
<1> HIDE DEF w, d, n, s, fw, fr, sw, sr, e, m, h
<1>7. /\ sw \in Seq(Steps) /\ Len(sw) = m
      /\ w > 0 => sw[1] = [kind |-> "start"]
      /\ w > 0 => sw[2] = [kind |-> "command", addr |-> r.addr, rw |-> 0]
      /\ \A k \in 1 .. w : sw[2 + k] = fw[k]
  <2>1. /\ Part(r.addr, 0, w, fw) \in Seq(Steps)
        /\ Len(Part(r.addr, 0, w, fw)) = IF w = 0 THEN 0 ELSE w + 2
        /\ w > 0 => Part(r.addr, 0, w, fw)[1] = [kind |-> "start"]
        /\ w > 0 => Part(r.addr, 0, w, fw)[2] = [kind |-> "command", addr |-> r.addr, rw |-> 0]
        /\ \A k \in 1 .. w : Part(r.addr, 0, w, fw)[2 + k] = fw[k]
    <3>1. /\ r.addr \in Addresses /\ 0 \in Bit /\ w \in Nat /\ fw \in [1 .. w -> Steps]
      BY <1>1, <1>2
    <3> QED
      BY <3>1, PartOfScript
  <2> QED
    BY <2>1, <1>14 DEF sw
<1>8a. /\ Part(r.addr, 1, d, fr) \in Seq(Steps)
       /\ Len(Part(r.addr, 1, d, fr)) = IF d = 0 THEN 0 ELSE d + 2
       /\ d > 0 => Part(r.addr, 1, d, fr)[1] = [kind |-> "start"]
       /\ d > 0 => Part(r.addr, 1, d, fr)[2] = [kind |-> "command", addr |-> r.addr, rw |-> 1]
       /\ \A k \in 1 .. d : Part(r.addr, 1, d, fr)[2 + k] = fr[k]
  <2>1. /\ r.addr \in Addresses /\ 1 \in Bit /\ d \in Nat /\ fr \in [1 .. d -> Steps]
    BY <1>1, <1>2
  <2> QED
    BY <2>1, PartOfScript
<1>8. /\ sr \in Seq(Steps) /\ Len(sr) = h
      /\ d > 0 => sr[1] = [kind |-> "start"]
      /\ d > 0 => sr[2] = [kind |-> "command", addr |-> r.addr, rw |-> 1]
      /\ \A k \in 1 .. d : sr[2 + k] = fr[k]
  BY <1>8a DEF sr, h
<1>9. /\ q \in Seq(Steps) /\ Len(q) = Len(sw) + Len(sr)
      /\ \A i \in 1 .. Len(sw) : q[i] = sw[i]
      /\ \A i \in 1 .. Len(sr) : q[Len(sw) + i] = sr[i]
  BY <1>7, <1>8, TwoParts DEF q
<1> HIDE DEF q
<1>10. /\ q \in Seq(Steps) /\ Len(q) = m + h
       /\ \A i \in 1 .. m : q[i] = sw[i]
       /\ \A i \in 1 .. h : q[m + i] = sr[i]
  BY <1>7, <1>8, <1>9
<1>11. /\ Len(Joined(q, e)) = Len(q) + Len(e)
       /\ \A i \in 1 .. Len(q) : Joined(q, e)[i] = q[i]
       /\ \A i \in 1 .. Len(e) : Joined(q, e)[Len(q) + i] = e[i]
  BY <1>5, <1>9, TwoParts
<1>12. /\ Len(s) = (m + h) + 1
       /\ \A i \in 1 .. m + h : s[i] = q[i]
       /\ \A i \in 1 .. 1 : s[(m + h) + i] = e[i]
  BY <1>3, <1>5, <1>10, <1>11
<1>13. /\ \A i \in 1 .. m : s[i] = sw[i]
       /\ \A i \in 1 .. h : s[m + i] = sr[i]
       /\ s[(m + h) + 1] = [kind |-> "stop"]
  <2>1. /\ \A i \in 1 .. m : i \in 1 .. m + h
        /\ \A i \in 1 .. h : m + i \in 1 .. m + h
        /\ 1 \in 1 .. 1
    BY <1>6
  <2> QED
    BY <1>5, <1>10, <1>12, <2>1, Zenon
<1>20. n > 0 => PlaceOf(w, n) = m + h
  BY <1>1, <1>n, <1>14 DEF PlaceOf
<1>21. ASSUME NEW k \in 1 .. n, k <= w
      PROVE  k \in 1 .. w /\ PlaceOf(w, k) = 2 + k /\ 2 + k \in 1 .. m /\ w > 0
  BY <1>1, <1>n, <1>14, <1>21 DEF PlaceOf
<1>22. ASSUME NEW k \in 1 .. n, k > w
      PROVE  /\ k - w \in 1 .. d /\ PlaceOf(w, k) = m + (2 + (k - w)) /\ 2 + (k - w) \in 1 .. h
             /\ k - w = d <=> k = n
             /\ d > 0 /\ h >= 3
  BY <1>1, <1>n, <1>14, <1>22 DEF PlaceOf
<1>23. ASSUME NEW k \in 1 .. n, k \in {1, w + 1}, k <= w
      PROVE  s[PlaceOf(w, k) - 2] = sw[1] /\ s[PlaceOf(w, k) - 1] = sw[2]
  <2>1. PlaceOf(w, k) - 2 = 1 /\ PlaceOf(w, k) - 1 = 2 /\ 1 \in 1 .. m /\ 2 \in 1 .. m
    BY <1>1, <1>n, <1>14, <1>23 DEF PlaceOf
  <2> QED
    BY <1>13, <2>1
<1>24. ASSUME NEW k \in 1 .. n, k \in {1, w + 1}, k > w
      PROVE  s[PlaceOf(w, k) - 2] = sr[1] /\ s[PlaceOf(w, k) - 1] = sr[2]
  <2>1. PlaceOf(w, k) - 2 = m + 1 /\ PlaceOf(w, k) - 1 = m + 2 /\ 1 \in 1 .. h /\ 2 \in 1 .. h
    BY <1>1, <1>6, <1>24, <1>22
  <2> QED
    BY <1>13, <2>1
<1>25. ASSUME NEW k \in 1 .. n, k <= w
       PROVE  s[PlaceOf(w, k)] = [kind |-> "write", byte |-> r.writes[k]]
  <2>1. k \in 1 .. w /\ PlaceOf(w, k) = 2 + k /\ 2 + k \in 1 .. m
    BY <1>25, <1>21
  <2>2. s[2 + k] = sw[2 + k] /\ sw[2 + k] = fw[k]
    BY <1>7, <1>13, <2>1
  <2>3. fw[k] = [kind |-> "write", byte |-> r.writes[k]]
    BY <1>4, <2>1
  <2> QED
    BY <2>1, <2>2, <2>3
<1>26. ASSUME NEW k \in 1 .. n, k > w
       PROVE  s[PlaceOf(w, k)] = [kind |-> "read", ack |-> IF k = n THEN 1 ELSE 0]
  <2> DEFINE j == k - w
             x == 2 + j
  <2>1. /\ j \in 1 .. d /\ PlaceOf(w, k) = m + x /\ x \in 1 .. h
        /\ j = d <=> k = n
    BY <1>1, <1>n, <1>14, <1>26 DEF PlaceOf
  <2> HIDE DEF j
  <2>2. sr[x] = fr[j]
    BY <1>8, <2>1
  <2> HIDE DEF x
  <2>3. s[m + x] = sr[x]
    BY <1>13, <2>1
  <2>4. fr[j] = [kind |-> "read", ack |-> IF j = d THEN 1 ELSE 0]
    BY <1>4, <2>1
  <2> QED
    BY <2>1, <2>2, <2>3, <2>4, Zenon
<1>27. ASSUME NEW k \in 1 .. n, k \in {1, w + 1}
       PROVE  /\ s[PlaceOf(w, k) - 2] = [kind |-> "start"]
              /\ s[PlaceOf(w, k) - 1] =
                   [kind |-> "command", addr |-> r.addr, rw |-> IF k > w THEN 1 ELSE 0]
  <2>1. k \in Nat /\ n \in Nat /\ (k <= w <=> ~(k > w))
    BY <1>1, <1>n
  <2>2. CASE k <= w
    BY <1>7, <1>21, <1>23, <1>27, <2>1, <2>2, Zenon
  <2>3. CASE k > w
    BY <1>8, <1>22, <1>24, <1>27, <2>1, <2>3, Zenon
  <2> QED
    BY <2>1, <2>2, <2>3
<1>28. n > 0 =>
         /\ Len(s) = PlaceOf(w, n) + 1 /\ s[PlaceOf(w, n) + 1] = [kind |-> "stop"]
  BY <1>12, <1>13, <1>20, Zenon
<1> QED
  BY <1>25, <1>26, <1>27, <1>28, Zenon DEF w, d, n, s

----------------------------------------------------------------------------
(* The log.  An event is seen at the end of a start or a stop condition,   *)
(* and when SCL falls after an acknowledge.                                *)
EventNow == \/ state \in {"start", "stop"} /\ count = 3 * Divider + 1
            \/ InAck /\ count = 0

EventOf ==
  CASE state \in {"start", "stop"} -> [kind |-> state]
    [] state = "slv_ack1" ->
         [kind |-> "command", addr |-> Address, rw |-> ReadKind(Number), ack |-> slave_sda]
    [] state = "slv_ack2" -> [kind |-> "write", byte |-> data_tx, ack |-> slave_sda]
    [] OTHER              -> [kind |-> "read", byte |-> i2c_data_rd, ack |-> sda_int]

(* A whole byte in the slave's bits is the one that was sent.              *)
LEMMA SeenByte ==
  ASSUME WithinLimits, NEW b \in Bytes, \A j \in 1 .. Width : bits[j] = b[Width - j]
  PROVE  Slave!ByteOf(bits) = b
<1>1. Width \in Nat /\ Width >= 2
  BY MasterLimits
<1>2. ASSUME NEW i \in 0 .. Width - 1
      PROVE  bits[Width - i] = b[i]
  <2>1. Width - i \in 1 .. Width /\ Width - (Width - i) = i
    BY <1>1
  <2> QED
    BY <2>1
<1> QED
  BY <1>2 DEF Slave!ByteOf

LEMMA SeenAtAck ==
  ASSUME WithinLimits, BusInv, AtByte, InAck, count = 0
  PROVE  mode # "off" /\ Len(bits) = Width + 1 /\ Slave!Seen = EventOf
<1>1. Width \in Nat /\ Width >= 2 /\ Divider \in Nat /\ Divider >= 2
  BY MasterLimits
<1>2. Sampled /\ ~Fallen
  BY <1>1 DEF Sampled, Fallen
<1>3. /\ mode = ModeOf /\ Len(bits) = Width + 1
      /\ \A j \in 1 .. Width : bits[j] = Sends[Width - j]
      /\ bits[Width + 1] = IF state = "mstr_ack" THEN sda_int ELSE slave_sda
  BY <1>2 DEF BusInv, AtAck
<1>4. Sends \in Bytes
  BY BitFacts DEF Sends
<1> DEFINE b == Sends
<1>5. b \in Bytes /\ \A j \in 1 .. Width : bits[j] = b[Width - j]
  BY <1>3, <1>4
<1>6. Slave!ByteOf(bits) = b
  <2> HIDE DEF b
  <2> QED
    BY <1>5, SeenByte
<1>7. CASE state = "slv_ack1"
  <2>1. mode = "command" /\ b = addr_rw /\ state # "mstr_ack"
    BY <1>3, <1>7 DEF ModeOf, Sends
  <2>2. addr_rw = CommandOf(Address, ReadKind(Number))
    BY <1>7 DEF AtByte
  <2>3. Address \in Addresses /\ ReadKind(Number) \in Bit
    BY DEF BusInv, TypeInv, Types, UserTypes, ReadKind
  <2>4. addr_rw[0] = ReadKind(Number) /\ \A i \in 1 .. Top : addr_rw[i] = Address[i - 1]
    BY <2>2, <2>3, CommandIsByte
  <2>5. ASSUME NEW i \in 0 .. Width - 2
        PROVE  addr_rw[i + 1] = Address[i]
    <3>1. i + 1 \in 1 .. Top /\ (i + 1) - 1 = i
      BY <1>1
    <3> QED
      BY <2>4, <3>1
  <2>6. [i \in 0 .. Width - 2 |-> addr_rw[i + 1]] = Address
    BY <2>3, <2>5
  <2> QED
    BY <1>3, <1>6, <1>7, <2>1, <2>4, <2>6 DEF Slave!Seen, EventOf
<1>8. CASE state = "slv_ack2"
  <2>1. mode = "write" /\ b = data_tx
    BY <1>3, <1>8 DEF ModeOf, Sends
  <2> QED
    BY <1>3, <1>6, <1>8, <2>1 DEF Slave!Seen, EventOf
<1>9. CASE state = "mstr_ack"
  <2>1. mode = "read" /\ b = i2c_data_rd
    BY <1>3, <1>9 DEF ModeOf, Sends
  <2> QED
    BY <1>3, <1>6, <1>9, <2>1 DEF Slave!Seen, EventOf
<1> QED
  BY <1>7, <1>8, <1>9 DEF InAck

LEMMA NotFull ==
  ASSUME WithinLimits, BusInv, ~InAck, state # "ready", scl_ena = 1, count = 0
  PROVE  mode = "off" \/ Len(bits) # Width + 1
<1>1. Width \in Nat /\ Width >= 2 /\ Divider \in Nat /\ Divider >= 2 /\ bit_cnt \in 0 .. Top
  BY BitFacts
<1>2. Sampled /\ Past
  BY <1>1 DEF Sampled, Past
<1>3. CASE state = "start"
  BY <1>2, <1>3, EmptyBits DEF BusInv, AtStart
<1>4. CASE InByte
  <2>1. Len(bits) = Top - bit_cnt + 1
    BY <1>2, <1>4 DEF BusInv, InBits
  <2> QED
    BY <1>1, <2>1
<1>5. state # "stop"
  <2>1. state = "stop" => (scl_ena = 1 <=> count \in Divider + 1 .. 3 * Divider)
    BY DEF BusInv, Core!IInv, Core!SclWhileBusy
  <2> QED
    BY <1>1, <2>1
<1>6. state \in {"start", "command", "slv_ack1", "wr", "rd", "slv_ack2", "mstr_ack", "stop"}
  BY DEF BusInv, TypeInv, Types, Core!TypeOK, Core!States
<1> QED
  BY <1>3, <1>4, <1>5, <1>6 DEF InByte, InAck

LEMMA EventStep ==
  ASSUME WithinLimits, BusInv, AtByte, NEW log, BusStep(log), state # "ready"
  PROVE  bus' = IF EventNow THEN Append(log, EventOf) ELSE log
<1>1. Divider \in Nat /\ Divider >= 2
  BY MasterLimits
<1>2. state \notin {"ready", "start", "stop"} => scl_ena = 1
  BY BitFacts
<1>3. CASE SlaveRests(log)
  <2>1. bus' = log
    BY <1>3 DEF SlaveRests, Slave!Quiet
  <2>2. ~EventNow
    BY <1>2, <1>3 DEF SlaveRests, EventNow, InAck
  <2> QED
    BY <2>1, <2>2
<1>4. CASE scl_ena = 1 /\ count = 0 /\ Slave!OnFall(log)
  <2>1. CASE InAck
    <3>1. mode # "off" /\ Len(bits) = Width + 1 /\ Slave!Seen = EventOf
      BY <1>4, <2>1, SeenAtAck
    <3> QED
      BY <1>4, <2>1, <3>1 DEF Slave!OnFall, EventNow
  <2>2. CASE ~InAck
    <3>1. mode = "off" \/ Len(bits) # Width + 1
      BY <1>4, <2>2, NotFull
    <3>2. count # 3 * Divider + 1
      BY <1>1, <1>4
    <3> QED
      BY <1>4, <2>2, <3>1, <3>2 DEF Slave!OnFall, EventNow
  <2> QED
    BY <2>1, <2>2
<1>5. CASE scl_ena = 1 /\ count = 2 * Divider /\ stretch = 1 /\ hold = 0 /\ Slave!OnRise(SDA, log)
  <2>1. bus' = log
    BY <1>5 DEF Slave!OnRise
  <2>2. count # 0 /\ count # 3 * Divider + 1
    BY <1>1, <1>5
  <2> QED
    BY <2>1, <2>2 DEF EventNow
<1>6. CASE scl_ena = 1 /\ count = 3 * Divider + 1 /\ state = "start" /\ Slave!OnStart(log)
  BY <1>6 DEF Slave!OnStart, EventNow, EventOf
<1>7. CASE scl_ena = 0 /\ count = 3 * Divider + 1 /\ state = "stop" /\ Slave!OnStop(log)
  BY <1>7 DEF Slave!OnStop, EventNow, EventOf
<1>8. SlaveRests(log) \/ SlaveActs(log)
  BY SlaveMoves DEF BusInv, BusStep
<1> QED
  BY <1>3, <1>4, <1>5, <1>6, <1>7, <1>8 DEF SlaveActs

(* What a clock of a transfer does to the number of the byte.              *)
Turns ==
  \/ Number' = Number /\ state = "start" /\ state' = "command"
  \/ Number' = Number /\ state = "command" /\ state' \in {"command", "slv_ack1"}
  \/ Number' = Number /\ state = "slv_ack1" /\ state' \in {"wr", "rd"}
  \/ Number' = Number /\ state = "wr" /\ state' \in {"wr", "slv_ack2"}
  \/ Number' = Number /\ state = "rd" /\ state' \in {"rd", "mstr_ack"} /\ i2c_busy' = 1
  \/ /\ Number' = Number + 1 /\ state = "slv_ack2" /\ state' \in {"start", "wr"} /\ i2c_busy' = 0
  \/ /\ Number' = Number + 1 /\ state = "mstr_ack" /\ state' \in {"start", "rd"} /\ i2c_busy' = 0
  \/ Number' = Number /\ state \in {"slv_ack2", "mstr_ack"} /\ state' = "stop"
  \/ state = "stop" /\ state' = "ready" /\ busy_cnt' = Last /\ i2c_busy' = 0

LEMMA NumberStep ==
  ASSUME Working, Edge
  PROVE  \/ count # Divider /\ Keeps /\ Number' = Number
         \/ Acts /\ Turns
<1>1. /\ busy_cnt \in Nat /\ Last \in Nat /\ i2c_busy \in {0, 1} /\ busy_prev \in {0, 1}
      /\ i2c_ena \in {0, 1}
  BY Numbers DEF Working, Last
<1>2. \/ count # Divider /\ Keeps
      \/ Acts
  BY MasterSteps DEF Working, Edge
<1>3. \/ count # Divider /\ Stays
      \/ /\ count = Divider /\ count' = Divider + 1 /\ scl_ena' = scl_ena
         /\ \/ MovesOn \/ TakesNext \/ Ends
            \/ state = "stop" /\ state' = "ready" /\ i2c_busy' = 0
  BY MasterMoves DEF Working, Edge
<1>4. Acts => count = Divider
  BY DEF Acts
<1>5. CASE i2c_busy = 1 /\ busy_prev = 0
  <2>1. count # Divider /\ i2c_busy' = 1 /\ busy_prev' = 1 /\ busy_cnt' = busy_cnt + 1
    <3>1. count = Divider + 1 /\ Stays /\ busy_prev' = 1 /\ busy_cnt' = busy_cnt + 1
      BY <1>5, Counts
    <3>2. Divider \in Nat
      BY MasterLimits DEF Working
    <3> QED
      BY <1>5, <3>1, <3>2 DEF Stays
  <2>2. Number' = Number
    BY <1>5, <2>1 DEF Number
  <2> QED
    BY <1>2, <1>4, <2>1, <2>2
<1>6. CASE i2c_busy = 0
  <2>1. busy_cnt > 0 /\ busy_cnt < Last /\ state \in {"start", "wr", "rd"}
    BY <1>1, <1>6 DEF Working, BusyEdges, AtByte, Number
  <2>2. busy_prev' = 0 /\ busy_cnt' = busy_cnt
    BY <1>1, <1>6, <2>1, ControllerStep DEF Working, Edge
  <2>3. Number' = Number
    BY <1>6, <2>2 DEF Number
  <2>4. CASE count # Divider
    BY <1>2, <1>4, <2>3, <2>4
  <2>5. CASE count = Divider
    <3>1. MovesOn
      BY <1>3, <2>1, <2>5 DEF TakesNext, Ends
    <3> QED
      BY <1>2, <2>1, <2>3, <2>5, <3>1 DEF MovesOn, Turns
  <2> QED
    BY <2>4, <2>5
<1>7. CASE i2c_busy = 1 /\ busy_prev = 1
  <2>1. busy_prev' = 1 /\ busy_cnt' = busy_cnt /\ Number = busy_cnt
    BY <1>7, Watches
  <2>2. i2c_busy' = 1 => Number' = Number
    BY <2>1 DEF Number
  <2>3. i2c_busy' = 0 => Number' = Number + 1
    BY <2>1 DEF Number
  <2>4. CASE count # Divider
    <3>1. Stays
      BY <1>3, <2>4
    <3> QED
      BY <1>2, <1>4, <1>7, <2>2, <2>4, <3>1 DEF Stays
  <2>5. CASE count = Divider
    <3>1. Acts
      BY <1>2, <2>5
    <3>2. CASE MovesOn
      BY <1>7, <2>2, <3>1, <3>2 DEF MovesOn, Turns
    <3>3. CASE TakesNext
      BY <2>3, <3>1, <3>3 DEF TakesNext, Turns
    <3>4. CASE Ends
      BY <1>7, <2>2, <3>1, <3>4 DEF Ends, Turns
    <3>5. CASE state = "stop" /\ state' = "ready" /\ i2c_busy' = 0
      <4>1. busy_cnt' = Last
        BY <2>1, <3>5 DEF Working, AtByte
      <4> QED
        BY <3>1, <3>5, <4>1 DEF Turns
    <3> QED
      BY <1>3, <2>5, <3>2, <3>3, <3>4, <3>5
  <2> QED
    BY <2>4, <2>5
<1> QED
  BY <1>1, <1>5, <1>6, <1>7

(* The place of the bus in the script.                                     *)
Place(k) == PlaceOf(WR_Bytes, k)
Transferred == user = "waiting" /\ Busy = 0

Logged ==
  CASE state = "ready" -> IF Transferred \/ busy_cnt # 0 THEN Place(Last) + 1 ELSE 0
    [] state = "start" -> Place(Number) - (IF Past THEN 2 ELSE 3)
    [] state = "command" -> Place(Number) - 2
    [] state = "slv_ack1" -> Place(Number) - (IF Fallen THEN 1 ELSE 2)
    [] state \in {"wr", "rd"} -> Place(Number) - 1
    [] state \in {"slv_ack2", "mstr_ack"} -> Place(Number) - (IF Fallen THEN 0 ELSE 1)
    [] OTHER -> Place(Last) + (IF Past THEN 1 ELSE 0)

LEMMA Places ==
  ASSUME TypeInv
  PROVE  /\ \A k \in Nat : Place(k) = k + (IF k <= WR_Bytes \/ WR_Bytes = 0 THEN 2 ELSE 4)
         /\ \A k \in Nat : Place(k) \in Nat
         /\ \A j, k \in Nat : j <= k => Place(j) <= Place(k)
         /\ \A k \in Nat : Place(k + 1) = Place(k) + (IF k = WR_Bytes /\ k > 0 THEN 3 ELSE 1)
         /\ Place(1) = 3
<1>1. WR_Bytes \in Nat
  BY DEF TypeInv, Types, UserTypes
<1> QED
  BY <1>1 DEF Place, PlaceOf

(* The parts of a period, from clock to clock.                             *)
LEMMA PhaseStep ==
  ASSUME WithinLimits, TypeInv, Wires, Core!Timing(SCL)
  PROVE  /\ count # Divider => (Past' <=> Past \/ count = 3 * Divider + 1)
         /\ count # Divider => (Fallen' <=> Fallen \/ count = 0)
         /\ count = Divider => Past /\ Fallen /\ ~Past' /\ ~Fallen'
         /\ count = Divider => count # 0 /\ count # 3 * Divider + 1
<1>1. /\ count' = IF count = 4 * Divider - 1 THEN 0
                  ELSE IF stretch = 1 THEN 2 * Divider ELSE count + 1
      /\ stretch = 1 => count = 2 * Divider
      /\ Divider \in Nat /\ Divider >= 2 /\ count \in 0 .. 4 * Divider - 1 /\ stretch \in {0, 1}
  BY CountMoves
<1>2. CASE stretch = 0
  BY <1>1, <1>2 DEF Past, Fallen
<1>3. CASE stretch = 1
  BY <1>1, <1>3 DEF Past, Fallen
<1> QED
  BY <1>1, <1>2, <1>3

LEMMA LoggedStep ==
  ASSUME Working, Edge, Wires, AtByte'
  PROVE  Logged' = Logged + (IF EventNow THEN 1 ELSE 0)
<1>1. /\ TypeInv /\ WithinLimits /\ AtByte /\ WR_Bytes \in Nat /\ Last \in Nat /\ Last >= 2
      /\ Last' = Last /\ WR_Bytes' = WR_Bytes
      /\ state \in {"start", "command", "slv_ack1", "wr", "rd", "slv_ack2", "mstr_ack", "stop"}
  BY Numbers DEF Working, Edge, Last, TypeInv, Types, Core!TypeOK, Core!States
<1>2. /\ count # Divider => (Past' <=> Past \/ count = 3 * Divider + 1)
      /\ count # Divider => (Fallen' <=> Fallen \/ count = 0)
      /\ count = Divider => Past /\ Fallen /\ ~Past' /\ ~Fallen'
      /\ count = Divider => ~EventNow
  BY PhaseStep DEF Working, Edge, EventNow
<1>3. /\ Number \in 1 .. Last
      /\ state \in {"wr", "slv_ack2"} => Number <= WR_Bytes
      /\ state \in {"rd", "mstr_ack"} => Number > WR_Bytes
      /\ state = "stop" => Number = Last
  BY DEF Working, AtByte
<1> DEFINE n  == Number
           n1 == Number'
           p  == Place(Number)
           p1 == Place(Number)'
           q  == Place(Last)
           q1 == Place(Last)'
           b1 == Begins(Number)'
<1>4. q1 = q /\ p1 = Place(n1)
  BY <1>1 DEF Place
<1>5. /\ p \in Nat /\ q \in Nat /\ n \in Nat
      /\ n = Last => p = q
  <2>1. n \in Nat /\ Last \in Nat
    BY <1>1, <1>3
  <2> HIDE DEF n
  <2>2. Place(n) \in Nat /\ Place(Last) \in Nat
    BY <1>1, <2>1, Places
  <2>3. n = Last => Place(n) = Place(Last)
    OBVIOUS
  <2> QED
    BY <2>1, <2>2, <2>3 DEF n
<1>6. n1 = n => p1 = p
  BY <1>4
<1>7. n1 = n + 1 => p1 = p + (IF n = WR_Bytes /\ n > 0 THEN 3 ELSE 1)
  BY <1>1, <1>4, <1>5, Places
<1>8. /\ state' # "ready" => n1 \in 1 .. Last
      /\ state' = "start" => b1
      /\ state' \in {"wr", "slv_ack2"} => n1 <= WR_Bytes
      /\ state' \in {"rd", "mstr_ack"} => n1 > WR_Bytes
      /\ state' = "stop" => n1 = Last
  BY <1>1 DEF AtByte
<1>9. b1 => n1 = 1 \/ n1 = WR_Bytes + 1
  BY <1>1 DEF Begins
<1>10. \/ count # Divider /\ Keeps /\ n1 = n
       \/ Acts /\ Turns
  BY NumberStep
<1>11. /\ state = "start" => Logged = p - (IF Past THEN 2 ELSE 3)
       /\ state = "command" => Logged = p - 2
       /\ state = "slv_ack1" => Logged = p - (IF Fallen THEN 1 ELSE 2)
       /\ state \in {"wr", "rd"} => Logged = p - 1
       /\ state \in {"slv_ack2", "mstr_ack"} => Logged = p - (IF Fallen THEN 0 ELSE 1)
       /\ state = "stop" => Logged = q + (IF Past THEN 1 ELSE 0)
  BY DEF Logged
<1>15. /\ state' = "start" => Logged' = p1 - (IF Past' THEN 2 ELSE 3)
       /\ state' = "command" => Logged' = p1 - 2
       /\ state' = "slv_ack1" => Logged' = p1 - (IF Fallen' THEN 1 ELSE 2)
       /\ state' \in {"wr", "rd"} => Logged' = p1 - 1
       /\ state' \in {"slv_ack2", "mstr_ack"} => Logged' = p1 - (IF Fallen' THEN 0 ELSE 1)
       /\ state' = "stop" => Logged' = q1 + (IF Past' THEN 1 ELSE 0)
  BY DEF Logged
<1>12. state' = "ready" /\ busy_cnt' = Last => Logged' = q1 + 1
  BY <1>1 DEF Logged
<1> DEFINE l  == Logged
           l1 == Logged'
<1> HIDE DEF n, n1, p, p1, q, q1, b1, l, l1
<1>13. CASE count # Divider /\ Keeps /\ n1 = n
  <2>1. state' = state
    BY <1>13 DEF Keeps
  <2>2. l1 = l + (IF EventNow THEN 1 ELSE 0)
    <3>1. EventNow <=> \/ state \in {"start", "stop"} /\ count = 3 * Divider + 1
                       \/ state \in {"slv_ack1", "slv_ack2", "mstr_ack"} /\ count = 0
      BY DEF EventNow, InAck
    <3>2. (Past => count # 3 * Divider + 1) /\ (Fallen => count # 0)
      <4>1. Divider \in Nat /\ Divider >= 2
        BY <1>1, MasterLimits
      <4> QED
        BY <4>1 DEF Past, Fallen
    <3> QED
      BY <1>1, <1>2, <1>4, <1>5, <1>6, <1>11, <1>15, <1>13, <2>1, <3>1, <3>2 DEF l, l1
  <2> QED
    BY <2>2 DEF l, l1
<1>14. CASE Acts /\ Turns
  <2>1. count = Divider
    BY <1>14 DEF Acts
  <2>2. l1 = l
    BY <1>1, <1>2, <1>3, <1>4, <1>5, <1>6, <1>7, <1>8, <1>9, <1>11, <1>15, <1>12, <1>14, <2>1 DEF Turns, l, l1, n, n1
  <2>3. l \in Int
    BY <1>1, <1>5, <1>11 DEF l
  <2> QED
    BY <1>2, <2>1, <2>2, <2>3 DEF l, l1
<1> QED
  BY <1>10, <1>13, <1>14

(* The master acknowledges the bytes it reads, but for the last.           *)
LEMMA AcknowledgeIsRight ==
  ASSUME Working, Edge, state = "mstr_ack", count = 0
  PROVE  sda_int = IF Number = Last THEN 1 ELSE 0
<1>1. /\ busy_cnt \in Nat /\ WR_Bytes \in Nat /\ Last \in Nat /\ i2c_busy \in {0, 1}
      /\ busy_prev \in {0, 1} /\ Divider \in Nat
  BY Numbers DEF Working, Last
<1>2. i2c_busy = 1 /\ busy_prev = 1
  <2>1. count # Divider + 1
    BY <1>1
  <2> QED
    BY <1>1, <2>1 DEF Working, BusyEdges
<1>3. /\ Number = busy_cnt /\ busy_cnt \in 1 .. Last /\ i2c_addr = Address
      /\ i2c_ena = IF busy_cnt < Last THEN 1 ELSE 0
      /\ busy_cnt > WR_Bytes => i2c_rw = 1
  BY <1>2, Watches
<1>4. Number > WR_Bytes /\ addr_rw = CommandOf(Address, ReadKind(Number))
  BY DEF Working, AtByte
<1>5. ReadKind(Number) = 1 /\ i2c_rw = 1
  BY <1>3, <1>4 DEF ReadKind
<1>6. addr_rw = CommandOf(i2c_addr, i2c_rw)
  BY <1>3, <1>4, <1>5
<1>7. sda_int = IF i2c_ena = 1 THEN 0 ELSE 1
  BY <1>6 DEF Working, Core!IInv, Core!AckAsAsked, Core!Continuing
<1>8. busy_cnt < Last <=> busy_cnt # Last
  BY <1>1, <1>3
<1> QED
  BY <1>3, <1>7, <1>8

(* The steps of the script of the request.                                 *)
Step(i) == Transfer!Script(request)[i]

LEMMA ScriptSteps ==
  ASSUME WithinLimits, TypeInv, user # "idle"
  PROVE  /\ Len(Transfer!Script(request)) = Place(Last) + 1
         /\ Step(Place(Last) + 1) = [kind |-> "stop"]
         /\ \A k \in 1 .. Last : Begins(k) =>
              /\ Step(Place(k) - 2) = [kind |-> "start"]
              /\ Step(Place(k) - 1) = [kind |-> "command", addr |-> Address, rw |-> ReadKind(k)]
         /\ \A k \in 1 .. Last : k <= WR_Bytes =>
              Step(Place(k)) = [kind |-> "write", byte |-> request.writes[k]]
         /\ \A k \in 1 .. Last : k > WR_Bytes =>
              Step(Place(k)) = [kind |-> "read", ack |-> IF k = Last THEN 1 ELSE 0]
<1>1. /\ request \in Requests /\ Address = request.addr /\ WR_Bytes = Len(request.writes)
      /\ RD_Bytes = request.reads
  BY DEF TypeInv, AsAsked
<1> DEFINE w == Len(request.writes)
           d == request.reads
           n == w + d
           s == Transfer!Script(request)
<1>2. n >= 2
  BY <1>1 DEF WithinLimits
<1>3. w \in Nat /\ d \in Nat
  BY <1>1, RequestFields
<1>4. n > 0 =>
        /\ Len(s) = PlaceOf(w, n) + 1 /\ s[PlaceOf(w, n) + 1] = [kind |-> "stop"]
        /\ \A k \in 1 .. n : k \in {1, w + 1} =>
             /\ s[PlaceOf(w, k) - 2] = [kind |-> "start"]
             /\ s[PlaceOf(w, k) - 1] =
                  [kind |-> "command", addr |-> request.addr, rw |-> IF k > w THEN 1 ELSE 0]
        /\ \A k \in 1 .. n : k <= w =>
             s[PlaceOf(w, k)] = [kind |-> "write", byte |-> request.writes[k]]
        /\ \A k \in 1 .. n : k > w =>
             s[PlaceOf(w, k)] = [kind |-> "read", ack |-> IF k = n THEN 1 ELSE 0]
  BY <1>1, ScriptOf
<1>5. n > 0 /\ WR_Bytes = w /\ Last = n
  BY <1>1, <1>2, <1>3 DEF Last
<1>6. s = Transfer!Script(request)
  OBVIOUS
<1> HIDE DEF n, w, d, s
<1> QED
  BY <1>1, <1>4, <1>5, <1>6, Zenon DEF Place, Step, Begins, ReadKind

(* Every event is the next step of the script.                             *)
LEMMA EventInScript ==
  ASSUME Working, Edge, user # "idle", EventNow, Logged \in Nat
  PROVE  /\ Logged # Len(Transfer!Script(request))
         /\ Transfer!Obeys(EventOf, Step(Logged + 1))
<1>1. /\ TypeInv /\ WithinLimits /\ AtByte /\ WR_Bytes \in Nat /\ Last \in Nat
      /\ Divider \in Nat /\ Divider >= 2
  BY Numbers DEF Working, Last
<1>2. /\ Number \in 1 .. Last /\ state # "ready"
      /\ state \in {"start", "slv_ack1"} => Begins(Number)
      /\ state = "slv_ack2" => Number <= WR_Bytes /\ data_tx = Data_WR[Number - 1]
      /\ state = "mstr_ack" => Number > WR_Bytes
  BY <1>1 DEF Working, AtByte
<1>3. /\ Len(Transfer!Script(request)) = Place(Last) + 1
      /\ Step(Place(Last) + 1) = [kind |-> "stop"]
      /\ Begins(Number) =>
           /\ Step(Place(Number) - 2) = [kind |-> "start"]
           /\ Step(Place(Number) - 1) =
                [kind |-> "command", addr |-> Address, rw |-> ReadKind(Number)]
      /\ Number <= WR_Bytes =>
           Step(Place(Number)) = [kind |-> "write", byte |-> request.writes[Number]]
      /\ Number > WR_Bytes =>
           Step(Place(Number)) = [kind |-> "read", ack |-> IF Number = Last THEN 1 ELSE 0]
  BY <1>1, <1>2, ScriptSteps
<1>4. Place(Number) \in Nat /\ Place(Last) \in Nat /\ Place(Number) <= Place(Last)
  <2>1. Number \in Nat /\ Last \in Nat /\ Number <= Last
    BY <1>1, <1>2
  <2> DEFINE n == Number
  <2> HIDE DEF n
  <2>2. n \in Nat /\ n <= Last
    BY <2>1 DEF n
  <2>3. Place(n) \in Nat /\ Place(Last) \in Nat /\ Place(n) <= Place(Last)
    BY <1>1, <2>1, <2>2, Places
  <2> QED
    BY <2>3 DEF n
<1>5. ~Past \/ state \notin {"start", "stop"}
  BY <1>1 DEF Past, EventNow, InAck
<1>6. ~Fallen \/ state \notin {"slv_ack1", "slv_ack2", "mstr_ack"}
  BY <1>1 DEF Fallen, EventNow, InAck
<1> DEFINE p == Place(Number)
           q == Place(Last)
           l == Logged
<1>7. /\ p \in Nat /\ q \in Nat /\ p <= q
      /\ state = "start" => l = p - 3
      /\ state = "slv_ack1" => l = p - 2
      /\ state \in {"slv_ack2", "mstr_ack"} => l = p - 1
      /\ state = "stop" => l = q
  <2> HIDE DEF p, q
  <2> QED
    BY <1>4, <1>5, <1>6 DEF Logged, p, q
<1>8. state \in {"start", "slv_ack1", "slv_ack2", "mstr_ack", "stop"}
  BY DEF EventNow, InAck
<1> HIDE DEF p, q, l
<1>9. /\ l # q + 1
      /\ state = "start" => l + 1 = p - 2
      /\ state = "slv_ack1" => l + 1 = p - 1
      /\ state \in {"slv_ack2", "mstr_ack"} => l + 1 = p
      /\ state = "stop" => l + 1 = q + 1
  BY <1>7, <1>8
<1>10. CASE state = "start"
  <2>1. Step(Logged + 1) = [kind |-> "start"] /\ EventOf = [kind |-> "start"]
    BY <1>2, <1>3, <1>9, <1>10 DEF p, l, EventOf
  <2> QED
    BY <1>3, <1>9, <2>1 DEF Transfer!Obeys, l, q
<1>11. CASE state = "slv_ack1"
  <2>1. /\ Step(Logged + 1) = [kind |-> "command", addr |-> Address, rw |-> ReadKind(Number)]
        /\ EventOf = [kind |-> "command", addr |-> Address, rw |-> ReadKind(Number), ack |-> slave_sda]
    BY <1>2, <1>3, <1>9, <1>11 DEF p, l, EventOf
  <2>2. Transfer!Obeys(EventOf, Step(Logged + 1))
    BY <2>1 DEF Transfer!Obeys
  <2> QED
    BY <1>3, <1>9, <2>2 DEF l, q
<1>12. CASE state = "slv_ack2"
  <2>1. /\ Step(Logged + 1) = [kind |-> "write", byte |-> request.writes[Number]]
        /\ EventOf = [kind |-> "write", byte |-> data_tx, ack |-> slave_sda]
    BY <1>2, <1>3, <1>9, <1>12 DEF p, l, EventOf
  <2>2. data_tx = request.writes[Number]
    <3>1. Number \in 1 .. WR_Bytes
      BY <1>1, <1>2, <1>12
    <3>2. Data_WR[Number - 1] = request.writes[Number]
      BY <1>1, <3>1 DEF TypeInv, AsAsked
    <3> QED
      BY <1>2, <1>12, <3>2
  <2>3. Transfer!Obeys(EventOf, Step(Logged + 1))
    BY <2>1, <2>2 DEF Transfer!Obeys
  <2> QED
    BY <1>3, <1>9, <2>3 DEF l, q
<1>13. CASE state = "mstr_ack"
  <2>1. /\ Step(Logged + 1) = [kind |-> "read", ack |-> IF Number = Last THEN 1 ELSE 0]
        /\ EventOf = [kind |-> "read", byte |-> i2c_data_rd, ack |-> sda_int]
    BY <1>2, <1>3, <1>9, <1>13 DEF p, l, EventOf
  <2>2. sda_int = IF Number = Last THEN 1 ELSE 0
    BY <1>13, AcknowledgeIsRight DEF EventNow, InAck
  <2>3. Transfer!Obeys(EventOf, Step(Logged + 1))
    BY <2>1, <2>2 DEF Transfer!Obeys
  <2> QED
    BY <1>3, <1>9, <2>3 DEF l, q
<1>14. CASE state = "stop"
  <2>1. Step(Logged + 1) = [kind |-> "stop"] /\ EventOf = [kind |-> "stop"]
    BY <1>3, <1>9, <1>14 DEF q, l, EventOf
  <2> QED
    BY <1>3, <1>9, <2>1 DEF Transfer!Obeys, l, q
<1> QED
  BY <1>8, <1>10, <1>11, <1>12, <1>13, <1>14

(* The error flag: a slave that refuses is seen with SCL high, and its     *)
(* event logged when SCL falls.                                            *)
Pending == state \in {"slv_ack1", "slv_ack2"} /\ (count > 3 * Divider \/ count = 0) /\ slave_sda = 1

Begun == \/ state = "ready" /\ (busy_cnt # 0 \/ Transferred)
         \/ state = "start" /\ scl_ena = 1
         \/ state \notin {"ready", "start"}

ErrorTold == Begun => (Ack_Error = 1 <=> Transfer!Refused \/ Pending)

LEMMA EventTypes ==
  ASSUME WithinLimits, BusInv
  PROVE  state # "ready" => EventOf \in Events
<1>1. /\ addr_rw \in Bytes /\ data_tx \in Bytes /\ i2c_data_rd \in Bytes
      /\ slave_sda \in Bit /\ sda_int \in Bit
  BY BitFacts
<1>2. Address \in Addresses /\ ReadKind(Number) \in Bit
  BY DEF BusInv, TypeInv, Types, UserTypes, ReadKind
<1> QED
  BY <1>1, <1>2 DEF EventOf, Events

(* One event more.                                                         *)
LEMMA Appended ==
  ASSUME NEW e \in Events, bus \in Seq(Events), bus' = Append(bus, e)
  PROVE  /\ bus' \in Seq(Events) /\ Len(bus') = Len(bus) + 1 /\ bus'[Len(bus')] = e
         /\ \A i \in 1 .. Len(bus) : bus'[i] = bus[i]
         /\ SubSeq(bus', 1, Len(bus)) = bus
         /\ Transfer!Refused' <=> Transfer!Refused \/ (e.kind \in {"command", "write"} /\ e.ack = 1)
<1> DEFINE b == bus'
<1>1. b \in Seq(Events) /\ Len(b) = Len(bus) + 1 /\ b[Len(b)] = e
  BY AppendProperties
<1>2. \A i \in 1 .. Len(bus) : b[i] = bus[i]
  BY AppendProperties
<1>3. SubSeq(b, 1, Len(bus)) = bus
  BY AppendProperties
<1> HIDE DEF b
<1>4. DOMAIN b = 1 .. Len(b) /\ DOMAIN bus = 1 .. Len(bus) /\ Len(bus) \in Nat
  BY <1>1, LenProperties
<1>5. (\E i \in DOMAIN b : b[i].kind \in {"command", "write"} /\ b[i].ack = 1)
        <=> \/ \E i \in DOMAIN bus : bus[i].kind \in {"command", "write"} /\ bus[i].ack = 1
            \/ e.kind \in {"command", "write"} /\ e.ack = 1
  <2>1. \A i : i \in DOMAIN b <=> i \in DOMAIN bus \/ i = Len(b)
    BY <1>1, <1>4
  <2>2. \A i \in DOMAIN bus : b[i] = bus[i]
    BY <1>2, <1>4
  <2> QED
    BY <1>1, <2>1, <2>2, Zenon
<1> QED
  BY <1>1, <1>2, <1>3, <1>5 DEF b, Transfer!Refused

LEMMA ErrorStep ==
  ASSUME Working, Edge, BusInv, BusStep(bus), bus \in Seq(Events), AtByte',
         Len(bus) = Logged, ErrorTold
  PROVE  ErrorTold'
<1>0. TypeInv /\ WithinLimits /\ AtByte /\ get_data = 1 /\ state # "ready"
  BY DEF Working
<1>1. /\ TypeInv /\ WithinLimits /\ AtByte /\ Divider \in Nat /\ Divider >= 2
      /\ count \in 0 .. 4 * Divider - 1 /\ slave_sda \in {0, 1} /\ sda_int \in {0, 1}
      /\ state \in {"start", "command", "slv_ack1", "wr", "rd", "slv_ack2", "mstr_ack", "stop"}
      /\ Last \in Nat /\ scl_ena \in {0, 1}
  <2>1. state \in {"start", "command", "slv_ack1", "wr", "rd", "slv_ack2", "mstr_ack", "stop"}
    BY <1>0 DEF TypeInv, Types, Core!TypeOK, Core!States
  <2>2. slave_sda \in {0, 1} /\ sda_int \in {0, 1}
    BY <1>0, BitFacts
  <2>3. Last \in Nat /\ scl_ena \in {0, 1} /\ count \in 0 .. 4 * Divider - 1 /\ Divider \in Nat /\ Divider >= 2
    BY <1>0, Numbers DEF Last
  <2> QED
    BY <1>0, <2>1, <2>2, <2>3
<1>2. EventOf \in Events
  BY <1>1, EventTypes
<1>3. bus' = IF EventNow THEN Append(bus, EventOf) ELSE bus
  BY <1>1, EventStep
<1>4. ~EventNow => (Transfer!Refused' <=> Transfer!Refused)
  BY <1>3 DEF Transfer!Refused
<1>5. EventNow => (Transfer!Refused' <=> Transfer!Refused \/ (state \in {"slv_ack1", "slv_ack2"} /\ slave_sda = 1))
  <2>1. EventNow =>
          (Transfer!Refused' <=> Transfer!Refused \/ (EventOf.kind \in {"command", "write"} /\ EventOf.ack = 1))
    BY <1>2, <1>3, Appended
  <2>2. (EventOf.kind \in {"command", "write"} /\ EventOf.ack = 1)
          <=> (state \in {"slv_ack1", "slv_ack2"} /\ slave_sda = 1)
    BY <1>1 DEF EventOf
  <2> QED
    BY <2>1, <2>2
<1>6. SlaveRests(bus) \/ SlaveActs(bus)
  BY <1>1, SlaveMoves DEF BusInv, BusStep
<1>7. CASE count # Divider /\ Keeps /\ Number' = Number
  <2>1. /\ state' = state
        /\ scl_ena' = IF count = 3 * Divider /\ state \in {"start", "stop"}
                      THEN (IF state = "start" THEN 1 ELSE 0) ELSE scl_ena
        /\ Ack_Error' = CASE count = 3 * Divider /\ state = "start" /\ scl_ena = 0 -> 0
                          [] count = 3 * Divider /\ state \in {"slv_ack1", "slv_ack2"} /\ SDA # 0 -> 1
                          [] OTHER -> Ack_Error
    BY <1>7 DEF Keeps
  <2>2. count' = IF count = 4 * Divider - 1 THEN 0 ELSE IF stretch = 1 THEN 2 * Divider ELSE count + 1
    BY <1>1, CountMoves DEF BusInv, BusStep
  <2>3. stretch = 1 => count = 2 * Divider
    BY DEF BusInv, Wires
  <2>4. CASE state = "start"
    <3>1. ~Pending /\ ~Pending'
      BY <2>1, <2>4 DEF Pending
    <3>2. Transfer!Refused' <=> Transfer!Refused
      BY <1>4, <1>5, <2>4
    <3>3. CASE scl_ena = 1
      <4>1. Ack_Error' = Ack_Error
        BY <2>1, <2>4, <3>3
      <4>2. Begun
        BY <2>4, <3>3 DEF Begun
      <4> QED
        BY <3>1, <3>2, <4>1, <4>2 DEF ErrorTold
    <3>4. CASE scl_ena = 0 /\ count # 3 * Divider
      BY <2>1, <2>4, <3>4 DEF ErrorTold, Begun
    <3>5. CASE scl_ena = 0 /\ count = 3 * Divider
      <4>1. Number = 1
        BY <1>1, <2>4, <3>5 DEF AtByte
      <4>2. ~Past
        BY <1>1, <3>5 DEF Past
      <4>3. Place(Number) = 3
        BY <1>1, <4>1, Places
      <4>4. Len(bus) = 0
        BY <2>4, <4>2, <4>3 DEF Logged
      <4>5. bus = <<>>
        BY <4>4, EmptySeq
      <4>6. ~Transfer!Refused
        BY <4>5 DEF Transfer!Refused
      <4> QED
        BY <2>1, <2>4, <3>1, <3>2, <3>5, <4>6 DEF ErrorTold
    <3> QED
      BY <1>1, <3>3, <3>4, <3>5
  <2>5. CASE state \in {"slv_ack1", "slv_ack2"}
    <3>1. Begun /\ Begun'
      BY <2>1, <2>5 DEF Begun
    <3>2. count # 0 /\ (count # 2 * Divider \/ stretch = 0) => slave_sda' = slave_sda
      BY <1>1, <1>6, <2>5 DEF SlaveRests, SlaveActs, Slave!Quiet
    <3>3. EventNow <=> count = 0
      BY <2>5 DEF EventNow, InAck
    <3>4. CASE count = 0
      <4>1. count' = 1 /\ Ack_Error' = Ack_Error
        BY <1>1, <2>1, <2>2, <2>3, <3>4
      <4>2. ~Pending'
        BY <1>1, <4>1 DEF Pending
      <4>3. Pending <=> slave_sda = 1
        BY <2>5, <3>4 DEF Pending
      <4> QED
        BY <1>5, <2>5, <3>1, <3>3, <3>4, <4>1, <4>2, <4>3 DEF ErrorTold
    <3>5. CASE count = 3 * Divider
      <4>1. count' = 3 * Divider + 1 /\ slave_sda' = slave_sda /\ count # 0
        BY <1>1, <2>2, <2>3, <3>2, <3>5
      <4>2. Pending' <=> slave_sda = 1
        BY <1>1, <2>1, <2>5, <4>1 DEF Pending
      <4>3. ~Pending
        BY <1>1, <3>5 DEF Pending
      <4>4. SDA # 0 <=> slave_sda = 1
        <5>1. sda_int = 1
          BY <2>5, BitFacts, <1>1
        <5>2. Levels
          BY LevelsHold, <1>1 DEF BusInv
        <5> QED
          BY <1>1, <2>5, <5>1, <5>2 DEF Levels
      <4>5. Ack_Error' = IF slave_sda = 1 THEN 1 ELSE Ack_Error
        BY <2>1, <2>5, <3>5, <4>4
      <4> QED
        BY <1>4, <3>1, <3>3, <4>1, <4>2, <4>3, <4>5 DEF ErrorTold
    <3>6. CASE count # 0 /\ count # 3 * Divider
      <4>1. Ack_Error' = Ack_Error
        BY <2>1, <3>6
      <4>2. Pending' <=> Pending
        <5>1. CASE count > 3 * Divider
          <6>1. slave_sda' = slave_sda /\ (count' > 3 * Divider \/ count' = 0)
            BY <1>1, <2>2, <2>3, <3>2, <5>1
          <6> QED
            BY <2>1, <5>1, <6>1 DEF Pending
        <5>2. CASE count < 3 * Divider
          <6>1. ~(count' > 3 * Divider) /\ count' # 0
            BY <1>1, <2>2, <2>3, <3>6, <5>2
          <6>2. ~(count > 3 * Divider) /\ count # 0
            BY <1>1, <3>6, <5>2
          <6> QED
            BY <6>1, <6>2 DEF Pending
        <5> QED
          BY <1>1, <3>6, <5>1, <5>2
      <4> QED
        BY <1>4, <3>1, <3>3, <3>6, <4>1, <4>2 DEF ErrorTold
    <3> QED
      BY <3>4, <3>5, <3>6
  <2>6. CASE state \in {"command", "wr", "rd", "mstr_ack", "stop"}
    <3>1. Begun /\ ~Pending /\ ~Pending' /\ Ack_Error' = Ack_Error
      BY <2>1, <2>6 DEF Begun, Pending
    <3>2. Transfer!Refused' <=> Transfer!Refused
      BY <1>4, <1>5, <2>6
    <3> QED
      BY <3>1, <3>2 DEF ErrorTold
  <2> QED
    BY <1>1, <2>4, <2>5, <2>6
<1>8. CASE Acts /\ Turns
  <2>1. count = Divider /\ count' = Divider + 1 /\ Ack_Error' = Ack_Error
    BY <1>8 DEF Acts
  <2>2. ~Pending /\ ~Pending'
    BY <1>1, <2>1 DEF Pending
  <2>3. ~EventNow
    BY <1>1, <2>1 DEF EventNow
  <2>4. Begun
    <3>1. state = "start" => scl_ena = 1
      <4>1. count \notin Divider + 1 .. 3 * Divider
        BY <1>1, <2>1
      <4> QED
        BY <4>1, <1>1 DEF AtByte
    <3> QED
      BY <1>1, <3>1 DEF Begun
  <2> QED
    BY <1>4, <2>1, <2>2, <2>3, <2>4 DEF ErrorTold
<1> QED
  BY <1>7, <1>8, NumberStep

(* The bytes read: those that the controller has stored, and the one that  *)
(* it takes next from the master.                                          *)
ReadAt(j) == bus[Place(WR_Bytes + j)].byte

Stored == IF state = "ready"
          THEN IF Transferred THEN RD_Bytes ELSE IF busy_cnt # 0 THEN RD_Bytes - 1 ELSE 0
          ELSE Number - 1 - WR_Bytes - (IF i2c_busy = 0 /\ count = Divider + 1 THEN 1 ELSE 0)

Fresh == \/ state = "rd" /\ i2c_busy = 0 /\ Number > WR_Bytes + 1
         \/ state = "mstr_ack" /\ Fallen
         \/ state = "stop" /\ RD_Bytes > 0
         \/ state = "ready" /\ busy_cnt # 0 /\ RD_Bytes > 0

Latest == IF state = "rd" THEN Number - 1 - WR_Bytes
          ELSE IF state = "mstr_ack" THEN Number - WR_Bytes ELSE RD_Bytes

ReadTold == /\ \A j \in 1 .. Stored : Data_RD[j - 1] = ReadAt(j)
            /\ Fresh => i2c_data_rd = ReadAt(Latest)

LEMMA DataStep ==
  ASSUME TypeInv, Array!ArrayClock(0), get_data = 1
  PROVE  Data_RD' = IF i2c_busy = 0 /\ busy_cnt > WR_Bytes
                    THEN [Data_RD EXCEPT ![busy_cnt - WR_Bytes - 1] = i2c_data_rd] ELSE Data_RD
<1>1. /\ busy_cnt \in Nat /\ WR_Bytes \in Nat /\ RD_Bytes \in Nat /\ i2c_busy \in {0, 1}
  BY StackAssumption DEF StackAssumption, TypeInv, Types, UserTypes, ArrayTypes, Core!TypeOK
<1>2. Array!FirstCommand \/ Array!WriteNext \/ Array!ReadNext \/ Array!LastByte \/ Array!Finish
  BY DEF Array!ArrayClock, Array!Waiting, Array!Transferring
<1> DEFINE d == [Data_RD EXCEPT ![busy_cnt - WR_Bytes - 1] = i2c_data_rd]
<1>3. Array!FirstCommand => busy_cnt = 0 /\ Data_RD' = Data_RD
  BY DEF Array!FirstCommand
<1>4. Array!WriteNext => busy_cnt < WR_Bytes /\ Data_RD' = Data_RD
  BY DEF Array!WriteNext
<1>5. Array!ReadNext => /\ busy_cnt >= WR_Bytes
                        /\ \/ busy_cnt = WR_Bytes /\ Data_RD' = Data_RD
                           \/ busy_cnt # WR_Bytes /\ Data_RD' = IF i2c_busy = 0 THEN d ELSE Data_RD
  BY DEF Array!ReadNext, Array!ReadSlot
<1>6. Array!LastByte => i2c_busy = 1 /\ Data_RD' = Data_RD
  BY DEF Array!LastByte
<1>7. Array!Finish => i2c_busy = 0 /\ Data_RD' = IF busy_cnt - WR_Bytes > 0 THEN d ELSE Data_RD
  <2>1. busy_cnt - WR_Bytes - 1 = Array!ReadSlot
    BY DEF Array!ReadSlot
  <2> QED
    BY <2>1 DEF Array!Finish
<1> HIDE DEF d
<1>8. Data_RD' = IF i2c_busy = 0 /\ busy_cnt > WR_Bytes THEN d ELSE Data_RD
  BY <1>1, <1>2, <1>3, <1>4, <1>5, <1>6, <1>7
<1> QED
  BY <1>8 DEF d

(* What has been read is in the log.                                       *)
LEMMA ReadPlaces ==
  ASSUME WithinLimits, TypeInv, AtByte, state # "ready"
  PROVE  /\ \A j \in 1 .. Stored : Place(WR_Bytes + j) \in 1 .. Logged
         /\ Fresh => Latest \in Nat \ {0} /\ Place(WR_Bytes + Latest) \in 1 .. Logged
         /\ Fresh => state \in {"rd", "mstr_ack", "stop"}
<1>1. WR_Bytes \in Nat /\ RD_Bytes \in Nat /\ Last = WR_Bytes + RD_Bytes
  BY StackAssumption DEF StackAssumption, TypeInv, Types, UserTypes, Last
<1>2. /\ Number \in 1 .. Last
      /\ state \in {"start", "command", "slv_ack1"} => Number = 1 \/ Number = WR_Bytes + 1
      /\ state \in {"wr", "slv_ack2"} => Number <= WR_Bytes
      /\ state = "mstr_ack" => Number > WR_Bytes
      /\ state = "stop" => Number = Last
  BY DEF AtByte, Begins
<1>3. state \in {"start", "command", "slv_ack1", "wr", "rd", "slv_ack2", "mstr_ack", "stop"}
  BY DEF TypeInv, Types, Core!TypeOK, Core!States
<1> DEFINE n == Number
           l == Logged
           s == Stored
           z == Latest
<1>4. /\ s <= n - 1 - WR_Bytes /\ s \in Int /\ n \in Nat
      /\ state = "rd" => z = n - 1 - WR_Bytes
      /\ state = "mstr_ack" => z = n - WR_Bytes
      /\ state = "stop" => z = n - WR_Bytes
      /\ Fresh => \/ state = "rd" /\ n > WR_Bytes + 1
                  \/ state = "mstr_ack" /\ Fallen
                  \/ state = "stop" /\ RD_Bytes > 0
  BY <1>1, <1>2 DEF Stored, Latest, Fresh
<1>5. /\ state \in {"rd", "mstr_ack"} => l >= Place(n) - 1
      /\ state = "mstr_ack" /\ Fallen => l = Place(n)
      /\ state = "stop" => l >= Place(n)
      /\ Place(n) \in Nat
  <2>1. Place(Number) \in Nat
    <3> HIDE DEF n
    <3>1. Place(n) \in Nat
      BY <1>4, Places
    <3> QED
      BY <3>1 DEF n
  <2>2. state = "stop" => Place(Number) = Place(Last)
    BY <1>2
  <2> DEFINE p == Place(Number)
             q == Place(Last)
  <2>3. /\ state \in {"rd", "mstr_ack"} => l >= p - 1
        /\ state = "mstr_ack" /\ Fallen => l = p
        /\ state = "stop" => l >= q
    <3>1. state = "stop" => q \in Nat
      BY <2>1, <2>2
    <3> HIDE DEF p, q
    <3> QED
      BY <2>1, <3>1 DEF Logged, p, q
  <2> QED
    BY <2>1, <2>2, <2>3
<1> HIDE DEF n, l, s, z
<1>6. ASSUME NEW j \in Nat \ {0}, WR_Bytes + j <= n,
             state \in {"rd", "mstr_ack", "stop"},
             WR_Bytes + j < n \/ (state = "mstr_ack" /\ Fallen) \/ state = "stop"
      PROVE  Place(WR_Bytes + j) \in 1 .. l
  <2>1. /\ Place(WR_Bytes + j) = WR_Bytes + j + (IF WR_Bytes = 0 THEN 2 ELSE 4)
        /\ Place(n) = n + (IF WR_Bytes = 0 THEN 2 ELSE 4)
    BY <1>1, <1>4, <1>6 DEF Place, PlaceOf
  <2>2. l \in Int
    <3>1. Place(Number) \in Nat /\ Place(Last) \in Nat
      <4>1. Number \in Nat /\ Last \in Nat
        BY <1>1, <1>4 DEF n
      <4> QED
        BY <1>5, <4>1, Places DEF n
    <3> QED
      BY <1>6, <3>1 DEF Logged, l
  <2> QED
    BY <1>1, <1>4, <1>5, <1>6, <2>1, <2>2
<1>7. ASSUME NEW j \in 1 .. s
      PROVE  Place(WR_Bytes + j) \in 1 .. l
  <2>1. j \in Nat \ {0} /\ WR_Bytes + j < n
    BY <1>1, <1>4
  <2>2. state \in {"rd", "mstr_ack", "stop"}
    BY <1>1, <1>2, <1>3, <2>1 DEF n
  <2> QED
    BY <1>1, <1>4, <1>6, <2>1, <2>2
<1>8. ASSUME Fresh
      PROVE  z \in Nat \ {0} /\ Place(WR_Bytes + z) \in 1 .. l /\ state \in {"rd", "mstr_ack", "stop"}
  <2>1. /\ z \in Nat \ {0} /\ state \in {"rd", "mstr_ack", "stop"} /\ WR_Bytes + z <= n
        /\ WR_Bytes + z < n \/ (state = "mstr_ack" /\ Fallen) \/ state = "stop"
    BY <1>1, <1>2, <1>4, <1>8 DEF n
  <2> QED
    BY <1>6, <2>1
<1> QED
  BY <1>7, <1>8 DEF l, s, z

LEMMA ActsKeepRead ==
  ASSUME Acts, state # "rd"
  PROVE  i2c_data_rd' = i2c_data_rd
BY DEF Acts, Core!Start, Core!SendCommand, Core!SlvAck1, Core!Wr, Core!Rd, Core!SlvAck2,
   Core!MstrAck, Core!Stop, Core!NextByte

LEMMA StoredStep ==
  ASSUME Working, Edge, Wires, AtByte', get_data' = Busy'
  PROVE  \/ Stored' <= 0 \/ Stored' <= Stored
         \/ /\ Stored' = Stored + 1 /\ Stored' = Latest
            /\ state = "rd" /\ i2c_busy = 0 /\ busy_cnt = Number - 1
<1>1. /\ TypeInv /\ WithinLimits /\ AtByte /\ WR_Bytes \in Nat /\ RD_Bytes \in Nat
      /\ Last = WR_Bytes + RD_Bytes /\ WR_Bytes' = WR_Bytes /\ RD_Bytes' = RD_Bytes
      /\ Divider \in Nat /\ Divider >= 2 /\ state # "ready" /\ i2c_busy \in {0, 1}
  BY Numbers DEF Working, Edge
<1>2. count # Divider => count' # Divider + 1
  <2>1. /\ count' = IF count = 4 * Divider - 1 THEN 0
                    ELSE IF stretch = 1 THEN 2 * Divider ELSE count + 1
        /\ count \in 0 .. 4 * Divider - 1
    BY <1>1, CountMoves DEF Edge
  <2> QED
    BY <1>1, <2>1
<1>3. Number \in Nat /\ (state = "stop" => Number = Last)
  <2>1. Number \in 1 .. Last /\ (state = "stop" => Number = Last)
    BY <1>1 DEF AtByte
  <2> QED
    BY <1>1, <2>1
<1> DEFINE n == Number
           n1 == Number'
<1>4. Stored = n - 1 - WR_Bytes - (IF i2c_busy = 0 /\ count = Divider + 1 THEN 1 ELSE 0)
  BY <1>1 DEF Stored
<1>5. /\ state' # "ready" =>
           Stored' = n1 - 1 - WR_Bytes - (IF i2c_busy' = 0 /\ count' = Divider + 1 THEN 1 ELSE 0)
      /\ state' = "ready" /\ busy_cnt' # 0 /\ ~Transferred' => Stored' = RD_Bytes - 1
  BY <1>1 DEF Stored
<1> HIDE DEF n, n1
<1>6. CASE count # Divider /\ Keeps /\ n1 = n
  <2>1. state' = state /\ i2c_busy' = i2c_busy
    BY <1>6 DEF Keeps
  <2>2. Stored' = n - 1 - WR_Bytes
    BY <1>1, <1>2, <1>3, <1>5, <1>6, <2>1 DEF n
  <2>3. CASE i2c_busy = 0 /\ count = Divider + 1
    <3>1. busy_cnt = Number - 1 /\ state \in {"start", "wr", "rd"}
      <4>1. get_data = 1
        BY DEF Working
      <4>2. busy_cnt \in Nat
        BY <1>1, <4>1, Numbers
      <4>3. Number = busy_cnt + 1
        BY <2>3 DEF Number
      <4> QED
        BY <1>1, <2>3, <4>2, <4>3 DEF Working, BusyEdges
    <3>2. CASE state = "rd"
      <4>1. Latest = n - 1 - WR_Bytes
        BY <3>2 DEF Latest, n
      <4>2. Stored' = Stored + 1 /\ Stored' = Latest
        BY <1>1, <1>3, <1>4, <2>2, <2>3, <4>1 DEF n
      <4> QED
        BY <2>3, <3>1, <3>2, <4>2
    <3>3. CASE state # "rd"
      <4>1. n <= WR_Bytes + 1
        BY <1>1, <1>3, <3>1, <3>3 DEF n, AtByte, Begins
      <4> QED
        BY <1>1, <1>3, <1>4, <2>2, <2>3, <3>1, <4>1 DEF n
    <3> QED
      BY <3>2, <3>3
  <2>4. CASE ~(i2c_busy = 0 /\ count = Divider + 1)
    BY <1>1, <1>3, <1>4, <2>2, <2>4 DEF n
  <2> QED
    BY <2>3, <2>4
<1>7. CASE Acts /\ Turns
  <2>1. count = Divider /\ count' = Divider + 1
    BY <1>7 DEF Acts
  <2>2. Stored = n - 1 - WR_Bytes /\ n \in Nat
    BY <1>1, <1>3, <1>4, <2>1 DEF n
  <2>3. CASE n1 = n /\ state' # "ready"
    <3>1. Stored' <= n - 1 - WR_Bytes
      BY <1>1, <1>5, <2>2, <2>3
    <3> QED
      BY <2>2, <3>1
  <2>4. CASE n1 = n + 1 /\ state' # "ready" /\ i2c_busy' = 0
    <3>1. Stored' = n - 1 - WR_Bytes
      BY <1>1, <1>5, <2>1, <2>2, <2>4
    <3> QED
      BY <1>1, <2>2, <3>1
  <2>5. CASE state = "stop" /\ state' = "ready" /\ busy_cnt' = Last
    <3>1. get_data' = 1
      <4>1. busy_cnt \in Nat /\ i2c_busy = 1 /\ busy_prev \in {0, 1} /\ Last >= 2
        BY <1>1, <2>5, Numbers DEF AtByte, Working
      <4>2. busy_prev = 1
        BY <1>1, <2>1, <4>1 DEF Working, BusyEdges
      <4> QED
        BY <4>1, <4>2, Watches
    <3>2. ~Transferred'
      BY <3>1 DEF Transferred
    <3>3. busy_cnt' # 0
      BY <1>1, <2>5, Numbers DEF Working
    <3>4. Stored' = RD_Bytes - 1
      BY <1>5, <2>5, <3>2, <3>3
    <3> QED
      BY <1>1, <1>3, <2>2, <2>5, <3>4 DEF n
  <2> QED
    BY <1>7, <2>3, <2>4, <2>5 DEF Turns, n, n1
<1> QED
  BY <1>6, <1>7, NumberStep DEF n, n1

LEMMA ReadKept ==
  ASSUME NEW j \in Int, bus \in Seq(Events), NEW e \in Events, WR_Bytes' = WR_Bytes,
         bus' = bus \/ bus' = Append(bus, e), Place(WR_Bytes + j) \in 1 .. Len(bus)
  PROVE  ReadAt(j)' = ReadAt(j)
<1> DEFINE x == Place(WR_Bytes + j)
<1>1. ReadAt(j)' = bus'[x].byte /\ ReadAt(j) = bus[x].byte
  BY DEF ReadAt, Place
<1> HIDE DEF x
<1>2. bus' = bus \/ bus'[x] = bus[x]
  BY Appended DEF x
<1> QED
  BY <1>1, <1>2

(* What is told of the bytes read stays told.                              *)
LEMMA ReadSoFar ==
  ASSUME Working, Edge, BusInv, BusStep(bus), bus \in Seq(Events), Len(bus) = Logged,
         NEW j \in Int, j \in 1 .. Stored \/ (Fresh /\ j = Latest)
  PROVE  ReadAt(j)' = ReadAt(j)
<1>1. TypeInv /\ WithinLimits /\ AtByte /\ state # "ready" /\ WR_Bytes' = WR_Bytes
  BY DEF Working, Edge
<1>2. EventOf \in Events
  BY <1>1, EventTypes
<1>3. bus' = bus \/ bus' = Append(bus, EventOf)
  BY <1>1, EventStep
<1>4. Place(WR_Bytes + j) \in 1 .. Len(bus)
  <2>1. /\ \A i \in 1 .. Stored : Place(WR_Bytes + i) \in 1 .. Logged
        /\ Fresh => Place(WR_Bytes + Latest) \in 1 .. Logged
    BY <1>1, ReadPlaces
  <2> QED
    BY <2>1, Zenon
<1> QED
  BY <1>1, <1>2, <1>3, <1>4, ReadKept

(* The controller takes a byte from the master while it is there.          *)
LEMMA TakesByte ==
  ASSUME Working, i2c_busy = 0, busy_cnt > WR_Bytes
  PROVE  /\ Fresh /\ Latest = busy_cnt - WR_Bytes
         /\ busy_cnt - WR_Bytes - 1 \in 0 .. Max_Bytes - 1
<1>1. TypeInv /\ WithinLimits /\ AtByte /\ BusyEdges /\ get_data = 1 /\ state # "ready"
  BY DEF Working
<1>2. /\ busy_cnt \in Nat /\ WR_Bytes \in Nat /\ RD_Bytes \in Nat /\ Last = WR_Bytes + RD_Bytes
  BY <1>1, Numbers
<1>3. Number = busy_cnt + 1
  BY DEF Number
<1>4. state \in {"start", "wr", "rd"} /\ busy_cnt > 0
  BY <1>1 DEF BusyEdges
<1>5. /\ Number \in 1 .. Last
      /\ state = "start" => Number \in {1, WR_Bytes + 1}
      /\ state = "wr" => Number <= WR_Bytes
  BY <1>1 DEF AtByte, Begins
<1>6. state = "rd"
  BY <1>2, <1>3, <1>4, <1>5
<1>7. RD_Bytes <= Max_Bytes /\ Max_Bytes \in Nat
  BY <1>1, StackAssumption DEF StackAssumption, TypeInv, Types, UserTypes
<1>8. busy_cnt - WR_Bytes - 1 \in 0 .. Max_Bytes - 1
  BY <1>2, <1>3, <1>5, <1>7
<1>9. Fresh /\ Latest = busy_cnt - WR_Bytes
  BY <1>2, <1>3, <1>6 DEF Fresh, Latest
<1> QED
  BY <1>8, <1>9

LEMMA StoredTold ==
  ASSUME Working, Edge, BusInv, BusStep(bus), bus \in Seq(Events), AtByte', TypeInv',
         Len(bus) = Logged, ReadTold
  PROVE  \A j \in 1 .. Stored' : Data_RD'[j - 1] = ReadAt(j)'
<1> SUFFICES ASSUME NEW j \in 1 .. Stored'
             PROVE  Data_RD'[j - 1] = ReadAt(j)'
  OBVIOUS
<1>1. /\ TypeInv /\ Array!ArrayClock(0) /\ get_data = 1 /\ WithinLimits
      /\ Data_RD \in [0 .. Max_Bytes - 1 -> Bytes]
  BY DEF Working, Edge, TypeInv, Types, ArrayTypes
<1>2. busy_cnt \in Nat /\ WR_Bytes \in Nat
  BY <1>1, Numbers
<1> DEFINE k == busy_cnt - WR_Bytes
           takes == i2c_busy = 0 /\ busy_cnt > WR_Bytes
<1>3. Data_RD' = IF takes THEN [Data_RD EXCEPT ![k - 1] = i2c_data_rd] ELSE Data_RD
  BY <1>1, DataStep
<1>4. takes => Fresh /\ Latest = k /\ k - 1 \in 0 .. Max_Bytes - 1
  BY TakesByte
<1>5. takes => i2c_data_rd = ReadAt(k)
  BY <1>4 DEF ReadTold
<1> DEFINE s == Stored
           z == Stored'
<1>6. \/ z <= 0 \/ z <= s
      \/ /\ z = s + 1 /\ z = Latest
         /\ state = "rd" /\ i2c_busy = 0 /\ busy_cnt = Number - 1
  <2>1. Wires /\ get_data' = Busy'
    BY DEF BusInv, TypeInv, Asking
  <2> QED
    BY <2>1, StoredStep
<1>7. \A i \in 1 .. s : Data_RD[i - 1] = ReadAt(i)
  BY DEF ReadTold
<1>8. z \in Int /\ s \in Int
  <2>1. s \in Int
    <3>1. Number \in Int /\ state # "ready"
      BY <1>2 DEF Number, Working
    <3> QED
      BY <1>2, <3>1 DEF Stored
  <2>2. z \in Int
    <3>1. busy_cnt' \in Int /\ WR_Bytes' \in Int /\ RD_Bytes' \in Int
      BY DEF TypeInv, Types, UserTypes, ArrayTypes
    <3> DEFINE n == Number'
    <3>2. n \in Int
      BY <3>1 DEF Number
    <3>3. z = IF state' = "ready"
              THEN IF Transferred' THEN RD_Bytes' ELSE IF busy_cnt' # 0 THEN RD_Bytes' - 1 ELSE 0
              ELSE n - 1 - WR_Bytes' - (IF i2c_busy' = 0 /\ count' = Divider + 1 THEN 1 ELSE 0)
      BY DEF Stored
    <3> HIDE DEF n, z
    <3> QED
      BY <3>1, <3>2, <3>3
  <2> QED
    BY <2>1, <2>2
<1> HIDE DEF s, z
<1>9. j \in Int /\ j >= 1 /\ j <= z
  BY <1>8 DEF z
<1>10. CASE takes /\ j = k
  <2>1. ReadAt(j)' = ReadAt(j)
    BY <1>4, <1>9, <1>10, ReadSoFar
  <2>2. Data_RD'[k - 1] = i2c_data_rd
    BY <1>1, <1>3, <1>4, <1>10
  <2> QED
    BY <1>5, <1>10, <2>1, <2>2
<1>11. CASE ~(takes /\ j = k)
  <2>1. j <= s
    BY <1>2, <1>4, <1>6, <1>8, <1>9, <1>11 DEF Latest
  <2>2. j \in 1 .. s
    BY <1>8, <1>9, <2>1
  <2>3. ReadAt(j)' = ReadAt(j)
    BY <1>9, <2>2, ReadSoFar DEF s
  <2>4. Data_RD'[j - 1] = Data_RD[j - 1]
    <3>1. takes => j - 1 # k - 1
      BY <1>2, <1>9, <1>11
    <3> HIDE DEF k, takes
    <3> QED
      BY <1>1, <1>3, <3>1
  <2> QED
    BY <1>7, <2>2, <2>3, <2>4
<1> QED
  BY <1>10, <1>11

LEMMA FreshTold ==
  ASSUME Working, Edge, BusInv, BusStep(bus), bus \in Seq(Events), AtByte, AtByte',
         Len(bus) = Logged, ReadTold, Fresh'
  PROVE  i2c_data_rd' = ReadAt(Latest)'
<1>1. /\ TypeInv /\ WithinLimits /\ get_data = 1 /\ state # "ready"
      /\ WR_Bytes' = WR_Bytes /\ RD_Bytes' = RD_Bytes /\ Last' = Last
  BY DEF Working, Edge, Last
<1>2. /\ WR_Bytes \in Nat /\ RD_Bytes \in Nat /\ Last = WR_Bytes + RD_Bytes
      /\ Divider \in Nat /\ Divider >= 2 /\ count \in 0 .. 4 * Divider - 1
  BY <1>1, Numbers
<1>3. Number \in 1 .. Last
  BY <1>1 DEF AtByte
<1>4. Fresh => Latest \in Nat \ {0} /\ i2c_data_rd = ReadAt(Latest)
  BY <1>1, ReadPlaces DEF ReadTold
<1>5. ASSUME NEW k, Latest' = k
      PROVE  ReadAt(Latest)' = bus'[PlaceOf(WR_Bytes, WR_Bytes + k)].byte
  BY <1>1, <1>5 DEF ReadAt, Place
<1>6. ASSUME Fresh, Latest' = Latest, i2c_data_rd' = i2c_data_rd
      PROVE  i2c_data_rd' = ReadAt(Latest)'
  <2>1. PICK k \in Nat : k = Latest
    BY <1>4, <1>6
  <2>2. ReadAt(k)' = ReadAt(k)
    BY <1>6, <2>1, ReadSoFar
  <2>3. ReadAt(k)' = bus'[PlaceOf(WR_Bytes, WR_Bytes + k)].byte
    BY <1>1 DEF ReadAt, Place
  <2>4. ReadAt(Latest)' = ReadAt(k)'
    BY <1>5, <1>6, <2>1, <2>3
  <2>5. i2c_data_rd = ReadAt(k)
    BY <1>4, <1>6, <2>1 DEF ReadAt
  <2> QED
    BY <1>6, <2>2, <2>4, <2>5
<1>7. CASE count # Divider /\ Keeps /\ Number' = Number
  <2>1. /\ state' = state /\ i2c_busy' = i2c_busy /\ i2c_data_rd' = i2c_data_rd
        /\ Latest' = Latest
    BY <1>1, <1>7 DEF Keeps, Latest
  <2>2. CASE Fresh
    BY <1>6, <2>1, <2>2
  <2>3. CASE ~Fresh
    <3>1. state = "mstr_ack" /\ Fallen' /\ ~Fallen
      <4>1. \/ state' = "rd" /\ i2c_busy' = 0 /\ Number' > WR_Bytes' + 1
            \/ state' = "mstr_ack" /\ Fallen'
            \/ state' = "stop" /\ RD_Bytes' > 0
            \/ state' = "ready"
        BY DEF Fresh
      <4> QED
        BY <1>1, <1>7, <2>1, <2>3, <4>1 DEF Fresh
    <3>2. count = 0
      <4>1. Wires /\ Core!Timing(SCL)
        BY DEF BusInv, Edge
      <4> QED
        BY <1>1, <1>7, <3>1, <4>1, PhaseStep
    <3>3. EventNow
      BY <3>1, <3>2 DEF EventNow, InAck
    <3>4. bus' = Append(bus, EventOf) /\ EventOf \in Events
      BY <1>1, <3>3, EventStep, EventTypes
    <3>5. EventOf.byte = i2c_data_rd
      BY <3>1 DEF EventOf
    <3>6. Len(bus) = Place(Number) - 1
      BY <3>1 DEF Logged
    <3>7. bus'[Len(bus')] = EventOf /\ Len(bus') = Len(bus) + 1
      BY <3>4, Appended
    <3>8. PICK n \in Nat : n = Number
      BY <1>2, <1>3
    <3>9. Place(n) \in Nat
      BY <1>1, Places
    <3>10. Len(bus') = Place(n)
      <4>1. Place(Number) = Place(n)
        BY <3>8
      <4> DEFINE l == Len(bus)
                 m == Len(bus')
                 p == Place(n)
      <4>2. l = p - 1 /\ m = l + 1 /\ p \in Nat
        BY <3>6, <3>7, <3>9, <4>1
      <4> HIDE DEF l, m, p
      <4>3. m = p
        BY <4>2
      <4> QED
        BY <4>3 DEF m, p
    <3>11. Latest' = n - WR_Bytes
      BY <2>1, <3>1, <3>8 DEF Latest
    <3>12. WR_Bytes + (n - WR_Bytes) = n
      BY <1>2
    <3>13. ReadAt(Latest)' = bus'[PlaceOf(WR_Bytes, n)].byte
      <4>1. ReadAt(Latest)' = bus'[PlaceOf(WR_Bytes, WR_Bytes + (n - WR_Bytes))].byte
        BY <1>5, <3>11
      <4> QED
        BY <3>12, <4>1
    <3> QED
      BY <2>1, <3>5, <3>7, <3>10, <3>13 DEF Place
  <2> QED
    BY <2>2, <2>3
<1>8. CASE Acts /\ Turns
  <2>1. Fallen /\ ~Fallen'
    BY <1>1, <1>8, ActPhase
  <2>2. /\ Number \in Nat
        /\ state = "slv_ack1" => Number <= WR_Bytes + 1
        /\ state = "slv_ack2" => Number <= WR_Bytes
        /\ state = "mstr_ack" => Number > WR_Bytes
        /\ state = "stop" => Number = Last
        /\ state' = "stop" => Number' = Last
    <3>1. /\ state = "slv_ack1" => Begins(Number)
          /\ state = "slv_ack2" => Number <= WR_Bytes
          /\ state = "mstr_ack" => Number > WR_Bytes
          /\ state = "stop" => Number = Last
      BY DEF AtByte
    <3>2. state' = "stop" => Number' = Last'
      BY DEF AtByte
    <3> QED
      BY <1>1, <1>2, <1>3, <3>1, <3>2 DEF Begins
  <2>3. \/ state' = "rd" /\ i2c_busy' = 0 /\ Number' > WR_Bytes + 1
        \/ state' = "stop" /\ RD_Bytes > 0
        \/ state' = "ready" /\ RD_Bytes > 0
    BY <1>1, <2>1 DEF Fresh
  <2>4. \/ state = "mstr_ack" /\ state' = "rd" /\ Number' = Number + 1
        \/ state = "mstr_ack" /\ state' = "stop" /\ Number' = Number /\ RD_Bytes > 0
        \/ state = "stop" /\ state' = "ready" /\ RD_Bytes > 0
    BY <1>2, <1>8, <2>2, <2>3 DEF Turns
  <2>5. Fresh
    BY <2>1, <2>4 DEF Fresh
  <2>6. Latest' = Latest
    BY <1>1, <1>2, <2>2, <2>4 DEF Latest
  <2>7. i2c_data_rd' = i2c_data_rd
    BY <1>8, <2>4, ActsKeepRead
  <2> QED
    BY <1>6, <2>5, <2>6, <2>7
<1> QED
  BY <1>7, <1>8, NumberStep

LEMMA ReadStep ==
  ASSUME Working, Edge, BusInv, BusStep(bus), bus \in Seq(Events), AtByte', TypeInv',
         Len(bus) = Logged, ReadTold
  PROVE  ReadTold'
<1>1. AtByte
  BY DEF Working
<1>2. \A j \in 1 .. Stored' : Data_RD'[j - 1] = ReadAt(j)'
  BY StoredTold
<1>3. Fresh' => i2c_data_rd' = ReadAt(Latest)'
  BY <1>1, FreshTold
<1> QED
  BY <1>2, <1>3 DEF ReadTold

----------------------------------------------------------------------------
(* The stack does what I2CTransfer says.  Between two requests the bus is  *)
(* at rest; in a request the log, the error flag and the data port are     *)
(* those of its place in the script.                                       *)
Told == Len(bus) = Logged /\ ErrorTold /\ ReadTold

StackInv ==
  /\ ControlInv /\ Wires /\ AtStart /\ InBits /\ AtAck
  /\ bus \in Seq(Events)
  /\ Reset = 1 => Ack_Error = 0
  /\ busy_cnt # 0 => user = "waiting"
  /\ user # "idle" => Told

LEMMA ResetBus ==
  ASSUME WithinLimits, StackInv, Next, Reset = 1
  PROVE  /\ Wires' /\ AtStart' /\ InBits' /\ AtAck' /\ busy_cnt' = 0
         /\ user = "idle" /\ user' = "idle"
         /\ UNCHANGED <<bus, request, Data_RD, Ack_Error>>
<1>1. /\ User /\ Array!ArrayReset /\ Core!MasterReset /\ Slave!SlaveClock(SDA, SCL, Log) /\ TypeInv
  BY SameMaster DEF Next, StackInv, ControlInv, Array!ArrayClock, Core!MasterClock
<1>2. /\ state' = "ready" /\ scl_ena' = 0 /\ stretch' = 0 /\ Ack_Error' = 0
      /\ Data_RD' = Data_RD /\ busy_cnt' = 0
  BY <1>1 DEF Core!MasterReset, Array!ArrayReset
<1>3. /\ state = "ready" /\ scl_ena = 0 /\ sda_int = 1 /\ settle = Settle /\ Settle >= Divider
      /\ user = "idle" /\ Ack_Error = 0
  BY DEF StackInv, ControlInv, Starting, TypeInv, Asking
<1>4. /\ old_scl = 1 /\ hold = 0 /\ old_sda = 1 /\ slave_sda = 1
  BY <1>3 DEF StackInv, Wires
<1>5. SCL = 1 /\ SDA = 1
  BY <1>3, <1>4, SameMaster DEF SCL, SDA, Core!SclOut, Core!SdaOut, Slave!SlaveScl
<1>6. settle # 0
  BY <1>3, MasterLimits
<1>7. user' = "idle" /\ request' = request
  BY <1>1, <1>3, <1>6, PortsStep
<1>8. /\ hold' = 0 /\ bus' = Log /\ UNCHANGED <<mode, bits, slave_sda>>
      /\ old_sda' = 1 /\ old_scl' = 1
  BY <1>1, <1>4, <1>5 DEF Slave!SlaveClock, Slave!StartSeen, Slave!StopSeen, Slave!Quiet
<1>9. bus' = bus
  BY <1>7, <1>8 DEF Log
<1>10. Wires'
  BY <1>2, <1>4, <1>8 DEF Wires
<1>11. AtStart' /\ InBits' /\ AtAck'
  BY <1>2 DEF AtStart, InBits, AtAck, InByte, InAck
<1> QED
  BY <1>2, <1>3, <1>7, <1>9, <1>10, <1>11

(* The parts of a clock.                                                   *)
LEMMA ClockParts ==
  ASSUME WithinLimits, StackInv, Next, Reset = 0
  PROVE  /\ User /\ Array!ArrayClock(0) /\ BusStep(Log) /\ BusInv /\ ControlInv'
         /\ Busy = get_data /\ bus \in Seq(Events)
<1>1. /\ User /\ Array!ArrayClock(0) /\ Core!Timing(SCL) /\ Core!Machine(SDA)
      /\ Slave!SlaveClock(SDA, SCL, Log)
  BY SameMaster DEF Next, Core!MasterClock
<1>2. ControlInv'
  BY ControlStep DEF StackInv
<1> QED
  BY <1>1, <1>2 DEF StackInv, BusInv, BusStep, ControlInv, Running, TypeInv, Asking

(* No request: a new one begins with an empty log.                         *)
LEMMA RestingClock ==
  ASSUME WithinLimits, StackInv, Next, Reset = 0, get_data = 0
  PROVE  /\ bus' = Log /\ UNCHANGED <<Data_RD, Ack_Error>>
         /\ busy_cnt' = 0 /\ (user' = "asked" => Told')
<1>1. /\ User /\ Array!ArrayClock(0) /\ BusStep(Log) /\ BusInv /\ ControlInv' /\ Busy = 0
      /\ TypeInv /\ busy_cnt = 0 /\ state = "ready"
  BY ClockParts DEF StackInv, ControlInv, Running, Resting, TypeInv, Asking
<1>2. Data_RD' = Data_RD /\ busy_cnt' = 0
  BY <1>1 DEF Array!ArrayClock, Array!Waiting, Array!Transferring
<1>3. Ack_Error' = Ack_Error /\ state' = "ready"
  <2>1. Ack_Error' = Ack_Error
    BY <1>1, ReadySteps DEF BusStep
  <2>2. i2c_ena = 0
    BY <1>1 DEF StackInv, ControlInv, Running, Resting
  <2> QED
    BY <1>1, <2>1, <2>2, MasterReady DEF BusStep, BusInv
<1>4. bus' = Log
  BY <1>1, SlaveWaits DEF SlaveRests, Slave!Quiet
<1>5. ASSUME user' = "asked"
      PROVE  Told'
  <2>1. user = "idle" \/ user = "asked"
    BY <1>1, <1>5, PortsStep DEF TypeInv, Types, UserTypes
  <2>2. ~Transferred' /\ ~(user = "asked" /\ Transferred)
    BY <1>5 DEF Transferred
  <2>3. Logged' = 0 /\ Stored' = 0 /\ ~Begun' /\ ~Fresh'
    BY <1>2, <1>3, <2>2 DEF Logged, Stored, Begun, Fresh
  <2>4. bus' = <<>>
    <3>1. CASE user = "idle"
      BY <1>4, <1>5, <3>1 DEF Log
    <3>2. CASE user = "asked"
      <4>1. Len(bus) = Logged /\ bus \in Seq(Events)
        BY <3>2 DEF StackInv, Told
      <4>2. Logged = 0
        BY <1>1, <2>2, <3>2 DEF Logged
      <4>3. bus = <<>>
        BY <4>1, <4>2, EmptySeq
      <4> QED
        BY <1>4, <3>2, <4>3 DEF Log
    <3> QED
      BY <2>1, <3>1, <3>2
  <2>5. Len(bus') = 0
    BY <2>4
  <2>6. ReadTold'
    <3> DEFINE z == Stored'
    <3>1. z = 0
      BY <2>3
    <3> HIDE DEF z
    <3>2. \A j \in 1 .. z : Data_RD'[j - 1] = ReadAt(j)'
      BY <3>1
    <3> QED
      BY <2>3, <3>2 DEF ReadTold, z
  <2> QED
    BY <2>3, <2>5, <2>6 DEF Told, ErrorTold
<1> QED
  BY <1>2, <1>3, <1>4, <1>5

(* The user while the controller works.                                    *)
LEMMA UserWaits ==
  ASSUME TypeInv, User, get_data = 1
  PROVE  /\ user # "idle" /\ user' = "waiting" /\ Log = bus
         /\ UNCHANGED <<request, Address, WR_Bytes, Data_WR, RD_Bytes>>
<1>1. user \in {"asked", "waiting"} /\ Busy = 1
  BY DEF TypeInv, Types, UserTypes, Asking
<1>2. /\ UNCHANGED <<request, Address, WR_Bytes, Data_WR, RD_Bytes>>
      /\ user' = "waiting"
  BY <1>1, PortsStep
<1> QED
  BY <1>1, <1>2 DEF Log

(* The first byte is asked for, and the master begins it.                  *)
LEMMA FirstClock ==
  ASSUME WithinLimits, StackInv, Next, Reset = 0, get_data = 1, state = "ready", busy_cnt = 0
  PROVE  bus' = bus /\ busy_cnt' = 0 /\ Told'
<1>1. /\ User /\ Array!ArrayClock(0) /\ BusStep(Log) /\ BusInv /\ ControlInv' /\ TypeInv
      /\ Busy = 1 /\ bus \in Seq(Events)
  BY ClockParts DEF StackInv, ControlInv
<1>2. /\ user # "idle" /\ user' = "waiting" /\ Log = bus
      /\ WR_Bytes' = WR_Bytes /\ RD_Bytes' = RD_Bytes
  BY <1>1, UserWaits
<1>3. bus' = bus
  BY <1>1, <1>2, SlaveWaits DEF SlaveRests, Slave!Quiet
<1>4. /\ i2c_busy = 0 /\ busy_cnt \in Nat /\ WR_Bytes \in Nat /\ Divider \in Nat /\ Divider >= 2
  BY <1>1, Numbers DEF StackInv, ControlInv, Running, Resting
<1>5. get_data' = 1 /\ busy_prev' = 0 /\ busy_cnt' = 0
  BY <1>1, <1>4, ControllerStep
<1>6. Busy' = 1
  <2>1. TypeInv'
    BY <1>1 DEF ControlInv
  <2> QED
    BY <1>5, <2>1 DEF TypeInv, Asking
<1>7. Len(bus) = 0
  BY <1>1, <1>2 DEF StackInv, Told, Logged, Transferred
<1>8. ~Transferred'
  BY <1>6 DEF Transferred
<1>9. CASE state' = "ready"
  <2>1. Logged' = 0 /\ Stored' = 0 /\ ~Begun' /\ ~Fresh'
    BY <1>5, <1>8, <1>9 DEF Logged, Stored, Begun, Fresh
  <2> DEFINE z == Stored'
             l == Len(bus')
  <2>2. z = 0 /\ l = 0
    BY <1>3, <1>7, <2>1
  <2>3. \A j \in 1 .. z : Data_RD'[j - 1] = ReadAt(j)'
    <3> HIDE DEF z
    <3> QED
      BY <2>2
  <2> QED
    BY <1>3, <1>5, <1>7, <2>1, <2>3 DEF Told, ErrorTold, ReadTold
<1>10. CASE state' = "start" /\ count' = Divider + 1 /\ scl_ena' = 0
  <2>1. Number' = 1
    BY <1>5 DEF Number
  <2>2. ~Past'
    BY <1>4, <1>10 DEF Past
  <2>3. Place(Number)' = 3
    <3>1. Place(Number)' = PlaceOf(WR_Bytes', Number')
      BY DEF Place
    <3> QED
      BY <1>2, <1>4, <2>1, <3>1 DEF PlaceOf
  <2>4. Logged' = 0 /\ ~Begun' /\ ~Fresh'
    BY <1>10, <2>2, <2>3 DEF Logged, Begun, Fresh
  <2> DEFINE z == Stored'
             n == Number'
  <2>5. z <= 0 /\ z \in Int
    <3>1. z = n - 1 - WR_Bytes - (IF i2c_busy' = 0 /\ count' = Divider + 1 THEN 1 ELSE 0)
      BY <1>2, <1>10 DEF Stored
    <3> HIDE DEF z
    <3> QED
      BY <1>4, <2>1, <3>1
  <2>6. \A j \in 1 .. z : Data_RD'[j - 1] = ReadAt(j)'
    <3> HIDE DEF z
    <3> QED
      BY <2>5
  <2> QED
    BY <1>3, <1>5, <1>7, <2>4, <2>6 DEF Told, ErrorTold, ReadTold
<1> QED
  BY <1>1, <1>3, <1>9, <1>10, MasterReady DEF BusStep, BusInv

(* The last byte is stored, and the request is done.                       *)
LEMMA FinishClock ==
  ASSUME WithinLimits, StackInv, Next, Reset = 0, get_data = 1, state = "ready", busy_cnt # 0
  PROVE  bus' = bus /\ busy_cnt' = 0 /\ Told'
<1>1. /\ User /\ Array!ArrayClock(0) /\ BusStep(Log) /\ BusInv /\ ControlInv' /\ TypeInv
      /\ Busy = 1 /\ bus \in Seq(Events) /\ user = "waiting"
  BY ClockParts DEF StackInv, ControlInv
<1>2. /\ user # "idle" /\ user' = "waiting" /\ Log = bus
      /\ WR_Bytes' = WR_Bytes /\ RD_Bytes' = RD_Bytes
  BY <1>1, UserWaits
<1>3. bus' = bus
  BY <1>1, <1>2, SlaveWaits DEF SlaveRests, Slave!Quiet
<1>4. /\ i2c_busy = 0 /\ i2c_ena = 0 /\ busy_cnt = Last /\ busy_cnt \in Nat /\ WR_Bytes \in Nat /\ RD_Bytes \in Nat
      /\ Last = WR_Bytes + RD_Bytes /\ Last >= 2
  BY <1>1, Numbers DEF StackInv, ControlInv, Running, Resting
<1>5. get_data' = 0 /\ busy_cnt' = 0
  BY <1>1, <1>4, ControllerStep
<1>6. Busy' = 0 /\ Data_RD \in [0 .. Max_Bytes - 1 -> Bytes] /\ RD_Bytes <= Max_Bytes /\ Max_Bytes \in Nat
  <2>1. TypeInv'
    BY <1>1 DEF ControlInv
  <2>2. Busy' = 0
    BY <1>5, <2>1 DEF TypeInv, Asking
  <2> QED
    BY <1>1, <2>2, StackAssumption DEF StackAssumption, TypeInv, Types, UserTypes, ArrayTypes
<1>7. state' = "ready" /\ Ack_Error' = Ack_Error
  <2>1. state' = "ready"
    BY <1>1, <1>4, MasterReady DEF BusStep, BusInv
  <2> QED
    BY <1>1, <2>1, ReadySteps DEF BusStep
<1>8. Transferred' /\ ~Transferred
  BY <1>1, <1>2, <1>6 DEF Transferred
<1>9. Told
  BY <1>2 DEF StackInv
<1>10. Logged' = Logged
  <2>1. Place(Last)' = Place(Last)
    <3>1. Place(Last)' = PlaceOf(WR_Bytes', WR_Bytes' + RD_Bytes')
      BY DEF Place, Last
    <3> QED
      BY <1>2, <3>1 DEF Place, Last
  <2> DEFINE p == Place(Last)
             q == Place(Last)'
  <2>2. Logged = p + 1 /\ Logged' = q + 1 /\ p = q
    BY <1>7, <1>8, <2>1 DEF Logged
  <2> HIDE DEF p, q
  <2> QED
    BY <2>2
<1>11. ErrorTold'
  <2>1. Transfer!Refused' <=> Transfer!Refused
    BY <1>3 DEF Transfer!Refused
  <2>2. Begun /\ ~Pending /\ ~Pending'
    BY <1>7 DEF Begun, Pending
  <2> QED
    BY <1>7, <1>9, <2>1, <2>2 DEF ErrorTold, Told
<1>12. ReadTold'
  <2>1. Stored' = RD_Bytes /\ Stored = RD_Bytes - 1 /\ ~Fresh'
    BY <1>2, <1>5, <1>7, <1>8 DEF Stored, Fresh
  <2>2. ASSUME NEW j \in Int
        PROVE  ReadAt(j)' = ReadAt(j)
    <3>1. ReadAt(j)' = bus'[PlaceOf(WR_Bytes', WR_Bytes' + j)].byte
      BY DEF ReadAt, Place
    <3> QED
      BY <1>2, <1>3, <3>1 DEF ReadAt, Place
  <2>3. RD_Bytes > 0 => i2c_data_rd = ReadAt(RD_Bytes)
    <3>1. RD_Bytes > 0 => Fresh /\ Latest = RD_Bytes
      BY DEF Fresh, Latest
    <3>2. Fresh => i2c_data_rd = ReadAt(Latest)
      BY <1>9 DEF Told, ReadTold
    <3> QED
      BY <3>1, <3>2
  <2>4. Data_RD' = IF RD_Bytes > 0 THEN [Data_RD EXCEPT ![RD_Bytes - 1] = i2c_data_rd] ELSE Data_RD
    <3>1. Data_RD' = IF i2c_busy = 0 /\ busy_cnt > WR_Bytes
                     THEN [Data_RD EXCEPT ![busy_cnt - WR_Bytes - 1] = i2c_data_rd] ELSE Data_RD
      BY <1>1, DataStep
    <3>2. busy_cnt - WR_Bytes - 1 = RD_Bytes - 1 /\ (busy_cnt > WR_Bytes <=> RD_Bytes > 0)
      BY <1>4
    <3> QED
      BY <1>4, <3>1, <3>2
  <2>5. \A j \in 1 .. RD_Bytes - 1 : Data_RD[j - 1] = ReadAt(j)
    BY <1>9, <2>1 DEF Told, ReadTold
  <2>6. ASSUME NEW j \in 1 .. RD_Bytes
        PROVE  Data_RD'[j - 1] = ReadAt(j)'
    <3>1. j \in Int /\ RD_Bytes > 0 /\ (j = RD_Bytes \/ j \in 1 .. RD_Bytes - 1)
      BY <1>4
    <3>2. ReadAt(j)' = ReadAt(j)
      BY <2>2, <3>1
    <3>3. CASE j = RD_Bytes
      <4>1. RD_Bytes - 1 \in 0 .. Max_Bytes - 1
        BY <1>4, <1>6, <3>1
      <4>2. Data_RD'[j - 1] = i2c_data_rd
        BY <1>6, <2>4, <3>1, <3>3, <4>1
      <4> QED
        BY <2>3, <3>1, <3>2, <3>3, <4>2
    <3>4. CASE j \in 1 .. RD_Bytes - 1
      <4>1. j - 1 # RD_Bytes - 1
        BY <1>4, <3>4
      <4>2. Data_RD'[j - 1] = Data_RD[j - 1]
        BY <1>6, <2>4, <4>1
      <4> QED
        BY <2>5, <3>2, <3>4, <4>2
    <3> QED
      BY <3>1, <3>3, <3>4
  <2> DEFINE z == Stored'
  <2>7. z = RD_Bytes
    BY <2>1
  <2>8. \A j \in 1 .. z : Data_RD'[j - 1] = ReadAt(j)'
    <3> HIDE DEF z
    <3> QED
      BY <2>6, <2>7
  <2> QED
    BY <2>1, <2>8 DEF ReadTold
<1> QED
  BY <1>3, <1>5, <1>9, <1>10, <1>11, <1>12 DEF Told

(* A clock of the transfer: no event, or the next of the script.           *)
NextEvent == \E e \in Events : /\ bus' = Append(bus, e)
                               /\ Len(bus) # Len(Transfer!Script(request))
                               /\ Transfer!Obeys(e, Step(Len(bus) + 1))

LEMMA WorkClock ==
  ASSUME WithinLimits, StackInv, Next, Reset = 0, get_data = 1, state # "ready"
  PROVE  Told' /\ (bus' = bus \/ NextEvent)
<1>1. /\ User /\ Array!ArrayClock(0) /\ BusStep(Log) /\ BusInv /\ ControlInv' /\ TypeInv
      /\ bus \in Seq(Events) /\ Wires
  BY ClockParts DEF StackInv, ControlInv
<1>2. /\ user # "idle" /\ Log = bus
      /\ UNCHANGED <<request, Address, WR_Bytes, Data_WR, RD_Bytes>>
  BY <1>1, UserWaits
<1>3. Working /\ Edge /\ BusStep(bus)
  BY <1>1, <1>2 DEF Working, Edge, BusStep, StackInv, ControlInv, Running
<1>4. AtByte' /\ TypeInv' /\ AtByte
  <2>1. Reset' = 0
    BY <1>1 DEF User
  <2> QED
    BY <1>1, <1>3, <2>1 DEF ControlInv, Running, Working
<1>5. Len(bus) = Logged /\ ErrorTold /\ ReadTold
  BY <1>2 DEF StackInv, Told
<1>6. Logged \in Nat
  <2>1. Len(bus) \in Nat
    BY <1>1, LenProperties
  <2> QED
    BY <1>5, <2>1
<1>7. bus' = IF EventNow THEN Append(bus, EventOf) ELSE bus
  BY <1>1, <1>3, <1>4, EventStep
<1>8. EventOf \in Events
  BY <1>1, EventTypes
<1>9. Logged' = Logged + (IF EventNow THEN 1 ELSE 0)
  BY <1>1, <1>3, <1>4, LoggedStep
<1>10. EventNow => Len(bus') = Len(bus) + 1
  BY <1>1, <1>7, <1>8, Appended
<1>11. Len(bus') = Logged'
  <2> DEFINE l == Logged
             m == Logged'
  <2>1. m = l + (IF EventNow THEN 1 ELSE 0) /\ l \in Nat /\ Len(bus) = l
    BY <1>5, <1>6, <1>9
  <2> HIDE DEF l, m
  <2>2. Len(bus') = m
    BY <1>7, <1>10, <2>1
  <2> QED
    BY <2>2 DEF m
<1>12. ErrorTold' /\ ReadTold'
  BY <1>1, <1>3, <1>4, <1>5, ErrorStep, ReadStep
<1>13. ASSUME EventNow
       PROVE  NextEvent
  <2>1. Logged # Len(Transfer!Script(request)) /\ Transfer!Obeys(EventOf, Step(Logged + 1))
    BY <1>2, <1>3, <1>6, <1>13, EventInScript
  <2> QED
    BY <1>5, <1>7, <1>8, <1>13, <2>1 DEF NextEvent
<1> QED
  BY <1>7, <1>11, <1>12, <1>13 DEF Told

(* What every clock without a reset does, as the user sees it.             *)
LEMMA ClockStep ==
  ASSUME WithinLimits, StackInv, Next, Reset = 0
  PROVE  \/ /\ get_data = 0 /\ bus' = Log /\ UNCHANGED <<Data_RD, Ack_Error>>
            /\ busy_cnt' = 0 /\ (user' = "asked" => Told') /\ user' # "waiting"
         \/ /\ get_data = 1 /\ user # "idle" /\ user' = "waiting" /\ request' = request
            /\ Told' /\ (bus' = bus \/ NextEvent)
<1>1. User /\ Busy = get_data /\ TypeInv
  BY ClockParts DEF StackInv, ControlInv
<1>2. CASE get_data = 0
  <2>1. user' # "waiting"
    BY <1>1, <1>2, PortsStep DEF TypeInv, Types, UserTypes
  <2> QED
    BY <1>2, <2>1, RestingClock
<1>3. CASE get_data = 1
  <2>1. user # "idle" /\ user' = "waiting" /\ request' = request
    BY <1>1, <1>3, UserWaits
  <2>2. Told' /\ (bus' = bus \/ NextEvent)
    BY <1>3, FirstClock, FinishClock, WorkClock
  <2> QED
    BY <1>3, <2>1, <2>2
<1> QED
  BY <1>1, <1>2, <1>3 DEF TypeInv, Types, ArrayTypes

LEMMA StackInvInit ==
  ASSUME WithinLimits, Init
  PROVE  StackInv
<1>1. ControlInv
  BY ControlInit
<1>2. /\ state = "ready" /\ scl_ena = 0 /\ stretch = 0 /\ Ack_Error = 0 /\ busy_cnt = 0
      /\ user = "idle"
  BY SameMaster DEF Init, Array!ArrayInit, Core!MasterInit
<1>3. old_sda = 1 /\ old_scl = 1 /\ slave_sda = 1 /\ hold = 0 /\ bus = <<>>
  BY DEF Init, Slave!SlaveInit
<1>4. Wires /\ AtStart /\ InBits /\ AtAck
  BY <1>2, <1>3 DEF Wires, AtStart, InBits, AtAck, InByte, InAck
<1>5. bus \in Seq(Events)
  BY <1>3, EmptySeq
<1> QED
  BY <1>1, <1>2, <1>4, <1>5 DEF StackInv

LEMMA StackInvNext ==
  ASSUME WithinLimits, StackInv, Next
  PROVE  StackInv'
<1>1. ControlInv' /\ Reset' = 0
  BY ControlStep DEF StackInv, Next, User
<1>2. Reset \in {0, 1}
  BY DEF StackInv, ControlInv, TypeInv, Types, UserTypes
<1>3. CASE Reset = 1
  <2>1. bus' \in Seq(Events)
    BY <1>3, ResetBus DEF StackInv
  <2> QED
    BY <1>1, <1>3, <2>1, ResetBus DEF StackInv
<1>4. CASE Reset = 0
  <2>1. BusInv /\ BusStep(Log) /\ TypeInv' /\ Core!IInv'
    BY <1>1, <1>4, ClockParts DEF ControlInv, Running
  <2>2. Wires' /\ AtStart' /\ InBits' /\ AtAck'
    BY <2>1, BusInvStep DEF BusInv
  <2>3. bus \in Seq(Events) /\ <<>> \in Seq(Events)
    BY EmptySeq DEF StackInv
  <2>4. Log \in Seq(Events)
    BY <2>3 DEF Log
  <2>5. bus' \in Seq(Events)
    <3>1. ASSUME NEW e \in Events, bus' = Append(bus, e)
          PROVE  bus' \in Seq(Events)
      BY <2>3, <3>1, AppendProperties
    <3> QED
      BY <1>4, <2>3, <2>4, <3>1, ClockStep DEF NextEvent
  <2>6. /\ busy_cnt' # 0 => user' = "waiting"
        /\ user' # "idle" => Told'
    <3>1. user' \in {"idle", "asked", "waiting"}
      BY <2>1 DEF TypeInv, Types, UserTypes
    <3> QED
      BY <1>4, <3>1, ClockStep
  <2> QED
    BY <1>1, <2>2, <2>5, <2>6 DEF StackInv
<1> QED
  BY <1>2, <1>3, <1>4

LEMMA StackInvStays ==
  ASSUME StackInv, ControlInv', UNCHANGED vars
  PROVE  StackInv'
<1>1. /\ UNCHANGED <<Reset, user, request, Address, WR_Bytes, RD_Bytes, Busy, busy_prev, busy_cnt,
                     Data_RD, i2c_ena, i2c_busy, i2c_data_rd>>
      /\ UNCHANGED <<count, stretch, data_clk, data_clk_prev, scl_clk, state, scl_ena, sda_int,
                     addr_rw, data_tx, data_rx, bit_cnt, Ack_Error>>
      /\ UNCHANGED <<old_sda, old_scl, mode, bits, slave_sda, hold, bus>>
  BY DEF vars, userVars, ports, Array!arrayVars, Array!command, Master!timing, Master!machine,
         Slave!slaveVars
<1>2. SDA' = SDA
  BY <1>1 DEF SDA, Master!SdaOut
<1>3. Wires' /\ AtStart'
  BY <1>1, <1>2 DEF StackInv, Wires, AtStart, Past
<1>4. InBits' /\ AtAck'
  BY <1>1 DEF StackInv, InBits, AtAck, InByte, InAck, ModeOf, Sends, Sampled, Fallen
<1>5. ASSUME user # "idle"
      PROVE  Told'
  <2>1. Told
    BY <1>5 DEF StackInv
  <2>2. Number' = Number /\ Last' = Last /\ Transferred' = Transferred
    BY <1>1 DEF Number, Last, Transferred
  <2>3. Logged' = Logged
    <3>1. Place(Number)' = Place(Number) /\ Place(Last)' = Place(Last)
      BY <1>1, <2>2 DEF Place
    <3>2. Past' = Past /\ Fallen' = Fallen
      BY <1>1 DEF Past, Fallen
    <3> QED
      BY <1>1, <2>2, <3>1, <3>2 DEF Logged
  <2>4. ErrorTold'
    <3>1. Begun' = Begun /\ Pending' = Pending
      BY <1>1, <2>2 DEF Begun, Pending
    <3>2. Transfer!Refused' = Transfer!Refused
      BY <1>1 DEF Transfer!Refused
    <3> QED
      BY <1>1, <2>1, <3>1, <3>2 DEF Told, ErrorTold
  <2>5. ReadTold'
    <3>1. Stored' = Stored /\ Latest' = Latest /\ Fresh' = Fresh
      BY <1>1, <2>2 DEF Stored, Latest, Fresh, Fallen
    <3>2. ASSUME NEW j
          PROVE  ReadAt(j)' = ReadAt(j)
      BY <1>1 DEF ReadAt, Place
    <3>3. ReadAt(Latest)' = ReadAt(Latest)
      BY <1>1, <3>1 DEF ReadAt, Place
    <3> QED
      BY <1>1, <2>1, <3>1, <3>2, <3>3 DEF Told, ReadTold
  <2> QED
    BY <1>1, <2>1, <2>3, <2>4, <2>5 DEF Told
<1>6. /\ bus' \in Seq(Events)
      /\ Reset' = 1 => Ack_Error' = 0
      /\ busy_cnt' # 0 => user' = "waiting"
  BY <1>1 DEF StackInv
<1> QED
  BY <1>1, <1>3, <1>4, <1>5, <1>6 DEF StackInv

(* A request that is done: the whole script is on the bus, the bytes read  *)
(* are in Data_RD and the error flag tells of a refusal.                   *)
LEMMA DoneRight ==
  ASSUME WithinLimits, StackInv, Reset = 0, get_data = 0, user = "waiting"
  PROVE  /\ Transfer!Complete
         /\ \A i \in 1 .. request.reads : Data_RD[i - 1] = Transfer!ByteRead(i)
         /\ Ack_Error = IF Transfer!Refused THEN 1 ELSE 0
<1>1. /\ TypeInv /\ state = "ready" /\ Busy = 0 /\ Told /\ Ack_Error \in {0, 1}
      /\ bus \in Seq(Events)
  BY DEF StackInv, ControlInv, Running, Resting, TypeInv, Types, Asking, Core!TypeOK
<1>2. Transferred
  BY <1>1 DEF Transferred
<1>3. Len(bus) = Place(Last) + 1
  BY <1>1, <1>2 DEF Told, Logged
<1>4. Transfer!Complete
  BY <1>1, <1>3, ScriptSteps DEF Transfer!Complete
<1>5. Ack_Error = IF Transfer!Refused THEN 1 ELSE 0
  <2>1. Begun /\ ~Pending
    BY <1>1, <1>2 DEF Begun, Pending
  <2> QED
    BY <1>1, <2>1 DEF Told, ErrorTold
<1>6. /\ WR_Bytes \in Nat /\ RD_Bytes \in Nat /\ Last = WR_Bytes + RD_Bytes
      /\ RD_Bytes = request.reads
  BY <1>1, StackAssumption DEF StackAssumption, TypeInv, Types, UserTypes, AsAsked, Last
<1>7. ASSUME NEW i \in 1 .. RD_Bytes
      PROVE  Data_RD[i - 1] = Transfer!ByteRead(i)
  <2>1. Data_RD[i - 1] = ReadAt(i)
    BY <1>1, <1>2 DEF Told, ReadTold, Stored
  <2>2. Place(WR_Bytes + i) = Len(bus) - 1 - RD_Bytes + i
    <3>1. /\ Place(WR_Bytes + i) = WR_Bytes + i + (IF WR_Bytes = 0 THEN 2 ELSE 4)
          /\ Place(Last) = Last + (IF WR_Bytes = 0 THEN 2 ELSE 4)
      BY <1>6 DEF Place, PlaceOf
    <3> DEFINE p == Place(WR_Bytes + i)
               q == Place(Last)
               l == Len(bus)
    <3>2. l = q + 1
      BY <1>3
    <3> HIDE DEF p, q, l
    <3>3. /\ p = WR_Bytes + i + (IF WR_Bytes = 0 THEN 2 ELSE 4)
          /\ q = Last + (IF WR_Bytes = 0 THEN 2 ELSE 4)
      BY <3>1 DEF p, q
    <3>4. p = l - 1 - RD_Bytes + i
      BY <1>6, <3>2, <3>3
    <3> QED
      BY <3>4 DEF p, l
  <2> QED
    BY <1>6, <2>1, <2>2 DEF ReadAt, Transfer!ByteRead
<1> QED
  BY <1>4, <1>5, <1>6, <1>7

LEMMA TransferMapping ==
  ASSUME WithinLimits, StackInv, Next
  PROVE  Transfer!TransferNext \/ UNCHANGED Transfer!abstractVars
<1>1. /\ User /\ TypeInv /\ Reset \in {0, 1} /\ bus \in Seq(Events)
  BY DEF Next, StackInv, ControlInv, TypeInv, Types, UserTypes
<1>2. CASE Reset = 1
  BY <1>2, ResetBus DEF Transfer!abstractVars
<1>3. CASE Reset = 0 /\ get_data = 0
  <2>1. bus' = Log /\ UNCHANGED <<Data_RD, Ack_Error>> /\ Busy = 0
    BY <1>1, <1>3, ClockStep DEF TypeInv, Asking
  <2>2. ASSUME NEW r \in Requests, Ask(r)
        PROVE  Transfer!Ask(r)
    <3>1. user = "idle" /\ user' = "asked" /\ request' = r
      BY <2>2 DEF Ask
    <3> QED
      BY <2>1, <3>1 DEF Transfer!Ask, Log
  <2>3. CASE Watch
    <3>1. /\ user' = CASE user = "waiting" -> "idle" [] OTHER -> user
          /\ request' = request
      BY <2>1, <2>3 DEF Watch
    <3>2. bus' = bus
      BY <2>1, <3>1 DEF Log
    <3>3. CASE user = "waiting"
      <4>1. user' = "idle"
        BY <3>1, <3>3
      <4> QED
        BY <1>3, <2>1, <3>1, <3>2, <3>3, <4>1, DoneRight DEF Transfer!Done, Transfer!TransferNext
    <3>4. CASE user # "waiting"
      BY <2>1, <3>1, <3>2, <3>4 DEF Transfer!abstractVars
    <3> QED
      BY <3>3, <3>4
  <2> QED
    BY <1>1, <2>2, <2>3 DEF User, Transfer!TransferNext
<1>4. CASE Reset = 0 /\ get_data = 1
  <2>1. user # "idle" /\ user' = "waiting" /\ request' = request /\ (bus' = bus \/ NextEvent)
    BY <1>4, ClockStep
  <2>2. CASE bus' = bus
    BY <2>1, <2>2 DEF Transfer!Progress, Transfer!TransferNext
  <2>3. CASE NextEvent
    <3>1. PICK e \in Events : /\ bus' = Append(bus, e)
                              /\ Len(bus) # Len(Transfer!Script(request))
                              /\ Transfer!Obeys(e, Step(Len(bus) + 1))
      BY <2>3 DEF NextEvent
    <3>2. /\ Len(bus') = Len(bus) + 1 /\ bus'[Len(bus')] = e
          /\ SubSeq(bus', 1, Len(bus)) = bus
      BY <1>1, <3>1, Appended
    <3>3. Transfer!Obeys(bus'[Len(bus')], Transfer!Script(request)[Len(bus')])
      BY <3>1, <3>2 DEF Step
    <3>4. ~Transfer!Complete
      BY <3>1 DEF Transfer!Complete
    <3> QED
      BY <2>1, <3>2, <3>3, <3>4 DEF Transfer!Progress, Transfer!TransferNext
  <2> QED
    BY <2>1, <2>2, <2>3
<1> QED
  BY <1>1, <1>2, <1>3, <1>4 DEF TypeInv, Types, ArrayTypes

LEMMA TransferStutter ==
  UNCHANGED vars => UNCHANGED Transfer!abstractVars
BY DEF vars, userVars, Array!arrayVars, Master!machine, Slave!slaveVars, Transfer!abstractVars

(* The stack does what I2CTransfer says, which is what the header of       *)
(* I2C_Array.vhdp (lines 33-38 and 60-68) promises: a request is one       *)
(* transfer on the bus, its events in the order of the script, seen by a   *)
(* slave that has nothing but the edges of the wires; when Busy falls,     *)
(* Data_RD has the bytes that the slave sent, and Ack_Error tells of a     *)
(* refusal.  Every clock divider and width of bytes, every request of two  *)
(* bytes or more, every slave, however long it stretches.                  *)
THEOREM Implementation ==
  ASSUME WithinLimits
  PROVE  Spec => ImplementsTransfer
<1>1. Init => StackInv /\ Transfer!TransferInit
  <2>1. Init => Transfer!TransferInit
    BY DEF Init, Slave!SlaveInit, Transfer!TransferInit
  <2> QED
    BY <2>1, StackInvInit
<1>2. StackInv /\ [Next]_vars => StackInv'
  BY StackInvNext, StackInvStays, ControlStep DEF StackInv
<1>3. StackInv /\ [Next]_vars => [Transfer!TransferNext]_(Transfer!abstractVars)
  BY TransferMapping, TransferStutter
<1> QED
  BY <1>1, <1>2, <1>3, PTL DEF Spec, ImplementsTransfer, Transfer!TransferSpec

=============================================================================
