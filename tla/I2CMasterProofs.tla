-------------------------- MODULE I2CMasterProofs --------------------------
(***************************************************************************)
(* Proofs about the I2C master with any user and any bus (I2CMasterBus),   *)
(* for every quarter period of at least two clocks and every byte width of *)
(* at least two bits.                                                      *)
(***************************************************************************)
EXTENDS I2CMasterBus, TLAPS

USE DEF BitNo, Top

(* One clock of the master, with the levels it sees.                       *)
Clock(reset, sda, scl) ==
  /\ sda <= SdaOut /\ scl <= SclOut
  /\ MasterClock(reset, sda, scl)
  /\ User(reset)

LEMMA ByteBit == \A b \in Byte, i \in BitNo : b[i] \in Bit
  BY DEF Byte

LEMMA TypeInit == Init => TypeOK
  BY MasterAssumption, BusAssumption DEF Init, MasterInit, TypeOK, Byte, Bit, States

LEMMA TypeTiming ==
  ASSUME TypeOK, NEW scl \in Bit, Timing(scl)
  PROVE  /\ count' \in 0 .. 4 * Divider - 1 /\ stretch' \in Bit
         /\ data_clk' \in Bit /\ data_clk_prev' \in Bit /\ scl_clk' \in Bit
  BY MasterAssumption DEF Timing, NextCount, Quarter3, Stretched, TypeOK, Bit

LEMMA TypeMachine ==
  ASSUME TypeOK, NEW sda \in Bit, Machine(sda)
  PROVE  /\ state' \in States /\ Busy' \in Bit /\ scl_ena' \in Bit /\ sda_int' \in Bit
         /\ addr_rw' \in Byte /\ data_tx' \in Byte /\ data_rx' \in Byte
         /\ bit_cnt' \in BitNo /\ Data_RD' \in Byte /\ Ack_Error' \in Bit
<1> USE MasterAssumption DEF TypeOK, States, Bit
<1>1. CASE Ready  BY <1>1 DEF Ready
<1>2. CASE Start  BY <1>2, ByteBit DEF Start
<1>3. CASE SendCommand  BY <1>3, ByteBit DEF SendCommand, ShiftOut
<1>4. CASE SlvAck1  BY <1>4, ByteBit DEF SlvAck1
<1>5. CASE Wr  BY <1>5, ByteBit DEF Wr, ShiftOut
<1>6. CASE Rd  BY <1>6 DEF Rd
<1>7. CASE SlvAck2  BY <1>7, ByteBit DEF SlvAck2, NextByte
<1>8. CASE MstrAck  BY <1>8 DEF MstrAck, NextByte
<1>9. CASE Stop  BY <1>9 DEF Stop
<1>10. CASE StartFall  BY <1>10 DEF StartFall
<1>11. CASE AckFall(sda)  BY <1>11 DEF AckFall
<1>12. CASE RdFall(sda)  BY <1>12 DEF RdFall, Byte
<1>13. CASE StopFall  BY <1>13 DEF StopFall
<1>14. CASE Hold  BY <1>14 DEF Hold, machine
<1> QED BY <1>1, <1>2, <1>3, <1>4, <1>5, <1>6, <1>7, <1>8, <1>9, <1>10, <1>11,
           <1>12, <1>13, <1>14 DEF Machine

LEMMA TypeStep == TypeOK /\ [Next]_vars => TypeOK'
<1> SUFFICES ASSUME TypeOK, [Next]_vars PROVE TypeOK'
  OBVIOUS
<1>1. CASE UNCHANGED vars
  BY <1>1 DEF TypeOK, vars, inputs, timing, machine
<1>2. ASSUME NEW reset \in Bit, NEW sda \in Bit, NEW scl \in Bit,
             Clock(reset, sda, scl)
      PROVE  TypeOK'
  <2>1. Enable' \in Bit /\ Command' \in Byte /\ Data_WR' \in Byte
    BY <1>2, BusAssumption DEF Clock, User, Bit
  <2>2. CASE reset = 1 /\ MasterReset
    BY <2>1, <2>2, MasterAssumption DEF MasterReset, TypeOK, Byte, Bit, States
  <2>3. CASE reset = 0 /\ Timing(scl) /\ Machine(sda)
    BY <2>1, <2>3, TypeTiming, TypeMachine DEF TypeOK
  <2> QED BY <1>2, <2>2, <2>3 DEF Clock, MasterClock
<1> QED BY <1>1, <1>2 DEF Next, Clock

(* The registers of the master have the types of their declarations.       *)
THEOREM TypeCorrect == Spec => []TypeOK
<1>1. Init => TypeOK  BY TypeInit
<1>2. TypeOK /\ [Next]_vars => TypeOK'  BY TypeStep
<1> QED BY <1>1, <1>2, PTL DEF Spec

----------------------------------------------------------------------------
(* The clock registers keep step with count, and stretching happens only   *)
(* in the third quarter.                                                   *)
LEMMA CountInQuarters ==
  ASSUME TypeOK, StretchInQuarter3, NEW scl \in Bit, Timing(scl)
  PROVE  /\ scl_clk' = High(count') /\ data_clk' = DataHigh(count')
         /\ StretchInQuarter3'
         /\ \/ count' = count + 1 /\ count < 4 * Divider - 1
            \/ count' = 0 /\ count = 4 * Divider - 1
            \/ count' = count /\ count \in 2 * Divider .. 3 * Divider - 1
  BY MasterAssumption, BusAssumption
  DEF Timing, NextCount, Quarter3, Stretched, TypeOK, StretchInQuarter3, High, DataHigh, Bit

LEMMA ClockStep ==
  ASSUME IInv, NEW reset \in Bit, NEW sda \in Bit, NEW scl \in Bit,
         Clock(reset, sda, scl)
  PROVE  ClockInStep' /\ StretchInQuarter3'
<1>1. CASE reset = 1 /\ MasterReset
  BY <1>1 DEF MasterReset, ClockInStep, StretchInQuarter3, Clock, User
<1>2. CASE reset = 0 /\ Timing(scl) /\ Machine(sda)
  <2>1. /\ scl_clk' = High(count') /\ data_clk' = DataHigh(count')
        /\ StretchInQuarter3' /\ data_clk_prev' = data_clk
        /\ \/ count' = count + 1 /\ count < 4 * Divider - 1
           \/ count' = 0 /\ count = 4 * Divider - 1
           \/ count' = count /\ count \in 2 * Divider .. 3 * Divider - 1
    BY <1>2, CountInQuarters DEF IInv, Timing
  <2>2. CASE count = 0 /\ stretch = 0 /\ state = "ready" /\ Enable = 0
    <3>1. state' = "ready"
      BY <1>2, <2>2 DEF Machine, Ready, Start, SendCommand, SlvAck1, Wr, Rd, SlvAck2,
         MstrAck, Stop, StartFall, AckFall, RdFall, StopFall, Hold, machine
    <3>2. count' = 1
      BY <2>1, <2>2, BusAssumption, MasterAssumption
    <3> QED BY <2>1, <3>1, <3>2 DEF ClockInStep
  <2>3. CASE scl_clk = High(count) /\ data_clk = DataHigh(count)
    <3>1. DataPrev(count') = DataHigh(count)
      BY <2>1, MasterAssumption, BusAssumption DEF DataPrev, DataHigh, IInv, TypeOK
    <3> QED BY <2>1, <2>3, <3>1 DEF ClockInStep
  <2> QED BY <2>1, <2>2, <2>3 DEF IInv, ClockInStep
<1> QED BY <1>1, <1>2 DEF Clock, MasterClock

(* When the state machine sees an edge of data_clk, the clock is in the    *)
(* quarter the edge belongs to.                                            *)
LEMMA EdgeCount ==
  ASSUME IInv
  PROVE  /\ Rising /\ (state # "ready" \/ Enable = 1) => count = Divider
         /\ Falling /\ state # "ready" => count = 3 * Divider
         /\ count = 3 * Divider /\ state # "ready" => Falling
         /\ count = Divider /\ state # "ready" => Rising
  BY MasterAssumption, BusAssumption
  DEF IInv, TypeOK, ClockInStep, High, DataHigh, DataPrev, Rising, Falling

(* One step of count, where the state machine needs it.                    *)
LEMMA CountStep ==
  ASSUME IInv, NEW scl \in Bit, Timing(scl)
  PROVE  /\ count = Divider => count' = Divider + 1
         /\ count = 3 * Divider => count' = 3 * Divider + 1
         /\ count \notin {Divider, 3 * Divider}
              => (count' \in Divider + 1 .. 3 * Divider
                    <=> count \in Divider + 1 .. 3 * Divider)
<1>1. \/ count' = count + 1 /\ count < 4 * Divider - 1
      \/ count' = 0 /\ count = 4 * Divider - 1
      \/ count' = count /\ count \in 2 * Divider .. 3 * Divider - 1
  BY CountInQuarters DEF IInv
<1> QED BY <1>1, MasterAssumption, BusAssumption DEF IInv, TypeOK

(* SCL is driven from the first start condition to the stop condition.     *)
LEMMA SclStep ==
  ASSUME IInv, NEW reset \in Bit, NEW sda \in Bit, NEW scl \in Bit,
         Clock(reset, sda, scl)
  PROVE  SclWhileBusy'
<1>1. CASE reset = 1 /\ MasterReset
  BY <1>1 DEF MasterReset, SclWhileBusy
<1>2. CASE reset = 0 /\ Timing(scl) /\ Machine(sda)
  <2>1. /\ count = Divider => count' = Divider + 1
        /\ count = 3 * Divider => count' = 3 * Divider + 1
        /\ count \notin {Divider, 3 * Divider}
             => (count' \in Divider + 1 .. 3 * Divider
                   <=> count \in Divider + 1 .. 3 * Divider)
    BY <1>2, CountStep
  <2>2. /\ SclWhileBusy /\ count \in Nat /\ Divider \in Nat /\ Divider >= 2
        /\ scl_ena \in Bit
    BY MasterAssumption, BusAssumption DEF IInv, TypeOK
  <2> USE <2>1, <2>2, EdgeCount DEF SclWhileBusy, Bit
  <2>3. CASE Ready  BY <2>3 DEF Ready
  <2>4. CASE Start  BY <2>4 DEF Start
  <2>5. CASE SendCommand  BY <2>5 DEF SendCommand, ShiftOut
  <2>6. CASE SlvAck1  BY <2>6 DEF SlvAck1
  <2>7. CASE Wr  BY <2>7 DEF Wr, ShiftOut
  <2>8. CASE Rd  BY <2>8 DEF Rd
  <2>9. CASE SlvAck2  BY <2>9 DEF SlvAck2, NextByte
  <2>10. CASE MstrAck  BY <2>10 DEF MstrAck, NextByte
  <2>11. CASE Stop  BY <2>11 DEF Stop
  <2>12. CASE StartFall  BY <2>12 DEF StartFall
  <2>13. CASE AckFall(sda)  BY <2>13 DEF AckFall
  <2>14. CASE RdFall(sda)  BY <2>14 DEF RdFall
  <2>15. CASE StopFall  BY <2>15 DEF StopFall
  <2>16. CASE Hold  BY <2>16 DEF Hold, machine
  <2> QED BY <1>2, <2>3, <2>4, <2>5, <2>6, <2>7, <2>8, <2>9, <2>10, <2>11, <2>12,
             <2>13, <2>14, <2>15, <2>16 DEF Machine
<1> QED BY <1>1, <1>2 DEF Clock, MasterClock

(* SDA is released and the bit counter is full between bytes, and a byte   *)
(* that is read is acknowledged exactly when the read goes on.             *)
LEMMA ByteStep ==
  ASSUME IInv, NEW reset \in Bit, NEW sda \in Bit, NEW scl \in Bit,
         Clock(reset, sda, scl)
  PROVE  SdaReleased' /\ BitCount' /\ AckAsAsked'
<1>1. CASE reset = 1 /\ MasterReset
  BY <1>1 DEF MasterReset, SdaReleased, BitCount, AckAsAsked
<1>2. CASE reset = 0 /\ Timing(scl) /\ Machine(sda)
  <2>1. SdaReleased /\ BitCount /\ AckAsAsked
    BY DEF IInv
  <2>2. Reading => UNCHANGED <<Enable, Command>>
    BY <1>2 DEF Clock, User
  <2>3. Width \in Nat /\ Width >= 2
    BY MasterAssumption, BusAssumption
  <2> USE <2>1, <2>3 DEF SdaReleased, BitCount, AckAsAsked
  <2>4. CASE Ready  BY <2>4 DEF Ready
  <2>5. CASE Start  BY <2>5 DEF Start
  <2>6. CASE SendCommand  BY <2>6 DEF SendCommand, ShiftOut
  <2>7. CASE SlvAck1  BY <2>7 DEF SlvAck1
  <2>8. CASE Wr  BY <2>8 DEF Wr, ShiftOut
  <2>9. CASE Rd
    BY <2>9, <2>2 DEF Rd, Reading, Continuing
  <2>10. CASE SlvAck2  BY <2>10 DEF SlvAck2, NextByte
  <2>11. CASE MstrAck  BY <2>11 DEF MstrAck, NextByte, Continuing
  <2>12. CASE Stop  BY <2>12 DEF Stop
  <2>13. CASE StartFall  BY <2>13 DEF StartFall
  <2>14. CASE AckFall(sda)  BY <2>14 DEF AckFall
  <2>15. CASE RdFall(sda)  BY <2>15 DEF RdFall
  <2>16. CASE StopFall  BY <2>16 DEF StopFall
  <2>17. CASE Hold  BY <2>17, <2>2 DEF Hold, machine, Reading, Continuing
  <2> QED BY <1>2, <2>4, <2>5, <2>6, <2>7, <2>8, <2>9, <2>10, <2>11, <2>12,
             <2>13, <2>14, <2>15, <2>16, <2>17 DEF Machine
<1> QED BY <1>1, <1>2 DEF Clock, MasterClock

LEMMA IInvInit == Init => IInv
<1> SUFFICES ASSUME Init PROVE IInv
  OBVIOUS
<1>1. TypeOK  BY TypeInit
<1>2. ClockInStep  BY DEF Init, MasterInit, ClockInStep
<1>3. StretchInQuarter3 /\ SclWhileBusy /\ SdaReleased /\ BitCount /\ AckAsAsked
  BY DEF Init, MasterInit, StretchInQuarter3, SclWhileBusy, SdaReleased, BitCount,
         AckAsAsked
<1> QED BY <1>1, <1>2, <1>3 DEF IInv

LEMMA IInvStep == IInv /\ [Next]_vars => IInv'
<1> SUFFICES ASSUME IInv, [Next]_vars PROVE IInv'
  OBVIOUS
<1>1. CASE UNCHANGED vars
  BY <1>1 DEF IInv, TypeOK, ClockInStep, StretchInQuarter3, SclWhileBusy, SdaReleased,
     BitCount, AckAsAsked, High, DataHigh, DataPrev, Continuing, vars, inputs, timing,
     machine
<1>2. ASSUME NEW reset \in Bit, NEW sda \in Bit, NEW scl \in Bit,
             Clock(reset, sda, scl)
      PROVE  IInv'
  <2>1. TypeOK'
    BY <1>2, TypeStep DEF IInv, Clock, Next
  <2> QED BY <1>2, <2>1, ClockStep, SclStep, ByteStep DEF IInv
<1> QED BY <1>1, <1>2 DEF Next, Clock

(* The inductive invariant holds in every reachable state.                 *)
THEOREM Invariance == Spec => []IInv
<1>1. Init => IInv  BY IInvInit
<1>2. IInv /\ [Next]_vars => IInv'  BY IInvStep
<1> QED BY <1>1, <1>2, PTL DEF Spec

(* Between transfers the master pulls neither SDA nor SCL low.             *)
THEOREM IdleBus == Spec => []IdleBusReleased
<1>1. IInv => IdleBusReleased
  BY DEF IInv, SclWhileBusy, SdaReleased, IdleBusReleased, SdaOut, SclOut
<1> QED BY <1>1, Invariance, PTL

----------------------------------------------------------------------------
(* The levels of SDA by state, and SCL in the two quarters around an edge  *)
(* of data_clk.                                                            *)
LEMMA SdaLevels ==
  /\ state = "start" => SdaOut = data_clk_prev
  /\ state = "stop" => SdaOut = 1 - data_clk_prev
  /\ state \notin {"start", "stop"} => SdaOut = sda_int
  BY DEF SdaOut

LEMMA SdaLevelsNext ==
  /\ state' = "start" => SdaOut' = data_clk_prev'
  /\ state' = "stop" => SdaOut' = 1 - data_clk_prev'
  /\ state' \notin {"start", "stop"} => SdaOut' = sda_int'
  BY DEF SdaOut

LEMMA SclAroundEdges ==
  ASSUME IInv, NEW scl \in Bit, Timing(scl), state # "ready"
  PROVE  /\ count = Divider => scl_clk = 0 /\ scl_clk' = 0
         /\ count = 3 * Divider => scl_clk = 1 /\ scl_clk' = 1
         /\ data_clk_prev = DataPrev(count) /\ data_clk_prev' = data_clk
         /\ data_clk = DataHigh(count)
<1>1. /\ count = Divider => count' = Divider + 1
      /\ count = 3 * Divider => count' = 3 * Divider + 1
  BY CountStep
<1>2. scl_clk' = High(count')
  BY CountInQuarters DEF IInv
<1>3. scl_clk = High(count) /\ data_clk_prev = DataPrev(count) /\ data_clk = DataHigh(count)
  BY DEF IInv, ClockInStep
<1> QED BY <1>1, <1>2, <1>3, MasterAssumption, BusAssumption DEF High, Timing

LEMMA DisciplineStep ==
  ASSUME IInv, NEW reset \in Bit, NEW sda \in Bit, NEW scl \in Bit,
         Clock(reset, sda, scl), SdaOut' # SdaOut
  PROVE  \/ SclOut = 0 /\ SclOut' = 0
         \/ SclOut = 1 /\ SclOut' = 1 /\ (StartCondition \/ StopCondition)
         \/ MasterReset
<1>1. CASE reset = 1 /\ MasterReset
  BY <1>1
<1>2. CASE reset = 0 /\ Timing(scl) /\ Machine(sda)
  <2>1. SclWhileBusy /\ SdaReleased /\ AckAsAsked /\ TypeOK
    BY DEF IInv
  <2>2. state # "ready" =>
          /\ Rising => scl_clk = 0 /\ scl_clk' = 0 /\ (state = "stop" \/ scl_ena = 1)
          /\ Falling => scl_clk = 1 /\ scl_clk' = 1
    BY <1>2, <2>1, EdgeCount, SclAroundEdges, MasterAssumption, BusAssumption
    DEF SclWhileBusy, TypeOK, Bit
  <2>3. data_clk_prev' = data_clk
    BY <1>2 DEF Timing
  <2>4. ASSUME Rising, state \notin {"ready", "stop"}, scl_ena' = scl_ena
        PROVE  SclOut = 0 /\ SclOut' = 0
    BY <2>2, <2>4 DEF SclOut
  <2>5. CASE Ready
    BY <2>5, <2>1, <2>3, SdaLevels, SdaLevelsNext DEF Ready, SdaReleased, Rising
  <2>6. CASE Start  BY <2>6, <2>4 DEF Start
  <2>7. CASE SendCommand  BY <2>7, <2>4 DEF SendCommand
  <2>8. CASE SlvAck1  BY <2>8, <2>4 DEF SlvAck1
  <2>9. CASE Wr  BY <2>9, <2>4 DEF Wr
  <2>10. CASE Rd  BY <2>10, <2>4 DEF Rd
  <2>11. CASE SlvAck2  BY <2>11, <2>4 DEF SlvAck2, NextByte
  <2>12. CASE MstrAck  BY <2>12, <2>4 DEF MstrAck, NextByte
  <2>13. CASE Stop
    BY <2>13, <2>1, <2>3, SdaLevels, SdaLevelsNext DEF Stop, SdaReleased, Rising
  <2>14. CASE StartFall
    <3>1. SclOut' = 1 /\ SclOut = 1
      BY <2>14, <2>2 DEF StartFall, SclOut
    <3> QED BY <3>1, <2>14, <2>3, SdaLevels, SdaLevelsNext
            DEF StartFall, StartCondition, Falling
  <2>15. CASE AckFall(sda)
    BY <2>15, SdaLevels, SdaLevelsNext DEF AckFall
  <2>16. CASE RdFall(sda)
    BY <2>16, SdaLevels, SdaLevelsNext DEF RdFall
  <2>17. CASE StopFall
    <3>1. SclOut' = 1 /\ SclOut = 1
      BY <2>17, <2>2 DEF StopFall, SclOut
    <3> QED BY <3>1, <2>17, <2>3, SdaLevels, SdaLevelsNext
            DEF StopFall, StopCondition, Falling
  <2>18. CASE Hold
    <3>1. state \in {"start", "stop"} => data_clk_prev = data_clk
      BY <2>18, <2>1 DEF Hold, Rising, Falling, TypeOK, Bit
    <3> QED BY <3>1, <2>18, <2>3, SdaLevels, SdaLevelsNext DEF Hold, machine
  <2> QED BY <1>2, <2>5, <2>6, <2>7, <2>8, <2>9, <2>10, <2>11, <2>12, <2>13, <2>14,
             <2>15, <2>16, <2>17, <2>18 DEF Machine
<1> QED BY <1>1, <1>2 DEF Clock, MasterClock

(* SDA moves only while SCL is low, but for start and stop conditions, in  *)
(* every transfer of every user that keeps the contract.                   *)
THEOREM Discipline == Spec => SdaDiscipline
<1>1. IInv /\ [Next]_vars =>
        [SdaOut' # SdaOut =>
           \/ SclOut = 0 /\ SclOut' = 0
           \/ SclOut = 1 /\ SclOut' = 1 /\ (StartCondition \/ StopCondition)
           \/ MasterReset]_vars
  BY DisciplineStep DEF Next, Clock
<1> QED BY <1>1, Invariance, PTL DEF Spec, SdaDiscipline

============================================================================
