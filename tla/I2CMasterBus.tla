---------------------------- MODULE I2CMasterBus ----------------------------
(***************************************************************************)
(* The I2C master on its own, with any user that keeps the contract below  *)
(* and any levels on the two wires that respect its pull-downs: slaves may *)
(* acknowledge, refuse, send any bit, stretch the clock for ever or drive  *)
(* the bus at the wrong time, and Reset may come at any clock.             *)
(*                                                                         *)
(* The contract is what the code needs and its header does not say:        *)
(*  - Enable is low in the first clock after power-up or a reset, because  *)
(*    the clock registers are then not those of count = 0;                 *)
(*  - while Busy is 1 in a read byte, Enable and the command stay, because *)
(*    the acknowledge is decided one SCL period before the continuation.   *)
(***************************************************************************)
EXTENDS I2CMaster

CONSTANT UserBytes   \* the bytes the user puts on Command and Data_WR

(* With a quarter of one clock, or a byte of one bit, SDA would move       *)
(* together with SCL, or be acknowledged before Busy shows the byte.       *)
ASSUME BusAssumption == Divider >= 2 /\ Width >= 2 /\ UserBytes \subseteq Byte

vars == <<inputs, timing, machine>>

Init ==
  /\ MasterInit
  /\ Enable = 0 /\ Command \in UserBytes /\ Data_WR \in UserBytes

Reading == Busy = 1 /\ state \in {"rd", "mstr_ack"}

User(reset) ==
  /\ Enable' \in (IF reset = 1 THEN {0} ELSE Bit)
  /\ Command' \in UserBytes /\ Data_WR' \in UserBytes
  /\ Reading /\ reset = 0 => UNCHANGED <<Enable, Command>>

Next == \E reset, sda, scl \in Bit :
          /\ sda <= SdaOut /\ scl <= SclOut
          /\ MasterClock(reset, sda, scl)
          /\ User(reset)

Spec == Init /\ [][Next]_vars

----------------------------------------------------------------------------
TypeOK ==
  /\ Enable \in Bit /\ Command \in Byte /\ Data_WR \in Byte
  /\ count \in 0 .. 4 * Divider - 1 /\ stretch \in Bit
  /\ data_clk \in Bit /\ data_clk_prev \in Bit /\ scl_clk \in Bit
  /\ state \in States /\ Busy \in Bit /\ scl_ena \in Bit /\ sda_int \in Bit
  /\ addr_rw \in Byte /\ data_tx \in Byte /\ data_rx \in Byte
  /\ bit_cnt \in BitNo /\ Data_RD \in Byte /\ Ack_Error \in Bit

(* The bus rule of I2C, for the levels the master drives: SDA moves only   *)
(* while SCL is held low, but for a start condition (SDA falls while SCL   *)
(* is high, in state start) and a stop condition (SDA rises, in state      *)
(* stop).  A reset lets both wires go whenever it comes.                   *)
StartCondition == state = "start" /\ SdaOut = 1 /\ SdaOut' = 0
StopCondition  == state = "stop"  /\ SdaOut = 0 /\ SdaOut' = 1

SdaDiscipline ==
  [][SdaOut' # SdaOut =>
       \/ SclOut = 0 /\ SclOut' = 0
       \/ SclOut = 1 /\ SclOut' = 1 /\ (StartCondition \/ StopCondition)
       \/ MasterReset]_vars

(* An idle master leaves the bus alone: in state ready neither wire is     *)
(* pulled low, whatever the transfer before it was and however it ended.   *)
IdleBusReleased == state = "ready" => SdaOut = 1 /\ SclOut = 1

----------------------------------------------------------------------------
(* The inductive invariant behind them.                                    *)

High(c)     == IF c >= 2 * Divider THEN 1 ELSE 0
DataHigh(c) == IF c \in Divider .. 3 * Divider - 1 THEN 1 ELSE 0
DataPrev(c) == IF c \in Divider + 1 .. 3 * Divider THEN 1 ELSE 0

(* Power-up and reset leave clock registers that do not belong to count 0; *)
(* they are in step with count two clocks later, in state ready.           *)
ClockInStep ==
  \/ count = 0 /\ stretch = 0 /\ state = "ready" /\ Enable = 0
  \/ /\ scl_clk = High(count) /\ data_clk = DataHigh(count)
     /\ \/ data_clk_prev = DataPrev(count)
        \/ count = 1 /\ state = "ready"

StretchInQuarter3 == stretch = 1 => count \in 2 * Divider .. 3 * Divider - 1

SclWhileBusy ==
  /\ state \notin {"ready", "start", "stop"} => scl_ena = 1
  /\ state = "ready" => scl_ena = 0
  /\ state = "start" /\ scl_ena = 0 => count \in Divider + 1 .. 3 * Divider
  /\ state = "stop" => (scl_ena = 1 <=> count \in Divider + 1 .. 3 * Divider)

SdaReleased == state \in {"ready", "stop", "slv_ack1", "slv_ack2"} => sda_int = 1

BitCount == state \notin {"command", "wr", "rd"} => bit_cnt = Top

AckAsAsked ==
  /\ state = "rd" /\ bit_cnt # Top => Busy = 1
  /\ state = "mstr_ack" => Busy = 1 /\ sda_int = IF Continuing THEN 0 ELSE 1

IInv == /\ TypeOK
        /\ ClockInStep /\ StretchInQuarter3 /\ SclWhileBusy
        /\ SdaReleased /\ BitCount /\ AckAsAsked

============================================================================
