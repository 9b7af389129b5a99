----------------------------- MODULE I2CMaster -----------------------------
(***************************************************************************)
(* I2C_Master_Interface (Libraries/Interface/I2C/I2C.vhdp): the bit-level  *)
(* I2C master, register by register.  One step of the component is one     *)
(* rising edge of the FPGA clock: the timing process and the state machine *)
(* process both read the registers of the previous edge and write new      *)
(* ones.  A std_logic wire is 0 (pulled low) or 1 (released, pulled up).   *)
(*                                                                         *)
(* A byte is a function on the bit numbers 0..Width-1 (8 bits in the code) *)
(* and the byte Address & RW of the code is the one byte Command, whose    *)
(* bit 0 is RW.  The component drives nothing but its own registers: the   *)
(* ports Enable, Command and Data_WR belong to the module that instantiates*)
(* this one, and so do the levels of the two wires.                        *)
(***************************************************************************)
EXTENDS Integers

CONSTANTS Divider,   \* clocks in a quarter of an SCL period
          Width      \* bits of a byte

ASSUME MasterAssumption == Divider \in Nat \ {0} /\ Width \in Nat \ {0}

VARIABLES Enable, Command, Data_WR,                        \* input ports
          count, stretch, data_clk, data_clk_prev, scl_clk, \* timing generator
          state, Busy, scl_ena, sda_int, addr_rw, data_tx,  \* state machine
          data_rx, bit_cnt, Data_RD, Ack_Error

inputs  == <<Enable, Command, Data_WR>>
timing  == <<count, stretch, data_clk, data_clk_prev, scl_clk>>
machine == <<state, Busy, scl_ena, sda_int, addr_rw, data_tx, data_rx,
             bit_cnt, Data_RD, Ack_Error>>

Bit    == {0, 1}
Top    == Width - 1
BitNo  == 0 .. Top
Byte   == [BitNo -> Bit]
States == {"ready", "start", "command", "slv_ack1", "wr", "rd",
           "slv_ack2", "mstr_ack", "stop"}

----------------------------------------------------------------------------
(* The wires the component drives.                                         *)

SclOut == IF scl_ena = 1 /\ scl_clk = 0 THEN 0 ELSE 1

(* A slip: the stop condition is generated the wrong way round.            *)
SdaOutStopInverted ==
  IF state \in {"start", "stop"} THEN data_clk_prev ELSE sda_int

SdaOut == CASE state = "start" -> data_clk_prev
            [] state = "stop"  -> 1 - data_clk_prev
            [] OTHER           -> sda_int

----------------------------------------------------------------------------
(* data_clk, data_clk_prev and scl_clk have no initial value in the code,  *)
(* and neither do the latches addr_rw, data_tx and data_rx.                *)
MasterInit ==
  /\ count = 0 /\ stretch = 0
  /\ data_clk \in Bit /\ data_clk_prev \in Bit /\ scl_clk \in Bit
  /\ state = "ready" /\ Busy = 0 /\ scl_ena = 0 /\ sda_int = 1
  /\ addr_rw \in Byte /\ data_tx \in Byte /\ data_rx \in Byte
  /\ bit_cnt = Top /\ Data_RD = [i \in BitNo |-> 0] /\ Ack_Error = 0

(* I2C_Timing_Generator: four quarters per SCL period, held in the third   *)
(* while a slave stretches the clock.                                      *)
Quarter3(c) == c \in 2 * Divider .. 3 * Divider - 1

(* Slips: the counter wraps one clock late, or stretching never ends.      *)
NextCountLate == IF count = 4 * Divider THEN 0
                 ELSE IF stretch = 0 THEN count + 1 ELSE count
StretchedForEver(c, scl) == IF Quarter3(c) /\ scl = 0 THEN 1 ELSE stretch

NextCount == CASE count = 4 * Divider - 1                -> 0
               [] count # 4 * Divider - 1 /\ stretch = 0 -> count + 1
               [] OTHER                                  -> count

Stretched(c, scl) == IF Quarter3(c) THEN 1 - scl ELSE stretch

Timing(scl) ==
  /\ count' = NextCount
  /\ data_clk_prev' = data_clk
  /\ scl_clk' = IF NextCount >= 2 * Divider THEN 1 ELSE 0
  /\ data_clk' = IF NextCount \in Divider .. 3 * Divider - 1 THEN 1 ELSE 0
  /\ stretch' = Stretched(NextCount, scl)

Rising  == data_clk = 1 /\ data_clk_prev = 0
Falling == data_clk = 0 /\ data_clk_prev = 1

----------------------------------------------------------------------------
(* The state machine on a rising edge of data_clk, SCL low: SDA moves.     *)

Ready ==
  /\ Rising /\ state = "ready"
  /\ \/ /\ Enable = 1
        /\ Busy' = 1 /\ addr_rw' = Command /\ data_tx' = Data_WR
        /\ state' = "start"
     \/ /\ Enable # 1
        /\ Busy' = 0
        /\ UNCHANGED <<state, addr_rw, data_tx>>
  /\ UNCHANGED <<scl_ena, sda_int, data_rx, bit_cnt, Data_RD, Ack_Error>>

Start ==
  /\ Rising /\ state = "start"
  /\ Busy' = 1 /\ sda_int' = addr_rw[bit_cnt] /\ state' = "command"
  /\ UNCHANGED <<scl_ena, addr_rw, data_tx, data_rx, bit_cnt, Data_RD, Ack_Error>>

(* A slip: the bit counter is not reloaded after a byte.                   *)
ShiftOutNoReload(b, ack) ==
  IF bit_cnt = 0
  THEN sda_int' = 1 /\ bit_cnt' = 0 /\ state' = ack
  ELSE sda_int' = b[bit_cnt - 1] /\ bit_cnt' = bit_cnt - 1 /\ state' = state

(* The next bit of byte b, or after bit 0 a released SDA for the slave's   *)
(* acknowledge in state ack.                                               *)
ShiftOut(b, ack) ==
  IF bit_cnt = 0
  THEN sda_int' = 1 /\ bit_cnt' = Top /\ state' = ack
  ELSE sda_int' = b[bit_cnt - 1] /\ bit_cnt' = bit_cnt - 1 /\ state' = state

SendCommand ==
  /\ Rising /\ state = "command"
  /\ ShiftOut(addr_rw, "slv_ack1")
  /\ UNCHANGED <<Busy, scl_ena, addr_rw, data_tx, data_rx, Data_RD, Ack_Error>>

SlvAck1 ==
  /\ Rising /\ state = "slv_ack1"
  /\ \/ addr_rw[0] = 0 /\ sda_int' = data_tx[bit_cnt] /\ state' = "wr"
     \/ addr_rw[0] # 0 /\ sda_int' = 1 /\ state' = "rd"
  /\ UNCHANGED <<Busy, scl_ena, addr_rw, data_tx, data_rx, bit_cnt, Data_RD,
                 Ack_Error>>

Wr ==
  /\ Rising /\ state = "wr"
  /\ Busy' = 1 /\ ShiftOut(data_tx, "slv_ack2")
  /\ UNCHANGED <<scl_ena, addr_rw, data_tx, data_rx, Data_RD, Ack_Error>>

(* The byte is acknowledged when the same command is asked for again.      *)
Continuing == Enable = 1 /\ addr_rw = Command

Rd ==
  /\ Rising /\ state = "rd"
  /\ Busy' = 1
  /\ \/ /\ bit_cnt = 0
        /\ sda_int' = IF Continuing THEN 0 ELSE 1
        /\ bit_cnt' = Top /\ Data_RD' = data_rx /\ state' = "mstr_ack"
     \/ /\ bit_cnt # 0
        /\ bit_cnt' = bit_cnt - 1
        /\ UNCHANGED <<sda_int, Data_RD, state>>
  /\ UNCHANGED <<scl_ena, addr_rw, data_tx, data_rx, Ack_Error>>

(* After a byte: another of the same kind (sda gives SDA its first level), *)
(* a repeated start with a new command, or a stop.                         *)
NextByte(sda, again) ==
  /\ \/ /\ Enable = 1
        /\ Busy' = 0 /\ addr_rw' = Command /\ data_tx' = Data_WR
        /\ \/ addr_rw = Command /\ sda_int' = sda /\ state' = again
           \/ addr_rw # Command /\ sda_int' = sda_int /\ state' = "start"
     \/ /\ Enable # 1
        /\ state' = "stop"
        /\ UNCHANGED <<Busy, addr_rw, data_tx, sda_int>>
  /\ UNCHANGED <<scl_ena, data_rx, bit_cnt, Data_RD, Ack_Error>>

SlvAck2 == Rising /\ state = "slv_ack2" /\ NextByte(Data_WR[bit_cnt], "wr")

MstrAck == Rising /\ state = "mstr_ack" /\ NextByte(1, "rd")

Stop ==
  /\ Rising /\ state = "stop"
  /\ Busy' = 0 /\ state' = "ready"
  /\ UNCHANGED <<scl_ena, sda_int, addr_rw, data_tx, data_rx, bit_cnt, Data_RD,
                 Ack_Error>>

----------------------------------------------------------------------------
(* The state machine on a falling edge of data_clk, SCL high: SDA is read, *)
(* and SCL is switched on after a start and off after a stop.              *)

StartFall ==
  /\ Falling /\ state = "start"
  /\ scl_ena' = 1
  /\ Ack_Error' = IF scl_ena = 0 THEN 0 ELSE Ack_Error
  /\ UNCHANGED <<state, Busy, sda_int, addr_rw, data_tx, data_rx, bit_cnt, Data_RD>>

AckFall(sda) ==
  /\ Falling /\ state \in {"slv_ack1", "slv_ack2"}
  /\ Ack_Error' = IF sda # 0 THEN 1 ELSE Ack_Error
  /\ UNCHANGED <<state, Busy, scl_ena, sda_int, addr_rw, data_tx, data_rx,
                 bit_cnt, Data_RD>>

RdFall(sda) ==
  /\ Falling /\ state = "rd"
  /\ data_rx' = [data_rx EXCEPT ![bit_cnt] = sda]
  /\ UNCHANGED <<state, Busy, scl_ena, sda_int, addr_rw, data_tx, bit_cnt,
                 Data_RD, Ack_Error>>

StopFall ==
  /\ Falling /\ state = "stop"
  /\ scl_ena' = 0
  /\ UNCHANGED <<state, Busy, sda_int, addr_rw, data_tx, data_rx, bit_cnt,
                 Data_RD, Ack_Error>>

Hold ==
  /\ ~Rising
  /\ Falling => state \in {"ready", "command", "wr", "mstr_ack"}
  /\ UNCHANGED machine

----------------------------------------------------------------------------
Machine(sda) ==
  \/ Ready \/ Start \/ SendCommand \/ SlvAck1 \/ Wr \/ Rd
  \/ SlvAck2 \/ MstrAck \/ Stop
  \/ StartFall \/ AckFall(sda) \/ RdFall(sda) \/ StopFall
  \/ Hold

(* A slip: the reset does not release SDA.                                 *)
MasterResetKeepsSda ==
  /\ stretch' = 0 /\ count' = 0
  /\ state' = "ready" /\ Busy' = 1 /\ scl_ena' = 0 /\ sda_int' = sda_int
  /\ Ack_Error' = 0 /\ bit_cnt' = Top /\ Data_RD' = [i \in BitNo |-> 0]
  /\ UNCHANGED <<data_clk, data_clk_prev, scl_clk, addr_rw, data_tx, data_rx>>

(* Reset leaves the clock registers and the latches as they are.           *)
MasterReset ==
  /\ stretch' = 0 /\ count' = 0
  /\ state' = "ready" /\ Busy' = 1 /\ scl_ena' = 0 /\ sda_int' = 1
  /\ Ack_Error' = 0 /\ bit_cnt' = Top /\ Data_RD' = [i \in BitNo |-> 0]
  /\ UNCHANGED <<data_clk, data_clk_prev, scl_clk, addr_rw, data_tx, data_rx>>

(* One clock edge with the given levels of Reset, SDA and SCL.             *)
MasterClock(reset, sda, scl) ==
  \/ reset = 1 /\ MasterReset
  \/ reset = 0 /\ Timing(scl) /\ Machine(sda)

============================================================================
