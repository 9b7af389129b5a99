------------------------------ MODULE I2CStack ------------------------------
(***************************************************************************)
(* I2C_Array on top of I2C_Master_Interface (the NewComponent of           *)
(* I2C_Array.vhdp, lines 92-107), a user above and a slave below, all on   *)
(* one clock.  The wires are the pull-downs of both sides.                 *)
(*                                                                         *)
(* The user is modelled after the header of I2C_Array and its example: it  *)
(* sets the ports and raises Enable, keeps the ports still until it has    *)
(* seen Busy come and go, and lowers Enable at any time in between.  It    *)
(* starts with a reset when ResetFirst, and asks for nothing in the first  *)
(* Settle clocks.                                                          *)
(***************************************************************************)
EXTENDS Integers, Sequences

CONSTANTS Divider, Width, Max_Bytes,   \* generics of the code
          Requests,                    \* what the user may ask for
          PowerUp,                     \* levels of registers without a value
          ResetFirst, Settle,          \* how the user starts
          Answers, Holds               \* what the slave may do

ASSUME StackAssumption ==
  /\ Divider \in Nat \ {0} /\ Width \in Nat \ {0} /\ Max_Bytes \in Nat \ {0}
  /\ PowerUp \subseteq {0, 1} /\ ResetFirst \in BOOLEAN /\ Settle \in Nat
  /\ Answers \subseteq {0, 1} /\ Holds \subseteq Nat
  /\ \A r \in Requests :
       /\ r \in [addr : [0 .. Width - 2 -> {0, 1}], writes : Seq([0 .. Width - 1 -> {0, 1}]),
                reads : 0 .. Max_Bytes]
       /\ Len(r.writes) <= Max_Bytes

VARIABLES
  Reset, user, request, settle,                            \* the user
  Enable, Address, WR_Bytes, Data_WR, RD_Bytes,            \* ports of I2C_Array
  ena_prev, get_data, Busy, busy_prev, busy_cnt, Data_RD,  \* I2C_Array
  i2c_ena, i2c_addr, i2c_rw, i2c_data_wr, i2c_busy, i2c_data_rd,
  count, stretch, data_clk, data_clk_prev, scl_clk,        \* the master
  state, scl_ena, sda_int, addr_rw, data_tx, data_rx, bit_cnt, Ack_Error,
  old_sda, old_scl, mode, bits, slave_sda, hold, bus       \* the slave

userVars == <<Reset, user, request, settle>>
ports    == <<Enable, Address, WR_Bytes, Data_WR, RD_Bytes>>

Bytes     == [0 .. Width - 1 -> {0, 1}]
Addresses == [0 .. Width - 2 -> {0, 1}]

(* Address & RW.                                                           *)
CommandOf(a, rw) == [i \in 0 .. Width - 1 |-> IF i = 0 THEN rw ELSE a[i - 1]]

Array  == INSTANCE I2CArray
Master == INSTANCE I2CMaster
            WITH Enable <- i2c_ena, Command <- CommandOf(i2c_addr, i2c_rw),
                 Data_WR <- i2c_data_wr, Busy <- i2c_busy, Data_RD <- i2c_data_rd
Slave  == INSTANCE I2CSlave

vars == <<userVars, ports, Array!arrayVars, Master!timing, Master!machine,
          Slave!slaveVars>>

(* The wires: low when anybody pulls.                                      *)
SDA == IF Master!SdaOut = 0 \/ slave_sda = 0 THEN 0 ELSE 1
SCL == IF Master!SclOut = 0 \/ Slave!SlaveScl = 0 THEN 0 ELSE 1

----------------------------------------------------------------------------
NoData == [i \in 0 .. Max_Bytes - 1 |-> [j \in 0 .. Width - 1 |-> 0]]

Init ==
  /\ Reset = (IF ResetFirst THEN 1 ELSE 0)
  /\ user = "idle" /\ settle = Settle
  /\ Enable = 0 /\ WR_Bytes = 0 /\ RD_Bytes = 0 /\ Data_WR = NoData
  /\ Address = [i \in 0 .. Width - 2 |-> 0]
  /\ request = [addr |-> Address, writes |-> <<>>, reads |-> 0]
  /\ Array!ArrayInit(PowerUp) /\ Master!MasterInit /\ Slave!SlaveInit
  /\ Data_RD = NoData /\ i2c_addr = Address /\ i2c_data_wr = NoData[0]
  /\ addr_rw = NoData[0] /\ data_tx = NoData[0] /\ data_rx = NoData[0]

Ask(r) ==
  /\ user = "idle" /\ settle = 0 /\ Enable = 0 /\ Busy = 0
  /\ user' = "asked" /\ request' = r
  /\ Enable' = 1 /\ Address' = r.addr
  /\ WR_Bytes' = Len(r.writes) /\ RD_Bytes' = r.reads
  /\ Data_WR' = [i \in 0 .. Max_Bytes - 1 |->
                   IF i < Len(r.writes) THEN r.writes[i + 1] ELSE NoData[i]]
  /\ UNCHANGED settle

(* Busy is seen to come, then to go; Enable may be lowered meanwhile.      *)
Watch ==
  /\ user' = CASE user = "asked" /\ Busy = 1   -> "waiting"
               [] user = "waiting" /\ Busy = 0 -> "idle"
               [] OTHER                        -> user
  /\ settle' = IF settle > 0 THEN settle - 1 ELSE 0
  /\ \/ UNCHANGED Enable
     \/ Enable = 1 /\ Enable' = 0
  /\ UNCHANGED <<request, Address, WR_Bytes, Data_WR, RD_Bytes>>

User == /\ Reset' = 0
        /\ (\E r \in Requests : Ask(r)) \/ Watch

(* The log is that of the last request.                                    *)
Log == IF user = "idle" /\ user' = "asked" THEN <<>> ELSE bus

Next ==
  /\ User
  /\ Array!ArrayClock(Reset)
  /\ Master!MasterClock(Reset, SDA, SCL)
  /\ Slave!SlaveClock(SDA, SCL, Log)

Spec == Init /\ [][Next]_vars /\ WF_vars(Next)

----------------------------------------------------------------------------
(* The whole stack does what I2CTransfer says: one request, one transfer.  *)
Transfer == INSTANCE I2CTransfer WITH working <- user # "idle"

ImplementsTransfer == Transfer!TransferSpec

(* Every request is answered, with a slave that stops stretching.          *)
EveryRequestAnswered == Transfer!Answered

(* The controller keeps the contract the bit-level master needs (see       *)
(* I2CMasterBus): nothing it asks for changes while a byte is read.        *)
KeepsReadContract ==
  [][Reset = 0 /\ i2c_busy = 1 /\ state \in {"rd", "mstr_ack"}
       => UNCHANGED <<i2c_ena, i2c_addr, i2c_rw>>]_vars

(* I2C_Array.vhdp:35: WR_Bytes is "the number of bytes in Data_WR to       *)
(* transmit".  No request sends more bytes than that.                      *)
NoExtraBytes == Len(SelectSeq(bus, LAMBDA e : e.kind = "write")) <= WR_Bytes

(* The registers stay in the ranges of their declarations.                 *)
TypeOK ==
  /\ busy_cnt \in 0 .. 2 * Max_Bytes
  /\ Busy \in {0, 1} /\ i2c_busy \in {0, 1} /\ i2c_ena \in {0, 1}
  /\ Data_RD \in [0 .. Max_Bytes - 1 -> Bytes] /\ i2c_data_wr \in Bytes
  /\ user \in {"idle", "asked", "waiting"}
  /\ get_data = 1 \/ Busy = 0

============================================================================
