------------------------------ MODULE I2CArray ------------------------------
(***************************************************************************)
(* I2C_Array (Libraries/Interface/I2C/I2C_Array.vhdp): the process         *)
(* I2C_Controller, which sends WR_Bytes bytes of Data_WR and then reads    *)
(* RD_Bytes bytes into Data_RD through the bit-level master, whose Busy    *)
(* edges (i2c_busy) it counts to know how far the master is.  One step is  *)
(* one clock.  Bytes and addresses are opaque here.                        *)
(***************************************************************************)
EXTENDS Integers

CONSTANTS Max_Bytes, Bytes, Addresses

VARIABLES Enable, Address, WR_Bytes, Data_WR, RD_Bytes,   \* ports of the user
          i2c_busy, i2c_data_rd,                          \* from the master
          i2c_ena, i2c_addr, i2c_rw, i2c_data_wr,         \* to the master
          ena_prev, get_data, Busy, busy_prev, busy_cnt, Data_RD

command   == <<i2c_ena, i2c_addr, i2c_rw, i2c_data_wr>>
arrayVars == <<command, ena_prev, get_data, Busy, busy_prev, busy_cnt, Data_RD>>

Slots == 0 .. Max_Bytes - 1

(* The registers that drive the master have no initial value: they power   *)
(* up with a level of powerUp, and a byte and an address of any value.     *)
ArrayInit(powerUp) ==
  /\ i2c_ena \in powerUp /\ i2c_rw \in powerUp
  /\ i2c_addr \in Addresses /\ i2c_data_wr \in Bytes
  /\ ena_prev = 0 /\ get_data = 0 /\ Busy = 0 /\ busy_prev = 0 /\ busy_cnt = 0
  /\ \E zero \in Bytes : Data_RD = [i \in Slots |-> zero]

ArrayReset ==
  /\ ena_prev' = 0 /\ get_data' = 0 /\ Busy' = 0 /\ busy_prev' = 0
  /\ busy_cnt' = 0 /\ i2c_ena' = 0
  /\ UNCHANGED <<i2c_addr, i2c_rw, i2c_data_wr, Data_RD>>

Requested == ena_prev = 0 /\ Enable = 1

(* A rising edge of Enable starts a transfer.  One that comes during a     *)
(* transfer is seen too, and then sets what is set already.                *)
Accept ==
  /\ get_data' = IF Requested THEN 1 ELSE get_data
  /\ Busy' = IF Requested THEN 1 ELSE Busy

Waiting ==
  /\ get_data = 0
  /\ Accept
  /\ UNCHANGED <<command, busy_prev, busy_cnt, Data_RD>>

(* A slip: the level of i2c_busy is counted, not its edges.                *)
CountEveryClock == busy_cnt' = IF i2c_busy = 1 THEN busy_cnt + 1 ELSE busy_cnt

CountBusy == busy_cnt' = IF busy_prev = 0 /\ i2c_busy = 1 THEN busy_cnt + 1
                                                          ELSE busy_cnt
All == WR_Bytes + RD_Bytes

(* Slips: the master is stopped a byte late, or when it has begun the last *)
(* byte already.                                                           *)
DropEnableLate == i2c_ena' = IF i2c_busy = 0 /\ busy_cnt = All THEN 0 ELSE i2c_ena
DropEnableBegun == i2c_ena' = IF busy_prev = 0 /\ i2c_busy = 1 /\ busy_cnt = All - 1
                              THEN 0 ELSE i2c_ena

(* The command of the last byte is taken: nothing follows it.              *)
DropEnable == i2c_ena' = IF i2c_busy = 0 /\ busy_cnt = All - 1 THEN 0 ELSE i2c_ena

(* Where the byte goes that has just been read.                             *)
ReadSlot == busy_cnt - WR_Bytes - 1

FirstCommand ==
  /\ busy_cnt = 0
  /\ i2c_ena' = 1 /\ i2c_addr' = Address
  /\ \/ WR_Bytes > 0 /\ i2c_rw' = 0 /\ i2c_data_wr' = Data_WR[0]
     \/ WR_Bytes = 0 /\ i2c_rw' = 1 /\ i2c_data_wr' = i2c_data_wr
  /\ busy_cnt' = i2c_busy
  /\ Accept
  /\ UNCHANGED Data_RD

WriteNext ==
  /\ busy_cnt # 0 /\ busy_cnt < WR_Bytes
  /\ i2c_data_wr' = Data_WR[busy_cnt]
  /\ CountBusy /\ DropEnable /\ Accept
  /\ UNCHANGED <<i2c_addr, i2c_rw, Data_RD>>

ReadNext ==
  /\ busy_cnt # 0 /\ busy_cnt >= WR_Bytes /\ busy_cnt < All
  /\ \/ busy_cnt = WR_Bytes /\ i2c_rw' = 1 /\ UNCHANGED Data_RD
     \/ /\ busy_cnt # WR_Bytes
        /\ Data_RD' = IF i2c_busy = 0
                      THEN [Data_RD EXCEPT ![ReadSlot] = i2c_data_rd]
                      ELSE Data_RD
        /\ UNCHANGED i2c_rw
  /\ CountBusy /\ DropEnable /\ Accept
  /\ UNCHANGED <<i2c_addr, i2c_data_wr>>

LastByte ==
  /\ busy_cnt # 0 /\ busy_cnt >= All /\ i2c_busy = 1
  /\ CountBusy /\ Accept
  /\ UNCHANGED <<command, Data_RD>>

Finish ==
  /\ busy_cnt # 0 /\ busy_cnt >= All /\ i2c_busy = 0
  /\ Data_RD' = IF busy_cnt - WR_Bytes > 0
                THEN [Data_RD EXCEPT ![ReadSlot] = i2c_data_rd]
                ELSE Data_RD
  /\ busy_cnt' = 0 /\ get_data' = 0 /\ Busy' = 0 /\ i2c_ena' = 0
  /\ UNCHANGED <<i2c_addr, i2c_rw, i2c_data_wr>>

Transferring ==
  /\ get_data = 1
  /\ busy_prev' = i2c_busy
  /\ FirstCommand \/ WriteNext \/ ReadNext \/ LastByte \/ Finish

ArrayClock(reset) ==
  \/ reset = 1 /\ ArrayReset
  \/ reset = 0 /\ ena_prev' = Enable /\ (Waiting \/ Transferring)

============================================================================
