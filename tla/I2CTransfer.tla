---------------------------- MODULE I2CTransfer ----------------------------
(***************************************************************************)
(* What I2C_Array promises (Libraries/Interface/I2C/I2C_Array.vhdp, lines  *)
(* 33-38 and 60-68), without clocks, wires or registers: for a request to  *)
(* write some bytes to an address and read some back, exactly one transfer *)
(* goes over the bus, in the order the I2C protocol gives, the bytes of    *)
(* Data_WR with index 0 first; then the request is done, Data_RD holds the *)
(* bytes read with index 0 first, and Ack_Error tells whether the slave    *)
(* refused a byte.  Between requests nothing happens on the bus.           *)
(***************************************************************************)
EXTENDS Integers, Sequences, FiniteSets

CONSTANTS Requests,   \* records [addr, writes: a sequence of bytes, reads: a number]
          Bytes

VARIABLES working, request, bus, Data_RD, Ack_Error

abstractVars == <<working, request, bus, Data_RD, Ack_Error>>

(* The transfer, without what the slave decides: acknowledges and data.    *)
Address(a, rw) == <<[kind |-> "start"], [kind |-> "command", addr |-> a, rw |-> rw]>>

Script(r) ==
  (IF r.writes = <<>> THEN <<>>
   ELSE Address(r.addr, 0)
          \o [i \in 1 .. Len(r.writes) |-> [kind |-> "write", byte |-> r.writes[i]]])
  \o
  (IF r.reads = 0 THEN <<>>
   ELSE Address(r.addr, 1)
          \o [i \in 1 .. r.reads |-> [kind |-> "read", ack |-> IF i = r.reads THEN 1 ELSE 0]])
  \o <<[kind |-> "stop"]>>

(* A bus event is as the script says, in the fields the script gives.      *)
Obeys(event, step) == \A f \in DOMAIN step : f \in DOMAIN event /\ event[f] = step[f]

(* The bytes read, which are the last events before the stop, and the      *)
(* refusals, from the log of the bus.                                      *)
ByteRead(i) == bus[Len(bus) - 1 - request.reads + i].byte
Refused == \E i \in DOMAIN bus : bus[i].kind \in {"command", "write"} /\ bus[i].ack = 1

Complete == Len(bus) = Len(Script(request))

TransferInit == working = FALSE /\ bus = <<>>

Ask(r) ==
  /\ ~working /\ working' = TRUE
  /\ request' = r /\ bus' = <<>>
  /\ UNCHANGED <<Data_RD, Ack_Error>>

(* The next event of the transfer; the data port and the error flag may    *)
(* change at any time while the transfer goes on.                          *)
Progress ==
  /\ working /\ UNCHANGED <<working, request>>
  /\ \/ bus' = bus
     \/ /\ ~Complete
        /\ Len(bus') = Len(bus) + 1 /\ SubSeq(bus', 1, Len(bus)) = bus
        /\ Obeys(bus'[Len(bus')], Script(request)[Len(bus')])

Done ==
  /\ working /\ working' = FALSE
  /\ Complete
  /\ \A i \in 1 .. request.reads : Data_RD[i - 1] = ByteRead(i)
  /\ Ack_Error = IF Refused THEN 1 ELSE 0
  /\ UNCHANGED <<request, bus, Data_RD, Ack_Error>>

TransferNext == (\E r \in Requests : Ask(r)) \/ Progress \/ Done

TransferSpec == TransferInit /\ [][TransferNext]_abstractVars

(* Every request is done some day.                                         *)
Answered == working ~> ~working

============================================================================
