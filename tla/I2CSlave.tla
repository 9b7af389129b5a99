------------------------------ MODULE I2CSlave ------------------------------
(***************************************************************************)
(* What is on the other end of the I2C wires: a slave that follows the I2C *)
(* rules, clocked like the master, and the log of what it saw on the bus.  *)
(* It is not part of the repository; it is here so that the master can be  *)
(* checked against somebody who decodes its waveforms from nothing but     *)
(* edges.  It acknowledges or refuses, sends any bits, and may hold SCL    *)
(* low for a while at any falling edge.                                    *)
(***************************************************************************)
EXTENDS Integers, Sequences

CONSTANTS Width,     \* bits of a byte
          Answers,   \* the levels it may answer with, a subset of {0, 1}
          Holds      \* for how many clocks it may hold SCL low

VARIABLES old_sda, old_scl,  \* the wires at the previous clock
          mode,              \* off, command, write, read
          bits,              \* the bits of the present byte, first to last
          slave_sda, hold,   \* its outputs: SDA, and clocks SCL is still held
          bus                \* the log

slaveVars == <<old_sda, old_scl, mode, bits, slave_sda, hold, bus>>

SlaveScl == IF hold > 0 THEN 0 ELSE 1

SlaveInit ==
  /\ old_sda = 1 /\ old_scl = 1 /\ mode = "off" /\ bits = <<>>
  /\ slave_sda = 1 /\ hold = 0 /\ bus = <<>>

(* Bit i of the byte whose bits came most significant first.               *)
ByteOf(b) == [i \in 0 .. Width - 1 |-> b[Width - i]]

Seen == IF mode = "command"
        THEN [kind |-> "command", addr |-> [i \in 0 .. Width - 2 |-> ByteOf(bits)[i + 1]],
              rw |-> ByteOf(bits)[0], ack |-> bits[Width + 1]]
        ELSE [kind |-> mode, byte |-> ByteOf(bits), ack |-> bits[Width + 1]]

(* After a byte: the command's last bit gives the direction, and a read    *)
(* that the master does not acknowledge is the last one.                   *)
ModeAfter == CASE mode = "command" -> IF bits[Width] = 0 THEN "write" ELSE "read"
               [] mode = "read" /\ bits[Width + 1] = 1 -> "off"
               [] OTHER -> mode

StartSeen(sda, scl) == old_scl = 1 /\ scl = 1 /\ old_sda = 1 /\ sda = 0
StopSeen(sda, scl)  == old_scl = 1 /\ scl = 1 /\ old_sda = 0 /\ sda = 1

OnStart(log) ==
  /\ mode' = "command" /\ bits' = <<>> /\ slave_sda' = 1 /\ hold' = 0
  /\ bus' = Append(log, [kind |-> "start"])

OnStop(log) ==
  /\ mode' = "off" /\ bits' = <<>> /\ slave_sda' = 1 /\ hold' = 0
  /\ bus' = Append(log, [kind |-> "stop"])

OnRise(sda, log) ==
  /\ bits' = IF mode # "off" THEN Append(bits, sda) ELSE bits
  /\ bus' = log
  /\ UNCHANGED <<mode, slave_sda, hold>>

(* The slave drives SDA for its acknowledge and for the bits it sends.     *)
Drives(m, n) == m # "off" /\ (n = Width) # (m = "read")

OnFall(log) ==
  LET full  == mode # "off" /\ Len(bits) = Width + 1
      m     == IF full THEN ModeAfter ELSE mode
      b     == IF full THEN <<>> ELSE bits
  IN /\ bus' = IF full THEN Append(log, Seen) ELSE log
     /\ mode' = m /\ bits' = b
     /\ slave_sda' \in (IF Drives(m, Len(b)) THEN Answers ELSE {1})
     /\ hold' \in (IF mode = "off" THEN {0} ELSE Holds)

Quiet(log) == /\ hold' = IF hold > 0 THEN hold - 1 ELSE 0
              /\ bus' = log
              /\ UNCHANGED <<mode, bits, slave_sda>>

(* One clock with the given levels of the wires, the log going on from log.*)
SlaveClock(sda, scl, log) ==
  /\ old_sda' = sda /\ old_scl' = scl
  /\ \/ StartSeen(sda, scl) /\ OnStart(log)
     \/ StopSeen(sda, scl) /\ OnStop(log)
     \/ old_scl = 0 /\ scl = 1 /\ OnRise(sda, log)
     \/ old_scl = 1 /\ scl = 0 /\ OnFall(log)
     \/ old_scl = scl /\ (scl = 1 => old_sda = sda) /\ Quiet(log)

============================================================================
