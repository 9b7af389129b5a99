---------------------------- MODULE UARTTransmit ----------------------------
(***************************************************************************)
(* The transmitter of a UART (process TRANSMIT_PROCESS of                  *)
(* Libraries/Interface/UART/UART.vhdp).  A byte is the sequence of its     *)
(* bits, the lowest first; tx_buffer likewise, its head goes to TX next.   *)
(***************************************************************************)
EXTENDS Naturals, Sequences, FiniteSets

CONSTANTS D_Width, Parity, Parity_EO

VARIABLES tx_state, tx_count, tx_buffer, TX, TX_Busy

txVars == <<tx_state, tx_count, tx_buffer, TX, TX_Busy>>

(* Shifts of a frame: the idle bit, start, data, parity and stop.          *)
FrameShifts == Parity + D_Width + 3

TransmitType ==
  /\ tx_state \in {"idle", "transmit"} /\ tx_count \in 0 .. FrameShifts
  /\ tx_buffer \in [1 .. Parity + D_Width + 2 -> {0, 1}]
  /\ TX \in {0, 1} /\ TX_Busy \in {0, 1}

TransmitInit ==
  /\ tx_state = "idle" /\ tx_count = 0 /\ tx_buffer = [i \in 1 .. Parity + D_Width + 2 |-> 1]
  /\ TX = 1 /\ TX_Busy = 0

ParityOf(bits) == (Parity_EO + Cardinality({i \in 1 .. D_Width : bits[i] = 1})) % 2

(* A slip: the parity is not put behind the data.                          *)
FrameNoParity(data) == <<1, 0>> \o data \o [i \in 1 .. Parity |-> 1]

Frame(data) == <<1, 0>> \o data \o [i \in 1 .. Parity |-> ParityOf(data)]

Accepts(Reset, TX_Enable) == Reset = 0 /\ tx_state = "idle" /\ TX_Enable = 1

(* tx_buffer keeps what a transmission cut short has left.                 *)
TransmitReset ==
  /\ tx_state' = "idle" /\ tx_count' = 0 /\ TX' = 1 /\ TX_Busy' = 1
  /\ UNCHANGED tx_buffer

(* A slip: the count of the last frame is not cleared.                     *)
IdleUncleared(TX_Enable, TX_Data) ==
  /\ tx_state = "idle"
  /\ TX_Busy' = TX_Enable
  /\ \/ /\ TX_Enable = 1
        /\ tx_state' = "transmit" /\ tx_buffer' = Frame(TX_Data) /\ UNCHANGED tx_count
     \/ TX_Enable = 0 /\ UNCHANGED <<tx_state, tx_count, tx_buffer>>

Idle(TX_Enable, TX_Data) ==
  /\ tx_state = "idle"
  /\ TX_Busy' = TX_Enable
  /\ \/ /\ TX_Enable = 1
        /\ tx_state' = "transmit" /\ tx_count' = 0 /\ tx_buffer' = Frame(TX_Data)
     \/ TX_Enable = 0 /\ UNCHANGED <<tx_state, tx_count, tx_buffer>>

Sending(baud_pulse) ==
  /\ tx_state = "transmit"
  /\ tx_count' = tx_count + baud_pulse
  /\ tx_buffer' = IF baud_pulse = 1 THEN Append(Tail(tx_buffer), 1) ELSE tx_buffer
  /\ tx_state' = IF tx_count' < FrameShifts THEN "transmit" ELSE "idle"
  /\ UNCHANGED TX_Busy

Transmit(Reset, baud_pulse, TX_Enable, TX_Data) ==
  \/ Reset = 1 /\ TransmitReset
  \/ /\ Reset = 0 /\ TX' = Head(tx_buffer)
     /\ Idle(TX_Enable, TX_Data) \/ Sending(baud_pulse)

============================================================================
