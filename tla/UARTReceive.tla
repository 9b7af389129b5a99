---------------------------- MODULE UARTReceive -----------------------------
(***************************************************************************)
(* The receiver of a UART (process RECEIVE_PROCESS of                      *)
(* Libraries/Interface/UART/UART.vhdp).  rx_buffer is a sequence of bits:  *)
(* a new bit goes to its end, index 0 of the code is its head.             *)
(***************************************************************************)
EXTENDS Naturals, Sequences, FiniteSets

CONSTANTS OS_Rate, D_Width, Parity, Parity_EO

VARIABLES rx_state, rx_count, os_count, rx_buffer, RX_Busy, RX_Data, RX_Error

rxVars == <<rx_state, rx_count, os_count, rx_buffer, RX_Busy, RX_Data, RX_Error>>

NoData == [i \in 1 .. D_Width |-> 0]

ReceiveType ==
  /\ rx_state \in {"idle", "receive"} /\ rx_count \in 0 .. Parity + D_Width + 2
  /\ os_count \in 0 .. OS_Rate - 1
  /\ rx_buffer \in [1 .. Parity + D_Width + 1 -> {0, 1}]
  /\ RX_Busy \in {0, 1} /\ RX_Data \in [1 .. D_Width -> {0, 1}] /\ RX_Error \in {0, 1}

ReceiveInit ==
  /\ rx_state = "idle" /\ rx_count = 0 /\ os_count = 0
  /\ rx_buffer = [i \in 1 .. Parity + D_Width + 1 |-> 0]
  /\ RX_Busy = 0 /\ RX_Data = NoData /\ RX_Error = 0

ReceiveReset ==
  /\ rx_state' = "idle" /\ rx_count' = 0 /\ os_count' = 0
  /\ RX_Busy' = 0 /\ RX_Data' = NoData /\ RX_Error' = 0
  /\ UNCHANGED rx_buffer

(* No start bit yet.                                                       *)
Listen(RX) ==
  /\ rx_state = "idle" /\ (RX = 1 \/ os_count < OS_Rate \div 2)
  /\ os_count' = (IF RX = 0 THEN os_count + 1 ELSE 0)
  /\ RX_Busy' = 0
  /\ UNCHANGED <<rx_state, rx_count, rx_buffer, RX_Data, RX_Error>>

(* A slip: the half bit from the edge to the centre is not waited for.     *)
StartBitEarly(RX) ==
  /\ rx_state = "idle" /\ RX = 0 /\ os_count >= OS_Rate \div 2
  /\ os_count' = OS_Rate - 2 /\ rx_count' = 0 /\ RX_Busy' = 1 /\ rx_state' = "receive"
  /\ UNCHANGED <<rx_buffer, RX_Data, RX_Error>>

(* The centre of the start bit.                                            *)
StartBit(RX) ==
  /\ rx_state = "idle" /\ RX = 0 /\ os_count >= OS_Rate \div 2
  /\ os_count' = 0 /\ rx_count' = 0 /\ RX_Busy' = 1 /\ rx_state' = "receive"
  /\ UNCHANGED <<rx_buffer, RX_Data, RX_Error>>

Wait ==
  /\ rx_state = "receive" /\ os_count < OS_Rate - 1
  /\ os_count' = os_count + 1
  /\ UNCHANGED <<rx_state, rx_count, rx_buffer, RX_Busy, RX_Data, RX_Error>>

Centre == rx_state = "receive" /\ os_count >= OS_Rate - 1

(* A slip: the bit is not counted.                                         *)
DataBitUncounted(RX) ==
  /\ Centre /\ rx_count < Parity + D_Width
  /\ os_count' = 0
  /\ rx_buffer' = Append(Tail(rx_buffer), RX)
  /\ UNCHANGED <<rx_state, rx_count, RX_Busy, RX_Data, RX_Error>>

DataBit(RX) ==
  /\ Centre /\ rx_count < Parity + D_Width
  /\ os_count' = 0 /\ rx_count' = rx_count + 1
  /\ rx_buffer' = Append(Tail(rx_buffer), RX)
  /\ UNCHANGED <<rx_state, RX_Busy, RX_Data, RX_Error>>

ReceivedParity ==
  (Parity_EO + Cardinality({i \in 2 .. D_Width + 1 : rx_buffer[i] = 1})) % 2

ParityError == Parity = 1 /\ rx_buffer[Parity + D_Width + 1] # ReceivedParity

StopBit(RX) ==
  /\ Centre /\ rx_count >= Parity + D_Width
  /\ RX_Data' = SubSeq(rx_buffer, 2, D_Width + 1)
  /\ RX_Error' = IF rx_buffer[1] = 1 \/ ParityError \/ RX = 0 THEN 1 ELSE 0
  /\ RX_Busy' = 0 /\ rx_state' = "idle"
  /\ UNCHANGED <<rx_count, os_count, rx_buffer>>

(* A byte is handed to the user in this clock.                             *)
Received(Reset, os_pulse) ==
  Reset = 0 /\ os_pulse = 1 /\ Centre /\ rx_count >= Parity + D_Width

Receive(Reset, os_pulse, RX) ==
  \/ Reset = 1 /\ ReceiveReset
  \/ Reset = 0 /\ os_pulse = 0 /\ UNCHANGED rxVars
  \/ /\ Reset = 0 /\ os_pulse = 1
     /\ Listen(RX) \/ StartBit(RX) \/ Wait \/ DataBit(RX) \/ StopBit(RX)

============================================================================
