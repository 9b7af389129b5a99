------------------------------ MODULE UARTLink ------------------------------
(***************************************************************************)
(* Two UARTs on one wire: the sender's transmitter and its clock           *)
(* generator, the receiver's receiver and its own.  One step is one clock; *)
(* the two run at the same frequency, and each comes out of its power-up   *)
(* reset at any clock, so that the baud pulses of one meet the samples of  *)
(* the other in any phase.                                                 *)
(*                                                                         *)
(* The user calls the SeqFunction write with the bytes of Bytes, at any    *)
(* pace, when both are out of reset.                                       *)
(***************************************************************************)
EXTENDS Naturals, Sequences

CONSTANTS BitClocks, OS_Rate, D_Width, Parity, Parity_EO,
          Bytes     \* bytes sent

ASSUME LinkAssumption ==
  /\ OS_Rate \in Nat \ {0} /\ BitClocks \in Nat /\ BitClocks >= OS_Rate
  /\ D_Width \in Nat \ {0} /\ Parity \in {0, 1} /\ Parity_EO \in {0, 1}
  /\ Bytes \subseteq [1 .. D_Width -> {0, 1}]

VARIABLES Reset, R_Reset,                  \* of the sender, of the receiver
          TX_Enable, TX_Data,              \* from the sender's user
          s_count_baud, s_count_os, s_baud_pulse, s_os_pulse,
          tx_state, tx_count, tx_buffer, TX, TX_Busy,
          count_baud, count_os, baud_pulse, os_pulse,
          rx_state, rx_count, os_count, rx_buffer, RX_Busy, RX_Data, RX_Error,
          line      \* history: the bytes accepted and not yet received

SenderClock == INSTANCE UARTClock
  WITH count_baud <- s_count_baud, count_os <- s_count_os,
       baud_pulse <- s_baud_pulse, os_pulse <- s_os_pulse
ReceiverClock == INSTANCE UARTClock
INSTANCE UARTTransmit
INSTANCE UARTReceive

userVars == <<Reset, R_Reset, TX_Enable, TX_Data>>
vars == <<userVars, SenderClock!clockVars, txVars, ReceiverClock!clockVars, rxVars, line>>

Init ==
  /\ Reset \in {0, 1} /\ R_Reset \in {0, 1} /\ TX_Enable = 0 /\ TX_Data \in Bytes
  /\ SenderClock!ClockInit /\ TransmitInit
  /\ ReceiverClock!ClockInit /\ ReceiveInit
  /\ line = <<>>

(* write: raise TX_Enable, lower it when TX_Busy shows that the byte is    *)
(* taken; the next write waits until TX_Busy is 0.                         *)
User ==
  /\ Reset' \in 0 .. Reset /\ R_Reset' \in 0 .. R_Reset
  /\ \/ /\ TX_Enable = 0 /\ TX_Busy = 0 /\ Reset = 0 /\ R_Reset = 0
        /\ TX_Enable' = 1 /\ TX_Data' \in Bytes
     \/ TX_Enable = 1 /\ TX_Busy = 1 /\ TX_Enable' = 0 /\ UNCHANGED TX_Data
     \/ UNCHANGED <<TX_Enable, TX_Data>>

Arrives == Received(R_Reset, os_pulse)

Next ==
  /\ User
  /\ SenderClock!ClockGenerator(Reset)
  /\ Transmit(Reset, s_baud_pulse, TX_Enable, TX_Data)
  /\ ReceiverClock!ClockGenerator(R_Reset)
  /\ Receive(R_Reset, os_pulse, TX)
  /\ LET kept == IF Arrives /\ line # <<>> THEN Tail(line) ELSE line
     IN line' = IF Accepts(Reset, TX_Enable) THEN Append(kept, TX_Data) ELSE kept

Spec == Init /\ [][Next]_vars /\ WF_vars(Next)

----------------------------------------------------------------------------
TypeOK ==
  /\ Reset \in {0, 1} /\ R_Reset \in {0, 1} /\ TX_Enable \in {0, 1} /\ TX_Data \in Bytes
  /\ SenderClock!ClockType /\ TransmitType
  /\ ReceiverClock!ClockType /\ ReceiveType
  /\ line \in Seq(Bytes)

(* What arrives is what was sent, byte for byte: nothing from noise on the *)
(* line, nothing out of order, in whatever phase the two clocks run.       *)
InOrder == [][Arrives => line # <<>> /\ RX_Data' = Head(line)]_vars

(* RX_Busy falls for every byte: every byte sent is received.              *)
EverySentByteArrives == line # <<>> ~> line = <<>>

(* UART.vhdp:40: with OS_Rate samples per baud period the receiver finds   *)
(* the centre of the bits: where it looks for the stop bit there is one,   *)
(* and the parity in front of it is the sender's.                          *)
GoodFrame == [][Arrives => TX = 1 /\ ~ParityError]_vars

(* UART.vhdp:55: RX_Error is for start, parity and stop bit errors, and    *)
(* the line has none.                                                      *)
NoErrorOnGoodLine == RX_Error = 0

============================================================================
