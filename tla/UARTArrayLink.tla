---------------------------- MODULE UARTArrayLink ----------------------------
(***************************************************************************)
(* Two UART_Arrays on one wire, the transmitting half of one and the       *)
(* receiving half of the other, each with its UART of UARTTransmit or      *)
(* UARTReceive and its clock generator.  One step is one clock.            *)
(*                                                                         *)
(* The user asks for a message as the header says: TX_Data, TX_Bytes and   *)
(* TX_Enable from 0 to 1, then wait until TX_Busy goes from 1 to 0.  One   *)
(* that waits for an answer also waits until the message is received.      *)
(***************************************************************************)
EXTENDS UARTArray, Sequences, FiniteSets

CONSTANTS BitClocks, OS_Rate, D_Width, Parity, Parity_EO,
          Payloads    \* what the user fills TX_Data with

ASSUME ArrayAssumption ==
  /\ Max_Bytes \in Nat \ {0} /\ Timeout \in Nat \ {0}
  /\ OS_Rate \in Nat \ {0} /\ BitClocks \in Nat /\ BitClocks >= OS_Rate
  /\ D_Width \in Nat \ {0} /\ Parity \in {0, 1} /\ Parity_EO \in {0, 1}
  /\ Byte = [1 .. D_Width -> {0, 1}] /\ NoByte = [i \in 1 .. D_Width |-> 0]
  /\ Payloads \subseteq [Slots -> Byte]

VARIABLES Reset, TX_Enable, TX_Bytes, TX_Data, user,         \* the sender's user
          waitsForAnswer,
          s_count_baud, s_count_os, s_baud_pulse, s_os_pulse,
          uart_tx_state, tx_count, tx_buffer, TX, UART_Interface_tx_busy,
          count_baud, count_os, baud_pulse, os_pulse,
          rx_state, rx_count, os_count, rx_buffer,
          UART_Interface_rx_busy, UART_Interface_rx_data, UART_Interface_rx_error,
          flight    \* history: the bytes of the messages accepted and not yet received

SenderClock == INSTANCE UARTClock
  WITH count_baud <- s_count_baud, count_os <- s_count_os,
       baud_pulse <- s_baud_pulse, os_pulse <- s_os_pulse
ReceiverClock == INSTANCE UARTClock
Sender == INSTANCE UARTTransmit
  WITH tx_state <- uart_tx_state, TX_Busy <- UART_Interface_tx_busy
Receiver == INSTANCE UARTReceive
  WITH RX_Busy <- UART_Interface_rx_busy, RX_Data <- UART_Interface_rx_data,
       RX_Error <- UART_Interface_rx_error

userVars == <<Reset, TX_Enable, TX_Bytes, TX_Data, user, waitsForAnswer>>
vars == <<userVars, sendVars, SenderClock!clockVars, Sender!txVars,
          ReceiverClock!clockVars, Receiver!rxVars, collectVars, flight>>

Init ==
  /\ Reset \in {0, 1} /\ TX_Enable = 0 /\ TX_Bytes = 0 /\ user = "idle" /\ waitsForAnswer \in BOOLEAN
  /\ TX_Data = [i \in Slots |-> NoByte]
  /\ SendInit /\ SenderClock!ClockInit /\ Sender!TransmitInit
  /\ ReceiverClock!ClockInit /\ Receiver!ReceiveInit /\ CollectInit
  /\ flight = <<>>

Ask ==
  /\ user = "idle" /\ Reset = 0 /\ TX_Busy = 0 /\ TX_Enable = 0
  /\ waitsForAnswer => flight = <<>>
  /\ TX_Bytes' \in 1 .. Max_Bytes
  /\ \E p \in Payloads : TX_Data' = [i \in Slots |-> IF i < TX_Bytes' THEN p[i] ELSE NoByte]
  /\ TX_Enable' = 1 /\ user' = "asked"

Watch ==
  /\ user' = CASE user = "asked" /\ TX_Busy = 1 -> "busy"
               [] user = "busy" /\ TX_Busy = 0  -> "idle"
               [] OTHER                         -> user
  /\ TX_Enable' = IF user' = "asked" THEN TX_Enable ELSE 0
  /\ UNCHANGED <<TX_Bytes, TX_Data>>

User == Reset' \in 0 .. Reset /\ (Ask \/ Watch) /\ UNCHANGED waitsForAnswer

Ends == MessageEnds(0, UART_Interface_rx_busy)

Received == Collected(UART_Interface_rx_busy)

Message == [i \in 1 .. TX_Bytes |-> TX_Data[i - 1]]

Next ==
  /\ User
  /\ TX_Controller(Reset, TX_Enable, TX_Bytes, TX_Data, UART_Interface_tx_busy)
  /\ SenderClock!ClockGenerator(Reset)
  /\ Sender!Transmit(Reset, s_baud_pulse, tx_ena, tx_data)
  /\ ReceiverClock!ClockGenerator(0)
  /\ Receiver!Receive(0, os_pulse, TX)
  /\ RX_Controller(0, UART_Interface_rx_busy, UART_Interface_rx_data)
  /\ LET n == IF ~Ends THEN 0 ELSE IF Received > Len(flight) THEN Len(flight) ELSE Received
         kept == SubSeq(flight, n + 1, Len(flight))
     IN flight' = IF Reset = 0 /\ Starts(TX_Enable, TX_Bytes) THEN kept \o Message ELSE kept

Spec == Init /\ [][Next]_vars /\ WF_vars(Next)

----------------------------------------------------------------------------
TypeOK ==
  /\ Reset \in {0, 1} /\ TX_Enable \in {0, 1} /\ TX_Bytes \in 0 .. Max_Bytes
  /\ TX_Data \in [Slots -> Byte] /\ user \in {"idle", "asked", "busy"}
  /\ waitsForAnswer \in BOOLEAN
  /\ SendType /\ CollectType /\ SenderClock!ClockType /\ Sender!TransmitType
  /\ ReceiverClock!ClockType /\ Receiver!ReceiveType
  /\ flight \in Seq(Byte)

(* Every block of bytes handed over continues the bytes sent, none lost,   *)
(* doubled or out of its place.  UART_Array.vhdp:43-45 has the user read   *)
(* RX_Data when RX_Busy changes from 1 to 0, and the example does so in    *)
(* the first clock in which it is 0 (UART_Array_Example.vhdp:70-72): all   *)
(* is there then but the byte that fills the array, which comes one clock  *)
(* later.                                                                  *)
BytesInOrder ==
  [][Ends => /\ Received <= Len(flight)
             /\ \A i \in 0 .. Received - 1 :
                  /\ i < Max_Bytes - 1 => RX_Data'[i] = flight[i + 1]
                  /\ Settled'[i] = flight[i + 1]]_vars

(* When the sender waits for the message to be received, what is received  *)
(* is the message: the time between two of its bytes never ends it.        *)
WholeMessages == [][waitsForAnswer /\ Ends => Received = Len(flight)]_vars

(* Every message sent is received.                                         *)
EveryMessageArrives == waitsForAnswer /\ flight # <<>> ~> flight = <<>>

(* UART_Array.vhdp:42: the user sees RX_Busy go from 1 to 0 for every      *)
(* block of bytes.                                                         *)
RxBusySeen == [][Ends => RX_Busy = 1]_vars

============================================================================
