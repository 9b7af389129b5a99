------------------------------ MODULE UARTArray ------------------------------
(***************************************************************************)
(* The two controllers of UART_Array (Libraries/Interface/UART/            *)
(* UART_Array.vhdp): TX_Controller hands the bytes of TX_Data to the UART, *)
(* RX_Controller collects the UART's bytes in RX_Data until there are      *)
(* Max_Bytes of them or none came for Timeout clocks.  RX_Error is not     *)
(* driven by the code and left out.                                        *)
(***************************************************************************)
EXTENDS Naturals

CONSTANTS Max_Bytes, Timeout, NoByte, Byte

VARIABLES ena_prev, tx_byte_cnt, tx_bytes_buf, tx_state, tx_rAddr, TX_Busy,
          tx_data, tx_ena,                              \* to UART_Interface
          timeout_cnt, rx_byte_cnt, busy_prev,
          rx_di, rx_wAddr, RX_Bytes, RX_Data, RX_Busy

sendVars == <<ena_prev, tx_byte_cnt, tx_bytes_buf, tx_state, tx_rAddr, TX_Busy,
              tx_data, tx_ena>>
collectVars == <<timeout_cnt, rx_byte_cnt, busy_prev,
                 rx_di, rx_wAddr, RX_Bytes, RX_Data, RX_Busy>>

Slots == 0 .. Max_Bytes - 1

SendType ==
  /\ ena_prev \in {0, 1} /\ tx_byte_cnt \in 0 .. Max_Bytes /\ tx_bytes_buf \in 0 .. Max_Bytes
  /\ tx_state \in 0 .. 2 /\ tx_rAddr \in Slots /\ TX_Busy \in {0, 1}
  /\ tx_data \in Byte /\ tx_ena \in {0, 1}

CollectType ==
  /\ timeout_cnt \in 0 .. Timeout /\ rx_byte_cnt \in 0 .. Max_Bytes /\ busy_prev \in {0, 1}
  /\ rx_di \in Byte /\ rx_wAddr \in Slots /\ RX_Bytes \in 0 .. Max_Bytes
  /\ RX_Data \in [Slots -> Byte] /\ RX_Busy \in {0, 1}

SendInit ==
  /\ ena_prev = 0 /\ tx_byte_cnt = 0 /\ tx_bytes_buf = 0 /\ tx_state = 0 /\ tx_rAddr = 0
  /\ TX_Busy = 0 /\ tx_data = NoByte /\ tx_ena = 0

CollectInit ==
  /\ timeout_cnt = 0 /\ rx_byte_cnt = 0 /\ busy_prev = 0 /\ rx_di = NoByte /\ rx_wAddr = 0
  /\ RX_Bytes = 0 /\ RX_Data = [i \in Slots |-> NoByte] /\ RX_Busy = 0

----------------------------------------------------------------------------
(* TX_Controller.                                                          *)

SendReset ==
  /\ tx_state' = 0 /\ TX_Busy' = 0 /\ tx_ena' = 0 /\ tx_byte_cnt' = 0 /\ ena_prev' = 0
  /\ UNCHANGED <<tx_bytes_buf, tx_rAddr, tx_data>>

Starts(TX_Enable, TX_Bytes) ==
  tx_state = 0 /\ ena_prev = 0 /\ TX_Enable = 1 /\ TX_Bytes > 0

(* A slip: the count of the last array is not cleared.                     *)
StartUncleared(TX_Enable, TX_Bytes) ==
  /\ tx_state = 0
  /\ ena_prev' = TX_Enable
  /\ \/ /\ Starts(TX_Enable, TX_Bytes)
        /\ tx_state' = 1 /\ TX_Busy' = 1
        /\ tx_bytes_buf' = TX_Bytes /\ tx_rAddr' = tx_byte_cnt /\ UNCHANGED tx_byte_cnt
     \/ /\ ~Starts(TX_Enable, TX_Bytes)
        /\ UNCHANGED <<tx_state, TX_Busy, tx_byte_cnt, tx_bytes_buf, tx_rAddr>>
  /\ UNCHANGED <<tx_data, tx_ena>>

StartArray(TX_Enable, TX_Bytes) ==
  /\ tx_state = 0
  /\ ena_prev' = TX_Enable
  /\ \/ /\ Starts(TX_Enable, TX_Bytes)
        /\ tx_state' = 1 /\ TX_Busy' = 1 /\ tx_byte_cnt' = 0
        /\ tx_bytes_buf' = TX_Bytes /\ tx_rAddr' = 0
     \/ /\ ~Starts(TX_Enable, TX_Bytes)
        /\ UNCHANGED <<tx_state, TX_Busy, tx_byte_cnt, tx_bytes_buf, tx_rAddr>>
  /\ UNCHANGED <<tx_data, tx_ena>>

HandOver(uart_busy, TX_Data) ==
  /\ tx_state = 1
  /\ \/ /\ uart_busy = 0
        /\ tx_data' = TX_Data[tx_rAddr] /\ tx_ena' = 1 /\ tx_state' = 2
     \/ uart_busy = 1 /\ UNCHANGED <<tx_data, tx_ena, tx_state>>
  /\ UNCHANGED <<ena_prev, tx_byte_cnt, tx_bytes_buf, tx_rAddr, TX_Busy>>

(* A slip: the first byte is sent again and again.                         *)
TakenSameByte(uart_busy) ==
  /\ tx_state = 2
  /\ \/ /\ uart_busy = 1 /\ tx_ena' = 0
        /\ \/ /\ tx_byte_cnt = tx_bytes_buf - 1
              /\ tx_state' = 0 /\ TX_Busy' = 0
              /\ UNCHANGED tx_byte_cnt
           \/ /\ tx_byte_cnt # tx_bytes_buf - 1
              /\ tx_state' = 1 /\ tx_byte_cnt' = tx_byte_cnt + 1
              /\ UNCHANGED TX_Busy
     \/ uart_busy = 0 /\ UNCHANGED <<tx_ena, tx_state, TX_Busy, tx_byte_cnt>>
  /\ UNCHANGED <<ena_prev, tx_bytes_buf, tx_data, tx_rAddr>>

Taken(uart_busy) ==
  /\ tx_state = 2
  /\ \/ /\ uart_busy = 1 /\ tx_ena' = 0
        /\ \/ /\ tx_byte_cnt = tx_bytes_buf - 1
              /\ tx_state' = 0 /\ TX_Busy' = 0
              /\ UNCHANGED <<tx_byte_cnt, tx_rAddr>>
           \/ /\ tx_byte_cnt # tx_bytes_buf - 1
              /\ tx_state' = 1 /\ tx_byte_cnt' = tx_byte_cnt + 1 /\ tx_rAddr' = tx_byte_cnt'
              /\ UNCHANGED TX_Busy
     \/ uart_busy = 0 /\ UNCHANGED <<tx_ena, tx_state, TX_Busy, tx_byte_cnt, tx_rAddr>>
  /\ UNCHANGED <<ena_prev, tx_bytes_buf, tx_data>>

TX_Controller(Reset, TX_Enable, TX_Bytes, TX_Data, uart_busy) ==
  \/ Reset = 1 /\ SendReset
  \/ /\ Reset = 0
     /\ StartArray(TX_Enable, TX_Bytes) \/ HandOver(uart_busy, TX_Data) \/ Taken(uart_busy)

----------------------------------------------------------------------------
(* RX_Controller.                                                          *)

CollectReset ==
  /\ rx_byte_cnt' = 0 /\ timeout_cnt' = 0 /\ busy_prev' = 0 /\ RX_Busy' = 0
  /\ UNCHANGED <<rx_di, rx_wAddr, RX_Bytes>>

ByteEnds(uart_busy) == busy_prev = 1 /\ uart_busy = 0

(* The counts after a byte that may end in this clock.                     *)
Collected(uart_busy) == rx_byte_cnt + (IF ByteEnds(uart_busy) THEN 1 ELSE 0)

(* A slip: a byte does not start the time anew.                            *)
WaitedOn(uart_busy) == timeout_cnt

(* A slip: the time waits for a byte to begin, and not only for its end.   *)
WaitedIdle(uart_busy) == IF uart_busy = 0 THEN 0 ELSE timeout_cnt

Waited(uart_busy) == IF ByteEnds(uart_busy) THEN 0 ELSE timeout_cnt

Over(uart_busy) == Waited(uart_busy) = Timeout \/ Collected(uart_busy) = Max_Bytes

MessageEnds(Reset, uart_busy) == Reset = 0 /\ Over(uart_busy) /\ Collected(uart_busy) > 0

Save(uart_busy, uart_data) ==
  IF ByteEnds(uart_busy) THEN rx_di' = uart_data /\ rx_wAddr' = rx_byte_cnt
                         ELSE UNCHANGED <<rx_di, rx_wAddr>>

(* A slip: RX_Busy is not raised by a byte.                                *)
CloseSilent(uart_busy) ==
  /\ timeout_cnt' = Waited(uart_busy) + (IF Over(uart_busy) THEN 0 ELSE 1)
  /\ \/ /\ Over(uart_busy) /\ Collected(uart_busy) > 0
        /\ RX_Busy' = 0 /\ RX_Bytes' = Collected(uart_busy) /\ rx_byte_cnt' = 0
     \/ /\ ~(Over(uart_busy) /\ Collected(uart_busy) > 0)
        /\ rx_byte_cnt' = Collected(uart_busy) /\ UNCHANGED <<RX_Busy, RX_Bytes>>

(* The later assignment to RX_Busy wins: a message that is over in the     *)
(* clock of its byte never shows it.                                       *)
Close(uart_busy) ==
  /\ timeout_cnt' = Waited(uart_busy) + (IF Over(uart_busy) THEN 0 ELSE 1)
  /\ \/ /\ Over(uart_busy) /\ Collected(uart_busy) > 0
        /\ RX_Busy' = 0 /\ RX_Bytes' = Collected(uart_busy) /\ rx_byte_cnt' = 0
     \/ /\ ~(Over(uart_busy) /\ Collected(uart_busy) > 0)
        /\ RX_Busy' = (IF ByteEnds(uart_busy) THEN 1 ELSE RX_Busy)
        /\ rx_byte_cnt' = Collected(uart_busy) /\ UNCHANGED RX_Bytes

(* RAM_RX_Process: the byte saved goes to RX_Data one clock later.         *)
Settled == [RX_Data EXCEPT ![rx_wAddr] = rx_di]

RX_Controller(Reset, uart_busy, uart_data) ==
  /\ RX_Data' = Settled
  /\ \/ Reset = 1 /\ CollectReset
     \/ /\ Reset = 0
        /\ Save(uart_busy, uart_data) /\ Close(uart_busy) /\ busy_prev' = uart_busy

============================================================================
