------------------------ MODULE UARTArrayLinkProofs ------------------------
(***************************************************************************)
(* Proofs about two UART_Arrays on a wire, for every size of the array and *)
(* every UART for which UARTLinkProofs shows that bytes arrive.            *)
(***************************************************************************)
EXTENDS UARTArrayLink, Integers, SequenceTheorems, TLAPS

\* The bytes that TX_Controller has not yet given to the UART.
Ahead ==
  IF tx_state = 0 THEN 0
  ELSE tx_bytes_buf - tx_byte_cnt - (IF tx_state = 2 /\ UART_Interface_tx_busy = 1 THEN 1 ELSE 0)

\* The bytes between the two UARTs: those under way without what RX_Controller
\* has, and without what TX_Controller has.
OnWire == SubSeq(flight, Received + 1, Len(flight) - Ahead)

\* The two UARTs and the wire are those of UARTLink, whose user is TX_Controller.
Link == INSTANCE UARTLinkProofs
  WITH Bytes <- Byte, R_Reset <- 0, TX_Enable <- tx_ena, TX_Data <- tx_data,
       tx_state <- uart_tx_state, TX_Busy <- UART_Interface_tx_busy,
       RX_Busy <- UART_Interface_rx_busy, RX_Data <- UART_Interface_rx_data,
       RX_Error <- UART_Interface_rx_error, line <- OnWire

-----------------------------------------------------------------------------
(* The UARTs are those of UARTLink                                         *)

LEMMA SameTransmitter ==
  /\ Sender!TransmitType <=> Link!TransmitType
  /\ Sender!TransmitType' <=> Link!TransmitType'
  /\ Sender!Transmit(Reset, s_baud_pulse, tx_ena, tx_data)
       <=> Link!Transmit(Reset, s_baud_pulse, tx_ena, tx_data)
  /\ Sender!TransmitInit <=> Link!TransmitInit
<1>1. \A d : Sender!Frame(d) = Link!Frame(d)
  BY DEF Sender!Frame, Link!Frame, Sender!ParityOf, Link!ParityOf, Sender!Cardinality,
         Link!Cardinality
<1>2. Sender!FrameShifts = Link!FrameShifts
  BY DEF Sender!FrameShifts, Link!FrameShifts
<1> QED
  BY <1>1, <1>2
  DEF Sender!TransmitType, Link!TransmitType, Sender!Transmit, Link!Transmit, Sender!Idle,
      Link!Idle, Sender!Sending, Link!Sending, Sender!TransmitReset, Link!TransmitReset,
      Sender!FrameShifts, Link!FrameShifts, Sender!TransmitInit, Link!TransmitInit

LEMMA SameReceiver ==
  /\ Receiver!ReceiveType <=> Link!ReceiveType
  /\ Receiver!ReceiveType' <=> Link!ReceiveType'
  /\ Receiver!Receive(0, os_pulse, TX) <=> Link!Receive(0, os_pulse, TX)
  /\ Receiver!ReceiveInit <=> Link!ReceiveInit
<1>1. Receiver!ParityError <=> Link!ParityError
  BY DEF Receiver!ParityError, Link!ParityError, Receiver!ReceivedParity, Link!ReceivedParity,
         Receiver!Cardinality, Link!Cardinality
<1> QED
  BY <1>1
  DEF Receiver!ReceiveType, Link!ReceiveType, Receiver!Receive, Link!Receive, Receiver!Listen,
      Link!Listen, Receiver!StartBit, Link!StartBit, Receiver!Wait, Link!Wait, Receiver!Centre,
      Link!Centre, Receiver!DataBit, Link!DataBit, Receiver!StopBit, Link!StopBit,
      Receiver!ReceiveReset, Link!ReceiveReset, Receiver!NoData, Link!NoData, Receiver!rxVars,
      Link!rxVars, Receiver!ReceiveInit, Link!ReceiveInit

LEMMA SameClocks ==
  /\ SenderClock!ClockType <=> Link!SenderClock!ClockType
  /\ SenderClock!ClockType' <=> Link!SenderClock!ClockType'
  /\ SenderClock!ClockGenerator(Reset) <=> Link!SenderClock!ClockGenerator(Reset)
  /\ SenderClock!ClockInit <=> Link!SenderClock!ClockInit
  /\ ReceiverClock!ClockType <=> Link!ReceiverClock!ClockType
  /\ ReceiverClock!ClockType' <=> Link!ReceiverClock!ClockType'
  /\ ReceiverClock!ClockGenerator(0) <=> Link!ReceiverClock!ClockGenerator(0)
  /\ ReceiverClock!ClockInit <=> Link!ReceiverClock!ClockInit
BY DEF SenderClock!ClockType, Link!SenderClock!ClockType, SenderClock!SampleClocks,
       Link!SenderClock!SampleClocks, SenderClock!ClockGenerator,
       Link!SenderClock!ClockGenerator, SenderClock!Generate, Link!SenderClock!Generate,
       SenderClock!Sampling, Link!SenderClock!Sampling, SenderClock!ClockReset,
       Link!SenderClock!ClockReset, SenderClock!ClockInit, Link!SenderClock!ClockInit,
       ReceiverClock!ClockType, Link!ReceiverClock!ClockType, ReceiverClock!SampleClocks,
       Link!ReceiverClock!SampleClocks, ReceiverClock!ClockGenerator,
       Link!ReceiverClock!ClockGenerator, ReceiverClock!Generate, Link!ReceiverClock!Generate,
       ReceiverClock!Sampling, Link!ReceiverClock!Sampling, ReceiverClock!ClockReset,
       Link!ReceiverClock!ClockReset, ReceiverClock!ClockInit, Link!ReceiverClock!ClockInit

-----------------------------------------------------------------------------
(* Types                                                                   *)

\* What the types need besides: the counts of the controllers and of the UART
\* have not reached their ends.
Counting ==
  /\ tx_state # 0 => tx_byte_cnt < tx_bytes_buf
  /\ rx_byte_cnt < Max_Bytes
  /\ Link!Counting

LEMMA Constants ==
  /\ Max_Bytes \in Nat \ {0} /\ Timeout \in Nat \ {0}
  /\ D_Width \in Nat \ {0} /\ Parity \in {0, 1} /\ BitClocks \in Nat \ {0}
  /\ Byte = [1..D_Width -> {0, 1}] /\ NoByte \in Byte
  /\ Payloads \subseteq [Slots -> Byte]
<1>1. /\ D_Width \in Nat \ {0} /\ NoByte = [i \in 1..D_Width |-> 0]
      /\ Byte = [1..D_Width -> {0, 1}]
  BY ArrayAssumption DEF ArrayAssumption
<1>2. [i \in 1..D_Width |-> 0] \in [1..D_Width -> {0, 1}]
  OBVIOUS
<1> QED
  BY <1>1, <1>2, ArrayAssumption DEF ArrayAssumption

LEMMA InitTypes == Init => TypeOK /\ Counting
<1> SUFFICES ASSUME Init PROVE TypeOK /\ Counting
  OBVIOUS
<1>1. /\ Max_Bytes \in Nat \ {0} /\ Timeout \in Nat \ {0} /\ NoByte \in Byte /\ 0 \in Slots
  BY Constants DEF Slots
<1>2. SendType /\ CollectType
  BY <1>1 DEF Init, SendInit, CollectInit, SendType, CollectType
<1>3. Link!SenderClock!ClockType /\ Link!ReceiverClock!ClockType
  BY Link!Numbers, ArrayAssumption, SameClocks
     DEF ArrayAssumption, Init, SenderClock!ClockInit, ReceiverClock!ClockInit,
         Link!SenderClock!ClockType, Link!ReceiverClock!ClockType, Link!SenderClock!SampleClocks,
         Link!ReceiverClock!SampleClocks, Link!Samples
<1>4. Sender!TransmitType /\ Receiver!ReceiveType
  BY Link!Numbers, ArrayAssumption
     DEF ArrayAssumption, Init, Sender!TransmitInit, Receiver!ReceiveInit, Sender!TransmitType,
         Receiver!ReceiveType, Receiver!NoData, Sender!FrameShifts
<1>5. Counting
  BY <1>1 DEF Init, SendInit, CollectInit, Counting, Link!Counting, Sender!TransmitInit
<1>6. TX_Data \in [Slots -> Byte] /\ flight \in Seq(Byte)
  BY <1>1 DEF Init
<1> QED
  BY <1>1, <1>2, <1>3, <1>4, <1>5, <1>6, SameClocks DEF Init, TypeOK

LEMMA UserTypes ==
  ASSUME TypeOK, User
  PROVE  /\ Reset' \in {0, 1} /\ TX_Enable' \in {0, 1} /\ TX_Bytes' \in 0..Max_Bytes
         /\ TX_Data' \in [Slots -> Byte] /\ user' \in {"idle", "asked", "busy"}
         /\ waitsForAnswer' \in BOOLEAN
<1>1. Reset' \in {0, 1} /\ waitsForAnswer' \in BOOLEAN
  BY DEF TypeOK, User
<1>2. CASE Ask
  <2>1. PICK p \in Payloads : TX_Data' = [i \in Slots |-> IF i < TX_Bytes' THEN p[i] ELSE NoByte]
    BY <1>2 DEF Ask
  <2>2. TX_Data' \in [Slots -> Byte]
    BY <2>1, Constants
  <2> QED
    BY <1>1, <1>2, <2>2, Constants DEF Ask
<1>3. CASE Watch
  BY <1>1, <1>3 DEF Watch, TypeOK
<1> QED
  BY <1>2, <1>3 DEF User

LEMMA SendTypes ==
  ASSUME TypeOK, Counting,
         TX_Controller(Reset, TX_Enable, TX_Bytes, TX_Data, UART_Interface_tx_busy)
  PROVE  SendType' /\ (tx_state' # 0 => tx_byte_cnt' < tx_bytes_buf')
<1>1. /\ Max_Bytes \in Nat \ {0} /\ SendType /\ TX_Bytes \in 0..Max_Bytes
      /\ TX_Enable \in {0, 1} /\ TX_Data \in [Slots -> Byte]
      /\ tx_state # 0 => tx_byte_cnt < tx_bytes_buf
  BY Constants DEF TypeOK, Counting
<1>2. Slots' = Slots
  BY DEF Slots
<1>3. CASE SendReset
  BY <1>1, <1>2, <1>3 DEF SendReset, SendType
<1>4. CASE StartArray(TX_Enable, TX_Bytes)
  BY <1>1, <1>2, <1>4 DEF StartArray, Starts, SendType, Slots
<1>5. CASE HandOver(UART_Interface_tx_busy, TX_Data)
  BY <1>1, <1>2, <1>5 DEF HandOver, SendType
<1>6. CASE Taken(UART_Interface_tx_busy)
  <2>1. tx_byte_cnt # tx_bytes_buf - 1 => tx_byte_cnt + 1 \in Slots /\ tx_byte_cnt + 1 < tx_bytes_buf
    BY <1>1, <1>6 DEF Taken, SendType, Slots
  <2> QED
    BY <1>1, <1>2, <1>6, <2>1 DEF Taken, SendType, Slots
<1> QED
  BY <1>3, <1>4, <1>5, <1>6 DEF TX_Controller

\* The count of what is received, with a byte that ends in this clock.
LEMMA CountReceived ==
  ASSUME TypeOK, Counting
  PROVE  /\ Received \in 0..Max_Bytes
         /\ Received = rx_byte_cnt + 1 \/ Received = rx_byte_cnt
         /\ Received = rx_byte_cnt + 1 <=> ByteEnds(UART_Interface_rx_busy)
         /\ rx_byte_cnt \in Slots
  BY Constants DEF TypeOK, Counting, CollectType, Received, Collected, Slots

LEMMA CollectTypes ==
  ASSUME TypeOK, Counting,
         RX_Controller(0, UART_Interface_rx_busy, UART_Interface_rx_data)
  PROVE  CollectType' /\ rx_byte_cnt' < Max_Bytes
<1> DEFINE busy == UART_Interface_rx_busy
<1>1. /\ Max_Bytes \in Nat \ {0} /\ Timeout \in Nat \ {0} /\ CollectType
      /\ busy \in {0, 1} /\ UART_Interface_rx_data \in Byte /\ rx_byte_cnt \in Slots
      /\ Collected(busy) \in 0..Max_Bytes
  BY Constants, CountReceived DEF TypeOK, Receiver!ReceiveType, Received
<1>2. Slots' = Slots
  BY DEF Slots
<1>3. Save(busy, UART_Interface_rx_data) /\ Close(busy) /\ busy_prev' = busy /\ RX_Data' = Settled
  BY DEF RX_Controller
<1>4. RX_Data' \in [Slots -> Byte]
  BY <1>1, <1>3 DEF Settled, CollectType
<1>5. rx_di' \in Byte /\ rx_wAddr' \in Slots
  BY <1>1, <1>3 DEF Save, CollectType
<1>6. timeout_cnt' \in 0..Timeout
  BY <1>1, <1>3 DEF Close, Over, Waited, CollectType
<1>7. RX_Busy' \in {0, 1} /\ RX_Bytes' \in 0..Max_Bytes /\ rx_byte_cnt' \in 0..Max_Bytes
      /\ rx_byte_cnt' < Max_Bytes
  BY <1>1, <1>3 DEF Close, Over, CollectType
<1> QED
  BY <1>1, <1>2, <1>3, <1>4, <1>5, <1>6, <1>7 DEF CollectType

LEMMA FlightTypes ==
  ASSUME TypeOK, Counting, Next
  PROVE  flight' \in Seq(Byte)
<1> DEFINE n == IF ~Ends THEN 0 ELSE IF Received > Len(flight) THEN Len(flight) ELSE Received
           kept == SubSeq(flight, n + 1, Len(flight))
<1>1. /\ flight \in Seq(Byte) /\ Len(flight) \in Nat /\ Received \in Nat /\ TX_Bytes \in 0..Max_Bytes
      /\ TX_Data \in [Slots -> Byte]
  BY CountReceived DEF TypeOK
<1>2. n \in 0..Len(flight)
  BY <1>1
<1>3. kept \in Seq(Byte)
  <2> HIDE DEF n
  <2>1. \A i \in n + 1..Len(flight) : flight[i] \in Byte
    BY <1>1, <1>2
  <2> QED
    BY <1>1, <1>2, <2>1, SubSeqProperties
<1>4. Message \in Seq(Byte)
  BY <1>1, Constants DEF Message, Slots
<1>5. flight' = kept \/ flight' = kept \o Message
  BY DEF Next
<1> HIDE DEF kept
<1> QED
  BY <1>3, <1>4, <1>5, ConcatProperties

LEMMA NextTypes ==
  ASSUME TypeOK, Counting, [Next]_vars
  PROVE  TypeOK' /\ Counting'
<1>1. CASE Next
  <2>1. Link!SenderClock!ClockType' /\ Link!ReceiverClock!ClockType'
    BY <1>1, Link!SenderClockTypes, Link!ReceiverClockTypes, SameClocks, ArrayAssumption
       DEF ArrayAssumption, Next, TypeOK
  <2>2. Sender!TransmitType' /\ Link!Counting'
    <3>1. s_baud_pulse \in {0, 1} /\ tx_ena \in {0, 1} /\ tx_data \in Byte
      BY DEF TypeOK, SendType, SenderClock!ClockType
    <3> QED
      BY <1>1, <3>1, Link!TransmitTypes, SameTransmitter, ArrayAssumption
         DEF ArrayAssumption, Next, TypeOK, Counting
  <2>3. Receiver!ReceiveType'
    <3>1. TX \in {0, 1}
      BY DEF TypeOK, Sender!TransmitType
    <3> QED
      BY <1>1, <3>1, Link!ReceiveTypes, SameReceiver, ArrayAssumption
         DEF ArrayAssumption, Next, TypeOK
  <2>4. /\ Reset' \in {0, 1} /\ TX_Enable' \in {0, 1} /\ TX_Bytes' \in 0..Max_Bytes
        /\ TX_Data' \in [Slots -> Byte] /\ user' \in {"idle", "asked", "busy"}
        /\ waitsForAnswer' \in BOOLEAN /\ Slots' = Slots
    BY <1>1, UserTypes DEF Next, Slots
  <2>5. SendType' /\ (tx_state' # 0 => tx_byte_cnt' < tx_bytes_buf')
    BY <1>1, SendTypes DEF Next
  <2>6. CollectType' /\ rx_byte_cnt' < Max_Bytes
    BY <1>1, CollectTypes DEF Next
  <2> QED
    BY <1>1, <2>1, <2>2, <2>3, <2>4, <2>5, <2>6, FlightTypes, SameClocks DEF TypeOK, Counting
<1>2. CASE UNCHANGED vars
  BY <1>2, SMTT(30) DEF vars, userVars, sendVars, collectVars, SenderClock!clockVars, ReceiverClock!clockVars,
     Sender!txVars, Receiver!rxVars, TypeOK, Counting, Link!Counting, SendType, CollectType,
     SenderClock!ClockType, ReceiverClock!ClockType, Sender!TransmitType, Receiver!ReceiveType,
     Slots
<1> QED
  BY <1>1, <1>2

\* Types, for every array and every ratio of clock, baud rate and oversampling
\* rate (UART_Array.vhdp, UART.vhdp): no index leaves the arrays, no counter the
\* range it is declared with.
THEOREM TypeCorrect == Spec => []TypeOK
<1> DEFINE Inv == TypeOK /\ Counting
<1>1. Init => Inv
  BY InitTypes
<1>2. Inv /\ [Next]_vars => Inv'
  BY NextTypes
<1>3. Inv => TypeOK
  OBVIOUS
<1> HIDE DEF Inv
<1> QED
  BY <1>1, <1>2, <1>3, PTL DEF Spec

-----------------------------------------------------------------------------
(* The inductive invariant: the array's bytes go through the link in order *)

\* TX_Controller and the transmitter that serves it are in step.
SendControl ==
  /\ TX_Busy = 1 <=> tx_state # 0
  /\ tx_ena = 1 <=> tx_state = 2
  /\ tx_state # 0 => tx_byte_cnt < tx_bytes_buf /\ tx_rAddr = tx_byte_cnt
  /\ uart_tx_state = "transmit" => UART_Interface_tx_busy = 1
  /\ tx_state = 2 /\ UART_Interface_tx_busy = 1 => uart_tx_state = "transmit"
  /\ tx_state = 2 /\ UART_Interface_tx_busy = 0 => tx_data = TX_Data[tx_byte_cnt]
  /\ Reset = 1 => tx_state = 0 /\ TX_Enable = 0

\* The bytes that TX_Controller has still to give to the UART are the last ones
\* under way, and the user leaves them alone.
Unsent ==
  \A i \in tx_bytes_buf - Ahead..tx_bytes_buf - 1 :
    flight[Len(flight) - tx_bytes_buf + i + 1] = TX_Data[i]

\* RX_Controller has the first bytes under way, the last of them one clock later
\* in its RAM; it has seen the end of a byte, or sees it in this clock.
Filled ==
  /\ \A i \in 0..rx_byte_cnt - 1 : Settled[i] = flight[i + 1]
  /\ ByteEnds(UART_Interface_rx_busy) => UART_Interface_rx_data = flight[rx_byte_cnt + 1]
  /\ UART_Interface_rx_busy = 1 <=> rx_state = "receive"
  /\ rx_byte_cnt > 0 => RX_Busy = 1

ArrayInv ==
  /\ TypeOK /\ Counting
  /\ SendControl /\ Unsent /\ Filled
  /\ Received + Ahead <= Len(flight)
  /\ Link!LinkInv

\* The transmitter takes a byte.
Takes == tx_state = 2 /\ UART_Interface_tx_busy = 0

\* The bytes that a message handed over takes from those under way.
Gone == IF Ends THEN Received ELSE 0

LEMMA AheadRange ==
  ASSUME TypeOK, Counting
  PROVE  /\ Ahead \in 0..tx_bytes_buf /\ tx_bytes_buf \in 0..Max_Bytes /\ Max_Bytes \in Nat
         /\ tx_byte_cnt \in Nat /\ Len(flight) \in Nat /\ flight \in Seq(Byte)
         /\ tx_state # 0 => tx_byte_cnt < tx_bytes_buf
         /\ Takes => Ahead = tx_bytes_buf - tx_byte_cnt /\ Ahead >= 1
<1>1. /\ tx_state \in 0..2 /\ tx_byte_cnt \in 0..Max_Bytes /\ tx_bytes_buf \in 0..Max_Bytes
      /\ flight \in Seq(Byte) /\ Len(flight) \in Nat /\ Max_Bytes \in Nat
      /\ tx_state # 0 => tx_byte_cnt < tx_bytes_buf
  BY Constants DEF TypeOK, SendType, Counting
<1> QED
  BY <1>1 DEF Ahead, Takes

\* What the transmitter does for TX_Controller in a clock.
LEMMA TransmitterServes ==
  ASSUME TypeOK, SendControl, Next
  PROVE  /\ Link!Accepts(Reset, tx_ena) <=> Takes
         /\ Reset = 0 /\ uart_tx_state = "idle" => UART_Interface_tx_busy' = tx_ena
         /\ Reset = 0 /\ uart_tx_state = "transmit" =>
              UART_Interface_tx_busy' = UART_Interface_tx_busy
         /\ Takes => uart_tx_state' = "transmit"
         /\ uart_tx_state' = "transmit" => UART_Interface_tx_busy' = 1
         /\ Reset \in {0, 1} /\ uart_tx_state \in {"idle", "transmit"} /\ tx_ena \in {0, 1}
         /\ UART_Interface_tx_busy \in {0, 1} /\ tx_state \in 0..2
<1>1. /\ Reset \in {0, 1} /\ uart_tx_state \in {"idle", "transmit"} /\ tx_ena \in {0, 1}
      /\ UART_Interface_tx_busy \in {0, 1} /\ tx_state \in 0..2
  BY DEF TypeOK, SendType, Sender!TransmitType
<1>2. Link!Accepts(Reset, tx_ena) <=> Takes
  BY <1>1 DEF Link!Accepts, Takes, SendControl
<1>3. \/ Reset = 1 /\ Sender!TransmitReset
      \/ Reset = 0 /\ (Sender!Idle(tx_ena, tx_data) \/ Sender!Sending(s_baud_pulse))
  BY DEF Next, Sender!Transmit
<1> QED
  BY <1>1, <1>2, <1>3
     DEF Sender!TransmitReset, Sender!Idle, Sender!Sending, Takes, SendControl

\* The user changes the array only when TX_Controller is idle and not asked.
LEMMA UserWaits ==
  ASSUME TypeOK, SendControl, Next
  PROVE  /\ tx_state # 0 \/ TX_Enable = 1 => UNCHANGED <<TX_Data, TX_Bytes>>
         /\ Reset' \in {0, 1} /\ (Reset = 0 => Reset' = 0)
         /\ Reset = 1 => TX_Enable' = 0
<1>1. Reset \in {0, 1} /\ TX_Enable \in {0, 1} /\ TX_Busy \in {0, 1}
  BY DEF TypeOK, SendType
<1>2. Reset' \in {0, 1} /\ (Reset = 0 => Reset' = 0) /\ (Ask \/ Watch)
  BY <1>1 DEF Next, User
<1> QED
  BY <1>1, <1>2 DEF Ask, Watch, SendControl

LEMMA ControlStep ==
  ASSUME TypeOK, Counting, SendControl, Next
  PROVE  /\ SendControl'
         /\ Ahead' = Ahead - (IF Takes THEN 1 ELSE 0)
                     + (IF Reset = 0 /\ Starts(TX_Enable, TX_Bytes) THEN TX_Bytes ELSE 0)
         /\ tx_bytes_buf' = IF Reset = 0 /\ Starts(TX_Enable, TX_Bytes)
                            THEN TX_Bytes ELSE tx_bytes_buf
         /\ Starts(TX_Enable, TX_Bytes) => Ahead = 0 /\ ~Takes
<1>1. /\ tx_byte_cnt \in Nat /\ tx_bytes_buf \in Nat /\ TX_Bytes \in Nat
      /\ TX_Busy \in {0, 1} /\ tx_ena \in {0, 1}
      /\ tx_state # 0 => tx_byte_cnt < tx_bytes_buf
  BY Constants DEF TypeOK, SendType, Counting
<1> DEFINE busy == UART_Interface_tx_busy
<1>2. Starts(TX_Enable, TX_Bytes) => Ahead = 0 /\ ~Takes
  BY DEF Starts, Ahead, Takes
<1>3. CASE Reset = 1
  <2>1. SendReset /\ tx_state = 0
    BY <1>3 DEF Next, TX_Controller, SendControl
  <2> QED
    BY <1>1, <1>2, <1>3, <2>1, UserWaits, TransmitterServes DEF SendReset, SendControl, Ahead, Takes
<1>4. CASE Reset = 0 /\ StartArray(TX_Enable, TX_Bytes)
  <2>1. tx_state = 0 /\ ~Takes /\ Ahead = 0 /\ tx_ena = 0 /\ tx_ena' = 0
    BY <1>1, <1>4 DEF StartArray, SendControl, Takes, Ahead
  <2>2. tx_state' \in {0, 1} /\ (tx_state' = 1 => TX_Bytes > 0 /\ tx_byte_cnt' = 0
          /\ tx_bytes_buf' = TX_Bytes /\ tx_rAddr' = 0)
        /\ (tx_state' = 1 <=> Starts(TX_Enable, TX_Bytes))
        /\ (TX_Busy' = 1 <=> tx_state' = 1)
        /\ (~Starts(TX_Enable, TX_Bytes) => tx_bytes_buf' = tx_bytes_buf)
    BY <1>1, <1>4 DEF StartArray, SendControl, Starts
  <2>3. Ahead' = IF Starts(TX_Enable, TX_Bytes) THEN TX_Bytes ELSE 0
    BY <1>1, <2>2 DEF Ahead
  <2> QED
    BY <1>1, <1>2, <1>4, <2>1, <2>2, <2>3, UserWaits, TransmitterServes DEF SendControl
<1>5. CASE Reset = 0 /\ HandOver(busy, TX_Data)
  <2>1. tx_state = 1 /\ ~Takes /\ ~Starts(TX_Enable, TX_Bytes) /\ tx_ena = 0
        /\ UNCHANGED <<TX_Data, tx_byte_cnt, tx_bytes_buf, tx_rAddr, TX_Busy>>
    BY <1>1, <1>5, UserWaits DEF HandOver, SendControl, Takes, Starts
  <2>2. CASE busy = 0
    <3>1. tx_state' = 2 /\ tx_ena' = 1 /\ tx_data' = TX_Data[tx_rAddr]
      BY <1>5, <2>2 DEF HandOver
    <3>2. busy' = 0
      BY <1>5, <2>1, <2>2, TransmitterServes DEF SendControl
    <3>3. Ahead' = Ahead
      BY <1>1, <2>1, <3>1, <3>2 DEF Ahead
    <3> QED
      BY <1>1, <1>5, <2>1, <3>1, <3>2, <3>3, AheadRange, UserWaits, TransmitterServes
         DEF SendControl
  <2>3. CASE busy = 1
    <3>1. tx_state' = 1 /\ tx_ena' = 0
      BY <1>5, <2>1, <2>3 DEF HandOver
    <3>2. Ahead' = Ahead
      BY <1>1, <2>1, <3>1 DEF Ahead
    <3> QED
      BY <1>1, <1>5, <2>1, <3>1, <3>2, AheadRange, UserWaits, TransmitterServes DEF SendControl
  <2> QED
    BY <2>2, <2>3, TransmitterServes
<1>6. CASE Reset = 0 /\ Taken(busy)
  <2>1. tx_state = 2 /\ ~Starts(TX_Enable, TX_Bytes) /\ tx_ena = 1
        /\ UNCHANGED <<TX_Data, tx_bytes_buf, tx_data>>
    BY <1>1, <1>6, UserWaits DEF Taken, SendControl, Starts
  <2>2. CASE busy = 0
    <3>1. Takes /\ uart_tx_state' = "transmit" /\ busy' = 1
          /\ UNCHANGED <<tx_ena, tx_state, TX_Busy, tx_byte_cnt, tx_rAddr>>
      BY <1>6, <2>1, <2>2, TransmitterServes DEF Taken, Takes
    <3>2. Ahead' = Ahead - 1
      BY <1>1, <2>1, <2>2, <3>1 DEF Ahead
    <3> QED
      BY <1>1, <1>6, <2>1, <3>1, <3>2, AheadRange, UserWaits DEF SendControl
  <2>3. CASE busy = 1
    <3>1. ~Takes /\ tx_ena' = 0 /\ uart_tx_state = "transmit"
      BY <1>6, <2>1, <2>3 DEF Taken, Takes, SendControl
    <3>2. CASE tx_byte_cnt = tx_bytes_buf - 1
      <4>1. tx_state' = 0 /\ TX_Busy' = 0
        BY <1>6, <2>3, <3>2 DEF Taken
      <4>2. Ahead' = Ahead
        BY <1>1, <2>1, <2>3, <3>2, <4>1 DEF Ahead
      <4> QED
        BY <1>1, <1>6, <2>1, <3>1, <4>1, <4>2, AheadRange, UserWaits, TransmitterServes
           DEF SendControl
    <3>3. CASE tx_byte_cnt # tx_bytes_buf - 1
      <4>1. tx_state' = 1 /\ TX_Busy' = TX_Busy /\ tx_byte_cnt' = tx_byte_cnt + 1
            /\ tx_rAddr' = tx_byte_cnt + 1
        BY <1>6, <2>3, <3>3 DEF Taken
      <4>2. Ahead' = Ahead
        BY <1>1, <2>1, <2>3, <4>1 DEF Ahead
      <4> QED
        BY <1>1, <1>6, <2>1, <3>1, <3>3, <4>1, <4>2, AheadRange, UserWaits, TransmitterServes
           DEF SendControl
    <3> QED
      BY <3>2, <3>3
  <2> QED
    BY <2>2, <2>3, TransmitterServes
<1> QED
  BY <1>3, <1>4, <1>5, <1>6 DEF Next, TX_Controller

-----------------------------------------------------------------------------
(* Every clock is one of the link                                          *)

\* What RX_Controller and the receiver that serves it do in a clock.
LEMMA CollectStep ==
  ASSUME TypeOK, Counting, Filled, Next
  PROVE  /\ ByteEnds(UART_Interface_rx_busy)' <=> Link!Arrives
         /\ UART_Interface_rx_busy' = 1 <=> rx_state' = "receive"
         /\ Received' = Received - Gone + IF Link!Arrives THEN 1 ELSE 0
         /\ rx_byte_cnt' = Received - Gone
         /\ Received \in Nat /\ Gone \in {0, Received} /\ rx_byte_cnt \in Nat
         /\ Ends => rx_byte_cnt' = 0
<1> DEFINE busy == UART_Interface_rx_busy
<1>1. /\ Received \in 0..Max_Bytes /\ rx_byte_cnt \in Slots /\ Max_Bytes \in Nat
      /\ busy \in {0, 1} /\ os_pulse \in {0, 1} /\ rx_state \in {"idle", "receive"}
      /\ os_count \in Nat /\ rx_count \in Nat /\ OS_Rate \in Nat /\ Parity \in Nat /\ D_Width \in Nat
  BY Constants, CountReceived, ArrayAssumption
     DEF ArrayAssumption, TypeOK, Receiver!ReceiveType, ReceiverClock!ClockType
<1>2. /\ Gone \in {0, Received} /\ rx_byte_cnt' = Received - Gone /\ busy_prev' = busy
      /\ Ends => rx_byte_cnt' = 0
      /\ Received' = rx_byte_cnt' + IF busy = 1 /\ busy' = 0 THEN 1 ELSE 0
  <2>1. Close(busy) /\ busy_prev' = busy
    BY DEF Next, RX_Controller
  <2> QED
    BY <1>1, <2>1 DEF Close, Gone, Ends, MessageEnds, Received, ByteEnds, Collected
<1>3. Received \in Nat /\ rx_byte_cnt \in Nat
  BY <1>1 DEF Slots
<1>4. Receiver!Receive(0, os_pulse, TX)
  BY DEF Next
<1>5. CASE Link!Arrives
  <2>1. /\ rx_state = "receive" /\ os_pulse = 1 /\ ~(os_count < OS_Rate - 1)
        /\ ~(rx_count < Parity + D_Width)
    BY <1>1, <1>5 DEF Link!Arrives, Link!Received, Link!Centre
  <2>2. Receiver!StopBit(TX)
    BY <1>4, <2>1 DEF Receiver!Receive, Receiver!Listen, Receiver!StartBit, Receiver!Wait,
                      Receiver!DataBit
  <2>3. busy = 1 /\ busy' = 0 /\ rx_state' = "idle"
    BY <2>1, <2>2 DEF Receiver!StopBit, Filled
  <2>4. Received' = Received - Gone + 1 /\ ByteEnds(UART_Interface_rx_busy)'
    BY <1>1, <1>2, <2>3 DEF ByteEnds
  <2>5. busy' = 1 <=> rx_state' = "receive"
    BY <2>3
  <2> QED
    BY <1>2, <1>5, <1>3, <2>4, <2>5, Zenon
<1>6. CASE ~Link!Arrives
  <2>1. ~(os_pulse = 1 /\ Receiver!StopBit(TX))
    BY <1>6 DEF Link!Arrives, Link!Received, Link!Centre, Receiver!StopBit, Receiver!Centre
  <2>2. (busy' = 1 <=> rx_state' = "receive") /\ ~(busy = 1 /\ busy' = 0)
    BY <1>1, <1>4, <2>1
       DEF Receiver!Receive, Receiver!Listen, Receiver!StartBit, Receiver!Wait, Receiver!DataBit,
           Receiver!Centre, Receiver!rxVars, Filled
  <2>3. Received' = Received - Gone + 0 /\ ~ByteEnds(UART_Interface_rx_busy)'
    BY <1>1, <1>2, <2>2 DEF ByteEnds
  <2> QED
    BY <1>2, <1>6, <1>3, <2>2, <2>3, Zenon
<1> QED
  BY <1>5, <1>6, Zenon

\* The bytes under way after a clock.
LEMMA FlightStep ==
  ASSUME TypeOK, Counting, Filled, Received + Ahead <= Len(flight), Next
  PROVE  LET m == IF Reset = 0 /\ Starts(TX_Enable, TX_Bytes) THEN TX_Bytes ELSE 0
         IN  /\ m \in Nat /\ Gone \in 0..Len(flight)
             /\ flight' \in Seq(Byte) /\ Len(flight') = Len(flight) - Gone + m
             /\ \A j \in 1..Len(flight) - Gone : flight'[j] = flight[j + Gone]
             /\ \A j \in 1..m : flight'[Len(flight) - Gone + j] = TX_Data[j - 1]
<1> DEFINE kept == SubSeq(flight, Gone + 1, Len(flight))
           m == IF Reset = 0 /\ Starts(TX_Enable, TX_Bytes) THEN TX_Bytes ELSE 0
<1>1. /\ flight \in Seq(Byte) /\ Len(flight) \in Nat /\ Received \in Nat /\ Ahead \in Nat
      /\ Gone \in 0..Len(flight) /\ TX_Bytes \in 0..Max_Bytes /\ TX_Data \in [Slots -> Byte]
      /\ Received <= Len(flight)
  BY AheadRange, CollectStep DEF TypeOK
<1>2. flight' = IF Reset = 0 /\ Starts(TX_Enable, TX_Bytes) THEN kept \o Message ELSE kept
  <2>1. ~(Received > Len(flight))
    BY <1>1
  <2>2. Gone = IF ~Ends THEN 0 ELSE IF Received > Len(flight) THEN Len(flight) ELSE Received
    BY <2>1 DEF Gone
  <2> QED
    BY <2>2 DEF Next
<1>3. /\ kept \in Seq(Byte) /\ Len(kept) = Len(flight) - Gone
      /\ \A j \in 1..Len(flight) - Gone : kept[j] = flight[j + Gone]
  <2>1. \A i \in Gone + 1..Len(flight) : flight[i] \in Byte
    BY <1>1
  <2>2. /\ kept \in Seq(Byte)
        /\ Len(kept) = IF Gone + 1 <= Len(flight) THEN Len(flight) - (Gone + 1) + 1 ELSE 0
        /\ \A j \in 1..Len(flight) - (Gone + 1) + 1 : kept[j] = flight[Gone + 1 + j - 1]
    BY <1>1, <2>1, SubSeqProperties
  <2> HIDE DEF kept
  <2> QED
    BY <1>1, <2>2
<1>4. /\ Message \in Seq(Byte) /\ Len(Message) = TX_Bytes
      /\ \A j \in 1..TX_Bytes : Message[j] = TX_Data[j - 1]
  BY <1>1, Constants DEF Message, Slots
<1> HIDE DEF kept
<1>5. CASE Reset = 0 /\ Starts(TX_Enable, TX_Bytes)
  <2>1. /\ flight' \in Seq(Byte) /\ Len(flight') = Len(kept) + Len(Message)
        /\ \A i \in 1..Len(kept) + Len(Message) :
             flight'[i] = IF i <= Len(kept) THEN kept[i] ELSE Message[i - Len(kept)]
    BY <1>2, <1>3, <1>4, <1>5, ConcatProperties
  <2>2. ASSUME NEW j \in 1..Len(flight) - Gone PROVE flight'[j] = flight[j + Gone]
    <3>1. j \in 1..Len(kept) + Len(Message) /\ j <= Len(kept)
      BY <1>1, <1>3, <1>4, Constants
    <3> QED
      BY <1>3, <2>1, <3>1
  <2>3. ASSUME NEW j \in 1..TX_Bytes
        PROVE  flight'[Len(flight) - Gone + j] = TX_Data[j - 1]
    <3> DEFINE at == Len(flight) - Gone + j
    <3>1. at \in 1..Len(kept) + Len(Message) /\ ~(at <= Len(kept)) /\ at - Len(kept) = j
      BY <1>1, <1>3, <1>4, Constants
    <3> HIDE DEF at
    <3>2. flight'[at] = Message[at - Len(kept)]
      BY <2>1, <3>1
    <3>3. flight'[at] = TX_Data[j - 1]
      BY <1>4, <3>1, <3>2
    <3> QED
      BY <3>3 DEF at
  <2> QED
    BY <1>1, <1>3, <1>4, <1>5, <2>1, <2>2, <2>3, Constants
<1>6. CASE ~(Reset = 0 /\ Starts(TX_Enable, TX_Bytes))
  BY <1>1, <1>2, <1>3, <1>6
<1> QED
  BY <1>5, <1>6

\* The elements and the length of a window of a sequence.
LEMMA WindowOf ==
  ASSUME NEW S, NEW s \in Seq(S)
  PROVE  \A x, y \in Int : (\A k \in x..y : s[k] \in S) =>
           /\ SubSeq(s, x, y) \in Seq(S) /\ Len(SubSeq(s, x, y)) = IF x <= y THEN y - x + 1 ELSE 0
           /\ \A k \in 1..y - x + 1 : SubSeq(s, x, y)[k] = s[x + k - 1]
BY SubSeqProperties

\* The same window of two sequences, one of which has lost g elements in front.
LEMMA WindowShifts ==
  ASSUME NEW S, NEW s \in Seq(S), NEW t \in Seq(S), NEW g \in Nat,
         NEW a \in Nat \ {0}, NEW b \in Nat, b <= Len(t), b + g <= Len(s),
         \A k \in 1..b : t[k] = s[k + g]
  PROVE  SubSeq(t, a, b) = SubSeq(s, a + g, b + g)
<1>1. /\ SubSeq(t, a, b) \in Seq(S) /\ Len(SubSeq(t, a, b)) = IF a <= b THEN b - a + 1 ELSE 0
      /\ \A k \in 1..b - a + 1 : SubSeq(t, a, b)[k] = t[a + k - 1]
  <2>1. \A k \in a..b : t[k] \in S
    OBVIOUS
  <2> QED
    BY <2>1, SubSeqProperties
<1> DEFINE moved == SubSeq(s, a + g, b + g)
<1>2. /\ moved \in Seq(S) /\ Len(moved) = IF a <= b THEN b - a + 1 ELSE 0
      /\ \A k \in 1..b - a + 1 : moved[k] = s[a + g + k - 1]
  <2>1. \A k \in a + g..b + g : s[k] \in S
    OBVIOUS
  <2>2. /\ moved \in Seq(S) /\ Len(moved) = IF a + g <= b + g THEN b + g - (a + g) + 1 ELSE 0
        /\ \A k \in 1..b + g - (a + g) + 1 : moved[k] = s[a + g + k - 1]
    <3>1. a + g \in Nat \ {0} /\ b + g \in Nat
      OBVIOUS
    <3>2. PICK x \in Int, y \in Int : x = a + g /\ y = b + g
      BY <3>1
    <3>3. \A k \in x..y : s[k] \in S
      BY <2>1, <3>2
    <3>4. /\ SubSeq(s, x, y) \in Seq(S) /\ Len(SubSeq(s, x, y)) = IF x <= y THEN y - x + 1 ELSE 0
          /\ \A k \in 1..y - x + 1 : SubSeq(s, x, y)[k] = s[x + k - 1]
      BY <3>2, <3>3, WindowOf
    <3> QED
      BY <3>2, <3>4
  <2> HIDE DEF moved
  <2> QED
    BY <2>2
<1> HIDE DEF moved
<1>3. ASSUME NEW k \in 1..Len(SubSeq(t, a, b)) PROVE SubSeq(t, a, b)[k] = moved[k]
  <2> DEFINE at == a + k - 1
  <2>1. k \in 1..b - a + 1 /\ at \in 1..b /\ at + g = a + g + k - 1
    BY <1>1
  <2>2. SubSeq(t, a, b)[k] = t[at] /\ moved[k] = s[a + g + k - 1]
    BY <1>1, <1>2, <2>1
  <2> HIDE DEF at
  <2>3. t[at] = s[at + g]
    BY <2>1
  <2> QED
    BY <2>1, <2>2, <2>3
<1>4. Len(SubSeq(t, a, b)) = Len(moved)
  BY <1>1, <1>2
<1>5. SubSeq(t, a, b) = moved
  BY <1>1, <1>2, <1>3, <1>4, SeqEqual
<1> QED
  BY <1>5 DEF moved

\* A window that is one element longer.
LEMMA WindowGrows ==
  ASSUME NEW S, NEW s \in Seq(S), NEW a \in Nat \ {0}, NEW b \in Nat,
         a <= b + 1, b + 1 <= Len(s)
  PROVE  SubSeq(s, a, b + 1) = Append(SubSeq(s, a, b), s[b + 1])
<1>1. a \in 1..Len(s) /\ b + 1 \in a..Len(s) /\ (b + 1) - 1 = b /\ s[b + 1] \in S
  OBVIOUS
<1>2. SubSeq(s, a, b + 1) = SubSeq(s, a, (b + 1) - 1) \o <<s[b + 1]>>
  BY <1>1, SubSeqRecursiveSecond
<1>3. SubSeq(s, a, b) \in Seq(S)
  <2>1. \A k \in a..b : s[k] \in S
    OBVIOUS
  <2> QED
    BY <2>1, SubSeqProperties
<1> QED
  BY <1>1, <1>2, <1>3, AppendIsConcat

\* The wire of the link: what the receiver hands over leaves it, what the
\* transmitter takes comes behind.
LEMMA WireMoves ==
  ASSUME ArrayInv, Next, Link!Arrives => OnWire # <<>>
  PROVE  LET kept == IF Link!Arrives THEN Tail(OnWire) ELSE OnWire
         IN  /\ OnWire' = IF Takes THEN Append(kept, tx_data) ELSE kept
             /\ Received' + Ahead' <= Len(flight')
<1> DEFINE out == IF Link!Arrives THEN 1 ELSE 0
           in == IF Takes THEN 1 ELSE 0
           m == IF Reset = 0 /\ Starts(TX_Enable, TX_Bytes) THEN TX_Bytes ELSE 0
           j == Len(flight) - Ahead
<1>1. /\ TypeOK /\ Counting /\ SendControl /\ Unsent /\ Filled
      /\ Received + Ahead <= Len(flight)
  BY DEF ArrayInv
<1>2. /\ flight \in Seq(Byte) /\ Len(flight) \in Nat /\ Ahead \in Nat /\ Received \in Nat
      /\ Gone \in {0, Received} /\ Received <= j /\ j \in Nat
  BY <1>1, AheadRange, CollectStep
<1>3. /\ m \in Nat /\ flight' \in Seq(Byte) /\ Len(flight') = Len(flight) - Gone + m
      /\ \A i \in 1..Len(flight) - Gone : flight'[i] = flight[i + Gone]
  BY <1>1, FlightStep
<1>4. /\ out \in {0, 1} /\ in \in {0, 1} /\ (out = 1 <=> Link!Arrives) /\ (in = 1 <=> Takes)
  OBVIOUS
<1>5. Ahead' = Ahead - in + m
  BY <1>1, ControlStep
<1>6. Received' = Received - Gone + out
  BY <1>1, CollectStep
<1>7. in = 1 => Ahead >= 1 /\ tx_data = flight[j + 1]
  <2>1. ASSUME in = 1 PROVE Ahead >= 1 /\ tx_data = flight[j + 1]
    <3>1. Takes /\ Ahead = tx_bytes_buf - tx_byte_cnt /\ Ahead >= 1 /\ tx_byte_cnt \in Nat
          /\ tx_bytes_buf \in Nat
      BY <1>1, <2>1, AheadRange
    <3>2. tx_data = TX_Data[tx_byte_cnt]
      BY <1>1, <3>1 DEF Takes, SendControl
    <3>3. /\ tx_byte_cnt \in tx_bytes_buf - Ahead..tx_bytes_buf - 1
          /\ Len(flight) - tx_bytes_buf + tx_byte_cnt + 1 = j + 1
      BY <1>2, <3>1
    <3>4. flight[Len(flight) - tx_bytes_buf + tx_byte_cnt + 1] = TX_Data[tx_byte_cnt]
      BY <1>1, <3>3 DEF Unsent
    <3> QED
      BY <3>1, <3>2, <3>3, <3>4
  <2> QED
    BY <2>1
<1>8. out = 1 => Received < j
  <2>1. ASSUME out = 1, ~(Received < j) PROVE FALSE
    <3>1. Received + 1 \in Int /\ j \in Int /\ j < Received + 1
      BY <1>2, <2>1
    <3>2. OnWire = <<>>
      BY <3>1, SubSeqEmpty DEF OnWire
    <3> QED
      BY <1>4, <2>1, <3>2
  <2> QED
    BY <2>1
<1> HIDE DEF out, in, m, j
<1>9. /\ Gone \in Nat /\ Gone <= Received /\ j + in <= Len(flight) /\ j - Gone + in <= Len(flight')
      /\ \A k \in 1..j - Gone + in : flight'[k] = flight[k + Gone]
      /\ Received' + Ahead' <= Len(flight')
      /\ Received' + 1 = Received - Gone + out + 1 /\ Len(flight') - Ahead' = j - Gone + in
  <2>1. j = Len(flight) - Ahead
    BY DEF j
  <2>2. j + in <= Len(flight)
    BY <1>2, <1>4, <1>7, <2>1
  <2>3. j - Gone + in <= Len(flight) - Gone /\ Gone \in Nat /\ Gone <= Received
    BY <1>2, <1>4, <2>2
  <2>4. \A k \in 1..j - Gone + in : k \in 1..Len(flight) - Gone
    BY <1>2, <1>4, <2>3
  <2>5. Len(flight') - Ahead' = j - Gone + in
    BY <1>2, <1>3, <1>4, <1>5, <2>1
  <2>6. Received' + Ahead' <= Len(flight')
    BY <1>2, <1>3, <1>4, <1>5, <1>6, <1>8, <2>1
  <2>7. \A k \in 1..j - Gone + in : flight'[k] = flight[k + Gone]
    BY <1>3, <2>4
  <2>8. j - Gone + in <= Len(flight') /\ Received' + 1 = Received - Gone + out + 1
    BY <1>2, <1>3, <1>4, <1>6, <2>3
  <2> QED
    BY <2>2, <2>3, <2>5, <2>6, <2>7, <2>8
<1> DEFINE kept == IF Link!Arrives THEN Tail(OnWire) ELSE OnWire
<1>10. OnWire = SubSeq(flight, Received + 1, j)
  BY DEF OnWire, j
<1>11. kept = SubSeq(flight, Received + out + 1, j)
  <2>1. CASE out = 0
    <3>1. Received + out + 1 = Received + 1
      BY <1>2, <2>1
    <3>2. kept = OnWire
      BY <1>4, <2>1
    <3> QED
      BY <1>10, <3>1, <3>2
  <2>2. CASE out = 1
    <3>1. Received + 1 \in 1..Len(flight) /\ j \in Received + 1..Len(flight)
          /\ Received + out + 1 = Received + 1 + 1
      BY <1>2, <1>4, <1>8, <1>9, <2>2
    <3>2. Tail(SubSeq(flight, Received + 1, j)) = SubSeq(flight, Received + 1 + 1, j)
      BY <1>2, <3>1, HeadTailOfSubSeq
    <3> QED
      BY <1>4, <1>10, <2>2, <3>1, <3>2
  <2> QED
    BY <1>4, <2>1, <2>2
<1> HIDE DEF kept
<1>12. SubSeq(flight, Received + out + 1, j + in) = IF Takes THEN Append(kept, tx_data) ELSE kept
  <2>1. CASE in = 0
    BY <1>2, <1>4, <1>11, <2>1
  <2>2. CASE in = 1
    <3>1. /\ Received + out + 1 \in Nat \ {0} /\ Received + out + 1 <= j + 1
          /\ j + 1 <= Len(flight)
      BY <1>2, <1>4, <1>8, <1>9, <2>2
    <3>2. SubSeq(flight, Received + out + 1, j + 1)
            = Append(SubSeq(flight, Received + out + 1, j), flight[j + 1])
      BY <1>2, <3>1, WindowGrows
    <3> QED
      BY <1>4, <1>7, <1>11, <2>2, <3>2
  <2> QED
    BY <1>4, <2>1, <2>2
<1>13. OnWire' = SubSeq(flight, Received + out + 1, j + in)
  <2>1. OnWire' = SubSeq(flight', Received - Gone + out + 1, j - Gone + in)
    BY <1>9 DEF OnWire
  <2> DEFINE a == Received - Gone + out + 1
             b == j - Gone + in
  <2>2. /\ a \in Nat \ {0} /\ b \in Nat /\ b <= Len(flight') /\ b + Gone <= Len(flight)
        /\ a + Gone = Received + out + 1 /\ b + Gone = j + in
    BY <1>2, <1>4, <1>9
  <2>3. \A k \in 1..b : flight'[k] = flight[k + Gone]
    BY <1>9
  <2> HIDE DEF a, b
  <2>4. SubSeq(flight', a, b) = SubSeq(flight, a + Gone, b + Gone)
    BY <1>2, <1>3, <1>9, <2>2, <2>3, WindowShifts
  <2> QED
    BY <2>1, <2>2, <2>4 DEF a, b
<1> QED
  BY <1>9, <1>12, <1>13 DEF kept

\* The user of the link is TX_Controller.
LEMMA ControllerIsUser ==
  ASSUME ArrayInv, Next
  PROVE  Link!User
<1> DEFINE busy == UART_Interface_tx_busy
<1>1. TypeOK /\ Counting /\ SendControl
  BY DEF ArrayInv
<1>2. Reset' \in 0..Reset /\ 0 \in 0..0 /\ Reset \in {0, 1} /\ busy \in {0, 1} /\ tx_ena \in {0, 1}
  BY <1>1, TransmitterServes DEF Next, User
<1>3. \/ tx_ena = 0 /\ busy = 0 /\ Reset = 0 /\ tx_ena' = 1 /\ tx_data' \in Byte
      \/ tx_ena = 1 /\ busy = 1 /\ tx_ena' = 0 /\ UNCHANGED tx_data
      \/ UNCHANGED <<tx_ena, tx_data>>
  <2>1. tx_data' \in Byte
    BY <1>1, NextTypes DEF TypeOK, SendType
  <2>2. CASE Reset = 1
    BY <1>1, <1>2, <2>2 DEF Next, TX_Controller, SendReset, SendControl
  <2>3. CASE Reset = 0
    BY <1>1, <1>2, <2>1, <2>3
       DEF Next, TX_Controller, StartArray, HandOver, Taken, SendControl
  <2> QED
    BY <1>2, <2>2, <2>3
<1> QED
  BY <1>2, <1>3 DEF Link!User

LEMMA LinkNext ==
  ASSUME Link!SamplesFit, ArrayInv, Next
  PROVE  Link!Next /\ Link!LinkInv' /\ (Link!Arrives => OnWire # <<>>)
<1>1. Link!LinkInv /\ TypeOK /\ SendControl
  BY DEF ArrayInv
<1>2. Link!Arrives => OnWire # <<>>
  BY <1>1, Link!ReceivedBits, ArrayAssumption DEF ArrayAssumption
<1>3. LET kept == IF Link!Arrives /\ OnWire # <<>> THEN Tail(OnWire) ELSE OnWire
      IN  OnWire' = IF Link!Accepts(Reset, tx_ena) THEN Append(kept, tx_data) ELSE kept
  <2>1. Link!Accepts(Reset, tx_ena) <=> Takes
    BY <1>1, TransmitterServes
  <2> QED
    BY <1>2, <2>1, WireMoves
<1>4. Link!Next
  BY <1>3, ControllerIsUser, SameTransmitter, SameReceiver, SameClocks DEF Next, Link!Next
<1> QED
  BY <1>1, <1>2, <1>4, Link!LinkStep, ArrayAssumption DEF ArrayAssumption

-----------------------------------------------------------------------------
(* The invariant is kept                                                   *)

LEMMA InitArray == Init => ArrayInv
<1> SUFFICES ASSUME Init PROVE ArrayInv
  OBVIOUS
<1>1. TypeOK /\ Counting
  BY InitTypes
<1>2. flight = <<>> /\ Ahead = 0 /\ Received = 0 /\ Len(flight) = 0
  BY DEF Init, SendInit, CollectInit, Ahead, Received, Collected, ByteEnds
<1>3. SendControl
  BY DEF Init, SendInit, Sender!TransmitInit, SendControl
<1>4. Unsent
  <2>1. tx_bytes_buf = 0
    BY DEF Init, SendInit
  <2> QED
    BY <1>2, <2>1 DEF Unsent
<1>5. Filled
  BY DEF Init, CollectInit, Receiver!ReceiveInit, Filled, ByteEnds
<1>6. OnWire = <<>>
  BY <1>2, SubSeqEmpty DEF OnWire
<1>7. Link!Init
  <2>1. tx_data \in Byte /\ tx_ena = 0
    BY Constants DEF Init, SendInit
  <2> QED
    BY <1>6, <2>1, SameTransmitter, SameReceiver, SameClocks DEF Init, Link!Init
<1>8. Link!LinkInv
  BY <1>7, Link!InitLink, ArrayAssumption DEF ArrayAssumption
<1> QED
  BY <1>1, <1>2, <1>3, <1>4, <1>5, <1>8 DEF ArrayInv

LEMMA UnsentStep ==
  ASSUME ArrayInv, Next
  PROVE  Unsent'
<1> DEFINE m == IF Reset = 0 /\ Starts(TX_Enable, TX_Bytes) THEN TX_Bytes ELSE 0
           in == IF Takes THEN 1 ELSE 0
<1>1. /\ TypeOK /\ Counting /\ SendControl /\ Unsent /\ Filled
      /\ Received + Ahead <= Len(flight)
  BY DEF ArrayInv
<1>2. /\ Len(flight) \in Nat /\ Ahead \in 0..tx_bytes_buf /\ tx_bytes_buf \in Nat
      /\ Gone \in {0, Received} /\ Received \in Nat
      /\ Takes => Ahead >= 1
  BY <1>1, AheadRange, CollectStep
<1>3. /\ m \in Nat /\ Len(flight') = Len(flight) - Gone + m
      /\ \A i \in 1..Len(flight) - Gone : flight'[i] = flight[i + Gone]
      /\ \A i \in 1..m : flight'[Len(flight) - Gone + i] = TX_Data[i - 1]
  BY <1>1, FlightStep
<1>4. Ahead' = Ahead - in + m /\ (Starts(TX_Enable, TX_Bytes) => Ahead = 0 /\ ~Takes)
  BY <1>1, ControlStep
<1>5. Gone \in Nat /\ Gone + Ahead <= Len(flight)
  BY <1>1, <1>2
<1>6. Len(flight') = Len(flight) - Gone + m /\ m \in Nat
  BY <1>3
<1> HIDE DEF m, in
<1>7. CASE Reset = 0 /\ Starts(TX_Enable, TX_Bytes)
  <2>1. tx_bytes_buf' = TX_Bytes /\ m = TX_Bytes /\ Ahead' = TX_Bytes /\ TX_Data' = TX_Data
    BY <1>1, <1>2, <1>3, <1>4, <1>7, ControlStep, UserWaits DEF Starts, m, in
  <2>2. ASSUME NEW i \in 0..TX_Bytes - 1
        PROVE  flight'[Len(flight') - TX_Bytes + i + 1] = TX_Data[i]
    <3>1. /\ i + 1 \in 1..m /\ i + 1 - 1 = i
          /\ Len(flight') - TX_Bytes + i + 1 = Len(flight) - Gone + (i + 1)
      BY <1>2, <1>5, <1>6, <2>1
    <3>2. flight'[Len(flight) - Gone + (i + 1)] = TX_Data[i + 1 - 1]
      BY <1>3, <3>1
    <3> QED
      BY <3>1, <3>2
  <2>3. TX_Bytes - TX_Bytes = 0
    BY <1>3, <2>1
  <2> QED
    BY <2>1, <2>2, <2>3 DEF Unsent
<1>8. CASE ~(Reset = 0 /\ Starts(TX_Enable, TX_Bytes))
  <2>1. tx_bytes_buf' = tx_bytes_buf /\ m = 0 /\ Ahead' = Ahead - in /\ in \in {0, 1}
    BY <1>1, <1>2, <1>4, <1>8, ControlStep DEF m, in
  <2>2. ASSUME NEW i \in tx_bytes_buf' - Ahead'..tx_bytes_buf' - 1
        PROVE  flight'[Len(flight') - tx_bytes_buf' + i + 1] = TX_Data'[i]
    <3>1. Ahead # 0 /\ i \in tx_bytes_buf - Ahead..tx_bytes_buf - 1 /\ i \in Int
      BY <1>2, <2>1
    <3>2. tx_state # 0
      BY <3>1 DEF Ahead
    <3>3. TX_Data' = TX_Data
      BY <1>1, <3>2, UserWaits
    <3> DEFINE at == Len(flight) - Gone - tx_bytes_buf + i + 1
    <3>4. /\ at \in 1..Len(flight) - Gone /\ at + Gone = Len(flight) - tx_bytes_buf + i + 1
          /\ Len(flight') - tx_bytes_buf' + i + 1 = at
      BY <1>2, <1>5, <1>6, <2>1, <3>1
    <3> HIDE DEF at
    <3>5. flight'[at] = flight[Len(flight) - tx_bytes_buf + i + 1]
      BY <1>3, <3>4
    <3> QED
      BY <1>1, <3>1, <3>3, <3>4, <3>5 DEF Unsent
  <2> QED
    BY <2>2 DEF Unsent
<1> QED
  BY <1>7, <1>8

\* What is settled after a clock, and with it the message that ends in it.
LEMMA SettledStep ==
  ASSUME ArrayInv, Next
  PROVE  /\ RX_Data' = Settled
         /\ \A i \in 0..Received - 1 : Settled'[i] = flight[i + 1]
<1> DEFINE busy == UART_Interface_rx_busy
<1>1. /\ TypeOK /\ Counting /\ Filled
      /\ RX_Data \in [Slots -> Byte] /\ rx_wAddr \in Slots /\ rx_byte_cnt \in Slots
      /\ rx_byte_cnt \in Nat /\ Slots' = Slots
  BY CountReceived, Constants DEF ArrayInv, TypeOK, CollectType, Slots
<1>2. RX_Data' = Settled /\ Save(busy, UART_Interface_rx_data)
  BY DEF Next, RX_Controller
<1>3. Settled \in [Slots -> Byte]
  BY <1>1 DEF Settled, TypeOK, CollectType
<1>4. CASE ByteEnds(busy)
  <2>1. Received = rx_byte_cnt + 1
    BY <1>1, <1>4, CountReceived
  <2>2. Settled' = [Settled EXCEPT ![rx_byte_cnt] = flight[rx_byte_cnt + 1]]
    BY <1>1, <1>2, <1>4 DEF Save, Settled, Filled
  <2>3. ASSUME NEW i \in 0..Received - 1 PROVE Settled'[i] = flight[i + 1]
    <3>1. i \in 0..rx_byte_cnt /\ i \in Slots
      BY <1>1, <2>1, Constants DEF Slots
    <3>2. CASE i = rx_byte_cnt
      BY <1>3, <2>2, <3>1, <3>2
    <3>3. CASE i # rx_byte_cnt
      <4>1. i \in 0..rx_byte_cnt - 1
        BY <1>1, <3>1, <3>3
      <4>2. Settled'[i] = Settled[i]
        BY <1>3, <2>2, <3>1, <3>3
      <4> QED
        BY <1>1, <4>1, <4>2 DEF Filled
    <3> QED
      BY <3>2, <3>3
  <2> QED
    BY <1>2, <2>3
<1>5. CASE ~ByteEnds(busy)
  <2>1. Received = rx_byte_cnt
    BY <1>1, <1>5, CountReceived
  <2>2. Settled' = [Settled EXCEPT ![rx_wAddr] = rx_di]
    BY <1>2, <1>5 DEF Save, Settled
  <2>3. Settled' = Settled
    BY <1>1, <2>2 DEF Settled
  <2> QED
    BY <1>1, <1>2, <2>1, <2>3 DEF Filled
<1> QED
  BY <1>4, <1>5

LEMMA FilledStep ==
  ASSUME Link!SamplesFit, ArrayInv, Next
  PROVE  Filled'
<1> DEFINE busy == UART_Interface_rx_busy
<1>1. /\ TypeOK /\ Counting /\ SendControl /\ Filled
      /\ Received + Ahead <= Len(flight)
  BY DEF ArrayInv
<1>2. /\ Len(flight) \in Nat /\ Ahead \in Nat /\ Received \in Nat /\ Gone \in {0, Received}
      /\ rx_byte_cnt' = Received - Gone /\ (Ends => rx_byte_cnt' = 0)
      /\ flight \in Seq(Byte)
  BY <1>1, AheadRange, CollectStep
<1>3. \A i \in 1..Len(flight) - Gone : flight'[i] = flight[i + Gone]
  BY <1>1, FlightStep
<1>4. ASSUME NEW i \in 0..rx_byte_cnt' - 1 PROVE Settled'[i] = flight'[i + 1]
  <2>1. Gone = 0 /\ i \in 0..Received - 1 /\ i + 1 \in 1..Len(flight) - Gone
        /\ i + 1 + Gone = i + 1
    BY <1>1, <1>2
  <2>2. flight'[i + 1] = flight[i + 1]
    BY <1>3, <2>1
  <2> QED
    BY <2>1, <2>2, SettledStep
<1>5. ASSUME ByteEnds(busy)' PROVE UART_Interface_rx_data' = flight'[rx_byte_cnt' + 1]
  <2>1. Link!Arrives
    BY <1>1, <1>5, CollectStep
  <2>2. OnWire # <<>> /\ UART_Interface_rx_data' = Head(OnWire)
    BY <2>1, LinkNext, Link!ByteReceived, ArrayAssumption DEF ArrayAssumption, ArrayInv
  <2>3. Received + 1 <= Len(flight) - Ahead
    <3>1. ASSUME ~(Received + 1 <= Len(flight) - Ahead) PROVE FALSE
      <4>1. Received + 1 \in Int /\ Len(flight) - Ahead \in Int /\ Len(flight) - Ahead < Received + 1
        BY <1>2, <3>1
      <4> QED
        BY <2>2, <4>1, SubSeqEmpty DEF OnWire
    <3> QED
      BY <3>1
  <2>4. Head(OnWire) = flight[Received + 1]
    <3>1. Received + 1 \in 1..Len(flight) /\ Len(flight) - Ahead \in Received + 1..Len(flight)
      BY <1>2, <2>3
    <3> QED
      BY <1>2, <3>1, HeadTailOfSubSeq DEF OnWire
  <2>5. /\ rx_byte_cnt' + 1 \in 1..Len(flight) - Gone
        /\ rx_byte_cnt' + 1 + Gone = Received + 1
    BY <1>2, <2>3
  <2> QED
    BY <1>3, <2>2, <2>4, <2>5
<1>6. busy' = 1 <=> rx_state' = "receive"
  BY <1>1, CollectStep
<1>7. rx_byte_cnt' > 0 => RX_Busy' = 1
  <2>1. Close(busy)
    BY DEF Next, RX_Controller
  <2>2. rx_byte_cnt \in Nat /\ (~ByteEnds(busy) => Received = rx_byte_cnt)
    BY <1>1, CollectStep, CountReceived
  <2> QED
    BY <1>1, <1>2, <2>1, <2>2 DEF Close, Filled, Received
<1> QED
  BY <1>4, <1>5, <1>6, <1>7 DEF Filled

LEMMA ArrayStep ==
  ASSUME Link!SamplesFit, ArrayInv, Next
  PROVE  ArrayInv'
<1>1. TypeOK /\ Counting /\ SendControl
  BY DEF ArrayInv
<1>2. TypeOK' /\ Counting' /\ SendControl'
  BY <1>1, NextTypes, ControlStep
<1>3. Received' + Ahead' <= Len(flight')
  BY LinkNext, WireMoves
<1> QED
  BY <1>2, <1>3, UnsentStep, FilledStep, LinkNext DEF ArrayInv

LEMMA ArrayStutters ==
  ASSUME ArrayInv, UNCHANGED vars
  PROVE  ArrayInv'
<1>1. UNCHANGED <<Reset, TX_Enable, TX_Bytes, TX_Data, user, waitsForAnswer, flight>>
      /\ UNCHANGED <<ena_prev, tx_byte_cnt, tx_bytes_buf, tx_state, tx_rAddr, TX_Busy, tx_data, tx_ena>>
      /\ UNCHANGED <<timeout_cnt, rx_byte_cnt, busy_prev, rx_di, rx_wAddr, RX_Bytes, RX_Data, RX_Busy>>
      /\ UNCHANGED <<s_count_baud, s_count_os, s_baud_pulse, s_os_pulse>>
      /\ UNCHANGED <<uart_tx_state, tx_count, tx_buffer, TX, UART_Interface_tx_busy>>
      /\ UNCHANGED <<count_baud, count_os, baud_pulse, os_pulse>>
      /\ UNCHANGED <<rx_state, rx_count, os_count, rx_buffer, UART_Interface_rx_busy,
                     UART_Interface_rx_data, UART_Interface_rx_error>>
  BY DEF vars, userVars, sendVars, collectVars, SenderClock!clockVars, ReceiverClock!clockVars,
         Sender!txVars, Receiver!rxVars
<1>2. TypeOK' /\ Counting'
  BY NextTypes DEF ArrayInv
<1>3. Ahead' = Ahead /\ Received' = Received /\ Settled' = Settled
      /\ (ByteEnds(UART_Interface_rx_busy)' <=> ByteEnds(UART_Interface_rx_busy))
  BY <1>1 DEF Ahead, Received, Collected, Settled, ByteEnds
<1>4. SendControl' /\ Unsent' /\ Filled' /\ Received' + Ahead' <= Len(flight')
  BY <1>1, <1>3 DEF ArrayInv, SendControl, Unsent, Filled
<1>5. OnWire' = OnWire
  BY <1>1, <1>3 DEF OnWire
<1>6. UNCHANGED Link!vars
  BY <1>1, <1>5 DEF Link!vars, Link!userVars, Link!SenderClock!clockVars,
                    Link!ReceiverClock!clockVars, Link!txVars, Link!rxVars
<1>7. Link!LinkInv'
  BY <1>6, Link!LinkStutters, ArrayAssumption DEF ArrayAssumption, ArrayInv
<1> QED
  BY <1>2, <1>4, <1>7 DEF ArrayInv

LEMMA ArrayInvariant == ASSUME Link!SamplesFit PROVE Spec => []ArrayInv
<1>1. Init => ArrayInv
  BY InitArray
<1>2. ArrayInv /\ [Next]_vars => ArrayInv'
  BY ArrayStep, ArrayStutters
<1> QED
  BY <1>1, <1>2, PTL DEF Spec

-----------------------------------------------------------------------------
(* What is handed over                                                     *)

\* When RX_Busy falls, RX_Data has all but the byte that fills it.
LEMMA ReadAtTheFall ==
  ASSUME ArrayInv, Next, Ends, NEW i \in 0..Received - 1, i < Max_Bytes - 1
  PROVE  RX_Data'[i] = flight[i + 1]
<1> DEFINE busy == UART_Interface_rx_busy
<1>1. /\ Received \in 0..Max_Bytes /\ Max_Bytes \in Nat /\ Timeout \in Nat \ {0}
      /\ Received = rx_byte_cnt + 1 \/ Received = rx_byte_cnt
      /\ Received = rx_byte_cnt + 1 => ByteEnds(busy)
      /\ rx_byte_cnt \in Nat
  BY CountReceived, Constants DEF ArrayInv, Slots
<1>2. Waited(busy) = Timeout \/ Received = Max_Bytes
  BY DEF Ends, MessageEnds, Over, Received
<1>3. Received = rx_byte_cnt \/ Received = Max_Bytes
  BY <1>1, <1>2 DEF Waited
<1>4. i \in 0..rx_byte_cnt - 1
  BY <1>1, <1>3
<1>5. RX_Data' = Settled
  BY DEF Next, RX_Controller
<1> QED
  BY <1>4, <1>5 DEF ArrayInv, Filled

\* UART_Array.vhdp:217-238: with OS_Rate samples in a bit, every block of bytes handed
\* over continues the bytes sent: none is lost, doubled or out of its place in RX_Data
\* when RX_Busy falls, but for the byte that fills the array, in its place a clock later.
\* For every size of the array, every timeout and whatever the user's pace.
THEOREM BytesArriveInOrder == ASSUME Link!SamplesFit PROVE Spec => BytesInOrder
<1>1. ASSUME ArrayInv, Next, Ends
      PROVE  /\ Received <= Len(flight)
             /\ \A i \in 0..Received - 1 :
                  /\ i < Max_Bytes - 1 => RX_Data'[i] = flight[i + 1]
                  /\ Settled'[i] = flight[i + 1]
  <2>1. /\ Len(flight) \in Nat /\ Ahead \in Nat /\ Received \in Nat
        /\ Received + Ahead <= Len(flight)
    BY <1>1, AheadRange, CollectStep DEF ArrayInv
  <2> QED
    BY <1>1, <2>1, SettledStep, ReadAtTheFall
<1>2. ArrayInv /\ [Next]_vars
        => [Ends => /\ Received <= Len(flight)
                    /\ \A i \in 0..Received - 1 :
                         /\ i < Max_Bytes - 1 => RX_Data'[i] = flight[i + 1]
                         /\ Settled'[i] = flight[i + 1]]_vars
  BY <1>1
<1> QED
  BY <1>2, ArrayInvariant, PTL DEF Spec, BytesInOrder

\* UART_Array.vhdp:42: the user sees RX_Busy go from 1 to 0 for every block of
\* bytes, when RX_Data has room for more than one; with one it is never 1.
THEOREM BusyIsSeen == ASSUME Max_Bytes > 1 PROVE Spec => RxBusySeen
<1> DEFINE Inv == TypeOK /\ Counting /\ (rx_byte_cnt > 0 => RX_Busy = 1)
           busy == UART_Interface_rx_busy
<1>1. Init => Inv
  <2>1. Init => rx_byte_cnt = 0
    BY DEF Init, CollectInit
  <2> QED
    BY <2>1, InitTypes
<1>2. ASSUME Inv, [Next]_vars PROVE Inv'
  <2>1. TypeOK' /\ Counting'
    BY <1>2, NextTypes
  <2>2. rx_byte_cnt \in Nat /\ (~ByteEnds(busy) => Collected(busy) = rx_byte_cnt)
    BY <1>2, CountReceived DEF Collected, Slots
  <2>3. CASE Next
    <3>1. Close(busy)
      BY <2>3 DEF Next, RX_Controller
    <3> QED
      BY <1>2, <2>1, <2>2, <3>1 DEF Close
  <2>4. CASE UNCHANGED vars
    BY <1>2, <2>1, <2>4 DEF vars, collectVars
  <2> QED
    BY <1>2, <2>3, <2>4
<1>3. ASSUME Inv, Ends PROVE RX_Busy = 1
  <2>1. rx_byte_cnt \in Nat /\ Max_Bytes \in Nat /\ Timeout \in Nat \ {0}
    BY <1>3, CountReceived, Constants DEF Slots
  <2>2. /\ Waited(busy) = Timeout \/ Collected(busy) = Max_Bytes
        /\ Collected(busy) > 0
    BY <1>3 DEF Ends, MessageEnds, Over
  <2>3. rx_byte_cnt > 0
    BY <2>1, <2>2 DEF Waited, Collected
  <2> QED
    BY <1>3, <2>3
<1>4. Inv /\ [Next]_vars => [Ends => RX_Busy = 1]_vars
  BY <1>3
<1> HIDE DEF Inv
<1> QED
  BY <1>1, <1>2, <1>4, PTL DEF Spec, RxBusySeen

-----------------------------------------------------------------------------
(* In time                                                                 *)

\* Bit times in clocks.
Bits(n) == n * BitClocks

\* The clocks from the end of one byte to the end of the next in a message, at
\* most: the rest of the stop bit, the frame, and the turn of the controller.
ByteTime == Bits(Link!FrameShifts + 2)

\* From the clock in which the transmitter takes a byte to the end of it.
FrameTime == Bits(Link!FrameShifts + 1) - 1

\* The clocks until the frame that the transmitter is at is over, and a bit time.
Left ==
  Bits(Link!FrameShifts - tx_count + 1) - IF s_count_baud = 0 THEN BitClocks ELSE s_count_baud

\* The clocks until the next byte is received, at most.
Due ==
  IF OnWire # <<>> THEN Left
  ELSE IF uart_tx_state = "transmit" THEN Left - (BitClocks - 1) + 3 + FrameTime
  ELSE IF UART_Interface_tx_busy = 1 THEN 3 + FrameTime
  ELSE IF tx_state = 1 THEN 2 + FrameTime
  ELSE 1 + FrameTime

\* The user that waits for an answer has one message under way.
OneMessage ==
  /\ tx_state # 0 => ena_prev = 1
  /\ waitsForAnswer => /\ Len(flight) <= Max_Bytes
                       /\ TX_Enable = 1 /\ ena_prev = 0 => flight = <<>>

\* What RX_Controller has waited and what it has still to wait.
InTime ==
  waitsForAnswer /\ Received > 0 /\ Received < Len(flight)
    => Waited(UART_Interface_rx_busy) + Due <= ByteTime

MessageInv == ArrayInv /\ OneMessage /\ InTime

LEMMA BitTimes ==
  /\ \A n \in Int : Bits(n) \in Int /\ Bits(n + 1) = Bits(n) + BitClocks
  /\ \A n, k \in Int : n <= k => Bits(n) <= Bits(k)
  /\ Bits(1) = BitClocks /\ Bits(2) = 2 * BitClocks
<1> USE DEF Bits
<1>1. BitClocks \in Nat \ {0}
  BY Constants
<1>2. \A n \in Int : (n + 1) * BitClocks = n * BitClocks + BitClocks
  BY <1>1
<1>3. ASSUME NEW n \in Int, NEW k \in Int, n <= k PROVE n * BitClocks <= k * BitClocks
  BY <1>1, <1>3
<1> QED
  BY <1>1, <1>2, <1>3

LEMMA LeftRange ==
  ASSUME Link!SamplesFit, ArrayInv
  PROVE  /\ Left \in Int /\ Left <= FrameTime /\ FrameTime \in Int /\ FrameTime > 0
         /\ BitClocks \in Nat /\ BitClocks >= 3 /\ ByteTime = FrameTime + 1 + BitClocks
         /\ Left >= BitClocks - 1 \/ (OnWire = <<>> /\ uart_tx_state = "idle")
         /\ uart_tx_state = "transmit" => Left >= BitClocks
<1>1. TypeOK /\ Counting /\ Link!LinkInv
  BY DEF ArrayInv
<1> DEFINE F == Link!FrameShifts
           turn == IF s_count_baud = 0 THEN BitClocks ELSE s_count_baud
<1>2. /\ F \in Nat /\ F >= 4 /\ BitClocks \in Nat /\ BitClocks >= 3
      /\ s_count_baud \in 0..BitClocks - 1 /\ tx_count \in 0..F
  BY <1>1, Link!Ranges, ArrayAssumption DEF ArrayAssumption, Link!LinkInv
<1>3. uart_tx_state = "transmit" => tx_count < F
  BY <1>1 DEF Counting, Link!Counting
<1>4. uart_tx_state \in {"idle", "transmit"}
  BY <1>1 DEF TypeOK, Sender!TransmitType
<1>5. OnWire # <<>> /\ uart_tx_state = "idle" => tx_count = F /\ s_count_baud = 1
  BY <1>1 DEF Link!LinkInv, Link!LineInv
<1> HIDE DEF F
<1>6. turn \in 1..BitClocks /\ (s_count_baud = 1 => turn = 1)
  BY <1>2
<1> HIDE DEF turn
<1>7. /\ Bits(F - tx_count + 1) \in Int /\ Bits(F + 1) \in Int
      /\ Bits(F - tx_count + 1) <= Bits(F + 1)
      /\ Bits(F + 2) = Bits(F + 1) + BitClocks
      /\ Bits(F + 1) >= 2 * BitClocks
      /\ tx_count < F => Bits(F - tx_count + 1) >= 2 * BitClocks
      /\ tx_count = F => Bits(F - tx_count + 1) = BitClocks
  <2>1. /\ F - tx_count + 1 \in Int /\ F + 1 \in Int /\ F + 1 + 1 = F + 2
        /\ F - tx_count + 1 <= F + 1 /\ 2 <= F + 1 /\ 2 \in Int
        /\ tx_count < F => 2 <= F - tx_count + 1
        /\ tx_count = F => F - tx_count + 1 = 1
    BY <1>2
  <2> QED
    BY <2>1, BitTimes
<1>8. Left = Bits(F - tx_count + 1) - turn /\ FrameTime = Bits(F + 1) - 1 /\ ByteTime = Bits(F + 2)
  BY DEF Left, FrameTime, ByteTime, F, turn
<1>9. /\ Left \in Int /\ Left <= FrameTime /\ FrameTime \in Int /\ FrameTime > 0
      /\ ByteTime = FrameTime + 1 + BitClocks
  BY <1>2, <1>6, <1>7, <1>8
<1>10. tx_count < F => Left >= BitClocks
  BY <1>2, <1>6, <1>7, <1>8
<1>11. tx_count = F /\ s_count_baud = 1 => Left = BitClocks - 1
  BY <1>2, <1>6, <1>7, <1>8
<1> QED
  BY <1>2, <1>3, <1>4, <1>5, <1>9, <1>10, <1>11

\* The transmitter goes on with its frame.
LEMMA FrameGoesOn ==
  ASSUME Link!SamplesFit, ArrayInv, Next, uart_tx_state = "transmit"
  PROVE  /\ Reset = 0 /\ Left' = Left - 1
         /\ uart_tx_state' = "idle" => Left' = BitClocks - 1
<1>1. TypeOK /\ Counting /\ Link!LinkInv
  BY DEF ArrayInv
<1> DEFINE F == Link!FrameShifts
<1>2. /\ F \in Nat /\ F >= 4 /\ BitClocks \in Nat /\ BitClocks >= 3 /\ F' = F
      /\ s_count_baud \in 0..BitClocks - 1 /\ tx_count \in Nat /\ tx_count < F
  BY <1>1, Link!Ranges, ArrayAssumption
     DEF ArrayAssumption, Link!LinkInv, Counting, Link!Counting, Link!FrameShifts
<1>3. /\ Reset = 0
      /\ s_baud_pulse = IF s_count_baud = 0 THEN 1 ELSE 0
  <2>1. Reset \in {0, 1} /\ s_baud_pulse \in {0, 1}
    BY <1>1 DEF TypeOK, SenderClock!ClockType
  <2> QED
    BY <1>1, <2>1 DEF Link!LinkInv, Link!SenderInv
<1>4. Sender!Sending(s_baud_pulse)
  BY <1>3 DEF Next, Sender!Transmit, Sender!Idle
<1>5. s_count_baud' = IF s_count_baud < BitClocks - 1 THEN s_count_baud + 1 ELSE 0
  BY <1>2, <1>3 DEF Next, SenderClock!ClockGenerator, SenderClock!Generate
<1>6. /\ tx_count' = tx_count + (IF s_count_baud = 0 THEN 1 ELSE 0)
      /\ uart_tx_state' = IF tx_count' < F THEN "transmit" ELSE "idle"
  BY <1>3, <1>4 DEF Sender!Sending, Sender!FrameShifts, Link!FrameShifts
<1>7. Left' = Bits(F - tx_count' + 1) - (IF s_count_baud' = 0 THEN BitClocks ELSE s_count_baud')
  BY <1>2 DEF Left, Bits
<1> HIDE DEF F
<1>8. CASE s_count_baud = 0
  <2>1. /\ F - tx_count' + 1 = F - tx_count /\ F - tx_count \in Int /\ s_count_baud' = 1
        /\ tx_count' = F => F - tx_count = 1
        /\ uart_tx_state' = "idle" => tx_count' = F
    BY <1>2, <1>5, <1>6, <1>8
  <2>2. /\ Left' = Bits(F - tx_count) - 1
        /\ Left = Bits(F - tx_count + 1) - BitClocks
    BY <1>7, <1>8, <2>1 DEF Left, F
  <2>3. /\ Bits(F - tx_count + 1) = Bits(F - tx_count) + BitClocks
        /\ Bits(F - tx_count) \in Int
    BY <2>1, BitTimes
  <2>4. uart_tx_state' = "idle" => Bits(F - tx_count) = BitClocks
    BY <2>1, BitTimes
  <2> QED
    BY <1>2, <1>3, <2>2, <2>3, <2>4
<1>9. CASE s_count_baud # 0
  <2>1. tx_count' = tx_count /\ uart_tx_state' = "transmit"
    BY <1>2, <1>6, <1>9
  <2>2. /\ Left' = Bits(F - tx_count + 1) - (IF s_count_baud' = 0 THEN BitClocks ELSE s_count_baud')
        /\ Left = Bits(F - tx_count + 1) - s_count_baud
        /\ Bits(F - tx_count + 1) \in Int
    BY <1>2, <1>7, <1>9, <2>1, BitTimes DEF Left, F
  <2> QED
    BY <1>2, <1>3, <1>5, <1>9, <2>1, <2>2
<1> QED
  BY <1>8, <1>9

\* Where the receiver hands a byte over, its frame is in the stop bit.
LEMMA StopBitIsLast ==
  ASSUME Link!SamplesFit, ArrayInv, Link!Arrives
  PROVE  Left <= 2 * BitClocks - 2
<1>1. TypeOK /\ Counting /\ Link!LinkInv /\ Link!TypeOK /\ Link!LineInv
  BY DEF ArrayInv, Link!LinkInv
<1> DEFINE F == Link!FrameShifts
<1>2. /\ F \in Nat /\ BitClocks \in Nat /\ BitClocks >= 3
      /\ s_count_baud \in 0..BitClocks - 1 /\ tx_count \in 0..F
  BY <1>1, Link!Ranges, ArrayAssumption DEF ArrayAssumption
<1>3. Link!OnLine = F
  <2>1. PICK short \in {0, 1}, n \in 0..OS_Rate : Link!ReceiverInv(short, n)
    BY <1>1 DEF Link!LinkInv
  <2> QED
    BY <1>1, <2>1, Link!ArrivesAtStopBit, ArrayAssumption DEF ArrayAssumption
<1>4. /\ s_count_baud = 1 => tx_count = F
      /\ s_count_baud # 1 => tx_count = F - 1
  BY <1>2, <1>3 DEF Link!OnLine
<1> HIDE DEF F
<1>5. Left = Bits(F - tx_count + 1) - IF s_count_baud = 0 THEN BitClocks ELSE s_count_baud
  BY DEF Left, F
<1>6. CASE s_count_baud = 1
  <2>1. F - tx_count + 1 = 1
    BY <1>2, <1>4, <1>6
  <2> QED
    BY <1>2, <1>5, <1>6, <2>1, BitTimes
<1>7. CASE s_count_baud # 1
  <2>1. F - tx_count + 1 = 2
    BY <1>2, <1>4, <1>7
  <2>2. Left = 2 * BitClocks - IF s_count_baud = 0 THEN BitClocks ELSE s_count_baud
    BY <1>5, <2>1, BitTimes
  <2> QED
    BY <1>2, <1>7, <2>2
<1> QED
  BY <1>6, <1>7

\* What the transmitter and the wire do.
LEMMA WireSteps ==
  ASSUME Link!SamplesFit, ArrayInv, Next
  PROVE  /\ Takes => OnWire' # <<>>
         /\ ~Takes /\ OnWire = <<>> => OnWire' = <<>>
         /\ ~Link!Arrives /\ OnWire # <<>> => OnWire' # <<>> /\ uart_tx_state = "transmit"
         /\ Link!Arrives => OnWire # <<>>
         /\ uart_tx_state = "idle" /\ ~Takes => uart_tx_state' = "idle"
<1>1. TypeOK /\ Counting /\ SendControl /\ Link!LinkInv
  BY DEF ArrayInv
<1>2. PICK short \in {0, 1}, n \in 0..OS_Rate : Link!ReceiverInv(short, n)
  BY <1>1 DEF Link!LinkInv
<1>3. Link!Next /\ (Link!Arrives => OnWire # <<>>)
  BY LinkNext
<1>4. Link!Accepts(Reset, tx_ena) <=> Takes
  BY <1>1, TransmitterServes
<1>5. /\ Link!Accepts(Reset, tx_ena) => OnWire' = <<tx_data>>
      /\ ~Link!Accepts(Reset, tx_ena) => OnWire' = IF Link!Arrives THEN <<>> ELSE OnWire
      /\ Link!Accepts(Reset, tx_ena) => OnWire = <<>> \/ Link!Arrives
  BY <1>1, <1>2, <1>3, Link!LineSteps, ArrayAssumption DEF ArrayAssumption, Link!LinkInv
<1>6. OnWire # <<>> /\ uart_tx_state = "idle" => Link!Arrives
  BY <1>1, <1>2, Link!IdleArrives, ArrayAssumption DEF ArrayAssumption, Link!LinkInv
<1>7. uart_tx_state = "idle" /\ ~Takes => uart_tx_state' = "idle"
  <2>1. ASSUME uart_tx_state = "idle", ~Takes PROVE uart_tx_state' = "idle"
    <3>1. Reset = 1 \/ tx_ena # 1
      BY <1>1, <1>4, <2>1, TransmitterServes DEF Link!Accepts
    <3> QED
      BY <2>1, <3>1 DEF Next, Sender!Transmit, Sender!TransmitReset, Sender!Idle, Sender!Sending
  <2> QED
    BY <2>1
<1>8. <<tx_data>> # <<>>
  OBVIOUS
<1>9. uart_tx_state \in {"idle", "transmit"}
  BY <1>1 DEF TypeOK, Sender!TransmitType
<1> QED
  BY <1>3, <1>4, <1>5, <1>6, <1>7, <1>8, <1>9

\* One message is under way, and nothing is asked while it is.
LEMMA OneMessageStep ==
  ASSUME ArrayInv, OneMessage, Next
  PROVE  /\ OneMessage' /\ waitsForAnswer' = waitsForAnswer
         /\ waitsForAnswer /\ Starts(TX_Enable, TX_Bytes) => flight = <<>>
<1> DEFINE m == IF Reset = 0 /\ Starts(TX_Enable, TX_Bytes) THEN TX_Bytes ELSE 0
<1>1. /\ TypeOK /\ Counting /\ SendControl /\ Filled /\ Received + Ahead <= Len(flight)
  BY DEF ArrayInv
<1>2. /\ Reset \in {0, 1} /\ TX_Enable \in {0, 1} /\ ena_prev \in {0, 1} /\ TX_Busy \in {0, 1}
      /\ waitsForAnswer' = waitsForAnswer
  BY <1>1 DEF TypeOK, SendType, Next, User
<1>3. waitsForAnswer /\ Starts(TX_Enable, TX_Bytes) => flight = <<>>
  BY DEF Starts, OneMessage
<1>4. tx_state' # 0 => ena_prev' = 1
  BY <1>1, <1>2 DEF Next, TX_Controller, SendReset, StartArray, Starts, HandOver, Taken, OneMessage
<1>5. /\ Len(flight) \in Nat /\ Gone \in Nat /\ Gone <= Len(flight) /\ m \in 0..Max_Bytes
      /\ Max_Bytes \in Nat
  <2>1. /\ Len(flight) \in Nat /\ Ahead \in Nat /\ Received \in Nat /\ Gone \in {0, Received}
    BY <1>1, AheadRange, CollectStep
  <2>2. m \in 0..Max_Bytes /\ Max_Bytes \in Nat
    BY <1>1, Constants DEF TypeOK
  <2> QED
    BY <1>1, <2>1, <2>2
<1>6. Len(flight') = Len(flight) - Gone + m /\ flight' \in Seq(Byte)
  BY <1>1, FlightStep
<1>7. ASSUME waitsForAnswer PROVE Len(flight') <= Max_Bytes
  <2>1. Len(flight) <= Max_Bytes /\ (Starts(TX_Enable, TX_Bytes) => Len(flight) = 0)
    BY <1>3, <1>7 DEF OneMessage
  <2>2. m = 0 \/ Len(flight) = 0
    BY <2>1
  <2> HIDE DEF m
  <2> QED
    BY <1>5, <1>6, <2>1, <2>2
<1>8. ASSUME waitsForAnswer, TX_Enable' = 1, ena_prev' = 0 PROVE flight' = <<>>
  <2>1. flight = <<>> /\ ~(Reset = 0 /\ Starts(TX_Enable, TX_Bytes))
    <3>1. CASE Ask
      BY <1>8, <3>1 DEF Ask, Starts
    <3>2. CASE Watch
      <4>1. TX_Enable = 1
        BY <1>8, <3>2 DEF Watch
      <4>2. Reset = 0
        BY <1>1, <1>2, <4>1 DEF SendControl
      <4>3. tx_state # 0
        BY <1>8, <4>1, <4>2 DEF Next, TX_Controller, StartArray, HandOver, Taken
      <4>4. ena_prev' = ena_prev
        BY <4>2, <4>3 DEF Next, TX_Controller, StartArray, HandOver, Taken
      <4> QED
        BY <1>8, <4>3, <4>4 DEF OneMessage
    <3> QED
      BY <3>1, <3>2 DEF Next, User
  <2>2. Len(flight') = 0
    <3>1. Len(flight) = 0 /\ m = 0
      BY <2>1
    <3> HIDE DEF m
    <3> QED
      BY <1>5, <1>6, <3>1
  <2> QED
    BY <1>6, <2>2, EmptySeq
<1> QED
  BY <1>2, <1>3, <1>4, <1>7, <1>8 DEF OneMessage

\* A frame takes no longer after a clock either.
LEMMA LeftAfter ==
  ASSUME Link!SamplesFit, ArrayInv, Next
  PROVE  Left' \in Int /\ Left' <= FrameTime
<1> DEFINE F == Link!FrameShifts
           count == tx_count'
           n == F - count + 1
<1>1. /\ F \in Nat /\ BitClocks \in Nat /\ BitClocks >= 3
  BY Link!Ranges, ArrayAssumption DEF ArrayAssumption, ArrayInv, Link!LinkInv
<1>2. /\ s_count_baud' \in 0..BitClocks - 1 /\ count \in 0..F
  <2>1. TypeOK'
    BY NextTypes DEF ArrayInv
  <2>2. Sender!TransmitType' /\ SenderClock!ClockType'
    BY <2>1 DEF TypeOK
  <2> QED
    BY <2>2 DEF Sender!TransmitType, SenderClock!ClockType, Sender!FrameShifts, Link!FrameShifts
<1>3. Left' = Bits(n) - (IF s_count_baud' = 0 THEN BitClocks ELSE s_count_baud')
  BY DEF Left, Bits, Link!FrameShifts
<1> HIDE DEF F, count
<1>4. Bits(n) \in Int /\ Bits(n) <= Bits(F + 1) /\ Bits(F + 1) \in Int
  <2>1. n \in Int /\ F + 1 \in Int /\ n <= F + 1
    BY <1>1, <1>2
  <2> QED
    BY <2>1, BitTimes
<1>5. FrameTime = Bits(F + 1) - 1
  BY DEF FrameTime, F
<1> HIDE DEF n
<1> QED
  BY <1>1, <1>2, <1>3, <1>4, <1>5

\* The next byte comes nearer with every clock.
LEMMA DueStep ==
  ASSUME Link!SamplesFit, ArrayInv, Next, Received < Len(flight), ~Link!Arrives
  PROVE  Due' <= Due - 1
<1>1. TypeOK /\ Counting /\ SendControl /\ Filled
  BY DEF ArrayInv
<1>2. /\ Left \in Int /\ FrameTime \in Int /\ BitClocks \in Nat /\ BitClocks >= 3
      /\ uart_tx_state = "transmit" => Left' = Left - 1
      /\ uart_tx_state = "transmit" /\ uart_tx_state' = "idle" => Left' = BitClocks - 1
      /\ FrameTime' = FrameTime
  BY LeftRange, FrameGoesOn DEF FrameTime, Bits, Link!FrameShifts
<1>3. Left' \in Int /\ Left' <= FrameTime
  BY LeftAfter
<1>4. /\ uart_tx_state \in {"idle", "transmit"} /\ uart_tx_state' \in {"idle", "transmit"}
      /\ UART_Interface_tx_busy \in {0, 1} /\ UART_Interface_tx_busy' \in {0, 1}
      /\ tx_state \in 0..2 /\ Reset \in {0, 1}
  <2>1. TypeOK'
    BY ArrayStep DEF ArrayInv
  <2> QED
    BY <1>1, <2>1 DEF TypeOK, Sender!TransmitType, SendType
<1>5. CASE OnWire # <<>>
  <2>1. OnWire' # <<>> /\ uart_tx_state = "transmit"
    BY <1>5, WireSteps
  <2> QED
    BY <1>2, <1>5, <2>1 DEF Due
<1>6. CASE OnWire = <<>> /\ uart_tx_state = "transmit"
  <2>1. ~Takes /\ OnWire' = <<>>
    BY <1>1, <1>4, <1>6, WireSteps DEF Takes, SendControl
  <2>2. CASE uart_tx_state' = "transmit"
    BY <1>2, <1>6, <2>1, <2>2 DEF Due
  <2>3. CASE uart_tx_state' = "idle"
    <3>1. Due = Left - (BitClocks - 1) + 3 + FrameTime /\ Due' <= 3 + FrameTime
      BY <1>2, <1>6, <2>1, <2>3 DEF Due
    <3> QED
      BY <1>2, <1>6, <2>3, <3>1
  <2> QED
    BY <1>4, <2>2, <2>3
<1>7. CASE OnWire = <<>> /\ uart_tx_state = "idle"
  <2>1. tx_state # 0 /\ Reset = 0
    <3>1. Received + 1 \in Int /\ Len(flight) - Ahead \in Int /\ Received \in Nat
          /\ Len(flight) \in Nat /\ Ahead \in Nat
      BY <1>1, AheadRange, CollectStep
    <3>2. Len(SubSeq(flight, Received + 1, Len(flight) - Ahead)) = 0
      BY <1>7, EmptySeq DEF OnWire
    <3>3. Len(flight) - Ahead < Received + 1
      <4>1. \A i \in Received + 1..Len(flight) - Ahead : flight[i] \in Byte
        BY <1>1, <3>1, AheadRange
      <4> QED
        BY <3>1, <3>2, <4>1, SubSeqProperties
    <3>4. Ahead # 0
      BY <3>1, <3>3
    <3> QED
      BY <1>1, <1>4, <3>4 DEF Ahead, SendControl
  <2>2. CASE UART_Interface_tx_busy = 1
    <3>1. tx_state = 1 /\ tx_ena = 0 /\ ~Takes
      BY <1>1, <1>4, <1>7, <2>1, <2>2, TransmitterServes DEF SendControl, Takes
    <3>2. tx_state' = 1
      BY <2>1, <2>2, <3>1 DEF Next, TX_Controller, StartArray, HandOver, Taken
    <3>3. UART_Interface_tx_busy' = 0 /\ uart_tx_state' = "idle" /\ OnWire' = <<>>
      BY <1>1, <1>7, <2>1, <3>1, TransmitterServes, WireSteps
    <3> QED
      BY <1>2, <1>7, <2>2, <3>2, <3>3 DEF Due
  <2>3. CASE UART_Interface_tx_busy = 0 /\ tx_state = 1
    <3>1. tx_ena = 0 /\ ~Takes
      BY <1>1, <2>3, TransmitterServes DEF SendControl, Takes
    <3>2. tx_state' = 2
      BY <2>1, <2>3 DEF Next, TX_Controller, StartArray, HandOver, Taken
    <3>3. UART_Interface_tx_busy' = 0 /\ uart_tx_state' = "idle" /\ OnWire' = <<>>
      BY <1>1, <1>7, <2>1, <3>1, TransmitterServes, WireSteps
    <3> QED
      BY <1>2, <1>7, <2>3, <3>2, <3>3 DEF Due
  <2>4. CASE UART_Interface_tx_busy = 0 /\ tx_state = 2
    <3>1. OnWire' # <<>>
      BY <2>4, WireSteps DEF Takes
    <3> QED
      BY <1>2, <1>3, <1>7, <2>4, <3>1 DEF Due
  <2> QED
    BY <1>4, <2>1, <2>2, <2>3, <2>4
<1> QED
  BY <1>4, <1>5, <1>6, <1>7

\* After a byte there is a byte time for the next.
LEMMA DueAfterByte ==
  ASSUME Link!SamplesFit, ArrayInv, Next, Link!Arrives
  PROVE  Due' <= ByteTime
<1>1. /\ Left \in Int /\ FrameTime \in Int /\ BitClocks \in Nat /\ BitClocks >= 3
      /\ ByteTime = FrameTime + 1 + BitClocks /\ FrameTime' = FrameTime
      /\ Left' \in Int /\ Left' <= FrameTime /\ Left <= 2 * BitClocks - 2
      /\ uart_tx_state = "transmit" => Left' = Left - 1
  BY LeftRange, LeftAfter, FrameGoesOn, StopBitIsLast DEF FrameTime, Bits, Link!FrameShifts
<1>2. uart_tx_state \in {"idle", "transmit"}
  BY DEF ArrayInv, TypeOK, Sender!TransmitType
<1>3. OnWire' = <<>> /\ uart_tx_state' = "transmit" => uart_tx_state = "transmit"
  BY <1>2, WireSteps
<1>4. CASE OnWire' # <<>>
  BY <1>1, <1>4 DEF Due
<1>5. CASE OnWire' = <<>> /\ uart_tx_state' = "transmit"
  <2>1. Due' = (Left - 1) - (BitClocks - 1) + 3 + FrameTime
    BY <1>1, <1>3, <1>5 DEF Due
  <2> QED
    BY <1>1, <2>1
<1>6. CASE OnWire' = <<>> /\ uart_tx_state' # "transmit"
  <2>1. Due' \in {3 + FrameTime, 2 + FrameTime, 1 + FrameTime}
    BY <1>1, <1>6 DEF Due
  <2> QED
    BY <1>1, <2>1
<1> QED
  BY <1>4, <1>5, <1>6

LEMMA DueSoon ==
  ASSUME Link!SamplesFit, ArrayInv
  PROVE  Due \in Int /\ Due >= 1
<1>1. /\ Left \in Int /\ FrameTime \in Int /\ FrameTime > 0 /\ BitClocks \in Nat /\ BitClocks >= 3
      /\ OnWire # <<>> => Left >= BitClocks - 1
      /\ uart_tx_state = "transmit" => Left >= BitClocks
  BY LeftRange
<1>2. CASE OnWire # <<>>
  BY <1>1, <1>2 DEF Due
<1>3. CASE OnWire = <<>> /\ uart_tx_state = "transmit"
  <2>1. Due = Left - (BitClocks - 1) + 3 + FrameTime
    BY <1>3 DEF Due
  <2> QED
    BY <1>1, <1>3, <2>1
<1>4. CASE OnWire = <<>> /\ uart_tx_state # "transmit"
  <2>1. Due \in {3 + FrameTime, 2 + FrameTime, 1 + FrameTime}
    BY <1>4 DEF Due
  <2> QED
    BY <1>1, <2>1
<1> QED
  BY <1>2, <1>3, <1>4

LEMMA InTimeStep ==
  ASSUME Link!SamplesFit, MessageInv, Next
  PROVE  InTime'
<1> DEFINE busy == UART_Interface_rx_busy
           waited == Waited(busy)'
           due == Due'
<1> SUFFICES ASSUME waitsForAnswer', Received' > 0, Received' < Len(flight')
             PROVE  waited + due <= ByteTime
  BY DEF InTime, ByteTime, Bits, Link!FrameShifts
<1>1. ArrayInv /\ OneMessage /\ InTime /\ TypeOK /\ Counting /\ Filled
      /\ Received + Ahead <= Len(flight)
  BY DEF MessageInv, ArrayInv
<1>2. Due \in Int /\ ByteTime \in Int
  BY <1>1, DueSoon, LeftRange
<1>3. timeout_cnt' = Waited(busy) + (IF Over(busy) THEN 0 ELSE 1)
  BY DEF Next, RX_Controller, Close
<1>4. waited = IF ByteEnds(busy)' THEN 0 ELSE timeout_cnt'
  BY DEF Waited, ByteEnds
<1>5. Waited(busy) \in Nat
  BY <1>1, Constants DEF Waited, TypeOK, CollectType
<1>6. ByteEnds(busy)' <=> Link!Arrives
  BY <1>1, CollectStep
<1>7. due \in Int
  <2>1. Left' \in Int /\ FrameTime' \in Int /\ BitClocks \in Int
    BY <1>1, LeftAfter, LeftRange DEF FrameTime, Bits, Link!FrameShifts
  <2> QED
    BY <2>1 DEF Due
<1> HIDE DEF waited, due
<1>8. CASE Link!Arrives
  <2>1. waited = 0
    BY <1>4, <1>6, <1>8
  <2>2. due <= ByteTime
    BY <1>1, <1>8, DueAfterByte DEF due
  <2> QED
    BY <1>2, <1>7, <2>1, <2>2
<1>9. CASE ~Link!Arrives
  <2>1. waited <= Waited(busy) + 1 /\ waited \in Int
    <3>1. waited = timeout_cnt'
      BY <1>4, <1>6, <1>9
    <3> QED
      BY <1>3, <1>5, <3>1
  <2>2. Received > 0 /\ Received < Len(flight) /\ waitsForAnswer
    <3> DEFINE m == IF Reset = 0 /\ Starts(TX_Enable, TX_Bytes) THEN TX_Bytes ELSE 0
    <3>1. /\ Received' = Received - Gone + 0 /\ Gone \in {0, Received} /\ Received \in Nat
          /\ Len(flight) \in Nat /\ Ahead \in Nat
      BY <1>1, <1>9, CollectStep, AheadRange
    <3>2. Gone = 0 /\ Received > 0
      BY <3>1
    <3>3. waitsForAnswer /\ flight # <<>>
      <4>1. Len(flight) # 0
        BY <1>1, <3>1, <3>2
      <4> QED
        BY <1>1, <4>1, EmptySeq, OneMessageStep
    <3>4. m = 0
      BY <1>1, <3>3, OneMessageStep
    <3>5. Len(flight') = Len(flight) - Gone + m
      BY <1>1, FlightStep
    <3> HIDE DEF m
    <3> QED
      BY <3>1, <3>2, <3>3, <3>4, <3>5
  <2>3. due <= Due - 1
    BY <1>1, <1>9, <2>2, DueStep DEF due
  <2>4. Waited(busy) + Due <= ByteTime
    BY <1>1, <2>2 DEF InTime
  <2> QED
    BY <1>2, <1>5, <1>7, <2>1, <2>3, <2>4
<1> QED
  BY <1>8, <1>9

LEMMA MessageInvariant == ASSUME Link!SamplesFit PROVE Spec => []MessageInv
<1>1. Init => MessageInv
  <2> SUFFICES ASSUME Init PROVE MessageInv
    OBVIOUS
  <2>1. ArrayInv
    BY InitArray
  <2>2. flight = <<>> /\ Len(flight) = 0 /\ tx_state = 0 /\ Max_Bytes \in Nat
    BY Constants DEF Init, SendInit
  <2>3. Received = 0
    BY DEF Init, CollectInit, Received, Collected, ByteEnds
  <2> QED
    BY <2>1, <2>2, <2>3 DEF MessageInv, OneMessage, InTime
<1>2. ASSUME MessageInv, [Next]_vars PROVE MessageInv'
  <2>1. CASE Next
    BY <1>2, <2>1, ArrayStep, OneMessageStep, InTimeStep DEF MessageInv
  <2>2. CASE UNCHANGED vars
    <3>1. ArrayInv'
      BY <1>2, <2>2, ArrayStutters DEF MessageInv
    <3>2. UNCHANGED <<tx_state, ena_prev, waitsForAnswer, flight, TX_Enable, uart_tx_state,
                      UART_Interface_tx_busy, UART_Interface_rx_busy, timeout_cnt, busy_prev,
                      tx_count, s_count_baud, rx_byte_cnt, tx_bytes_buf, tx_byte_cnt>>
      BY <2>2 DEF vars, userVars, sendVars, collectVars, SenderClock!clockVars, Sender!txVars,
                  Receiver!rxVars
    <3>3. OneMessage'
      BY <1>2, <3>2 DEF MessageInv, OneMessage
    <3>4. OnWire' = OnWire /\ Received' = Received
      BY <3>2 DEF OnWire, Received, Collected, ByteEnds, Ahead
    <3>5. Due' = Due
      BY <3>2, <3>4 DEF Due, Left, FrameTime, Bits, Link!FrameShifts
    <3>6. Waited(UART_Interface_rx_busy)' = Waited(UART_Interface_rx_busy)
      BY <3>2 DEF Waited, ByteEnds
    <3>7. InTime'
      BY <1>2, <3>2, <3>4, <3>5, <3>6 DEF MessageInv, InTime, ByteTime, Bits, Link!FrameShifts
    <3> QED
      BY <3>1, <3>3, <3>7 DEF MessageInv
  <2> QED
    BY <1>2, <2>1, <2>2
<1> QED
  BY <1>1, <1>2, PTL DEF Spec

\* UART_Array.vhdp: with a timeout of at least a frame and two bit times, the
\* time between two bytes of a message never ends it: what is handed over to a
\* user that waits for an answer is the whole message, for every size of the array
\* and whatever phase the UARTs' clocks are in.
THEOREM MessagesAreWhole ==
  ASSUME Link!SamplesFit, Timeout >= ByteTime
  PROVE  Spec => WholeMessages
<1>1. ASSUME MessageInv, waitsForAnswer, Ends PROVE Received = Len(flight)
  <2> DEFINE busy == UART_Interface_rx_busy
  <2>1. /\ TypeOK /\ Counting /\ ArrayInv /\ OneMessage /\ InTime /\ Received + Ahead <= Len(flight)
    BY <1>1 DEF MessageInv, ArrayInv
  <2>2. /\ Received \in 0..Max_Bytes /\ Max_Bytes \in Nat /\ Timeout \in Nat
        /\ Len(flight) \in Nat /\ Ahead \in Nat
    BY <2>1, CountReceived, AheadRange, Constants
  <2>3. (Waited(busy) = Timeout \/ Received = Max_Bytes) /\ Received > 0
    BY <1>1 DEF Ends, MessageEnds, Over, Received
  <2>4. Len(flight) <= Max_Bytes
    BY <1>1, <2>1 DEF OneMessage
  <2>5. ASSUME Received < Len(flight) PROVE FALSE
    <3>1. Waited(busy) = Timeout
      BY <2>2, <2>3, <2>4, <2>5
    <3>2. Waited(busy) + Due <= ByteTime
      BY <1>1, <2>1, <2>3, <2>5 DEF InTime
    <3>3. Due \in Int /\ Due >= 1 /\ ByteTime \in Int
      BY <2>1, DueSoon, LeftRange
    <3> QED
      BY <2>2, <3>1, <3>2, <3>3
  <2> QED
    BY <2>1, <2>2, <2>5
<1>2. MessageInv /\ [Next]_vars => [waitsForAnswer /\ Ends => Received = Len(flight)]_vars
  BY <1>1
<1> QED
  BY <1>2, MessageInvariant, PTL DEF Spec, WholeMessages
=============================================================================
