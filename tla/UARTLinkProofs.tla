--------------------------- MODULE UARTLinkProofs ---------------------------
(***************************************************************************)
(* Proofs about two UARTs on a wire, for every byte width and parity, and  *)
(* every ratio of clock, baud rate and oversampling rate that gives a bit   *)
(* OS_Rate samples, whatever the phase of the two clocks.                   *)
(***************************************************************************)
EXTENDS UARTLink, Integers, FiniteSetTheorems, SequenceTheorems, TLAPS

\* The clocks of a sample, the samples that are waited for in the start bit, and
\* the clocks of n samples.
Samples == BitClocks \div OS_Rate
Half == OS_Rate \div 2
Clocks(n) == n * Samples

\* UART.vhdp:40: OS_Rate is "in samples per baud period".  The quotients of the
\* generics decide it; with more samples in a bit the receiver, which counts
\* OS_Rate of them, is earlier with every bit.  The first samples after a reset
\* come late: with two in a bit that would be too much.
SamplesFit == OS_Rate >= 3 /\ BitClocks \div Samples = OS_Rate

-----------------------------------------------------------------------------
(* The inductive invariant                                                 *)

\* Where the receiver's clock generator is in its period, from its first clock
\* on.  The first period after a reset is short of a clock.
Position(short) == count_baud + 1 - short
Period(short) == BitClocks - short

\* The samples in a period.
Pulses(short) ==
  IF short = 1 /\ BitClocks = Clocks(OS_Rate) THEN OS_Rate - 1 ELSE OS_Rate

\* There were n samples before this clock in the period.
OnGrid(short, n) ==
  /\ n = 0 \/ Clocks(n) < Position(short)
  /\ Position(short) <= Clocks(n + 1)
  /\ IF Position(short) = Clocks(n + 1)
     THEN os_pulse = 1 /\ count_os = 0
     ELSE os_pulse = 0 /\ count_os = Position(short) - Clocks(n)

\* The clocks until the m-th sample from here.
Until(short, n, m) ==
  IF n + m <= Pulses(short)
  THEN Clocks(n + m) - Position(short)
  ELSE Clocks(n + m - Pulses(short)) - Position(short) + Period(short)

\* It is still in a short period.
Early(short, n, m) == short = 1 /\ n + m <= Pulses(short)

\* The bits of a frame: idle, start, data, parity, and the line after it.
Bit(d, i) ==
  IF i \in 3..D_Width + 2 THEN d[i - 2]
  ELSE IF i \in D_Width + 3..D_Width + Parity + 2 THEN ParityOf(d)
  ELSE IF i = 2 THEN 0 ELSE 1

\* The bit that is on the line, and since how many clocks.
OnLine == IF s_count_baud = 1 THEN tx_count ELSE tx_count + 1
Since == IF s_count_baud >= 2 THEN s_count_baud - 2 ELSE s_count_baud - 2 + BitClocks

SenderInv ==
  /\ tx_state = "transmit" => tx_count < FrameShifts
  /\ tx_state = "idle" => tx_count \in {0, FrameShifts}
  /\ Reset = 1 => s_count_baud = 0 /\ tx_count = 0
  /\ s_count_baud # 0 => s_baud_pulse = 0
  /\ s_count_baud = 0 /\ s_baud_pulse = 0 => TX_Enable = 0 /\ tx_state = "idle"
  /\ Reset = 1 \/ R_Reset = 1 => TX_Enable = 0 /\ tx_state = "idle" /\ line = <<>>

\* The line and what follows on it are the frame of the byte that is on its way.
LineInv ==
  IF line = <<>>
  THEN TX = 1 /\ \A i \in 1..Parity + D_Width + 2 : tx_buffer[i] = 1
  ELSE /\ Len(line) = 1
       /\ TX = Bit(line[1], OnLine)
       /\ \A i \in 1..Parity + D_Width + 2 : tx_buffer[i] = Bit(line[1], tx_count + i)
       /\ tx_state = "idle" => tx_count = FrameShifts /\ s_count_baud = 1

\* What the receiver looks for next is in the o-th clock of its bit.  In a short
\* period there is room for the samples after it, which come late or early.
InBit(short, n, m, o) ==
  /\ o \in 0..BitClocks - 1
  /\ Early(short, n, m) => o <= BitClocks - Samples

ReceivingInv(short, n) ==
  rx_state = "receive" =>
    /\ line # <<>> /\ rx_count <= Parity + D_Width
    /\ \A i \in 1..rx_count :
         rx_buffer[(Parity + D_Width + 1) - rx_count + i] = Bit(line[1], i + 2)
    /\ OnLine \in {rx_count + 2, rx_count + 3}
    /\ \E m \in 1..OS_Rate :
         LET o == Since + Until(short, n, m) - IF OnLine = rx_count + 3 THEN 0 ELSE BitClocks
         IN  /\ os_count + m = OS_Rate
             /\ InBit(short, n, m, o) /\ (Early(short, n, m) => o > 0)

\* No start bit yet; what the last frame left in os_count is gone before it.
QuietInv(short, n) ==
  /\ line = <<>> \/ OnLine <= 1
  /\ \/ os_count = 0
     \/ Since + Until(short, n, 1) < BitClocks
     \/ line = <<>> /\ OnLine = FrameShifts

StartInv(short, n) ==
  /\ line # <<>> /\ OnLine = 2
  /\ \E m \in 1..Half + 1 : /\ os_count + m = Half + 1
                            /\ InBit(short, n, m, Since + Until(short, n, m))
  /\ os_count > 0 => Since + Until(short, n, 1) > 0

ReceiverInv(short, n) ==
  /\ OnGrid(short, n)
  /\ ReceivingInv(short, n)
  /\ rx_state = "idle" => QuietInv(short, n) \/ StartInv(short, n)

LinkInv ==
  /\ TypeOK /\ SenderInv /\ LineInv
  /\ \E short \in {0, 1}, n \in 0..OS_Rate : ReceiverInv(short, n)

-----------------------------------------------------------------------------
(* The numbers                                                             *)

LEMMA Quotient ==
  ASSUME NEW a \in Nat, NEW b \in Nat \ {0}
  PROVE  a \div b \in Nat /\ b * (a \div b) <= a /\ a < b * (a \div b) + b
  OBVIOUS

LEMMA Numbers ==
  /\ OS_Rate \in Nat \ {0} /\ BitClocks \in Nat \ {0} /\ BitClocks >= OS_Rate
  /\ D_Width \in Nat \ {0} /\ Parity \in {0, 1} /\ Parity_EO \in {0, 1}
  /\ Samples \in Nat \ {0} /\ OS_Rate * Samples <= BitClocks
  /\ SenderClock!SampleClocks = Samples /\ ReceiverClock!SampleClocks = Samples
<1>1. /\ OS_Rate \in Nat \ {0} /\ BitClocks \in Nat \ {0} /\ BitClocks >= OS_Rate
      /\ D_Width \in Nat \ {0} /\ Parity \in {0, 1} /\ Parity_EO \in {0, 1}
  BY LinkAssumption
<1>2. Samples \in Nat /\ OS_Rate * Samples <= BitClocks /\ BitClocks < OS_Rate * Samples + OS_Rate
  BY <1>1, Quotient DEF Samples
<1>3. Samples # 0
  BY <1>1, <1>2
<1> QED
  BY <1>1, <1>2, <1>3 DEF Samples, SenderClock!SampleClocks, ReceiverClock!SampleClocks

\* Multiples of the clocks of a sample.
LEMMA Multiples ==
  /\ \A a, b \in Int : Clocks(a + b) = Clocks(a) + Clocks(b)
  /\ \A a, b \in Int : a < b => Clocks(a) + Samples <= Clocks(b)
  /\ \A a \in Int : Clocks(a) \in Int /\ Clocks(a + 1) = Clocks(a) + Samples
  /\ Clocks(0) = 0 /\ Clocks(1) = Samples
<1> USE DEF Clocks
<1>1. Samples \in Nat \ {0}
  BY Numbers
<1>2. \A a, b \in Int : (a + b) * Samples = a * Samples + b * Samples
  BY <1>1
<1>3. ASSUME NEW a \in Int, NEW b \in Int, a < b PROVE a * Samples + Samples <= b * Samples
  BY <1>1, <1>3
<1> QED
  BY <1>1, <1>2, <1>3

LEMMA Fit ==
  ASSUME SamplesFit
  PROVE  /\ OS_Rate \in Nat /\ OS_Rate >= 3 /\ BitClocks \in Nat /\ Samples \in Nat \ {0}
         /\ Clocks(OS_Rate) \in Int /\ Clocks(OS_Rate) <= BitClocks
         /\ BitClocks < Clocks(OS_Rate) + Samples /\ 3 * Samples <= BitClocks
         /\ Half \in Nat \ {0} /\ Half + 1 <= OS_Rate - 1
<1>1. BitClocks < Samples * OS_Rate + Samples
  BY Numbers, Quotient DEF SamplesFit
<1>2. 3 * Samples <= OS_Rate * Samples
  BY Numbers DEF SamplesFit
<1>3. Half \in Nat \ {0} /\ Half + 1 <= OS_Rate - 1
  BY Numbers DEF SamplesFit, Half
<1> QED
  BY <1>1, <1>2, <1>3, Numbers DEF SamplesFit, Clocks

-----------------------------------------------------------------------------
(* Types                                                                   *)

Counting == tx_state = "transmit" => tx_count < FrameShifts

LEMMA InitTypes == Init => TypeOK /\ Counting
<1> SUFFICES ASSUME Init PROVE TypeOK /\ Counting
  OBVIOUS
<1>1. SenderClock!ClockType /\ ReceiverClock!ClockType
  BY Numbers DEF Init, SenderClock!ClockInit, ReceiverClock!ClockInit, SenderClock!ClockType,
                 ReceiverClock!ClockType
<1>2. TransmitType /\ Counting
  BY Numbers DEF Init, TransmitInit, TransmitType, FrameShifts, Counting
<1>3. ReceiveType
  BY Numbers DEF Init, ReceiveInit, ReceiveType, NoData
<1>4. line \in Seq(Bytes)
  BY DEF Init
<1> QED
  BY <1>1, <1>2, <1>3, <1>4 DEF Init, TypeOK

LEMMA SenderClockTypes ==
  ASSUME SenderClock!ClockType, SenderClock!ClockGenerator(Reset)
  PROVE  SenderClock!ClockType'
  BY Numbers DEF SenderClock!ClockType, SenderClock!ClockGenerator, SenderClock!ClockReset,
                 SenderClock!Generate, SenderClock!Sampling

LEMMA ReceiverClockTypes ==
  ASSUME ReceiverClock!ClockType, ReceiverClock!ClockGenerator(R_Reset)
  PROVE  ReceiverClock!ClockType'
  BY Numbers DEF ReceiverClock!ClockType, ReceiverClock!ClockGenerator, ReceiverClock!ClockReset,
                 ReceiverClock!Generate, ReceiverClock!Sampling

\* A shift register: the first bit goes out, another one comes in behind.
LEMMA Shifted ==
  ASSUME NEW len \in Nat \ {0}, NEW b \in [1..len -> {0, 1}], NEW x \in {0, 1}
  PROVE  /\ Append(Tail(b), x) \in [1..len -> {0, 1}] /\ Head(b) = b[1]
         /\ \A i \in 1..len - 1 : Append(Tail(b), x)[i] = b[i + 1]
         /\ Append(Tail(b), x)[len] = x
<1>1. b \in Seq({0, 1}) /\ Len(b) = len /\ b # <<>>
  OBVIOUS
<1>2. /\ Tail(b) \in Seq({0, 1}) /\ Len(Tail(b)) = len - 1 /\ Head(b) = b[1]
      /\ \A i \in 1..len - 1 : Tail(b)[i] = b[i + 1]
  BY <1>1, HeadTailProperties
<1>3. /\ Append(Tail(b), x) \in Seq({0, 1}) /\ Len(Append(Tail(b), x)) = len
      /\ \A i \in 1..len - 1 : Append(Tail(b), x)[i] = Tail(b)[i]
      /\ Append(Tail(b), x)[len] = x
  BY <1>2, AppendProperties
<1>4. Append(Tail(b), x) \in [1..len -> {0, 1}]
  BY <1>3, LenProperties
<1> QED
  BY <1>2, <1>3, <1>4

LEMMA ParityBit == ASSUME NEW d PROVE ParityOf(d) \in {0, 1}
<1>1. IsFiniteSet({i \in 1..D_Width : d[i] = 1})
  <2>1. IsFiniteSet(1..D_Width)
    BY Numbers, FS_Interval
  <2>2. {i \in 1..D_Width : d[i] = 1} \subseteq 1..D_Width
    OBVIOUS
  <2> QED
    BY <2>1, <2>2, FS_Subset
<1>2. Cardinality({i \in 1..D_Width : d[i] = 1}) \in Nat
  BY <1>1, FS_CardinalityType
<1> QED
  BY <1>2, Numbers DEF ParityOf

\* The bits of a frame in tx_buffer.
LEMMA FrameBits ==
  ASSUME NEW d \in Bytes
  PROVE  /\ Frame(d) \in [1..Parity + D_Width + 2 -> {0, 1}]
         /\ \A i \in 1..Parity + D_Width + 2 : Frame(d)[i] = Bit(d, i)
<1>1. d \in [1..D_Width -> {0, 1}] /\ ParityOf(d) \in {0, 1} /\ D_Width \in Nat \ {0}
      /\ Parity \in {0, 1}
  BY LinkAssumption, ParityBit
<1> DEFINE parity == [i \in 1..Parity |-> ParityOf(d)]
           start == <<1, 0>>
<1>2. d \in Seq({0, 1}) /\ Len(d) = D_Width /\ parity \in Seq({0, 1}) /\ Len(parity) = Parity
      /\ start \in Seq({0, 1}) /\ Len(start) = 2 /\ start[1] = 1 /\ start[2] = 0
  BY <1>1
<1>3. \A i \in 1..Parity : parity[i] = ParityOf(d)
  OBVIOUS
<1>4. Frame(d) = (start \o d) \o parity
  BY DEF Frame
<1> HIDE DEF start, parity
<1>5. /\ start \o d \in Seq({0, 1}) /\ Len(start \o d) = D_Width + 2
      /\ \A i \in 1..D_Width + 2 : (start \o d)[i] = IF i <= 2 THEN start[i] ELSE d[i - 2]
  <2>1. /\ start \o d \in Seq({0, 1}) /\ Len(start \o d) = Len(start) + Len(d)
        /\ \A i \in 1..Len(start) + Len(d) :
             (start \o d)[i] = IF i <= Len(start) THEN start[i] ELSE d[i - Len(start)]
    BY <1>2, ConcatProperties
  <2> QED
    BY <1>1, <1>2, <2>1
<1>6. /\ Frame(d) \in Seq({0, 1}) /\ Len(Frame(d)) = Parity + D_Width + 2
      /\ \A i \in 1..Parity + D_Width + 2 :
           Frame(d)[i] = IF i <= D_Width + 2 THEN (start \o d)[i] ELSE parity[i - (D_Width + 2)]
  BY <1>1, <1>2, <1>4, <1>5, ConcatProperties
<1>7. ASSUME NEW i \in 1..Parity + D_Width + 2 PROVE Frame(d)[i] = Bit(d, i)
  <2>1. CASE i \in 1..2
    BY <1>1, <1>2, <1>5, <1>6, <2>1 DEF Bit
  <2>2. CASE i \in 3..D_Width + 2
    <3>1. i \in 1..D_Width + 2 /\ i <= D_Width + 2 /\ ~(i <= 2)
      BY <1>1, <2>2
    <3>2. Frame(d)[i] = (start \o d)[i] /\ (start \o d)[i] = d[i - 2]
      BY <1>5, <1>6, <3>1
    <3> QED
      BY <2>2, <3>2 DEF Bit
  <2>3. CASE i \in D_Width + 3..D_Width + Parity + 2
    BY <1>1, <1>3, <1>6, <2>3 DEF Bit
  <2> QED
    BY <1>1, <2>1, <2>2, <2>3
<1>8. Frame(d) \in [1..Parity + D_Width + 2 -> {0, 1}]
  BY <1>6, LenProperties
<1> QED
  BY <1>7, <1>8

LEMMA TransmitTypes ==
  ASSUME TransmitType, Counting, s_baud_pulse \in {0, 1}, TX_Enable \in {0, 1}, TX_Data \in Bytes,
         Transmit(Reset, s_baud_pulse, TX_Enable, TX_Data)
  PROVE  TransmitType' /\ Counting'
<1> DEFINE len == Parity + D_Width + 2
<1>1. /\ len \in Nat \ {0} /\ FrameShifts = len + 1 /\ tx_count \in 0..FrameShifts
      /\ tx_buffer \in [1..len -> {0, 1}] /\ tx_state \in {"idle", "transmit"}
      /\ Append(Tail(tx_buffer), 1) \in [1..len -> {0, 1}] /\ Head(tx_buffer) \in {0, 1}
      /\ Frame(TX_Data) \in [1..len -> {0, 1}]
      /\ TX \in {0, 1} /\ TX_Busy \in {0, 1}
  BY Numbers, Shifted, FrameBits, SMTT(20) DEF FrameShifts, TransmitType
<1> HIDE DEF len
<1> SUFFICES /\ tx_state' \in {"idle", "transmit"} /\ tx_count' \in 0..FrameShifts
             /\ tx_buffer' \in [1..len -> {0, 1}] /\ TX' \in {0, 1} /\ TX_Busy' \in {0, 1}
             /\ tx_state' = "transmit" => tx_count' < FrameShifts
  BY DEF TransmitType, Counting, FrameShifts, len
<1>2. CASE TransmitReset
  BY <1>1, <1>2 DEF TransmitReset
<1>3. CASE TX' = Head(tx_buffer) /\ Idle(TX_Enable, TX_Data)
  BY <1>1, <1>3 DEF Idle
<1>4. CASE TX' = Head(tx_buffer) /\ Sending(s_baud_pulse)
  BY <1>1, <1>4 DEF Sending, Counting
<1> QED
  BY <1>2, <1>3, <1>4 DEF Transmit

LEMMA ReceiveTypes ==
  ASSUME ReceiveType, TX \in {0, 1}, Receive(R_Reset, os_pulse, TX)
  PROVE  ReceiveType'
<1> DEFINE len == Parity + D_Width + 1
<1>1. /\ len \in Nat \ {0} /\ OS_Rate \in Nat \ {0} /\ os_count \in 0..OS_Rate - 1
      /\ rx_count \in 0..len + 1 /\ rx_buffer \in [1..len -> {0, 1}]
      /\ Append(Tail(rx_buffer), TX) \in [1..len -> {0, 1}]
      /\ RX_Data \in [1..D_Width -> {0, 1}] /\ NoData \in [1..D_Width -> {0, 1}]
      /\ rx_state \in {"idle", "receive"} /\ RX_Busy \in {0, 1} /\ RX_Error \in {0, 1}
  BY Numbers, Shifted, SMTT(20) DEF ReceiveType, NoData
<1>2. SubSeq(rx_buffer, 2, D_Width + 1) \in [1..D_Width -> {0, 1}]
  <2>1. rx_buffer \in Seq({0, 1}) /\ Len(rx_buffer) = len /\ D_Width \in Nat /\ D_Width + 1 <= len
    BY <1>1, Numbers
  <2>2. SubSeq(rx_buffer, 2, D_Width + 1) \in Seq({0, 1})
        /\ Len(SubSeq(rx_buffer, 2, D_Width + 1)) = D_Width
    BY <1>1, <2>1, SubSeqProperties
  <2> QED
    BY <2>2, LenProperties
<1> HIDE DEF len
<1> SUFFICES /\ rx_state' \in {"idle", "receive"} /\ rx_count' \in 0..len + 1
             /\ os_count' \in 0..OS_Rate - 1 /\ rx_buffer' \in [1..len -> {0, 1}]
             /\ RX_Busy' \in {0, 1} /\ RX_Data' \in [1..D_Width -> {0, 1}] /\ RX_Error' \in {0, 1}
  BY Numbers DEF ReceiveType, len
<1>3. CASE ReceiveReset
  BY <1>1, <1>3 DEF ReceiveReset
<1>4. CASE Listen(TX)
  BY <1>1, <1>4 DEF Listen
<1>5. CASE StartBit(TX) \/ Wait \/ UNCHANGED rxVars
  BY <1>1, <1>5 DEF StartBit, Wait, rxVars
<1>6. CASE DataBit(TX)
  BY <1>1, <1>6, Numbers DEF DataBit, Centre, len
<1>7. CASE StopBit(TX)
  BY <1>1, <1>2, <1>7 DEF StopBit
<1> QED
  BY <1>3, <1>4, <1>5, <1>6, <1>7 DEF Receive

LEMMA LineTypes ==
  ASSUME TypeOK, Next
  PROVE  line' \in Seq(Bytes)
<1> DEFINE kept == IF Arrives /\ line # <<>> THEN Tail(line) ELSE line
<1>1. kept \in Seq(Bytes) /\ TX_Data \in Bytes
  BY HeadTailProperties DEF TypeOK
<1>2. line' = IF Accepts(Reset, TX_Enable) THEN Append(kept, TX_Data) ELSE kept
  BY DEF Next
<1> HIDE DEF kept
<1> QED
  BY <1>1, <1>2, AppendProperties

LEMMA NextTypes ==
  ASSUME TypeOK, Counting, [Next]_vars
  PROVE  TypeOK' /\ Counting'
<1>1. CASE Next
  <2>1. Reset' \in {0, 1} /\ R_Reset' \in {0, 1} /\ TX_Enable' \in {0, 1} /\ TX_Data' \in Bytes
    BY <1>1 DEF Next, User, TypeOK
  <2>2. SenderClock!ClockType' /\ ReceiverClock!ClockType'
    BY <1>1, SenderClockTypes, ReceiverClockTypes DEF Next, TypeOK
  <2>3. TransmitType' /\ Counting'
    BY <1>1, TransmitTypes DEF Next, TypeOK, SenderClock!ClockType
  <2>4. ReceiveType'
    BY <1>1, ReceiveTypes DEF Next, TypeOK, TransmitType
  <2> QED
    BY <1>1, <2>1, <2>2, <2>3, <2>4, LineTypes DEF TypeOK
<1>2. CASE UNCHANGED vars
  BY <1>2 DEF vars, userVars, SenderClock!clockVars, txVars, ReceiverClock!clockVars, rxVars, TypeOK,
              SenderClock!ClockType, ReceiverClock!ClockType, TransmitType, ReceiveType, Counting
<1> QED
  BY <1>1, <1>2

\* Types, for every ratio of clock, baud rate and oversampling rate (UART.vhdp):
\* no counter leaves the range it is declared with.
THEOREM TypeCorrect == Spec => []TypeOK
<1> DEFINE Inv == TypeOK /\ Counting
<1>1. Init => Inv
  BY InitTypes
<1>2. Inv /\ [Next]_vars => Inv'
  BY NextTypes
<1>3. Inv => TypeOK
  OBVIOUS
<1> HIDE DEF Inv
<1> QED
  BY <1>1, <1>2, <1>3, PTL DEF Spec

-----------------------------------------------------------------------------
(* Samples                                                                 *)

\* The numbers of a grid.
LEMMA GridNumbers ==
  ASSUME SamplesFit, ReceiverClock!ClockType, NEW short \in {0, 1}, NEW n \in 0..OS_Rate,
         OnGrid(short, n)
  PROVE  /\ Position(short) \in 0..Period(short) /\ Period(short) \in Nat
         /\ Pulses(short) \in {OS_Rate - 1, OS_Rate}
         /\ Clocks(n) \in Int /\ Clocks(n + 1) = Clocks(n) + Samples
         /\ Clocks(Pulses(short)) \in Int /\ Clocks(Pulses(short)) <= Period(short)
         /\ Period(short) < Clocks(Pulses(short)) + Samples
         /\ n <= Pulses(short) /\ (os_pulse = 1 => n < Pulses(short))
         /\ Clocks(n) <= Position(short) /\ Position(short) <= Clocks(n) + Samples
         /\ n # 0 => Clocks(n) < Position(short)
         /\ os_pulse = 1 <=> Position(short) = Clocks(n) + Samples
<1>1. /\ Position(short) \in 0..Period(short) /\ Period(short) \in Nat
      /\ Pulses(short) \in {OS_Rate - 1, OS_Rate} /\ Pulses(short) \in Int /\ OS_Rate \in Int
  BY Fit DEF Position, Period, Pulses, ReceiverClock!ClockType
<1>2. /\ Clocks(n) \in Int /\ Clocks(n + 1) = Clocks(n) + Samples
      /\ Clocks(Pulses(short)) \in Int
  BY <1>1, Multiples
<1>3. Clocks(OS_Rate - 1) \in Int /\ Clocks(OS_Rate) = Clocks(OS_Rate - 1) + Samples
  <2>1. OS_Rate - 1 \in Int /\ (OS_Rate - 1) + 1 = OS_Rate
    BY <1>1
  <2> QED
    BY <2>1, Multiples
<1>4. /\ Clocks(Pulses(short)) <= Period(short)
      /\ Period(short) < Clocks(Pulses(short)) + Samples
  BY <1>1, <1>3, Fit DEF Pulses, Period
<1>5. n <= Pulses(short)
  <2> SUFFICES ASSUME n > Pulses(short) PROVE FALSE
    BY <1>1
  <2>1. Clocks(Pulses(short)) + Samples <= Clocks(n)
    BY <1>1, Multiples
  <2>2. Clocks(n) < Position(short)
    BY <1>1, Fit DEF OnGrid
  <2> QED
    BY <1>1, <1>2, <1>4, <2>1, <2>2, Fit
<1>6. os_pulse = 1 => n # Pulses(short)
  BY <1>1, <1>2, <1>4, Fit DEF OnGrid
<1>7. /\ Position(short) <= Clocks(n) + Samples
      /\ n # 0 => Clocks(n) < Position(short)
      /\ os_pulse = 1 <=> Position(short) = Clocks(n) + Samples
  BY <1>1, <1>2 DEF OnGrid
<1>8. Clocks(n) <= Position(short)
  <2>1. CASE n = 0
    <3>1. Clocks(n) = 0
      BY <2>1, Multiples
    <3> QED
      BY <1>1, <3>1
  <2>2. CASE n # 0
    BY <1>1, <1>2, <1>7, <2>2
  <2> QED
    BY <2>1, <2>2
<1> QED
  BY <1>1, <1>2, <1>4, <1>5, <1>6, <1>7, <1>8

LEMMA UntilBounds ==
  ASSUME SamplesFit, ReceiverClock!ClockType, NEW short \in {0, 1}, NEW n \in 0..OS_Rate,
         OnGrid(short, n), NEW m \in 1..OS_Rate
  PROVE  /\ Until(short, n, m) \in Nat
         /\ Until(short, n, m) = 0 <=> (os_pulse = 1 /\ m = 1)
         /\ m = 1 => Until(short, n, m) < BitClocks
         /\ os_pulse = 1 => InBit(short, n, m, Until(short, n, m))
         /\ m <= OS_Rate - 1 => InBit(short, n, m, Until(short, n, m))
<1>0. n \in Int /\ m \in Int
  BY Fit
<1>1. /\ Position(short) \in Int /\ Period(short) \in Nat /\ Position(short) <= Period(short)
      /\ Pulses(short) \in {OS_Rate - 1, OS_Rate} /\ OS_Rate \in Nat /\ OS_Rate >= 3
      /\ Clocks(n) \in Int /\ Clocks(Pulses(short)) \in Int /\ Clocks(m) \in Int
      /\ Period(short) < Clocks(Pulses(short)) + Samples
      /\ n <= Pulses(short) /\ (os_pulse = 1 => n < Pulses(short))
      /\ Period(short) <= BitClocks /\ BitClocks \in Nat
      /\ Samples \in Nat \ {0} /\ 3 * Samples <= BitClocks
      /\ Clocks(n) <= Position(short) /\ Position(short) <= Clocks(n) + Samples
      /\ os_pulse = 1 <=> Position(short) = Clocks(n) + Samples
  <2>1. Clocks(m) \in Int
    BY <1>0, Multiples
  <2>2. Period(short) <= BitClocks /\ Period(short) \in Nat
    BY Fit DEF Period
  <2> QED
    BY GridNumbers, Fit, <2>1, <2>2
<1>2. /\ Clocks(1) = Samples /\ Clocks(m) >= Samples
      /\ m # 1 => Clocks(m) >= Samples + Samples
      /\ m <= OS_Rate - 1 => Clocks(m) + Samples <= BitClocks
      /\ Clocks(m) <= BitClocks
  <2>1. Clocks(1) = Samples /\ (m # 1 => Clocks(1) + Samples <= Clocks(m))
    BY <1>1, Multiples
  <2>2. m <= OS_Rate - 1 => Clocks(m) + Samples <= Clocks(OS_Rate)
    BY <1>1, Multiples
  <2>3. m # OS_Rate => m <= OS_Rate - 1
    BY <1>1
  <2> QED
    BY <1>1, <2>1, <2>2, <2>3, Fit
<1>3. CASE n + m <= Pulses(short)
  <2>1. Until(short, n, m) = Clocks(n) + Clocks(m) - Position(short)
    <3>1. Clocks(n + m) = Clocks(n) + Clocks(m)
      BY <1>0, Multiples
    <3> QED
      BY <1>1, <1>3, <3>1 DEF Until
  <2>2. Until(short, n, m) \in Int /\ Until(short, n, m) <= Clocks(m)
        /\ Until(short, n, m) >= Clocks(m) - Samples
    BY <1>1, <2>1
  <2>3. Until(short, n, m) = 0 <=> (os_pulse = 1 /\ m = 1)
    BY <1>1, <1>2, <2>1
  <2>4. m = 1 => Until(short, n, m) < BitClocks
    BY <1>1, <1>2, <2>2
  <2>5. m <= OS_Rate - 1 => Until(short, n, m) <= BitClocks - Samples
    BY <1>1, <1>2, <2>2
  <2>6. Until(short, n, m) \in Nat
    BY <1>1, <1>2, <2>2
  <2>7. os_pulse = 1 => Until(short, n, m) <= BitClocks - Samples
    BY <1>1, <1>2, <2>1
  <2> QED
    BY <1>1, <2>3, <2>4, <2>5, <2>6, <2>7 DEF InBit
<1>4. CASE ~(n + m <= Pulses(short))
  <2>1. PICK k : k = n + m - Pulses(short)
    OBVIOUS
  <2>2. Until(short, n, m) = Clocks(k) - Position(short) + Period(short) /\ k \in 1..OS_Rate
    BY <1>1, <1>4, <2>1 DEF Until
  <2>3. Clocks(k) \in Int /\ Clocks(k) + Clocks(Pulses(short)) = Clocks(n) + Clocks(m)
    <3>1. k + Pulses(short) = n + m /\ k \in Int /\ Pulses(short) \in Int
      BY <1>1, <2>1, <2>2
    <3>2. Clocks(k + Pulses(short)) = Clocks(k) + Clocks(Pulses(short)) /\ Clocks(k) \in Int
      BY <3>1, Multiples
    <3>3. Clocks(n + m) = Clocks(n) + Clocks(m)
      BY <1>0, Multiples
    <3> QED
      BY <3>1, <3>2, <3>3
  <2>4. Clocks(k) >= Samples
    BY <1>1, <2>2, Multiples
  <2>5. /\ Until(short, n, m) \in Nat /\ Until(short, n, m) # 0
        /\ Until(short, n, m) < Clocks(m) + Samples
    BY <1>1, <2>2, <2>3, <2>4
  <2>6. ~(os_pulse = 1 /\ m = 1) /\ ~Early(short, n, m)
    BY <1>1, <1>4 DEF Early
  <2>7. m <= OS_Rate - 1 => Until(short, n, m) <= BitClocks - 1
    BY <1>1, <1>2, <2>5
  <2>8. os_pulse = 1 => Until(short, n, m) <= BitClocks - 1
    BY <1>1, <1>2, <2>2, <2>3
  <2>9. m = 1 => Until(short, n, m) < BitClocks
    BY <1>1, <2>5, <2>7
  <2> QED
    BY <1>1, <2>5, <2>6, <2>7, <2>8, <2>9 DEF InBit
<1> QED
  BY <1>3, <1>4

LEMMA GridStarts ==
  ASSUME ReceiverClock!ClockReset
  PROVE  OnGrid(1, 0)'
<1>1. Position(1)' = 0 /\ os_pulse' = 0 /\ count_os' = 0
  BY DEF ReceiverClock!ClockReset, Position
<1>2. Clocks(0) = 0 /\ Clocks(0 + 1) = Samples /\ Samples \in Nat \ {0}
  BY Multiples, Numbers
<1> QED
  BY <1>1, <1>2 DEF OnGrid

\* One clock of the receiver's clock generator.
GridStep(short, n, s, k) ==
  /\ OnGrid(s, k)'
  /\ os_pulse = 0 =>
       \A m \in 1..OS_Rate : /\ Until(s, k, m)' = Until(short, n, m) - 1
                             /\ Early(s, k, m) => Early(short, n, m)
  /\ os_pulse = 1 =>
       /\ \A m \in 2..OS_Rate : /\ Until(s, k, m - 1)' = Until(short, n, m) - 1
                                /\ Early(s, k, m - 1) => Early(short, n, m)
       /\ ~Early(s, k, OS_Rate)
       /\ Until(s, k, OS_Rate)' \in Int
       /\ short = 0 => Until(s, k, OS_Rate)' = BitClocks - 1
       /\ short = 1 => /\ Until(s, k, OS_Rate)' >= BitClocks - 2
                       /\ Until(s, k, OS_Rate)' <= BitClocks - 2 + Samples

LEMMA GridGoesOn ==
  ASSUME SamplesFit, ReceiverClock!ClockType, NEW short \in {0, 1}, NEW n \in 0..OS_Rate,
         OnGrid(short, n), ReceiverClock!Generate, count_baud < BitClocks - 1, os_pulse # 1
  PROVE  GridStep(short, n, short, n)
<1>1. /\ Position(short) \in Int /\ Position(short)' = Position(short) + 1
      /\ Clocks(n) \in Int /\ Clocks(n + 1) = Clocks(n) + Samples /\ Samples \in Nat \ {0}
      /\ Clocks(n) <= Position(short) /\ Position(short) < Clocks(n) + Samples
      /\ count_os = Position(short) - Clocks(n) /\ ReceiverClock!SampleClocks = Samples
  <2>1. /\ Clocks(n) \in Int /\ Clocks(n + 1) = Clocks(n) + Samples /\ Position(short) \in Int
        /\ Clocks(n) <= Position(short) /\ Position(short) <= Clocks(n) + Samples
        /\ os_pulse = 1 <=> Position(short) = Clocks(n) + Samples
    BY GridNumbers, Fit
  <2>2. Position(short)' = Position(short) + 1
    BY Fit DEF ReceiverClock!Generate, ReceiverClock!ClockType, Position
  <2> QED
    BY <2>1, <2>2, Numbers DEF OnGrid
<1>2. IF count_os + 1 < Samples THEN count_os' = count_os + 1 /\ os_pulse' = 0
                                ELSE count_os' = 0 /\ os_pulse' = 1
  BY <1>1, Fit DEF ReceiverClock!Generate, ReceiverClock!Sampling, ReceiverClock!ClockType
<1>3. OnGrid(short, n)'
  <2>1. n = 0 \/ Clocks(n) < Position(short)'
    BY <1>1
  <2>2. Position(short)' <= Clocks(n + 1)
    BY <1>1
  <2>3. IF Position(short)' = Clocks(n + 1) THEN os_pulse' = 1 /\ count_os' = 0
        ELSE os_pulse' = 0 /\ count_os' = Position(short)' - Clocks(n)
    BY <1>1, <1>2
  <2> QED
    BY <2>1, <2>2, <2>3 DEF OnGrid
<1>4. ASSUME NEW m \in 1..OS_Rate PROVE Until(short, n, m)' = Until(short, n, m) - 1
  <2>1. /\ Clocks(n + m) \in Int /\ Clocks(n + m - Pulses(short)) \in Int /\ Period(short) \in Int
    <3>1. n + m \in Int /\ n + m - Pulses(short) \in Int /\ Period(short) \in Int
      BY GridNumbers, Fit
    <3>2. Clocks(n + m) \in Int /\ Clocks(n + m - Pulses(short)) \in Int
      BY <3>1, Multiples
    <3> QED
      BY <3>1, <3>2
  <2> QED
    BY <1>1, <2>1 DEF Until
<1> QED
  BY <1>3, <1>4 DEF GridStep

LEMMA GridCounts ==
  ASSUME SamplesFit, ReceiverClock!ClockType, NEW short \in {0, 1}, NEW n \in 0..OS_Rate,
         OnGrid(short, n), ReceiverClock!Generate, count_baud < BitClocks - 1, os_pulse = 1
  PROVE  n + 1 \in 0..OS_Rate /\ GridStep(short, n, short, n + 1)
<1>1. /\ Position(short) \in Int /\ Position(short)' = Position(short) + 1
      /\ Clocks(n + 1) \in Int /\ Samples \in Nat \ {0}
      /\ Position(short) = Clocks(n + 1) /\ count_os = 0 /\ ReceiverClock!SampleClocks = Samples
      /\ n < Pulses(short) /\ Pulses(short) \in {OS_Rate - 1, OS_Rate} /\ OS_Rate \in Nat
      /\ n \in Int /\ n + 1 \in 0..OS_Rate
  <2>1. /\ Clocks(n) \in Int /\ Clocks(n + 1) = Clocks(n) + Samples /\ Position(short) \in Int
        /\ Position(short) = Clocks(n) + Samples
        /\ n < Pulses(short) /\ Pulses(short) \in {OS_Rate - 1, OS_Rate}
    BY GridNumbers, Fit
  <2>2. Position(short)' = Position(short) + 1
    BY Fit DEF ReceiverClock!Generate, ReceiverClock!ClockType, Position
  <2> QED
    BY <2>1, <2>2, Numbers DEF OnGrid
<1>2. Clocks((n + 1) + 1) = Clocks(n + 1) + Samples
  BY <1>1, Multiples
<1>3. IF 1 < Samples THEN count_os' = 1 /\ os_pulse' = 0 ELSE count_os' = 0 /\ os_pulse' = 1
  BY <1>1, Fit DEF ReceiverClock!Generate, ReceiverClock!Sampling, ReceiverClock!ClockType
<1>4. OnGrid(short, n + 1)'
  <2>1. Clocks(n + 1) < Position(short)' /\ Position(short)' <= Clocks((n + 1) + 1)
    BY <1>1, <1>2
  <2>2. IF Position(short)' = Clocks((n + 1) + 1) THEN os_pulse' = 1 /\ count_os' = 0
        ELSE os_pulse' = 0 /\ count_os' = Position(short)' - Clocks(n + 1)
    BY <1>1, <1>2, <1>3
  <2> QED
    BY <2>1, <2>2 DEF OnGrid
<1>5. ASSUME NEW m \in 2..OS_Rate
      PROVE  /\ Until(short, n + 1, m - 1)' = Until(short, n, m) - 1
             /\ Early(short, n + 1, m - 1) => Early(short, n, m)
  <2>1. /\ Clocks(n + m) \in Int /\ Clocks(n + m - Pulses(short)) \in Int /\ Period(short) \in Int
    <3>1. n + m \in Int /\ n + m - Pulses(short) \in Int /\ Period(short) \in Int
      BY GridNumbers, Fit
    <3>2. Clocks(n + m) \in Int /\ Clocks(n + m - Pulses(short)) \in Int
      BY <3>1, Multiples
    <3> QED
      BY <3>1, <3>2
  <2>2. (n + 1) + (m - 1) = n + m
    BY <1>1
  <2> QED
    BY <1>1, <2>1, <2>2 DEF Until, Early
<1>6. ~Early(short, n + 1, OS_Rate) /\ ~((n + 1) + OS_Rate <= Pulses(short))
  BY <1>1 DEF Early
<1>7. Until(short, n + 1, OS_Rate)' =
        Clocks((n + 1) + OS_Rate - Pulses(short)) - Clocks(n + 1) - 1 + Period(short)
  <2>1. (n + 1) + OS_Rate - Pulses(short) \in Int
    BY <1>1
  <2>2. Clocks((n + 1) + OS_Rate - Pulses(short)) \in Int
    BY <2>1, Multiples
  <2>4. Period(short) \in Int
    BY GridNumbers
  <2>3. Until(short, n + 1, OS_Rate)' =
          Clocks((n + 1) + OS_Rate - Pulses(short)) - Position(short)' + Period(short)
    BY <1>6 DEF Until
  <2> QED
    BY <1>1, <2>2, <2>3, <2>4
<1>8. CASE Pulses(short) = OS_Rate
  <2>1. (n + 1) + OS_Rate - Pulses(short) = n + 1
    BY <1>1, <1>8
  <2> QED
    BY <1>1, <1>4, <1>5, <1>6, <1>7, <2>1, Fit DEF GridStep, Period
<1>9. CASE Pulses(short) = OS_Rate - 1
  <2>1. (n + 1) + OS_Rate - Pulses(short) = (n + 1) + 1
    BY <1>1, <1>9
  <2>2. short = 1
    BY <1>9, Fit DEF Pulses
  <2> QED
    BY <1>1, <1>2, <1>4, <1>5, <1>6, <1>7, <2>1, <2>2, Fit DEF GridStep, Period
<1> QED
  BY <1>1, <1>8, <1>9

LEMMA GridWraps ==
  ASSUME SamplesFit, ReceiverClock!ClockType, NEW short \in {0, 1}, NEW n \in 0..OS_Rate,
         OnGrid(short, n), ReceiverClock!Generate, ~(count_baud < BitClocks - 1)
  PROVE  GridStep(short, n, 0, 0)
<1>1. /\ Position(short) = Period(short) /\ Period(short) \in Nat /\ Position(0)' = 1
      /\ Samples \in Nat \ {0} /\ ReceiverClock!SampleClocks = Samples
      /\ OS_Rate \in Nat /\ Pulses(short) \in {OS_Rate - 1, OS_Rate} /\ Pulses(0) = OS_Rate
      /\ n \in Int
  <2>1. Position(short) = Period(short) /\ Position(0)' = 1 /\ Period(short) \in Nat
    BY Fit DEF ReceiverClock!Generate, ReceiverClock!ClockType, Position, Period
  <2> QED
    BY <2>1, Numbers, GridNumbers, Fit DEF Pulses
<1>2. /\ Clocks(n) \in Int /\ Clocks(Pulses(short)) \in Int
      /\ Clocks(Pulses(short)) <= Period(short) /\ Period(short) < Clocks(Pulses(short)) + Samples
      /\ Period(short) <= Clocks(n) + Samples /\ n <= Pulses(short)
      /\ os_pulse = 1 <=> Period(short) = Clocks(n) + Samples
      /\ os_pulse = 1 => n < Pulses(short)
  BY <1>1, GridNumbers
<1>3. os_pulse # 1 => n = Pulses(short)
  <2> SUFFICES ASSUME n < Pulses(short) PROVE os_pulse = 1
    BY <1>1, <1>2
  <2>1. n \in Int /\ Pulses(short) \in Int
    BY <1>1
  <2>2. Clocks(n) + Samples <= Clocks(Pulses(short))
    BY <2>1, Multiples
  <2> QED
    BY <1>1, <1>2, <2>2
<1>4. os_pulse = 1 => n + 1 = Pulses(short)
  <2> SUFFICES ASSUME os_pulse = 1, n + 1 < Pulses(short) PROVE FALSE
    BY <1>1, <1>2
  <2>1. n + 1 \in Int /\ Pulses(short) \in Int
    BY <1>1
  <2>2. Clocks(n + 1) + Samples <= Clocks(Pulses(short)) /\ Clocks(n + 1) = Clocks(n) + Samples
    BY <1>1, <2>1, Multiples
  <2> QED
    BY <1>1, <1>2, <2>2
<1>5. OnGrid(0, 0)'
  <2>1. IF 1 < Samples THEN count_os' = 1 /\ os_pulse' = 0 ELSE count_os' = 0 /\ os_pulse' = 1
    BY <1>1, Fit DEF ReceiverClock!Generate, ReceiverClock!Sampling, ReceiverClock!ClockType
  <2>2. Clocks(0) = 0 /\ Clocks(0 + 1) = Samples
    BY Multiples
  <2> QED
    BY <1>1, <2>1, <2>2 DEF OnGrid
<1>6. \A m \in 1..OS_Rate : Until(0, 0, m)' = Clocks(m) - 1
  BY <1>1 DEF Until
<1>7. \A m \in Int : Clocks(m) \in Int
  BY Multiples
<1>8. ASSUME os_pulse # 1, NEW m \in 1..OS_Rate PROVE Until(short, n, m) = Clocks(m)
  <2>1. n + m - Pulses(short) = m /\ ~(n + m <= Pulses(short)) /\ Clocks(m) \in Int
    BY <1>1, <1>3, <1>7, <1>8
  <2> QED
    BY <1>1, <2>1 DEF Until
<1>9. ASSUME os_pulse = 1, NEW m \in 2..OS_Rate PROVE Until(short, n, m) = Clocks(m - 1)
  <2>1. n + m - Pulses(short) = m - 1 /\ ~(n + m <= Pulses(short)) /\ m - 1 \in Int
    BY <1>1, <1>4, <1>9
  <2>2. Clocks(m - 1) \in Int
    BY <1>7, <2>1
  <2> QED
    BY <1>1, <2>1, <2>2 DEF Until
<1>10. ASSUME os_pulse = 1
       PROVE  /\ short = 0 => Clocks(OS_Rate) = BitClocks
              /\ short = 1 => /\ Clocks(OS_Rate) >= BitClocks - 1
                              /\ Clocks(OS_Rate) <= BitClocks - 1 + Samples
  <2>1. Clocks(Pulses(short)) = Period(short)
    <3>1. Clocks(n + 1) = Clocks(n) + Samples
      BY <1>1, Multiples
    <3> QED
      BY <1>2, <1>4, <1>10, <3>1
  <2>2. CASE Pulses(short) = OS_Rate
    BY <1>1, <2>1, <2>2, Fit DEF Period
  <2>3. CASE Pulses(short) = OS_Rate - 1
    <3>1. OS_Rate - 1 \in Int /\ (OS_Rate - 1) + 1 = OS_Rate
      BY <1>1
    <3>2. Clocks(OS_Rate) = Clocks(OS_Rate - 1) + Samples
      BY <3>1, Multiples
    <3>3. short = 1
      BY <1>1, <2>3 DEF Pulses
    <3> QED
      BY <1>1, <2>1, <2>3, <3>2, <3>3, Fit DEF Period
  <2> QED
    BY <1>1, <2>2, <2>3
<1>11. \A m : ~Early(0, 0, m)
  BY DEF Early
<1>12. ASSUME os_pulse # 1, NEW m \in 1..OS_Rate
       PROVE  Until(0, 0, m)' = Until(short, n, m) - 1
  BY <1>6, <1>8, <1>12
<1>13. ASSUME os_pulse = 1, NEW m \in 2..OS_Rate
       PROVE  Until(0, 0, m - 1)' = Until(short, n, m) - 1
  <2>1. m - 1 \in 1..OS_Rate
    BY <1>1
  <2> QED
    BY <1>6, <1>9, <1>13, <2>1
<1>14. ASSUME os_pulse = 1
       PROVE  /\ Until(0, 0, OS_Rate)' \in Int
              /\ short = 0 => Until(0, 0, OS_Rate)' = BitClocks - 1
              /\ short = 1 => /\ Until(0, 0, OS_Rate)' >= BitClocks - 2
                              /\ Until(0, 0, OS_Rate)' <= BitClocks - 2 + Samples
  <2>1. Until(0, 0, OS_Rate)' = Clocks(OS_Rate) - 1 /\ Clocks(OS_Rate) \in Int
    BY <1>6, <1>7, Fit
  <2> QED
    BY <1>1, <1>10, <1>14, <2>1, Fit
<1> QED
  BY <1>5, <1>11, <1>12, <1>13, <1>14 DEF GridStep

LEMMA GridSteps ==
  ASSUME SamplesFit, ReceiverClock!ClockType, NEW short \in {0, 1}, NEW n \in 0..OS_Rate,
         OnGrid(short, n), ReceiverClock!Generate
  PROVE  \E s \in {0, 1}, k \in 0..OS_Rate : GridStep(short, n, s, k)
<1>1. 0 \in {0, 1} /\ 0 \in 0..OS_Rate
  BY Fit
<1> QED
  BY <1>1, GridGoesOn, GridCounts, GridWraps

-----------------------------------------------------------------------------
(* The sender and the line                                                 *)

LEMMA Ranges ==
  ASSUME SamplesFit, TypeOK
  PROVE  /\ FrameShifts \in Nat /\ FrameShifts = Parity + D_Width + 3 /\ FrameShifts >= 4
         /\ BitClocks \in Nat /\ BitClocks >= 3
         /\ s_count_baud \in 0..BitClocks - 1 /\ tx_count \in 0..FrameShifts
         /\ OnLine \in 0..FrameShifts + 1 /\ Since \in 0..BitClocks - 1
         /\ Since = BitClocks - 1 <=> s_count_baud = 1
<1>1. /\ FrameShifts \in Nat /\ FrameShifts = Parity + D_Width + 3 /\ FrameShifts >= 4
      /\ BitClocks \in Nat /\ BitClocks >= 3
  BY Numbers, Fit DEF FrameShifts
<1>2. s_count_baud \in 0..BitClocks - 1 /\ tx_count \in 0..FrameShifts
  BY DEF TypeOK, SenderClock!ClockType, TransmitType
<1> QED
  BY <1>1, <1>2 DEF OnLine, Since

LEMMA BitsOfFrame ==
  ASSUME NEW d
  PROVE  /\ \A i \in Int : i <= 1 \/ i >= Parity + D_Width + 3 => Bit(d, i) = 1
         /\ Bit(d, 2) = 0
         /\ \A i \in 1..D_Width : Bit(d, i + 2) = d[i]
         /\ Parity = 1 => Bit(d, Parity + D_Width + 2) = ParityOf(d)
<1>1. D_Width \in Nat \ {0} /\ Parity \in {0, 1}
  BY Numbers
<1> QED
  BY <1>1 DEF Bit

\* The sender's clock goes round a bit.
LEMMA BitGoesOn ==
  ASSUME SamplesFit, TypeOK, SenderInv, Next
  PROVE  /\ Reset = 1 => Since' = Since
         /\ Reset = 0 => Since' = IF Since = BitClocks - 1 THEN 0 ELSE Since + 1
         /\ s_count_baud = 1 /\ Reset = 0 => s_count_baud' = 2
         /\ s_count_baud = 0 /\ Reset = 0 => s_count_baud' = 1
         /\ s_count_baud > 1 /\ Reset = 0 => s_count_baud' # 1
         /\ Reset \in {0, 1}
<1>1. Reset \in {0, 1} /\ s_count_baud \in 0..BitClocks - 1 /\ BitClocks \in Nat /\ BitClocks >= 3
  BY Ranges DEF TypeOK
<1>2. CASE Reset = 1
  BY <1>1, <1>2 DEF SenderInv, Next, SenderClock!ClockGenerator, SenderClock!ClockReset, Since
<1>3. CASE Reset = 0
  <2>1. s_count_baud' = IF s_count_baud < BitClocks - 1 THEN s_count_baud + 1 ELSE 0
    BY <1>1, <1>3 DEF Next, SenderClock!ClockGenerator, SenderClock!Generate
  <2> QED
    BY <1>1, <1>3, <2>1 DEF Since
<1> QED
  BY <1>1, <1>2, <1>3

\* A byte is received: it was on the line, and its stop bit is there.
LEMMA ArrivesAtStopBit ==
  ASSUME SamplesFit, TypeOK, LineInv, NEW short \in {0, 1}, NEW n \in 0..OS_Rate,
         ReceiverInv(short, n), Arrives
  PROVE  line # <<>> /\ OnLine = FrameShifts /\ rx_count = Parity + D_Width
<1>1. /\ rx_state = "receive" /\ os_pulse = 1 /\ os_count = OS_Rate - 1
      /\ OS_Rate \in Nat \ {0}
      /\ rx_count \in Nat /\ rx_count >= Parity + D_Width /\ Parity \in Nat /\ D_Width \in Nat
  BY Numbers DEF Arrives, Received, Centre, TypeOK, ReceiveType
<1>2. /\ line # <<>> /\ rx_count <= Parity + D_Width
      /\ OnLine \in {rx_count + 2, rx_count + 3}
  BY <1>1 DEF ReceiverInv, ReceivingInv
<1>3. PICK m \in 1..OS_Rate :
        /\ os_count + m = OS_Rate
        /\ Since + Until(short, n, m) - (IF OnLine = rx_count + 3 THEN 0 ELSE BitClocks)
             \in 0..BitClocks - 1
  BY <1>1 DEF ReceiverInv, ReceivingInv, InBit
<1>4. m = 1
  BY <1>1, <1>3
<1>6. Until(short, n, 1) = 0
  BY <1>1, <1>3, <1>4, UntilBounds DEF ReceiverInv, TypeOK
<1>5. OnLine = rx_count + 3
  BY <1>2, <1>3, <1>4, <1>6, Ranges
<1> QED
  BY <1>1, <1>2, <1>5, Ranges

\* The transmitter is idle again in the last clock of the stop bit, not before
\* the byte is received.
LEMMA IdleArrives ==
  ASSUME SamplesFit, TypeOK, SenderInv, LineInv, NEW short \in {0, 1}, NEW n \in 0..OS_Rate,
         ReceiverInv(short, n), line # <<>>, tx_state = "idle"
  PROVE  Arrives
<1>1. /\ OnLine = FrameShifts /\ Since = BitClocks - 1 /\ FrameShifts = Parity + D_Width + 3
      /\ FrameShifts >= 4 /\ FrameShifts \in Nat /\ BitClocks \in Nat /\ BitClocks >= 3
  BY Ranges DEF LineInv, OnLine
<1>2. R_Reset = 0
  BY DEF SenderInv, TypeOK
<1>3. rx_state = "receive"
  BY <1>1 DEF ReceiverInv, QuietInv, StartInv, TypeOK, ReceiveType
<1>4. /\ rx_count <= Parity + D_Width /\ OnLine \in {rx_count + 2, rx_count + 3}
      /\ rx_count \in Nat /\ Parity \in Nat /\ D_Width \in Nat
  BY <1>3, Numbers DEF ReceiverInv, ReceivingInv, TypeOK, ReceiveType
<1>5. OnLine = rx_count + 3 /\ rx_count = Parity + D_Width
  BY <1>1, <1>4
<1>6. PICK m \in 1..OS_Rate :
        os_count + m = OS_Rate /\ Since + Until(short, n, m) - 0 \in 0..BitClocks - 1
  BY <1>3, <1>5 DEF ReceiverInv, ReceivingInv, InBit
<1>7. /\ Until(short, n, m) \in Nat
      /\ Until(short, n, m) = 0 <=> os_pulse = 1 /\ m = 1
  BY UntilBounds DEF ReceiverInv, TypeOK
<1>8. os_pulse = 1 /\ m = 1
  BY <1>1, <1>6, <1>7
<1>10. os_count >= OS_Rate - 1
  BY <1>6, <1>8, Numbers DEF TypeOK, ReceiveType
<1>9. rx_count >= Parity + D_Width
  BY <1>5, Numbers
<1> QED
  BY <1>2, <1>3, <1>8, <1>9, <1>10 DEF Arrives, Received, Centre

\* No byte is received from an empty line, or in a reset.
LEMMA LineSteps ==
  ASSUME SamplesFit, TypeOK, SenderInv, LineInv, NEW short \in {0, 1}, NEW n \in 0..OS_Rate,
         ReceiverInv(short, n), Next
  PROVE  /\ Accepts(Reset, TX_Enable) => line' = <<TX_Data>>
         /\ ~Accepts(Reset, TX_Enable) => line' = IF Arrives THEN <<>> ELSE line
         /\ Accepts(Reset, TX_Enable) => line = <<>> \/ Arrives
         /\ Arrives => line # <<>>
<1>1. Arrives => line # <<>>
  BY ArrivesAtStopBit
<1>2. line = <<>> \/ (Len(line) = 1 /\ Tail(line) = <<>>)
  <2>1. line # <<>> => Len(line) = 1
    BY DEF LineInv
  <2>2. line \in Seq(Bytes)
    BY DEF TypeOK
  <2>3. ASSUME line # <<>> PROVE Tail(line) = <<>>
    <3>1. Tail(line) \in Seq(Bytes) /\ Len(Tail(line)) = 0
      BY <2>1, <2>2, <2>3, HeadTailProperties
    <3> QED
      BY <3>1, EmptySeq
  <2> QED
    BY <2>1, <2>3
<1>3. Accepts(Reset, TX_Enable) /\ line # <<>> => Arrives
  BY IdleArrives DEF Accepts
<1>4. line' = LET kept == IF Arrives /\ line # <<>> THEN Tail(line) ELSE line
              IN  IF Accepts(Reset, TX_Enable) THEN Append(kept, TX_Data) ELSE kept
  BY DEF Next
<1>5. Append(<<>>, TX_Data) = <<TX_Data>>
  OBVIOUS
<1> QED
  BY <1>1, <1>2, <1>3, <1>4, <1>5

LEMMA SenderStep ==
  ASSUME SamplesFit, TypeOK, SenderInv, LineInv, NEW short \in {0, 1}, NEW n \in 0..OS_Rate,
         ReceiverInv(short, n), Next
  PROVE  SenderInv'
<1>1. Counting'
  BY NextTypes DEF SenderInv, Counting
<1>2. /\ Reset \in {0, 1} /\ R_Reset \in {0, 1} /\ Reset' \in 0..Reset /\ R_Reset' \in 0..R_Reset
      /\ s_count_baud \in 0..BitClocks - 1 /\ BitClocks \in Nat /\ BitClocks >= 3
      /\ s_baud_pulse \in {0, 1} /\ tx_count \in 0..FrameShifts /\ FrameShifts \in Nat
      /\ FrameShifts >= 4 /\ tx_state \in {"idle", "transmit"} /\ TX_Enable \in {0, 1}
  BY Ranges DEF TypeOK, Next, User, SenderClock!ClockType, TransmitType
<1>3. CASE Reset = 1
  <2>1. /\ TX_Enable = 0 /\ TX_Enable' = 0 /\ line = <<>>
        /\ s_count_baud' = 0 /\ s_baud_pulse' = 0 /\ tx_state' = "idle" /\ tx_count' = 0
    BY <1>2, <1>3 DEF SenderInv, Next, User, SenderClock!ClockGenerator, SenderClock!ClockReset,
                      Transmit, TransmitReset
  <2>2. line' = <<>>
    BY <1>3, <2>1, LineSteps DEF Accepts
  <2> QED
    BY <1>1, <1>2, <2>1, <2>2 DEF SenderInv, Counting
<1>4. CASE Reset = 0
  <2>1. Reset' = 0
    BY <1>2, <1>4
  <2>2. /\ s_count_baud' # 0 => s_baud_pulse' = 0
        /\ s_count_baud' = 0 => s_baud_pulse' = 1
    BY <1>2, <1>4 DEF Next, SenderClock!ClockGenerator, SenderClock!Generate
  <2>3. tx_state' = "idle" => tx_count' \in {0, FrameShifts}
    <3>1. CASE tx_state = "idle"
      BY <1>2, <1>4, <3>1 DEF SenderInv, Next, Transmit, Idle, Sending
    <3>2. CASE tx_state = "transmit"
      <4>1. tx_count < FrameShifts /\ tx_count' = tx_count + s_baud_pulse
            /\ tx_state' = IF tx_count' < FrameShifts THEN "transmit" ELSE "idle"
        BY <1>4, <3>2 DEF SenderInv, Next, Transmit, Idle, Sending
      <4> QED
        BY <1>2, <4>1
    <3> QED
      BY <1>2, <3>1, <3>2
  <2>4. ASSUME R_Reset' = 1 PROVE TX_Enable' = 0 /\ tx_state' = "idle" /\ line' = <<>>
    <3>1. R_Reset = 1 /\ TX_Enable = 0 /\ tx_state = "idle" /\ line = <<>>
      BY <1>2, <2>4 DEF SenderInv
    <3>2. TX_Enable' = 0
      BY <3>1 DEF Next, User
    <3>3. tx_state' = "idle"
      BY <1>4, <3>1 DEF Next, Transmit, Idle, Sending
    <3>4. line' = <<>>
      BY <3>1, LineSteps DEF Accepts
    <3> QED
      BY <3>2, <3>3, <3>4
  <2> QED
    BY <1>1, <1>2, <2>1, <2>2, <2>3, <2>4 DEF SenderInv, Counting
<1> QED
  BY <1>2, <1>3, <1>4

\* What the transmitter does when it is not in reset.
LEMMA BufferSteps ==
  ASSUME SamplesFit, TypeOK, SenderInv, Next, Reset = 0
  PROVE  /\ TX' = tx_buffer[1]
         /\ Accepts(Reset, TX_Enable) =>
              tx_state' = "transmit" /\ tx_count' = 0 /\ tx_buffer' = Frame(TX_Data)
         /\ ~Accepts(Reset, TX_Enable) /\ tx_state = "idle" =>
              tx_state' = "idle" /\ tx_count' = tx_count /\ tx_buffer' = tx_buffer
         /\ tx_state = "transmit" /\ s_count_baud # 0 =>
              tx_state' = "transmit" /\ tx_count' = tx_count /\ tx_buffer' = tx_buffer
         /\ tx_state = "transmit" /\ s_count_baud = 0 =>
              /\ tx_count' = tx_count + 1
              /\ tx_state' = "idle" => tx_count' = FrameShifts
              /\ tx_buffer' = Append(Tail(tx_buffer), 1)
<1>1. /\ s_baud_pulse \in {0, 1} /\ tx_count \in 0..FrameShifts /\ FrameShifts \in Nat
      /\ tx_state \in {"idle", "transmit"} /\ TX_Enable \in {0, 1}
      /\ tx_state = "transmit" => tx_count < FrameShifts
      /\ s_count_baud # 0 => s_baud_pulse = 0
      /\ tx_state = "transmit" /\ s_count_baud = 0 => s_baud_pulse = 1
      /\ Transmit(Reset, s_baud_pulse, TX_Enable, TX_Data)
  BY Ranges DEF TypeOK, SenderClock!ClockType, TransmitType, SenderInv, Next
<1>2. Head(tx_buffer) = tx_buffer[1]
  BY Numbers, Shifted DEF TypeOK, TransmitType
<1>3. CASE tx_state = "idle"
  BY <1>1, <1>2, <1>3 DEF Transmit, Idle, Sending, Accepts
<1>4. CASE tx_state = "transmit"
  <2>1. /\ TX' = Head(tx_buffer) /\ tx_count' = tx_count + s_baud_pulse
        /\ tx_buffer' = IF s_baud_pulse = 1 THEN Append(Tail(tx_buffer), 1) ELSE tx_buffer
        /\ tx_state' = IF tx_count' < FrameShifts THEN "transmit" ELSE "idle"
    BY <1>1, <1>4 DEF Transmit, Idle, Sending
  <2> QED
    BY <1>1, <1>2, <1>4, <2>1 DEF Accepts
<1> QED
  BY <1>1, <1>3, <1>4

\* The bit on the line is the next one when the sender's clock has gone round.
LEMMA ByteGoesOn ==
  ASSUME SamplesFit, TypeOK, SenderInv, Next, Reset = 0, tx_state = "transmit"
  PROVE  OnLine' = IF Since = BitClocks - 1 THEN OnLine + 1 ELSE OnLine
<1>1. s_count_baud \in 0..BitClocks - 1 /\ tx_count \in 0..FrameShifts
      /\ (Since = BitClocks - 1 <=> s_count_baud = 1) /\ FrameShifts \in Nat /\ BitClocks \in Nat
  BY Ranges
<1>2. CASE s_count_baud = 0
  BY <1>1, <1>2, BitGoesOn, BufferSteps DEF OnLine
<1>3. CASE s_count_baud = 1
  BY <1>1, <1>3, BitGoesOn, BufferSteps DEF OnLine
<1>4. CASE s_count_baud > 1
  BY <1>1, <1>4, BitGoesOn, BufferSteps DEF OnLine
<1> QED
  BY <1>1, <1>2, <1>3, <1>4

\* A byte that is taken is on its way with the idle bit.
LEMMA ByteStarts ==
  ASSUME SamplesFit, TypeOK, SenderInv, LineInv, NEW short \in {0, 1}, NEW n \in 0..OS_Rate,
         ReceiverInv(short, n), Next, Accepts(Reset, TX_Enable)
  PROVE  /\ LineInv' /\ line' # <<>> /\ OnLine' \in {0, 1}
         /\ (line # <<>> \/ OnLine = FrameShifts) => Since = BitClocks - 1 /\ OnLine' = 1
<1> DEFINE len == Parity + D_Width + 2
<1>1. /\ Reset = 0 /\ tx_state = "idle" /\ TX_Data \in Bytes /\ line' = <<TX_Data>>
      /\ TX' = tx_buffer[1] /\ tx_state' = "transmit" /\ tx_count' = 0
      /\ tx_buffer' = Frame(TX_Data)
  BY LineSteps, BufferSteps DEF Accepts, TypeOK
<1>2. /\ OnLine' \in {0, 1} /\ OnLine' \in Int /\ len \in Nat /\ 1 \in 1..len
      /\ (Since = BitClocks - 1 <=> s_count_baud = 1)
      /\ FrameShifts \in Nat /\ FrameShifts >= 4 /\ FrameShifts = len + 1
      /\ tx_count \in {0, FrameShifts} /\ tx_count \in Int
      /\ s_count_baud = 1 => OnLine' = 1
  BY <1>1, Ranges, Numbers, BitGoesOn DEF OnLine, SenderInv
<1>3. line # <<>> \/ OnLine = FrameShifts => s_count_baud = 1 /\ tx_count = FrameShifts
  BY <1>1, <1>2 DEF LineInv, OnLine
<1>4. TX' = 1
  <2>1. CASE line = <<>>
    BY <1>1, <1>2, <2>1 DEF LineInv, len
  <2>2. CASE line # <<>>
    <3>1. TX' = Bit(line[1], tx_count + 1)
      BY <1>1, <1>2, <2>2 DEF LineInv, len
    <3>2. tx_count + 1 \in Int /\ tx_count + 1 >= Parity + D_Width + 3
      BY <1>2, <1>3, <2>2 DEF FrameShifts
    <3> QED
      BY <3>1, <3>2, BitsOfFrame
  <2> QED
    BY <2>1, <2>2
<1>5. line'[1] = TX_Data /\ Len(line') = 1 /\ line' # <<>>
  BY <1>1
<1>6. Bit(TX_Data, OnLine') = 1
  BY <1>2, BitsOfFrame
<1>7. \A i \in 1..len : tx_buffer'[i] = Bit(TX_Data, tx_count' + i)
  BY <1>1, FrameBits DEF len
<1>8. LineInv'
  BY <1>1, <1>4, <1>5, <1>6, <1>7 DEF LineInv, len, Bit, ParityOf
<1> QED
  BY <1>2, <1>3, <1>5, <1>8

\* The frame is shifted out; behind it the line is idle.
LEMMA BufferShifts ==
  ASSUME SamplesFit, TypeOK, SenderInv, Next, Reset = 0, ~Accepts(Reset, TX_Enable), NEW d,
         \A i \in 1..Parity + D_Width + 2 : tx_buffer[i] = Bit(d, tx_count + i)
  PROVE  \A i \in 1..Parity + D_Width + 2 : tx_buffer'[i] = Bit(d, tx_count' + i)
<1> DEFINE len == Parity + D_Width + 2
<1>1. CASE tx_state = "transmit" /\ s_count_baud = 0
  <2>1. tx_count' = tx_count + 1 /\ tx_buffer' = Append(Tail(tx_buffer), 1)
    BY <1>1, BufferSteps
  <2>2. /\ len \in Nat \ {0} /\ tx_count \in Nat /\ tx_buffer \in [1..len -> {0, 1}]
        /\ len = Parity + D_Width + 2 /\ Parity + D_Width + 3 = len + 1
    BY Numbers, Ranges DEF TypeOK, TransmitType
  <2>3. /\ \A i \in 1..len - 1 : tx_buffer'[i] = tx_buffer[i + 1]
        /\ tx_buffer'[len] = 1
    BY <2>1, <2>2, Shifted
  <2>4. ASSUME NEW i \in 1..len, i # len PROVE tx_buffer'[i] = Bit(d, tx_count' + i)
    <3>1. i \in 1..len - 1 /\ i + 1 \in 1..len /\ tx_count' + i = tx_count + (i + 1)
      BY <2>1, <2>2, <2>4
    <3> QED
      BY <2>3, <3>1
  <2>5. tx_buffer'[len] = Bit(d, tx_count' + len)
    <3>1. tx_count' + len \in Int /\ tx_count' + len >= Parity + D_Width + 3
      BY <2>1, <2>2
    <3> QED
      BY <2>3, <3>1, BitsOfFrame
  <2> QED
    BY <2>4, <2>5
<1>2. CASE ~(tx_state = "transmit" /\ s_count_baud = 0)
  <2>1. tx_count' = tx_count /\ tx_buffer' = tx_buffer
    BY <1>2, BufferSteps DEF TypeOK, TransmitType
  <2> QED
    BY <2>1
<1> QED
  BY <1>1, <1>2

\* A byte that is not yet received stays on the line.
LEMMA ByteStays ==
  ASSUME SamplesFit, TypeOK, SenderInv, LineInv, NEW short \in {0, 1}, NEW n \in 0..OS_Rate,
         ReceiverInv(short, n), Next, line # <<>>, ~Arrives
  PROVE  /\ Reset = 0 /\ R_Reset = 0 /\ tx_state = "transmit" /\ line' = line
         /\ OnLine' = (IF Since = BitClocks - 1 THEN OnLine + 1 ELSE OnLine)
         /\ LineInv'
<1>1. Reset = 0 /\ R_Reset = 0 /\ tx_state = "transmit" /\ ~Accepts(Reset, TX_Enable)
  BY IdleArrives DEF SenderInv, TypeOK, TransmitType, Accepts
<1>2. line' = line
  BY <1>1, LineSteps
<1>3. OnLine' = IF Since = BitClocks - 1 THEN OnLine + 1 ELSE OnLine
  BY <1>1, ByteGoesOn
<1>4. /\ Len(line) = 1
      /\ \A i \in 1..Parity + D_Width + 2 : tx_buffer[i] = Bit(line[1], tx_count + i)
  BY DEF LineInv
<1>5. \A i \in 1..Parity + D_Width + 2 : tx_buffer'[i] = Bit(line[1], tx_count' + i)
  BY <1>1, <1>4, BufferShifts
<1>6. TX' = Bit(line[1], OnLine')
  <2>1. TX' = tx_buffer[1] /\ 1 \in 1..Parity + D_Width + 2
    BY <1>1, BufferSteps, Numbers
  <2>2. OnLine' = tx_count + 1
    <3>1. (Since = BitClocks - 1 <=> s_count_baud = 1) /\ tx_count \in Nat
      BY Ranges
    <3> QED
      BY <1>3, <3>1 DEF OnLine
  <2> QED
    BY <1>4, <2>1, <2>2
<1>7. tx_state' = "idle" => tx_count' = FrameShifts /\ s_count_baud' = 1
  <2>1. s_count_baud = 0 => s_count_baud' = 1
    BY <1>1, BitGoesOn
  <2> QED
    BY <1>1, <2>1, BufferSteps
<1> QED
  BY <1>1, <1>2, <1>3, <1>4, <1>5, <1>6, <1>7 DEF LineInv, Bit, ParityOf

\* Nothing on the line, or nothing any more: the line is idle.
LEMMA LineIdles ==
  ASSUME SamplesFit, TypeOK, SenderInv, LineInv, NEW short \in {0, 1}, NEW n \in 0..OS_Rate,
         ReceiverInv(short, n), Next, ~Accepts(Reset, TX_Enable), line = <<>> \/ Arrives
  PROVE  /\ LineInv' /\ line' = <<>>
         /\ OnLine = FrameShifts =>
              \/ Since = BitClocks - 1
              \/ Reset = 0 /\ Since # BitClocks - 1 /\ OnLine' = FrameShifts
<1> DEFINE len == Parity + D_Width + 2
<1>1. line' = <<>>
  BY LineSteps
<1>2. /\ Reset \in {0, 1} /\ len \in Nat /\ 1 \in 1..len /\ FrameShifts = len + 1
      /\ FrameShifts \in Nat /\ FrameShifts >= 4 /\ Parity + D_Width + 3 = FrameShifts
      /\ tx_state \in {"idle", "transmit"} /\ tx_count \in Nat
      /\ (Since = BitClocks - 1 <=> s_count_baud = 1)
  BY Numbers, Ranges DEF TypeOK, TransmitType
<1>3. \A i \in 1..len : tx_buffer[i] = 1
  <2>1. CASE line = <<>>
    BY <2>1 DEF LineInv, len
  <2>2. CASE line # <<>>
    <3>1. OnLine = FrameShifts /\ \A i \in 1..len : tx_buffer[i] = Bit(line[1], tx_count + i)
      BY <2>2, ArrivesAtStopBit DEF LineInv, len
    <3>2. tx_count >= len
      BY <1>2, <3>1 DEF OnLine
    <3>3. ASSUME NEW i \in 1..len PROVE Bit(line[1], tx_count + i) = 1
      <4>1. tx_count + i \in Int /\ tx_count + i >= Parity + D_Width + 3
        BY <1>2, <3>2
      <4> QED
        BY <4>1, BitsOfFrame
    <3> QED
      BY <3>1, <3>3
  <2> QED
    BY <2>1, <2>2
<1>4. TX' = 1 /\ \A i \in 1..len : tx_buffer'[i] = 1
  <2>1. CASE Reset = 1
    <3>1. TX' = 1 /\ tx_buffer' = tx_buffer
      BY <2>1 DEF Next, Transmit, TransmitReset
    <3> QED
      BY <1>3, <3>1
  <2>2. CASE Reset = 0
    <3>1. TX' = 1
      BY <1>2, <1>3, <2>2, BufferSteps
    <3>2. CASE tx_state = "transmit" /\ s_count_baud = 0
      <4>1. /\ tx_buffer' = Append(Tail(tx_buffer), 1) /\ tx_buffer \in [1..len -> {0, 1}]
            /\ len \in Nat \ {0}
        BY <1>2, <2>2, <3>2, BufferSteps, SMTT(20) DEF TypeOK, TransmitType
      <4>2. /\ \A i \in 1..len - 1 : tx_buffer'[i] = tx_buffer[i + 1]
            /\ tx_buffer'[len] = 1
        BY <4>1, Shifted
      <4> QED
        BY <1>2, <1>3, <3>1, <4>2
    <3>3. CASE ~(tx_state = "transmit" /\ s_count_baud = 0)
      <4>1. tx_buffer' = tx_buffer
        BY <1>2, <2>2, <3>3, BufferSteps
      <4> QED
        BY <1>3, <3>1, <4>1
    <3> QED
      BY <3>2, <3>3
  <2> QED
    BY <1>2, <2>1, <2>2
<1>5. LineInv'
  BY <1>1, <1>4 DEF LineInv, len
<1>6. ASSUME OnLine = FrameShifts, Since # BitClocks - 1
      PROVE  Reset = 0 /\ OnLine' = FrameShifts
  <2>1. s_count_baud # 1 /\ tx_count = FrameShifts - 1
    BY <1>2, <1>6 DEF OnLine
  <2>2. Reset = 0 /\ tx_state = "transmit"
    BY <1>2, <2>1 DEF SenderInv
  <2> QED
    BY <1>6, <2>2, ByteGoesOn
<1> QED
  BY <1>1, <1>5, <1>6

-----------------------------------------------------------------------------
(* The receiver                                                            *)

LEMMA InitLink == Init => LinkInv
<1> SUFFICES ASSUME Init PROVE LinkInv
  OBVIOUS
<1>1. TypeOK
  BY InitTypes
<1>2. SenderInv /\ LineInv
  BY Numbers DEF Init, SenderInv, LineInv, FrameShifts, SenderClock!ClockInit, TransmitInit
<1>3. OnGrid(1, 0)
  <2>1. Position(1) = 0 /\ os_pulse = 0 /\ count_os = 0
    BY DEF Init, ReceiverClock!ClockInit, Position
  <2>2. Clocks(0) = 0 /\ Clocks(0 + 1) = Samples /\ Samples \in Nat \ {0}
    BY Multiples, Numbers
  <2> QED
    BY <2>1, <2>2 DEF OnGrid
<1>4. ReceiverInv(1, 0)
  BY <1>3 DEF ReceiverInv, ReceivingInv, QuietInv, Init, ReceiveInit
<1>5. 1 \in {0, 1} /\ 0 \in 0..OS_Rate
  BY Numbers
<1> QED
  BY <1>1, <1>2, <1>4, <1>5 DEF LinkInv

\* In reset.
LEMMA ReceiverResets ==
  ASSUME SamplesFit, TypeOK, SenderInv, LineInv, NEW short \in {0, 1}, NEW n \in 0..OS_Rate,
         ReceiverInv(short, n), Next, R_Reset = 1
  PROVE  ReceiverInv(1, 0)'
<1>1. OnGrid(1, 0)'
  BY GridStarts DEF Next, ReceiverClock!ClockGenerator
<1>2. rx_state' = "idle" /\ os_count' = 0
  BY DEF Next, Receive, ReceiveReset
<1>3. line = <<>> /\ ~Accepts(Reset, TX_Enable)
  BY DEF SenderInv, Accepts
<1>4. line' = <<>>
  BY <1>3, LineSteps
<1> QED
  BY <1>1, <1>2, <1>4 DEF ReceiverInv, ReceivingInv, QuietInv

\* A sample that is not this clock's comes a clock nearer.
LEMMA SampleComes ==
  ASSUME SamplesFit, TypeOK, NEW short \in {0, 1}, NEW n \in 0..OS_Rate, OnGrid(short, n),
         NEW s \in {0, 1}, NEW k \in 0..OS_Rate, GridStep(short, n, s, k),
         NEW m \in 1..OS_Rate, ~(os_pulse = 1 /\ m = 1)
  PROVE  /\ m - os_pulse \in 1..OS_Rate
         /\ Until(short, n, m) \in Nat \ {0}
         /\ \A q \in 1..OS_Rate : q = m - os_pulse =>
              /\ Until(s, k, q)' = Until(short, n, m) - 1
              /\ Early(s, k, q) => Early(short, n, m)
<1>1. os_pulse \in {0, 1} /\ OS_Rate \in Nat
  BY Fit DEF TypeOK, ReceiverClock!ClockType
<1>2. Until(short, n, m) \in Nat \ {0}
  BY UntilBounds DEF TypeOK
<1>3. CASE os_pulse = 0
  <2>1. \A q \in 1..OS_Rate : q = m - os_pulse => q = m
    BY <1>3
  <2> QED
    BY <1>1, <1>2, <1>3, <2>1 DEF GridStep
<1>4. CASE os_pulse = 1
  <2>1. m \in 2..OS_Rate
    BY <1>1, <1>4
  <2>2. \A q \in 1..OS_Rate : q = m - os_pulse => q = m - 1
    BY <1>4
  <2>3. Until(s, k, m - 1)' = Until(short, n, m) - 1 /\ (Early(s, k, m - 1) => Early(short, n, m))
    BY <1>4, <2>1 DEF GridStep
  <2> QED
    BY <1>1, <1>2, <1>4, <2>1, <2>2, <2>3
<1> QED
  BY <1>1, <1>3, <1>4

\* OS_Rate samples later the receiver looks at the next bit, in the same clock of
\* it if the period is not the short one.
LEMMA NextCentre ==
  ASSUME SamplesFit, TypeOK, NEW short \in {0, 1}, NEW n \in 0..OS_Rate, OnGrid(short, n),
         NEW s \in {0, 1}, NEW k \in 0..OS_Rate, GridStep(short, n, s, k),
         os_pulse = 1, NEW o, InBit(short, n, 1, o), Early(short, n, 1) => o > 0
  PROVE  /\ Until(s, k, OS_Rate)' \in Int
         /\ o + 1 + Until(s, k, OS_Rate)' - BitClocks \in 0..BitClocks - 1
         /\ ~Early(s, k, OS_Rate)
<1>1. /\ BitClocks \in Nat /\ Samples \in Nat /\ o \in 0..BitClocks - 1
      /\ Early(short, n, 1) => o <= BitClocks - Samples /\ o > 0
      /\ ~Early(s, k, OS_Rate)
      /\ Until(s, k, OS_Rate)' \in Int
      /\ short = 0 => Until(s, k, OS_Rate)' = BitClocks - 1
      /\ short = 1 => /\ Until(s, k, OS_Rate)' >= BitClocks - 2
                      /\ Until(s, k, OS_Rate)' <= BitClocks - 2 + Samples
  BY Fit DEF InBit, GridStep
<1>2. short = 1 => Early(short, n, 1)
  <2>1. n < Pulses(short) /\ Pulses(short) \in {OS_Rate - 1, OS_Rate}
    BY GridNumbers DEF TypeOK
  <2>2. n + 1 <= Pulses(short)
    BY <2>1, Fit
  <2> QED
    BY <2>2 DEF Early
<1>3. CASE short = 0
  BY <1>1, <1>3
<1>4. CASE short = 1
  BY <1>1, <1>2, <1>4
<1> QED
  BY <1>1, <1>3, <1>4

\* The line is quiet.
LEMMA QuietLine ==
  ASSUME SamplesFit, TypeOK, LineInv, NEW short \in {0, 1}, NEW n \in 0..OS_Rate,
         QuietInv(short, n), rx_state = "idle", R_Reset = 0, Next
  PROVE  rx_state' = "idle" /\ os_count' = IF os_pulse = 1 THEN 0 ELSE os_count
<1>1. TX = 1
  BY Ranges, BitsOfFrame DEF LineInv, QuietInv
<1> QED
  BY <1>1 DEF Next, Receive, Listen, StartBit, Wait, DataBit, StopBit, Centre, rxVars, TypeOK,
              ReceiverClock!ClockType

\* No start bit yet, or its first clock comes.
LEMMA QuietStep ==
  ASSUME SamplesFit, TypeOK, SenderInv, LineInv, NEW short \in {0, 1}, NEW n \in 0..OS_Rate,
         ReceiverInv(short, n), NEW s \in {0, 1}, NEW k \in 0..OS_Rate,
         GridStep(short, n, s, k), Next, R_Reset = 0, rx_state = "idle", QuietInv(short, n)
  PROVE  ReceiverInv(s, k)'
<1>1. /\ OnGrid(s, k)' /\ OnGrid(short, n) /\ ~Arrives
      /\ rx_state' = "idle" /\ os_count' = IF os_pulse = 1 THEN 0 ELSE os_count
  BY QuietLine DEF GridStep, ReceiverInv, Arrives, Received, Centre
<1>2. /\ BitClocks \in Nat /\ BitClocks >= 3 /\ OnLine \in Nat /\ Since \in 0..BitClocks - 1
      /\ FrameShifts \in Nat /\ FrameShifts >= 4
      /\ 1 \in 1..OS_Rate /\ OS_Rate \in Nat /\ OS_Rate >= 3 /\ os_pulse \in {0, 1}
  <2>1. /\ BitClocks \in Nat /\ BitClocks >= 3 /\ OnLine \in Nat /\ Since \in 0..BitClocks - 1
        /\ FrameShifts \in Nat /\ FrameShifts >= 4
    BY Ranges
  <2>2. OS_Rate \in Nat /\ OS_Rate >= 3
    BY Fit
  <2>3. os_pulse \in {0, 1}
    BY DEF TypeOK, ReceiverClock!ClockType
  <2> QED
    BY <2>1, <2>2, <2>3
<1>3. /\ Until(short, n, 1) \in Nat /\ Until(short, n, 1) < BitClocks
      /\ Until(short, n, 1) = 0 => os_pulse = 1
      /\ os_pulse = 0 => Until(s, k, 1)' = Until(short, n, 1) - 1
  <2>1. os_pulse = 0 => Until(s, k, 1)' = Until(short, n, 1) - 1
    BY <1>2 DEF GridStep
  <2> QED
    BY <1>1, <1>2, <2>1, UntilBounds DEF TypeOK
<1>4. /\ Reset = 1 => Since' = Since
      /\ Reset = 0 => Since' = IF Since = BitClocks - 1 THEN 0 ELSE Since + 1
      /\ Reset \in {0, 1}
  BY BitGoesOn
<1>5. SUFFICES QuietInv(s, k)' \/ StartInv(s, k)'
  BY <1>1 DEF ReceiverInv, ReceivingInv
<1>6. \/ os_count' = 0
      \/ Since' + Until(s, k, 1)' < BitClocks
      \/ line = <<>> /\ OnLine = FrameShifts /\ Since # BitClocks - 1
  <2>1. CASE os_pulse = 1 \/ os_count = 0
    BY <1>1, <2>1
  <2>2. CASE os_pulse = 0 /\ Since + Until(short, n, 1) < BitClocks
    BY <1>2, <1>3, <1>4, <2>2
  <2>3. CASE os_pulse = 0 /\ line = <<>> /\ OnLine = FrameShifts
    <3>1. Reset = 1 => Since # BitClocks - 1
      BY <1>2, <1>4, Ranges DEF SenderInv
    <3> QED
      BY <1>2, <1>3, <1>4, <2>3, <3>1
  <2> QED
    BY <1>2, <2>1, <2>2, <2>3 DEF QuietInv
<1>7. CASE line = <<>> /\ ~Accepts(Reset, TX_Enable)
  <2>1. line' = <<>> /\ (OnLine = FrameShifts /\ Since # BitClocks - 1 => OnLine' = FrameShifts)
    BY <1>7, LineIdles
  <2>2. FrameShifts' = FrameShifts
    BY DEF FrameShifts
  <2> QED
    BY <1>6, <2>1, <2>2 DEF QuietInv
<1>8. CASE Accepts(Reset, TX_Enable)
  <2>1. OnLine' \in {0, 1} /\ (OnLine = FrameShifts => Since = BitClocks - 1)
    BY <1>8, ByteStarts
  <2> QED
    BY <1>2, <1>6, <2>1 DEF QuietInv
<1>9. CASE line # <<>> /\ ~Accepts(Reset, TX_Enable)
  <2>1. /\ OnLine <= 1 /\ Reset = 0 /\ line' = line
        /\ OnLine' = IF Since = BitClocks - 1 THEN OnLine + 1 ELSE OnLine
    BY <1>1, <1>9, ByteStays DEF QuietInv
  <2>2. CASE OnLine' <= 1
    BY <1>6, <1>9, <2>2 DEF QuietInv
  <2>3. CASE ~(OnLine' <= 1)
    <3>1. OnLine' = 2 /\ Since = BitClocks - 1 /\ Since' = 0
      BY <1>2, <1>4, <2>1, <2>3
    <3>2. os_count' = 0
      <4>1. os_pulse = 0 => os_count = 0
        <5>1. OnLine # FrameShifts
          BY <1>2, <2>1
        <5>2. os_pulse = 0 => ~(Since + Until(short, n, 1) < BitClocks)
          BY <1>2, <1>3, <3>1
        <5> QED
          BY <5>1, <5>2 DEF QuietInv
      <4> QED
        BY <1>1, <1>2, <4>1
    <3>3. PICK m \in 1..OS_Rate : m = Half + 1 + os_pulse
      BY <1>2, Fit
    <3>4. Half \in Nat \ {0} /\ Half + 1 \in 1..OS_Rate - 1 /\ Samples \in Nat \ {0}
      BY Fit
    <3>5. ~(os_pulse = 1 /\ m = 1) /\ Half + 1 \in 1..OS_Rate /\ Half + 1 = m - os_pulse
      BY <1>2, <3>3, <3>4
    <3>6. /\ Until(s, k, Half + 1)' = Until(short, n, m) - 1
          /\ Early(s, k, Half + 1) => Early(short, n, m)
          /\ Until(short, n, m) \in Nat \ {0}
      BY <1>1, <3>5, SampleComes
    <3>7. InBit(short, n, m, Until(short, n, m))
      <4>1. os_pulse = 0 => m <= OS_Rate - 1
        BY <1>2, <3>3, <3>4
      <4> QED
        BY <1>1, <1>2, <4>1, UntilBounds DEF TypeOK
    <3>8. InBit(s, k, Half + 1, Since + Until(s, k, Half + 1))'
      BY <1>2, <3>1, <3>4, <3>6, <3>7 DEF InBit
    <3>9. StartInv(s, k)'
      <4>1. Half + 1 \in 1..Half + 1 /\ os_count' + (Half + 1) = Half + 1
        BY <3>2, <3>4
      <4> QED
        BY <1>9, <2>1, <3>1, <3>2, <3>8, <4>1 DEF StartInv, Half
    <3> QED
      BY <3>9
  <2> QED
    BY <2>2, <2>3
<1> QED
  BY <1>7, <1>8, <1>9

\* What the receiver does with a clock and its sample.
LEMMA ReceiverDoes ==
  ASSUME SamplesFit, TypeOK, R_Reset = 0, Next
  PROVE  /\ os_pulse = 0 => UNCHANGED rxVars
         /\ rx_state = "idle" /\ os_pulse = 1 /\ TX = 0 /\ os_count < Half =>
              rx_state' = "idle" /\ os_count' = os_count + 1
         /\ rx_state = "idle" /\ os_pulse = 1 /\ TX = 0 /\ os_count >= Half =>
              rx_state' = "receive" /\ os_count' = 0 /\ rx_count' = 0
         /\ rx_state = "receive" /\ os_pulse = 1 /\ os_count < OS_Rate - 1 =>
              /\ os_count' = os_count + 1 /\ rx_state' = rx_state
              /\ rx_count' = rx_count /\ rx_buffer' = rx_buffer
         /\ Centre /\ os_pulse = 1 /\ rx_count < Parity + D_Width =>
              /\ os_count' = 0 /\ rx_state' = rx_state
              /\ rx_count' = rx_count + 1 /\ rx_buffer' = Append(Tail(rx_buffer), TX)
         /\ Centre /\ os_pulse = 1 /\ ~(rx_count < Parity + D_Width) =>
              /\ rx_state' = "idle" /\ RX_Data' = SubSeq(rx_buffer, 2, D_Width + 1)
<1>1. Receive(R_Reset, os_pulse, TX)
  BY DEF Next
<1>2. /\ OS_Rate \in Nat /\ os_count \in Nat /\ rx_count \in Nat /\ Parity \in Nat /\ D_Width \in Nat
      /\ Half \in Nat
  BY Numbers, Fit DEF TypeOK, ReceiveType
<1> QED
  BY <1>1, <1>2 DEF Receive, Listen, StartBit, Wait, DataBit, StopBit, Centre, Half

\* In the start bit, up to its centre.
LEMMA StartStep ==
  ASSUME SamplesFit, TypeOK, SenderInv, LineInv, NEW short \in {0, 1}, NEW n \in 0..OS_Rate,
         ReceiverInv(short, n), NEW s \in {0, 1}, NEW k \in 0..OS_Rate,
         GridStep(short, n, s, k), Next, R_Reset = 0, rx_state = "idle", StartInv(short, n)
  PROVE  ReceiverInv(s, k)'
<1>1. OnGrid(s, k)' /\ OnGrid(short, n) /\ ~Arrives /\ line # <<>> /\ OnLine = 2
  BY DEF GridStep, ReceiverInv, Arrives, Received, Centre, StartInv
<1>2. /\ Reset = 0 /\ line' = line
      /\ OnLine' = IF Since = BitClocks - 1 THEN 3 ELSE 2
  BY <1>1, ByteStays
<1>3. TX = 0
  BY <1>1, BitsOfFrame DEF LineInv
<1>4. PICK m \in 1..Half + 1 : /\ os_count + m = Half + 1
                              /\ InBit(short, n, m, Since + Until(short, n, m))
  BY <1>1 DEF StartInv
<1>5. /\ BitClocks \in Nat /\ Since \in 0..BitClocks - 1 /\ os_pulse \in {0, 1}
      /\ OS_Rate \in Nat /\ 1 \in 1..OS_Rate /\ m \in 1..OS_Rate /\ OS_Rate \in 1..OS_Rate
      /\ Half \in Nat \ {0} /\ os_count \in Nat
      /\ Since' = IF Since = BitClocks - 1 THEN 0 ELSE Since + 1
  <2>1. /\ OS_Rate \in Nat /\ OS_Rate >= 3 /\ Half \in Nat \ {0} /\ Half + 1 <= OS_Rate - 1
        /\ BitClocks \in Nat /\ Since \in 0..BitClocks - 1
    BY Ranges, Fit
  <2>2. os_pulse \in {0, 1} /\ os_count \in 0..OS_Rate - 1
    BY DEF TypeOK, ReceiverClock!ClockType, ReceiveType
  <2> QED
    BY <1>2, <2>1, <2>2, BitGoesOn
<1>6. CASE ~(os_pulse = 1 /\ m = 1)
  <2>1. PICK q \in 1..OS_Rate : q = m - os_pulse
    BY <1>1, <1>5, <1>6, SampleComes
  <2>2. /\ Until(s, k, q)' = Until(short, n, m) - 1 /\ (Early(s, k, q) => Early(short, n, m))
        /\ Until(short, n, m) \in Nat \ {0}
    BY <1>1, <1>5, <1>6, <2>1, SampleComes
  <2>3. Since + Until(short, n, m) \in 0..BitClocks - 1
    BY <1>4 DEF InBit
  <2>4. Since # BitClocks - 1 /\ Since' = Since + 1 /\ OnLine' = 2
    BY <1>2, <1>5, <2>2, <2>3
  <2>5. Since' + Until(s, k, q)' = Since + Until(short, n, m)
    BY <1>5, <2>2, <2>4
  <2>6. rx_state' = "idle" /\ os_count' = os_count + os_pulse
    <3>1. CASE os_pulse = 0
      BY <1>5, <3>1, ReceiverDoes DEF rxVars
    <3>2. CASE os_pulse = 1
      <4>1. os_count < Half
        BY <1>4, <1>5, <1>6, <3>2
      <4> QED
        BY <1>3, <1>5, <3>2, <4>1, ReceiverDoes
    <3> QED
      BY <1>5, <3>1, <3>2
  <2>7. InBit(s, k, q, Since + Until(s, k, q))'
    BY <1>4, <2>2, <2>5 DEF InBit
  <2>8. os_count' + q = Half + 1 /\ q \in 1..Half + 1
    BY <1>4, <1>5, <2>1, <2>6
  <2>9. os_count' > 0 => Since' + Until(s, k, 1)' > 0
    <3>1. CASE os_pulse = 0
      <4>1. Until(s, k, 1)' = Until(short, n, 1) - 1 /\ Until(short, n, 1) \in Nat
        BY <1>1, <1>5, <3>1, UntilBounds DEF GridStep, TypeOK
      <4>2. os_count > 0 => Since + Until(short, n, 1) > 0
        BY <1>1 DEF StartInv
      <4> QED
        BY <1>5, <2>4, <2>6, <3>1, <4>1, <4>2
    <3>2. CASE os_pulse = 1
      <4>1. 2 \in 1..OS_Rate /\ 2 \in 2..OS_Rate /\ 2 - 1 = 1
        BY Fit
      <4>2. Until(s, k, 1)' = Until(short, n, 2) - 1 /\ Until(short, n, 2) \in Nat \ {0}
        BY <1>1, <3>2, <4>1, SampleComes, 1 \in 1..OS_Rate, 1 = 2 - os_pulse
      <4> QED
        BY <1>5, <2>4, <4>2
    <3> QED
      BY <1>5, <3>1, <3>2
  <2>10. StartInv(s, k)'
    BY <1>1, <1>2, <2>4, <2>7, <2>8, <2>9 DEF StartInv, Half
  <2> QED
    BY <1>1, <2>6, <2>10 DEF ReceiverInv, ReceivingInv
<1>7. CASE os_pulse = 1 /\ m = 1
  <2>1. rx_state' = "receive" /\ os_count' = 0 /\ rx_count' = 0
    <3>1. os_count >= Half
      BY <1>4, <1>5, <1>7
    <3> QED
      BY <1>3, <1>7, <3>1, ReceiverDoes
  <2>2. Until(short, n, 1) = 0
    BY <1>1, <1>5, <1>7, UntilBounds DEF TypeOK
  <2>3. Since > 0
    BY <1>1, <1>4, <1>5, <1>7, <2>2 DEF StartInv
  <2>4. InBit(short, n, 1, Since)
    BY <1>4, <1>5, <1>7, <2>2 DEF InBit
  <2>5. /\ Until(s, k, OS_Rate)' \in Int
        /\ Since + 1 + Until(s, k, OS_Rate)' - BitClocks \in 0..BitClocks - 1
        /\ ~Early(s, k, OS_Rate)
    BY <1>1, <1>7, <2>3, <2>4, NextCentre
  <2>6. Since' + Until(s, k, OS_Rate)' - (IF OnLine' = rx_count' + 3 THEN 0 ELSE BitClocks)
          = Since + 1 + Until(s, k, OS_Rate)' - BitClocks
    BY <1>2, <1>5, <2>1, <2>5
  <2>7. ReceivingInv(s, k)'
    <3>1. \A i \in 1..rx_count' : FALSE
      BY <2>1
    <3>2. rx_count' <= Parity + D_Width
      BY <2>1, Numbers
    <3>3. OnLine' \in {rx_count' + 2, rx_count' + 3}
      BY <1>2, <2>1
    <3>4. os_count' + OS_Rate = OS_Rate
      BY <1>5, <2>1
    <3> QED
      BY <1>1, <1>2, <1>5, <2>5, <2>6, <3>1, <3>2, <3>3, <3>4 DEF ReceivingInv, InBit
  <2> QED
    BY <1>1, <2>1, <2>7 DEF ReceiverInv
<1> QED
  BY <1>6, <1>7

\* The bits that are in rx_buffer stay there while no other one comes.
LEMMA BitsStay ==
  ASSUME NEW short, NEW n, ReceivingInv(short, n), rx_state = "receive", line' = line,
         rx_count' = rx_count, rx_buffer' = rx_buffer
  PROVE  /\ rx_count' <= Parity + D_Width
         /\ \A i \in 1..rx_count' :
              rx_buffer'[(Parity + D_Width + 1) - rx_count' + i] = Bit(line'[1], i + 2)
  BY DEF ReceivingInv

\* Towards the centre of the next bit.
LEMMA WaitStep ==
  ASSUME SamplesFit, TypeOK, SenderInv, LineInv, NEW short \in {0, 1}, NEW n \in 0..OS_Rate,
         ReceiverInv(short, n), NEW s \in {0, 1}, NEW k \in 0..OS_Rate,
         GridStep(short, n, s, k), Next, R_Reset = 0, rx_state = "receive",
         ~(os_pulse = 1 /\ os_count = OS_Rate - 1)
  PROVE  ReceiverInv(s, k)'
<1>1. OnGrid(s, k)' /\ OnGrid(short, n) /\ line # <<>> /\ ReceivingInv(short, n)
  BY DEF GridStep, ReceiverInv, ReceivingInv
<1>2. PICK m \in 1..OS_Rate :
        LET o == Since + Until(short, n, m) - IF OnLine = rx_count + 3 THEN 0 ELSE BitClocks
        IN  /\ os_count + m = OS_Rate
            /\ InBit(short, n, m, o) /\ (Early(short, n, m) => o > 0)
  BY <1>1 DEF ReceivingInv
<1>3. /\ os_count \in 0..OS_Rate - 1 /\ OS_Rate \in Nat /\ os_pulse \in {0, 1}
      /\ BitClocks \in Nat /\ Since \in 0..BitClocks - 1 /\ rx_count \in Nat /\ OnLine \in Nat
      /\ OnLine \in {rx_count + 2, rx_count + 3}
  <2>1. OS_Rate \in Nat /\ BitClocks \in Nat /\ Since \in 0..BitClocks - 1 /\ OnLine \in Nat
    BY Ranges, Fit
  <2>2. os_count \in 0..OS_Rate - 1 /\ os_pulse \in {0, 1} /\ rx_count \in Nat
    BY Numbers DEF TypeOK, ReceiverClock!ClockType, ReceiveType
  <2>3. OnLine \in {rx_count + 2, rx_count + 3}
    BY <1>1 DEF ReceivingInv
  <2> QED
    BY <2>1, <2>2, <2>3
<1>4. ~(os_pulse = 1 /\ m = 1) /\ ~Arrives
  <2>1. os_pulse = 1 => os_count < OS_Rate - 1
    BY <1>3
  <2> QED
    BY <1>2, <1>3, <2>1 DEF Arrives, Received, Centre
<1>5. /\ Reset = 0 /\ line' = line
      /\ OnLine' = IF Since = BitClocks - 1 THEN OnLine + 1 ELSE OnLine
  BY <1>1, <1>4, ByteStays
<1>6. Since' = IF Since = BitClocks - 1 THEN 0 ELSE Since + 1
  BY <1>5, BitGoesOn
<1>7. /\ os_count' = os_count + os_pulse /\ rx_state' = rx_state
      /\ rx_count' = rx_count /\ rx_buffer' = rx_buffer
  <2>1. CASE os_pulse = 0
    BY <1>3, <2>1, ReceiverDoes DEF rxVars
  <2>2. CASE os_pulse = 1
    <3>1. os_count < OS_Rate - 1
      BY <1>3, <2>2
    <3> QED
      BY <2>2, <3>1, ReceiverDoes
  <2> QED
    BY <1>3, <2>1, <2>2
<1>8. PICK q \in 1..OS_Rate : q = m - os_pulse
  BY <1>1, <1>4, SampleComes
<1>9. /\ Until(s, k, q)' = Until(short, n, m) - 1 /\ (Early(s, k, q) => Early(short, n, m))
      /\ Until(short, n, m) \in Nat \ {0}
  BY <1>1, <1>4, <1>8, SampleComes
<1>10. Since + Until(short, n, m) - (IF OnLine = rx_count + 3 THEN 0 ELSE BitClocks)
         \in 0..BitClocks - 1
  BY <1>2 DEF InBit
<1>11. OnLine' \in {rx_count + 2, rx_count + 3}
  BY <1>3, <1>5, <1>9, <1>10
<1>12. Since' + Until(s, k, q)' - (IF OnLine' = rx_count' + 3 THEN 0 ELSE BitClocks)
         = Since + Until(short, n, m) - (IF OnLine = rx_count + 3 THEN 0 ELSE BitClocks)
  BY <1>3, <1>5, <1>6, <1>7, <1>9, <1>10
<1>13. os_count' + q = OS_Rate
  BY <1>2, <1>3, <1>7, <1>8
<1>14. \E p \in 1..OS_Rate :
         LET o == Since' + Until(s, k, p)' - IF OnLine' = rx_count' + 3 THEN 0 ELSE BitClocks
         IN  /\ os_count' + p = OS_Rate
             /\ o \in 0..BitClocks - 1 /\ (Early(s, k, p) => o <= BitClocks - Samples)
             /\ Early(s, k, p) => o > 0
  BY <1>2, <1>9, <1>12, <1>13 DEF InBit
<1>15. ReceivingInv(s, k)'
  BY <1>1, <1>5, <1>7, <1>11, <1>14, BitsStay DEF ReceivingInv, InBit
<1> QED
  BY <1>1, <1>7, <1>15 DEF ReceiverInv

\* The centre of a bit.
LEMMA AtCentre ==
  ASSUME SamplesFit, TypeOK, NEW short \in {0, 1}, NEW n \in 0..OS_Rate,
         ReceiverInv(short, n), rx_state = "receive", os_pulse = 1, os_count = OS_Rate - 1
  PROVE  /\ OnLine = rx_count + 3 /\ InBit(short, n, 1, Since)
         /\ Early(short, n, 1) => Since > 0
<1>1. PICK m \in 1..OS_Rate :
        LET o == Since + Until(short, n, m) - IF OnLine = rx_count + 3 THEN 0 ELSE BitClocks
        IN  /\ os_count + m = OS_Rate
            /\ InBit(short, n, m, o) /\ (Early(short, n, m) => o > 0)
  BY DEF ReceiverInv, ReceivingInv
<1>2. m = 1 /\ 1 \in 1..OS_Rate
  BY <1>1, Fit
<1>3. Until(short, n, 1) = 0
  BY <1>2, UntilBounds DEF ReceiverInv, TypeOK
<1>4. BitClocks \in Nat /\ Since \in 0..BitClocks - 1
  BY Ranges
<1>5. OnLine = rx_count + 3
  BY <1>1, <1>2, <1>3, <1>4 DEF InBit
<1>6. Since + Until(short, n, 1) - 0 = Since
  BY <1>3, <1>4
<1> QED
  BY <1>1, <1>2, <1>5, <1>6

\* A bit is sampled.
LEMMA DataStep ==
  ASSUME SamplesFit, TypeOK, SenderInv, LineInv, NEW short \in {0, 1}, NEW n \in 0..OS_Rate,
         ReceiverInv(short, n), NEW s \in {0, 1}, NEW k \in 0..OS_Rate,
         GridStep(short, n, s, k), Next, R_Reset = 0, rx_state = "receive",
         os_pulse = 1, os_count = OS_Rate - 1, rx_count < Parity + D_Width
  PROVE  ReceiverInv(s, k)'
<1> DEFINE len == Parity + D_Width + 1
<1>1. /\ OnGrid(s, k)' /\ OnGrid(short, n) /\ line # <<>>
      /\ \A i \in 1..rx_count : rx_buffer[len - rx_count + i] = Bit(line[1], i + 2)
  <2>1. OnGrid(s, k)' /\ OnGrid(short, n) /\ ReceivingInv(short, n)
    BY DEF GridStep, ReceiverInv
  <2> QED
    BY <2>1 DEF ReceivingInv
<1>2. /\ OnLine = rx_count + 3 /\ InBit(short, n, 1, Since) /\ (Early(short, n, 1) => Since > 0)
  BY AtCentre
<1>3. OS_Rate \in Nat \ {0} /\ OS_Rate \in 1..OS_Rate /\ len \in Nat \ {0} /\ Parity + D_Width = len - 1
  BY Numbers
<1>4. /\ rx_count \in Nat /\ rx_buffer \in [1..len -> {0, 1}] /\ TX \in {0, 1}
  BY Numbers DEF TypeOK, ReceiveType, TransmitType
<1>5. BitClocks \in Nat /\ Since \in 0..BitClocks - 1
  BY Ranges
<1>6. Centre /\ ~Arrives
  BY <1>3, <1>4 DEF Centre, Arrives, Received
<1>7. /\ Reset = 0 /\ line' = line
      /\ OnLine' = IF Since = BitClocks - 1 THEN OnLine + 1 ELSE OnLine
  BY <1>1, <1>6, ByteStays
<1>8. Since' = IF Since = BitClocks - 1 THEN 0 ELSE Since + 1
  BY <1>7, BitGoesOn
<1>9. /\ os_count' = 0 /\ rx_state' = "receive" /\ rx_count' = rx_count + 1
      /\ rx_buffer' = Append(Tail(rx_buffer), TX)
  BY <1>6, ReceiverDoes
<1>10. TX = Bit(line[1], rx_count + 3)
  BY <1>1, <1>2 DEF LineInv
<1>11. ASSUME NEW i \in 1..rx_count' PROVE rx_buffer'[len - rx_count' + i] = Bit(line[1], i + 2)
  <2>1. /\ \A j \in 1..len - 1 : rx_buffer'[j] = rx_buffer[j + 1]
        /\ rx_buffer'[len] = TX
    BY <1>3, <1>4, <1>9, Shifted
  <2>2. CASE i = rx_count + 1
    BY <1>3, <1>4, <1>9, <1>10, <2>1, <2>2
  <2>3. CASE i # rx_count + 1
    <3>1. /\ i \in 1..rx_count /\ len - rx_count' + i \in 1..len - 1
          /\ (len - rx_count' + i) + 1 = len - rx_count + i
      BY <1>3, <1>4, <1>9, <2>3
    <3> QED
      BY <1>1, <2>1, <3>1
  <2> QED
    BY <2>2, <2>3
<1>12. /\ Until(s, k, OS_Rate)' \in Int
       /\ Since + 1 + Until(s, k, OS_Rate)' - BitClocks \in 0..BitClocks - 1
       /\ ~Early(s, k, OS_Rate)
  BY <1>1, <1>2, NextCentre
<1>13. Since' + Until(s, k, OS_Rate)' - (IF OnLine' = rx_count' + 3 THEN 0 ELSE BitClocks)
         = Since + 1 + Until(s, k, OS_Rate)' - BitClocks
  BY <1>2, <1>4, <1>5, <1>7, <1>8, <1>9, <1>12
<1>14. /\ OnLine' \in {rx_count' + 2, rx_count' + 3} /\ rx_count' <= Parity + D_Width
       /\ os_count' + OS_Rate = OS_Rate
  BY <1>2, <1>3, <1>4, <1>7, <1>9
<1>15. \E p \in 1..OS_Rate :
         LET o == Since' + Until(s, k, p)' - IF OnLine' = rx_count' + 3 THEN 0 ELSE BitClocks
         IN  /\ os_count' + p = OS_Rate
             /\ o \in 0..BitClocks - 1 /\ (Early(s, k, p) => o <= BitClocks - Samples)
             /\ Early(s, k, p) => o > 0
  BY <1>3, <1>12, <1>13, <1>14
<1>16. /\ line' # <<>> /\ rx_count' <= Parity + D_Width
       /\ \A i \in 1..rx_count' :
            rx_buffer'[(Parity + D_Width + 1) - rx_count' + i] = Bit(line'[1], i + 2)
  BY <1>1, <1>7, <1>11, <1>14
<1>17. ReceivingInv(s, k)'
  BY <1>14, <1>15, <1>16 DEF ReceivingInv, InBit
<1> QED
  BY <1>1, <1>9, <1>17 DEF ReceiverInv

\* The stop bit is sampled, and the line is quiet again.
LEMMA StopStep ==
  ASSUME SamplesFit, TypeOK, SenderInv, LineInv, NEW short \in {0, 1}, NEW n \in 0..OS_Rate,
         ReceiverInv(short, n), NEW s \in {0, 1}, NEW k \in 0..OS_Rate,
         GridStep(short, n, s, k), Next, R_Reset = 0, rx_state = "receive",
         os_pulse = 1, os_count = OS_Rate - 1, ~(rx_count < Parity + D_Width)
  PROVE  ReceiverInv(s, k)'
<1>1. OnGrid(s, k)' /\ OnGrid(short, n)
  BY DEF GridStep, ReceiverInv
<1>2. Centre /\ Arrives
  <2>1. /\ OS_Rate \in Nat /\ rx_count \in Nat /\ Parity + D_Width \in Nat
    BY Numbers DEF TypeOK, ReceiveType
  <2> QED
    BY <2>1 DEF Centre, Arrives, Received
<1>3. line # <<>> /\ OnLine = FrameShifts
  BY <1>2, ArrivesAtStopBit
<1>4. rx_state' = "idle"
  BY <1>2, ReceiverDoes
<1>5. Reset = 0
  BY <1>3 DEF SenderInv, TypeOK
<1>6. Since = BitClocks - 1 => Since' + Until(s, k, 1)' < BitClocks
  <2>1. 2 \in 2..OS_Rate /\ 2 \in 1..OS_Rate /\ 2 - 1 = 1 /\ BitClocks \in Nat
    BY Fit
  <2>2. Until(s, k, 1)' = Until(short, n, 2) - 1
    BY <2>1 DEF GridStep
  <2>3. Until(short, n, 2) \in Nat /\ Until(short, n, 2) <= BitClocks - 1
    BY <1>1, <2>1, UntilBounds DEF InBit, TypeOK
  <2>4. Since = BitClocks - 1 => Since' = 0
    BY <1>5, BitGoesOn
  <2> QED
    BY <2>1, <2>2, <2>3, <2>4
<1>7. CASE Accepts(Reset, TX_Enable)
  <2>1. OnLine' = 1 /\ Since = BitClocks - 1
    BY <1>3, <1>7, ByteStarts
  <2> QED
    BY <1>1, <1>4, <1>6, <2>1 DEF ReceiverInv, ReceivingInv, QuietInv
<1>8. CASE ~Accepts(Reset, TX_Enable)
  <2>1. line' = <<>> /\ (Since = BitClocks - 1 \/ OnLine' = FrameShifts)
    BY <1>2, <1>3, <1>8, LineIdles
  <2>2. FrameShifts' = FrameShifts
    BY DEF FrameShifts
  <2> QED
    BY <1>1, <1>4, <1>6, <2>1, <2>2 DEF ReceiverInv, ReceivingInv, QuietInv
<1> QED
  BY <1>7, <1>8

LEMMA LinkStep ==
  ASSUME SamplesFit, LinkInv, Next
  PROVE  LinkInv'
<1>1. PICK short \in {0, 1}, n \in 0..OS_Rate : ReceiverInv(short, n)
  BY DEF LinkInv
<1>2. TypeOK /\ SenderInv /\ LineInv /\ Counting
  BY DEF LinkInv, SenderInv, Counting
<1>3. TypeOK'
  BY <1>2, NextTypes
<1>4. SenderInv'
  BY <1>1, <1>2, SenderStep
<1>5. LineInv'
  <2>1. CASE Accepts(Reset, TX_Enable)
    BY <1>1, <1>2, <2>1, ByteStarts
  <2>2. CASE ~Accepts(Reset, TX_Enable) /\ (line = <<>> \/ Arrives)
    BY <1>1, <1>2, <2>2, LineIdles
  <2>3. CASE ~Accepts(Reset, TX_Enable) /\ ~(line = <<>> \/ Arrives)
    BY <1>1, <1>2, <2>3, ByteStays
  <2> QED
    BY <2>1, <2>2, <2>3
<1>6. \E s \in {0, 1}, k \in 0..OS_Rate : ReceiverInv(s, k)'
  <2>1. CASE R_Reset = 1
    <3>1. 1 \in {0, 1} /\ 0 \in 0..OS_Rate
      BY Fit
    <3> QED
      BY <1>1, <1>2, <2>1, <3>1, ReceiverResets
  <2>2. CASE R_Reset = 0
    <3>1. PICK s \in {0, 1}, k \in 0..OS_Rate : GridStep(short, n, s, k)
      BY <1>1, <1>2, <2>2, GridSteps
         DEF TypeOK, ReceiverInv, Next, ReceiverClock!ClockGenerator
    <3>2. CASE rx_state = "idle"
      BY <1>1, <1>2, <2>2, <3>1, <3>2, QuietStep, StartStep DEF ReceiverInv
    <3>3. CASE rx_state = "receive" /\ ~(os_pulse = 1 /\ os_count = OS_Rate - 1)
      BY <1>1, <1>2, <2>2, <3>1, <3>3, WaitStep
    <3>4. CASE rx_state = "receive" /\ os_pulse = 1 /\ os_count = OS_Rate - 1
      BY <1>1, <1>2, <2>2, <3>1, <3>4, DataStep, StopStep
    <3> QED
      BY <1>2, <3>2, <3>3, <3>4 DEF TypeOK, ReceiveType
  <2> QED
    BY <1>2, <2>1, <2>2 DEF TypeOK
<1> QED
  BY <1>3, <1>4, <1>5, <1>6 DEF LinkInv

LEMMA LinkStutters ==
  ASSUME LinkInv, UNCHANGED vars
  PROVE  LinkInv'
<1>1. PICK short \in {0, 1}, n \in 0..OS_Rate : ReceiverInv(short, n)
  BY DEF LinkInv
<1>2. TypeOK'
  BY NextTypes DEF LinkInv, SenderInv, Counting
<1>3. SenderInv'
  BY DEF LinkInv, SenderInv, vars, userVars, SenderClock!clockVars, txVars
<1>4. LineInv'
  BY DEF LinkInv, LineInv, OnLine, vars, SenderClock!clockVars, txVars, Bit, ParityOf, FrameShifts
<1>5. UNCHANGED <<count_baud, count_os, os_pulse, rx_state, rx_count, os_count, rx_buffer, line,
                  s_count_baud, tx_count>>
  BY DEF vars, SenderClock!clockVars, txVars, ReceiverClock!clockVars, rxVars
<1>6. ReceiverInv(short, n)'
  <2>1. OnGrid(short, n)'
    BY <1>1, <1>5 DEF ReceiverInv, OnGrid, Position
  <2>2. \A m : Until(short, n, m)' = Until(short, n, m)
    BY <1>5 DEF Until, Position
  <2>3. OnLine' = OnLine /\ Since' = Since
    BY <1>5 DEF OnLine, Since
  <2>4. ReceivingInv(short, n)'
    BY <1>1, <1>5, <2>2, <2>3 DEF ReceiverInv, ReceivingInv, InBit
  <2>5. rx_state' = "idle" => QuietInv(short, n)' \/ StartInv(short, n)'
    BY <1>1, <1>5, <2>2, <2>3 DEF ReceiverInv, QuietInv, StartInv, InBit, FrameShifts
  <2> QED
    BY <2>1, <2>4, <2>5 DEF ReceiverInv
<1> QED
  BY <1>2, <1>3, <1>4, <1>6 DEF LinkInv

LEMMA LinkInvariant == ASSUME SamplesFit PROVE Spec => []LinkInv
<1>1. Init => LinkInv
  BY InitLink
<1>2. LinkInv /\ [Next]_vars => LinkInv'
  BY LinkStep, LinkStutters
<1> QED
  BY <1>1, <1>2, PTL DEF Spec

-----------------------------------------------------------------------------
(* What arrives                                                            *)

\* At the stop bit the byte is behind the start bit in rx_buffer, and the parity
\* behind the byte.
LEMMA ReceivedBits ==
  ASSUME SamplesFit, LinkInv, Arrives
  PROVE  /\ line # <<>> /\ TX = 1
         /\ line[1] \in [1..D_Width -> {0, 1}]
         /\ \A i \in 1..D_Width : rx_buffer[i + 1] = line[1][i]
         /\ Parity = 1 => rx_buffer[Parity + D_Width + 1] = ParityOf(line[1])
<1>1. PICK short \in {0, 1}, n \in 0..OS_Rate : ReceiverInv(short, n)
  BY DEF LinkInv
<1>2. line # <<>> /\ OnLine = FrameShifts /\ rx_count = Parity + D_Width
  BY <1>1, ArrivesAtStopBit DEF LinkInv
<1>3. /\ D_Width \in Nat \ {0} /\ Parity \in {0, 1}
      /\ FrameShifts \in Int /\ FrameShifts = Parity + D_Width + 3
  BY Numbers DEF FrameShifts
<1>4. TX = 1
  <2>1. TX = Bit(line[1], FrameShifts)
    BY <1>2 DEF LinkInv, LineInv
  <2> QED
    BY <1>3, <2>1, BitsOfFrame
<1>5. line[1] \in [1..D_Width -> {0, 1}]
  <2>1. line \in Seq(Bytes) /\ Len(line) = 1
    BY <1>2 DEF LinkInv, TypeOK, LineInv
  <2>2. line[1] \in Bytes
    BY <2>1
  <2> QED
    BY <2>2, LinkAssumption
<1>6. \A i \in 1..Parity + D_Width :
        rx_buffer[(Parity + D_Width + 1) - (Parity + D_Width) + i] = Bit(line[1], i + 2)
  BY <1>1, <1>2 DEF ReceiverInv, ReceivingInv, Arrives, Received, Centre
<1>7. ASSUME NEW i \in 1..Parity + D_Width PROVE rx_buffer[i + 1] = Bit(line[1], i + 2)
  <2>1. (Parity + D_Width + 1) - (Parity + D_Width) + i = i + 1
    BY <1>3
  <2> QED
    BY <1>6, <2>1
<1>8. ASSUME NEW i \in 1..D_Width PROVE rx_buffer[i + 1] = line[1][i]
  <2>1. i \in 1..Parity + D_Width
    BY <1>3
  <2> QED
    BY <1>7, <2>1, BitsOfFrame
<1>9. ASSUME Parity = 1 PROVE rx_buffer[Parity + D_Width + 1] = ParityOf(line[1])
  <2>1. /\ Parity + D_Width \in 1..Parity + D_Width
        /\ (Parity + D_Width) + 1 = Parity + D_Width + 1
        /\ (Parity + D_Width) + 2 = Parity + D_Width + 2
    BY <1>3
  <2> QED
    BY <1>7, <1>9, <2>1, BitsOfFrame
<1> QED
  BY <1>2, <1>4, <1>5, <1>8, <1>9

\* The parity over the bits received is that of the byte.
LEMMA SameParity ==
  ASSUME NEW d, \A i \in 1..D_Width : rx_buffer[i + 1] = d[i]
  PROVE  ReceivedParity = ParityOf(d)
<1> DEFINE sent == {i \in 1..D_Width : d[i] = 1}
           received == {i \in 2..D_Width + 1 : rx_buffer[i] = 1}
           f == [i \in sent |-> i + 1]
<1>1. D_Width \in Nat
  BY Numbers
<1>2. IsFiniteSet(sent)
  <2>1. IsFiniteSet(1..D_Width) /\ sent \subseteq 1..D_Width
    BY <1>1, FS_Interval
  <2> QED
    BY <2>1, FS_Subset
<1>3. f \in Bijection(sent, received)
  <2>1. \A i \in sent : f[i] = i + 1 /\ i + 1 \in received
    BY <1>1
  <2>2. \A j \in received : j - 1 \in sent /\ f[j - 1] = j
    <3>1. ASSUME NEW j \in received PROVE j - 1 \in sent /\ f[j - 1] = j
      <4>1. j - 1 \in 1..D_Width /\ (j - 1) + 1 = j
        BY <1>1
      <4>2. rx_buffer[j] = d[j - 1]
        BY <4>1
      <4> QED
        BY <4>1, <4>2
    <3> QED
      BY <3>1
  <2>3. f \in [sent -> received]
    BY <2>1
  <2>4. \A a, b \in sent : f[a] = f[b] => a = b
    BY <1>1, <2>1
  <2> HIDE DEF f, sent, received
  <2>5. \A j \in received : \E i \in sent : f[i] = j
    BY <2>2
  <2> QED
    BY <2>3, <2>4, <2>5 DEF Bijection, Injection, Surjection, IsInjective
<1>4. Cardinality(received) = Cardinality(sent)
  <2> HIDE DEF f, sent, received
  <2> QED
    BY <1>2, <1>3, FS_Bijection DEF ExistsBijection
<1> QED
  BY <1>4 DEF ReceivedParity, ParityOf

\* What the receiver hands over is the byte that is on its way.
LEMMA ByteReceived ==
  ASSUME SamplesFit, LinkInv, Next, Arrives
  PROVE  line # <<>> /\ RX_Data' = Head(line)
<1>1. /\ line # <<>> /\ line[1] \in [1..D_Width -> {0, 1}]
      /\ \A i \in 1..D_Width : rx_buffer[i + 1] = line[1][i]
  BY ReceivedBits
<1>2. RX_Data' = SubSeq(rx_buffer, 2, D_Width + 1)
  <2>1. R_Reset = 0 /\ os_pulse = 1 /\ Centre /\ rx_count >= Parity + D_Width
    BY DEF Arrives, Received
  <2>2. ~(rx_count < Parity + D_Width)
    <3>1. rx_count \in Int /\ Parity + D_Width \in Int
      BY Numbers DEF LinkInv, TypeOK, ReceiveType
    <3> QED
      BY <2>1, <3>1
  <2> QED
    BY <2>1, <2>2, ReceiverDoes DEF LinkInv
<1>3. /\ D_Width \in Nat \ {0} /\ Parity \in {0, 1}
      /\ rx_buffer \in Seq({0, 1}) /\ Len(rx_buffer) = Parity + D_Width + 1
  BY Numbers DEF LinkInv, TypeOK, ReceiveType
<1>4. /\ SubSeq(rx_buffer, 2, D_Width + 1) \in Seq({0, 1})
      /\ Len(SubSeq(rx_buffer, 2, D_Width + 1)) = D_Width
      /\ \A i \in 1..D_Width : SubSeq(rx_buffer, 2, D_Width + 1)[i] = rx_buffer[i + 1]
  BY <1>3, SubSeqProperties
<1>5. RX_Data' = line[1]
  BY <1>1, <1>2, <1>3, <1>4
<1>6. Head(line) = line[1]
  BY <1>1, HeadTailProperties DEF LinkInv, TypeOK
<1> QED
  BY <1>1, <1>5, <1>6

\* UART.vhdp: with OS_Rate samples in a bit, what the receiver hands over is what
\* the sender was given, byte for byte, in whatever phase the two clocks run and
\* whenever either of them comes out of reset.
THEOREM BytesArriveInOrder == ASSUME SamplesFit PROVE Spec => InOrder
<1>1. LinkInv /\ [Next]_vars => [Arrives => line # <<>> /\ RX_Data' = Head(line)]_vars
  BY ByteReceived
<1> QED
  BY <1>1, LinkInvariant, PTL DEF Spec, InOrder

\* UART.vhdp:40, 55: where the receiver looks for the stop bit there is one, and
\* the parity it has taken is that of the data: no frame is in error.
THEOREM FramesAreGood == ASSUME SamplesFit PROVE Spec => GoodFrame
<1>1. ASSUME LinkInv, Arrives PROVE TX = 1 /\ ~ParityError
  <2>1. /\ TX = 1 /\ \A i \in 1..D_Width : rx_buffer[i + 1] = line[1][i]
        /\ Parity = 1 => rx_buffer[Parity + D_Width + 1] = ParityOf(line[1])
    BY <1>1, ReceivedBits
  <2>2. ReceivedParity = ParityOf(line[1])
    BY <2>1, SameParity
  <2> QED
    BY <2>1, <2>2 DEF ParityError
<1>2. LinkInv /\ [Next]_vars => [Arrives => TX = 1 /\ ~ParityError]_vars
  BY <1>1
<1> QED
  BY <1>2, LinkInvariant, PTL DEF Spec, GoodFrame
=============================================================================
