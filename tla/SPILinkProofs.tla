--------------------------- MODULE SPILinkProofs ---------------------------
(***************************************************************************)
(* Proofs about the SPI master with a user and a slave (SPILink), for      *)
(* every width of at least two bits, every ratio and every mode.           *)
(***************************************************************************)
EXTENDS SPILink, SequenceTheorems, TLAPS

n    == Len(pairs)                       \* bits the slave has of this word
Pair == [mosi : {0, 1, Z}, miso : {0, 1}]

(* Between the bits of a word; between the last bit and the end.           *)
InWord  == n < Bits /\ clk_toggles = 2 * n + CPha + 1 - assert_data
Closing ==
  /\ pairs = <<>> /\ clk_toggles = 2 * Bits + CPha + 1 - assert_data
  /\ clk_toggles <= 2 * Bits + 1

----------------------------------------------------------------------------
(* The parts of the inductive invariant.                                   *)
Deselected ==
  /\ state = "ready" => SS = 1
  /\ SS = 1 => pairs = <<>>

(* The one clock between the user's request and the select.                *)
Starting ==
  state = "execute" /\ SS = 1 =>
    /\ clk_toggles = 0 /\ count = Ratio /\ SCLK = CPol /\ assert_data = 1 - CPha
    /\ continue = 0 /\ tx_buffer = word /\ Busy = 1

(* clk_toggles, assert_data and SCLK all tell how far the word has come.   *)
InStep ==
  state = "execute" /\ SS = 0 =>
    /\ SCLK = CPol <=> assert_data = CPha
    /\ InWord \/ Closing
    /\ Closing => Cont = 0 /\ continue = 0 /\ Busy = 1
    /\ continue = 1 => InWord /\ n = 0 /\ assert_data = 1
    /\ Busy = 0 => InWord /\ n = 0 /\ assert_data = 0

(* rx_buffer ends with the bits of this word, or is the word before whole. *)
Received ==
  state = "execute" /\ SS = 0 =>
    /\ InWord => \A i \in 1 .. n : rx_buffer[Bits - n + i] = pairs[i].miso
    /\ Closing \/ continue = 1 => fresh /\ rx_buffer = last

(* What is left of the word is in tx_buffer; the slave has the rest.       *)
Sent ==
  state = "execute" /\ SS = 0 /\ InWord =>
    /\ \A i \in 1 .. Bits : i + n + 1 - assert_data <= Bits
                              => tx_buffer[i] = word[i + n + 1 - assert_data]
    /\ assert_data = 0 => MOSI = word[n + 1]
    /\ \A i \in 1 .. n : pairs[i].mosi = word[i]

Parts == Deselected /\ Starting /\ InStep /\ Received /\ Sent

LinkInv == TypeOK /\ pairs \in Seq(Pair) /\ Parts

----------------------------------------------------------------------------
LEMMA ShiftWord ==
  ASSUME Bits \in Nat \ {0, 1}, NEW w \in Words, NEW b \in {0, 1}
  PROVE  /\ Shift(w, b) \in Words
         /\ \A i \in 1 .. Bits - 1 : Shift(w, b)[i] = w[i + 1]
         /\ Shift(w, b)[Bits] = b
<1>1. w \in Seq({0, 1}) /\ Len(w) = Bits /\ w # <<>>
  BY DEF Words
<1>2. /\ Tail(w) \in Seq({0, 1}) /\ Len(Tail(w)) = Bits - 1
      /\ \A i \in 1 .. Bits - 1 : Tail(w)[i] = w[i + 1]
  BY <1>1, HeadTailProperties
<1>3. /\ Append(Tail(w), b) \in Seq({0, 1}) /\ Len(Append(Tail(w), b)) = Bits
      /\ \A i \in 1 .. Bits - 1 : Append(Tail(w), b)[i] = Tail(w)[i]
      /\ Append(Tail(w), b)[Bits] = b
  BY <1>2, AppendProperties
<1> QED BY <1>2, <1>3, LenProperties DEF Shift, Words

(* What the slave has after it samples a bit.                              *)
LEMMA TakenBit ==
  ASSUME TypeOK, pairs \in Seq(Pair)
  PROVE  /\ Taken \in Seq(Pair) /\ Len(Taken) = n + 1
         /\ \A i \in 1 .. n : Taken[i] = pairs[i]
         /\ Taken[n + 1] = [mosi |-> MOSI, miso |-> MISO]
<1>1. [mosi |-> MOSI, miso |-> MISO] \in Pair
  BY DEF TypeOK, SPIType, Pair
<1> QED BY <1>1, AppendProperties DEF Taken, n

LEMMA InitInv == Init => LinkInv
<1> SUFFICES ASSUME Init PROVE LinkInv
  OBVIOUS
<1>1. ZeroWord \in Words /\ n = 0 /\ pairs \in Seq(Pair)
  BY EmptySeq DEF ZeroWord, Words, Init, n
<1>2. SPIType
  BY <1>1, LinkAssumption DEF Init, SPIInit, SPIType
<1>3. Len(pairs) \in 0 .. Bits - 1
  BY <1>1, LinkAssumption DEF n
<1>4. TypeOK
  BY <1>1, <1>2, <1>3 DEF Init, TypeOK
<1> QED BY <1>1, <1>4
       DEF Init, SPIInit, LinkInv, Parts, Deselected, Starting, InStep, Received, Sent

----------------------------------------------------------------------------
(* One clock of all.                                                       *)
LEMMA TypeMaster ==
  ASSUME TypeOK, SPIClock(Reset, Enable, Cont, TX_Data, MISO)
  PROVE  SPIType'
<1> USE LinkAssumption DEF TypeOK, SPIType
<1>1. ZeroWord \in Words /\ TX_Data \in Words
  BY DEF ZeroWord, Words
<1>2. CASE Reset = 1 /\ SPIReset
  BY <1>1, <1>2 DEF SPIClock, SPIReset, generics, Words
<1>3. CASE Ready(Enable, TX_Data)
  BY <1>1, <1>3 DEF SPIClock, Ready, generics, Words
<1>4. CASE Between
  BY <1>4 DEF SPIClock, Between, generics, Words
<1>5. CASE HandleEvent(Cont, TX_Data, MISO)
  <2>1. UNCHANGED <<CPol, CPha, Ratio, Bits>> /\ Words' = Words
    BY DEF SPIClock, generics, Words
  <2>2. clk_toggles' \in 0 .. 2 * Bits + 1
    BY <1>5 DEF HandleEvent, NextToggles, LastBitRx
  <2>3. /\ rx_buffer' \in Words /\ tx_buffer' \in Words
        /\ tx_buffer[1] \in {0, 1}
    BY <1>1, <1>5, ShiftWord DEF HandleEvent, Words
  <2>4. /\ count' \in 1 .. Ratio /\ assert_data' \in {0, 1} /\ continue' \in {0, 1}
        /\ SCLK' \in {0, 1} /\ SS' \in {0, 1} /\ MOSI' \in {0, 1, Z} /\ Busy' \in {0, 1}
        /\ state' \in {"ready", "execute"} /\ RX_Data' \in Words
    BY <1>5, <2>3 DEF HandleEvent
  <2> QED BY <2>1, <2>2, <2>3, <2>4
<1> QED BY <1>2, <1>3, <1>4, <1>5 DEF SPIClock

LEMMA TypeStep ==
  ASSUME TypeOK, pairs \in Seq(Pair), Next
  PROVE  TypeOK' /\ (pairs \in Seq(Pair))'
<1> USE LinkAssumption
<1>1. SPIType'
  BY TypeMaster DEF Next
<1>2. /\ Reset' \in {0, 1} /\ Enable' \in {0, 1} /\ Cont' \in {0, 1}
      /\ TX_Data' \in TxWords /\ MISO' \in {0, 1}
  BY DEF Next, User, Slave, TypeOK
<1>3. pairs' \in Seq(Pair) /\ Len(pairs') \in 0 .. Bits - 1
  <2>1. pairs' \in {<<>>, pairs} \/ (pairs' = Taken /\ Len(pairs) # Bits - 1)
    BY DEF Next, Slave, LastBit
  <2>2. n \in 0 .. Bits - 1 /\ <<>> \in Seq(Pair) /\ Len(<<>>) = 0
    BY EmptySeq DEF TypeOK, n
  <2>3. CASE pairs' = <<>>
    BY <2>2, <2>3
  <2>4. CASE pairs' = pairs
    BY <2>2, <2>4 DEF n
  <2>5. CASE pairs' = Taken /\ Len(pairs) # Bits - 1
    BY <2>2, <2>5, TakenBit DEF n
  <2> QED BY <2>1, <2>3, <2>4, <2>5
<1>4. last' \in Words
  <2>1. CASE LastBit
    <3>1. /\ Taken \in Seq(Pair) /\ Len(Taken) = Bits
          /\ last' = [i \in 1 .. Bits |-> Taken[i].miso]
      BY <2>1, TakenBit DEF Next, Slave, LastBit, n
    <3>2. \A i \in 1 .. Bits : Taken[i] \in Pair
      BY <3>1, ElementOfSeq
    <3>3. \A i \in 1 .. Bits : Taken[i].miso \in {0, 1}
      BY <3>2 DEF Pair
    <3> QED BY <3>1, <3>3 DEF Words
  <2>2. CASE ~LastBit
    BY <2>2 DEF Next, Slave, TypeOK
  <2> QED BY <2>1, <2>2
<1>5. word' \in Words
  BY DEF Next, TypeOK
<1>6. fresh' \in BOOLEAN
  BY DEF Next, Slave
<1> QED BY <1>1, <1>2, <1>3, <1>4, <1>5, <1>6 DEF TypeOK, Words, Pair

----------------------------------------------------------------------------
(* The steps, one by one.  With SS = 1 nothing of a word is under way.     *)
LEMMA ResetStep ==
  ASSUME LinkInv, Next, Reset = 1, SPIReset
  PROVE  Parts'
<1>1. SS' = 1 /\ state' = "ready" /\ pairs' = <<>>
  BY DEF Next, SPIReset, Slave
<1> QED BY <1>1 DEF Parts, Deselected, Starting, InStep, Received, Sent

LEMMA ReadyStep ==
  ASSUME LinkInv, Next, Reset = 0, Ready(Enable, TX_Data)
  PROVE  Parts'
<1>1. SS' = 1 /\ pairs' = <<>> /\ UNCHANGED CPol /\ UNCHANGED CPha /\ UNCHANGED Ratio
  BY DEF Next, Ready, Slave, SPIClock, generics
<1>2. state' = "execute" =>
        /\ clk_toggles' = 0 /\ count' = Ratio /\ SCLK' = CPol /\ assert_data' = 1 - CPha
        /\ continue' = 0 /\ tx_buffer' = TX_Data /\ Busy' = 1 /\ word' = TX_Data
  BY DEF Next, Ready, Accepts, LinkInv, TypeOK
<1> QED BY <1>1, <1>2 DEF Parts, Deselected, Starting, InStep, Received, Sent

LEMMA OneOfBoth == TypeOK => ~(InWord /\ Closing)
<1> SUFFICES ASSUME TypeOK, InWord, Closing PROVE FALSE
  OBVIOUS
<1>1. n = 0
  BY EmptySeq DEF Closing, n
<1>2. 2 * n + CPha + 1 - assert_data = 2 * Bits + CPha + 1 - assert_data
  BY DEF InWord, Closing
<1> QED BY <1>1, <1>2, LinkAssumption DEF TypeOK, SPIType

(* The slave between events.                                               *)
LEMMA Quiet ==
  ASSUME LinkInv, Next, SS = 0, SS' = 0, ~Samples
  PROVE  /\ pairs' = pairs /\ last' = last
         /\ fresh' = (fresh /\ Reset = 0 /\ ~HandsOver(Cont))
  BY DEF Next, Slave, LastBit

LEMMA BetweenStep ==
  ASSUME LinkInv, Next, Reset = 0, Between
  PROVE  Parts'
<1>1. /\ UNCHANGED <<CPol, CPha, Ratio, state, clk_toggles, assert_data, continue,
                     rx_buffer, tx_buffer, SCLK, MOSI>>
      /\ Busy' = 1 /\ SS' = 0 /\ state = "execute" /\ count # Ratio
  BY DEF Next, Between, SPIClock, generics
<1>2. SS = 0
  BY <1>1 DEF LinkInv, Parts, Starting, TypeOK, SPIType
<1>3. ~Samples /\ ~Event
  BY <1>1 DEF Samples, Leading, Trailing, Event
<1>4. pairs' = pairs /\ last' = last /\ (fresh => fresh') /\ word' = word
  BY <1>1, <1>2, <1>3, Quiet DEF Next, HandsOver, Accepts, Reloads
<1>5. (InWord <=> InWord') /\ (Closing <=> Closing') /\ n' = n
  BY <1>1, <1>4 DEF Closing, InWord, n
<1>6. state' = "execute" /\ SS' = 0 /\ InStep /\ Received /\ Sent
  BY <1>1 DEF LinkInv, Parts
<1>7. Deselected' /\ Starting'
  BY <1>6 DEF Deselected, Starting
<1>8. InStep'
  <2>1. Closing => Cont' = 0
    BY <1>1, <1>2, <1>6 DEF InStep, Next, User
  <2> QED BY <1>1, <1>2, <1>5, <1>6, <2>1 DEF InStep
<1>9. Received'
  <2>1. InWord' => \A i \in 1 .. n' : rx_buffer'[Bits - n' + i] = pairs'[i].miso
    BY <1>1, <1>2, <1>4, <1>5, <1>6 DEF Received
  <2>2. Closing' \/ continue' = 1 => fresh' /\ rx_buffer' = last'
    BY <1>1, <1>2, <1>4, <1>5, <1>6 DEF Received
  <2> QED BY <2>1, <2>2 DEF Received
<1>10. Sent'
  BY <1>1, <1>2, <1>4, <1>5, <1>6 DEF Sent
<1> QED BY <1>7, <1>8, <1>9, <1>10 DEF Parts

----------------------------------------------------------------------------
(* The first event selects the slave.  With CPha = 0 it also presents the  *)
(* first bit.                                                              *)
LEMMA SelectStep ==
  ASSUME LinkInv, Next, Reset = 0, HandleEvent(Cont, TX_Data, MISO), SS = 1
  PROVE  Parts' /\ SCLK = CPol /\ SCLK' = CPol /\ pairs = <<>> /\ ~HandsOver(Cont)
<1> USE LinkAssumption DEF LastBitRx
<1>1. /\ CPha \in {0, 1} /\ tx_buffer \in Words /\ word \in Words
      /\ state = "execute" /\ pairs = <<>> /\ clk_toggles = 0 /\ SCLK = CPol
      /\ assert_data = 1 - CPha /\ continue = 0 /\ tx_buffer = word
  BY DEF LinkInv, TypeOK, SPIType, Parts, Deselected, Starting, HandleEvent, Event
<1>2. ~Reloads(Cont) /\ ~Ends(Cont) /\ ~HandsOver(Cont)
  BY <1>1 DEF Reloads, Ends, HandsOver
<1>3. /\ UNCHANGED <<CPol, CPha, Ratio, state, rx_buffer, SCLK, pairs, word>>
      /\ SS' = 0 /\ assert_data' = CPha /\ clk_toggles' = 1 /\ continue' = 0 /\ Busy' = 1
  <2>1. ~LastBit /\ ~Samples
    BY DEF LastBit, Samples, Leading, Trailing
  <2>2. UNCHANGED <<CPol, CPha, Ratio>> /\ pairs' = pairs
    BY <1>1, <2>1 DEF Next, SPIClock, generics, Slave
  <2>3. word' = word
    BY <1>1, <1>2 DEF Next, Accepts
  <2> QED BY <1>1, <1>2, <2>2, <2>3
           DEF HandleEvent, NextToggles, Toggles, Receives
<1>4. CPha = 0 => MOSI' = tx_buffer[1] /\ tx_buffer' = Shift(tx_buffer, 0)
  BY <1>1, <1>2 DEF HandleEvent, Transmits
<1>5. CPha = 1 => tx_buffer' = tx_buffer
  BY <1>1, <1>2 DEF HandleEvent, Transmits
<1>6. n' = 0 /\ InWord' /\ ~Closing'
  BY <1>1, <1>3, EmptySeq DEF InWord, Closing, n
<1>7. Deselected' /\ Starting' /\ InStep'
  BY <1>1, <1>3, <1>6 DEF Deselected, Starting, InStep
<1>8. Received'
  BY <1>3, <1>6 DEF Received
<1>9. Sent'
  <2>1. CASE CPha = 0
    BY <1>1, <1>3, <1>4, <1>6, <2>1, ShiftWord DEF Sent, Words
  <2>2. CASE CPha = 1
    BY <1>1, <1>3, <1>5, <1>6, <2>2 DEF Sent
  <2> QED BY <1>1, <2>1, <2>2
<1> QED BY <1>1, <1>2, <1>3, <1>7, <1>8, <1>9 DEF Parts

(* The master presents a bit: the slave samples none.                      *)
LEMMA PresentStep ==
  ASSUME LinkInv, Next, Reset = 0, HandleEvent(Cont, TX_Data, MISO), SS = 0,
         InWord, assert_data = 1
  PROVE  Parts' /\ SS' = 0 /\ ~Samples /\ ~Ends(Cont)
<1> USE LinkAssumption DEF LastBitRx
<1>1. /\ CPha \in {0, 1} /\ SCLK \in {0, 1} /\ CPol \in {0, 1} /\ tx_buffer \in Words
      /\ word \in Words /\ n \in 0 .. Bits - 1 /\ state = "execute"
      /\ clk_toggles = 2 * n + CPha /\ (SCLK = CPol <=> CPha = 1)
  BY DEF LinkInv, TypeOK, SPIType, Parts, InStep, InWord, HandleEvent, Event, n
<1>2. /\ ~Reloads(Cont) /\ ~Ends(Cont) /\ Transmits /\ ~Receives /\ Toggles
      /\ clk_toggles # 2 * Bits + 1
  BY <1>1 DEF Reloads, Ends, Transmits, Receives, Toggles
<1>3. /\ UNCHANGED <<CPol, CPha, Ratio, state, rx_buffer, pairs, last, word>>
      /\ SS' = 0 /\ SCLK' = 1 - SCLK /\ assert_data' = 0 /\ clk_toggles' = clk_toggles + 1
      /\ continue' = 0 /\ MOSI' = tx_buffer[1] /\ tx_buffer' = Shift(tx_buffer, 0)
      /\ ~Samples
  <2>1. /\ UNCHANGED <<CPol, CPha, Ratio, state, rx_buffer>>
        /\ SS' = 0 /\ SCLK' = 1 - SCLK /\ assert_data' = 0 /\ clk_toggles' = clk_toggles + 1
        /\ continue' = 0 /\ MOSI' = tx_buffer[1] /\ tx_buffer' = Shift(tx_buffer, 0)
    BY <1>1, <1>2 DEF HandleEvent, NextToggles, Next, SPIClock, generics
  <2>2. ~Samples
    BY <1>1, <2>1 DEF Samples, Leading, Trailing
  <2>3. pairs' = pairs /\ last' = last
    BY <2>1, <2>2, Quiet
  <2>4. word' = word
    BY <1>1, <1>2 DEF Next, Accepts
  <2> QED BY <2>1, <2>2, <2>3, <2>4
<1>4. n' = n /\ InWord' /\ ~Closing'
  BY <1>1, <1>3 DEF InWord, Closing, n
<1>5. continue = 1 => n = 0
  BY <1>1 DEF LinkInv, Parts, InStep
<1>6. Busy' = 0 => n = 0
  BY <1>2, <1>5 DEF HandleEvent, HandsOver
<1>7. Deselected' /\ Starting' /\ InStep'
  BY <1>1, <1>3, <1>4, <1>6 DEF Deselected, Starting, InStep
<1>8. Received'
  BY <1>1, <1>3, <1>4 DEF Received, LinkInv, Parts
<1>9. Sent'
  <2>1. \A i \in 1 .. Bits : i + n <= Bits => tx_buffer[i] = word[i + n]
    <3>1. \A i \in 1 .. Bits : i + n + 1 - assert_data = i + n
      BY <1>1
    <3> QED BY <1>1, <3>1 DEF LinkInv, Parts, Sent
  <2>2. \A i \in 1 .. Bits : i + n + 1 <= Bits => tx_buffer'[i] = word[i + n + 1]
    BY <1>1, <1>3, <2>1, ShiftWord
  <2>3. MOSI' = word[n + 1]
    BY <1>1, <1>3, <2>1
  <2>4. \A i \in 1 .. n : pairs[i].mosi = word[i]
    BY <1>1 DEF LinkInv, Parts, Sent
  <2> QED BY <1>3, <1>4, <2>2, <2>3, <2>4 DEF Sent
<1> QED BY <1>2, <1>3, <1>7, <1>8, <1>9 DEF Parts

(* The slave samples a bit that is not the last.                           *)
LEMMA SampleStep ==
  ASSUME LinkInv, Next, Reset = 0, HandleEvent(Cont, TX_Data, MISO), SS = 0,
         InWord, assert_data = 0, n # Bits - 1
  PROVE  Parts' /\ SS' = 0 /\ ~LastBit /\ ~HandsOver(Cont) /\ MOSI' = MOSI /\ MOSI # Z
<1> USE LinkAssumption DEF LastBitRx
<1>1. /\ CPha \in {0, 1} /\ SCLK \in {0, 1} /\ CPol \in {0, 1} /\ tx_buffer \in Words
      /\ word \in Words /\ rx_buffer \in Words /\ MISO \in {0, 1} /\ n \in 0 .. Bits - 2
      /\ state = "execute" /\ continue = 0 /\ continue \in {0, 1}
      /\ clk_toggles = 2 * n + CPha + 1 /\ (SCLK = CPol <=> CPha = 0)
  BY DEF LinkInv, TypeOK, SPIType, Parts, InStep, InWord, HandleEvent, Event, n
<1>2. /\ ~Reloads(Cont) /\ ~Ends(Cont) /\ ~Transmits /\ Receives /\ Toggles
      /\ ~HandsOver(Cont) /\ clk_toggles # 2 * Bits + 1
  BY <1>1 DEF Reloads, Ends, Transmits, Receives, Toggles, HandsOver
<1>3. /\ UNCHANGED <<CPol, CPha, Ratio, state, tx_buffer, MOSI, word>>
      /\ SS' = 0 /\ SCLK' = 1 - SCLK /\ assert_data' = 1 /\ clk_toggles' = clk_toggles + 1
      /\ continue' = 0 /\ Busy' = 1 /\ rx_buffer' = Shift(rx_buffer, MISO) /\ pairs' = Taken
      /\ ~LastBit
  <2>1. /\ UNCHANGED <<CPol, CPha, Ratio, state, tx_buffer, MOSI>>
        /\ SS' = 0 /\ SCLK' = 1 - SCLK /\ assert_data' = 1 /\ clk_toggles' = clk_toggles + 1
        /\ continue' = 0 /\ Busy' = 1 /\ rx_buffer' = Shift(rx_buffer, MISO)
    BY <1>1, <1>2 DEF HandleEvent, NextToggles, Next, SPIClock, generics
  <2>2. Samples /\ ~LastBit
    BY <1>1, <2>1 DEF Samples, Leading, Trailing, LastBit, n
  <2>3. pairs' = Taken
    BY <2>1, <2>2 DEF Next, Slave
  <2>4. word' = word
    BY <1>1, <1>2 DEF Next, Accepts
  <2> QED BY <2>1, <2>2, <2>3, <2>4
<1>4. /\ n' = n + 1 /\ pairs'[n + 1] = [mosi |-> MOSI, miso |-> MISO]
      /\ \A i \in 1 .. n : pairs'[i] = pairs[i]
  BY <1>3, TakenBit DEF LinkInv, n
<1>5. InWord' /\ ~Closing'
  BY <1>1, <1>3, <1>4, EmptySeq DEF InWord, Closing, n
<1>6. /\ \A i \in 1 .. Bits : i + n + 1 <= Bits => tx_buffer[i] = word[i + n + 1]
      /\ MOSI = word[n + 1] /\ \A i \in 1 .. n : pairs[i].mosi = word[i]
  <2>1. \A i \in 1 .. Bits : i + n + 1 - assert_data = i + n + 1
    BY <1>1
  <2> QED BY <1>1, <2>1 DEF LinkInv, Parts, Sent
<1>7. Deselected' /\ Starting' /\ InStep'
  BY <1>1, <1>3, <1>5 DEF Deselected, Starting, InStep
<1>8. Received'
  <2>1. \A i \in 1 .. n : rx_buffer[Bits - n + i] = pairs[i].miso
    BY <1>1 DEF LinkInv, Parts, Received
  <2>2. ASSUME NEW i \in 1 .. n
        PROVE  rx_buffer'[Bits - (n + 1) + i] = pairs'[i].miso
    <3>1. Bits - (n + 1) + i \in 1 .. Bits - 1 /\ Bits - (n + 1) + i + 1 = Bits - n + i
      BY <1>1
    <3>2. rx_buffer'[Bits - (n + 1) + i] = rx_buffer[Bits - n + i]
      BY <1>1, <1>3, <3>1, ShiftWord
    <3> QED BY <1>4, <2>1, <3>2
  <2>3. rx_buffer'[Bits - (n + 1) + (n + 1)] = MISO
    BY <1>1, <1>3, ShiftWord
  <2>4. \A i \in 1 .. n + 1 : rx_buffer'[Bits - (n + 1) + i] = pairs'[i].miso
    BY <1>1, <1>4, <2>2, <2>3
  <2> QED BY <1>3, <1>4, <1>5, <2>4 DEF Received
<1>9. Sent'
  <2>1. \A i \in 1 .. Bits : i + (n + 1) + 1 - 1 = i + n + 1
    BY <1>1
  <2>2. \A i \in 1 .. n + 1 : pairs'[i].mosi = word[i]
    BY <1>1, <1>4, <1>6
  <2> QED BY <1>3, <1>4, <1>6, <2>1, <2>2 DEF Sent
<1>10. MOSI # Z
  BY <1>1, <1>6 DEF Words, Z
<1> QED BY <1>2, <1>3, <1>7, <1>8, <1>9, <1>10 DEF Parts

(* The slave samples the last bit: the next word follows at once, or the   *)
(* transfer closes.                                                        *)
LEMMA LastStep ==
  ASSUME LinkInv, Next, Reset = 0, HandleEvent(Cont, TX_Data, MISO), SS = 0,
         InWord, assert_data = 0, n = Bits - 1
  PROVE  /\ Parts' /\ SS' = 0 /\ ~HandsOver(Cont) /\ MOSI' = MOSI /\ MOSI # Z
         /\ \A i \in 1 .. Bits : Taken[i].mosi = word[i]
<1> USE LinkAssumption DEF LastBitRx
<1>1. /\ CPha \in {0, 1} /\ SCLK \in {0, 1} /\ CPol \in {0, 1} /\ tx_buffer \in Words
      /\ word \in Words /\ rx_buffer \in Words /\ MISO \in {0, 1} /\ n = Bits - 1
      /\ state = "execute" /\ continue = 0 /\ continue \in {0, 1} /\ Busy = 1
      /\ Cont \in {0, 1}
      /\ clk_toggles = 2 * Bits + CPha - 1 /\ (SCLK = CPol <=> CPha = 0)
  BY DEF LinkInv, TypeOK, SPIType, Parts, InStep, InWord, HandleEvent, Event, n
<1>2. /\ (Reloads(Cont) <=> Cont = 1) /\ ~Ends(Cont) /\ ~Transmits /\ Receives /\ Toggles
      /\ ~HandsOver(Cont) /\ clk_toggles # 2 * Bits + 1
  BY <1>1 DEF Reloads, Ends, Transmits, Receives, Toggles, HandsOver, HandleEvent
<1>3. /\ UNCHANGED <<CPol, CPha, Ratio, state, MOSI>>
      /\ SS' = 0 /\ SCLK' = 1 - SCLK /\ assert_data' = 1
      /\ Busy' = 1 /\ rx_buffer' = Shift(rx_buffer, MISO)
  BY <1>1, <1>2 DEF HandleEvent, Next, SPIClock, generics
<1>4. LastBit
  BY <1>1, <1>3 DEF Samples, Leading, Trailing, LastBit, n
<1>5. /\ pairs' = <<>> /\ n' = 0 /\ fresh'
      /\ last' = [i \in 1 .. Bits |-> Taken[i].miso]
  BY <1>3, <1>4, EmptySeq DEF Next, Slave, n
<1>6. rx_buffer' = last'
  <2>1. /\ \A i \in 1 .. Bits - 1 : Taken[i] = pairs[i]
        /\ Taken[Bits] = [mosi |-> MOSI, miso |-> MISO]
    BY <1>1, TakenBit DEF LinkInv
  <2>2. \A i \in 1 .. Bits - 1 : rx_buffer[Bits - n + i] = pairs[i].miso
    BY <1>1 DEF LinkInv, Parts, Received
  <2>3. \A i \in 1 .. Bits - 1 : rx_buffer'[i] = rx_buffer[i + 1] /\ Bits - n + i = i + 1
    BY <1>1, <1>3, ShiftWord
  <2>4. rx_buffer'[Bits] = MISO /\ rx_buffer' \in Words
    BY <1>1, <1>3, ShiftWord
  <2>5. \A i \in 1 .. Bits : rx_buffer'[i] = Taken[i].miso
    BY <2>1, <2>2, <2>3, <2>4
  <2> QED BY <1>5, <2>4, <2>5 DEF Words
<1>7. MOSI = word[Bits] /\ \A i \in 1 .. Bits : Taken[i].mosi = word[i]
  <2>1. n + 1 = Bits
    BY <1>1
  <2>2. MOSI = word[Bits] /\ \A i \in 1 .. n : pairs[i].mosi = word[i]
    BY <1>1, <2>1 DEF LinkInv, Parts, Sent
  <2> QED BY <1>1, <2>1, <2>2, TakenBit DEF LinkInv
<1>8. MOSI # Z
  BY <1>1, <1>7 DEF Words, Z
<1>9. ASSUME Cont = 1 PROVE Parts'
  <2>1. /\ clk_toggles' = CPha /\ tx_buffer' = TX_Data /\ word' = TX_Data /\ continue' = 1
    BY <1>1, <1>2, <1>9 DEF HandleEvent, NextToggles, Next
  <2>2. InWord' /\ ~Closing'
    BY <1>1, <1>3, <1>5, <2>1 DEF InWord, Closing
  <2>3. Deselected' /\ Starting' /\ InStep'
    BY <1>1, <1>3, <1>5, <2>1, <2>2 DEF Deselected, Starting, InStep
  <2>4. Received'
    BY <1>3, <1>5, <1>6, <2>2 DEF Received
  <2>5. \A i \in 1 .. Bits : i + 0 + 1 - 1 = i
    OBVIOUS
  <2>6. Sent'
    BY <1>3, <1>5, <2>1, <2>5 DEF Sent
  <2> QED BY <2>3, <2>4, <2>6 DEF Parts
<1>10. ASSUME Cont = 0 PROVE Parts'
  <2>1. clk_toggles' = 2 * Bits + CPha /\ continue' = 0 /\ Cont' = 0
    BY <1>1, <1>2, <1>10 DEF HandleEvent, NextToggles, Next, User
  <2>2. ~InWord' /\ Closing'
    BY <1>1, <1>3, <1>5, <2>1 DEF InWord, Closing
  <2>3. Deselected' /\ Starting' /\ InStep'
    BY <1>1, <1>3, <1>5, <2>1, <2>2 DEF Deselected, Starting, InStep
  <2>4. Received'
    BY <1>3, <1>5, <1>6, <2>2 DEF Received
  <2>5. Sent'
    BY <2>2 DEF Sent
  <2> QED BY <2>3, <2>4, <2>5 DEF Parts
<1> QED BY <1>1, <1>2, <1>3, <1>7, <1>8, <1>9, <1>10

(* After the last bit the clock goes to its idle level, with CPha = 0 one  *)
(* event later, and the select ends.                                       *)
LEMMA CloseStep ==
  ASSUME LinkInv, Next, Reset = 0, HandleEvent(Cont, TX_Data, MISO), SS = 0, Closing
  PROVE  /\ Parts' /\ ~Samples
         /\ Ends(Cont) => SCLK = CPol /\ SCLK' = CPol /\ pairs = <<>>
         /\ HandsOver(Cont) => fresh /\ rx_buffer = last
         /\ SS' = 1 => Ends(Cont)
<1> USE LinkAssumption DEF LastBitRx
<1>1. /\ CPha \in {0, 1} /\ SCLK \in {0, 1} /\ CPol \in {0, 1} /\ assert_data \in {0, 1}
      /\ state = "execute" /\ Event /\ continue = 0 /\ Busy = 1 /\ Cont = 0 /\ pairs = <<>>
      /\ clk_toggles = 2 * Bits + CPha + 1 - assert_data /\ clk_toggles <= 2 * Bits + 1
      /\ (SCLK = CPol <=> assert_data = CPha) /\ fresh /\ rx_buffer = last
  BY DEF LinkInv, TypeOK, SPIType, Parts, InStep, Received, Closing, HandleEvent, Event
<1>2. ~Reloads(Cont) /\ ~Receives /\ ~Transmits
  BY <1>1 DEF Reloads, Receives, Transmits
<1>3. CASE Ends(Cont)
  <2>1. assert_data = CPha /\ clk_toggles = 2 * Bits + 1
    BY <1>1, <1>3 DEF Ends
  <2>2. SS' = 1 /\ state' = "ready" /\ SCLK' = SCLK /\ CPol' = CPol
    BY <1>3, <2>1 DEF HandleEvent, Toggles, Next, SPIClock, generics
  <2>3. pairs' = <<>> /\ ~Samples
    BY <1>1, <2>2 DEF Next, Slave, Samples, Leading, Trailing
  <2>4. Parts'
    BY <2>2, <2>3 DEF Parts, Deselected, Starting, InStep, Received, Sent
  <2> QED BY <1>1, <1>3, <2>1, <2>2, <2>3, <2>4
<1>4. CASE ~Ends(Cont)
  <2>1. CPha = 0 /\ assert_data = 1 /\ clk_toggles = 2 * Bits
    BY <1>1, <1>4 DEF Ends
  <2>2. ~HandsOver(Cont)
    BY <1>1, <1>4 DEF HandsOver
  <2>3. /\ UNCHANGED <<CPol, CPha, Ratio, rx_buffer>> /\ SS' = 0 /\ state' = "execute"
        /\ SCLK' = 1 - SCLK /\ assert_data' = 0 /\ clk_toggles' = 2 * Bits + 1
        /\ continue' = 0 /\ Busy' = 1
    BY <1>1, <1>2, <1>4, <2>1, <2>2
       DEF HandleEvent, NextToggles, Toggles, Next, SPIClock, generics
  <2>4. ~Samples
    BY <1>1, <2>1, <2>3 DEF Samples, Leading, Trailing
  <2>5. pairs' = <<>> /\ last' = last /\ (fresh => fresh') /\ Cont' = 0
    <3>1. Cont' = 0
      BY <1>1 DEF Next, User
    <3>2. pairs' = pairs /\ last' = last /\ (fresh => fresh')
      BY <2>2, <2>3, <2>4, Quiet
    <3> QED BY <1>1, <3>1, <3>2
  <2>6. n' = 0 /\ ~InWord' /\ Closing'
    BY <1>1, <2>1, <2>3, <2>5, EmptySeq DEF InWord, Closing, n
  <2>7. Deselected' /\ Starting' /\ InStep'
    BY <1>1, <2>1, <2>3, <2>5, <2>6 DEF Deselected, Starting, InStep
  <2>8. Received'
    BY <1>1, <2>3, <2>5, <2>6 DEF Received
  <2>9. Sent'
    BY <2>6 DEF Sent
  <2> QED BY <1>1, <1>4, <2>2, <2>3, <2>4, <2>7, <2>8, <2>9 DEF Parts
<1> QED BY <1>3, <1>4

----------------------------------------------------------------------------
LEMMA EventPhases ==
  ASSUME LinkInv, Reset = 0, HandleEvent(Cont, TX_Data, MISO)
  PROVE  /\ SS = 1 \/ SS = 0
         /\ SS = 0 => InWord \/ Closing
         /\ assert_data = 1 \/ assert_data = 0
  BY DEF LinkInv, TypeOK, SPIType, Parts, InStep, HandleEvent, Event

LEMMA NextPreserves == LinkInv /\ Next => LinkInv'
<1> SUFFICES ASSUME LinkInv, Next PROVE LinkInv'
  OBVIOUS
<1>1. TypeOK' /\ (pairs \in Seq(Pair))'
  BY TypeStep DEF LinkInv
<1>2. Parts'
  <2>1. CASE Reset = 1 /\ SPIReset  BY <2>1, ResetStep
  <2>2. CASE Reset = 0 /\ Ready(Enable, TX_Data)  BY <2>2, ReadyStep
  <2>3. CASE Reset = 0 /\ Between  BY <2>3, BetweenStep
  <2>4. CASE Reset = 0 /\ HandleEvent(Cont, TX_Data, MISO)
    BY <2>4, EventPhases, SelectStep, PresentStep, SampleStep, LastStep, CloseStep
  <2> QED BY <2>1, <2>2, <2>3, <2>4 DEF Next, SPIClock
<1> QED BY <1>1, <1>2 DEF LinkInv

LEMMA StepPreserves == LinkInv /\ [Next]_vars => LinkInv'
<1>1. LinkInv /\ UNCHANGED vars => LinkInv'
  BY DEF LinkInv, TypeOK, SPIType, Words, Pair, Parts, Deselected, Starting, InStep, Received,
         Sent, InWord, Closing, n, vars, spiVars, generics, registers, wires, userVars, slaveVars
<1> QED BY <1>1, NextPreserves

(* Every state of the link satisfies the inductive invariant.              *)
LEMMA LinkInvariant == Spec => []LinkInv
<1>1. Init => LinkInv  BY InitInv
<1>2. LinkInv /\ [Next]_vars => LinkInv'  BY StepPreserves
<1> QED BY <1>1, <1>2, PTL DEF Spec

(* The registers, the user and the slave have their types, and a select    *)
(* never has more bits than a word.                                        *)
THEOREM TypeCorrect == Spec => []TypeOK
<1>1. LinkInv => TypeOK  BY DEF LinkInv
<1> QED BY <1>1, LinkInvariant, PTL

(* Without an event, and in the one that selects, the slave samples        *)
(* nothing and nothing is handed over.                                     *)
LEMMA SamplesInEvent ==
  ASSUME LinkInv, Next, Samples
  PROVE  /\ Reset = 0 /\ HandleEvent(Cont, TX_Data, MISO) /\ SS = 0
         /\ InWord /\ assert_data = 0
<1>1. SS = 0 /\ SS' = 0 /\ SCLK' # SCLK
  BY DEF Samples, Leading, Trailing, LinkInv, TypeOK, SPIType
<1>2. Reset = 0 /\ ~Between /\ ~Ready(Enable, TX_Data)
  BY <1>1 DEF Next, SPIClock, SPIReset, Between, Ready
<1>3. HandleEvent(Cont, TX_Data, MISO)
  BY <1>1, <1>2 DEF Next, SPIClock, SPIReset
<1> QED BY <1>1, <1>2, <1>3, EventPhases, PresentStep, CloseStep

(* The slave receives the word TX_Data had when the transfer was started   *)
(* or continued, for every width, ratio and mode.                          *)
THEOREM SlaveReceivesTheWord == Spec => SlaveGetsWord
<1>1. LinkInv /\ [Next]_vars =>
        [LastBit => \A i \in 1 .. Bits : Taken[i].mosi = word[i]]_vars
  <2> SUFFICES ASSUME LinkInv, Next, LastBit
               PROVE  \A i \in 1 .. Bits : Taken[i].mosi = word[i]
    OBVIOUS
  <2> QED BY SamplesInEvent, LastStep DEF LastBit, n
<1> QED BY <1>1, LinkInvariant, PTL DEF Spec, SlaveGetsWord

(* When Busy falls RX_Data is the word the slave sent last, handed over    *)
(* once.                                                                   *)
THEOREM MasterReceivesTheWord == Spec => MasterGetsWord
<1>1. LinkInv /\ [Next]_vars =>
        [Reset = 0 /\ HandsOver(Cont) => fresh /\ RX_Data' = last]_vars
  <2> SUFFICES ASSUME LinkInv, Next, Reset = 0, HandsOver(Cont)
               PROVE  fresh /\ RX_Data' = last
    OBVIOUS
  <2>1. HandleEvent(Cont, TX_Data, MISO)
    BY DEF HandsOver, Event, Next, SPIClock, Ready, Between
  <2>2. RX_Data' = rx_buffer
    BY <2>1 DEF HandleEvent
  <2>3. SS = 0
    BY <2>1, SelectStep DEF LinkInv, TypeOK, SPIType
  <2>4. CASE InWord
    <3>1. continue = 1
      BY <2>4, LinkAssumption DEF HandsOver, Ends, InWord, LinkInv, TypeOK, SPIType, n
    <3> QED BY <2>2, <2>3, <3>1 DEF LinkInv, Parts, Received, HandsOver, Event
  <2>5. CASE Closing
    BY <2>1, <2>2, <2>3, <2>5, CloseStep
  <2> QED BY <2>1, <2>3, <2>4, <2>5, EventPhases
<1> QED BY <1>1, LinkInvariant, PTL DEF Spec, MasterGetsWord

(* A select frames whole words, and begins and ends at the idle level.     *)
THEOREM FramesWholeWords == Spec => SelectFramesWords
<1>1. LinkInv /\ [Next]_vars =>
        [Reset = 0 /\ SS # SS' => SCLK' = CPol /\ SCLK = CPol /\ pairs = <<>>]_vars
  <2> SUFFICES ASSUME LinkInv, Next, Reset = 0, SS # SS'
               PROVE  SCLK' = CPol /\ SCLK = CPol /\ pairs = <<>>
    OBVIOUS
  <2>1. CASE Ready(Enable, TX_Data)
    BY <2>1 DEF Ready, LinkInv, Parts, Deselected
  <2>2. CASE Between
    BY <2>2 DEF Between, LinkInv, TypeOK, SPIType, Parts, Starting
  <2>3. CASE HandleEvent(Cont, TX_Data, MISO)
    BY <2>3, EventPhases, SelectStep, PresentStep, SampleStep, LastStep, CloseStep
       DEF LinkInv, TypeOK, SPIType, HandleEvent
  <2> QED BY <2>1, <2>2, <2>3 DEF Next, SPIClock
<1> QED BY <1>1, LinkInvariant, PTL DEF Spec, SelectFramesWords

(* MOSI is driven and stands still while the slave samples it.             *)
THEOREM StableWhenSampled == Spec => MosiStable
<1>1. LinkInv /\ [Next]_vars => [Samples => MOSI' = MOSI /\ MOSI # Z]_vars
  BY SamplesInEvent, SampleStep, LastStep
<1> QED BY <1>1, LinkInvariant, PTL DEF Spec, MosiStable

============================================================================
