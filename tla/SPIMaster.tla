----------------------------- MODULE SPIMaster -----------------------------
(***************************************************************************)
(* SPI_Master (Libraries/Interface/SPI/SPI_Master.vhdp): a byte of Bits    *)
(* bits goes out on MOSI while another comes in on MISO.  One step is one  *)
(* clock.  Every Ratio clocks there is an event: it may toggle SCLK, shift *)
(* a bit in or shift a bit out.  The generics CPol, CPha and Ratio are     *)
(* variables that never change, so that one model has all the SPI modes.   *)
(* Words are sequences, their highest bit first.                           *)
(***************************************************************************)
EXTENDS Naturals, Sequences

CONSTANT Bits

VARIABLES CPol, CPha, Ratio,
          state, count, clk_toggles, assert_data, continue, rx_buffer, tx_buffer,
          SCLK, SS, MOSI, Busy, RX_Data

generics  == <<CPol, CPha, Ratio>>
registers == <<state, count, clk_toggles, assert_data, continue, rx_buffer, tx_buffer>>
wires     == <<SCLK, SS, MOSI>>
spiVars   == <<registers, wires, Busy, RX_Data>>

Z         == 2                            \* high impedance
Words     == [1 .. Bits -> {0, 1}]
ZeroWord  == [i \in 1 .. Bits |-> 0]
LastBitRx == 2 * Bits + CPha - 1          \* last_bit_rx

SPIType ==
  /\ CPol \in {0, 1} /\ CPha \in {0, 1} /\ Ratio \in Nat \ {0}
  /\ state \in {"ready", "execute"} /\ count \in 1 .. Ratio
  /\ clk_toggles \in 0 .. 2 * Bits + 1 /\ assert_data \in {0, 1} /\ continue \in {0, 1}
  /\ rx_buffer \in Words /\ tx_buffer \in Words
  /\ SCLK \in {0, 1} /\ SS \in {0, 1} /\ MOSI \in {0, 1, Z} /\ Busy \in {0, 1}
  /\ RX_Data \in Words

SPIInit ==
  /\ state = "ready" /\ count = 1 /\ clk_toggles = 0 /\ assert_data = 0 /\ continue = 0
  /\ rx_buffer = ZeroWord /\ tx_buffer = ZeroWord
  /\ SCLK = 0 /\ SS = 1 /\ MOSI = 0 /\ Busy = 0 /\ RX_Data = ZeroWord

SPIReset ==
  /\ Busy' = 1 /\ SS' = 1 /\ MOSI' = Z /\ RX_Data' = ZeroWord /\ state' = "ready"
  /\ UNCHANGED <<count, clk_toggles, assert_data, continue, rx_buffer, tx_buffer, SCLK>>

----------------------------------------------------------------------------
Accepts(Reset, Enable) == Reset = 0 /\ state = "ready" /\ Enable = 1

(* A slip: the phase of the word before is kept.                           *)
ReadyAnyPhase(Enable, TX_Data) ==
  /\ state = "ready" /\ SS' = 1 /\ MOSI' = Z /\ continue' = 0
  /\ \/ /\ Enable = 1
        /\ Busy' = 1 /\ state' = "execute" /\ count' = Ratio /\ SCLK' = CPol
        /\ tx_buffer' = TX_Data /\ clk_toggles' = 0
        /\ UNCHANGED assert_data
     \/ /\ Enable = 0
        /\ Busy' = 0
        /\ UNCHANGED <<state, count, SCLK, assert_data, tx_buffer, clk_toggles>>
  /\ UNCHANGED <<rx_buffer, RX_Data>>

(* A slip: the clock is not put to its idle level.                         *)
ReadyAnyLevel(Enable, TX_Data) ==
  /\ state = "ready" /\ SS' = 1 /\ MOSI' = Z /\ continue' = 0
  /\ \/ /\ Enable = 1
        /\ Busy' = 1 /\ state' = "execute" /\ count' = Ratio
        /\ tx_buffer' = TX_Data /\ clk_toggles' = 0 /\ assert_data' = 1 - CPha
     \/ /\ Enable = 0
        /\ Busy' = 0
        /\ UNCHANGED <<state, count, assert_data, tx_buffer, clk_toggles>>
  /\ UNCHANGED <<SCLK, rx_buffer, RX_Data>>

(* The first event is in the first clock of execute: count starts full.    *)
Ready(Enable, TX_Data) ==
  /\ state = "ready" /\ SS' = 1 /\ MOSI' = Z /\ continue' = 0
  /\ \/ /\ Enable = 1
        /\ Busy' = 1 /\ state' = "execute" /\ count' = Ratio /\ SCLK' = CPol
        /\ tx_buffer' = TX_Data /\ clk_toggles' = 0 /\ assert_data' = 1 - CPha
     \/ /\ Enable = 0
        /\ Busy' = 0
        /\ UNCHANGED <<state, count, SCLK, assert_data, tx_buffer, clk_toggles>>
  /\ UNCHANGED <<rx_buffer, RX_Data>>

----------------------------------------------------------------------------
Event == state = "execute" /\ count = Ratio

Between ==
  /\ state = "execute" /\ count # Ratio
  /\ count' = count + 1 /\ Busy' = 1 /\ SS' = 0
  /\ UNCHANGED <<state, clk_toggles, assert_data, continue, rx_buffer, tx_buffer,
                 SCLK, MOSI, RX_Data>>

Shift(word, bit) == Append(Tail(word), bit)

Toggles == clk_toggles <= 2 * Bits /\ SS = 0

(* A slip: nothing is received in the event of the last bit.               *)
ReceivesShort == assert_data = 0 /\ clk_toggles < LastBitRx /\ SS = 0

Receives == assert_data = 0 /\ clk_toggles < LastBitRx + 1 /\ SS = 0

Transmits == assert_data = 1 /\ clk_toggles < LastBitRx

(* A slip: Cont is not asked.                                              *)
ReloadsAnyway(Cont) == Event /\ clk_toggles = LastBitRx

(* Another word follows without a pause.                                   *)
Reloads(Cont) == Event /\ clk_toggles = LastBitRx /\ Cont = 1

Ends(Cont) == Event /\ clk_toggles = 2 * Bits + 1 /\ Cont = 0

(* Slips: the count goes back to 0 in every mode, or does not wrap.        *)
NextTogglesZero(Cont) == CASE Reloads(Cont)                -> 0
                           [] clk_toggles = 2 * Bits + 1   -> 0
                           [] OTHER                        -> clk_toggles + 1

NextTogglesOn(Cont) == IF Reloads(Cont) THEN LastBitRx - 2 * Bits + 1 ELSE clk_toggles + 1

NextToggles(Cont) == CASE Reloads(Cont)                    -> LastBitRx - 2 * Bits + 1
                       [] clk_toggles = 2 * Bits + 1       -> 0
                       [] OTHER                            -> clk_toggles + 1

(* RX_Data is handed over at the end, or one event after the reload.       *)
HandsOver(Cont) == Event /\ (continue = 1 \/ Ends(Cont))

HandleEvent(Cont, TX_Data, MISO) ==
  /\ Event
  /\ count' = 1 /\ assert_data' = 1 - assert_data /\ clk_toggles' = NextToggles(Cont)
  /\ SCLK' = (IF Toggles THEN 1 - SCLK ELSE SCLK)
  /\ rx_buffer' = (IF Receives THEN Shift(rx_buffer, MISO) ELSE rx_buffer)
  /\ tx_buffer' = CASE Reloads(Cont) -> TX_Data
                    [] ~Reloads(Cont) /\ Transmits -> Shift(tx_buffer, 0)
                    [] OTHER -> tx_buffer
  /\ MOSI' = CASE Ends(Cont) -> Z
               [] ~Ends(Cont) /\ Transmits -> tx_buffer[1]
               [] OTHER -> MOSI
  /\ continue' = (IF continue = 0 /\ Reloads(Cont) THEN 1 ELSE 0)
  /\ Busy' = (IF HandsOver(Cont) THEN 0 ELSE 1)
  /\ RX_Data' = (IF HandsOver(Cont) THEN rx_buffer ELSE RX_Data)
  /\ SS' = (IF Ends(Cont) THEN 1 ELSE 0)
  /\ state' = (IF Ends(Cont) THEN "ready" ELSE "execute")

SPIClock(Reset, Enable, Cont, TX_Data, MISO) ==
  /\ UNCHANGED generics
  /\ \/ Reset = 1 /\ SPIReset
     \/ /\ Reset = 0
        /\ Ready(Enable, TX_Data) \/ Between \/ HandleEvent(Cont, TX_Data, MISO)

============================================================================
