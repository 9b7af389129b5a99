------------------------------ MODULE SPILink ------------------------------
(***************************************************************************)
(* SPI_Master with a user and an external slave of the same mode.  The     *)
(* slave's wires answer within a clock: with CPha = 0 it puts a bit on     *)
(* MISO when it is selected and at trailing edges of SCLK and samples MOSI *)
(* at leading ones, with CPha = 1 it puts one at leading edges and samples *)
(* at trailing ones.  It chooses its bits as it likes.                     *)
(*                                                                         *)
(* The user drives Enable, TX_Data and Reset as it likes, in every clock.  *)
(* It lowers Cont at any time, and raises it only when Busy = 0: raised    *)
(* between the last bit and the end of a word it is too late for the       *)
(* reload and still keeps the transfer from ending.                        *)
(***************************************************************************)
EXTENDS SPIMaster

CONSTANTS Ratios, TxWords    \* clocks to half an SCLK period, words sent

(* With words of one bit and an event in every clock, Busy is still 0 in   *)
(* the event of a continued word's only bit: Cont may rise there, and the  *)
(* rule above does not keep it out of the word's end.                      *)
ASSUME LinkAssumption ==
  /\ Bits \in Nat \ {0, 1} /\ Ratios \subseteq Nat \ {0} /\ TxWords \subseteq Words

VARIABLES Reset, Enable, Cont, TX_Data,    \* the user
          MISO, pairs, last, fresh,        \* the slave: bits of this word, of the last
          word                             \* history: the word in tx_buffer, whole

slaveVars == <<MISO, pairs, last, fresh>>
userVars  == <<Reset, Enable, Cont, TX_Data>>
vars      == <<generics, spiVars, userVars, slaveVars, word>>

Init ==
  /\ CPol \in {0, 1} /\ CPha \in {0, 1} /\ Ratio \in Ratios
  /\ SPIInit
  /\ Reset = 0 /\ Enable = 0 /\ Cont = 0 /\ TX_Data \in TxWords
  /\ MISO = 0 /\ pairs = <<>> /\ last = ZeroWord /\ fresh = FALSE
  /\ word = ZeroWord

User ==
  /\ Reset' \in {0, 1} /\ Enable' \in {0, 1} /\ TX_Data' \in TxWords
  /\ Cont' \in (IF Busy = 0 THEN {0, 1} ELSE 0 .. Cont)

----------------------------------------------------------------------------
Selected == SS = 1 /\ SS' = 0
Leading  == SS = 0 /\ SS' = 0 /\ SCLK = CPol /\ SCLK' # CPol
Trailing == SS = 0 /\ SS' = 0 /\ SCLK # CPol /\ SCLK' = CPol
Presents == IF CPha = 0 THEN Selected \/ Trailing ELSE Leading
Samples  == IF CPha = 0 THEN Leading ELSE Trailing
LastBit  == Samples /\ Len(pairs) = Bits - 1

Taken == Append(pairs, [mosi |-> MOSI, miso |-> MISO])

(* fresh: the slave has had a word that the master has not handed over.    *)
Slave ==
  /\ MISO' \in (IF Presents THEN {0, 1} ELSE {MISO})
  /\ pairs' = CASE SS' = 1             -> <<>>
                [] SS' = 0 /\ LastBit  -> <<>>
                [] SS' = 0 /\ Samples /\ ~LastBit -> Taken
                [] OTHER               -> pairs
  /\ last' = IF LastBit THEN [i \in 1 .. Bits |-> Taken[i].miso] ELSE last
  /\ fresh' = (LastBit \/ (fresh /\ Reset = 0 /\ ~HandsOver(Cont)))

Next ==
  /\ User
  /\ SPIClock(Reset, Enable, Cont, TX_Data, MISO)
  /\ Slave
  /\ word' = IF Accepts(Reset, Enable) \/ (Reset = 0 /\ Reloads(Cont)) THEN TX_Data ELSE word

Spec == Init /\ [][Next]_vars /\ WF_vars(Next)

----------------------------------------------------------------------------
TypeOK ==
  /\ SPIType
  /\ Reset \in {0, 1} /\ Enable \in {0, 1} /\ Cont \in {0, 1} /\ TX_Data \in TxWords
  /\ MISO \in {0, 1} /\ Len(pairs) \in 0 .. Bits - 1 /\ last \in Words
  /\ fresh \in BOOLEAN /\ word \in Words

(* The slave receives what was in TX_Data when the transfer started or was *)
(* continued, whatever TX_Data does meanwhile.                             *)
SlaveGetsWord == [][LastBit => \A i \in 1 .. Bits : Taken[i].mosi = word[i]]_vars

(* SPI_Master.vhdp:39-40: when Busy falls RX_Data is the word the slave    *)
(* sent last, and each is handed over once.                                *)
MasterGetsWord ==
  [][Reset = 0 /\ HandsOver(Cont) =>
       fresh /\ RX_Data' = last]_vars

(* A select frames whole words only, and begins and ends with the clock at *)
(* its idle level.                                                         *)
SelectFramesWords ==
  [][Reset = 0 /\ SS # SS' => SCLK' = CPol /\ SCLK = CPol /\ pairs = <<>>]_vars

(* MOSI stands still while the slave samples it.                           *)
MosiStable == [][Samples => MOSI' = MOSI /\ MOSI # Z]_vars

(* Without Cont every transfer ends.                                       *)
TransfersEnd == <>[](Cont = 0) => []<>(state = "ready")

============================================================================
