------------------------------ MODULE UARTClock ------------------------------
(***************************************************************************)
(* The clock generator of a UART (process CLK_GENERATOR of                 *)
(* Libraries/Interface/UART/UART.vhdp): pulses of one clock at the baud    *)
(* rate for the transmitter and at the oversampling rate for the receiver. *)
(* BitClocks is CLK_Frequency/Baud_Rate, SampleClocks is                   *)
(* CLK_Frequency/Baud_Rate/OS_Rate, both integer quotients.                *)
(***************************************************************************)
EXTENDS Naturals

CONSTANTS BitClocks, OS_Rate

VARIABLES count_baud, count_os, baud_pulse, os_pulse

clockVars == <<count_baud, count_os, baud_pulse, os_pulse>>

SampleClocks == BitClocks \div OS_Rate

ClockType == /\ count_baud \in 0 .. BitClocks - 1
             /\ count_os \in 0 .. SampleClocks - 1
             /\ baud_pulse \in {0, 1} /\ os_pulse \in {0, 1}

ClockInit == count_baud = 0 /\ count_os = 0 /\ baud_pulse = 0 /\ os_pulse = 0

(* The samples of a period start with the period.                          *)
Sampling(start) ==
  IF start < SampleClocks - 1
  THEN count_os' = start + 1 /\ os_pulse' = 0
  ELSE count_os' = 0 /\ os_pulse' = 1

Generate ==
  \/ /\ count_baud < BitClocks - 1
     /\ count_baud' = count_baud + 1 /\ baud_pulse' = 0
     /\ Sampling(count_os)
  \/ /\ count_baud >= BitClocks - 1
     /\ count_baud' = 0 /\ baud_pulse' = 1
     /\ Sampling(0)

ClockReset == count_baud' = 0 /\ count_os' = 0 /\ baud_pulse' = 0 /\ os_pulse' = 0

ClockGenerator(Reset) == IF Reset = 1 THEN ClockReset ELSE Generate

============================================================================
