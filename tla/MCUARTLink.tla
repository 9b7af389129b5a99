----------------------------- MODULE MCUARTLink -----------------------------
(* Bit times of 9 clocks with 4 samples of 2: the samples drift within a   *)
(* bit and are aligned with the next.                                      *)
EXTENDS UARTLink

AllBytes == [1 .. D_Width -> {0, 1}]
============================================================================
