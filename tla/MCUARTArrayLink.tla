-------------------------- MODULE MCUARTArrayLink ---------------------------
(* Messages of up to three bytes of two bits, all different, so that a     *)
(* byte out of its place is seen; bit times of 4 clocks with 4 samples of  *)
(* one.  A byte of a message follows the one before in fewer than Timeout  *)
(* clocks.                                                                 *)
EXTENDS UARTArrayLink

TwoBits == [1 .. D_Width -> {0, 1}]
ZeroByte == [i \in 1 .. D_Width |-> 0]

Bits(a, b) == [i \in 1 .. D_Width |-> IF i = 1 THEN a ELSE b]
OnePayload ==
  {[i \in Slots |-> CASE i = 0 -> Bits(1, 0) [] i = 1 -> Bits(0, 1) [] OTHER -> Bits(1, 1)]}
============================================================================
