----------------------------- MODULE MCSPILink ------------------------------
(* SPI in its four modes, with an event in every clock and in every second *)
(* one.  A word of two bits has a bit that is the first and not the last   *)
(* and one that is the last, and either word sent is the other one's       *)
(* complement.                                                             *)
EXTENDS SPILink

Mirrored == { <<0, 1>>, <<1, 0>> }
============================================================================
