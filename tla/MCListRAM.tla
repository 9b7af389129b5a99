------------------------------ MODULE MCListRAM ------------------------------
(* A list of up to three blocks of two values: positions at the front, in  *)
(* the middle and at the end, a full list, and a move of more than one.    *)
EXTENDS ListRAM
============================================================================
