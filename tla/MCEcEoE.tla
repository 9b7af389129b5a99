------------------------------ MODULE MCEcEoE ------------------------------
(* Frames of one, two and three fragments, the last of one unit to all.     *)
EXTENDS EcEoE

OneToThreeFragments == {1, 4, 7}
=============================================================================
