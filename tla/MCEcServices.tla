---------------------------- MODULE MCEcServices ----------------------------
(* A content of one message, and one that CoE moves in three messages, the   *)
(* last not full, and FoE in two full packets and an empty one.             *)
EXTENDS EcServices

MCContents == {<<1>>, <<4, 5, 1, 2>>}

\* What comes at any time, of what a service pushes when it fails.
MCErrorOf ==
  [kind \in ErrorKinds |-> IF kind \in {"emergency", "mailbox_error"} THEN "report" ELSE "other"]
=============================================================================
