---------------------------- MODULE FrameChannel ----------------------------
(***************************************************************************)
(* What Ethernet over EtherCAT promises (ethercateoe.c): frames that may get *)
(* lost, but each that is handed over is one that was sent, as a whole, in   *)
(* the order of sending, and once.                                         *)
(***************************************************************************)
EXTENDS Naturals, Sequences

CONSTANTS Frames,  \* the Ethernet frames
          None     \* no frame yet

VARIABLES underway,  \* the frames sent and neither handed over nor lost
          handed     \* the frame handed over last

Init == underway = <<>> /\ handed = None

Send ==
  /\ \E f \in Frames : underway' = Append(underway, f)
  /\ UNCHANGED handed

\* A frame is handed over, and those that it overtakes are lost.
HandOver ==
  \E n \in 1..Len(underway) :
    /\ handed' = underway[n]
    /\ underway' = SubSeq(underway, n + 1, Len(underway))

Lose ==
  /\ \E n \in 1..Len(underway) :
       underway' = SubSeq(underway, 1, n - 1) \o SubSeq(underway, n + 1, Len(underway))
  /\ UNCHANGED handed

Next == Send \/ HandOver \/ Lose

Spec == Init /\ [][Next]_<<underway, handed>>
=============================================================================
