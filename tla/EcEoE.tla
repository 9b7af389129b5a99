------------------------------- MODULE EcEoE -------------------------------
(***************************************************************************)
(* Ethernet over EtherCAT (soem/ethercateoe.c): an Ethernet frame that is     *)
(* larger than a mailbox travels as fragments.  ecx_EOEsend numbers them; the *)
(* receiver puts them together, within one call of ecx_EOErecv, or one        *)
(* message at a time with ecx_EOEreadfragment, which keeps its state with the *)
(* caller.  One mailbox message is one step.  The slave's end is not in the   *)
(* repository: here the master's two ends are joined, with what a slave may    *)
(* do besides, a time stamp behind the frame.                               *)
(*                                                                         *)
(* Data is counted in units, and a unit tells its frame and its place, so    *)
(* that a frame put together of parts of others is seen.                    *)
(***************************************************************************)
EXTENDS Integers, Sequences

CONSTANTS Lengths,    \* of the frames, in units
          Block,      \* units in a block, 32 bytes in the code
          MaxData,    \* units that a mailbox can hold
          Room,       \* units that the receiver's buffer can hold
          FrameNos,   \* different frame numbers, 16 in the code
          Tags,       \* different frames of each length
          MaxQueue,   \* messages that wait in the mailboxes
          MaxFaults,  \* how often something gets lost or comes too late
          None

Blocks(units) == (units + Block - 1) \div Block

\* A mailbox holds a block, the buffer every frame with its time stamp.
EoEAssumption ==
  /\ {Block, MaxData, Room, FrameNos, Tags, MaxQueue} \subseteq Nat \ {0}
  /\ MaxFaults \in Nat
  /\ Block <= MaxData
  /\ \A n \in Lengths : n \in Nat \ {0} /\ Blocks(n + 1) * Block <= Room
ASSUME EoEAssumption

VARIABLES
  mode,      \* the function that receives
  stamps,    \* the sender appends a time stamp
  sending,   \* the locals of ecx_EOEsend, or None
  txframeno, \* its static variable, in the width of the field
  tag,       \* tells the frames of a length apart
  queue,     \* the mailbox messages under way
  rx,        \* rxfragmentno, rxframesize, rxframeoffset, rxframeno
  buf,       \* the receiver's buffer
  got,       \* the frame that it was given last
  clean,     \* the frame of the fragment received last has come whole so far
  faults     \* things lost or late so far

eoeSetup == <<mode, stamps>>
sender == <<sending, txframeno, tag>>
receiver == <<rx, buf, got, clean>>
eoeVars == <<eoeSetup, sender, queue, receiver, faults>>

Frame(length, t) == [k \in 1..length |-> <<t, k>>]
Stamp(t) == <<t, 0>>

\* The receiver's variables at the start of a frame.
Unstarted == [fragmentno |-> 0, framesize |-> 0, frameoffset |-> 0, frameno |-> 0]

Empty == [k \in 1..Room |-> None]

EoEInit ==
  /\ mode \in {"recv", "read fragment"} /\ stamps \in BOOLEAN
  /\ sending = None /\ txframeno = 0 /\ tag = 0
  /\ queue = <<>>
  /\ rx = Unstarted /\ buf = Empty /\ got = None /\ clean = FALSE
  /\ faults = 0

Fault == faults < MaxFaults /\ faults' = faults + 1

-----------------------------------------------------------------------------
(* ecx_EOEsend                                                             *)

\* A slip: the frame number is not cut to its field.
NextFrameNoUncut == txframeno + 1

NextFrameNo == (txframeno + 1) % FrameNos

\* The call, with the number that the frame gets in its first fragment.
SendBegins ==
  /\ sending = None
  /\ \E length \in Lengths :
       sending' = [frame |-> Frame(length, tag), offset |-> 0, fragmentno |-> 0,
                   payload |-> IF stamps THEN Append(Frame(length, tag), Stamp(tag))
                               ELSE Frame(length, tag)]
  /\ txframeno' = NextFrameNo
  /\ tag' = (tag + 1) % Tags
  /\ UNCHANGED <<eoeSetup, queue, receiver, faults>>

Left == Len(sending.payload) - sending.offset

\* Whole blocks, but for the last fragment.
FragmentSize == IF Left > MaxData THEN (MaxData \div Block) * Block ELSE Left

\* The first fragment tells the size of the frame, the others their offset.
Fragment ==
  [no |-> sending.fragmentno, frameno |-> txframeno,
   offset |-> IF sending.fragmentno > 0 THEN sending.offset \div Block
              ELSE Blocks(Len(sending.payload)),
   last |-> FragmentSize = Left,
   stamp |-> stamps /\ FragmentSize = Left,
   data |-> SubSeq(sending.payload, sending.offset + 1, sending.offset + FragmentSize),
   of |-> sending.frame]

SendFragment ==
  /\ sending # None /\ Len(queue) < MaxQueue
  /\ queue' = Append(queue, Fragment)
  /\ sending' = IF Fragment.last THEN None
                ELSE [sending EXCEPT !.offset = @ + FragmentSize, !.fragmentno = @ + 1]
  /\ UNCHANGED <<eoeSetup, txframeno, tag, receiver, faults>>

\* ecx_mbxsend fails: the rest of the frame is not sent.  The fragment may have
\* got into the mailbox all the same.
SendFails ==
  /\ sending # None /\ Fault
  /\ \/ UNCHANGED queue
     \/ Len(queue) < MaxQueue /\ queue' = Append(queue, Fragment)
  /\ sending' = None
  /\ UNCHANGED <<eoeSetup, txframeno, tag, receiver>>

-----------------------------------------------------------------------------
(* ecx_EOErecv and ecx_EOEreadfragment                                     *)

\* The first fragment of a frame.
NewFrame(m) ==
  [fragmentno |-> 0, framesize |-> m.offset * Block, frameoffset |-> 0, frameno |-> m.frameno]

\* A slip: a fragment with the right number and offset is taken for one of the
\* frame that was begun.
SameFrameAny(m) == rx.frameoffset = m.offset * Block

\* A fragment of the frame that was begun, where it was left.
SameFrame(m) == rx.frameno = m.frameno /\ rx.frameoffset = m.offset * Block

\* In ecx_EOErecv a first fragment in the middle of a frame is an error.
RecvAccepts(m) ==
  /\ m.no \in {0, rx.fragmentno}
  /\ IF rx.fragmentno = 0 THEN NewFrame(m).framesize <= Room ELSE SameFrame(m)

\* A slip: a first fragment in the middle of a frame is an error here, too.
ReadAcceptsInOrder(m) ==
  /\ m.no = rx.fragmentno
  /\ m.no > 0 => SameFrame(m)

\* In ecx_EOEreadfragment it begins a new frame.
ReadAccepts(m) == m.no = 0 \/ (m.no = rx.fragmentno /\ SameFrame(m))

Accepts(m) == IF mode = "recv" THEN RecvAccepts(m) ELSE ReadAccepts(m)

\* The variables when the data of m is about to be copied.
Position(m) ==
  IF rx.fragmentno = 0 \/ (mode = "read fragment" /\ m.no = 0) THEN NewFrame(m) ELSE rx

\* The data has room in the buffer, and in the frame.
Fits(m) ==
  LET end == Position(m).frameoffset + Len(m.data)
  IN  end <= Room /\ (mode = "read fragment" => end <= Position(m).framesize)

\* The variables and the buffer behind the copying: data that does not fit is
\* left out.
Advanced(m) ==
  IF Fits(m)
  THEN [Position(m) EXCEPT !.frameoffset = @ + Len(m.data), !.fragmentno = @ + 1]
  ELSE Position(m)

\* What is behind the data is of earlier frames, and left out.
Copied(m) ==
  LET offset == Position(m).frameoffset
  IN  [k \in 1..Room |->
         IF k <= offset THEN buf[k]
         ELSE IF Fits(m) /\ k <= offset + Len(m.data) THEN m.data[k - offset]
         ELSE None]

\* With the last fragment the frame is handed over, without its time stamp.
Complete(m) ==
  /\ rx' = Unstarted /\ buf' = Empty
  /\ got' = SubSeq(Copied(m), 1, Advanced(m).frameoffset - (IF m.stamp THEN 1 ELSE 0))

Continue(m) ==
  /\ buf' = Copied(m)
  /\ rx' = Advanced(m)
  /\ UNCHANGED got

\* An error: ecx_EOErecv returns, and begins anew when it is called again, and
\* ecx_EOEreadfragment sets its variables back.
Reject == rx' = Unstarted /\ buf' = Empty /\ UNCHANGED got

\* m is the first fragment of a frame, or another of one that came whole so
\* far.  A call of ecx_EOErecv must not be in the middle of another frame.
CleanWith(m) ==
  IF m.no = 0 THEN mode = "recv" => rx.fragmentno = 0 ELSE clean

Receive ==
  /\ queue # <<>> /\ queue' = Tail(queue)
  /\ LET m == Head(queue)
     IN  /\ \/ Accepts(m) /\ m.last /\ Complete(m)
            \/ Accepts(m) /\ ~m.last /\ Continue(m)
            \/ ~Accepts(m) /\ Reject
         /\ clean' = CleanWith(m)
  /\ UNCHANGED <<eoeSetup, sender, faults>>

\* Within a frame ecx_EOErecv gets no message in time, or one of another
\* service: the call returns with part of the frame.  ecx_EOEreadfragment keeps
\* its variables in both cases.
BreaksOff ==
  /\ mode = "recv" /\ rx.fragmentno > 0 /\ Fault
  /\ Reject /\ clean' = FALSE
  /\ UNCHANGED <<eoeSetup, sender, queue>>

\* A message gets lost on the way.
Lost ==
  /\ queue # <<>> /\ Fault
  /\ queue' = Tail(queue) /\ clean' = FALSE
  /\ UNCHANGED <<eoeSetup, sender, rx, buf, got>>

-----------------------------------------------------------------------------

EoENext == SendBegins \/ SendFragment \/ SendFails \/ Receive \/ BreaksOff \/ Lost

EoESpec == EoEInit /\ [][EoENext]_eoeVars

-----------------------------------------------------------------------------
(* Properties                                                              *)

Unit == (0..Tags - 1) \X Nat

\* What a receiver's variables may be: the offset is in the buffer.
Positions == [fragmentno : Nat, framesize : Nat, frameoffset : 0..Room, frameno : 0..FrameNos - 1]

Fragments == [no : Nat, frameno : 0..FrameNos - 1, offset : Nat, last : BOOLEAN, stamp : BOOLEAN,
              data : Seq(Unit), of : Seq(Unit)]

Sendings == [frame : Seq(Unit), payload : Seq(Unit), offset : Nat, fragmentno : Nat]

EoETypeOK ==
  /\ mode \in {"recv", "read fragment"} /\ {stamps, clean} \subseteq BOOLEAN
  /\ sending \in Sendings \cup {None}
  /\ txframeno \in 0..FrameNos - 1 /\ tag \in 0..Tags - 1
  /\ queue \in Seq(Fragments)
  /\ rx \in Positions
  /\ buf \in [1..Room -> Unit \cup {None}]
  /\ got \in Seq(Unit) \cup {None}
  /\ faults \in 0..MaxFaults

\* It cannot be taken for the locals of a call.
ASSUME NoneAssumption == None \notin Sendings

\* The messages in the mailboxes, and the one that ecx_EOEsend is about to send.
Stream == IF sending = None THEN queue ELSE Append(queue, Fragment)

\* The frames of messages, in whole or in part.
FramesOf(messages) ==
  LET frames[n \in 0..Len(messages)] ==
        IF n = 0 THEN <<>>
        ELSE IF n > 1 /\ messages[n].no > 0 THEN frames[n - 1]
        ELSE Append(frames[n - 1], messages[n].of)
  IN  frames[Len(messages)]

\* The frames that are still in the mailboxes, and behind them the one that is
\* being sent.
Underway == FramesOf(Stream)

Channel == INSTANCE FrameChannel
  WITH Frames <- {Frame(length, t) : length \in Lengths, t \in 0..Tags - 1}, None <- None,
       underway <- Underway, handed <- got

\* Whatever fragments get lost or come too late, and wherever a sender gives up,
\* no frame is put together of parts of two, without a part, or with its time
\* stamp, and none is handed over twice or late.
ImplementsFrameChannel == Channel!Spec

\* A frame that comes whole is handed over, whatever came before it: a broken
\* frame never costs the next one, unless a call of ecx_EOErecv is still in it.
WholeFrameArrives ==
  [][Receive /\ Head(queue).last /\ CleanWith(Head(queue)) => got' = Head(queue).of]_eoeVars
=============================================================================
