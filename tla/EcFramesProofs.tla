--------------------------- MODULE EcFramesProofs ---------------------------
(***************************************************************************)
(* Proofs about the frames that the EtherCAT master sends and receives.     *)
(*                                                                         *)
(* The process data cycle (EcProcessData), first for any number of buffers, *)
(* any frames and any network, as long as the buffers are enough: types,    *)
(* and every buffer is released.  Then, as long as the master is used       *)
(* within its limits: every answer is the one that was waited for.          *)
(*                                                                         *)
(* Ethernet over EtherCAT (EcEoE), for every length of frames, mailbox and  *)
(* buffer: what is sent lies in the frame, and what is received in the      *)
(* buffer; a frame that comes whole is handed over; frames are not mixed.   *)
(***************************************************************************)
EXTENDS EcProcessData, EcEoE, FiniteSets, FiniteSetTheorems, SequenceTheorems, TLAPS

-----------------------------------------------------------------------------
(* The process data cycle                                                  *)

\* A buffer for each frame of a cycle, and one more for a command before they
\* are received.  Nothing in the code looks after it.
EnoughBuffers ==
  \A s \in Setups :
    Len(s.frames) + (IF s.commands = "anytime" THEN 1 ELSE 0) <= Buffers

\* Where the thread is tells what is on the stack.
Stage ==
  /\ pc = "idle" => idxstack = <<>>
  /\ pc # "idle" => Len(idxstack) = number
  /\ pc = "sending" => number < NumberOfFrames
  /\ pc \in {"sent", "receiving"} => number = NumberOfFrames
  /\ pc # "receiving" => pulled = 0

\* When a command may be waited for.
CommandTime ==
  command # Nothing => pc = "idle" \/ (pc = "sent" /\ setup.commands = "anytime")

Awaited == pulled + 1..Len(idxstack)

\* No two wait for the same buffer.
Apart ==
  /\ \A m, n \in Awaited : idxstack[m].idx = idxstack[n].idx => m = n
  /\ command # Nothing => \A n \in Awaited : idxstack[n].idx # command.idx

IInv == TypeOK /\ Stage /\ CommandTime /\ Apart /\ BuffersReleased

-----------------------------------------------------------------------------
(* The assumptions and the data                                            *)

LEMMA SetupFacts ==
  ASSUME TypeOK
  PROVE  /\ Buffers \in Nat \ {0}
         /\ NumberOfFrames \in Nat \ {0}
         /\ setup.frames \in Seq({"LRW", "LRD", "LWR"})
         /\ setup.dc \in BOOLEAN
         /\ EnoughBuffers => NumberOfFrames <= Buffers
         /\ EnoughBuffers /\ setup.commands = "anytime" => NumberOfFrames < Buffers
<1>1. setup \in Setups /\ setup.frames \in Seq({"LRW", "LRD", "LWR"}) /\ Len(setup.frames) > 0
      /\ setup.dc \in BOOLEAN
  BY SetupAssumption DEF TypeOK, SetupAssumption
<1>2. Len(setup.frames) \in Nat \ {0}
  <2>1. Len(setup.frames) \in Nat
    BY <1>1, LenProperties
  <2> QED
    BY <1>1, <2>1
<1>3. Buffers \in Nat \ {0}
  BY BuffersAssumption DEF BuffersAssumption
<1>4. CASE setup.commands = "anytime"
  <2>1. EnoughBuffers => Len(setup.frames) + 1 <= Buffers
    BY <1>1, <1>4, Zenon DEF EnoughBuffers
  <2>2. EnoughBuffers => Len(setup.frames) <= Buffers /\ Len(setup.frames) < Buffers
    BY <1>2, <1>3, <2>1
  <2> QED
    BY <1>1, <1>2, <1>3, <2>2, Zenon DEF NumberOfFrames
<1>5. CASE setup.commands # "anytime"
  <2>1. EnoughBuffers => Len(setup.frames) + 0 <= Buffers
    BY <1>1, <1>5, Zenon DEF EnoughBuffers
  <2>2. EnoughBuffers => Len(setup.frames) <= Buffers
    BY <1>2, <1>3, <2>1
  <2> QED
    BY <1>1, <1>2, <1>3, <1>5, <2>2, Zenon DEF NumberOfFrames
<1> QED
  BY <1>4, <1>5

\* Fewer entries than indices leave an index out.
LEMMA IndexLeftOut ==
  ASSUME NEW n \in Nat, n < Buffers, NEW e, \A m \in 1..n : e[m] \in Indices
  PROVE  \E i \in Indices : \A m \in 1..n : e[m] # i
<1> SUFFICES ASSUME \A i \in Indices : \E m \in 1..n : e[m] = i PROVE FALSE
  OBVIOUS
<1> DEFINE g == [i \in Indices |-> CHOOSE m \in 1..n : e[m] = i]
<1>1. g \in [Indices -> 1..n] /\ \A i \in Indices : e[g[i]] = i
  OBVIOUS
<1>2. IsFiniteSet(1..n) /\ Cardinality(1..n) = n
  BY FS_Interval
<1>3. IsFiniteSet(Indices) /\ Cardinality(Indices) = Buffers
  <2>1. Buffers \in Nat \ {0}
    BY BuffersAssumption DEF BuffersAssumption
  <2> QED
    BY <2>1, FS_Interval, 0 \in Int, Buffers - 1 \in Int DEF Indices
<1> HIDE DEF g
<1>4. \E x, y \in Indices : x # y /\ g[x] = g[y]
  BY <1>1, <1>2, <1>3, FS_PigeonHole
<1> QED
  BY <1>1, <1>4

\* BuffersReleased, index by index.
LEMMA InUseByIndex ==
  BuffersReleased <=>
    /\ \A n \in Awaited : idxstack[n].idx \in Indices /\ rxbufstat[idxstack[n].idx] # "empty"
    /\ command # Nothing => command.idx \in Indices /\ rxbufstat[command.idx] # "empty"
    /\ \A i \in Indices : rxbufstat[i] # "empty" =>
         \/ \E n \in Awaited : idxstack[n].idx = i
         \/ command # Nothing /\ command.idx = i
  BY DEF BuffersReleased, InUse, Awaited

LEMMA InUseByIndexNext ==
  BuffersReleased' <=>
    (/\ \A n \in Awaited : idxstack[n].idx \in Indices /\ rxbufstat[idxstack[n].idx] # "empty"
     /\ command # Nothing => command.idx \in Indices /\ rxbufstat[command.idx] # "empty"
     /\ \A i \in Indices : rxbufstat[i] # "empty" =>
          \/ \E n \in Awaited : idxstack[n].idx = i
          \/ command # Nothing /\ command.idx = i)'
  BY DEF BuffersReleased, InUse, Awaited

-----------------------------------------------------------------------------
(* The operations on frames                                                *)

LEMMA TransmitTyped ==
  ASSUME wire \in Seq(Datagram), NEW f \in Datagram, NEW lossy, Transmit(f, lossy)
  PROVE  wire' \in Seq(Datagram)
  BY DEF Transmit

LEMMA RecvTyped ==
  ASSUME wire \in Seq(Datagram), held \in Datagram \cup {NoFrame},
         NEW frame, NEW again, Recv(frame, again)
  PROVE  /\ frame \in Datagram
         /\ wire' \in Seq(Datagram)
         /\ held' \in Datagram \cup {NoFrame}
<1>1. CASE wire # <<>> /\ frame = Head(wire) /\ wire' = Tail(wire)
           /\ held' = IF again THEN frame ELSE NoFrame
  BY <1>1, HeadTailProperties
<1>2. CASE again /\ held # NoFrame /\ frame = held /\ UNCHANGED <<wire, held>>
  BY <1>2
<1> QED
  BY <1>1, <1>2 DEF Recv

\* A frame that nobody waits for, or that another waits for, empties no buffer
\* and fills none that is empty.
LEMMA KeepForOtherFills ==
  ASSUME rxbufstat \in [Indices -> BufferStates], NEW frame \in Datagram, KeepForOther(frame)
  PROVE  /\ rxbufstat' \in [Indices -> BufferStates]
         /\ \A i \in Indices : rxbufstat'[i] = "empty" <=> rxbufstat[i] = "empty"
  BY DEF KeepForOther, Datagram, BufferStates

\* While there is room, an index that is given out is one that nobody uses.
LEMMA GivenIndexEmpty ==
  ASSUME TypeOK, BuffersReleased, command = Nothing, pulled = 0, Len(idxstack) < Buffers,
         NEW i \in Indices, GetsIndex(i)
  PROVE  rxbufstat[i] = "empty"
<1> DEFINE e == [n \in 1..Len(idxstack) |-> idxstack[n].idx]
<1>1. Len(idxstack) \in Nat /\ \A n \in 1..Len(idxstack) : e[n] \in Indices
  <2>1. idxstack \in Seq([idx : Indices, part : Frames])
    BY DEF TypeOK
  <2>2. Len(idxstack) \in Nat /\ \A n \in 1..Len(idxstack) : idxstack[n] \in [idx : Indices, part : Frames]
    BY <2>1, LenProperties, ElementOfSeq
  <2> QED
    BY <2>2
<1> HIDE DEF e
<1>2. PICK j \in Indices : \A n \in 1..Len(idxstack) : e[n] # j
  BY <1>1, IndexLeftOut
<1>3. rxbufstat[j] = "empty"
  BY <1>1, <1>2, InUseByIndex DEF Awaited, e
<1> QED
  BY <1>2, <1>3 DEF GetsIndex

-----------------------------------------------------------------------------
(* The initial states                                                      *)

LEMMA InitIInv == Init => IInv
<1> SUFFICES ASSUME Init PROVE IInv
  OBVIOUS
<1> USE DEF Init, FramesInit
<1>1. TypeOK
  <2>1. setup.frames \in Seq({"LRW", "LRD", "LWR"}) /\ Len(setup.frames) \in Nat
    BY SetupAssumption, LenProperties DEF SetupAssumption
  <2>2. 0 \in Indices
    BY BuffersAssumption DEF BuffersAssumption, Indices
  <2> QED
    BY <2>1, <2>2, BuffersAssumption
    DEF TypeOK, BufferStates, BuffersAssumption, NumberOfFrames
<1>2. Stage /\ CommandTime /\ Apart
  BY DEF Stage, CommandTime, Apart, Awaited
<1>3. BuffersReleased
  BY InUseByIndex DEF Awaited
<1> QED
  BY <1>1, <1>2, <1>3 DEF IInv

-----------------------------------------------------------------------------
(* The send of a cycle                                                     *)

LEMMA StartCyclePreserves ==
  ASSUME IInv, StartCycle
  PROVE  IInv'
<1> USE DEF StartCycle
<1>0. TypeOK /\ Stage /\ Apart /\ BuffersReleased
  BY DEF IInv
<1>1. idxstack = <<>> /\ pulled = 0 /\ NumberOfFrames \in Nat \ {0} /\ Len(idxstack) = 0
  BY <1>0, SetupFacts DEF Stage
<1>2. turn' \in 0..2
  BY <1>0 DEF TypeOK, NextTurn
<1>3. TypeOK'
  BY <1>0, <1>1, <1>2 DEF TypeOK, NumberOfFrames, Frames, receive, frames
<1>4. Stage' /\ CommandTime'
  BY <1>0, <1>1 DEF Stage, CommandTime, NumberOfFrames, receive
<1>5. Apart' /\ BuffersReleased'
  BY <1>0 DEF Apart, Awaited, BuffersReleased, InUse, frames
<1> QED
  BY <1>3, <1>4, <1>5 DEF IInv

LEMMA SendFramePreserves ==
  ASSUME EnoughBuffers, IInv, SendFrame
  PROVE  IInv'
<1> USE DEF SendFrame
<1>0. TypeOK /\ Stage /\ CommandTime /\ Apart /\ BuffersReleased
  BY DEF IInv
<1>1. /\ NumberOfFrames \in Nat \ {0} /\ NumberOfFrames <= Buffers /\ Buffers \in Nat
      /\ number \in Nat /\ number < NumberOfFrames /\ Len(idxstack) = number
      /\ pulled = 0 /\ command = Nothing /\ setup' = setup
  <2>1. NumberOfFrames \in Nat \ {0} /\ NumberOfFrames <= Buffers /\ Buffers \in Nat
    BY <1>0, SetupFacts
  <2>2. number \in Nat
    BY <1>0, <2>1 DEF TypeOK
  <2> QED
    BY <1>0, <2>1, <2>2 DEF Stage, CommandTime
<1> DEFINE frame(i) == [idx |-> i, command |-> setup.frames[number'], part |-> number',
                        dc |-> setup.dc /\ number' = 1, turn |-> turn]
<1>2. PICK i \in Indices :
        /\ GetsIndex(i)
        /\ OutFrame(i, frame(i), setup.lossy)
        /\ idxstack' = Pushed(i, number')
  OBVIOUS
<1>3. rxbufstat[i] = "empty"
  BY <1>0, <1>1, <1>2, GivenIndexEmpty
<1>4. frame(i) \in Datagram
  <2>1. setup.frames[number'] \in {"LRW", "LRD", "LWR"}
    <3>1. setup.frames \in Seq({"LRW", "LRD", "LWR"})
      BY <1>0, SetupFacts
    <3>2. number' \in 1..Len(setup.frames)
      BY <1>1 DEF NumberOfFrames
    <3> QED
      BY <3>1, <3>2, ElementOfSeq
  <2> QED
    BY <1>0, <1>1, <2>1 DEF Datagram, TypeOK
<1> HIDE DEF frame
<1>5. wire' \in Seq(Datagram)
  BY <1>0, <1>2, <1>4, TransmitTyped DEF TypeOK, OutFrame
<1>6. /\ idxstack' = Append(idxstack, [idx |-> i, part |-> number'])
      /\ idxstack' \in Seq([idx : Indices, part : Frames])
      /\ Len(idxstack') = number + 1
      /\ \A n \in 1..number : idxstack'[n] = idxstack[n]
      /\ idxstack'[number + 1].idx = i
  <2> DEFINE entry == [idx |-> i, part |-> number']
  <2>1. idxstack' = Append(idxstack, entry)
    BY <1>1, <1>2 DEF Pushed
  <2>2. idxstack \in Seq([idx : Indices, part : Frames])
    BY <1>0 DEF TypeOK
  <2>3. entry \in [idx : Indices, part : Frames] /\ entry.idx = i
    BY <1>1 DEF Frames
  <2> HIDE DEF entry
  <2> DEFINE pushed == Append(idxstack, entry)
  <2>4. /\ pushed \in Seq([idx : Indices, part : Frames])
        /\ Len(pushed) = Len(idxstack) + 1
        /\ \A n \in 1..Len(idxstack) : pushed[n] = idxstack[n]
        /\ pushed[Len(idxstack) + 1] = entry
    BY <2>2, <2>3, AppendProperties
  <2>5. idxstack' = pushed
    BY <2>1
  <2> HIDE DEF pushed
  <2>6. /\ pushed \in Seq([idx : Indices, part : Frames])
        /\ Len(pushed) = number + 1
        /\ \A n \in 1..number : pushed[n] = idxstack[n]
        /\ pushed[number + 1].idx = i
    BY <1>1, <2>3, <2>4
  <2>7. idxstack' = Append(idxstack, [idx |-> i, part |-> number'])
    BY <2>1 DEF entry
  <2> QED
    BY <2>5, <2>6, <2>7
<1>7. rxbufstat' = [rxbufstat EXCEPT ![i] = "tx"] /\ lastidx' = i /\ held' = held
  BY <1>2 DEF OutFrame
<1>8. TypeOK'
  <2>1. /\ setup' = setup /\ number' = number + 1 /\ pc' \in {"sending", "sent"}
        /\ UNCHANGED <<wkc, pulled, returned, command, turn, question>>
    BY <1>1 DEF receive
  <2>2. rxbufstat' \in [Indices -> BufferStates] /\ lastidx' \in Indices
    BY ONLY <1>0, <1>7, i \in Indices DEF TypeOK, BufferStates
  <2>3. held' \in Datagram \cup {NoFrame}
    BY ONLY <1>0, <1>7 DEF TypeOK
  <2>4. NumberOfFrames' = NumberOfFrames /\ Frames' = Frames
    BY <2>1 DEF NumberOfFrames, Frames
  <2>5. /\ number' \in 0..NumberOfFrames /\ Len(idxstack') <= Buffers
        /\ pulled' \in 0..Len(idxstack')
    BY ONLY <1>1, <1>6, <2>1
  <2> QED
    BY ONLY <1>0, <1>5, <1>6, <2>1, <2>2, <2>3, <2>4, <2>5 DEF TypeOK
<1>9. Stage' /\ CommandTime'
  BY <1>0, <1>1, <1>6 DEF Stage, CommandTime, NumberOfFrames, receive
<1>10. \A n \in 1..number : idxstack[n].idx \in Indices /\ rxbufstat[idxstack[n].idx] # "empty"
  BY <1>0, <1>1, InUseByIndex DEF Awaited
<1>11. Apart'
  BY <1>0, <1>1, <1>3, <1>6, <1>10 DEF Apart, Awaited
<1>12. BuffersReleased'
  <2>1. \A n \in Awaited' : idxstack'[n].idx \in Indices /\ rxbufstat'[idxstack'[n].idx] # "empty"
    BY <1>0, <1>1, <1>6, <1>7, <1>10 DEF Awaited, TypeOK
  <2>2. \A j \in Indices : rxbufstat'[j] # "empty" => \E n \in Awaited' : idxstack'[n].idx = j
    <3> SUFFICES ASSUME NEW j \in Indices, rxbufstat'[j] # "empty"
                 PROVE  \E n \in 1..number + 1 : idxstack'[n].idx = j
      BY <1>1, <1>6 DEF Awaited
    <3>1. CASE j = i
      BY <1>1, <1>6, <3>1
    <3>2. CASE j # i
      <4>1. rxbufstat[j] # "empty"
        BY <1>0, <1>7, <3>2 DEF TypeOK
      <4>2. PICK n \in 1..number : idxstack[n].idx = j
        BY <1>0, <1>1, <4>1, InUseByIndex DEF Awaited
      <4> QED
        BY <1>1, <1>6, <4>2
    <3> QED
      BY <3>1, <3>2
  <2> QED
    BY <1>1, <2>1, <2>2, InUseByIndexNext
<1> QED
  BY <1>8, <1>9, <1>11, <1>12 DEF IInv

-----------------------------------------------------------------------------
(* Who waits for which buffer                                              *)

\* Nobody begins or ends to wait, and the same buffers are empty.
LEMMA SameWaiters ==
  ASSUME Apart, BuffersReleased, UNCHANGED <<idxstack, pulled, command>>,
         \A i \in Indices : rxbufstat'[i] = "empty" <=> rxbufstat[i] = "empty"
  PROVE  Apart' /\ BuffersReleased'
  BY DEF Apart, Awaited, BuffersReleased, InUse

\* The next entry of the stack is done with.
LEMMA EntryDone ==
  ASSUME TypeOK, Apart, BuffersReleased, Awaiting, Release(Entry.idx),
         pulled' = pulled + 1, idxstack' = idxstack, command = Nothing, command' = Nothing
  PROVE  /\ pulled' \in 0..Len(idxstack)
         /\ rxbufstat' \in [Indices -> BufferStates]
         /\ Apart' /\ BuffersReleased'
<1>1. /\ pulled \in Nat /\ Len(idxstack) \in Nat /\ pulled + 1 \in Awaited
      /\ rxbufstat \in [Indices -> BufferStates]
  <2>1. Len(idxstack) \in Nat
    BY LenProperties DEF TypeOK
  <2> QED
    BY <2>1 DEF TypeOK, Awaiting, Awaited
<1>2. Awaited' \subseteq Awaited /\ \A n \in Awaited : n \in Awaited' <=> n # pulled + 1
  BY <1>1 DEF Awaited
<1>3. /\ rxbufstat' \in [Indices -> BufferStates]
      /\ \A j \in Indices :
           rxbufstat'[j] = IF j = idxstack[pulled + 1].idx THEN "empty" ELSE rxbufstat[j]
  BY <1>1 DEF Release, Entry, BufferStates
<1>4. \A m, n \in Awaited : idxstack[m].idx = idxstack[n].idx => m = n
  BY DEF Apart
<1>5. Apart'
  BY <1>2, <1>4 DEF Apart
<1>6. BuffersReleased'
  <2>1. \A n \in Awaited' : idxstack[n].idx \in Indices /\ rxbufstat'[idxstack[n].idx] # "empty"
    BY <1>1, <1>2, <1>3, <1>4, InUseByIndex
  <2>2. \A j \in Indices : rxbufstat'[j] # "empty" => \E n \in Awaited' : idxstack[n].idx = j
    BY <1>1, <1>2, <1>3, InUseByIndex
  <2> QED
    BY <2>1, <2>2, InUseByIndexNext
<1> QED
  BY <1>1, <1>3, <1>5, <1>6 DEF Awaiting

-----------------------------------------------------------------------------
(* The receive of a cycle                                                  *)

LEMMA StartReceivePreserves ==
  ASSUME IInv, StartReceive
  PROVE  IInv'
<1> USE DEF StartReceive
<1>0. TypeOK /\ Stage /\ CommandTime /\ Apart /\ BuffersReleased
  BY DEF IInv
<1>1. NumberOfFrames \in Nat /\ pulled = 0
  BY <1>0, SetupFacts DEF Stage
<1>2. TypeOK'
  BY <1>0, <1>1 DEF TypeOK, NumberOfFrames, Frames, frames, io
<1>3. Stage' /\ CommandTime'
  BY <1>0, <1>1 DEF Stage, CommandTime, NumberOfFrames, io
<1>4. Apart' /\ BuffersReleased'
  BY <1>0, SameWaiters DEF frames, io
<1> QED
  BY <1>2, <1>3, <1>4 DEF IInv

\* A frame adds some number to the work counter.
LEMMA CounterGrows ==
  ASSUME wkc \in Nat, NEW frame, FrameFound(frame)
  PROVE  wkc' \in Nat
<1>1. FoundCounter(frame) \subseteq Nat
  <2>1. WorkCounter(frame.command) \in Nat
    BY DEF WorkCounter
  <2>2. 0..MaxCounter \subseteq Nat
    <3>1. MaxCounter \in Nat
      BY SetupAssumption, Zenon DEF SetupAssumption
    <3> QED
      BY <3>1
  <2> QED
    BY <2>1, <2>2, Zenon DEF FoundCounter
<1>2. CASE Copy(frame)
  <2>1. PICK counter \in FoundCounter(frame) : wkc' = wkc + Counts(frame.command, counter)
    BY <1>2 DEF Copy
  <2> QED
    BY <1>1, <2>1 DEF Counts
<1>3. CASE Ignore(frame)
  BY <1>3 DEF Ignore, receive
<1> QED
  BY <1>2, <1>3 DEF FrameFound

LEMMA ReceiveFramePreserves ==
  ASSUME IInv, ReceiveFrame
  PROVE  IInv'
<1>0. TypeOK /\ Stage /\ CommandTime /\ Apart /\ BuffersReleased
  BY DEF IInv
<1>1. /\ NumberOfFrames \in Nat /\ pulled \in Nat /\ wkc \in Nat
      /\ pc = "receiving" /\ command = Nothing /\ Len(idxstack) = NumberOfFrames
      /\ pulled < Len(idxstack) /\ number = NumberOfFrames
  <2>1. NumberOfFrames \in Nat
    BY <1>0, SetupFacts
  <2> QED
    BY <1>0, <2>1 DEF TypeOK, Stage, CommandTime, ReceiveFrame, Awaiting
<1>2. /\ setup' = setup /\ pc' = pc /\ number' = number /\ idxstack' = idxstack
      /\ returned' = returned /\ command' = command /\ turn' = turn /\ question' = question
      /\ lastidx' = lastidx /\ Awaiting
  BY DEF ReceiveFrame, FindKept, ReadOwn, ReadOther
<1> DEFINE Found(frame) == FrameFound(frame) /\ Release(Entry.idx)
           Keeps(frame) == KeepForOther(frame) /\ FrameAwaited
           Here == UNCHANGED <<wire, held>>
           Reads(frame) == Recv(frame, setup.again)
<1>3. \/ \E frame : Found(frame) /\ (Here \/ Reads(frame))
      \/ \E frame : Keeps(frame) /\ Reads(frame)
  BY Zenon DEF ReceiveFrame, FindKept, ReadOwn, ReadOther
<1>4. ASSUME NEW frame, Here \/ Reads(frame)
      PROVE  wire' \in Seq(Datagram) /\ held' \in Datagram \cup {NoFrame}
             /\ (Reads(frame) => frame \in Datagram)
  BY <1>0, <1>4, RecvTyped DEF TypeOK
<1>5. CASE \E frame : Found(frame) /\ (Here \/ Reads(frame))
  <2>1. PICK frame : Found(frame) /\ (Here \/ Reads(frame))
    BY <1>5
  <2>2. /\ pulled' \in 0..Len(idxstack)
        /\ rxbufstat' \in [Indices -> BufferStates]
        /\ Apart' /\ BuffersReleased' /\ pulled' = pulled + 1
    BY <1>0, <1>1, <1>2, <2>1, EntryDone DEF FrameFound
  <2>3. wkc' \in Nat
    BY <1>1, <2>1, CounterGrows
  <2>4. TypeOK'
    BY <1>0, <1>1, <1>2, <1>4, <2>1, <2>2, <2>3 DEF TypeOK, NumberOfFrames, Frames
  <2>5. Stage' /\ CommandTime'
    BY <1>0, <1>1, <1>2 DEF Stage, CommandTime, NumberOfFrames
  <2> QED
    BY <2>2, <2>4, <2>5 DEF IInv
<1>6. CASE \E frame : Keeps(frame) /\ Reads(frame)
  <2>1. PICK frame : Keeps(frame) /\ Reads(frame)
    BY <1>6
  <2>2. /\ rxbufstat' \in [Indices -> BufferStates]
        /\ \A i \in Indices : rxbufstat'[i] = "empty" <=> rxbufstat[i] = "empty"
    <3>1. frame \in Datagram /\ rxbufstat \in [Indices -> BufferStates]
      BY <1>0, <1>4, <2>1 DEF TypeOK
    <3> QED
      BY <2>1, <3>1, KeepForOtherFills
  <2>3. wkc' = wkc /\ pulled' = pulled
    BY <2>1 DEF FrameAwaited, receive
  <2>4. TypeOK'
    BY <1>0, <1>1, <1>2, <1>4, <2>1, <2>2, <2>3 DEF TypeOK, NumberOfFrames, Frames
  <2>5. Stage' /\ CommandTime'
    BY <1>0, <1>1, <1>2, <2>3 DEF Stage, CommandTime, NumberOfFrames
  <2>6. Apart' /\ BuffersReleased'
    BY <1>0, <1>2, <2>2, <2>3, SameWaiters
  <2> QED
    BY <2>4, <2>5, <2>6 DEF IInv
<1> QED
  BY <1>3, <1>5, <1>6

LEMMA ReceiveTimesOutPreserves ==
  ASSUME IInv, ReceiveTimesOut
  PROVE  IInv'
<1>0. TypeOK /\ Stage /\ CommandTime /\ Apart /\ BuffersReleased
  BY DEF IInv
<1>1. /\ NumberOfFrames \in Nat /\ pulled \in Nat /\ wkc \in Nat
      /\ pc = "receiving" /\ command = Nothing /\ Len(idxstack) = NumberOfFrames
      /\ number = NumberOfFrames
  <2>1. NumberOfFrames \in Nat
    BY <1>0, SetupFacts
  <2> QED
    BY <1>0, <2>1 DEF TypeOK, Stage, CommandTime, ReceiveTimesOut, Awaiting
<1>2. /\ Awaiting /\ Release(Entry.idx) /\ pulled' = pulled + 1
      /\ setup' = setup /\ pc' = pc /\ number' = number /\ idxstack' = idxstack
      /\ returned' = returned /\ command' = command /\ turn' = turn /\ question' = question
      /\ lastidx' = lastidx /\ wire' = wire /\ held' = held /\ wkc' = wkc
  BY DEF ReceiveTimesOut, GiveUp, receive
<1>3. /\ pulled' \in 0..Len(idxstack)
      /\ rxbufstat' \in [Indices -> BufferStates]
      /\ Apart' /\ BuffersReleased'
  BY <1>0, <1>1, <1>2, EntryDone
<1>4. TypeOK'
  BY <1>0, <1>1, <1>2, <1>3 DEF TypeOK, NumberOfFrames, Frames
<1>5. Stage' /\ CommandTime'
  BY <1>0, <1>1, <1>2 DEF Stage, CommandTime, NumberOfFrames
<1> QED
  BY <1>3, <1>4, <1>5 DEF IInv

LEMMA EndReceivePreserves ==
  ASSUME IInv, EndReceive
  PROVE  IInv'
<1> USE DEF EndReceive, ClearIndex
<1>0. TypeOK /\ Stage /\ CommandTime /\ Apart /\ BuffersReleased
  BY DEF IInv
<1>1. NumberOfFrames \in Nat /\ command = Nothing /\ command' = Nothing /\ Buffers \in Nat
  BY <1>0, SetupFacts DEF CommandTime
<1>2. <<>> \in Seq([idx : Indices, part : Frames]) /\ Len(<<>>) = 0
  BY EmptySeq
<1>3. TypeOK'
  BY <1>0, <1>1, <1>2 DEF TypeOK, NumberOfFrames, Frames, frames
<1>4. Stage' /\ CommandTime'
  BY <1>1 DEF Stage, CommandTime
<1>5. Awaited = {} /\ Awaited' = {}
  <2>1. Len(idxstack) \in Nat
    BY <1>0, LenProperties DEF TypeOK
  <2> QED
    BY <1>2, <2>1 DEF Awaited
<1>6. Apart'
  BY <1>1, <1>5 DEF Apart
<1>7. BuffersReleased'
  BY <1>0, <1>1, <1>5, InUseByIndex, InUseByIndexNext DEF frames
<1> QED
  BY <1>3, <1>4, <1>6, <1>7 DEF IInv

-----------------------------------------------------------------------------
(* Commands                                                                *)

\* The command is done with.
LEMMA CommandDone ==
  ASSUME TypeOK, Apart, BuffersReleased, command # Nothing, Release(command.idx),
         pulled' = pulled, idxstack' = idxstack, command' = Nothing
  PROVE  /\ rxbufstat' \in [Indices -> BufferStates]
         /\ Apart' /\ BuffersReleased'
<1>1. /\ rxbufstat' \in [Indices -> BufferStates]
      /\ \A j \in Indices : rxbufstat'[j] = IF j = command.idx THEN "empty" ELSE rxbufstat[j]
  BY DEF TypeOK, Release, BufferStates
<1>2. Awaited' = Awaited
  BY DEF Awaited
<1>3. Apart'
  BY <1>2 DEF Apart
<1>4. BuffersReleased'
  <2>1. \A n \in Awaited : idxstack[n].idx \in Indices /\ rxbufstat'[idxstack[n].idx] # "empty"
    BY <1>1, InUseByIndex DEF Apart
  <2>2. \A j \in Indices : rxbufstat'[j] # "empty" => \E n \in Awaited : idxstack[n].idx = j
    BY <1>1, InUseByIndex
  <2> QED
    BY <1>2, <2>1, <2>2, InUseByIndexNext
<1> QED
  BY <1>1, <1>3, <1>4

LEMMA StartCommandPreserves ==
  ASSUME EnoughBuffers, IInv, StartCommand
  PROVE  IInv'
<1> USE DEF StartCommand
<1>0. TypeOK /\ Stage /\ CommandTime /\ Apart /\ BuffersReleased
  BY DEF IInv
<1>1. /\ command = Nothing /\ pulled = 0 /\ NumberOfFrames \in Nat /\ Len(idxstack) \in Nat
      /\ Len(idxstack) < Buffers
  <2>1. /\ NumberOfFrames \in Nat /\ Buffers \in Nat \ {0}
        /\ (setup.commands = "anytime" => NumberOfFrames < Buffers)
    BY <1>0, SetupFacts
  <2>2. CASE pc = "idle"
    <3>1. idxstack = <<>> /\ Len(<<>>) = 0 /\ pulled = 0
      BY <1>0, <2>2 DEF Stage
    <3>2. Len(idxstack) = 0
      BY ONLY <3>1
    <3>3. command = Nothing
      BY Zenon DEF MayCommand
    <3>4. 0 \in Nat /\ 0 < Buffers
      BY ONLY BuffersAssumption DEF BuffersAssumption
    <3> QED
      BY ONLY <2>1, <3>1, <3>2, <3>3, <3>4
  <2>3. CASE pc = "sent" /\ setup.commands = "anytime"
    BY <1>0, <2>1, <2>3 DEF Stage, MayCommand
  <2>4. pc = "idle" \/ (pc = "sent" /\ setup.commands = "anytime")
    BY Zenon DEF MayCommand
  <2> QED
    BY <2>2, <2>3, <2>4
<1>2. PICK i \in Indices :
        /\ GetsIndex(i)
        /\ OutFrame(i, CommandFrame(i, question', turn'), setup.lossy)
        /\ command' = [idx |-> i, tries |-> 1]
  OBVIOUS
<1>3. rxbufstat[i] = "empty"
  BY <1>0, <1>1, <1>2, GivenIndexEmpty
<1>4. question' \in 0..2 /\ turn' \in 0..2 /\ CommandFrame(i, question', turn') \in Datagram
  <2>1. question' \in 0..2 /\ turn' \in 0..2
    BY <1>0 DEF TypeOK, NextTurn
  <2> QED
    BY <2>1 DEF CommandFrame, Datagram
<1>5. wire' \in Seq(Datagram)
  BY <1>0, <1>2, <1>4, TransmitTyped DEF TypeOK, OutFrame
<1>6. rxbufstat' = [rxbufstat EXCEPT ![i] = "tx"] /\ lastidx' = i /\ held' = held
  BY <1>2 DEF OutFrame
<1>7. command' \in [idx : Indices, tries : 1..MaxTries] /\ command'.idx = i /\ command' # Nothing
  <2>1. MaxTries \in Nat \ {0} /\ Nothing \notin [idx : Indices, tries : 1..MaxTries]
    BY SetupAssumption DEF SetupAssumption
  <2>2. command' \in [idx : Indices, tries : 1..MaxTries] /\ command'.idx = i
    BY <1>2, <2>1
  <2> QED
    BY <2>1, <2>2, Zenon
<1>8. TypeOK'
  BY <1>0, <1>1, <1>4, <1>5, <1>6, <1>7 DEF TypeOK, NumberOfFrames, Frames, receive, BufferStates
<1>9. Stage' /\ CommandTime'
  BY <1>0, <1>1 DEF Stage, CommandTime, NumberOfFrames, receive, MayCommand
<1>10. Awaited' = Awaited
  BY DEF Awaited
<1>11. Apart'
  BY <1>0, <1>3, <1>7, <1>10, InUseByIndex DEF Apart
<1>12. BuffersReleased'
  <2>1. \A n \in Awaited : idxstack[n].idx \in Indices /\ rxbufstat'[idxstack[n].idx] # "empty"
    BY <1>0, <1>3, <1>6, InUseByIndex DEF TypeOK
  <2>2. rxbufstat'[i] # "empty"
    BY <1>0, <1>6 DEF TypeOK
  <2>3. \A j \in Indices : rxbufstat'[j] # "empty" => j = i \/ rxbufstat[j] # "empty"
    BY <1>0, <1>6 DEF TypeOK
  <2> QED
    BY <1>0, <1>1, <1>7, <1>10, <2>1, <2>2, <2>3, InUseByIndex, InUseByIndexNext
<1> QED
  BY <1>8, <1>9, <1>11, <1>12 DEF IInv

LEMMA ReceiveAnswerPreserves ==
  ASSUME IInv, ReceiveAnswer
  PROVE  IInv'
<1>0. TypeOK /\ Stage /\ CommandTime /\ Apart /\ BuffersReleased
  BY DEF IInv
<1>1. /\ setup' = setup /\ pc' = pc /\ number' = number /\ idxstack' = idxstack /\ wkc' = wkc
      /\ returned' = returned /\ turn' = turn /\ question' = question /\ pulled' = pulled
      /\ lastidx' = lastidx /\ command # Nothing
  BY DEF ReceiveAnswer, FindKept, ReadOwn, ReadOther, receive, io
<1> DEFINE Found(frame) == CommandFound(frame) /\ Release(command.idx)
           Keeps(frame) == KeepForOther(frame) /\ CommandAwaited
           Here == UNCHANGED <<wire, held>>
           Reads(frame) == Recv(frame, setup.again)
<1>2. \/ \E frame : Found(frame) /\ (Here \/ Reads(frame))
      \/ \E frame : Keeps(frame) /\ Reads(frame)
  BY Zenon DEF ReceiveAnswer, FindKept, ReadOwn, ReadOther
<1>3. ASSUME NEW frame, Here \/ Reads(frame)
      PROVE  wire' \in Seq(Datagram) /\ held' \in Datagram \cup {NoFrame}
             /\ (Reads(frame) => frame \in Datagram)
  BY <1>0, <1>3, RecvTyped DEF TypeOK
<1>4. CASE \E frame : Found(frame) /\ (Here \/ Reads(frame))
  <2>1. PICK frame : Found(frame) /\ (Here \/ Reads(frame))
    BY <1>4
  <2>2. command' = Nothing /\ rxbufstat' \in [Indices -> BufferStates] /\ Apart' /\ BuffersReleased'
    BY <1>0, <1>1, <2>1, CommandDone DEF CommandFound
  <2>3. TypeOK'
    BY <1>0, <1>1, <1>3, <2>1, <2>2 DEF TypeOK, NumberOfFrames, Frames
  <2>4. Stage' /\ CommandTime'
    BY <1>0, <1>1, <2>2 DEF Stage, CommandTime, NumberOfFrames
  <2> QED
    BY <2>2, <2>3, <2>4 DEF IInv
<1>5. CASE \E frame : Keeps(frame) /\ Reads(frame)
  <2>1. PICK frame : Keeps(frame) /\ Reads(frame)
    BY <1>5
  <2>2. /\ rxbufstat' \in [Indices -> BufferStates]
        /\ \A i \in Indices : rxbufstat'[i] = "empty" <=> rxbufstat[i] = "empty"
    <3>1. frame \in Datagram /\ rxbufstat \in [Indices -> BufferStates]
      BY <1>0, <1>3, <2>1 DEF TypeOK
    <3> QED
      BY <2>1, <3>1, KeepForOtherFills
  <2>3. command' = command
    BY <2>1 DEF CommandAwaited
  <2>4. TypeOK'
    BY <1>0, <1>1, <1>3, <2>1, <2>2, <2>3 DEF TypeOK, NumberOfFrames, Frames
  <2>5. Stage' /\ CommandTime'
    BY <1>0, <1>1, <2>3 DEF Stage, CommandTime, NumberOfFrames
  <2>6. Apart' /\ BuffersReleased'
    BY <1>0, <1>1, <2>2, <2>3, SameWaiters
  <2> QED
    BY <2>4, <2>5, <2>6 DEF IInv
<1> QED
  BY <1>2, <1>4, <1>5

LEMMA TryAgainPreserves ==
  ASSUME IInv, TryAgain
  PROVE  IInv'
<1> USE DEF TryAgain
<1>0. TypeOK /\ Stage /\ CommandTime /\ Apart /\ BuffersReleased
  BY DEF IInv
<1>1. /\ command \in [idx : Indices, tries : 1..MaxTries]
      /\ command' \in [idx : Indices, tries : 1..MaxTries]
      /\ command' # Nothing /\ command'.idx = command.idx
  <2>1. command \in [idx : Indices, tries : 1..MaxTries] /\ MaxTries \in Nat
    BY <1>0, SetupAssumption DEF TypeOK, SetupAssumption
  <2>2. command' \in [idx : Indices, tries : 1..MaxTries] /\ command'.idx = command.idx
    BY <2>1
  <2> QED
    BY <2>1, <2>2, SetupAssumption DEF SetupAssumption
<1>2. /\ rxbufstat' \in [Indices -> BufferStates]
      /\ \A j \in Indices : rxbufstat'[j] = "empty" <=> rxbufstat[j] = "empty"
  <2>1. rxbufstat[command.idx] # "empty"
    BY <1>0, InUseByIndex
  <2> QED
    BY <1>0, <1>1, <2>1 DEF TypeOK, BufferStates
<1>3. wire' \in Seq(Datagram)
  <2>1. CommandFrame(command.idx, question, turn) \in Datagram
    BY <1>0, <1>1 DEF CommandFrame, Datagram, TypeOK
  <2> QED
    BY <1>0, <2>1, TransmitTyped DEF TypeOK
<1>4. TypeOK'
  BY <1>0, <1>1, <1>2, <1>3 DEF TypeOK, NumberOfFrames, Frames, receive, io
<1>5. Stage' /\ CommandTime'
  BY <1>0, <1>1 DEF Stage, CommandTime, NumberOfFrames, receive, io
<1>6. Awaited' = Awaited /\ idxstack' = idxstack
  BY DEF Awaited, io
<1>7. Apart'
  BY <1>0, <1>1, <1>6 DEF Apart
<1>8. BuffersReleased'
  BY <1>0, <1>1, <1>2, <1>6, InUseByIndex, InUseByIndexNext
<1> QED
  BY <1>4, <1>5, <1>7, <1>8 DEF IInv

LEMMA CommandFailsPreserves ==
  ASSUME IInv, CommandFails
  PROVE  IInv'
<1> USE DEF CommandFails
<1>0. TypeOK /\ Stage /\ CommandTime /\ Apart /\ BuffersReleased
  BY DEF IInv
<1>1. rxbufstat' \in [Indices -> BufferStates] /\ Apart' /\ BuffersReleased'
  BY <1>0, CommandDone DEF io
<1>2. TypeOK'
  BY <1>0, <1>1 DEF TypeOK, NumberOfFrames, Frames, receive, io
<1>3. Stage' /\ CommandTime'
  BY <1>0 DEF Stage, CommandTime, NumberOfFrames, receive, io
<1> QED
  BY <1>1, <1>2, <1>3 DEF IInv

LEMMA VanishPreserves ==
  ASSUME IInv, Vanish
  PROVE  IInv'
<1> USE DEF Vanish
<1>0. TypeOK /\ Stage /\ CommandTime /\ Apart /\ BuffersReleased
  BY DEF IInv
<1>1. wire' \in Seq(Datagram)
  BY <1>0, HeadTailProperties DEF TypeOK
<1>2. TypeOK'
  BY <1>0, <1>1 DEF TypeOK, NumberOfFrames, Frames, receive, io
<1>3. Stage' /\ CommandTime'
  BY <1>0 DEF Stage, CommandTime, NumberOfFrames, receive, io
<1>4. Apart' /\ BuffersReleased'
  BY <1>0, SameWaiters DEF io
<1> QED
  BY <1>2, <1>3, <1>4 DEF IInv

-----------------------------------------------------------------------------
(* The results                                                             *)

LEMMA NextPreserves ==
  ASSUME EnoughBuffers, IInv, [Next]_vars
  PROVE  IInv'
<1>1. CASE Next
  BY <1>1, StartCyclePreserves, SendFramePreserves, StartReceivePreserves, ReceiveFramePreserves,
     ReceiveTimesOutPreserves, EndReceivePreserves, StartCommandPreserves, ReceiveAnswerPreserves,
     TryAgainPreserves, CommandFailsPreserves, VanishPreserves DEF Next, Master, User
<1>2. CASE UNCHANGED vars
  <2> USE <1>2 DEF vars, frames, receive, io, IInv
  <2>1. TypeOK'
    BY DEF TypeOK, NumberOfFrames, Frames
  <2>2. Stage' /\ CommandTime'
    BY DEF Stage, CommandTime, NumberOfFrames
  <2>3. Apart' /\ BuffersReleased'
    BY DEF Apart, Awaited, BuffersReleased, InUse
  <2> QED
    BY <2>1, <2>2, <2>3
<1> QED
  BY <1>1, <1>2

\* With enough buffers the state keeps its types: the stack never grows beyond its
\* array (ecx_pushindex), and never holds a place beyond the frames of the group.
THEOREM CycleTypes ==
  ASSUME EnoughBuffers
  PROVE  Spec => []TypeOK
<1>1. IInv => TypeOK
  BY DEF IInv
<1> QED
  BY <1>1, InitIInv, NextPreserves, PTL DEF Spec

\* With enough buffers no buffer is given to two frames, or lost, whatever gets
\* lost, comes late or is read twice (ecx_getindex, ecx_setbufstat): a buffer is
\* in use exactly as long as its entry of the stack, or a command, waits.
THEOREM EveryBufferReleased ==
  ASSUME EnoughBuffers
  PROVE  Spec => []BuffersReleased
<1>1. IInv => BuffersReleased
  BY DEF IInv
<1> QED
  BY <1>1, InitIInv, NextPreserves, PTL DEF Spec

-----------------------------------------------------------------------------
(* What the process data cycle and the commands receive                    *)

\* The limits of the master.  Nothing in the code looks after them: the counter
\* of a group whose clock frame is lost is read in the wrong place; an index
\* comes round again after as many frames as there are buffers, and a frame that is
\* late or read again must be gone by then, so there are no commands while frames
\* are under way; an interface that returns a frame again must not lose any.
\* Expected is what groups of these two shapes count.
WithinLimits ==
  /\ EnoughBuffers
  /\ \A s \in Setups :
       /\ (\A f \in 1..Len(s.frames) : s.frames[f] = "LRW") \/ s.frames = <<"LRD", "LWR">>
       /\ s.dc /\ Len(s.frames) > 1 => ~s.lossy /\ ~s.late
       /\ s.late \/ s.again => s.commands # "anytime" /\ 2 * Len(s.frames) <= Buffers
       /\ s.again => ~s.lossy /\ ~s.late

-----------------------------------------------------------------------------
(* The inductive invariant                                                 *)

\* What was sent for the n-th entry of the stack.
Sent(n) == [idx |-> idxstack[n].idx, command |-> setup.frames[n], part |-> n,
            dc |-> setup.dc /\ n = 1, turn |-> turn]

\* The frame is what was sent, if someone waits for its index.
Matches(frame) ==
  /\ \A n \in Awaited : idxstack[n].idx = frame.idx => frame = Sent(n)
  /\ command # Nothing /\ command.idx = frame.idx =>
       frame = CommandFrame(frame.idx, question, turn)

\* The frames that may still be received.
Around == {wire[n] : n \in 1..Len(wire)} \cup IF held = NoFrame THEN {} ELSE {held}

\* Whatever can be received, or has been kept, is what was sent.
Matched ==
  /\ \A frame \in Around : Matches(frame)
  /\ \A i \in Indices : rxbufstat[i] = "rcvd" => rxbuf[i].idx = i /\ Matches(rxbuf[i])

\* If no frame is late, each in the network is waited for, and is alone with its
\* index.
Punctual ==
  ~setup.late =>
    /\ \A n \in 1..Len(wire) : rxbufstat[wire[n].idx] = "tx"
    /\ \A m, n \in 1..Len(wire) : wire[m].idx = wire[n].idx => m = n

\* A frame that may be returned again was received.
Seen == held # NoFrame => setup.again /\ rxbufstat[held.idx] # "tx"

\* How many indices ago i was given out.
Back(i) == IF i <= lastidx THEN lastidx - i ELSE lastidx - i + Buffers

\* How many indices a cycle has given out, a command between cycles at most; and
\* the cycle, or the command, before.
Given == IF pc = "idle" THEN NumberOfFrames ELSE number
Older(frame) == IF frame.turn = turn THEN 0 ELSE NumberOfFrames

\* With frames that are late or read again, the indices of this cycle or command
\* and of the one before are all different.
Behind ==
  setup.late \/ setup.again =>
    /\ \A n \in 1..Len(idxstack) : Back(idxstack[n].idx) < number
    /\ command # Nothing => command.idx = lastidx
    /\ \A frame \in Around : Back(frame.idx) < Given + Older(frame)

\* In a cycle that is not spoilt each frame is on its way or was received; so is a
\* command in a reliable network.
Arrives ==
  /\ ~spoilt => \A n \in Awaited : rxbufstat[idxstack[n].idx] = "tx" =>
                  \E m \in 1..Len(wire) : wire[m].idx = idxstack[n].idx
  /\ ~setup.lossy /\ ~setup.late /\ command # Nothing /\ rxbufstat[command.idx] = "tx" =>
       \E m \in 1..Len(wire) : wire[m].idx = command.idx

Reliable == ~setup.lossy /\ ~setup.late => ~spoilt

\* Once something of this cycle or command was received, nothing older is returned
\* again.
Recent ==
  /\ setup.again /\ held # NoFrame
  /\ (pc = "idle" /\ command = Nothing) \/ pulled > 0 \/ \E i \in Indices : rxbufstat[i] = "rcvd"
  => held.turn = turn

\* The counter of the first p frames, if none is lost.
Full(p) == IF setup.frames[1] = "LRW" THEN 3 * p ELSE IF p < 2 THEN p ELSE 3

CopiedOut(f) == setup.frames[f] # "LWR" => inputs[f] = [part |-> f, turn |-> turn]

\* The counter is as full as the inputs are fresh.
Counted ==
  pc = "receiving" =>
    /\ pulled = 0 => first = setup.dc
    /\ first => setup.dc
    /\ ~spoilt /\ pulled > 0 => ~first /\ valid_wkc /\ wkc = Full(pulled)
    /\ wkc <= Full(pulled)
    /\ wkc = Full(pulled) => \A f \in 1..pulled : CopiedOut(f)

Data ==
  /\ rxbuf \in [Indices -> Datagram \cup {NoFrame}]
  /\ inputs \in [Frames -> [part : Nat, turn : 0..2]]
  /\ first \in BOOLEAN /\ valid_wkc \in BOOLEAN /\ spoilt \in BOOLEAN
  /\ \A n \in 1..Len(idxstack) : idxstack[n].part = n
  /\ returned # Nothing => pc = "idle"

Fresh ==
  /\ IInv /\ Data
  /\ Matched /\ Punctual /\ Seen /\ Behind /\ Arrives /\ Reliable /\ Recent /\ Counted
  /\ FullCounterMeansFresh /\ LossEndsWithCycle /\ AnswersItsQuestion

-----------------------------------------------------------------------------
(* The data                                                                *)

LEMMA Limits ==
  ASSUME WithinLimits, TypeOK
  PROVE  /\ NumberOfFrames \in Nat \ {0} /\ Buffers \in Nat \ {0} /\ NumberOfFrames <= Buffers
         /\ (\A f \in Frames : setup.frames[f] = "LRW") \/ setup.frames = <<"LRD", "LWR">>
         /\ setup.dc /\ NumberOfFrames > 1 => ~setup.lossy /\ ~setup.late
         /\ setup.late \/ setup.again => setup.commands # "anytime" /\ 2 * NumberOfFrames <= Buffers
         /\ setup.again => ~setup.lossy /\ ~setup.late
<1>1. setup \in Setups
  BY DEF TypeOK
<1>2. EnoughBuffers
  BY DEF WithinLimits
<1> QED
  BY <1>1, <1>2, SetupFacts DEF WithinLimits, NumberOfFrames, Frames

LEMMA ExpectedIsNumber == TypeOK => Expected \in Nat \ {0} /\ Expected # Nothing
<1> SUFFICES ASSUME TypeOK PROVE Expected \in Nat \ {0} /\ Expected # Nothing
  OBVIOUS
<1>1. Nothing \notin Int
  BY SetupAssumption DEF SetupAssumption
<1>2. Expected \in Nat \ {0}
  <2>1. NumberOfFrames \in Nat \ {0}
    BY SetupFacts
  <2> QED
    BY <2>1 DEF Expected
<1> QED
  BY <1>1, <1>2

\* What a frame adds to the counter whose slaves all took part.
Increment(name) == Counts(name, WorkCounter(name))

LEMMA FullGrows ==
  ASSUME WithinLimits, TypeOK, NEW p \in Nat, p < NumberOfFrames
  PROVE  /\ setup.frames[p + 1] \in {"LRW", "LRD", "LWR"}
         /\ Full(p) \in Nat /\ Increment(setup.frames[p + 1]) \in Nat \ {0}
         /\ Full(p + 1) = Full(p) + Increment(setup.frames[p + 1])
<1>1. p + 1 \in Frames /\ 1 \in Frames
  BY Limits DEF Frames
<1>2. CASE \A f \in Frames : setup.frames[f] = "LRW"
  BY <1>1, <1>2 DEF Full, Increment, Counts, WorkCounter
<1>3. CASE setup.frames = <<"LRD", "LWR">>
  <2>1. p = 0 \/ p = 1
    BY <1>3 DEF NumberOfFrames
  <2>2. setup.frames[1] = "LRD" /\ setup.frames[2] = "LWR"
    BY <1>3
  <2> QED
    BY <2>1, <2>2 DEF Full, Increment, Counts, WorkCounter
<1> QED
  BY <1>2, <1>3, Limits

LEMMA FullIsExpected ==
  ASSUME WithinLimits, TypeOK
  PROVE  Full(NumberOfFrames) = Expected
<1>1. 1 \in Frames
  BY Limits DEF Frames
<1>2. CASE \A f \in Frames : setup.frames[f] = "LRW"
  BY <1>1, <1>2 DEF Full, Expected
<1>3. CASE setup.frames = <<"LRD", "LWR">>
  BY <1>3 DEF Full, Expected, NumberOfFrames
<1> QED
  BY <1>2, <1>3, Limits

LEMMA AroundTyped ==
  ASSUME TypeOK
  PROVE  /\ Len(wire) \in Nat /\ \A n \in 1..Len(wire) : wire[n] \in Datagram
         /\ \A frame \in Around : frame \in Datagram
<1>1. wire \in Seq(Datagram) /\ held \in Datagram \cup {NoFrame}
  BY DEF TypeOK
<1>2. Len(wire) \in Nat /\ \A n \in 1..Len(wire) : wire[n] \in Datagram
  BY <1>1, LenProperties, ElementOfSeq
<1> QED
  BY <1>1, <1>2 DEF Around

LEMMA StackTyped ==
  ASSUME TypeOK
  PROVE  /\ Len(idxstack) \in Nat /\ pulled \in 0..Len(idxstack)
         /\ \A n \in 1..Len(idxstack) : idxstack[n] \in [idx : Indices, part : Frames]
<1>1. idxstack \in Seq([idx : Indices, part : Frames]) /\ pulled \in 0..Len(idxstack)
  BY DEF TypeOK
<1> QED
  BY <1>1, LenProperties, ElementOfSeq

\* The conjuncts of the invariant that speak of the frames: they are kept as long
\* as nobody waits for something new.
WaitsOn ==
  /\ \A n \in Awaited' : n \in Awaited /\ idxstack'[n] = idxstack[n]
                         /\ setup' = setup /\ turn' = turn
  /\ command' # Nothing => /\ command # Nothing /\ command'.idx = command.idx
                           /\ question' = question /\ turn' = turn

LEMMA MatchedKept ==
  ASSUME Matched, WaitsOn, Around' \subseteq Around,
         \A i \in Indices : rxbufstat'[i] = "rcvd" =>
            \/ rxbufstat[i] = "rcvd" /\ rxbuf'[i] = rxbuf[i]
            \/ rxbuf'[i].idx = i /\ rxbuf'[i] \in Around
  PROVE  Matched'
<1>1. \A frame : Matches(frame) =>
        /\ \A n \in Awaited' : idxstack'[n].idx = frame.idx => frame = Sent(n)'
        /\ command' # Nothing /\ command'.idx = frame.idx =>
              frame = CommandFrame(frame.idx, question, turn)'
  BY DEF Matches, WaitsOn, Sent, CommandFrame
<1> QED
  BY <1>1 DEF Matched, Matches, Indices

-----------------------------------------------------------------------------
(* The initial states                                                      *)

LEMMA InitFresh == Init => Fresh
<1> SUFFICES ASSUME Init PROVE Fresh
  OBVIOUS
<1> USE DEF Init, FramesInit
<1>1. IInv
  BY InitIInv
<1>2. Data
  <2>1. first \in BOOLEAN /\ valid_wkc \in BOOLEAN /\ spoilt \in BOOLEAN
    OBVIOUS
  <2>2. inputs \in [Frames -> [part : Nat, turn : 0..2]]
    BY DEF NoInput
  <2>3. rxbuf \in [Indices -> Datagram \cup {NoFrame}] /\ Len(idxstack) = 0
    OBVIOUS
  <2> QED
    BY <2>1, <2>2, <2>3 DEF Data
<1>3. Around = {} /\ Awaited = {}
  BY DEF Around, Awaited
<1>4. Matched /\ Punctual /\ Seen /\ Behind /\ Arrives /\ Reliable /\ Recent /\ Counted
  BY <1>3 DEF Matched, Punctual, Seen, Behind, Arrives, Reliable, Recent, Counted
<1>5. FullCounterMeansFresh /\ LossEndsWithCycle /\ AnswersItsQuestion
  <2>1. returned # Expected
    BY <1>1, ExpectedIsNumber DEF IInv
  <2> QED
    BY <2>1 DEF FullCounterMeansFresh, LossEndsWithCycle, AnswersItsQuestion
<1> QED
  BY <1>1, <1>2, <1>4, <1>5 DEF Fresh

-----------------------------------------------------------------------------
(* The cycle, without its frames                                           *)

LEMMA Parts ==
  ASSUME Fresh
  PROVE  /\ TypeOK /\ Stage /\ CommandTime /\ Apart /\ BuffersReleased
         /\ Data /\ Matched /\ Punctual /\ Seen /\ Behind /\ Arrives /\ Reliable /\ Recent
         /\ Counted /\ FullCounterMeansFresh /\ LossEndsWithCycle /\ AnswersItsQuestion
  BY DEF Fresh, IInv

\* Between cycles and commands nothing is waited for, and no buffer is in use.
LEMMA Quiet ==
  ASSUME Fresh, pc = "idle", command = Nothing
  PROVE  Awaited = {} /\ \A i \in Indices : rxbufstat[i] = "empty"
<1>1. Awaited = {}
  BY Parts DEF Stage, Awaited
<1> QED
  BY <1>1, Parts, InUseByIndex

\* Then all that is around is of the operation before, and a new one begins.
LEMMA BetweenOperations ==
  ASSUME Fresh, pc = "idle", command = Nothing, NothingOlder, NextTurn
  PROVE  /\ turn' # turn /\ turn' \in 0..2 /\ turn \in 0..2
         /\ \A frame \in Around : frame.turn = turn
         /\ setup.late \/ setup.again => \A frame \in Around : Back(frame.idx) < NumberOfFrames
<1>0. TypeOK /\ Behind /\ Recent /\ Seen
  BY Parts
<1>1. turn \in 0..2 /\ turn' # turn /\ turn' \in 0..2
  <2>1. turn \in {0, 1, 2}
    BY <1>0 DEF TypeOK
  <2> QED
    BY <2>1 DEF NextTurn
<1>2. ASSUME NEW frame \in Around PROVE frame.turn = turn
  <2>1. CASE \E n \in 1..Len(wire) : frame = wire[n]
    BY <2>1 DEF NothingOlder
  <2>2. CASE held # NoFrame /\ frame = held
    BY <1>0, <2>2 DEF Recent, Seen
  <2> QED
    BY <2>1, <2>2 DEF Around
<1>3. ASSUME setup.late \/ setup.again, NEW frame \in Around
      PROVE  Back(frame.idx) < NumberOfFrames
  <2>1. Back(frame.idx) < Given + Older(frame) /\ Older(frame) = 0 /\ Given = NumberOfFrames
    BY <1>0, <1>2, <1>3 DEF Behind, Older, Given
  <2>2. NumberOfFrames \in Nat
    BY <1>0, SetupFacts
  <2> QED
    BY <2>1, <2>2
<1> QED
  BY <1>1, <1>2, <1>3

LEMMA StartCycleKeeps ==
  ASSUME WithinLimits, Fresh, IInv', StartCycle
  PROVE  Fresh'
<1> USE DEF StartCycle
<1>0. Data /\ Matched /\ Punctual /\ Behind /\ Reliable /\ Seen /\ Recent /\ TypeOK /\ Stage
  BY Parts
<1>1. /\ NumberOfFrames \in Nat \ {0} /\ idxstack = <<>> /\ pulled = 0 /\ number' = 0
      /\ pc = "idle" /\ pc' = "sending" /\ command = Nothing /\ command' = Nothing
      /\ setup' = setup /\ NumberOfFrames' = NumberOfFrames
      /\ UNCHANGED <<rxbufstat, rxbuf, lastidx, wire, held, idxstack, pulled, inputs>>
  <2>1. NumberOfFrames \in Nat \ {0}
    BY <1>0, Limits
  <2>2. NumberOfFrames' = NumberOfFrames
    BY DEF NumberOfFrames
  <2> QED
    BY <1>0, <2>1, <2>2 DEF Stage, frames
<1>2. /\ turn' # turn
      /\ \A frame \in Around : frame.turn = turn
      /\ setup.late \/ setup.again => \A frame \in Around : Back(frame.idx) < NumberOfFrames
  BY BetweenOperations
<1>3. Around' = Around
  BY <1>1 DEF Around
<1>4. Awaited' = {} /\ \A i \in Indices : rxbufstat[i] = "empty"
  BY <1>1, Quiet DEF Awaited
<1>5. Data'
  BY <1>0, <1>1 DEF Data, Indices, Frames, receive
<1>6. Matched'
  BY <1>0, <1>1, <1>3, <1>4, MatchedKept DEF WaitsOn
<1>7. Punctual' /\ Seen'
  BY <1>0, <1>1 DEF Punctual, Seen
<1>8. Behind'
  <2> SUFFICES ASSUME setup.late \/ setup.again, NEW frame \in Around
               PROVE  Back(frame.idx)' < Given' + Older(frame)'
    BY <1>1, <1>3 DEF Behind
  <2>1. Back(frame.idx) < NumberOfFrames /\ Older(frame)' = NumberOfFrames /\ Given' = 0
    BY <1>1, <1>2 DEF Older, Given
  <2>2. Back(frame.idx)' = Back(frame.idx)
    BY <1>1 DEF Back
  <2> QED
    BY <1>1, <2>1, <2>2
<1>9. Arrives' /\ Reliable' /\ Recent' /\ Counted'
  BY <1>1, <1>4 DEF Arrives, Reliable, Recent, Counted, Indices
<1>10. FullCounterMeansFresh' /\ LossEndsWithCycle' /\ AnswersItsQuestion'
  <2>1. returned' # Expected'
    BY <1>0, <1>1, ExpectedIsNumber DEF Expected
  <2> QED
    BY <2>1 DEF FullCounterMeansFresh, LossEndsWithCycle, AnswersItsQuestion
<1> QED
  BY <1>5, <1>6, <1>7, <1>8, <1>9, <1>10 DEF Fresh

\* Nothing is sent or received, at most a buffer is released whose frame is not
\* in the network.
LEMMA NothingRead ==
  ASSUME WithinLimits, Fresh, WaitsOn,
         UNCHANGED <<setup, lastidx, wire, held, rxbuf, number, turn>>, Given' = Given,
         \A j \in Indices :
           \/ rxbufstat'[j] = rxbufstat[j]
           \/ /\ rxbufstat'[j] = "empty"
              /\ setup.late \/ \A n \in 1..Len(wire) : wire[n].idx # j,
         Len(idxstack') \in 0..Len(idxstack),
         \A n \in 1..Len(idxstack') : idxstack'[n] = idxstack[n]
  PROVE  Matched' /\ Punctual' /\ Seen' /\ Behind'
<1>1. Around' = Around
  BY DEF Around
<1>2. Matched'
  BY <1>1, MatchedKept, Parts
<1>3. Punctual'
  <2> SUFFICES ASSUME ~setup.late PROVE Punctual'
    BY DEF Punctual
  <2>1. \A n \in 1..Len(wire) : wire[n].idx \in Indices /\ rxbufstat[wire[n].idx] = "tx"
    BY Parts, AroundTyped DEF Punctual, Datagram
  <2>2. \A n \in 1..Len(wire) : rxbufstat'[wire[n].idx] = "tx"
    BY <2>1
  <2> QED
    BY <2>2, Parts DEF Punctual
<1>4. Seen'
  <2> SUFFICES ASSUME held # NoFrame PROVE setup.again /\ rxbufstat'[held.idx] # "tx"
    BY DEF Seen
  <2>1. held.idx \in Indices /\ setup.again /\ rxbufstat[held.idx] # "tx"
    BY Parts DEF Seen, TypeOK, Datagram
  <2> QED
    BY <2>1
<1>5. Behind'
  <2> SUFFICES ASSUME setup.late \/ setup.again PROVE Behind'
    BY DEF Behind
  <2>1. /\ \A n \in 1..Len(idxstack) : Back(idxstack[n].idx) < number
        /\ command # Nothing => command.idx = lastidx
        /\ \A frame \in Around : Back(frame.idx) < Given + Older(frame)
    BY Parts DEF Behind
  <2>2. \A n \in 1..Len(idxstack') : n \in 1..Len(idxstack)
    BY Parts, StackTyped
  <2>3. command' # Nothing => command'.idx = lastidx'
    BY <2>1 DEF WaitsOn
  <2>4. \A frame : Older(frame)' = Older(frame) /\ Back(frame.idx)' = Back(frame.idx)
    BY DEF Older, NumberOfFrames, Back
  <2> QED
    BY <1>1, <2>1, <2>2, <2>3, <2>4 DEF Behind, Back
<1> QED
  BY <1>2, <1>3, <1>4, <1>5

\* The results of the last receive and of the last command do not change.
LEMMA SameResults ==
  ASSUME Fresh, pc # "idle" \/ inputs' = inputs,
         UNCHANGED <<setup, returned, answer, turn, question, spoilt>>
  PROVE  FullCounterMeansFresh' /\ LossEndsWithCycle' /\ AnswersItsQuestion'
<1>1. pc # "idle" => returned = Nothing /\ returned # Expected
  BY Parts, ExpectedIsNumber DEF Data
<1>2. Frames' = Frames /\ Expected' = Expected
  BY DEF Frames, Expected, NumberOfFrames
<1>3. FullCounterMeansFresh'
  BY <1>1, <1>2, Parts DEF FullCounterMeansFresh
<1>4. LossEndsWithCycle' /\ AnswersItsQuestion'
  BY <1>2, Parts DEF LossEndsWithCycle, AnswersItsQuestion
<1> QED
  BY <1>3, <1>4

LEMMA StartReceiveKeeps ==
  ASSUME WithinLimits, Fresh, IInv', StartReceive
  PROVE  Fresh'
<1> USE DEF StartReceive
<1>0. Data /\ Arrives /\ Reliable /\ Recent /\ TypeOK /\ Stage
  BY Parts
<1>1. /\ UNCHANGED <<rxbufstat, rxbuf, lastidx, wire, held, idxstack, pulled, inputs, returned>>
      /\ UNCHANGED <<setup, number, command, turn, question, spoilt>>
  BY DEF frames, io
<1>2. Awaited' = Awaited /\ WaitsOn
  BY <1>1 DEF Awaited, WaitsOn
<1>3. /\ Len(idxstack) \in Nat /\ pulled = 0 /\ setup.dc \in BOOLEAN
      /\ Given' = Given /\ command = Nothing
  BY <1>0, <1>1, StackTyped, SetupFacts DEF Stage, Given
<1>4. Matched' /\ Punctual' /\ Seen' /\ Behind'
  BY <1>1, <1>2, <1>3, NothingRead
<1>5. Data'
  <2>1. first' \in BOOLEAN /\ valid_wkc' \in BOOLEAN /\ spoilt' \in BOOLEAN
    BY <1>0, <1>1, <1>3 DEF Data
  <2>2. /\ rxbuf' \in [Indices -> Datagram \cup {NoFrame}]
        /\ inputs' \in [Frames -> [part : Nat, turn : 0..2]]
        /\ \A n \in 1..Len(idxstack') : idxstack'[n].part = n
        /\ returned' = Nothing
    BY <1>0, <1>1 DEF Data, Frames, NumberOfFrames
  <2> QED
    BY <1>1, <2>1, <2>2 DEF Data, Frames, NumberOfFrames
<1>6. Arrives' /\ Reliable' /\ Recent'
  BY <1>0, <1>1, <1>2, <1>3 DEF Arrives, Reliable, Recent
<1>7. Counted'
  BY <1>1, <1>3 DEF Counted, Full
<1>8. FullCounterMeansFresh' /\ LossEndsWithCycle'
  BY <1>0, <1>1, Parts, ExpectedIsNumber
     DEF Data, FullCounterMeansFresh, LossEndsWithCycle, Expected, NumberOfFrames
<1>9. AnswersItsQuestion'
  BY DEF AnswersItsQuestion
<1> QED
  BY <1>4, <1>5, <1>6, <1>7, <1>8, <1>9 DEF Fresh

LEMMA ReceiveTimesOutKeeps ==
  ASSUME WithinLimits, Fresh, IInv', ReceiveTimesOut
  PROVE  Fresh'
<1> USE DEF ReceiveTimesOut, Awaiting, GiveUp, Release
<1>0. Data /\ Arrives /\ Reliable /\ Recent /\ TypeOK /\ BuffersReleased
  BY Parts
<1>1. /\ UNCHANGED <<rxbuf, lastidx, wire, held, idxstack, inputs, returned, pc, answer>>
      /\ UNCHANGED <<setup, number, command, turn, question, wkc, valid_wkc, first>>
      /\ pulled' = pulled + 1
  BY DEF receive
<1>2. /\ Len(idxstack) \in Nat /\ pulled \in Nat /\ pulled < Len(idxstack)
      /\ pulled + 1 \in Awaited /\ Entry.idx = idxstack[pulled + 1].idx
  BY <1>0, StackTyped DEF Awaited, Entry
<1>3. Entry.idx \in Indices /\ rxbufstat[Entry.idx] = "tx"
  BY <1>0, <1>2, InUseByIndex DEF TimeIsUp, TypeOK, BufferStates
<1>4. /\ (\A n \in Awaited' : n \in Awaited) /\ WaitsOn
      /\ Given' = Given /\ command = Nothing /\ command' = Nothing
  BY <1>1, <1>2, Parts DEF Awaited, WaitsOn, Given, NumberOfFrames, CommandTime
<1>5. \A j \in Indices :
        \/ rxbufstat'[j] = rxbufstat[j]
        \/ /\ rxbufstat'[j] = "empty"
           /\ setup.late \/ \A n \in 1..Len(wire) : wire[n].idx # j
  BY <1>0 DEF TimeIsUp, TypeOK
<1>6. Matched' /\ Punctual' /\ Seen' /\ Behind'
  BY <1>1, <1>2, <1>4, <1>5, NothingRead
<1>7. spoilt' = TRUE
  <2>1. CASE setup.late
    BY <2>1
  <2>2. CASE ~setup.late
    <3>1. spoilt
      BY <1>0, <1>2, <1>3, <2>2 DEF Arrives, TimeIsUp
    <3> QED
      BY <3>1
  <2> QED
    BY <2>1, <2>2
<1>8. Data'
  BY <1>0, <1>1, <1>7 DEF Data, Frames, NumberOfFrames
<1>9. Arrives'
  BY <1>4, <1>7 DEF Arrives
<1>10. setup.lossy \/ setup.late
  <2>1. ~setup.late => spoilt
    BY <1>0, <1>2, <1>3 DEF Arrives, TimeIsUp
  <2> QED
    BY <1>0, <2>1 DEF Reliable
<1>11. Reliable' /\ Recent'
  BY <1>0, <1>1, <1>10, Limits, Zenon DEF Reliable, Recent
<1>12. Counted'
  <2>1. wkc <= Full(pulled) /\ first \in BOOLEAN /\ (first => setup.dc) /\ wkc \in Nat
    BY <1>0, Parts, Limits DEF Counted, Data, TypeOK
  <2>2. Full(pulled) \in Nat /\ Full(pulled + 1) \in Nat /\ Full(pulled) < Full(pulled + 1)
    <3>1. pulled < NumberOfFrames
      BY <1>2, Parts DEF Stage
    <3> QED
      BY <1>0, <1>2, <3>1, FullGrows
  <2>3. ~(wkc = Full(pulled + 1)) /\ wkc <= Full(pulled + 1)
    BY <2>1, <2>2
  <2> QED
    BY <1>1, <1>2, <1>7, <2>1, <2>3 DEF Counted, Full
<1>13. FullCounterMeansFresh' /\ LossEndsWithCycle' /\ AnswersItsQuestion'
  BY <1>0, <1>1, Parts, ExpectedIsNumber
     DEF Data, FullCounterMeansFresh, LossEndsWithCycle, AnswersItsQuestion, Expected,
         NumberOfFrames
<1> QED
  BY <1>6, <1>8, <1>9, <1>11, <1>12, <1>13 DEF Fresh

LEMMA EndReceiveKeeps ==
  ASSUME WithinLimits, Fresh, IInv', EndReceive
  PROVE  Fresh'
<1> USE DEF EndReceive, ClearIndex
<1>0. Data /\ Reliable /\ Recent /\ Counted /\ TypeOK /\ Stage
  BY Parts
<1>1. /\ UNCHANGED <<rxbufstat, rxbuf, lastidx, wire, held, inputs, answer, spoilt>>
      /\ UNCHANGED <<setup, number, command, turn, question>>
  BY DEF frames
<1>2. /\ Len(idxstack) \in Nat /\ pulled = NumberOfFrames /\ NumberOfFrames \in Nat \ {0}
      /\ Len(idxstack') = 0 /\ Awaited' = {}
  BY <1>0, StackTyped, Limits DEF Stage, Awaited
<1>3. WaitsOn /\ Given' = Given /\ command = Nothing /\ command' = Nothing
  BY <1>0, <1>1, <1>2, Parts DEF WaitsOn, Given, NumberOfFrames, Stage, CommandTime
<1>4. Matched' /\ Punctual' /\ Seen' /\ Behind'
  BY <1>1, <1>2, <1>3, NothingRead
<1>5. Data'
  <2>1. first' \in BOOLEAN /\ valid_wkc' \in BOOLEAN /\ spoilt' \in BOOLEAN
    BY <1>0, <1>1 DEF Data
  <2> QED
    BY <1>0, <1>1, <1>2, <2>1 DEF Data, Frames, NumberOfFrames
<1>6. Arrives' /\ Reliable' /\ Recent' /\ Counted'
  BY <1>0, <1>1, <1>2, <1>3 DEF Arrives, Reliable, Recent, Counted
<1>7. Expected' = Expected /\ Expected \in Nat \ {0} /\ Full(NumberOfFrames) = Expected
  BY <1>0, <1>1, ExpectedIsNumber, FullIsExpected DEF Expected, NumberOfFrames
<1>8. LossEndsWithCycle'
  <2>1. ~spoilt => valid_wkc /\ wkc = Expected
    BY <1>0, <1>2, <1>7 DEF Counted
  <2> QED
    BY <1>1, <1>7, <2>1 DEF LossEndsWithCycle
<1>9. FullCounterMeansFresh'
  <2> SUFFICES ASSUME returned' = Expected
               PROVE  \A f \in Frames : CopiedOut(f)
    BY <1>1, <1>7 DEF FullCounterMeansFresh, Frames, NumberOfFrames, CopiedOut
  <2>1. wkc = Full(pulled)
    BY <1>2, <1>7
  <2> QED
    BY <1>0, <1>2, <2>1 DEF Counted, Frames
<1>10. AnswersItsQuestion'
  BY <1>1, Parts DEF AnswersItsQuestion
<1> QED
  BY <1>4, <1>5, <1>6, <1>8, <1>9, <1>10 DEF Fresh

\* While a command is waited for, other frames are around only in a network without
\* late frames, and one that returns none again.
LEMMA Commanded ==
  ASSUME WithinLimits, Fresh, command # Nothing
  PROVE  /\ pc \in {"idle", "sent"} /\ pulled = 0
         /\ command \in [idx : Indices, tries : 1..MaxTries]
         /\ rxbufstat[command.idx] # "empty"
         /\ \A n \in Awaited : idxstack[n].idx # command.idx
  BY Parts, InUseByIndex DEF CommandTime, TypeOK, Apart, Stage

\* Nobody gives up a command in a reliable network.
LEMMA CommandLost ==
  ASSUME WithinLimits, Fresh, command # Nothing, TimeIsUp(command.idx, setup.late)
  PROVE  (setup.lossy \/ setup.late) /\ ~setup.again /\ rxbufstat[command.idx] = "tx"
<1>1. rxbufstat[command.idx] = "tx"
  BY Commanded, Parts DEF TimeIsUp, TypeOK, BufferStates
<1>2. setup.lossy \/ setup.late
  BY <1>1, Parts DEF Arrives, TimeIsUp
<1> QED
  BY <1>1, <1>2, Limits, Parts

LEMMA CommandFailsKeeps ==
  ASSUME WithinLimits, Fresh, IInv', CommandFails
  PROVE  Fresh'
<1> USE DEF CommandFails, Release
<1>0. Data /\ Arrives /\ Reliable /\ TypeOK
  BY Parts
<1>1. /\ UNCHANGED <<rxbuf, lastidx, wire, held, idxstack, pulled, inputs, returned, pc, answer>>
      /\ UNCHANGED <<setup, number, turn, question, wkc, valid_wkc, first, spoilt>>
      /\ command' = Nothing
  BY DEF receive, io
<1>2. Awaited' = Awaited /\ WaitsOn /\ Given' = Given
  BY <1>1 DEF Awaited, WaitsOn, Given, NumberOfFrames
<1>3. \A j \in Indices :
        \/ rxbufstat'[j] = rxbufstat[j]
        \/ /\ rxbufstat'[j] = "empty"
           /\ setup.late \/ \A n \in 1..Len(wire) : wire[n].idx # j
  BY <1>0, Commanded DEF TimeIsUp, TypeOK
<1>4. Matched' /\ Punctual' /\ Seen' /\ Behind'
  BY <1>0, <1>1, <1>2, <1>3, StackTyped, NothingRead
<1>5. Data'
  <2>1. first' \in BOOLEAN /\ valid_wkc' \in BOOLEAN /\ spoilt' \in BOOLEAN
    BY <1>0, <1>1 DEF Data
  <2> QED
    BY <1>0, <1>1, <2>1 DEF Data, Frames, NumberOfFrames
<1>6. Arrives'
  <2>1. \A n \in Awaited : rxbufstat'[idxstack[n].idx] = "tx" => rxbufstat[idxstack[n].idx] = "tx"
    BY <1>0, Commanded DEF TypeOK
  <2> QED
    BY <1>0, <1>1, <1>2, <2>1 DEF Arrives
<1>7. Reliable' /\ Recent' /\ Counted'
  <2>1. ~setup.again /\ pc # "receiving"
    BY Commanded, CommandLost
  <2> QED
    BY <1>0, <1>1, <2>1 DEF Reliable, Recent, Counted
<1>8. FullCounterMeansFresh' /\ LossEndsWithCycle' /\ AnswersItsQuestion'
  BY <1>1, SameResults
<1> QED
  BY <1>4, <1>5, <1>6, <1>7, <1>8 DEF Fresh

LEMMA TryAgainKeeps ==
  ASSUME WithinLimits, Fresh, IInv', TryAgain
  PROVE  Fresh'
<1> USE DEF TryAgain
<1>0. Data /\ Matched /\ Punctual /\ Arrives /\ Reliable /\ Behind /\ TypeOK
  BY Parts
<1>1. /\ UNCHANGED <<rxbuf, lastidx, held, idxstack, pulled, inputs, returned, pc, answer>>
      /\ UNCHANGED <<setup, number, turn, question, wkc, valid_wkc, first, spoilt>>
      /\ command' # Nothing /\ command'.idx = command.idx /\ Given' = Given
  <2>1. command \in [idx : Indices, tries : 1..MaxTries] /\ MaxTries \in Nat \ {0}
    BY Commanded, SetupAssumption DEF SetupAssumption
  <2>2. command'.idx = command.idx /\ command' \in [idx : Indices, tries : 1..MaxTries]
    BY <2>1
  <2> QED
    BY <2>2, SetupAssumption DEF receive, io, SetupAssumption, Given, NumberOfFrames
<1>2. Awaited' = Awaited /\ WaitsOn
  BY <1>1 DEF Awaited, WaitsOn
<1> DEFINE i == command.idx
           new == CommandFrame(i, question, turn)
<1>3. /\ i \in Indices /\ rxbufstat[i] = "tx" /\ rxbufstat' = rxbufstat
      /\ setup.late \/ \A n \in 1..Len(wire) : wire[n].idx # i
      /\ new.idx = i /\ new.turn = turn /\ new = CommandFrame(command.idx, question, turn)'
  <2>1. rxbufstat \in [Indices -> BufferStates] /\ i \in Indices
    BY <1>0, Commanded DEF TypeOK
  <2>2. rxbufstat[i] = "tx"
    BY <2>1, Commanded DEF BufferStates, TimeIsUp
  <2> QED
    BY <1>1, <2>1, <2>2, Commanded DEF TimeIsUp, CommandFrame
<1>4. Len(wire) \in Nat /\ wire \in Seq(Datagram) /\ new \in Datagram
  BY <1>0, <1>3, AroundTyped DEF TypeOK, CommandFrame, Datagram
<1>5. \/ wire' = wire
      \/ /\ Len(wire') = Len(wire) + 1 /\ wire'[Len(wire) + 1] = new
         /\ \A n \in 1..Len(wire) : wire'[n] = wire[n]
  <2>1. wire' = wire \/ wire' = Append(wire, new)
    BY DEF Transmit
  <2> HIDE DEF new
  <2> QED
    BY <1>4, <2>1, AppendProperties
<1> HIDE DEF new
<1>6. \A frame \in Around' : frame \in Around \/ frame = new
  BY <1>1, <1>4, <1>5 DEF Around
<1>7. Matched'
  <2>1. \A frame : Matches(frame) =>
          /\ \A n \in Awaited' : idxstack'[n].idx = frame.idx => frame = Sent(n)'
          /\ command' # Nothing /\ command'.idx = frame.idx =>
                frame = CommandFrame(frame.idx, question, turn)'
    BY <1>2 DEF Matches, WaitsOn, Sent, CommandFrame
  <2>2. /\ \A n \in Awaited' : idxstack'[n].idx # new.idx
        /\ new.idx = command'.idx /\ new = CommandFrame(command.idx, question, turn)'
    BY <1>1, <1>2, <1>3, Commanded
  <2> QED
    BY <1>0, <1>1, <1>3, <1>6, <2>1, <2>2 DEF Matched, Matches, Indices, CommandFrame
<1>8. Punctual'
  BY <1>0, <1>1, <1>3, <1>4, <1>5 DEF Punctual
<1>9. Seen' /\ Behind' /\ Recent' /\ Counted' /\ Reliable'
  <2>1. (setup.lossy \/ setup.late) /\ ~setup.again /\ pc # "receiving" /\ held = NoFrame
    BY CommandLost, Commanded, Parts DEF Seen
  <2>2. Behind'
    <3> SUFFICES ASSUME setup.late PROVE Behind'
      BY <1>1, <2>1 DEF Behind
    <3>1. /\ \A n \in 1..Len(idxstack) : Back(idxstack[n].idx) < number
          /\ command.idx = lastidx /\ setup.commands # "anytime"
          /\ \A frame \in Around : Back(frame.idx) < Given + Older(frame)
      BY <1>0, Parts, Limits DEF Behind
    <3>2. \A frame : Older(frame)' = Older(frame) /\ Back(frame.idx)' = Back(frame.idx)
      BY <1>1 DEF Older, NumberOfFrames, Back
    <3>3. Back(new.idx) = 0 /\ Older(new) = 0 /\ Given \in Nat \ {0}
      <4>1. lastidx \in Int
        BY <1>0, <1>3, <3>1, SetupFacts DEF Indices
      <4>2. pc = "idle" /\ NumberOfFrames \in Nat \ {0}
        BY <3>1, Parts, Limits DEF CommandTime
      <4> QED
        BY <1>3, <3>1, <4>1, <4>2 DEF Back, Older, Given
    <3>4. \A frame \in Around' : Back(frame.idx) < Given + Older(frame)
      BY <1>6, <3>1, <3>3
    <3>5. \A n \in 1..Len(idxstack') : Back(idxstack[n].idx)' < number'
      BY <1>1, <3>1 DEF Back
    <3> QED
      BY <1>1, <3>1, <3>2, <3>4, <3>5 DEF Behind
  <2> QED
    BY <1>0, <1>1, <2>1, <2>2 DEF Seen, Recent, Counted, Reliable
<1>10. Data'
  <2>1. first' \in BOOLEAN /\ valid_wkc' \in BOOLEAN /\ spoilt' \in BOOLEAN
    BY <1>0, <1>1 DEF Data
  <2> QED
    BY <1>0, <1>1, <2>1 DEF Data, Frames, NumberOfFrames
<1>11. Arrives'
  <2>1. setup.lossy \/ setup.late
    BY CommandLost
  <2> QED
    BY <1>0, <1>1, <1>2, <1>3, <1>4, <1>5, <2>1 DEF Arrives
<1>12. FullCounterMeansFresh' /\ LossEndsWithCycle' /\ AnswersItsQuestion'
  BY <1>1, SameResults
<1> QED
  BY <1>7, <1>8, <1>9, <1>10, <1>11, <1>12 DEF Fresh

LEMMA VanishKeeps ==
  ASSUME WithinLimits, Fresh, IInv', Vanish
  PROVE  Fresh'
<1> USE DEF Vanish
<1>0. Data /\ Matched /\ Punctual /\ Seen /\ Behind /\ Arrives /\ Reliable /\ Recent /\ Counted /\ TypeOK
  BY Parts
<1>1. /\ UNCHANGED <<rxbufstat, rxbuf, lastidx, held, idxstack, pulled, inputs, returned, pc, answer>>
      /\ UNCHANGED <<setup, number, command, turn, question, wkc, valid_wkc, first, spoilt>>
      /\ command = Nothing /\ pc = "idle"
  BY DEF receive, io
<1>2. Awaited = {} /\ Awaited' = {} /\ \A i \in Indices : rxbufstat[i] = "empty"
  BY <1>1, Quiet DEF Awaited
<1>3. /\ Len(wire) \in Nat /\ \A n \in 1..Len(wire) : wire[n].idx \in Indices
      /\ \A n \in 1..Len(wire') : n + 1 \in 1..Len(wire) /\ wire'[n] = wire[n + 1]
  <2>1. wire \in Seq(Datagram) /\ wire # <<>>
    BY <1>0 DEF TypeOK
  <2>2. /\ Len(Tail(wire)) = Len(wire) - 1 /\ Len(wire) \in Nat \ {0}
        /\ \A n \in 1..Len(Tail(wire)) : Tail(wire)[n] = wire[n + 1]
    BY <2>1, HeadTailProperties, EmptySeq
  <2>3. \A n \in 1..Len(wire) : wire[n].idx \in Indices
    BY <1>0, AroundTyped DEF Datagram
  <2> QED
    BY <2>2, <2>3
<1>4. Around' \subseteq Around
  BY <1>1, <1>3 DEF Around
<1>5. Matched'
  BY <1>0, <1>1, <1>2, <1>4, MatchedKept DEF WaitsOn
<1>6. Punctual'
  <2>1. setup.late
    <3>1. 1 \in 1..Len(wire) /\ rxbufstat[wire[1].idx] # "tx"
      <4>1. Len(wire) # 0
        BY <1>0, EmptySeq DEF TypeOK
      <4>2. 1 \in 1..Len(wire)
        BY <1>3, <4>1
      <4> QED
        BY <1>2, <1>3, <4>2
    <3> QED
      BY <1>0, <3>1 DEF Punctual
  <2> QED
    BY <1>1, <2>1 DEF Punctual
<1>7. Seen' /\ Recent' /\ Reliable' /\ Counted' /\ Arrives'
  BY <1>0, <1>1, <1>2 DEF Seen, Recent, Reliable, Counted, Arrives
<1>8. Behind'
  <2>1. \A frame : Older(frame)' = Older(frame) /\ Back(frame.idx)' = Back(frame.idx)
    BY <1>1 DEF Older, NumberOfFrames, Back
  <2>2. Given' = Given /\ \A n : Back(idxstack[n].idx)' = Back(idxstack[n].idx)
    BY <1>1 DEF Given, NumberOfFrames, Back
  <2> QED
    BY <1>0, <1>1, <1>4, <2>1, <2>2 DEF Behind
<1>9. Data'
  <2>1. first' \in BOOLEAN /\ valid_wkc' \in BOOLEAN /\ spoilt' \in BOOLEAN
    BY <1>0, <1>1 DEF Data
  <2> QED
    BY <1>0, <1>1, <2>1 DEF Data, Frames, NumberOfFrames
<1>10. FullCounterMeansFresh' /\ LossEndsWithCycle' /\ AnswersItsQuestion'
  BY <1>1, SameResults
<1> QED
  BY <1>5, <1>6, <1>7, <1>8, <1>9, <1>10 DEF Fresh

-----------------------------------------------------------------------------
(* New frames                                                              *)

LEMMA BackInRange ==
  ASSUME TypeOK, NEW i \in Indices
  PROVE  Back(i) \in 0..Buffers - 1
<1>1. Buffers \in Nat \ {0} /\ lastidx \in 0..Buffers - 1 /\ i \in 0..Buffers - 1
  BY SetupFacts DEF Indices, TypeOK
<1> QED
  BY <1>1 DEF Back

\* ecx_getindex gives out no index that a frame still around carries.
LEMMA NewIndex ==
  ASSUME WithinLimits, Fresh, command = Nothing, pulled = 0,
         setup.late \/ setup.again =>
           /\ \A n \in Awaited : Back(idxstack[n].idx) < Buffers - 1
           /\ \A frame \in Around : Back(frame.idx) < Buffers - 1,
         Len(idxstack) < Buffers, NEW i \in Indices, GetsIndex(i)
  PROVE  /\ rxbufstat[i] = "empty" /\ \A frame \in Around : frame.idx # i
         /\ setup.late \/ setup.again =>
              \A j \in Indices : j # i => IF j <= i THEN i - j = Back(j) + 1
                                                   ELSE i - j + Buffers = Back(j) + 1
<1>0. Matched /\ Punctual /\ Seen /\ TypeOK /\ BuffersReleased
  BY Parts
<1>1. rxbufstat[i] = "empty"
  BY <1>0, GivenIndexEmpty
<1>2. /\ Buffers \in Nat \ {0}
      /\ lastidx \in 0..Buffers - 1 /\ i \in 0..Buffers - 1
  BY <1>0, Limits DEF TypeOK, Indices
<1>3. CASE ~setup.late /\ ~setup.again
  <2>1. ASSUME NEW frame \in Around PROVE frame.idx # i
    BY <1>0, <1>1, <1>3 DEF Around, Punctual, Seen
  <2> QED
    BY <1>1, <1>3, <2>1
<1>4. CASE setup.late \/ setup.again
  <2> DEFINE next == IF lastidx = Buffers - 1 THEN 0 ELSE lastidx + 1
  <2>1. next \in Indices /\ Back(next) = Buffers - 1 /\ Ahead(next) = 1
    BY <1>2 DEF Indices, Back, Ahead
  <2>3. rxbufstat[next] = "empty"
    <3>1. \A n \in Awaited : idxstack[n].idx # next
      BY <1>2, <1>4, <2>1
    <3> QED
      BY <1>0, <2>1, <3>1, InUseByIndex
  <2>4. Ahead(i) <= 1
    BY <2>1, <2>3 DEF GetsIndex
  <2>5. i = next
    BY <1>2, <2>4 DEF Ahead
  <2>6. ASSUME NEW frame \in Around PROVE frame.idx # i
    BY <1>2, <1>4, <2>1, <2>5
  <2>7. ASSUME NEW j \in Indices, j # i
        PROVE  IF j <= i THEN i - j = Back(j) + 1 ELSE i - j + Buffers = Back(j) + 1
    BY <1>2, <2>5, <2>7 DEF Back, Indices
  <2> QED
    BY <1>1, <2>6, <2>7, <1>2
<1> QED
  BY <1>3, <1>4

\* ecx_outframe, with an index that nobody uses.
LEMMA Outgoing ==
  ASSUME WithinLimits, Fresh, NEW i \in Indices, NEW new \in Datagram, new.idx = i,
         rxbufstat[i] = "empty", \A frame \in Around : frame.idx # i,
         OutFrame(i, new, setup.lossy), setup' = setup
  PROVE  /\ lastidx' = i /\ rxbuf' = rxbuf /\ held' = held /\ rxbufstat'[i] = "tx"
         /\ \A j \in Indices : j # i => rxbufstat'[j] = rxbufstat[j]
         /\ Len(wire) \in Nat
         /\ \A n \in 1..Len(wire) : n \in 1..Len(wire') /\ wire'[n] = wire[n]
         /\ wire' # wire => /\ Len(wire') = Len(wire) + 1 /\ wire'[Len(wire) + 1] = new
         /\ ~setup.lossy => wire' # wire
         /\ \A frame \in Around' : frame \in Around \/ frame = new
         /\ Punctual' /\ Seen'
<1>0. Punctual /\ Seen /\ TypeOK
  BY Parts
<1>1. /\ lastidx' = i /\ rxbuf' = rxbuf /\ held' = held /\ rxbufstat'[i] = "tx"
      /\ \A j \in Indices : j # i => rxbufstat'[j] = rxbufstat[j]
  BY <1>0 DEF OutFrame, TypeOK
<1>2. Len(wire) \in Nat /\ wire \in Seq(Datagram)
  BY <1>0, AroundTyped DEF TypeOK
<1>3. /\ Append(wire, new) # wire /\ Len(Append(wire, new)) = Len(wire) + 1
      /\ Append(wire, new)[Len(wire) + 1] = new
      /\ \A n \in 1..Len(wire) : Append(wire, new)[n] = wire[n]
  <2>1. Len(Append(wire, new)) = Len(wire) + 1
    BY <1>2, AppendProperties
  <2> QED
    BY <1>2, <2>1, AppendProperties
<1>4. wire' = wire \/ wire' = Append(wire, new)
  BY DEF OutFrame, Transmit
<1>5. ~setup.lossy => wire' = Append(wire, new)
  BY DEF OutFrame, Transmit
<1>6. /\ \A n \in 1..Len(wire) : n \in 1..Len(wire') /\ wire'[n] = wire[n]
      /\ wire' # wire => /\ Len(wire') = Len(wire) + 1 /\ wire'[Len(wire) + 1] = new
      /\ ~setup.lossy => wire' # wire
  BY <1>2, <1>3, <1>4, <1>5
<1>7. \A n \in 1..Len(wire') : n \in 1..Len(wire) \/ (n = Len(wire) + 1 /\ wire'[n] = new)
  BY <1>2, <1>3, <1>4
<1>8. \A frame \in Around' : frame \in Around \/ frame = new
  BY <1>1, <1>6, <1>7 DEF Around
<1>9. Punctual'
  <2> SUFFICES ASSUME ~setup.late PROVE Punctual'
    BY DEF Punctual
  <2>1. /\ \A n \in 1..Len(wire) : /\ wire[n].idx \in Indices /\ wire[n].idx # i
                                  /\ rxbufstat[wire[n].idx] = "tx"
        /\ \A m, n \in 1..Len(wire) : wire[m].idx = wire[n].idx => m = n
    BY <1>0, AroundTyped DEF Punctual, Datagram, Around
  <2>2. \A n \in 1..Len(wire') : rxbufstat'[wire'[n].idx] = "tx"
    BY <1>1, <1>6, <1>7, <2>1
  <2>3. \A m, n \in 1..Len(wire') : wire'[m].idx = wire'[n].idx => m = n
    BY <1>6, <1>7, <2>1
  <2> QED
    BY <2>2, <2>3 DEF Punctual
<1>10. Seen'
  <2> SUFFICES ASSUME held # NoFrame PROVE setup.again /\ rxbufstat'[held.idx] # "tx"
    BY <1>1 DEF Seen
  <2>1. held \in Around /\ held.idx \in Indices /\ setup.again /\ rxbufstat[held.idx] # "tx"
    BY <1>0 DEF Seen, TypeOK, Datagram, Around
  <2> QED
    BY <1>1, <2>1
<1> QED
  BY <1>1, <1>2, <1>6, <1>8, <1>9, <1>10

LEMMA SendFrameKeeps ==
  ASSUME WithinLimits, Fresh, IInv', SendFrame
  PROVE  Fresh'
<1>0. Data /\ Matched /\ Behind /\ Arrives /\ Reliable /\ Recent /\ TypeOK /\ Stage /\ BuffersReleased
  BY Parts
<1>1. /\ NumberOfFrames \in Nat \ {0} /\ NumberOfFrames <= Buffers /\ Buffers \in Nat
      /\ number \in Nat /\ number < NumberOfFrames /\ Len(idxstack) = number
      /\ pulled = 0 /\ command = Nothing /\ number' = number + 1 /\ pc' \in {"sending", "sent"}
      /\ UNCHANGED <<setup, pulled, inputs, returned, command, answer, turn, question>>
      /\ UNCHANGED <<wkc, valid_wkc, first>> /\ returned = Nothing
      /\ spoilt' = (spoilt \/ wire' = wire)
  <2>1. NumberOfFrames \in Nat \ {0} /\ NumberOfFrames <= Buffers /\ Buffers \in Nat
    BY <1>0, Limits
  <2>2. number \in Nat
    BY <1>0, <2>1 DEF TypeOK
  <2> QED
    BY <1>0, <2>1, <2>2, Parts DEF SendFrame, Stage, CommandTime, receive, Data
<1>2. PICK i, new :
        /\ i \in Indices
        /\ new = [idx |-> i, command |-> setup.frames[number'], part |-> number',
                  dc |-> setup.dc /\ number' = 1, turn |-> turn]
        /\ GetsIndex(i)
        /\ OutFrame(i, new, setup.lossy)
        /\ idxstack' = Pushed(i, number')
  BY DEF SendFrame
<1>3. /\ rxbufstat[i] = "empty" /\ \A f \in Around : f.idx # i
      /\ setup.late \/ setup.again =>
           \A j \in Indices : j # i => IF j <= i THEN i - j = Back(j) + 1
                                                ELSE i - j + Buffers = Back(j) + 1
  <2> SUFFICES ASSUME setup.late \/ setup.again
               PROVE  /\ \A n \in Awaited : Back(idxstack[n].idx) < Buffers - 1
                      /\ \A f \in Around : Back(f.idx) < Buffers - 1
    BY <1>1, <1>2, NewIndex
  <2>1. number + NumberOfFrames <= Buffers - 1
    BY <1>0, <1>1, Limits
  <2>2. \A n \in Awaited : Back(idxstack[n].idx) < number
    BY <1>0, StackTyped DEF Behind, Awaited
  <2>3. \A n \in Awaited : Back(idxstack[n].idx) \in Int
    BY <1>0, InUseByIndex, BackInRange
  <2>4. ASSUME NEW f \in Around PROVE Back(f.idx) < Buffers - 1
    <3>1. Back(f.idx) < number + Older(f)
      BY <1>0, <1>1 DEF Behind, Given, SendFrame
    <3>2. Older(f) \in Int /\ Older(f) <= NumberOfFrames
      BY <1>1 DEF Older
    <3>3. Back(f.idx) \in Int
      BY <1>0, AroundTyped, BackInRange DEF Datagram
    <3> QED
      BY <1>1, <2>1, <3>1, <3>2, <3>3
  <2> QED
    BY <1>1, <2>1, <2>2, <2>3, <2>4
<1>4. new \in Datagram /\ new.idx = i /\ new.turn = turn
  <2>1. setup.frames[number + 1] \in {"LRW", "LRD", "LWR"} /\ setup.dc \in BOOLEAN
    BY <1>0, <1>1, FullGrows, SetupFacts
  <2> QED
    BY <1>0, <1>1, <1>2, <2>1 DEF Datagram, TypeOK
<1>5. /\ Len(idxstack') = number + 1
      /\ \A n \in 1..number : idxstack'[n] = idxstack[n]
      /\ idxstack'[number + 1] = [idx |-> i, part |-> number + 1]
  <2> DEFINE entry == [idx |-> i, part |-> number + 1]
  <2>1. idxstack' = Append(idxstack, entry)
    BY <1>1, <1>2 DEF Pushed
  <2>2. idxstack \in Seq([idx : Indices, part : Frames]) /\ entry \in [idx : Indices, part : Frames]
    BY <1>0, <1>1, <1>2 DEF TypeOK, Frames
  <2> HIDE DEF entry
  <2>3. /\ Len(idxstack') = number + 1 /\ idxstack'[number + 1] = entry
        /\ \A n \in 1..number : idxstack'[n] = idxstack[n]
    BY <1>1, <2>1, <2>2, AppendProperties
  <2> QED
    BY <2>3 DEF entry
<1>6. /\ \A n : n = number + 1 => new = Sent(n)'
      /\ \A n \in 1..number : Sent(n)' = Sent(n)
      /\ NumberOfFrames' = NumberOfFrames
  BY <1>1, <1>2, <1>5 DEF Sent, NumberOfFrames
<1>7. /\ lastidx' = i /\ rxbuf' = rxbuf /\ held' = held /\ rxbufstat'[i] = "tx"
      /\ \A j \in Indices : j # i => rxbufstat'[j] = rxbufstat[j]
      /\ Len(wire) \in Nat
      /\ \A n \in 1..Len(wire) : n \in 1..Len(wire') /\ wire'[n] = wire[n]
      /\ wire' # wire => /\ Len(wire') = Len(wire) + 1 /\ wire'[Len(wire) + 1] = new
      /\ ~setup.lossy => wire' # wire
      /\ \A f \in Around' : f \in Around \/ f = new
      /\ Punctual' /\ Seen'
  BY <1>1, <1>2, <1>3, <1>4, Outgoing
<1>8. \A n \in 1..number : /\ idxstack[n].idx \in Indices /\ idxstack[n].idx # i
                          /\ n \in Awaited
  BY <1>0, <1>1, <1>3, InUseByIndex DEF Awaited
<1>9. \A n \in Awaited' : n \in 1..number \/ n = number + 1
  BY <1>1, <1>5 DEF Awaited
<1>10. Matched'
  <2>1. ASSUME NEW f, f.idx # i, Matches(f), NEW n \in Awaited', idxstack'[n].idx = f.idx
        PROVE  f = Sent(n)'
    BY <1>5, <1>6, <1>8, <1>9, <2>1 DEF Matches
  <2>2. ASSUME NEW n \in Awaited', idxstack'[n].idx = new.idx
        PROVE  new = Sent(n)'
    <3>1. n = number + 1
      BY <1>4, <1>5, <1>8, <1>9, <2>2
    <3> QED
      BY <1>6, <3>1
  <2>3. \A j \in Indices : rxbufstat'[j] = "rcvd" =>
          j # i /\ rxbuf'[j].idx = j /\ Matches(rxbuf'[j])
    BY <1>0, <1>7 DEF Matched
  <2> QED
    BY <1>0, <1>1, <1>3, <1>7, <2>1, <2>2, <2>3 DEF Matched, Matches, Indices
<1>11. Behind'
  <2> SUFFICES ASSUME setup.late \/ setup.again PROVE Behind'
    BY <1>1 DEF Behind
  <2>1. \A j \in Indices : j # i => Back(j)' = Back(j) + 1 /\ Back(j) \in Int
    BY <1>0, <1>3, <1>7, BackInRange DEF Back
  <2>2. Back(i)' = 0
    BY <1>2, <1>7 DEF Back, Indices
  <2>3. ASSUME NEW n \in 1..Len(idxstack') PROVE Back(idxstack[n].idx)' < number'
    <3>1. CASE n \in 1..number
      <4>1. Back(idxstack[n].idx) < number
        BY <1>0, <1>1, <3>1 DEF Behind
      <4> QED
        BY <1>1, <1>5, <1>8, <2>1, <3>1, <4>1 DEF Back
    <3>2. CASE n = number + 1
      BY <1>1, <1>5, <2>2, <3>2 DEF Back
    <3> QED
      BY <1>1, <1>5, <3>1, <3>2
  <2>4. ASSUME NEW f \in Around' PROVE Back(f.idx)' < Given' + Older(f)'
    <3>0. Given = number /\ Given' = number'
      BY <1>1, <1>6 DEF Given, SendFrame
    <3>1. CASE f \in Around
      <4>1. Back(f.idx) < number + Older(f) /\ f.idx \in Indices /\ f.idx # i
        BY <1>0, <1>3, <3>0, <3>1, AroundTyped DEF Behind, Datagram
      <4>2. Back(f.idx)' = Back(f.idx) + 1 /\ Back(f.idx) \in Int
        BY <2>1, <4>1
      <4>3. Older(f)' = Older(f) /\ Older(f) \in Nat
        BY <1>1, <1>6 DEF Older
      <4> QED
        BY <1>1, <3>0, <4>1, <4>2, <4>3
    <3>2. CASE f = new
      <4>1. f.idx = i /\ Older(f)' = 0
        BY <1>1, <1>4, <3>2 DEF Older
      <4> QED
        BY <1>1, <2>2, <3>0, <4>1 DEF Back
    <3> QED
      BY <1>7, <3>1, <3>2
  <2> QED
    BY <1>1, <2>3, <2>4 DEF Behind
<1>12. Arrives'
  <2> SUFFICES ASSUME ~spoilt', NEW n \in Awaited', rxbufstat'[idxstack'[n].idx] = "tx"
               PROVE  \E m \in 1..Len(wire') : wire'[m].idx = idxstack'[n].idx
    BY <1>1 DEF Arrives
  <2>1. ~spoilt /\ wire' # wire
    BY <1>1
  <2>2. CASE n \in 1..number
    BY <1>0, <1>5, <1>7, <1>8, <2>1, <2>2 DEF Arrives
  <2>3. CASE n = number + 1
    <3>1. wire'[Len(wire) + 1].idx = i /\ Len(wire) + 1 \in 1..Len(wire')
      BY <1>4, <1>7, <2>1
    <3> QED
      BY <1>5, <2>3, <3>1
  <2> QED
    BY <1>9, <2>2, <2>3
<1>13. Reliable' /\ Recent' /\ Counted'
  <2>1. Reliable'
    BY <1>0, <1>1, <1>7 DEF Reliable
  <2>2. Recent'
    BY <1>0, <1>1, <1>7 DEF Recent, Indices
  <2>3. Counted'
    BY <1>1 DEF Counted
  <2> QED
    BY <2>1, <2>2, <2>3
<1>14. Data'
  <2>1. first' \in BOOLEAN /\ valid_wkc' \in BOOLEAN /\ spoilt' \in BOOLEAN
    BY <1>0, <1>1 DEF Data
  <2>2. \A n \in 1..Len(idxstack') : idxstack'[n].part = n
    BY <1>0, <1>1, <1>5 DEF Data
  <2> QED
    BY <1>0, <1>1, <1>7, <2>1, <2>2 DEF Data, Frames, NumberOfFrames, Indices
<1>15. FullCounterMeansFresh' /\ LossEndsWithCycle' /\ AnswersItsQuestion'
  BY <1>0, <1>1, Parts, ExpectedIsNumber
     DEF FullCounterMeansFresh, LossEndsWithCycle, AnswersItsQuestion, Expected, NumberOfFrames
<1> QED
  BY <1>7, <1>10, <1>11, <1>12, <1>13, <1>14, <1>15 DEF Fresh

LEMMA StartCommandKeeps ==
  ASSUME WithinLimits, Fresh, IInv', StartCommand
  PROVE  Fresh'
<1>0. Data /\ Matched /\ Behind /\ Arrives /\ Reliable /\ TypeOK /\ Stage /\ BuffersReleased /\ CommandTime
  BY Parts
<1>1. /\ command = Nothing /\ pc \in {"idle", "sent"} /\ pulled = 0
      /\ pc = "sent" => setup.commands = "anytime" /\ turn' = turn
      /\ pc = "idle" => NothingOlder /\ NextTurn
      /\ UNCHANGED <<setup, pc, number, idxstack, pulled, inputs, spoilt>>
      /\ UNCHANGED <<wkc, valid_wkc, first>> /\ returned' = Nothing /\ answer' = Nothing
      /\ question' \in 0..2
  <2>1. question' \in 0..2
    <3>1. question \in {0, 1, 2}
      BY <1>0 DEF TypeOK
    <3> QED
      BY <3>1 DEF StartCommand
  <2>2. /\ command = Nothing /\ pc \in {"idle", "sent"} /\ pc # "receiving"
        /\ pc = "sent" => setup.commands = "anytime" /\ turn' = turn
        /\ pc = "idle" => NothingOlder /\ NextTurn
    BY DEF StartCommand, MayCommand
  <2>3. pulled = 0
    BY <1>0, <2>2 DEF Stage
  <2> QED
    BY <2>1, <2>2, <2>3 DEF StartCommand, receive
<1>2. PICK i, new :
        /\ i \in Indices
        /\ new = CommandFrame(i, question', turn') /\ GetsIndex(i) /\ OutFrame(i, new, setup.lossy)
        /\ command' = [idx |-> i, tries |-> 1]
  BY DEF StartCommand
<1>3. /\ turn' \in 0..2
      /\ setup.late \/ setup.again =>
           /\ pc = "idle" /\ turn' # turn
           /\ \A frame \in Around : frame.turn = turn /\ Back(frame.idx) < NumberOfFrames
           /\ NumberOfFrames \in Nat \ {0} /\ NumberOfFrames <= Buffers - 1 /\ Buffers \in Nat
  <2>1. turn' \in 0..2
    BY <1>0, <1>1, BetweenOperations DEF TypeOK
  <2>2. ASSUME setup.late \/ setup.again
        PROVE  /\ NumberOfFrames \in Nat \ {0} /\ NumberOfFrames <= Buffers - 1 /\ Buffers \in Nat
               /\ pc = "idle"
    BY <1>0, <1>1, <2>2, Limits
  <2> QED
    BY <1>1, <2>1, <2>2, BetweenOperations
<1>4. Len(idxstack) < Buffers
  <2>1. CASE pc = "idle"
    BY <1>0, <2>1, Limits DEF Stage
  <2>2. CASE pc = "sent"
    <3>1. setup.commands = "anytime"
      BY <1>1, <2>2
    <3>2. NumberOfFrames < Buffers
      BY <1>0, <3>1, SetupFacts DEF WithinLimits
    <3> QED
      BY <1>0, <2>2, <3>2 DEF Stage
  <2> QED
    BY <1>1, <2>1, <2>2
<1>5. /\ rxbufstat[i] = "empty" /\ \A frame \in Around : frame.idx # i
      /\ setup.late \/ setup.again =>
           \A j \in Indices : j # i => IF j <= i THEN i - j = Back(j) + 1
                                                ELSE i - j + Buffers = Back(j) + 1
  <2> SUFFICES ASSUME setup.late \/ setup.again
               PROVE  /\ \A n \in Awaited : Back(idxstack[n].idx) < Buffers - 1
                      /\ \A f \in Around : Back(f.idx) < Buffers - 1
    BY <1>1, <1>2, <1>4, NewIndex
  <2>1. Awaited = {}
    BY <1>1, <1>3, Quiet
  <2>2. ASSUME NEW f \in Around PROVE Back(f.idx) < Buffers - 1
    <3>1. Back(f.idx) \in Int
      BY <1>0, AroundTyped, BackInRange DEF Datagram
    <3>2. NumberOfFrames + NumberOfFrames <= Buffers
      BY <1>0, Limits
    <3> QED
      BY <1>3, <3>1, <3>2
  <2> QED
    BY <2>1, <2>2
<1>6. /\ new \in Datagram /\ new.idx = i
      /\ \A f : f = new => f = CommandFrame(f.idx, question, turn)'
      /\ new.turn = turn'
  BY <1>0, <1>1, <1>2, <1>3 DEF CommandFrame, Datagram, TypeOK
<1>7. /\ lastidx' = i /\ rxbuf' = rxbuf /\ held' = held /\ rxbufstat'[i] = "tx"
      /\ \A j \in Indices : j # i => rxbufstat'[j] = rxbufstat[j]
      /\ Len(wire) \in Nat
      /\ \A n \in 1..Len(wire) : n \in 1..Len(wire') /\ wire'[n] = wire[n]
      /\ wire' # wire => /\ Len(wire') = Len(wire) + 1 /\ wire'[Len(wire) + 1] = new
      /\ ~setup.lossy => wire' # wire
      /\ \A frame \in Around' : frame \in Around \/ frame = new
      /\ Punctual' /\ Seen'
  BY <1>1, <1>2, <1>5, <1>6, Outgoing
<1>8. /\ Awaited' = Awaited /\ command'.idx = i
      /\ \A n \in Awaited : idxstack[n].idx \in Indices /\ idxstack[n].idx # i
  BY <1>0, <1>1, <1>2, <1>5, InUseByIndex DEF Awaited
<1>9. Matched'
  <2>1. \A n \in Awaited : Sent(n)' = Sent(n)
    <3>1. CASE pc = "idle"
      BY <1>1, <3>1, Quiet
    <3>2. CASE pc = "sent"
      BY <1>1, <3>2 DEF Sent
    <3> QED
      BY <1>1, <3>1, <3>2
  <2>2. ASSUME NEW f, f.idx # i, Matches(f)
        PROVE  /\ \A n \in Awaited' : idxstack'[n].idx = f.idx => f = Sent(n)'
               /\ command'.idx # f.idx
    BY <1>1, <1>8, <2>1, <2>2 DEF Matches
  <2>3. \A n \in Awaited' : idxstack'[n].idx # new.idx
    BY <1>1, <1>6, <1>8
  <2>4. ASSUME NEW f \in Around' PROVE Matches(f)'
    <3>1. CASE f = new
      BY <1>6, <2>3, <3>1 DEF Matches
    <3>2. CASE f \in Around
      BY <1>0, <1>5, <2>2, <3>2 DEF Matched, Matches
    <3> QED
      BY <1>7, <3>1, <3>2
  <2>5. ASSUME NEW j \in Indices, rxbufstat'[j] = "rcvd"
        PROVE  rxbuf'[j].idx = j /\ Matches(rxbuf[j])'
    <3>1. j # i /\ rxbuf[j].idx = j /\ Matches(rxbuf[j]) /\ rxbuf'[j] = rxbuf[j]
      BY <1>0, <1>7, <2>5 DEF Matched
    <3> QED
      BY <2>2, <3>1 DEF Matches
  <2> QED
    BY <2>4, <2>5 DEF Matched, Indices
<1>10. Arrives'
  <2>1. ~setup.lossy => wire'[Len(wire) + 1].idx = i /\ Len(wire) + 1 \in 1..Len(wire')
    BY <1>6, <1>7
  <2>2. ~setup.lossy => \E m \in 1..Len(wire') : wire'[m].idx = command'.idx
    BY <1>8, <2>1
  <2> QED
    BY <1>0, <1>1, <1>7, <1>8, <2>2 DEF Arrives
<1>11. Behind' /\ Reliable' /\ Recent' /\ Counted'
  <2>1. Behind'
    <3> SUFFICES ASSUME setup.late \/ setup.again PROVE Behind'
      BY <1>1 DEF Behind
    <3>1. /\ idxstack' = <<>> /\ command'.idx = lastidx' /\ Given' = NumberOfFrames
          /\ NumberOfFrames' = NumberOfFrames
      BY <1>0, <1>1, <1>3, <1>7, <1>8 DEF Stage, Given, NumberOfFrames
    <3>2. ASSUME NEW f \in Around' PROVE Back(f.idx)' < Given' + Older(f)'
      <4>1. CASE f \in Around
        <5>1. /\ f.idx \in Indices /\ f.idx # i /\ Back(f.idx) \in Int
              /\ Back(f.idx) < NumberOfFrames
          BY <1>0, <1>3, <1>5, <4>1, AroundTyped, BackInRange DEF Datagram
        <5>2. IF f.idx <= i THEN i - f.idx = Back(f.idx) + 1 ELSE i - f.idx + Buffers = Back(f.idx) + 1
          BY <1>5, <5>1
        <5>3. Back(f.idx)' = Back(f.idx) + 1
          BY <1>7, <5>2 DEF Back
        <5>4. Older(f)' = NumberOfFrames
          BY <1>3, <3>1, <4>1 DEF Older
        <5> QED
          BY <1>3, <3>1, <5>1, <5>3, <5>4
      <4>2. CASE f = new
        <5>1. Older(f)' = 0 /\ Back(f.idx)' = 0
          BY <1>2, <1>6, <1>7, <4>2 DEF Older, Back, Indices
        <5> QED
          BY <1>3, <3>1, <5>1
      <4> QED
        BY <1>7, <4>1, <4>2
    <3>3. \A n \in 1..Len(idxstack') : Back(idxstack[n].idx)' < number'
      BY <3>1
    <3> QED
      BY <3>1, <3>2, <3>3 DEF Behind
  <2>2. Recent'
    <3> SUFFICES ASSUME setup.again PROVE Recent'
      BY <1>1 DEF Recent
    <3>1. \A k \in Indices : rxbufstat'[k] # "rcvd"
      BY <1>1, <1>3, <1>7, Quiet
    <3>2. command' # Nothing
      <4>1. command' \in [idx : Indices, tries : 1..MaxTries]
        BY <1>2, SetupAssumption DEF SetupAssumption
      <4> QED
        BY <4>1, SetupAssumption, Zenon DEF SetupAssumption
    <3> QED
      BY <1>0, <1>1, <3>1, <3>2, SetupFacts DEF Recent, Indices
  <2>3. pc # "receiving" /\ pc' = pc
    BY <1>1
  <2> QED
    BY <1>0, <1>1, <2>1, <2>2, <2>3 DEF Reliable, Counted
<1>12. Data'
  <2>1. first' \in BOOLEAN /\ valid_wkc' \in BOOLEAN /\ spoilt' \in BOOLEAN
    BY <1>0, <1>1 DEF Data
  <2> QED
    BY <1>0, <1>1, <1>7, <2>1 DEF Data, Frames, NumberOfFrames, Indices
<1>13. FullCounterMeansFresh' /\ LossEndsWithCycle' /\ AnswersItsQuestion'
  BY <1>0, <1>1, ExpectedIsNumber
     DEF FullCounterMeansFresh, LossEndsWithCycle, AnswersItsQuestion, Expected, NumberOfFrames
<1> QED
  BY <1>7, <1>9, <1>10, <1>11, <1>12, <1>13 DEF Fresh

-----------------------------------------------------------------------------
(* Received frames                                                         *)

LEMMA Read ==
  ASSUME WithinLimits, Fresh, NEW frame, Recv(frame, setup.again)
  PROVE  /\ frame \in Around /\ frame \in Datagram /\ Around' \subseteq Around
         /\ \/ /\ frame = held /\ rxbufstat[frame.idx] # "tx" /\ wire' = wire /\ held' = held
            \/ /\ Len(wire) \in Nat /\ Len(wire') = Len(wire) - 1 /\ frame = wire[1]
               /\ \A n \in 1..Len(wire') : n + 1 \in 1..Len(wire) /\ wire'[n] = wire[n + 1]
               /\ held' # NoFrame => held' = frame /\ setup.again
               /\ ~setup.late => /\ rxbufstat[frame.idx] = "tx"
                                 /\ \A n \in 1..Len(wire') : wire'[n].idx # frame.idx
               /\ setup.again => frame.turn = turn
<1>0. Matched /\ Punctual /\ Seen /\ TypeOK /\ BuffersReleased /\ Data
  BY Parts
<1>1. CASE setup.again /\ held # NoFrame /\ frame = held /\ UNCHANGED <<wire, held>>
  BY <1>0, <1>1, AroundTyped, SMTT(20) DEF Around, Seen
<1>2. CASE wire # <<>> /\ frame = Head(wire) /\ wire' = Tail(wire)
           /\ held' = IF setup.again THEN frame ELSE NoFrame
  <2>1. /\ wire \in Seq(Datagram) /\ Len(wire) \in Nat \ {0} /\ frame = wire[1]
        /\ Len(wire') = Len(wire) - 1
        /\ \A n \in 1..Len(wire') : wire'[n] = wire[n + 1]
    BY <1>0, <1>2, HeadTailProperties, EmptySeq DEF TypeOK
  <2>2. \A n \in 1..Len(wire') : n + 1 \in 1..Len(wire) /\ n + 1 # 1
    BY <2>1
  <2>3. frame \in Around /\ frame \in Datagram /\ Around' \subseteq Around
    BY <1>0, <1>2, <2>1, <2>2, AroundTyped DEF Around
  <2>4. ~setup.late => /\ rxbufstat[frame.idx] = "tx"
                       /\ \A n \in 1..Len(wire') : wire'[n].idx # frame.idx
    BY <1>0, <2>1, <2>2 DEF Punctual
  <2>5. ASSUME setup.again PROVE frame.turn = turn
    <3>1. rxbufstat[frame.idx] = "tx" /\ frame.idx \in Indices /\ Matches(frame)
      BY <1>0, <2>3, <2>4, <2>5, Limits DEF Datagram, Matched
    <3>2. CASE \E n \in Awaited : idxstack[n].idx = frame.idx
      BY <3>1, <3>2 DEF Matches, Sent
    <3>3. CASE command # Nothing /\ command.idx = frame.idx
      <4>1. frame = CommandFrame(frame.idx, question, turn)
        BY <3>1, <3>3 DEF Matches
      <4>2. CommandFrame(frame.idx, question, turn).turn = turn
        BY DEF CommandFrame
      <4> QED
        BY <4>1, <4>2
    <3> QED
      BY <1>0, <3>1, <3>2, <3>3, InUseByIndex
  <2> QED
    BY <1>2, <2>1, <2>2, <2>3, <2>4, <2>5
<1> QED
  BY <1>1, <1>2 DEF Recv

\* What a receiver leaves alone.
Stays ==
  /\ UNCHANGED <<setup, pc, number, idxstack, turn, question, spoilt>>
  /\ \A n \in Awaited' : n \in Awaited
  /\ command' = command \/ command' = Nothing

\* The buffers and the network after a frame was found or read.
Received(frame) ==
  /\ rxbuf' \in [Indices -> Datagram \cup {NoFrame}] /\ lastidx' = lastidx
  /\ Around' \subseteq Around
  /\ \A j \in Indices : rxbufstat'[j] = "tx" => rxbufstat[j] = "tx"
  /\ \A j \in Indices : rxbufstat'[j] = "rcvd" =>
        \/ rxbufstat[j] = "rcvd" /\ rxbuf'[j] = rxbuf[j]
        \/ rxbuf'[j].idx = j /\ rxbuf'[j] \in Around
  /\ \A j \in Indices : rxbufstat'[j] = "tx" /\ (\E m \in 1..Len(wire) : wire[m].idx = j) =>
                          \E m \in 1..Len(wire') : wire'[m].idx = j
  /\ Punctual' /\ Seen' /\ Recent'

LEMMA KeptReceived ==
  ASSUME WithinLimits, Fresh, Stays, NEW i \in Indices, FindKept(i)
  PROVE  Received(rxbuf[i]) /\ rxbuf[i].idx = i /\ Matches(rxbuf[i])
<1> USE DEF FindKept, Release
<1>0. TypeOK /\ Data /\ Matched /\ Punctual /\ Seen /\ Recent
  BY Parts
<1>1. /\ rxbufstat[i] = "rcvd" /\ rxbufstat'[i] = "empty" /\ rxbuf'[i] = NoFrame
      /\ \A j \in Indices : j # i => rxbufstat'[j] = rxbufstat[j] /\ rxbuf'[j] = rxbuf[j]
      /\ UNCHANGED <<lastidx, wire, held, setup, turn>>
      /\ rxbuf' \in [Indices -> Datagram \cup {NoFrame}]
  BY <1>0 DEF TypeOK, Data, Stays
<1>2. Around' = Around
  BY <1>1 DEF Around
<1>3. Punctual'
  <2> SUFFICES ASSUME ~setup.late PROVE Punctual'
    BY <1>1 DEF Punctual
  <2>1. \A n \in 1..Len(wire) : wire[n].idx \in Indices /\ rxbufstat[wire[n].idx] = "tx"
    BY <1>0, AroundTyped DEF Punctual, Datagram
  <2>2. \A n \in 1..Len(wire) : rxbufstat'[wire[n].idx] = "tx"
    BY <1>1, <2>1
  <2> QED
    BY <1>0, <1>1, <2>2 DEF Punctual
<1>4. Seen'
  <2> SUFFICES ASSUME held # NoFrame PROVE setup.again /\ rxbufstat'[held.idx] # "tx"
    BY <1>1 DEF Seen
  <2>1. held.idx \in Indices /\ setup.again /\ rxbufstat[held.idx] # "tx"
    BY <1>0 DEF Seen, TypeOK, Datagram
  <2> QED
    BY <1>1, <2>1
<1>5. Recent'
  BY <1>0, <1>1 DEF Recent
<1> QED
  BY <1>0, <1>1, <1>2, <1>3, <1>4, <1>5 DEF Received, Matched

\* A frame is read, and its buffer does not wait any more.
LEMMA ReadReceived ==
  ASSUME WithinLimits, Fresh, Stays, NEW frame, Recv(frame, setup.again),
         rxbuf' \in [Indices -> Datagram \cup {NoFrame}], lastidx' = lastidx,
         rxbufstat'[frame.idx] # "tx",
         \A j \in Indices : j # frame.idx => rxbufstat'[j] = rxbufstat[j] /\ rxbuf'[j] = rxbuf[j],
         rxbufstat'[frame.idx] = "rcvd" =>
           \/ rxbufstat[frame.idx] = "rcvd" /\ rxbuf'[frame.idx] = rxbuf[frame.idx]
           \/ rxbuf'[frame.idx] = frame,
         \/ rxbufstat[frame.idx] = "tx"
         \/ UNCHANGED <<pulled, command>> /\ rxbufstat'[frame.idx] = rxbufstat[frame.idx]
  PROVE  Received(frame) /\ frame.idx \in Indices /\ Matches(frame)
<1>0. TypeOK /\ Data /\ Matched /\ Punctual /\ Seen /\ Recent
  BY Parts
<1>1. /\ frame \in Around /\ frame \in Datagram /\ frame.idx \in Indices /\ Around' \subseteq Around
      /\ UNCHANGED <<setup, turn, pc>>
  BY Read DEF Datagram, Stays
<1>2. \A j \in Indices : rxbufstat'[j] = "tx" => rxbufstat[j] = "tx" /\ j # frame.idx
  BY <1>1
<1>3. \A n \in 1..Len(wire) : wire[n].idx \in Indices
  BY <1>0, AroundTyped DEF Datagram
<1>4. CASE frame = held /\ rxbufstat[frame.idx] # "tx" /\ wire' = wire /\ held' = held
  <2>1. UNCHANGED <<pulled, command>> /\ \A j \in Indices : rxbufstat'[j] = rxbufstat[j]
    BY <1>4
  <2>2. Punctual'
    BY <1>0, <1>1, <1>3, <1>4, <2>1 DEF Punctual
  <2>3. Seen' /\ Recent'
    BY <1>0, <1>1, <1>4, <2>1 DEF Seen, Recent, Indices
  <2> QED
    BY <1>0, <1>1, <1>2, <1>4, <2>2, <2>3 DEF Received, Matched
<1>5. CASE /\ Len(wire) \in Nat /\ Len(wire') = Len(wire) - 1 /\ frame = wire[1]
           /\ \A n \in 1..Len(wire') : n + 1 \in 1..Len(wire) /\ wire'[n] = wire[n + 1]
           /\ held' # NoFrame => held' = frame /\ setup.again
           /\ ~setup.late => /\ rxbufstat[frame.idx] = "tx"
                             /\ \A n \in 1..Len(wire') : wire'[n].idx # frame.idx
           /\ setup.again => frame.turn = turn
  <2>1. Punctual'
    <3> SUFFICES ASSUME ~setup.late PROVE Punctual'
      BY <1>1 DEF Punctual
    <3>1. \A n \in 1..Len(wire') : /\ wire'[n].idx \in Indices /\ wire'[n].idx # frame.idx
                                   /\ rxbufstat[wire'[n].idx] = "tx"
      BY <1>0, <1>3, <1>5 DEF Punctual
    <3>2. \A m, n \in 1..Len(wire') : wire'[m].idx = wire'[n].idx => m + 1 = n + 1
      BY <1>0, <1>5 DEF Punctual
    <3>3. \A m, n \in 1..Len(wire') : wire'[m].idx = wire'[n].idx => m = n
      BY <3>2
    <3> QED
      BY <3>1, <3>3 DEF Punctual
  <2>2. Seen' /\ Recent'
    BY <1>1, <1>5 DEF Seen, Recent
  <2>3. ASSUME NEW j \in Indices, rxbufstat'[j] = "tx", NEW m \in 1..Len(wire), wire[m].idx = j
        PROVE  \E n \in 1..Len(wire') : wire'[n].idx = j
    <3>1. m # 1
      BY <1>2, <1>5, <2>3
    <3>2. m - 1 \in 1..Len(wire') /\ m - 1 + 1 = m
      BY <1>5, <3>1
    <3> QED
      BY <1>5, <2>3, <3>2
  <2> QED
    BY <1>0, <1>1, <1>2, <2>1, <2>2, <2>3 DEF Received, Matched
<1> QED
  BY <1>4, <1>5, Read

LEMMA OwnReceived ==
  ASSUME WithinLimits, Fresh, Stays, NEW i \in Indices, rxbufstat[i] # "empty", NEW frame,
         ReadOwn(i, frame, setup.again)
  PROVE  Received(frame) /\ frame.idx = i /\ Matches(frame)
<1>0. TypeOK /\ Data
  BY Parts
<1>1. /\ Recv(frame, setup.again) /\ frame.idx = i /\ rxbuf' = rxbuf /\ lastidx' = lastidx
      /\ rxbufstat'[i] = "empty" /\ \A j \in Indices : j # i => rxbufstat'[j] = rxbufstat[j]
  BY <1>0 DEF ReadOwn, Release, TypeOK
<1>2. rxbufstat[i] = "tx"
  BY <1>0 DEF ReadOwn, TypeOK, BufferStates
<1> QED
  BY <1>0, <1>1, <1>2, ReadReceived DEF Data

LEMMA OtherReceived ==
  ASSUME WithinLimits, Fresh, Stays, UNCHANGED <<pulled, command>>, NEW i, NEW frame,
         ReadOther(i, frame, setup.again)
  PROVE  Received(frame)
<1>0. TypeOK /\ Data
  BY Parts
<1>1. Recv(frame, setup.again) /\ KeepForOther(frame) /\ lastidx' = lastidx
  BY DEF ReadOther
<1>2. frame \in Datagram /\ frame.idx \in Indices
  BY <1>1, Read DEF Datagram
<1>3. CASE rxbufstat[frame.idx] = "tx"
  <2>1. /\ rxbuf' = [rxbuf EXCEPT ![frame.idx] = frame]
        /\ rxbufstat' = [rxbufstat EXCEPT ![frame.idx] = "rcvd"]
    BY <1>1, <1>3 DEF KeepForOther
  <2>2. rxbufstat \in [Indices -> BufferStates] /\ rxbuf \in [Indices -> Datagram \cup {NoFrame}]
    BY <1>0 DEF TypeOK, Data
  <2>3. rxbuf' \in [Indices -> Datagram \cup {NoFrame}] /\ rxbuf'[frame.idx] = frame
    BY <1>2, <2>1, <2>2
  <2>4. rxbufstat'[frame.idx] = "rcvd"
    BY <1>2, <2>1, <2>2
  <2>5. \A j \in Indices : j # frame.idx => rxbufstat'[j] = rxbufstat[j] /\ rxbuf'[j] = rxbuf[j]
    BY <1>2, <2>1, <2>2
  <2> QED
    BY <1>1, <1>3, <2>3, <2>4, <2>5, ReadReceived
<1>4. CASE rxbufstat[frame.idx] # "tx"
  <2>1. rxbuf' = rxbuf /\ rxbufstat' = rxbufstat
    BY <1>1, <1>4 DEF KeepForOther
  <2> QED
    BY <1>0, <1>1, <1>4, <2>1, ReadReceived DEF Data
<1> QED
  BY <1>3, <1>4

\* What the master goes on with.
LEMMA GoesOn ==
  ASSUME WithinLimits, Fresh, Stays, NEW frame, Received(frame)
  PROVE  Matched' /\ Punctual' /\ Seen' /\ Behind' /\ Arrives' /\ Reliable' /\ Recent'
<1>0. Matched /\ Behind /\ Arrives /\ Reliable /\ TypeOK /\ BuffersReleased
  BY Parts
<1>1. Matched'
  <2>1. WaitsOn
    BY DEF Stays, WaitsOn
  <2> QED
    BY <1>0, <2>1, MatchedKept DEF Received
<1>2. Behind'
  <2> SUFFICES ASSUME setup.late \/ setup.again PROVE Behind'
    BY DEF Stays, Behind
  <2>1. /\ \A n \in 1..Len(idxstack) : Back(idxstack[n].idx) < number
        /\ command' # Nothing => command'.idx = lastidx
        /\ \A f \in Around' : Back(f.idx) < Given + Older(f)
    BY <1>0 DEF Behind, Received, Stays
  <2>2. \A f : Older(f)' = Older(f) /\ Back(f.idx)' = Back(f.idx)
    BY DEF Stays, Received, Older, NumberOfFrames, Back
  <2>3. Given' = Given /\ lastidx' = lastidx
    BY DEF Stays, Received, Given, NumberOfFrames
  <2>4. \A n \in 1..Len(idxstack') : Back(idxstack[n].idx)' < number'
    BY <2>1 DEF Stays, Received, Back
  <2> QED
    BY <2>1, <2>2, <2>3, <2>4 DEF Behind
<1>3. Arrives'
  <2>1. \A n \in Awaited : idxstack[n].idx \in Indices
    BY <1>0, InUseByIndex
  <2>2. command' # Nothing => command' = command /\ command.idx \in Indices
    BY <1>0, InUseByIndex DEF Stays
  <2> QED
    BY <1>0, <2>1, <2>2 DEF Arrives, Stays, Received
<1> QED
  BY <1>0, <1>1, <1>2, <1>3 DEF Received, Stays, Reliable

\* The frame that was waited for is copied: the counter stays as full as the
\* inputs are fresh.
LEMMA FrameCopied ==
  ASSUME WithinLimits, Fresh, Awaiting, NEW frame, frame.idx = Entry.idx, Matches(frame),
         FrameFound(frame), UNCHANGED <<setup, pc, idxstack, turn, spoilt>>
  PROVE  /\ Counted' /\ pulled' = pulled + 1 /\ valid_wkc' = TRUE /\ first' = FALSE
         /\ inputs' \in [Frames -> [part : Nat, turn : 0..2]]
<1>0. Data /\ TypeOK /\ Stage /\ Counted /\ Reliable
  BY Parts
<1>1. /\ pulled \in Nat /\ pulled < NumberOfFrames /\ Len(idxstack) = NumberOfFrames
      /\ NumberOfFrames \in Nat /\ pulled + 1 \in Awaited /\ pulled + 1 \in Frames
      /\ wkc \in Nat /\ pulled' = pulled + 1
  <2>1. NumberOfFrames \in Nat /\ Len(idxstack) = NumberOfFrames /\ pulled \in 0..Len(idxstack)
    BY <1>0, Limits, StackTyped DEF Awaiting, Stage
  <2> QED
    BY <1>0, <2>1 DEF Awaiting, Awaited, Frames, TypeOK, FrameFound
<1>2. /\ frame.command = setup.frames[pulled + 1] /\ frame.part = pulled + 1
      /\ frame.dc = (setup.dc /\ pulled = 0) /\ frame.turn = turn /\ Entry.part = pulled + 1
  <2>1. frame = Sent(pulled + 1)
    BY <1>1 DEF Matches, Entry
  <2> QED
    BY <1>0, <1>1, <2>1, StackTyped DEF Sent, Data, Entry, Awaiting
<1>3. /\ setup.frames[pulled + 1] \in {"LRW", "LRD", "LWR"}
      /\ Full(pulled) \in Nat /\ Increment(setup.frames[pulled + 1]) \in Nat \ {0}
      /\ Full(pulled + 1) = Full(pulled) + Increment(setup.frames[pulled + 1])
  BY <1>0, <1>1, FullGrows
<1>4. Copy(frame)
  BY <1>2, <1>3 DEF FrameFound, Ignore
<1>5. frame.dc = first
  <2>1. first \in BOOLEAN /\ setup.dc \in BOOLEAN /\ spoilt \in BOOLEAN
    BY <1>0, SetupFacts DEF Data
  <2>2. CASE pulled = 0
    BY <1>0, <1>2, <2>1, <2>2 DEF Counted, Awaiting
  <2>3. CASE pulled > 0
    <3>1. ~first
      <4> SUFFICES ASSUME first PROVE FALSE
        OBVIOUS
      <4>1. setup.dc /\ NumberOfFrames > 1
        BY <1>0, <1>1, <2>3 DEF Counted, Awaiting
      <4>2. ~spoilt
        BY <1>0, <4>1, Limits DEF Reliable
      <4> QED
        BY <1>0, <2>3, <4>2 DEF Counted, Awaiting
    <3> QED
      BY <1>1, <1>2, <2>1, <2>3, <3>1
  <2> QED
    BY <1>1, <2>2, <2>3
<1>6. /\ wkc' = wkc + Increment(setup.frames[pulled + 1]) /\ valid_wkc' = TRUE /\ first' = FALSE
      /\ inputs' = IF setup.frames[pulled + 1] = "LWR" THEN inputs
                   ELSE [inputs EXCEPT ![pulled + 1] = [part |-> pulled + 1, turn |-> turn]]
  BY <1>2, <1>4, <1>5 DEF Copy, FoundCounter, Increment
<1>7. /\ inputs' \in [Frames -> [part : Nat, turn : 0..2]]
      /\ \A f \in Frames : f # pulled + 1 => inputs'[f] = inputs[f]
      /\ setup.frames[pulled + 1] # "LWR" =>
           inputs'[pulled + 1] = [part |-> pulled + 1, turn |-> turn]
  <2>1. inputs \in [Frames -> [part : Nat, turn : 0..2]] /\ turn \in 0..2
    BY <1>0 DEF Data, TypeOK
  <2>2. [part |-> pulled + 1, turn |-> turn] \in [part : Nat, turn : 0..2]
    BY <1>1, <2>1
  <2>3. inputs' \in [Frames -> [part : Nat, turn : 0..2]]
    BY <1>6, <2>1, <2>2
  <2>4. setup.frames[pulled + 1] # "LWR" =>
          inputs'[pulled + 1] = [part |-> pulled + 1, turn |-> turn]
    BY <1>1, <1>6, <2>1
  <2>5. \A f \in Frames : f # pulled + 1 => inputs'[f] = inputs[f]
    BY <1>6, <2>1
  <2> QED
    BY <2>3, <2>4, <2>5
<1>8. Counted'
  <2>1. Full(pulled)' = Full(pulled) + Increment(setup.frames[pulled + 1])
    BY <1>1, <1>3 DEF Full
  <2>2. wkc <= Full(pulled) /\ (wkc = Full(pulled) => \A f \in 1..pulled : CopiedOut(f))
    BY <1>0 DEF Counted, Awaiting
  <2>3. wkc' <= Full(pulled)' /\ (wkc' = Full(pulled)' => wkc = Full(pulled))
    BY <1>1, <1>3, <1>6, <2>1, <2>2
  <2>4. ~spoilt => wkc' = Full(pulled)'
    <3>1. pulled = 0 => wkc = Full(pulled)
      BY <1>1, <2>2 DEF Full
    <3>2. ~spoilt /\ pulled > 0 => wkc = Full(pulled)
      BY <1>0 DEF Counted, Awaiting
    <3> QED
      BY <1>1, <1>6, <2>1, <3>1, <3>2
  <2>5. ASSUME wkc' = Full(pulled)', NEW f \in 1..pulled'
        PROVE  setup'.frames[f] # "LWR" => inputs'[f] = [part |-> f, turn |-> turn']
    <3>1. CASE f = pulled + 1
      BY <1>7, <3>1
    <3>2. CASE f \in 1..pulled
      <4>1. CopiedOut(f) /\ f \in Frames /\ f # pulled + 1
        BY <1>1, <2>2, <2>3, <2>5, <3>2 DEF Frames
      <4> QED
        BY <1>7, <4>1 DEF CopiedOut
    <3> QED
      BY <1>1, <3>1, <3>2
  <2> QED
    BY <1>1, <1>6, <2>3, <2>4, <2>5 DEF Counted, CopiedOut
<1> QED
  BY <1>1, <1>6, <1>7, <1>8

LEMMA ReceiveFrameKeeps ==
  ASSUME WithinLimits, Fresh, IInv', ReceiveFrame
  PROVE  Fresh'
<1>0. Data /\ TypeOK /\ Stage /\ CommandTime /\ BuffersReleased /\ Counted
  BY Parts
<1>1. /\ Awaiting /\ pc = "receiving" /\ command = Nothing
      /\ UNCHANGED <<setup, pc, number, idxstack, returned, command, answer, turn, question, spoilt>>
  BY <1>0 DEF ReceiveFrame, Awaiting, CommandTime
<1>2. /\ Len(idxstack) \in Nat /\ pulled \in Nat /\ pulled + 1 \in Awaited
      /\ Entry.idx \in Indices /\ rxbufstat[Entry.idx] # "empty"
  <2>1. Len(idxstack) \in Nat /\ pulled \in Nat /\ pulled + 1 \in Awaited
    BY <1>0, <1>1, StackTyped DEF Awaiting, Awaited
  <2> QED
    BY <1>0, <2>1, InUseByIndex DEF Entry
<1>3. pulled' = pulled \/ pulled' = pulled + 1 => Stays
  BY <1>1, <1>2 DEF Stays, Awaited
<1>4. PICK frame :
        /\ Received(frame) /\ Stays
        /\ \/ frame.idx = Entry.idx /\ Matches(frame) /\ FrameFound(frame)
           \/ FrameAwaited
  <2>1. CASE FindKept(Entry.idx) /\ FrameFound(rxbuf[Entry.idx])
    BY <1>2, <1>3, <2>1, KeptReceived DEF FrameFound
  <2>2. CASE \E frame \in Receivable :
               ReadOwn(Entry.idx, frame, setup.again) /\ FrameFound(frame)
    BY <1>2, <1>3, <2>2, OwnReceived DEF FrameFound
  <2>3. CASE \E frame \in Receivable :
               ReadOther(Entry.idx, frame, setup.again) /\ FrameAwaited
    BY <1>1, <1>2, <1>3, <2>3, OtherReceived DEF FrameAwaited
  <2> QED
    BY <2>1, <2>2, <2>3 DEF ReceiveFrame
<1>5. Matched' /\ Punctual' /\ Seen' /\ Behind' /\ Arrives' /\ Reliable' /\ Recent'
  BY <1>4, GoesOn
<1>6. /\ Counted' /\ first' \in BOOLEAN /\ valid_wkc' \in BOOLEAN
      /\ inputs' \in [Frames -> [part : Nat, turn : 0..2]]
  <2>1. CASE frame.idx = Entry.idx /\ Matches(frame) /\ FrameFound(frame)
    BY <1>1, <2>1, FrameCopied
  <2>2. CASE FrameAwaited
    <3>1. first' = first /\ valid_wkc' = valid_wkc /\ wkc' = wkc
          /\ UNCHANGED <<inputs, pulled>>
      BY <2>2 DEF FrameAwaited, receive
    <3>2. Counted'
      BY <1>0, <1>1, <3>1 DEF Counted, Full, CopiedOut
    <3> QED
      BY <1>0, <3>1, <3>2 DEF Data
  <2> QED
    BY <1>4, <2>1, <2>2
<1>7. Data'
  <2>1. first' \in BOOLEAN /\ valid_wkc' \in BOOLEAN /\ spoilt' \in BOOLEAN
    BY <1>0, <1>1, <1>6 DEF Data
  <2> QED
    BY <1>0, <1>1, <1>4, <1>6, <2>1 DEF Data, Received, Frames, NumberOfFrames, Indices
<1>8. FullCounterMeansFresh' /\ LossEndsWithCycle' /\ AnswersItsQuestion'
  BY <1>1, SameResults
<1> QED
  BY <1>5, <1>6, <1>7, <1>8 DEF Fresh

LEMMA ReceiveAnswerKeeps ==
  ASSUME WithinLimits, Fresh, IInv', ReceiveAnswer
  PROVE  Fresh'
<1>0. Data /\ TypeOK /\ BuffersReleased /\ Counted /\ FullCounterMeansFresh /\ LossEndsWithCycle
      /\ AnswersItsQuestion
  BY Parts
<1>1. /\ command # Nothing /\ UNCHANGED <<setup, pc, number, turn, question, spoilt>>
      /\ UNCHANGED <<idxstack, pulled, inputs, returned, wkc, valid_wkc, first>>
  BY DEF ReceiveAnswer, receive, io
<1>2. command.idx \in Indices /\ rxbufstat[command.idx] # "empty"
  BY <1>1, Commanded
<1>3. command' = command \/ command' = Nothing => Stays
  BY <1>1 DEF Stays, Awaited
<1>4. PICK frame :
        /\ Received(frame) /\ Stays
        /\ \/ frame.idx = command.idx /\ Matches(frame) /\ CommandFound(frame)
           \/ CommandAwaited
  <2>1. CASE FindKept(command.idx) /\ CommandFound(rxbuf[command.idx])
    BY <1>2, <1>3, <2>1, KeptReceived DEF CommandFound
  <2>2. CASE \E frame \in Receivable :
               ReadOwn(command.idx, frame, setup.again) /\ CommandFound(frame)
    BY <1>2, <1>3, <2>2, OwnReceived DEF CommandFound
  <2>3. CASE \E frame \in Receivable :
               ReadOther(command.idx, frame, setup.again) /\ CommandAwaited
    BY <1>1, <1>3, <2>3, OtherReceived DEF CommandAwaited
  <2> QED
    BY <2>1, <2>2, <2>3 DEF ReceiveAnswer
<1>5. Matched' /\ Punctual' /\ Seen' /\ Behind' /\ Arrives' /\ Reliable' /\ Recent'
  BY <1>4, GoesOn
<1>6. Counted' /\ FullCounterMeansFresh' /\ LossEndsWithCycle'
  BY <1>0, <1>1 DEF Counted, Full, CopiedOut, FullCounterMeansFresh, LossEndsWithCycle, Expected,
                    Frames, NumberOfFrames
<1>7. AnswersItsQuestion'
  <2>1. CASE frame.idx = command.idx /\ Matches(frame) /\ CommandFound(frame)
    <3>1. frame = CommandFrame(frame.idx, question, turn)
      BY <1>1, <2>1 DEF Matches
    <3>2. frame.command = "FPRD" /\ frame.part = question
      BY <3>1 DEF CommandFrame
    <3> QED
      BY <1>1, <2>1, <3>2 DEF CommandFound, AnswersItsQuestion
  <2>2. CASE CommandAwaited
    BY <1>0, <1>1, <2>2 DEF CommandAwaited, AnswersItsQuestion
  <2> QED
    BY <1>4, <2>1, <2>2
<1>8. Data'
  <2>1. first' \in BOOLEAN /\ valid_wkc' \in BOOLEAN /\ spoilt' \in BOOLEAN
    BY <1>0, <1>1 DEF Data
  <2> QED
    BY <1>0, <1>1, <1>4, <2>1 DEF Data, Received, Frames, NumberOfFrames, Indices, Stays
<1> QED
  BY <1>5, <1>6, <1>7, <1>8 DEF Fresh

-----------------------------------------------------------------------------
(* The theorems                                                            *)

LEMMA NextKeeps ==
  ASSUME WithinLimits, Fresh, [Next]_vars
  PROVE  Fresh'
<1>1. IInv'
  BY NextPreserves DEF Fresh, WithinLimits
<1>2. CASE Next
  BY <1>1, <1>2, StartCycleKeeps, SendFrameKeeps, StartReceiveKeeps, ReceiveFrameKeeps,
     ReceiveTimesOutKeeps, EndReceiveKeeps, StartCommandKeeps, ReceiveAnswerKeeps,
     TryAgainKeeps, CommandFailsKeeps, VanishKeeps DEF Next, Master, User
<1>3. CASE UNCHANGED vars
  <2> USE <1>3 DEF vars, frames, receive, io
  <2>1. UNCHANGED <<rxbufstat, rxbuf, lastidx, wire, held, setup, pc, number, idxstack, pulled,
                    command, turn, question, spoilt>>
    OBVIOUS
  <2>2. Len(idxstack) \in Nat /\ WaitsOn
    BY <2>1, Parts, StackTyped DEF WaitsOn, Awaited
  <2>7. Given' = Given
    BY <2>1 DEF Given, NumberOfFrames
  <2>3. Matched' /\ Punctual' /\ Seen' /\ Behind'
    BY <2>1, <2>2, <2>7, NothingRead
  <2>4. Data'
    <3>1. first' \in BOOLEAN /\ valid_wkc' \in BOOLEAN /\ spoilt' \in BOOLEAN
      BY Parts DEF Data
    <3> QED
      BY <3>1, Parts DEF Data, Frames, NumberOfFrames, Indices
  <2>5. Arrives' /\ Reliable' /\ Recent' /\ Counted'
    BY Parts DEF Arrives, Awaited, Reliable, Recent, Indices, Counted, Full, CopiedOut
  <2>6. FullCounterMeansFresh' /\ LossEndsWithCycle' /\ AnswersItsQuestion'
    BY SameResults
  <2> QED
    BY <1>1, <2>3, <2>4, <2>5, <2>6 DEF Fresh
<1> QED
  BY <1>2, <1>3

\* Within the limits of the master a full work counter means that every input in
\* the IO map is of this cycle and in its place (ecx_receive_processdata_group).
THEOREM FullCounterIsFresh ==
  ASSUME WithinLimits
  PROVE  Spec => []FullCounterMeansFresh
<1>1. Fresh => FullCounterMeansFresh
  BY DEF Fresh
<1> QED
  BY <1>1, InitFresh, NextKeeps, PTL DEF Spec

\* Within them nothing but a frame of the very cycle that is lost or late makes
\* the counter short: no earlier cycle and no command leaves anything behind in
\* the buffers (ecx_inframe, ecx_getindex).
THEOREM OnlyLossShortens ==
  ASSUME WithinLimits
  PROVE  Spec => []LossEndsWithCycle
<1>1. Fresh => LossEndsWithCycle
  BY DEF Fresh
<1> QED
  BY <1>1, InitFresh, NextKeeps, PTL DEF Spec

\* Within them a command returns the answer to its own question: however often it
\* was sent, whatever was kept for others meanwhile, and whatever is still on its
\* way, or read again, of what the command or cycle before sent and sent again
\* (ecx_srconfirm, ecx_inframe).
THEOREM CommandGetsItsAnswer ==
  ASSUME WithinLimits
  PROVE  Spec => []AnswersItsQuestion
<1>1. Fresh => AnswersItsQuestion
  BY DEF Fresh
<1> QED
  BY <1>1, InitFresh, NextKeeps, PTL DEF Spec

-----------------------------------------------------------------------------
(* Ethernet over EtherCAT                                                  *)

\* ecx_EOEsend has something left to send until it returns.
SendingInside == sending # None => sending.offset < Len(sending.payload)

\* The buffer is written up to rxframeoffset, without gaps.
Filled == \A k \in 1..rx.frameoffset : buf[k] \in Unit

EoEInv == EoETypeOK /\ SendingInside /\ Filled

-----------------------------------------------------------------------------
(* The sender                                                              *)

LEMMA ConstantsTyped ==
  /\ Block \in Nat /\ Block > 0 /\ MaxData \in Nat /\ Room \in Nat
  /\ FrameNos \in Nat /\ FrameNos > 0 /\ Tags \in Nat /\ Tags > 0
  /\ MaxFaults \in Nat /\ Block <= MaxData
  /\ \A n \in Lengths : n \in Nat \ {0}
BY EoEAssumption DEF EoEAssumption

LEMMA QuotientNatural ==
  ASSUME NEW n \in Nat, NEW b \in Nat \ {0}
  PROVE  n \div b \in Nat
<1> DEFINE q == n \div b
           r == n % b
<1>1. n = b * q + r /\ q \in Int /\ r \in 0..b - 1
  OBVIOUS
<1>2. SUFFICES ASSUME q < 0
               PROVE  FALSE
  BY <1>1
<1> HIDE DEF q, r
<1>3. b * q <= -b
  BY <1>1, <1>2
<1> QED
  BY <1>1, <1>3

LEMMA WholeBlocks ==
  /\ (MaxData \div Block) * Block \in 1..MaxData
  /\ \A n \in Nat : Blocks(n) \in Nat /\ n \div Block \in Nat
<1> DEFINE q == MaxData \div Block
           r == MaxData % Block
<1>1. MaxData = q * Block + r /\ q \in Int /\ r \in 0..Block - 1
  BY ConstantsTyped
<1>2. q >= 1
  <2>1. SUFFICES ASSUME q <= 0
                 PROVE  FALSE
    BY <1>1
  <2>2. q * Block <= 0
    BY <1>1, <2>1, ConstantsTyped
  <2> QED
    BY <1>1, <2>2, ConstantsTyped
<1>3. q * Block >= Block /\ q * Block \in Int
  BY <1>1, <1>2, ConstantsTyped
<1>4. \A n \in Nat : n \div Block \in Nat
  <2>1. Block \in Nat \ {0}
    BY ConstantsTyped
  <2> QED
    BY <2>1, QuotientNatural
<1>5. \A n \in Nat : Blocks(n) \in Nat
  <2>1. ASSUME NEW n \in Nat
        PROVE  n + Block - 1 \in Nat
    <3>1. Block \in Nat /\ Block >= 1
      BY ConstantsTyped
    <3> QED
      BY ONLY <3>1, n \in Nat
  <2> QED
    BY <1>4, <2>1 DEF Blocks
<1> HIDE DEF q, r
<1>6. q * Block \in 1..MaxData
  BY <1>1, <1>3, ConstantsTyped
<1> QED
  BY <1>4, <1>5, <1>6 DEF q

LEMMA FrameTyped ==
  ASSUME NEW length \in Nat \ {0}, NEW t \in 0..Tags - 1
  PROVE  /\ Frame(length, t) \in Seq(Unit) /\ Len(Frame(length, t)) = length
         /\ Append(Frame(length, t), Stamp(t)) \in Seq(Unit)
         /\ Len(Append(Frame(length, t), Stamp(t))) = length + 1
<1>1. Frame(length, t) \in Seq(Unit) /\ Len(Frame(length, t)) = length
  BY DEF Frame, Unit
<1>2. Stamp(t) \in Unit
  BY DEF Stamp, Unit
<1> QED
  BY <1>1, <1>2, AppendProperties

\* A fragment lies in the frame, and one that is not the last leaves some.
LEMMA FragmentTyped ==
  ASSUME EoEInv, sending # None
  PROVE  /\ Fragment \in Fragments
         /\ FragmentSize \in Nat /\ sending \in Sendings
         /\ ~Fragment.last => sending.offset + FragmentSize < Len(sending.payload)
<1>1. /\ sending \in Sendings /\ sending.payload \in Seq(Unit) /\ sending.frame \in Seq(Unit)
      /\ sending.offset \in Nat /\ sending.fragmentno \in Nat
      /\ Len(sending.payload) \in Nat /\ sending.offset < Len(sending.payload)
  BY LenProperties DEF EoEInv, EoETypeOK, SendingInside, Sendings
<1>2. Left \in Nat \ {0} /\ FragmentSize \in 1..Left
  <2> DEFINE whole == (MaxData \div Block) * Block
  <2>1. whole \in 1..MaxData /\ MaxData \in Nat
    BY WholeBlocks, ConstantsTyped
  <2>2. Left \in Nat \ {0}
    BY <1>1 DEF Left
  <2>3. FragmentSize = IF Left > MaxData THEN whole ELSE Left
    BY DEF FragmentSize
  <2> HIDE DEF whole
  <2> QED
    BY <2>1, <2>2, <2>3
<1>3. SubSeq(sending.payload, sending.offset + 1, sending.offset + FragmentSize) \in Seq(Unit)
  <2>1. \A i \in sending.offset + 1..sending.offset + FragmentSize : sending.payload[i] \in Unit
    BY <1>1, <1>2, ElementOfSeq DEF Left
  <2> QED
    BY <1>1, <1>2, <2>1, SubSeqProperties
<1>4. /\ sending.offset \div Block \in Nat
      /\ Blocks(Len(sending.payload)) \in Nat
  BY <1>1, WholeBlocks
<1>5. txframeno \in 0..FrameNos - 1 /\ stamps \in BOOLEAN
  BY DEF EoEInv, EoETypeOK
<1>6. Fragment \in Fragments
  BY <1>1, <1>3, <1>4, <1>5 DEF Fragment, Fragments
<1>7. ~Fragment.last => sending.offset + FragmentSize < Len(sending.payload)
  <2>1. ~Fragment.last => FragmentSize # Left
    BY Zenon DEF Fragment
  <2>2. Left = Len(sending.payload) - sending.offset
    BY DEF Left
  <2> QED
    BY <1>1, <1>2, <2>1, <2>2
<1> QED
  BY <1>1, <1>2, <1>6, <1>7

-----------------------------------------------------------------------------
(* The receiver                                                            *)

LEMMA PositionTyped ==
  ASSUME EoETypeOK, NEW m \in Fragments
  PROVE  Position(m) \in Positions
<1>1. m.offset * Block \in Nat /\ m.frameno \in 0..FrameNos - 1 /\ 0 \in 0..Room
  BY ConstantsTyped DEF Fragments
<1>2. NewFrame(m) \in Positions
  BY <1>1 DEF NewFrame, Positions
<1> QED
  BY <1>2 DEF Position, EoETypeOK

LEMMA AdvancedTyped ==
  ASSUME EoETypeOK, Filled, NEW m \in Fragments
  PROVE  /\ Advanced(m) \in Positions
         /\ Copied(m) \in [1..Room -> Unit \cup {None}]
         /\ \A k \in 1..Advanced(m).frameoffset : Copied(m)[k] \in Unit
<1>1. Position(m) \in Positions
  BY PositionTyped
<1> DEFINE p == Position(m)
<1>2. m.data \in Seq(Unit) /\ Len(m.data) \in Nat
  BY LenProperties DEF Fragments
<1>3. p.frameoffset \in 0..Room /\ p.fragmentno \in Nat
  BY <1>1 DEF Positions
<1>4. Advanced(m) \in Positions
  <2>1. CASE Fits(m)
    <3>1. p.frameoffset + Len(m.data) \in 0..Room /\ p.fragmentno + 1 \in Nat
      <4>1. p.frameoffset + Len(m.data) <= Room
        BY <2>1 DEF Fits
      <4> QED
        BY <1>2, <1>3, <4>1, ConstantsTyped
    <3> HIDE DEF p
    <3>2. [p EXCEPT !.frameoffset = @ + Len(m.data), !.fragmentno = @ + 1] \in Positions
      BY <1>1, <3>1 DEF Positions, p
    <3> QED
      BY <2>1, <3>2 DEF Advanced, p
  <2>2. CASE ~Fits(m)
    BY <1>1, <2>2 DEF Advanced
  <2> QED
    BY <2>1, <2>2
<1>5. Copied(m) \in [1..Room -> Unit \cup {None}]
  <2>1. ASSUME NEW k \in 1..Room, k > p.frameoffset, k <= p.frameoffset + Len(m.data)
        PROVE  m.data[k - p.frameoffset] \in Unit
    <3>1. k - p.frameoffset \in 1..Len(m.data)
      BY <1>2, <1>3, <2>1
    <3> QED
      BY <1>2, <3>1, ElementOfSeq
  <2>2. buf \in [1..Room -> Unit \cup {None}]
    BY DEF EoETypeOK
  <2> HIDE DEF p
  <2>3. \A k \in 1..Room :
          (IF k <= p.frameoffset THEN buf[k]
           ELSE IF Fits(m) /\ k <= p.frameoffset + Len(m.data) THEN m.data[k - p.frameoffset]
           ELSE None) \in Unit \cup {None}
    BY <1>2, <1>3, <2>1, <2>2, ConstantsTyped
  <2> QED
    BY <2>3 DEF Copied, p
<1>6. ASSUME NEW k \in 1..Advanced(m).frameoffset
      PROVE  Copied(m)[k] \in Unit
  <2>1. k \in 1..Room
    BY <1>4, ConstantsTyped DEF Positions
  <2>2. Copied(m)[k] = IF k <= p.frameoffset THEN buf[k]
                       ELSE IF Fits(m) /\ k <= p.frameoffset + Len(m.data)
                       THEN m.data[k - p.frameoffset] ELSE None
    BY <2>1 DEF Copied
  <2>3. Advanced(m).frameoffset = IF Fits(m) THEN p.frameoffset + Len(m.data) ELSE p.frameoffset
    <3>1. p \in Positions
      BY <1>1
    <3> HIDE DEF p
    <3>2. CASE Fits(m)
      <4>1. Advanced(m) = [p EXCEPT !.frameoffset = @ + Len(m.data), !.fragmentno = @ + 1]
        BY <3>2 DEF Advanced, p
      <4> QED
        BY <3>1, <3>2, <4>1 DEF Positions
    <3>3. CASE ~Fits(m)
      BY <3>3 DEF Advanced, p
    <3> QED
      BY <3>2, <3>3
  <2>4. ASSUME k <= p.frameoffset
        PROVE  buf[k] \in Unit
    <3>1. p = rx \/ p.frameoffset = 0
      BY DEF Position, NewFrame
    <3>2. k \in Nat /\ k >= 1
      BY <2>1, ConstantsTyped
    <3>3. p = rx
      BY <1>3, <2>4, <3>1, <3>2
    <3> QED
      BY <1>3, <2>4, <3>2, <3>3 DEF Filled
  <2>5. ASSUME k > p.frameoffset, k <= p.frameoffset + Len(m.data)
        PROVE  m.data[k - p.frameoffset] \in Unit
    <3>1. k - p.frameoffset \in 1..Len(m.data)
      BY <1>2, <1>3, <2>1, <2>5, ConstantsTyped
    <3> QED
      BY <1>2, <3>1, ElementOfSeq
  <2> HIDE DEF p
  <2>6. k \in Nat
    BY <2>1, ConstantsTyped
  <2>7. CASE k <= p.frameoffset
    BY <2>2, <2>4, <2>7
  <2>8. CASE k > p.frameoffset
    <3>1. k <= Advanced(m).frameoffset /\ Advanced(m).frameoffset \in Nat
      BY <1>4, ConstantsTyped DEF Positions
    <3>2. Fits(m) /\ k <= p.frameoffset + Len(m.data)
      BY <1>2, <1>3, <2>3, <2>6, <2>8, <3>1
    <3> QED
      BY <1>3, <2>2, <2>5, <2>6, <2>8, <3>2
  <2> QED
    BY <1>3, <2>6, <2>7, <2>8
<1> QED
  BY <1>4, <1>5, <1>6

LEMMA EmptyTyped == Unstarted \in Positions /\ Empty \in [1..Room -> Unit \cup {None}]
BY ConstantsTyped DEF Unstarted, Positions, Empty

-----------------------------------------------------------------------------
(* The steps                                                               *)

LEMMA InitEoEInv == EoEInit => EoEInv
<1> SUFFICES ASSUME EoEInit
             PROVE  EoEInv
    OBVIOUS
<1>1. Unstarted \in Positions /\ Empty \in [1..Room -> Unit \cup {None}]
  BY EmptyTyped
<1> QED
  <2>1. 0 \in 0..FrameNos - 1 /\ 0 \in 0..Tags - 1 /\ 0 \in 0..MaxFaults
    BY ConstantsTyped
  <2> QED
    <3>1. mode \in {"recv", "read fragment"} /\ {stamps, clean} \subseteq BOOLEAN
      BY Zenon DEF EoEInit
    <3>2. queue \in Seq(Fragments)
      BY EmptySeq DEF EoEInit
    <3> QED
      <4>1. Filled
        <5>1. rx.frameoffset = 0
          BY DEF EoEInit, Unstarted
        <5> QED
          BY <5>1 DEF Filled
      <4>2. SendingInside
        BY DEF EoEInit, SendingInside
      <4> QED
        BY <1>1, <2>1, <3>1, <3>2, <4>1, <4>2 DEF EoEInit, EoEInv, EoETypeOK

LEMMA BeginsWithLocals ==
  ASSUME EoEInv, SendBegins
  PROVE  sending' \in Sendings /\ sending'.offset < Len(sending'.payload) /\ sending' # None
<1>0. EoETypeOK
  BY DEF EoEInv
<1>1. PICK length \in Lengths :
        sending' = [frame |-> Frame(length, tag), offset |-> 0, fragmentno |-> 0,
                    payload |-> IF stamps THEN Append(Frame(length, tag), Stamp(tag))
                                ELSE Frame(length, tag)]
  BY DEF SendBegins
<1>2. length \in Nat \ {0} /\ tag \in 0..Tags - 1
  BY <1>0, <1>1, ConstantsTyped DEF EoETypeOK
<1> DEFINE frame == Frame(length, tag)
           payload == IF stamps THEN Append(Frame(length, tag), Stamp(tag))
                      ELSE Frame(length, tag)
<1>3. frame \in Seq(Unit) /\ payload \in Seq(Unit) /\ 0 < Len(payload)
  <2>1. /\ Frame(length, tag) \in Seq(Unit) /\ Len(Frame(length, tag)) = length
        /\ Append(Frame(length, tag), Stamp(tag)) \in Seq(Unit)
        /\ Len(Append(Frame(length, tag), Stamp(tag))) = length + 1
    BY <1>2, FrameTyped, Zenon
  <2>2. Len(payload) \in {length, length + 1} /\ payload \in Seq(Unit)
    BY <2>1, Zenon
  <2> HIDE DEF payload
  <2> QED
    BY <1>2, <2>1, <2>2
<1>4. sending' = [frame |-> frame, offset |-> 0, fragmentno |-> 0, payload |-> payload]
  BY <1>1
<1> HIDE DEF frame, payload
<1>5. sending' \in Sendings /\ sending'.offset < Len(sending'.payload)
  <2>1. [frame |-> frame, offset |-> 0, fragmentno |-> 0, payload |-> payload] \in Sendings
    BY <1>3 DEF Sendings
  <2>2. sending'.offset = 0 /\ sending'.payload = payload
    BY <1>4
  <2> QED
    BY <1>3, <1>4, <2>1, <2>2
<1> QED
  BY <1>5, NoneAssumption DEF NoneAssumption

LEMMA SendBeginsPreserves ==
  ASSUME EoEInv, SendBegins
  PROVE  EoEInv'
<1>0. EoETypeOK
  BY DEF EoEInv
<1>3. sending' \in Sendings /\ sending'.offset < Len(sending'.payload)
  BY BeginsWithLocals
<1>4. txframeno' \in 0..FrameNos - 1 /\ tag' \in 0..Tags - 1
  <2>1. txframeno + 1 \in Nat /\ tag + 1 \in Nat /\ FrameNos \in Nat \ {0} /\ Tags \in Nat \ {0}
    <3>1. txframeno \in 0..FrameNos - 1 /\ tag \in 0..Tags - 1
      BY <1>0 DEF EoETypeOK
    <3> QED
      BY <3>1, ConstantsTyped
  <2> QED
    BY <2>1 DEF SendBegins, NextFrameNo
<1> QED
  BY <1>0, <1>3, <1>4 DEF SendBegins, EoEInv, EoETypeOK, SendingInside, Filled, eoeSetup, receiver

LEMMA SendFragmentPreserves ==
  ASSUME EoEInv, SendFragment
  PROVE  EoEInv'
<1>0. EoETypeOK /\ SendingInside /\ sending # None
  BY DEF EoEInv, SendFragment
<1>1. Fragment \in Fragments /\ FragmentSize \in Nat /\ sending \in Sendings
  BY <1>0, FragmentTyped
<1>2. queue' \in Seq(Fragments)
  BY <1>0, <1>1, AppendProperties DEF SendFragment, EoETypeOK
<1>3. CASE Fragment.last
  <2>1. sending' = None
    BY <1>3 DEF SendFragment
  <2> QED
    BY <1>0, <1>2, <2>1 DEF SendFragment, EoEInv, EoETypeOK, SendingInside, Filled, eoeSetup, receiver
<1>4. CASE ~Fragment.last
  <2>1. sending' = [sending EXCEPT !.offset = @ + FragmentSize, !.fragmentno = @ + 1]
    BY <1>4 DEF SendFragment
  <2>2. sending.offset + FragmentSize < Len(sending.payload)
    BY <1>0, <1>4, FragmentTyped
  <2>3. sending' \in Sendings /\ sending'.offset < Len(sending'.payload)
    <3> DEFINE offset == sending.offset + FragmentSize
    <3>1. /\ offset \in Nat /\ sending.fragmentno + 1 \in Nat
          /\ offset < Len(sending.payload)
      BY <1>1, <2>2 DEF Sendings
    <3>2. sending' = [sending EXCEPT !.offset = offset, !.fragmentno = sending.fragmentno + 1]
      BY <1>1, <2>1 DEF Sendings
    <3> HIDE DEF offset
    <3> QED
      BY <1>1, <3>1, <3>2 DEF Sendings
  <2> QED
    BY <1>0, <1>2, <2>3 DEF SendFragment, EoEInv, EoETypeOK, SendingInside, Filled, eoeSetup, receiver
<1> QED
  BY <1>3, <1>4

LEMMA FaultTyped ==
  ASSUME EoETypeOK, Fault
  PROVE  faults' \in 0..MaxFaults
<1>1. faults \in 0..MaxFaults /\ faults < MaxFaults /\ faults' = faults + 1 /\ MaxFaults \in Nat
  BY ConstantsTyped DEF EoETypeOK, Fault
<1> QED
  BY ONLY <1>1

LEMMA SendFailsPreserves ==
  ASSUME EoEInv, SendFails
  PROVE  EoEInv'
<1>0. EoETypeOK /\ sending # None /\ sending' = None
  BY DEF EoEInv, SendFails
<1>1. Fragment \in Fragments
  BY <1>0, FragmentTyped
<1>2. queue' \in Seq(Fragments)
  <2>1. queue \in Seq(Fragments)
    BY <1>0 DEF EoETypeOK
  <2>2. Append(queue, Fragment) \in Seq(Fragments)
    BY <1>1, <2>1, AppendProperties
  <2> QED
    BY <2>1, <2>2 DEF SendFails
<1>3. faults' \in 0..MaxFaults
  BY <1>0, FaultTyped DEF SendFails
<1> QED
  BY <1>0, <1>2, <1>3 DEF SendFails, EoEInv, EoETypeOK, SendingInside, Filled, eoeSetup, receiver

LEMMA ReceivePreserves ==
  ASSUME EoEInv, Receive
  PROVE  EoEInv'
<1>0. EoETypeOK /\ SendingInside /\ Filled /\ queue \in Seq(Fragments) /\ queue # <<>>
  BY DEF EoEInv, EoETypeOK, Receive
<1> DEFINE m == Head(queue)
<1>1. m \in Fragments /\ queue' \in Seq(Fragments)
  BY <1>0, HeadTailProperties DEF Receive
<1>2. /\ \/ Complete(m)
         \/ Continue(m)
         \/ Reject
      /\ clean' = CleanWith(m)
      /\ UNCHANGED <<eoeSetup, sender, faults>>
  BY DEF Receive
<1>3. clean' \in BOOLEAN
  BY <1>0, <1>2 DEF CleanWith, EoETypeOK
<1> HIDE DEF m
<1>4. /\ Advanced(m) \in Positions
      /\ Copied(m) \in [1..Room -> Unit \cup {None}]
      /\ \A k \in 1..Advanced(m).frameoffset : Copied(m)[k] \in Unit
  BY <1>0, <1>1, AdvancedTyped
<1>5. Unstarted \in Positions /\ Empty \in [1..Room -> Unit \cup {None}]
  BY EmptyTyped
<1>6. /\ rx' \in Positions /\ buf' \in [1..Room -> Unit \cup {None}]
      /\ got' \in Seq(Unit) \cup {None}
      /\ Filled'
  <2>1. CASE Complete(m)
    <3> DEFINE n == Advanced(m).frameoffset - (IF m.stamp THEN 1 ELSE 0)
               copy == Copied(m)
    <3>1. n \in Int /\ n <= Advanced(m).frameoffset /\ Advanced(m).frameoffset \in Nat
      BY <1>4, ConstantsTyped DEF Positions
    <3>2. \A k \in 1..n : copy[k] \in Unit
      BY <1>4, <3>1
    <3>3. got' = SubSeq(copy, 1, n)
      BY <2>1 DEF Complete
    <3> HIDE DEF n, copy
    <3>4. SubSeq(copy, 1, n) \in Seq(Unit)
      BY <3>1, <3>2, SubSeqProperties
    <3>5. Filled'
      BY <2>1 DEF Complete, Unstarted, Filled
    <3> QED
      BY <1>5, <2>1, <3>3, <3>4, <3>5 DEF Complete
  <2>2. CASE Continue(m)
    BY <1>0, <1>4, <2>2 DEF Continue, EoETypeOK, Filled
  <2>3. CASE Reject
    <3>1. Filled'
      BY <2>3 DEF Reject, Unstarted, Filled
    <3> QED
      BY <1>0, <1>5, <2>3, <3>1 DEF Reject, EoETypeOK
  <2> QED
    BY <1>2, <2>1, <2>2, <2>3
<1> QED
  BY <1>0, <1>1, <1>2, <1>3, <1>6 DEF EoEInv, EoETypeOK, SendingInside, eoeSetup, sender

LEMMA FaultsPreserve ==
  ASSUME EoEInv, BreaksOff \/ Lost
  PROVE  EoEInv'
<1>0. EoETypeOK /\ SendingInside /\ Filled
  BY DEF EoEInv
<1>1. faults' \in 0..MaxFaults
  BY <1>0, FaultTyped DEF BreaksOff, Lost
<1>2. CASE BreaksOff
  <2>1. Filled'
    BY <1>2 DEF BreaksOff, Reject, Unstarted, Filled
  <2> QED
    BY <1>0, <1>1, <1>2, <2>1, EmptyTyped
       DEF BreaksOff, Reject, EoEInv, EoETypeOK, SendingInside, eoeSetup, sender
<1>3. CASE Lost
  <2>1. queue' \in Seq(Fragments)
    BY <1>0, <1>3, HeadTailProperties DEF Lost, EoETypeOK
  <2> QED
    BY <1>0, <1>1, <1>3, <2>1 DEF Lost, EoEInv, EoETypeOK, SendingInside, Filled, eoeSetup, sender
<1> QED
  BY <1>2, <1>3

\* The types, which say among other things that ecx_EOErecv and
\* ecx_EOEreadfragment never count past the end of the buffer, and hand over
\* nothing but data that was received, whatever is lost and in whatever order
\* fragments of different frames come.
THEOREM ReceivedInsideBuffer == EoESpec => []EoETypeOK
<1>1. EoEInit => EoEInv
  BY InitEoEInv
<1>2. EoEInv /\ [EoENext]_eoeVars => EoEInv'
  <2> SUFFICES ASSUME EoEInv, [EoENext]_eoeVars
               PROVE  EoEInv'
      OBVIOUS
  <2>1. CASE UNCHANGED eoeVars
    BY <2>1 DEF eoeVars, eoeSetup, sender, receiver, EoEInv, EoETypeOK, SendingInside, Filled
  <2> QED
    BY <2>1, SendBeginsPreserves, SendFragmentPreserves, SendFailsPreserves,
       ReceivePreserves, FaultsPreserve DEF EoENext
<1>3. EoEInv => EoETypeOK
  BY DEF EoEInv
<1> QED
  BY <1>1, <1>2, <1>3, PTL DEF EoESpec

-----------------------------------------------------------------------------
(* A frame that comes whole is handed over                                 *)

\* The units of a frame with its time stamp, and the place of a fragment.
Total(frame, stamped) == Len(frame) + (IF stamped THEN 1 ELSE 0)

Start(m) == IF m.no = 0 THEN 0 ELSE m.offset * Block

\* A message is a part of the frame that it is of, and tells where.
Piece(m, stamped) ==
  /\ Blocks(Total(m.of, stamped)) * Block <= Room
  /\ Start(m) < Total(m.of, stamped) /\ Start(m) + Len(m.data) <= Total(m.of, stamped)
  /\ m.last <=> Start(m) + Len(m.data) = Total(m.of, stamped)
  /\ m.stamp <=> stamped /\ m.last
  /\ m.no = 0 => m.offset = Blocks(Total(m.of, stamped))
  /\ \A k \in 1..Len(m.data) : Start(m) + k <= Len(m.of) => m.data[k] = m.of[Start(m) + k]

\* The message behind m begins a frame, or goes on where m ends.
Follows(m, n) ==
  n.no > 0 => /\ ~m.last /\ n.no = m.no + 1
              /\ n.frameno = m.frameno /\ n.of = m.of
              /\ Start(n) = Start(m) + Len(m.data)

Sound(messages, stamped) ==
  /\ \A i \in 1..Len(messages) : Piece(messages[i], stamped)
  /\ \A i \in 1..Len(messages) - 1 : Follows(messages[i], messages[i + 1])

\* The receiver has all of the frame before m.
Awaits(m) ==
  m.no > 0 => /\ rx.fragmentno = m.no /\ rx.frameno = m.frameno
              /\ rx.framesize = Blocks(Total(m.of, stamps)) * Block
              /\ rx.frameoffset = Start(m)
              /\ \A k \in 1..Start(m) : buf[k] = m.of[k]

\* ecx_EOEsend is at the start of a block of its frame.
SenderAtBlock ==
  sending # None =>
    /\ \E j \in Nat : sending.offset = j * Block
    /\ sending.offset = 0 <=> sending.fragmentno = 0
    /\ Blocks(Total(sending.frame, stamps)) * Block <= Room
    /\ Len(sending.payload) = Total(sending.frame, stamps)
    /\ \A k \in 1..Len(sending.frame) : sending.payload[k] = sending.frame[k]

\* Between the sender and the receiver there are pieces of frames, each behind
\* the one before it, and a receiver that missed nothing of a frame is where the
\* first of them goes on.
WholeInv ==
  /\ EoEInv
  /\ SenderAtBlock
  /\ Sound(Stream, stamps)
  /\ clean /\ Stream # <<>> => Awaits(Stream[1])

\* Blocks rounds up.
LEMMA BlocksEnough ==
  ASSUME NEW n \in Nat
  PROVE  /\ Blocks(n) * Block \in Nat /\ n <= Blocks(n) * Block
         /\ Blocks(n) * Block <= Blocks(n + 1) * Block
<1> DEFINE q == (n + Block - 1) \div Block
           r == (n + Block - 1) % Block
           p == (n + 1 + Block - 1) \div Block
           s == (n + 1 + Block - 1) % Block
<1>1. Block \in Nat /\ Block >= 1
  BY ConstantsTyped
<1>2. n + Block - 1 = Block * q + r /\ q \in Int /\ r \in 0..Block - 1
  BY <1>1
<1>3. n + 1 + Block - 1 = Block * p + s /\ p \in Int /\ s \in 0..Block - 1
  BY <1>1
<1>4. Blocks(n) = q /\ Blocks(n + 1) = p
  BY DEF Blocks
<1> HIDE DEF q, r, p, s
<1>5. q * Block = Block * q /\ p * Block = Block * p /\ q * Block \in Int /\ p * Block \in Int
  BY <1>1, <1>2, <1>3
<1>6. n <= q * Block
  BY <1>1, <1>2, <1>5
<1>7. q <= p
  <2>1. SUFFICES ASSUME q >= p + 1
                 PROVE  FALSE
    BY <1>2, <1>3
  <2>2. Block * q >= Block * (p + 1)
    BY <1>1, <1>2, <1>3, <2>1
  <2>3. Block * (p + 1) = Block * p + Block
    BY <1>1, <1>3
  <2> QED
    BY <1>1, <1>2, <1>3, <1>5, <2>2, <2>3
<1>8. q * Block <= p * Block
  BY <1>1, <1>2, <1>3, <1>7
<1> QED
  BY <1>4, <1>5, <1>6, <1>8

\* A multiple of a block, counted in blocks.
LEMMA BlockOfMultiple ==
  ASSUME NEW j \in Nat
  PROVE  j * Block \in Nat /\ ((j * Block) \div Block) * Block = j * Block
<1> DEFINE a == j * Block
           q == a \div Block
           r == a % Block
<1>1. Block \in Nat /\ Block >= 1
  BY ConstantsTyped
<1>2. a \in Nat
  BY <1>1
<1>3. a = Block * q + r /\ q \in Int /\ r \in 0..Block - 1
  <2> HIDE DEF a
  <2> QED
    BY <1>1, <1>2
<1> HIDE DEF q, r
<1>4. Block * (j - q) = r
  <2>1. Block * (j - q) = Block * j - Block * q /\ a = Block * j
    BY <1>1, <1>3
  <2> QED
    BY <1>1, <1>2, <1>3, <2>1
<1>5. j = q
  <2>1. j - q > 0 => Block * (j - q) >= Block
    BY <1>1, <1>3
  <2>2. j - q < 0 => Block * (j - q) <= -Block
    BY <1>1, <1>3
  <2> QED
    BY <1>1, <1>3, <1>4, <2>1, <2>2
<1> QED
  BY <1>2, <1>5 DEF q, a

\* A further message that follows the last.
LEMMA SoundGrows ==
  ASSUME NEW st \in Seq(Fragments), NEW n \in Fragments, NEW b,
         Sound(st, b), Piece(n, b), st # <<>> => Follows(st[Len(st)], n)
  PROVE  Sound(Append(st, n), b) /\ Append(st, n) \in Seq(Fragments)
<1> DEFINE tt == Append(st, n)
<1>1. /\ tt \in Seq(Fragments) /\ Len(tt) = Len(st) + 1 /\ Len(st) \in Nat
      /\ \A i \in 1..Len(st) : tt[i] = st[i]
      /\ tt[Len(st) + 1] = n
  BY AppendProperties, LenProperties
<1>2. st # <<>> <=> Len(st) > 0
  BY <1>1, EmptySeq
<1> HIDE DEF tt
<1>3. ASSUME NEW i \in 1..Len(tt)
      PROVE  Piece(tt[i], b)
  <2>1. CASE i = Len(st) + 1
    BY <1>1, <2>1
  <2>2. CASE i # Len(st) + 1
    <3>1. i \in 1..Len(st)
      BY <1>1, <2>2
    <3> QED
      BY <1>1, <3>1 DEF Sound
  <2> QED
    BY <2>1, <2>2
<1>4. ASSUME NEW i \in 1..Len(tt) - 1
      PROVE  Follows(tt[i], tt[i + 1])
  <2>1. CASE i = Len(st)
    BY <1>1, <1>2, <2>1
  <2>2. CASE i # Len(st)
    <3>1. i \in 1..Len(st) - 1 /\ i \in 1..Len(st) /\ i + 1 \in 1..Len(st)
      BY <1>1, <2>2
    <3>2. tt[i] = st[i] /\ tt[i + 1] = st[i + 1]
      BY <1>1, <3>1
    <3> QED
      BY <3>1, <3>2 DEF Sound
  <2> QED
    BY <2>1, <2>2
<1> QED
  BY <1>1, <1>3, <1>4 DEF Sound, tt

\* The messages without the last.
LEMMA SoundBefore ==
  ASSUME NEW st \in Seq(Fragments), NEW n \in Fragments, NEW b, Sound(Append(st, n), b)
  PROVE  /\ Sound(st, b) /\ Piece(n, b)
         /\ st # <<>> => Follows(st[Len(st)], n) /\ Append(st, n)[1] = st[1]
<1> DEFINE tt == Append(st, n)
<1>1. /\ tt \in Seq(Fragments) /\ Len(tt) = Len(st) + 1 /\ Len(st) \in Nat
      /\ \A i \in 1..Len(st) : tt[i] = st[i]
      /\ tt[Len(st) + 1] = n
  BY AppendProperties, LenProperties
<1>2. st # <<>> <=> Len(st) > 0
  BY <1>1, EmptySeq
<1>3. Sound(tt, b)
  OBVIOUS
<1> HIDE DEF tt
<1>4. Piece(n, b)
  <2>1. Len(st) + 1 \in 1..Len(tt)
    BY <1>1
  <2> QED
    BY <1>1, <1>3, <2>1 DEF Sound
<1>5. ASSUME NEW i \in 1..Len(st)
      PROVE  Piece(st[i], b)
  <2>1. i \in 1..Len(tt) /\ tt[i] = st[i]
    BY <1>1
  <2> QED
    BY <1>3, <2>1 DEF Sound
<1>6. ASSUME NEW i \in 1..Len(st) - 1
      PROVE  Follows(st[i], st[i + 1])
  <2>1. i \in 1..Len(tt) - 1 /\ i \in 1..Len(st) /\ i + 1 \in 1..Len(st)
    BY <1>1
  <2>2. tt[i] = st[i] /\ tt[i + 1] = st[i + 1]
    BY <1>1, <2>1
  <2> QED
    BY <1>3, <2>1, <2>2 DEF Sound
<1>7. ASSUME st # <<>>
      PROVE  Follows(st[Len(st)], n) /\ tt[1] = st[1]
  <2>1. Len(st) \in 1..Len(tt) - 1 /\ Len(st) \in 1..Len(st) /\ 1 \in 1..Len(st)
    BY <1>1, <1>2, <1>7
  <2>2. tt[Len(st)] = st[Len(st)] /\ tt[Len(st) + 1] = n /\ tt[1] = st[1]
    BY <1>1, <2>1
  <2> QED
    BY <1>3, <2>1, <2>2 DEF Sound
<1> QED
  BY <1>4, <1>5, <1>6, <1>7 DEF Sound, tt

\* The messages without the first.
LEMMA SoundBehind ==
  ASSUME NEW st \in Seq(Fragments), NEW b, st # <<>>, Sound(st, b)
  PROVE  /\ Sound(Tail(st), b) /\ Piece(st[1], b) /\ Head(st) = st[1] /\ st[1] \in Fragments
         /\ Tail(st) # <<>> => Follows(st[1], Tail(st)[1]) /\ Tail(st)[1] \in Fragments
<1> DEFINE tt == Tail(st)
<1>1. /\ tt \in Seq(Fragments) /\ Len(tt) = Len(st) - 1 /\ Len(tt) \in Nat /\ Len(st) \in Nat
      /\ \A i \in 1..Len(tt) : tt[i] = st[i + 1]
      /\ Head(st) = st[1] /\ Head(st) \in Fragments
  BY HeadTailProperties, LenProperties
<1>2. tt # <<>> <=> Len(tt) > 0
  BY <1>1, EmptySeq
<1> HIDE DEF tt
<1>3. ASSUME NEW i \in 1..Len(tt)
      PROVE  Piece(tt[i], b)
  <2>1. i + 1 \in 1..Len(st) /\ tt[i] = st[i + 1]
    BY <1>1
  <2> QED
    BY <2>1 DEF Sound
<1>4. ASSUME NEW i \in 1..Len(tt) - 1
      PROVE  Follows(tt[i], tt[i + 1])
  <2>1. i + 1 \in 1..Len(st) - 1 /\ i \in 1..Len(tt) /\ i + 1 \in 1..Len(tt)
    BY <1>1
  <2>2. tt[i] = st[i + 1] /\ tt[i + 1] = st[i + 1 + 1]
    BY <1>1, <2>1
  <2> QED
    BY <2>1, <2>2 DEF Sound
<1>5. Piece(st[1], b)
  <2>1. 1 \in 1..Len(st)
    BY <1>1
  <2> QED
    BY <2>1 DEF Sound
<1>6. ASSUME tt # <<>>
      PROVE  Follows(st[1], tt[1]) /\ tt[1] \in Fragments
  <2>1. 1 \in 1..Len(st) - 1 /\ 1 \in 1..Len(tt) /\ tt[1] = st[1 + 1]
    BY <1>1, <1>2, <1>6
  <2>2. tt[1] \in Fragments
    BY <1>1, <2>1, ElementOfSeq
  <2> QED
    BY <2>1, <2>2 DEF Sound
<1> QED
  BY <1>1, <1>3, <1>4, <1>5, <1>6 DEF Sound, tt

\* What the fragment that is about to be sent says of itself.
FragmentFacts ==
  /\ Fragment \in Fragments /\ Piece(Fragment, stamps)
  /\ Fragment.no = sending.fragmentno /\ Fragment.frameno = txframeno
  /\ Fragment.of = sending.frame /\ Start(Fragment) = sending.offset
  /\ Len(Fragment.data) = FragmentSize
  /\ ~Fragment.last => \E j \in Nat \ {0} : FragmentSize = j * Block

LEMMA FragmentIsPiece == EoEInv /\ SenderAtBlock /\ sending # None => FragmentFacts
<1> SUFFICES ASSUME EoEInv, SenderAtBlock, sending # None
             PROVE  FragmentFacts
    OBVIOUS
<1> DEFINE offset == sending.offset
           payload == sending.payload
           frame == sending.frame
           size == FragmentSize
           data == SubSeq(payload, offset + 1, offset + size)
<1>1. /\ sending \in Sendings /\ payload \in Seq(Unit) /\ frame \in Seq(Unit)
      /\ offset \in Nat /\ sending.fragmentno \in Nat
      /\ Len(payload) \in Nat /\ Len(frame) \in Nat /\ offset < Len(payload)
  BY LenProperties DEF EoEInv, EoETypeOK, SendingInside, Sendings
<1>2. /\ Left = Len(payload) - offset
      /\ size = IF Left > MaxData THEN (MaxData \div Block) * Block ELSE Left
  BY DEF Left, FragmentSize
<1>3. MaxData \in Nat /\ (MaxData \div Block) * Block \in 1..MaxData /\ MaxData \div Block \in Nat
  BY ConstantsTyped, WholeBlocks
<1>4. size \in 1..Left
  <2> DEFINE whole == (MaxData \div Block) * Block
  <2>1. whole \in 1..MaxData
    BY <1>3
  <2> HIDE DEF whole
  <2>2. size = IF Left > MaxData THEN whole ELSE Left
    BY <1>2 DEF whole
  <2> HIDE DEF size, offset, payload
  <2> QED
    BY <1>1, <1>2, <1>3, <2>1, <2>2
<1>5. data \in Seq(Unit) /\ Len(data) = size /\ \A k \in 1..size : data[k] = payload[offset + k]
  <2> HIDE DEF size, payload, offset
  <2>1. \A i \in offset + 1..offset + size : payload[i] \in Unit
    BY <1>1, <1>2, <1>4, ElementOfSeq
  <2>2. /\ data \in Seq(Unit)
        /\ Len(data) = IF offset + 1 <= offset + size THEN offset + size - (offset + 1) + 1 ELSE 0
        /\ \A k \in 1..offset + size - (offset + 1) + 1 : data[k] = payload[offset + 1 + k - 1]
    BY <1>1, <1>2, <1>4, <2>1, SubSeqProperties, SMTT(20)
  <2>3. \A k \in 1..size : offset + 1 + k - 1 = offset + k
    BY <1>1, <1>4
  <2>4. offset + size - (offset + 1) + 1 = size /\ offset + 1 <= offset + size
    BY <1>1, <1>2, <1>4
  <2> HIDE DEF data
  <2> QED
    BY <2>2, <2>3, <2>4
<1>6. /\ Fragment.no = sending.fragmentno /\ Fragment.frameno = txframeno
      /\ Fragment.of = frame /\ Fragment.data = data
      /\ Fragment.last <=> size = Left
      /\ Fragment.stamp <=> stamps /\ size = Left
      /\ Fragment.offset = IF sending.fragmentno > 0 THEN offset \div Block
                           ELSE Blocks(Len(payload))
  BY DEF Fragment
<1>7. /\ Len(payload) = Total(frame, stamps) /\ Blocks(Len(payload)) * Block <= Room
      /\ offset = 0 <=> sending.fragmentno = 0
      /\ \A k \in 1..Len(frame) : payload[k] = frame[k]
      /\ (offset \div Block) * Block = offset
  <2>1. PICK j \in Nat : offset = j * Block
    BY DEF SenderAtBlock
  <2>2. ((j * Block) \div Block) * Block = j * Block
    BY BlockOfMultiple
  <2> QED
    BY <2>1, <2>2 DEF SenderAtBlock
<1>8. Start(Fragment) = offset
  <2> HIDE DEF offset, payload, data, size
  <2>1. Start(Fragment) = IF sending.fragmentno = 0 THEN 0 ELSE Fragment.offset * Block
    BY <1>6 DEF Start
  <2>2. CASE sending.fragmentno = 0
    BY <1>7, <2>1, <2>2
  <2>3. CASE sending.fragmentno # 0
    <3>1. sending.fragmentno > 0
      BY <1>1, <2>3
    <3>2. Fragment.offset = offset \div Block
      BY <1>6, <3>1
    <3> QED
      BY <1>7, <2>1, <2>3, <3>2
  <2> QED
    BY <2>2, <2>3
<1>9. Fragment \in Fragments
  BY FragmentTyped
<1>10. Piece(Fragment, stamps)
  <2> HIDE DEF offset, payload, data, size, frame
  <2>1. /\ offset < Len(payload) /\ offset + size <= Len(payload)
        /\ size = Left <=> offset + size = Len(payload)
    BY <1>1, <1>2, <1>4
  <2>2. \A k \in 1..size : offset + k <= Len(frame) => data[k] = frame[offset + k]
    <3>1. SUFFICES ASSUME NEW k \in 1..size, offset + k <= Len(frame)
                   PROVE  data[k] = frame[offset + k]
      OBVIOUS
    <3>2. offset + k \in 1..Len(frame)
      BY <1>1, <1>2, <1>4, <3>1
    <3> QED
      BY <1>5, <1>7, <3>1, <3>2
  <2>3. Fragment.no = 0 => Fragment.offset = Blocks(Len(payload))
    BY <1>1, <1>6
  <2> QED
    BY <1>5, <1>6, <1>7, <1>8, <2>1, <2>2, <2>3 DEF Piece
<1>11. ~Fragment.last => \E j \in Nat \ {0} : size = j * Block
  <2> DEFINE q == MaxData \div Block
  <2>1. q \in Nat /\ q * Block \in 1..MaxData
    BY <1>3
  <2>2. ASSUME ~Fragment.last
        PROVE  size = q * Block
    BY <1>2, <1>6, <2>2
  <2>3. q # 0
    <3>1. Block \in Nat
      BY ConstantsTyped
    <3> HIDE DEF q
    <3> QED
      BY <2>1, <3>1
  <2> HIDE DEF q, size
  <2> QED
    BY <2>1, <2>2, <2>3
<1> QED
  BY <1>5, <1>6, <1>8, <1>9, <1>10, <1>11 DEF FragmentFacts

LEMMA InitWhole == EoEInit => WholeInv
<1> SUFFICES ASSUME EoEInit
             PROVE  WholeInv
    OBVIOUS
<1>1. Stream = <<>> /\ sending = None /\ clean = FALSE
  BY DEF EoEInit, Stream
<1>2. Sound(Stream, stamps)
  <2>1. Len(Stream) = 0
    BY <1>1, EmptySeq
  <2> QED
    BY <2>1 DEF Sound
<1> QED
  BY <1>1, <1>2, InitEoEInv DEF WholeInv, SenderAtBlock

\* A message more at the end of the stream: another frame, or more of the last.
LEMMA StreamGrows ==
  ASSUME WholeInv, NEW n \in Fragments, Piece(n, stamps),
         Stream # <<>> => Follows(Stream[Len(Stream)], n), Stream = <<>> => n.no = 0,
         Stream' = Append(Stream, n), Stream \in Seq(Fragments),
         EoEInv', SenderAtBlock', UNCHANGED <<eoeSetup, receiver>>
  PROVE  WholeInv'
<1>1. Sound(Stream', stamps')
  BY SoundGrows DEF WholeInv, eoeSetup
<1>2. ASSUME clean'
      PROVE  Awaits(Stream[1])'
  <2>1. Len(Stream) \in Nat /\ (Stream # <<>> <=> Len(Stream) > 0)
    BY EmptySeq, LenProperties
  <2>2. CASE Stream = <<>>
    <3>1. Stream'[1].no = 0
      BY <2>1, <2>2, AppendProperties
    <3> QED
      BY <3>1 DEF Awaits
  <2>3. CASE Stream # <<>>
    <3>1. Stream'[1] = Stream[1]
      BY <2>1, <2>3, AppendProperties
    <3>2. Awaits(Stream[1])
      BY <1>2, <2>3 DEF WholeInv, receiver
    <3> QED
      BY <3>1, <3>2 DEF Awaits, receiver, eoeSetup
  <2> QED
    BY <2>2, <2>3
<1> QED
  BY <1>1, <1>2 DEF WholeInv

LEMMA StreamTyped ==
  ASSUME WholeInv
  PROVE  /\ Stream \in Seq(Fragments) /\ queue \in Seq(Fragments)
         /\ sending # None => FragmentFacts /\ Stream = Append(queue, Fragment)
         /\ sending = None => Stream = queue
<1>1. queue \in Seq(Fragments)
  BY DEF WholeInv, EoEInv, EoETypeOK
<1>2. sending # None => FragmentFacts
  BY FragmentIsPiece DEF WholeInv
<1> QED
  BY <1>1, <1>2, AppendProperties DEF Stream, FragmentFacts

LEMMA SentTyped ==
  WholeInv => (sending # None => FragmentFacts /\ Stream = Append(queue, Fragment))
BY StreamTyped

\* The same frame after the call of ecx_EOEsend and after a fragment of it: what
\* is sent next is a piece.
LEMMA NextFragment ==
  ASSUME EoEInv', SenderAtBlock', sending' # None
  PROVE  FragmentFacts'
<1>1. (EoEInv /\ SenderAtBlock /\ sending # None)' => FragmentFacts'
  BY FragmentIsPiece, PTL
<1> QED
  BY <1>1

LEMMA SendBeginsWhole ==
  ASSUME WholeInv, SendBegins
  PROVE  WholeInv'
<1>1. EoEInv' /\ EoETypeOK
  BY SendBeginsPreserves DEF WholeInv, EoEInv
<1>2. PICK length \in Lengths :
        sending' = [frame |-> Frame(length, tag), offset |-> 0, fragmentno |-> 0,
                    payload |-> IF stamps THEN Append(Frame(length, tag), Stamp(tag))
                                ELSE Frame(length, tag)]
  BY DEF SendBegins
<1>3. /\ sending = None /\ queue' = queue
      /\ UNCHANGED <<eoeSetup, receiver>>
  BY DEF SendBegins
<1>4. length \in Nat \ {0} /\ tag \in 0..Tags - 1 /\ Blocks(length + 1) * Block <= Room
  BY <1>1, EoEAssumption DEF EoEAssumption, EoETypeOK
<1> DEFINE frame == Frame(length, tag)
           payload == IF stamps THEN Append(frame, Stamp(tag)) ELSE frame
<1>5. /\ frame \in Seq(Unit) /\ Len(frame) = length
      /\ payload \in Seq(Unit) /\ Len(payload) = Total(frame, stamps)
      /\ \A k \in 1..Len(frame) : payload[k] = frame[k]
      /\ Total(frame, stamps) \in {length, length + 1}
  <2>1. Stamp(tag) \in Unit
    BY <1>4 DEF Stamp, Unit
  <2>2. frame \in Seq(Unit) /\ Len(frame) = length
    BY <1>4, FrameTyped
  <2> HIDE DEF frame
  <2>3. /\ Append(frame, Stamp(tag)) \in Seq(Unit)
        /\ Len(Append(frame, Stamp(tag))) = length + 1
        /\ \A k \in 1..Len(frame) : Append(frame, Stamp(tag))[k] = frame[k]
    BY <2>1, <2>2, AppendProperties
  <2> QED
    BY <1>4, <2>2, <2>3 DEF Total
<1>6. SenderAtBlock'
  <2>1. sending' = [frame |-> frame, offset |-> 0, fragmentno |-> 0, payload |-> payload]
    BY <1>2
  <2>2. 0 = 0 * Block
    BY ConstantsTyped
  <2>3. Blocks(Total(frame, stamps)) * Block <= Room
    <3>1. Blocks(length) * Block <= Blocks(length + 1) * Block
      BY <1>4, BlocksEnough
    <3>2. Blocks(length) * Block \in Nat /\ Blocks(length + 1) * Block \in Nat /\ Room \in Nat
      BY <1>4, BlocksEnough, ConstantsTyped
    <3>3. Blocks(length) * Block <= Room
      BY <1>4, <3>1, <3>2
    <3> QED
      BY <1>4, <1>5, <3>3
  <2> HIDE DEF frame, payload
  <2>4. stamps' = stamps
    BY <1>3 DEF eoeSetup
  <2> QED
    BY <1>5, <2>1, <2>2, <2>3, <2>4 DEF SenderAtBlock
<1>7. CASE sending' = None
  <2>1. Stream' = Stream
    BY <1>3, <1>7 DEF Stream
  <2> QED
    BY <1>1, <1>3, <1>6, <2>1 DEF WholeInv, Awaits, eoeSetup, receiver
<1>8. CASE sending' # None
  <2>1. FragmentFacts'
    BY <1>1, <1>6, <1>8, NextFragment
  <2>2. Fragment'.no = 0
    BY <1>2, <2>1 DEF FragmentFacts
  <2>3. Stream = queue /\ Stream \in Seq(Fragments) /\ Stream' = Append(queue, Fragment')
    BY <1>3, <1>8, StreamTyped DEF Stream
  <2>4. Fragment' \in Fragments /\ Piece(Fragment', stamps)
    BY <1>3, <2>1 DEF FragmentFacts, eoeSetup
  <2>5. Stream # <<>> => Follows(Stream[Len(Stream)], Fragment')
    BY <2>2 DEF Follows
  <2> HIDE DEF frame, payload
  <2> QED
    BY <1>1, <1>3, <1>6, <2>2, <2>3, <2>4, <2>5, StreamGrows
<1> QED
  BY <1>7, <1>8

\* Nothing but a message that was to be sent is sent.
LEMMA StreamStays ==
  ASSUME WholeInv, EoEInv', SenderAtBlock', Stream' = Stream, UNCHANGED <<eoeSetup, receiver>>
  PROVE  WholeInv'
BY DEF WholeInv, Awaits, eoeSetup, receiver

LEMMA SendFragmentWhole ==
  ASSUME WholeInv, SendFragment
  PROVE  WholeInv'
<1>1. EoEInv' /\ EoEInv /\ SenderAtBlock /\ sending # None
  BY SendFragmentPreserves DEF WholeInv, SendFragment
<1>2. /\ queue' = Append(queue, Fragment)
      /\ UNCHANGED <<eoeSetup, txframeno, receiver>>
  BY DEF SendFragment
<1>3. FragmentFacts /\ Stream = Append(queue, Fragment) /\ Stream \in Seq(Fragments)
  BY <1>1, StreamTyped
<1>4. CASE sending' = None
  <2>1. Stream' = Stream /\ SenderAtBlock'
    BY <1>2, <1>3, <1>4 DEF Stream, SenderAtBlock
  <2> QED
    BY <1>1, <1>2, <2>1, StreamStays
<1>5. CASE sending' # None
  <2>1. /\ ~Fragment.last
        /\ sending' = [sending EXCEPT !.offset = @ + FragmentSize, !.fragmentno = @ + 1]
    BY <1>5 DEF SendFragment
  <2>2. /\ sending'.offset = sending.offset + FragmentSize
        /\ sending'.fragmentno = sending.fragmentno + 1
        /\ sending'.frame = sending.frame /\ sending'.payload = sending.payload
        /\ sending.offset \in Nat /\ sending.fragmentno \in Nat
    BY <1>1, <2>1 DEF EoEInv, EoETypeOK, Sendings
  <2>3. SenderAtBlock'
    <3>1. PICK i \in Nat : sending.offset = i * Block
      BY <1>1 DEF SenderAtBlock
    <3>2. PICK j \in Nat \ {0} : FragmentSize = j * Block
      BY <1>3, <2>1 DEF FragmentFacts
    <3>3. Block \in Nat /\ Block >= 1
      BY ConstantsTyped
    <3>4. /\ i + j \in Nat /\ sending'.offset = (i + j) * Block
          /\ sending'.offset # 0 /\ sending'.fragmentno # 0
      <4>1. (i + j) * Block = i * Block + j * Block
        BY <3>3
      <4>2. i * Block \in Nat /\ j * Block \in Nat /\ j * Block # 0
        BY <3>3
      <4> QED
        BY <2>2, <3>1, <3>2, <4>1, <4>2
    <3>5. /\ Blocks(Total(sending'.frame, stamps')) * Block <= Room
          /\ Len(sending'.payload) = Total(sending'.frame, stamps')
          /\ \A k \in 1..Len(sending'.frame) : sending'.payload[k] = sending'.frame[k]
      <4>1. stamps' = stamps
        BY <1>2 DEF eoeSetup
      <4> QED
        BY <1>1, <2>2, <4>1 DEF SenderAtBlock
    <3> QED
      BY <3>4, <3>5 DEF SenderAtBlock
  <2>4. FragmentFacts'
    BY <1>1, <1>5, <2>3, NextFragment
  <2>5. Follows(Fragment, Fragment')
    <3>1. /\ Fragment'.no = Fragment.no + 1 /\ Fragment'.frameno = Fragment.frameno
          /\ Fragment'.of = Fragment.of
      BY <1>2, <1>3, <2>2, <2>4 DEF FragmentFacts
    <3>2. Start(Fragment') = Start(Fragment) + Len(Fragment.data)
      BY <1>3, <2>2, <2>4 DEF FragmentFacts
    <3> QED
      BY <2>1, <3>1, <3>2 DEF Follows
  <2>6. Stream # <<>> /\ Stream[Len(Stream)] = Fragment
    <3>1. queue \in Seq(Fragments) /\ Fragment \in Fragments
      BY <1>3, StreamTyped DEF FragmentFacts
    <3> QED
      BY <1>3, <3>1, AppendProperties
  <2>7. Stream' = Append(Stream, Fragment')
    BY <1>2, <1>3, <1>5 DEF Stream
  <2>8. Fragment' \in Fragments /\ Piece(Fragment', stamps)
    BY <1>2, <2>4 DEF FragmentFacts, eoeSetup
  <2> QED
    BY <1>1, <1>2, <1>3, <2>3, <2>5, <2>6, <2>7, <2>8, StreamGrows
<1> QED
  BY <1>4, <1>5

LEMMA SendFailsWhole ==
  ASSUME WholeInv, SendFails
  PROVE  WholeInv'
<1>1. EoEInv' /\ sending # None /\ sending' = None /\ SenderAtBlock'
  BY SendFailsPreserves DEF WholeInv, SendFails, SenderAtBlock
<1>2. UNCHANGED <<eoeSetup, receiver>> /\ queue' \in {queue, Append(queue, Fragment)}
  BY DEF SendFails
<1>3. FragmentFacts /\ Stream = Append(queue, Fragment) /\ queue \in Seq(Fragments)
  BY <1>1, StreamTyped
<1>4. CASE queue' = Append(queue, Fragment)
  <2>1. Stream' = Stream
    BY <1>1, <1>3, <1>4 DEF Stream
  <2> QED
    BY <1>1, <1>2, <2>1, StreamStays
<1>5. CASE queue' = queue
  <2>1. Stream' = queue
    BY <1>1, <1>5 DEF Stream
  <2>2. /\ Sound(queue, stamps)
        /\ queue # <<>> => Stream[1] = queue[1]
    <3>1. Fragment \in Fragments /\ Sound(Append(queue, Fragment), stamps)
      BY <1>3 DEF WholeInv, FragmentFacts
    <3> QED
      BY <1>3, <3>1, SoundBefore
  <2>3. Sound(Stream', stamps')
    BY <1>2, <2>1, <2>2 DEF eoeSetup
  <2>4. ASSUME clean', Stream' # <<>>
        PROVE  Awaits(Stream[1])'
    <3>1. Stream # <<>>
      <4>1. Fragment \in Fragments /\ Len(queue) \in Nat
        BY <1>3, LenProperties DEF FragmentFacts
      <4>2. Len(Stream) = Len(queue) + 1
        BY <1>3, <4>1, AppendProperties
      <4> QED
        BY <4>1, <4>2, EmptySeq
    <3>2. Stream'[1] = Stream[1]
      BY <2>1, <2>2, <2>4
    <3>3. Awaits(Stream[1])
      BY <1>2, <2>4, <3>1, SMTT(20) DEF WholeInv, receiver
    <3> QED
      BY <1>2, <3>2, <3>3 DEF Awaits, receiver, eoeSetup
  <2> QED
    BY <1>1, <2>3, <2>4 DEF WholeInv
<1> QED
  BY <1>2, <1>4, <1>5

LEMMA TailOfAppend ==
  ASSUME NEW S, NEW s \in Seq(S), NEW e \in S, s # <<>>
  PROVE  Tail(Append(s, e)) = Append(Tail(s), e)
<1>1. /\ Append(s, e) \in Seq(S) /\ Append(s, e) # <<>>
      /\ Len(Append(s, e)) = Len(s) + 1 /\ Append(s, e)[Len(s) + 1] = e
      /\ \A i \in 1..Len(s) : Append(s, e)[i] = s[i]
      /\ Len(s) \in Nat /\ Len(s) > 0
  BY AppendProperties, LenProperties, EmptySeq
<1>2. /\ Tail(s) \in Seq(S) /\ Len(Tail(s)) = Len(s) - 1
      /\ \A i \in 1..Len(s) - 1 : Tail(s)[i] = s[i + 1]
  BY HeadTailProperties
<1>3. /\ Tail(Append(s, e)) \in Seq(S) /\ Len(Tail(Append(s, e))) = Len(s)
      /\ \A i \in 1..Len(s) : Tail(Append(s, e))[i] = Append(s, e)[i + 1]
  <2>1. /\ Tail(Append(s, e)) \in Seq(S)
        /\ Len(Tail(Append(s, e))) = Len(Append(s, e)) - 1
        /\ \A i \in 1..Len(Tail(Append(s, e))) : Tail(Append(s, e))[i] = Append(s, e)[i + 1]
    BY <1>1, HeadTailProperties
  <2>2. Len(Append(s, e)) - 1 = Len(s)
    BY <1>1
  <2> QED
    BY <2>1, <2>2
<1>4. /\ Append(Tail(s), e) \in Seq(S) /\ Len(Append(Tail(s), e)) = Len(s)
      /\ \A i \in 1..Len(s) - 1 : Append(Tail(s), e)[i] = Tail(s)[i]
      /\ Append(Tail(s), e)[Len(s)] = e
  <2>1. /\ Append(Tail(s), e) \in Seq(S)
        /\ Len(Append(Tail(s), e)) = Len(Tail(s)) + 1
        /\ \A i \in 1..Len(Tail(s)) : Append(Tail(s), e)[i] = Tail(s)[i]
        /\ Append(Tail(s), e)[Len(Tail(s)) + 1] = e
    BY <1>2, AppendProperties
  <2>2. Len(Tail(s)) + 1 = Len(s)
    BY <1>1, <1>2
  <2> QED
    BY <1>2, <2>1, <2>2
<1>5. ASSUME NEW i \in 1..Len(s)
      PROVE  Tail(Append(s, e))[i] = Append(Tail(s), e)[i]
  <2>1. CASE i = Len(s)
    BY <1>1, <1>3, <1>4, <2>1
  <2>2. CASE i # Len(s)
    <3>1. i \in 1..Len(s) - 1 /\ i + 1 \in 1..Len(s)
      BY <1>1, <2>2
    <3> QED
      BY <1>1, <1>2, <1>3, <1>4, <3>1
  <2> QED
    BY <2>1, <2>2
<1> QED
  BY <1>3, <1>4, <1>5, SeqEqual

LEMMA TotalUnits ==
  ASSUME NEW frame, Len(frame) \in Nat, NEW b
  PROVE  /\ Total(frame, b) \in {Len(frame), Len(frame) + 1} /\ Total(frame, b) \in Nat
         /\ b => Total(frame, b) = Len(frame) + 1
         /\ ~b => Total(frame, b) = Len(frame)
<1>1. CASE b
  <2>1. Total(frame, b) = Len(frame) + 1
    BY <1>1, Zenon DEF Total
  <2>2. Len(frame) + 1 \in Nat
    OBVIOUS
  <2> QED
    BY <1>1, <2>1, <2>2, Zenon
<1>2. CASE ~b
  <2>1. Total(frame, b) = Len(frame) + 0 /\ Len(frame) + 0 = Len(frame)
    <3>1. Total(frame, b) = Len(frame) + 0
      BY <1>2, Zenon DEF Total
    <3>2. Len(frame) + 0 = Len(frame)
      OBVIOUS
    <3> QED
      BY <3>1, <3>2, Zenon
  <2> QED
    BY <1>2, <2>1, Zenon
<1> QED
  BY <1>1, <1>2

LEMMA MessageUnits ==
  ASSUME NEW m \in Fragments
  PROVE  /\ Start(m) \in Nat /\ Len(m.data) \in Nat /\ m.data \in Seq(Unit)
         /\ Len(m.of) \in Nat /\ m.of \in Seq(Unit)
<1>1. /\ m.of \in Seq(Unit) /\ m.data \in Seq(Unit) /\ m.no \in Nat
      /\ m.offset \in Nat /\ Block \in Nat
  BY ConstantsTyped DEF Fragments
<1>2. m.offset * Block \in Nat
  BY <1>1
<1>3. Start(m) \in Nat
  BY <1>2 DEF Start
<1> QED
  BY <1>1, <1>3, LenProperties

\* A call of ecx_EOErecv that is not in a frame can begin with one.
Startable(m) == m.no = 0 /\ mode = "recv" => rx.fragmentno = 0

LEMMA CleanAwaits ==
  ASSUME NEW m, CleanWith(m), clean => Awaits(m)
  PROVE  Awaits(m) /\ Startable(m)
<1>1. CASE m.no = 0
  BY <1>1 DEF CleanWith, Awaits, Startable
<1>2. CASE m.no # 0
  <2>1. clean
    BY <1>2, Zenon DEF CleanWith
  <2> QED
    BY <1>2, <2>1 DEF Startable
<1> QED
  BY <1>1, <1>2

\* A fragment that a receiver can go on with is accepted, its data is put where it
\* belongs, and the receiver is behind it.
LEMMA WholeSoFar ==
  ASSUME EoETypeOK, NEW m \in Fragments, Piece(m, stamps), Awaits(m), Startable(m)
  PROVE  /\ Accepts(m)
         /\ Advanced(m).fragmentno = m.no + 1 /\ Advanced(m).frameno = m.frameno
         /\ Advanced(m).framesize = Blocks(Total(m.of, stamps)) * Block
         /\ Advanced(m).frameoffset = Start(m) + Len(m.data)
         /\ \A k \in 1..Start(m) + Len(m.data) : k <= Len(m.of) => Copied(m)[k] = m.of[k]
<1> DEFINE p == Position(m)
           total == Total(m.of, stamps)
<1>1. /\ mode \in {"recv", "read fragment"}
      /\ rx \in Positions /\ rx.fragmentno \in Nat
      /\ m.no \in Nat /\ m.offset \in Nat /\ m.of \in Seq(Unit) /\ m.data \in Seq(Unit)
      /\ Len(m.of) \in Nat /\ Len(m.data) \in Nat
  BY LenProperties DEF EoETypeOK, Fragments, Positions
<1>2. Block \in Nat /\ Block >= 1 /\ Room \in Nat
  BY ConstantsTyped
<1>3. total \in Nat /\ total >= Len(m.of) /\ total <= Len(m.of) + 1
  <2>1. total \in Nat /\ total \in {Len(m.of), Len(m.of) + 1}
    BY <1>1, TotalUnits
  <2>2. Len(m.of) \in Nat
    BY <1>1
  <2> HIDE DEF total
  <2> QED
    BY <2>1, <2>2
<1>4. Blocks(total) * Block \in Nat /\ total <= Blocks(total) * Block
  <2> HIDE DEF total
  <2> QED
    BY <1>3, BlocksEnough
<1>5. Start(m) \in Nat
  BY MessageUnits
<1>6. Start(m) < total /\ Start(m) + Len(m.data) <= total /\ Blocks(total) * Block <= Room
  BY DEF Piece
<1>7. /\ p \in Positions
      /\ p.fragmentno = m.no /\ p.frameno = m.frameno
      /\ p.framesize = Blocks(total) * Block /\ p.frameoffset = Start(m)
      /\ \A k \in 1..Start(m) : buf[k] = m.of[k]
      /\ Accepts(m)
  <2>1. p \in Positions
    BY PositionTyped
  <2>2. CASE m.no = 0
    <3>1. m.offset = Blocks(total) /\ Start(m) = 0
      BY <2>2 DEF Piece, Start
    <3>2. mode = "recv" => rx.fragmentno = 0
      BY <2>2 DEF Startable
    <3>3. p = NewFrame(m)
      BY <1>1, <2>2, <3>2 DEF Position
    <3>4. Accepts(m)
      BY <1>6, <2>2, <3>1, <3>2 DEF Accepts, RecvAccepts, ReadAccepts, NewFrame
    <3> HIDE DEF total, p
    <3> QED
      BY <2>1, <2>2, <3>1, <3>3, <3>4 DEF NewFrame
  <2>3. CASE m.no # 0
    <3>1. m.no > 0
      <4>1. m.no \in Nat
        BY <1>1
      <4> QED
        BY <2>3, <4>1
    <3>2. /\ rx.fragmentno = m.no /\ rx.frameno = m.frameno
          /\ rx.framesize = Blocks(total) * Block
          /\ rx.frameoffset = Start(m) /\ Start(m) = m.offset * Block
          /\ \A k \in 1..Start(m) : buf[k] = m.of[k]
      BY <2>3, <3>1 DEF Awaits, Start
    <3>3. p = rx
      BY <2>3, <3>2 DEF Position
    <3>4. Accepts(m)
      BY <2>3, <3>2 DEF Accepts, RecvAccepts, ReadAccepts, SameFrame
    <3> HIDE DEF total, p
    <3> QED
      BY <2>1, <3>2, <3>3, <3>4
  <2> QED
    BY <2>2, <2>3
<1>8. Fits(m)
  <2> HIDE DEF total
  <2>1. p.frameoffset + Len(m.data) <= Room /\ p.frameoffset + Len(m.data) <= p.framesize
    <3>1. /\ p.frameoffset = Start(m) /\ p.framesize = Blocks(total) * Block
          /\ Len(m.data) \in Nat
      BY <1>1, <1>7
    <3> DEFINE units == Blocks(total) * Block
    <3>2. /\ units \in Nat /\ total <= units /\ units <= Room
          /\ p.framesize = units
      BY <1>4, <1>6, <3>1
    <3> HIDE DEF p, units
    <3> QED
      BY <1>2, <1>3, <1>5, <1>6, <3>1, <3>2
  <2> QED
    BY <2>1 DEF Fits
<1>9. /\ Advanced(m).fragmentno = m.no + 1 /\ Advanced(m).frameno = m.frameno
      /\ Advanced(m).framesize = Blocks(total) * Block
      /\ Advanced(m).frameoffset = Start(m) + Len(m.data)
  <2>1. Advanced(m) = [p EXCEPT !.frameoffset = @ + Len(m.data), !.fragmentno = @ + 1]
    BY <1>8 DEF Advanced
  <2> HIDE DEF p, total
  <2> QED
    BY <1>7, <2>1 DEF Positions
<1>10. ASSUME NEW k \in 1..Start(m) + Len(m.data), k <= Len(m.of)
       PROVE  Copied(m)[k] = m.of[k]
  <2>1. k \in 1..Room /\ k \in Nat
    <3> DEFINE units == Blocks(total) * Block
               size == Len(m.data)
    <3>1. /\ units \in Nat /\ total <= units /\ units <= Room /\ size \in Nat
          /\ Start(m) + size <= total /\ k \in 1..Start(m) + size
      BY <1>1, <1>4, <1>6
    <3> HIDE DEF total, units, size
    <3> QED
      BY <1>2, <1>3, <1>5, <3>1
  <2>2. Copied(m)[k] = IF k <= Start(m) THEN buf[k]
                       ELSE IF k <= Start(m) + Len(m.data) THEN m.data[k - Start(m)]
                       ELSE None
    BY <1>7, <1>8, <2>1 DEF Copied
  <2>3. CASE k <= Start(m)
    BY <1>5, <1>7, <2>1, <2>2, <2>3
  <2>4. CASE k > Start(m)
    <3> DEFINE j == k - Start(m)
               size == Len(m.data)
    <3>1. j \in 1..Len(m.data) /\ Start(m) + j = k /\ ~(k <= Start(m)) /\ k <= Start(m) + Len(m.data)
      <4>1. size \in Nat /\ k \in 1..Start(m) + size
        BY <1>1
      <4> HIDE DEF size
      <4>2. /\ k - Start(m) \in 1..size /\ Start(m) + (k - Start(m)) = k
            /\ ~(k <= Start(m)) /\ k <= Start(m) + size
        BY <1>5, <2>1, <2>4, <4>1
      <4> QED
        BY <4>2 DEF size
    <3>2. Copied(m)[k] = m.data[j]
      BY <2>2, <3>1
    <3> HIDE DEF j
    <3>3. m.data[j] = m.of[Start(m) + j]
      BY <1>10, <3>1 DEF Piece
    <3> QED
      BY <3>1, <3>2, <3>3
  <2> QED
    BY <1>5, <2>1, <2>3, <2>4
<1> QED
  BY <1>7, <1>9, <1>10

\* The message that the receiver gets is the first of the stream.
LEMMA FirstOfStream ==
  ASSUME WholeInv, queue # <<>>, queue' = Tail(queue), UNCHANGED <<eoeSetup, sender>>
  PROVE  Stream # <<>> /\ Stream[1] = Head(queue) /\ Stream' = Tail(Stream)
<1>1. /\ queue \in Seq(Fragments) /\ Len(queue) \in Nat /\ Len(queue) > 0
      /\ sending # None => Fragment \in Fragments
  BY StreamTyped, LenProperties, EmptySeq DEF FragmentFacts
<1>2. Fragment' = Fragment
  BY DEF Fragment, FragmentSize, Left, eoeSetup, sender
<1>3. CASE sending = None
  BY <1>1, <1>3, HeadTailProperties DEF Stream, sender
<1>4. CASE sending # None
  <2>1. Stream = Append(queue, Fragment) /\ Stream' = Append(Tail(queue), Fragment)
    BY <1>2, <1>4 DEF Stream, sender
  <2>2. /\ Len(Stream) = Len(queue) + 1 /\ Stream[1] = queue[1]
        /\ Head(queue) = queue[1]
    BY <1>1, <1>4, <2>1, AppendProperties, HeadTailProperties
  <2>3. Tail(Append(queue, Fragment)) = Append(Tail(queue), Fragment)
    BY <1>1, <1>4, TailOfAppend
  <2> QED
    BY <1>1, <2>1, <2>2, <2>3, EmptySeq
<1> QED
  BY <1>3, <1>4

LEMMA StreamMoves ==
  ASSUME WholeInv, queue # <<>>, queue' = Tail(queue), UNCHANGED <<eoeSetup, sender>>
  PROVE  /\ Head(queue) \in Fragments /\ Piece(Head(queue), stamps)
         /\ clean => Awaits(Head(queue))
         /\ Sound(Stream', stamps')
         /\ Stream' # <<>> =>
              Follows(Head(queue), Stream'[1]) /\ Stream'[1] \in Fragments
<1>1. Stream \in Seq(Fragments) /\ Sound(Stream, stamps)
  BY StreamTyped DEF WholeInv
<1>2. Stream # <<>> /\ Stream[1] = Head(queue) /\ Stream' = Tail(Stream)
  BY FirstOfStream
<1>3. clean => Awaits(Head(queue))
  BY <1>2 DEF WholeInv
<1> QED
  BY <1>1, <1>2, <1>3, SoundBehind DEF eoeSetup

LEMMA ReceiveWhole ==
  ASSUME WholeInv, Receive
  PROVE  WholeInv'
<1> DEFINE m == Head(queue)
<1>1. EoEInv' /\ EoETypeOK
  BY ReceivePreserves DEF WholeInv, EoEInv
<1>2. queue # <<>> /\ queue' = Tail(queue) /\ UNCHANGED <<eoeSetup, sender>>
  BY DEF Receive
<1>3. SenderAtBlock'
  BY <1>2 DEF WholeInv, SenderAtBlock, eoeSetup, sender
<1>4. /\ m \in Fragments /\ Piece(m, stamps) /\ (clean => Awaits(m))
      /\ Sound(Stream', stamps')
      /\ Stream' # <<>> => Follows(m, Stream'[1]) /\ Stream'[1] \in Fragments
  BY <1>2, StreamMoves
<1>5. /\ \/ Accepts(m) /\ m.last /\ Complete(m)
         \/ Accepts(m) /\ ~m.last /\ Continue(m)
         \/ ~Accepts(m) /\ Reject
      /\ clean' = CleanWith(m)
  BY DEF Receive
<1> HIDE DEF m
<1>6. ASSUME clean', Stream' # <<>>
      PROVE  Awaits(Stream[1])'
  <2> DEFINE n == Stream'[1]
  <2>1. SUFFICES ASSUME n.no > 0
                 PROVE  /\ rx'.fragmentno = n.no /\ rx'.frameno = n.frameno
                        /\ rx'.framesize = Blocks(Total(n.of, stamps')) * Block
                        /\ rx'.frameoffset = Start(n)
                        /\ \A k \in 1..Start(n) : buf'[k] = n.of[k]
    BY DEF Awaits
  <2>2. /\ ~m.last /\ n.no = m.no + 1 /\ n.frameno = m.frameno /\ n.of = m.of
        /\ Start(n) = Start(m) + Len(m.data)
    BY <1>4, <1>6, <2>1 DEF Follows
  <2> HIDE DEF n
  <2>3. /\ Accepts(m)
        /\ Advanced(m).fragmentno = m.no + 1 /\ Advanced(m).frameno = m.frameno
        /\ Advanced(m).framesize = Blocks(Total(m.of, stamps)) * Block
        /\ Advanced(m).frameoffset = Start(m) + Len(m.data)
        /\ \A k \in 1..Start(m) + Len(m.data) : k <= Len(m.of) => Copied(m)[k] = m.of[k]
    BY <1>1, <1>4, <1>5, <1>6, CleanAwaits, WholeSoFar
  <2>4. rx' = Advanced(m) /\ buf' = Copied(m) /\ stamps' = stamps
    BY <1>2, <1>5, <2>2, <2>3 DEF Continue, eoeSetup
  <2>5. ASSUME NEW k \in 1..Start(m) + Len(m.data)
        PROVE  k <= Len(m.of)
    <3>1. /\ Start(m) + Len(m.data) < Total(m.of, stamps)
          /\ Total(m.of, stamps) \in Nat /\ Total(m.of, stamps) <= Len(m.of) + 1
          /\ Start(m) \in Nat /\ Len(m.data) \in Nat /\ Len(m.of) \in Nat
      <4>1. /\ Start(m) + Len(m.data) <= Total(m.of, stamps)
            /\ Start(m) + Len(m.data) # Total(m.of, stamps)
        BY <1>4, <2>2 DEF Piece
      <4>2. Len(m.of) \in Nat /\ Len(m.data) \in Nat /\ Start(m) \in Nat
        BY <1>4, MessageUnits
      <4>3. /\ Total(m.of, stamps) \in Nat
            /\ Total(m.of, stamps) \in {Len(m.of), Len(m.of) + 1}
        BY <4>2, TotalUnits
      <4> QED
        BY <4>1, <4>2, <4>3
    <3> QED
      BY <3>1
  <2> QED
    BY <2>2, <2>3, <2>4, <2>5
<1> QED
  BY <1>1, <1>3, <1>4, <1>6 DEF WholeInv

LEMMA FaultsWhole ==
  ASSUME WholeInv, BreaksOff \/ Lost
  PROVE  WholeInv'
<1>1. EoEInv' /\ clean' = FALSE /\ UNCHANGED <<eoeSetup, sender>>
  BY FaultsPreserve DEF WholeInv, BreaksOff, Lost, sender
<1>2. SenderAtBlock'
  BY <1>1 DEF WholeInv, SenderAtBlock, eoeSetup, sender
<1>3. CASE BreaksOff
  <2>1. Stream' = Stream
    BY <1>1, <1>3 DEF BreaksOff, Stream, Fragment, FragmentSize, Left, eoeSetup, sender
  <2> QED
    BY <1>1, <1>2, <2>1 DEF WholeInv, eoeSetup
<1>4. CASE Lost
  <2>1. Sound(Stream', stamps')
    BY <1>1, <1>4, StreamMoves DEF Lost
  <2> QED
    BY <1>1, <1>2, <2>1 DEF WholeInv
<1> QED
  BY <1>3, <1>4

\* With the last fragment of a frame that the receiver has so far the frame is
\* handed over.
LEMMA HandedWhole ==
  ASSUME EoETypeOK, NEW m \in Fragments, Piece(m, stamps), Awaits(m), Startable(m), m.last,
         Complete(m)
  PROVE  got' = m.of
<1>1. /\ Advanced(m).frameoffset = Start(m) + Len(m.data)
      /\ \A k \in 1..Start(m) + Len(m.data) : k <= Len(m.of) => Copied(m)[k] = m.of[k]
  BY WholeSoFar
<1>2. got' = SubSeq(Copied(m), 1, Advanced(m).frameoffset - (IF m.stamp THEN 1 ELSE 0))
  BY DEF Complete
<1>3. Start(m) + Len(m.data) = Total(m.of, stamps) /\ (m.stamp <=> stamps)
  BY DEF Piece
<1>4. /\ m.of \in Seq(Unit) /\ Len(m.of) \in Nat
      /\ Advanced(m).frameoffset - (IF m.stamp THEN 1 ELSE 0) = Len(m.of)
      /\ \A k \in 1..Len(m.of) : k \in 1..Start(m) + Len(m.data)
  <2> DEFINE end == Start(m) + Len(m.data)
  <2>1. m.of \in Seq(Unit) /\ Len(m.of) \in Nat
    BY MessageUnits
  <2>2. /\ end \in Nat /\ (stamps => end = Len(m.of) + 1)
        /\ ~stamps => end = Len(m.of)
    BY <1>3, <2>1, TotalUnits
  <2>3. Advanced(m).frameoffset = end
    BY <1>1
  <2> HIDE DEF end
  <2>4. end - (IF m.stamp THEN 1 ELSE 0) = Len(m.of)
    <3>1. CASE stamps
      <4>1. (IF m.stamp THEN 1 ELSE 0) = 1
        BY <1>3, <3>1, Zenon
      <4>2. end = Len(m.of) + 1
        BY <2>2, <3>1, Zenon
      <4>3. end - 1 = Len(m.of)
        BY <2>1, <4>2
      <4> QED
        BY <4>1, <4>3, Zenon
    <3>2. CASE ~stamps
      <4>1. (IF m.stamp THEN 1 ELSE 0) = 0
        BY <1>3, <3>2, Zenon
      <4>2. end = Len(m.of)
        BY <2>2, <3>2, Zenon
      <4>3. end - 0 = Len(m.of)
        BY <2>1, <4>2
      <4> QED
        BY <4>1, <4>3, Zenon
    <3> QED
      BY <3>1, <3>2
  <2>5. \A k \in 1..Len(m.of) : k \in 1..end
    BY <2>1, <2>2
  <2> QED
    BY <2>1, <2>3, <2>4, <2>5 DEF end
<1> DEFINE copy == Copied(m)
<1>5. \A k \in 1..Len(m.of) : copy[k] = m.of[k] /\ copy[k] \in Unit
  BY <1>1, <1>4, ElementOfSeq
<1> HIDE DEF copy
<1>6. /\ SubSeq(copy, 1, Len(m.of)) \in Seq(Unit)
      /\ Len(SubSeq(copy, 1, Len(m.of))) = Len(m.of)
      /\ \A k \in 1..Len(m.of) : SubSeq(copy, 1, Len(m.of))[k] = m.of[k]
  <2>1. /\ SubSeq(copy, 1, Len(m.of)) \in Seq(Unit)
        /\ Len(SubSeq(copy, 1, Len(m.of))) =
             IF 1 <= Len(m.of) THEN Len(m.of) - 1 + 1 ELSE 0
        /\ \A k \in 1..Len(m.of) - 1 + 1 : SubSeq(copy, 1, Len(m.of))[k] = copy[1 + k - 1]
    BY <1>4, <1>5, SubSeqProperties
  <2>2. \A k \in 1..Len(m.of) : 1 + k - 1 = k
    BY <1>4
  <2>3. Len(m.of) - 1 + 1 = Len(m.of) /\ (1 <= Len(m.of) \/ Len(m.of) = 0)
    BY <1>4
  <2> QED
    BY <1>5, <2>1, <2>2, <2>3
<1>7. SubSeq(copy, 1, Len(m.of)) = m.of
  BY <1>4, <1>6, SeqEqual
<1> QED
  BY <1>2, <1>4, <1>7 DEF copy

\* The last fragment of a frame that came whole.
LEMMA WholeStep ==
  ASSUME WholeInv, Receive, Head(queue).last, CleanWith(Head(queue))
  PROVE  got' = Head(queue).of
<1> DEFINE m == Head(queue)
<1>1. EoETypeOK
  BY DEF WholeInv, EoEInv
<1>2. queue # <<>> /\ queue' = Tail(queue) /\ UNCHANGED <<eoeSetup, sender>>
  BY DEF Receive
<1>3. m \in Fragments /\ Piece(m, stamps) /\ (clean => Awaits(m))
  BY <1>2, StreamMoves
<1>4. Awaits(m) /\ Startable(m)
  BY <1>3, CleanAwaits
<1>5. Accepts(m)
  BY <1>1, <1>3, <1>4, WholeSoFar
<1>6. m.last /\ Complete(m)
  BY <1>5 DEF Receive
<1> QED
  BY <1>1, <1>3, <1>4, <1>6, HandedWhole

LEMMA WholeStays == WholeInv /\ UNCHANGED eoeVars => WholeInv'
<1> SUFFICES ASSUME WholeInv, UNCHANGED eoeVars
             PROVE  WholeInv'
    OBVIOUS
<1>1. EoEInv' /\ SenderAtBlock'
  BY DEF eoeVars, eoeSetup, sender, receiver, WholeInv, EoEInv, EoETypeOK, SendingInside, Filled,
         SenderAtBlock
<1>2. Stream' = Stream
  BY DEF eoeVars, eoeSetup, sender, Stream, Fragment, FragmentSize, Left
<1> QED
  BY <1>1, <1>2, StreamStays DEF eoeVars

LEMMA WholeInvariant == EoESpec => []WholeInv
<1>1. WholeInv /\ [EoENext]_eoeVars => WholeInv'
  BY WholeStays, SendBeginsWhole, SendFragmentWhole, SendFailsWhole, ReceiveWhole, FaultsWhole
     DEF EoENext
<1> QED
  BY InitWhole, <1>1, PTL DEF EoESpec

\* Whatever was lost before it, and whatever was left of another frame in the
\* receiver: a frame all of whose fragments come is handed over, unchanged and
\* without its time stamp, by ecx_EOErecv unless a call of it is still in
\* another frame, and by ecx_EOEreadfragment in any case.
THEOREM WholeFramesArrive == EoESpec => WholeFrameArrives
<1>1. WholeInv /\ [EoENext]_eoeVars =>
        [Receive /\ Head(queue).last /\ CleanWith(Head(queue)) => got' = Head(queue).of]_eoeVars
  BY WholeStep
<1> QED
  BY <1>1, WholeInvariant, PTL DEF EoESpec, WholeFrameArrives

-----------------------------------------------------------------------------
(* Frames are not mixed                                                    *)

\* The frame numbers come round: a frame is told from those that are fewer than
\* FrameNos behind it, and so many have to be lost or broken before a fragment
\* can be taken for one of another frame.
FewFaults == MaxFaults < FrameNos

\* A frame counts as a fault when it breaks off behind a message that is not its
\* last, and one that a receiver is in the middle of, too.
Open(m) == IF m.last THEN 0 ELSE 1

Unfinished(receiving) == IF receiving.fragmentno > 0 THEN 1 ELSE 0

\* A message m is of the am-th frame from some frame on, and until then em things
\* at least went wrong: behind it n is of the same frame, or a frame was broken
\* off and others were not begun.
Passed(m, am, em, n, an, en) ==
  /\ em <= en
  /\ n.no > 0 => an = am
  /\ n.no = 0 => am < an /\ em + (an - am - 1) + Open(m) <= en

Chain(messages, a, e) ==
  /\ \A i, j \in 1..Len(messages) : i < j => a[i] <= a[j] /\ (messages[j].no = 0 => a[i] < a[j])
  /\ \A i \in 1..Len(messages) - 1 :
       Passed(messages[i], a[i], e[i], messages[i + 1], a[i + 1], e[i + 1])

\* For the message that the receiver gets next.
FirstAt(m, am, em, unfinished) ==
  /\ m.no = 0 => 1 <= am /\ am - 1 + unfinished <= em
  /\ m.no > 0 /\ 0 < am => am + unfinished <= em

\* What the receiver has is the beginning of the frame that m is of.
InFrame(m) ==
  /\ rx.framesize = Blocks(Total(m.of, stamps)) * Block
  /\ \A k \in 1..rx.frameoffset : k <= Len(m.of) => buf[k] = m.of[k]

\* r is the number of the frame that the receiver is in, if it is in one, the
\* last frame begun is the h-th from there on, and x things at least went wrong.
CountedIn(r, h, x, a, e) ==
  /\ rx.fragmentno > 0 => rx.frameno = r
  /\ txframeno = (r + h) % FrameNos
  /\ Chain(Stream, a, e)
  /\ \A i \in 1..Len(Stream) : Stream[i].frameno = (r + a[i]) % FrameNos /\ e[i] <= x
  /\ x <= faults
  /\ Stream = <<>> => h + Unfinished(rx) <= x
  /\ Stream # <<>> =>
       /\ FirstAt(Stream[1], a[1], e[1], Unfinished(rx))
       /\ rx.fragmentno > 0 /\ Stream[1].no > 0 /\ a[1] = 0 => InFrame(Stream[1])
       /\ a[Len(Stream)] <= h
       /\ sending # None => a[Len(Stream)] = h
       /\ sending = None =>
            e[Len(Stream)] + (h - a[Len(Stream)]) + Open(Stream[Len(Stream)]) <= x

Countable ==
  \E r \in 0..FrameNos - 1, h \in Nat, x \in Nat,
     a \in [1..Len(Stream) -> Nat], e \in [1..Len(Stream) -> Nat] : CountedIn(r, h, x, a, e)

UnmixedInv == WholeInv /\ Countable

\* Numbers that come round.
LEMMA RoundNumbers ==
  ASSUME NEW n \in Nat, NEW b \in Nat \ {0}
  PROVE  n % b \in 0..b - 1 /\ n = b * (n \div b) + (n % b) /\ n \div b \in Nat
<1>1. n = b * (n \div b) + (n % b) /\ n % b \in 0..b - 1
  OBVIOUS
<1> QED
  BY <1>1, QuotientNatural

LEMMA SameRound ==
  ASSUME NEW b \in Nat \ {0}, NEW q \in Int, NEW p \in Int, NEW s \in 0..b - 1, NEW t \in 0..b - 1,
         b * q + s = b * p + t
  PROVE  s = t
<1>1. b * (q - p) = t - s /\ b * (p - q) = s - t
  OBVIOUS
<1>2. CASE q = p
  BY <1>2
<1>3. CASE q > p
  <2>1. b * (q - p) >= b
    BY <1>3
  <2> QED
    BY <1>1, <2>1
<1>4. CASE q < p
  <2>1. b * (p - q) >= b
    BY <1>4
  <2> QED
    BY <1>1, <2>1
<1> QED
  BY <1>2, <1>3, <1>4

LEMMA RoundSum ==
  ASSUME NEW n \in Nat, NEW k \in Nat, NEW b \in Nat \ {0}
  PROVE  ((n % b) + k) % b = (n + k) % b
<1> DEFINE s == n % b
           q == n \div b
           t == (s + k) % b
           p == (s + k) \div b
           u == (n + k) % b
           v == (n + k) \div b
<1>1. n = b * q + s /\ s \in 0..b - 1 /\ q \in Nat
  BY RoundNumbers
<1> HIDE DEF s, q
<1>2. s + k \in Nat /\ n + k \in Nat
  BY <1>1
<1>3. s + k = b * p + t /\ t \in 0..b - 1 /\ p \in Nat
  BY <1>2, RoundNumbers
<1>4. n + k = b * v + u /\ u \in 0..b - 1 /\ v \in Nat
  BY <1>2, RoundNumbers
<1> HIDE DEF t, p, u, v
<1>5. b * (q + p) = b * q + b * p /\ q + p \in Nat
  BY <1>1, <1>3
<1>6. b * (q + p) + t = b * v + u
  BY <1>1, <1>3, <1>4, <1>5
<1> DEFINE w == q + p
<1>7. w \in Int /\ v \in Int /\ b * w + t = b * v + u
  BY <1>4, <1>5, <1>6
<1> HIDE DEF w
<1>8. t = u
  BY <1>3, <1>4, <1>7, SameRound
<1> QED
  BY <1>8 DEF t, u, s

\* A frame that is fewer than FrameNos behind has another number.
LEMMA OtherNumber ==
  ASSUME NEW b \in Nat \ {0}, NEW r \in 0..b - 1, NEW k \in 1..b - 1
  PROVE  (r + k) % b # r
<1> DEFINE t == (r + k) % b
           p == (r + k) \div b
<1>1. r + k \in Nat
  OBVIOUS
<1>2. r + k = b * p + t /\ t \in 0..b - 1 /\ p \in Nat
  BY <1>1, RoundNumbers
<1> HIDE DEF t, p
<1>3. SUFFICES ASSUME t = r
               PROVE  FALSE
  BY DEF t
<1>4. b * p = k
  BY <1>2, <1>3
<1>5. p = 0 \/ b * p >= b
  <2>1. p >= 1 => b * p >= b
    BY <1>2
  <2> QED
    BY <1>2, <2>1
<1> QED
  BY <1>2, <1>4, <1>5

\* The numbers of messages with one more at the end, without the first ones, and
\* without the first and counted from another frame.
Longer(a, n, value) == [i \in 1..n + 1 |-> IF i = n + 1 THEN value ELSE a[i]]

Shorter(a, n) == [i \in 1..n |-> a[i]]

From(a, n, d) == [i \in 1..n |-> a[i + 1] - d]

Raised(e, n, k) == [i \in 1..n |-> e[i + 1] + k]

\* A message more at the end.
LEMMA ChainGrows ==
  ASSUME NEW st \in Seq(Fragments), NEW n \in Fragments,
         NEW a \in [1..Len(st) -> Nat], NEW e \in [1..Len(st) -> Nat],
         NEW an \in Nat, NEW en \in Nat, Chain(st, a, e),
         st # <<>> => /\ a[Len(st)] <= an /\ (n.no = 0 => a[Len(st)] < an)
                      /\ Passed(st[Len(st)], a[Len(st)], e[Len(st)], n, an, en)
  PROVE  Chain(Append(st, n), Longer(a, Len(st), an), Longer(e, Len(st), en))
<1> DEFINE tt == Append(st, n)
           b == Longer(a, Len(st), an)
           f == Longer(e, Len(st), en)
<1>1. /\ Len(tt) = Len(st) + 1 /\ Len(st) \in Nat
      /\ \A i \in 1..Len(st) : tt[i] = st[i]
      /\ tt[Len(st) + 1] = n
      /\ st # <<>> <=> Len(st) > 0
  BY AppendProperties, LenProperties, EmptySeq
<1> DEFINE top == Len(st)
<1> HIDE DEF tt
<1>2. /\ top \in Nat /\ Len(tt) = top + 1
      /\ \A i \in 1..top : tt[i] = st[i] /\ b[i] = a[i] /\ f[i] = e[i] /\ a[i] \in Nat
      /\ tt[top + 1] = n /\ b[top + 1] = an /\ f[top + 1] = en
  <2>1. \A i \in 1..top : i \in 1..Len(tt) /\ i # top + 1
    BY <1>1
  <2>2. top + 1 \in 1..Len(tt)
    BY <1>1
  <2> QED
    BY <1>1, <2>1, <2>2 DEF Longer
<1>3. /\ \A i, j \in 1..top : i < j => a[i] <= a[j] /\ (st[j].no = 0 => a[i] < a[j])
      /\ \A i \in 1..top - 1 : Passed(st[i], a[i], e[i], st[i + 1], a[i + 1], e[i + 1])
  BY DEF Chain
<1>4. top > 0 => /\ a[top] <= an /\ (n.no = 0 => a[top] < an)
                 /\ Passed(st[top], a[top], e[top], n, an, en)
  BY <1>1
<1> HIDE DEF b, f, top
<1>5. ASSUME NEW i \in 1..Len(tt), NEW j \in 1..Len(tt), i < j
      PROVE  b[i] <= b[j] /\ (tt[j].no = 0 => b[i] < b[j])
  <2>1. i \in 1..top /\ top > 0 /\ top \in 1..top
    BY <1>2, <1>5
  <2>2. CASE j = top + 1
    <3>1. a[i] <= a[top] /\ a[i] \in Nat /\ a[top] \in Nat
      <4>1. CASE i = top
        BY <1>2, <2>1, <4>1
      <4>2. CASE i # top
        <5>1. i < top
          BY <1>2, <2>1, <4>2
        <5> QED
          BY <1>2, <1>3, <2>1, <5>1
      <4> QED
        BY <4>1, <4>2
    <3>2. a[i] <= an /\ (n.no = 0 => a[i] < an)
      BY <1>4, <2>1, <3>1
    <3> QED
      BY <1>2, <2>1, <2>2, <3>2
  <2>3. CASE j # top + 1
    <3>1. j \in 1..top
      BY <1>2, <2>3
    <3> QED
      BY <1>2, <1>3, <1>5, <2>1, <3>1
  <2> QED
    BY <2>2, <2>3
<1>6. ASSUME NEW i \in 1..Len(tt) - 1
      PROVE  Passed(tt[i], b[i], f[i], tt[i + 1], b[i + 1], f[i + 1])
  <2>1. i \in 1..top /\ top > 0
    BY <1>2
  <2>2. CASE i = top
    BY <1>2, <1>4, <2>1, <2>2
  <2>3. CASE i # top
    <3>1. i \in 1..top - 1 /\ i + 1 \in 1..top
      BY <1>2, <2>1, <2>3
    <3> QED
      BY <1>2, <1>3, <2>1, <3>1
  <2> QED
    BY <2>2, <2>3
<1> QED
  BY <1>5, <1>6 DEF Chain, tt, b, f

\* The messages without the last.
LEMMA ChainBefore ==
  ASSUME NEW st \in Seq(Fragments), NEW n \in Fragments,
         NEW a \in [1..Len(Append(st, n)) -> Nat], NEW e \in [1..Len(Append(st, n)) -> Nat],
         Chain(Append(st, n), a, e)
  PROVE  /\ Chain(st, Shorter(a, Len(st)), Shorter(e, Len(st)))
         /\ Len(Append(st, n)) = Len(st) + 1 /\ Len(st) \in Nat
         /\ \A i \in 1..Len(st) : Append(st, n)[i] = st[i]
         /\ Append(st, n)[Len(st) + 1] = n
         /\ Len(st) > 0 =>
              /\ a[Len(st)] <= a[Len(st) + 1]
              /\ Passed(st[Len(st)], a[Len(st)], e[Len(st)], n, a[Len(st) + 1], e[Len(st) + 1])
<1> DEFINE tt == Append(st, n)
           top == Len(st)
           b == Shorter(a, Len(st))
           f == Shorter(e, Len(st))
<1>1. /\ Len(tt) = top + 1 /\ top \in Nat
      /\ \A i \in 1..top : tt[i] = st[i] /\ b[i] = a[i] /\ f[i] = e[i]
      /\ tt[top + 1] = n
  BY AppendProperties, LenProperties DEF Shorter
<1>2. /\ \A i, j \in 1..Len(tt) : i < j => a[i] <= a[j] /\ (tt[j].no = 0 => a[i] < a[j])
      /\ \A i \in 1..Len(tt) - 1 : Passed(tt[i], a[i], e[i], tt[i + 1], a[i + 1], e[i + 1])
  BY DEF Chain
<1> HIDE DEF tt, top, b, f
<1>3. ASSUME NEW i \in 1..top, NEW j \in 1..top, i < j
      PROVE  b[i] <= b[j] /\ (st[j].no = 0 => b[i] < b[j])
  <2>1. i \in 1..Len(tt) /\ j \in 1..Len(tt)
    BY <1>1
  <2> QED
    BY <1>1, <1>2, <1>3, <2>1
<1>4. ASSUME NEW i \in 1..top - 1
      PROVE  Passed(st[i], b[i], f[i], st[i + 1], b[i + 1], f[i + 1])
  <2>1. i \in 1..Len(tt) - 1 /\ i \in 1..top /\ i + 1 \in 1..top
    BY <1>1
  <2> QED
    BY <1>1, <1>2, <2>1
<1>5. top > 0 => /\ a[top] <= a[top + 1]
                 /\ Passed(st[top], a[top], e[top], n, a[top + 1], e[top + 1])
  <2>1. SUFFICES ASSUME top > 0
                 PROVE  /\ a[top] <= a[top + 1]
                        /\ Passed(st[top], a[top], e[top], n, a[top + 1], e[top + 1])
    OBVIOUS
  <2>2. top \in 1..Len(tt) - 1 /\ top \in 1..Len(tt) /\ top + 1 \in 1..Len(tt) /\ top \in 1..top
    BY <1>1, <2>1
  <2>3. top < top + 1
    BY <1>1
  <2> QED
    BY <1>1, <1>2, <2>2, <2>3
<1>6. Chain(st, b, f)
  BY <1>3, <1>4 DEF Chain, top
<1> QED
  BY <1>1, <1>5, <1>6 DEF tt, top, b, f

LEMMA BehindShifts ==
  ASSUME NEW m, NEW n, NEW am \in Nat, NEW an \in Nat, NEW em \in Nat, NEW en \in Nat,
         NEW d \in Nat, NEW k \in Nat, Passed(m, am, em, n, an, en)
  PROVE  Passed(m, am - d, em + k, n, an - d, en + k)
<1>1. em + k <= en + k
  BY DEF Passed
<1>2. ASSUME n.no > 0
      PROVE  an - d = am - d
  BY <1>2 DEF Passed
<1>3. ASSUME n.no = 0
      PROVE  am - d < an - d /\ em + k + (an - d - (am - d) - 1) + Open(m) <= en + k
  <2>1. am < an /\ em + (an - am - 1) + Open(m) <= en
    BY <1>3 DEF Passed
  <2>2. Open(m) \in Nat
    BY DEF Open
  <2> QED
    BY <2>1, <2>2
<1> QED
  BY <1>1, <1>2, <1>3 DEF Passed

\* The messages without the first, counted from another frame.
LEMMA ChainBehind ==
  ASSUME NEW st \in Seq(Fragments), st # <<>>,
         NEW a \in [1..Len(st) -> Nat], NEW e \in [1..Len(st) -> Nat],
         NEW d \in Nat, d <= a[1], NEW k \in Nat, Chain(st, a, e)
  PROVE  /\ Chain(Tail(st), From(a, Len(Tail(st)), d), Raised(e, Len(Tail(st)), k))
         /\ From(a, Len(Tail(st)), d) \in [1..Len(Tail(st)) -> Nat]
         /\ Raised(e, Len(Tail(st)), k) \in [1..Len(Tail(st)) -> Nat]
         /\ Tail(st) # <<>> => Passed(st[1], a[1], e[1], Tail(st)[1], a[2], e[2])
<1> DEFINE tt == Tail(st)
           top == Len(tt)
           b == From(a, Len(tt), d)
           f == Raised(e, Len(tt), k)
<1>1. /\ Len(st) = top + 1 /\ top \in Nat /\ (tt # <<>> <=> top > 0)
      /\ \A i \in 1..top : tt[i] = st[i + 1] /\ b[i] = a[i + 1] - d /\ f[i] = e[i + 1] + k
  BY HeadTailProperties, LenProperties, EmptySeq DEF From, Raised
<1>2. /\ \A i, j \in 1..Len(st) : i < j => a[i] <= a[j] /\ (st[j].no = 0 => a[i] < a[j])
      /\ \A i \in 1..Len(st) - 1 : Passed(st[i], a[i], e[i], st[i + 1], a[i + 1], e[i + 1])
  BY DEF Chain
<1>3. \A i \in 1..top : a[i + 1] - d \in Nat /\ a[i + 1] \in Nat /\ e[i + 1] + k \in Nat /\ e[i + 1] \in Nat
  <2>1. SUFFICES ASSUME NEW i \in 1..top
                 PROVE  a[i + 1] - d \in Nat /\ a[i + 1] \in Nat /\ e[i + 1] + k \in Nat /\ e[i + 1] \in Nat
    OBVIOUS
  <2> HIDE DEF tt, top
  <2>2. 1 \in 1..Len(st) /\ i + 1 \in 1..Len(st) /\ 1 < i + 1
    BY <1>1, <2>1
  <2>3. a[1] <= a[i + 1] /\ a[i + 1] \in Nat /\ a[1] \in Nat /\ e[i + 1] \in Nat
    BY <1>2, <2>2
  <2> QED
    BY <2>3
<1>4. b \in [1..Len(tt) -> Nat] /\ f \in [1..Len(tt) -> Nat]
  BY <1>3 DEF From, Raised
<1> HIDE DEF tt, top, b, f
<1>5. ASSUME NEW i \in 1..top, NEW j \in 1..top, i < j
      PROVE  b[i] <= b[j] /\ (tt[j].no = 0 => b[i] < b[j])
  <2>1. i + 1 \in 1..Len(st) /\ j + 1 \in 1..Len(st) /\ i + 1 < j + 1
    BY <1>1, <1>5
  <2>2. a[i + 1] <= a[j + 1] /\ (tt[j].no = 0 => a[i + 1] < a[j + 1])
    BY <1>1, <1>2, <2>1
  <2> DEFINE ai == a[i + 1]
             aj == a[j + 1]
  <2>3. ai \in Nat /\ aj \in Nat /\ b[i] = ai - d /\ b[j] = aj - d
    BY <1>1, <1>3
  <2>4. ai <= aj /\ (tt[j].no = 0 => ai < aj)
    BY <2>2
  <2> HIDE DEF ai, aj
  <2>5. b[i] <= b[j] /\ (ai < aj => b[i] < b[j])
    BY <2>3, <2>4
  <2> QED
    BY <2>4, <2>5, Zenon
<1>6. ASSUME NEW i \in 1..top - 1
      PROVE  Passed(tt[i], b[i], f[i], tt[i + 1], b[i + 1], f[i + 1])
  <2>1. i + 1 \in 1..Len(st) - 1 /\ i \in 1..top /\ i + 1 \in 1..top
    BY <1>1
  <2>2. Passed(tt[i], a[i + 1], e[i + 1], tt[i + 1], a[i + 1 + 1], e[i + 1 + 1])
    BY <1>1, <1>2, <2>1
  <2>3. /\ b[i] = a[i + 1] - d /\ b[i + 1] = a[i + 1 + 1] - d
        /\ f[i] = e[i + 1] + k /\ f[i + 1] = e[i + 1 + 1] + k
        /\ a[i + 1] \in Nat /\ a[i + 1 + 1] \in Nat /\ e[i + 1] \in Nat /\ e[i + 1 + 1] \in Nat
    BY <1>1, <1>3, <2>1
  <2> QED
    BY <2>2, <2>3, BehindShifts, SMTT(20)
<1>7. ASSUME tt # <<>>
      PROVE  Passed(st[1], a[1], e[1], tt[1], a[2], e[2])
  <2>1. 1 \in 1..Len(st) - 1 /\ tt[1] = st[1 + 1]
    BY <1>1, <1>7
  <2>2. Passed(st[1], a[1], e[1], st[1 + 1], a[1 + 1], e[1 + 1])
    BY <1>2, <2>1
  <2> QED
    BY <2>1, <2>2
<1>8. Chain(tt, b, f)
  BY <1>5, <1>6 DEF Chain, top
<1> QED
  BY <1>4, <1>7, <1>8 DEF tt, b, f

LEMMA CountedTyped ==
  ASSUME WholeInv
  PROVE  /\ FrameNos \in Nat \ {0} /\ rx.fragmentno \in Nat /\ faults \in Nat
         /\ rx.frameno \in 0..FrameNos - 1 /\ txframeno \in 0..FrameNos - 1
         /\ Unfinished(rx) \in {0, 1} /\ Unfinished(rx) \in Nat
         /\ rx.fragmentno > 0 => Unfinished(rx) = 1
         /\ \A m : Open(m) \in {0, 1} /\ Open(m) \in Nat
         /\ Len(Stream) \in Nat /\ (Stream # <<>> <=> Len(Stream) > 0)
         /\ \A i \in 1..Len(Stream) : Stream[i] \in Fragments
<1>1. /\ rx \in Positions /\ txframeno \in 0..FrameNos - 1 /\ faults \in 0..MaxFaults
  BY DEF WholeInv, EoEInv, EoETypeOK
<1>2. Stream \in Seq(Fragments)
  BY StreamTyped
<1>3. Len(Stream) \in Nat /\ (Stream # <<>> <=> Len(Stream) > 0)
  BY <1>2, LenProperties, EmptySeq
<1>4. \A i \in 1..Len(Stream) : Stream[i] \in Fragments
  BY <1>2, ElementOfSeq
<1> QED
  BY <1>1, <1>3, <1>4, ConstantsTyped DEF Positions, Unfinished, Open

LEMMA InitUnmixed == EoEInit => UnmixedInv
<1> SUFFICES ASSUME EoEInit
             PROVE  UnmixedInv
    OBVIOUS
<1>1. WholeInv
  BY InitWhole
<1>2. Stream = <<>> /\ Len(Stream) = 0 /\ rx.fragmentno = 0 /\ txframeno = 0 /\ faults = 0
  BY EmptySeq DEF EoEInit, Stream, Unstarted
<1> DEFINE a == [i \in 1..Len(Stream) |-> 0]
<1>3. a \in [1..Len(Stream) -> Nat] /\ 0 \in 0..FrameNos - 1 /\ 0 \in Nat
  BY <1>1, CountedTyped
<1> HIDE DEF a
<1>4. CountedIn(0, 0, 0, a, a)
  <2>1. Chain(Stream, a, a)
    BY <1>2 DEF Chain
  <2>2. 0 = (0 + 0) % FrameNos
    <3>1. FrameNos \in Nat \ {0} /\ 0 + 0 = 0
      BY <1>1, CountedTyped
    <3>2. 0 % FrameNos \in 0..FrameNos - 1 /\ 0 = FrameNos * (0 \div FrameNos) + (0 % FrameNos)
      BY <3>1, RoundNumbers
    <3>3. 0 % FrameNos = 0
      BY <3>1
    <3> QED
      BY <3>1, <3>3
  <2>3. Unfinished(rx) = 0 /\ 0 + Unfinished(rx) <= 0 /\ 0 <= 0
    BY <1>2 DEF Unfinished
  <2> QED
    BY <1>2, <2>1, <2>2, <2>3 DEF CountedIn
<1> QED
  BY <1>1, <1>3, <1>4 DEF UnmixedInv, Countable

\* A message more of the frame begun last, or the first of another.
LEMMA CountedGrows ==
  ASSUME WholeInv, NEW r \in 0..FrameNos - 1, NEW h \in Nat, NEW x \in Nat,
         NEW a \in [1..Len(Stream) -> Nat], NEW e \in [1..Len(Stream) -> Nat],
         CountedIn(r, h, x, a, e), NEW n \in Fragments, NEW g \in Nat, NEW y \in Nat, y <= x,
         Stream' = Append(Stream, n), sending' # None,
         txframeno' = (r + g) % FrameNos, n.frameno = txframeno',
         Stream = <<>> => n.no = 0 /\ FirstAt(n, g, y, Unfinished(rx)),
         Stream # <<>> =>
           /\ a[Len(Stream)] <= g /\ (n.no = 0 => a[Len(Stream)] < g)
           /\ Passed(Stream[Len(Stream)], a[Len(Stream)], e[Len(Stream)], n, g, y),
         UNCHANGED <<rx, buf, stamps, faults>>
  PROVE  Countable'
<1> DEFINE top == Len(Stream)
<1>1. /\ Stream \in Seq(Fragments) /\ top \in Nat /\ (Stream # <<>> <=> top > 0)
      /\ Len(Stream') = top + 1 /\ Stream'[top + 1] = n
      /\ \A i \in 1..top : Stream'[i] = Stream[i]
  BY StreamTyped, AppendProperties, LenProperties, EmptySeq
<1>2. PICK b, f : b = Longer(a, Len(Stream), g) /\ f = Longer(e, Len(Stream), y)
  OBVIOUS
<1>3. Chain(Stream', b, f)
  <2>1. Chain(Stream, a, e)
    BY DEF CountedIn
  <2>2. Chain(Append(Stream, n), Longer(a, Len(Stream), g), Longer(e, Len(Stream), y))
    BY <1>1, <2>1, ChainGrows
  <2> QED
    BY <1>2, <2>2
<1>4. /\ b = [i \in 1..Len(Stream') |-> IF i = top + 1 THEN g ELSE a[i]]
      /\ f = [i \in 1..Len(Stream') |-> IF i = top + 1 THEN y ELSE e[i]]
  BY <1>1, <1>2 DEF Longer
<1> HIDE DEF top
<1>5. \A i \in 1..Len(Stream') : i # top + 1 => i \in 1..top
  BY <1>1
<1>6. a \in [1..top -> Nat] /\ e \in [1..top -> Nat]
  BY DEF top
<1>7. b \in [1..Len(Stream') -> Nat] /\ f \in [1..Len(Stream') -> Nat]
  BY <1>4, <1>5, <1>6
<1>8. /\ \A i \in 1..top : b[i] = a[i] /\ f[i] = e[i]
      /\ b[top + 1] = g /\ f[top + 1] = y
  <2>1. \A i \in 1..top : i \in 1..Len(Stream') /\ i # top + 1
    BY <1>1
  <2>2. top + 1 \in 1..Len(Stream')
    BY <1>1
  <2> QED
    BY <1>4, <2>1, <2>2
<1>9. ASSUME NEW i \in 1..Len(Stream')
      PROVE  Stream'[i].frameno = (r + b[i]) % FrameNos /\ f[i] <= x
  <2>1. CASE i = top + 1
    BY <1>1, <1>8, <2>1
  <2>2. CASE i # top + 1
    <3>1. i \in 1..top
      BY <1>5, <2>2
    <3>2. Stream[i].frameno = (r + a[i]) % FrameNos /\ e[i] <= x
      BY <3>1 DEF CountedIn, top
    <3> QED
      BY <1>1, <1>8, <3>1, <3>2
  <2> QED
    BY <2>1, <2>2
<1>10. /\ Stream' # <<>> /\ b[Len(Stream')] = g
       /\ FirstAt(Stream'[1], b[1], f[1], Unfinished(rx'))
       /\ rx'.fragmentno > 0 /\ Stream'[1].no > 0 /\ b[1] = 0 => InFrame(Stream[1])'
  <2>1. Stream' # <<>>
    BY <1>1, EmptySeq
  <2>2. CASE Stream = <<>>
    <3>1. top = 0 /\ Stream'[1] = n /\ b[1] = g /\ f[1] = y
      BY <1>1, <1>8, <2>2
    <3> QED
      BY <1>1, <1>8, <2>1, <2>2, <3>1
  <2>3. CASE Stream # <<>>
    <3>1. 1 \in 1..top
      BY <1>1, <2>3
    <3>2. Stream'[1] = Stream[1] /\ b[1] = a[1] /\ f[1] = e[1]
      BY <1>1, <1>8, <3>1
    <3>3. /\ FirstAt(Stream[1], a[1], e[1], Unfinished(rx))
          /\ rx.fragmentno > 0 /\ Stream[1].no > 0 /\ a[1] = 0 => InFrame(Stream[1])
      BY <2>3 DEF CountedIn
    <3>4. InFrame(Stream[1]) => InFrame(Stream[1])'
      BY <3>2 DEF InFrame
    <3> QED
      BY <1>1, <1>8, <2>1, <3>2, <3>3, <3>4
  <2> QED
    BY <2>2, <2>3
<1>11. CountedIn(r, g, x, b, f)'
  <2>1. rx'.fragmentno > 0 => rx'.frameno = r
    BY DEF CountedIn
  <2>2. x <= faults'
    BY DEF CountedIn
  <2>3. g <= g
    OBVIOUS
  <2> QED
    BY <1>3, <1>9, <1>10, <2>1, <2>2, <2>3 DEF CountedIn
<1> QED
  BY <1>7, <1>11 DEF Countable

LEMMA SendBeginsUnmixed ==
  ASSUME UnmixedInv, SendBegins
  PROVE  UnmixedInv'
<1>1. WholeInv /\ WholeInv' /\ EoEInv'
  BY SendBeginsWhole DEF UnmixedInv, WholeInv
<1>2. /\ sending = None /\ sending' # None /\ queue' = queue
      /\ sending'.fragmentno = 0
      /\ txframeno' = (txframeno + 1) % FrameNos
      /\ UNCHANGED <<rx, buf, stamps, faults>>
  <2>1. PICK length \in Lengths :
          sending' = [frame |-> Frame(length, tag), offset |-> 0, fragmentno |-> 0,
                      payload |-> IF stamps THEN Append(Frame(length, tag), Stamp(tag))
                                  ELSE Frame(length, tag)]
    BY DEF SendBegins
  <2>2. sending' # None
    BY <1>1, BeginsWithLocals DEF WholeInv
  <2>3. sending'.fragmentno = 0
    BY <2>1
  <2>4. /\ sending = None /\ queue' = queue /\ txframeno' = (txframeno + 1) % FrameNos
        /\ UNCHANGED <<rx, buf, stamps, faults>>
    BY Zenon DEF SendBegins, NextFrameNo, eoeSetup, receiver
  <2> QED
    BY <2>2, <2>3, <2>4, Zenon
<1>3. PICK r \in 0..FrameNos - 1, h \in Nat, x \in Nat,
           a \in [1..Len(Stream) -> Nat], e \in [1..Len(Stream) -> Nat] : CountedIn(r, h, x, a, e)
  BY DEF UnmixedInv, Countable
<1>4. FragmentFacts' /\ Stream = queue /\ Stream' = Append(Stream, Fragment')
  BY <1>1, <1>2, NextFragment, StreamTyped DEF WholeInv, Stream
<1> DEFINE n == Fragment'
           g == h + 1
           top == Len(Stream)
           u == Unfinished(rx)
<1>5. /\ n \in Fragments /\ n.no = 0 /\ n.frameno = txframeno'
      /\ g \in Nat /\ x <= x
  BY <1>2, <1>4 DEF FragmentFacts
<1>6. txframeno' = (r + g) % FrameNos
  <2>1. txframeno = (r + h) % FrameNos
    BY <1>3 DEF CountedIn
  <2>2. FrameNos \in Nat \ {0} /\ r + h + 1 = r + g
    BY ConstantsTyped
  <2>3. PICK k \in Nat, j \in Nat : k = r + h /\ j = 1
    OBVIOUS
  <2>4. ((k % FrameNos) + j) % FrameNos = (k + j) % FrameNos
    BY <2>2, <2>3, RoundSum, Zenon
  <2> QED
    BY <1>2, <2>1, <2>2, <2>3, <2>4
<1>7. /\ u \in Nat /\ top \in Nat /\ (Stream # <<>> <=> top > 0) /\ \A m : Open(m) \in Nat
  BY <1>1, CountedTyped
<1>8. ASSUME Stream = <<>>
      PROVE  FirstAt(n, g, x, u)
  <2>1. h + u <= x
    BY <1>3, <1>8 DEF CountedIn
  <2>2. 1 <= g /\ g - 1 + u <= x
    BY <1>7, <2>1
  <2> HIDE DEF n, g, u
  <2> QED
    BY <1>5, <2>2 DEF FirstAt
<1>9. ASSUME Stream # <<>>
      PROVE  /\ a[top] <= g /\ a[top] < g
             /\ Passed(Stream[top], a[top], e[top], n, g, x)
  <2> DEFINE at == a[top]
             et == e[top]
             open == Open(Stream[top])
  <2>1. top \in 1..top
    BY <1>7, <1>9
  <2>2. at \in Nat /\ et \in Nat /\ open \in Nat
    BY <1>7, <2>1
  <2>3. et <= x /\ at <= h /\ et + (h - at) + open <= x
    BY <1>2, <1>3, <1>9, <2>1 DEF CountedIn
  <2> HIDE DEF at, et, open, n
  <2>4. at <= g /\ at < g /\ et + (g - at - 1) + open <= x
    BY <2>2, <2>3
  <2> HIDE DEF g
  <2> QED
    BY <1>5, <2>3, <2>4 DEF Passed, at, et, open
<1> HIDE DEF n, g, u, top
<1>10. Countable'
  BY <1>1, <1>2, <1>3, <1>4, <1>5, <1>6, <1>8, <1>9, CountedGrows DEF n, u, top
<1> QED
  BY <1>1, <1>10 DEF UnmixedInv

LEMMA SendFragmentUnmixed ==
  ASSUME UnmixedInv, SendFragment
  PROVE  UnmixedInv'
<1>1. WholeInv /\ WholeInv' /\ sending # None
  BY SendFragmentWhole DEF UnmixedInv, SendFragment
<1>2. queue' = Append(queue, Fragment) /\ UNCHANGED <<txframeno, rx, buf, stamps, faults>>
  BY DEF SendFragment, eoeSetup, receiver
<1>3. PICK r \in 0..FrameNos - 1, h \in Nat, x \in Nat,
           a \in [1..Len(Stream) -> Nat], e \in [1..Len(Stream) -> Nat] : CountedIn(r, h, x, a, e)
  BY DEF UnmixedInv, Countable
<1>4. FragmentFacts /\ Stream = Append(queue, Fragment) /\ Stream \in Seq(Fragments)
  BY <1>1, StreamTyped
<1> DEFINE top == Len(Stream)
<1>5. /\ top \in Nat /\ top \in 1..top /\ Stream # <<>> /\ Stream[top] = Fragment
      /\ a[top] \in Nat /\ e[top] \in Nat
  <2>1. queue \in Seq(Fragments) /\ Fragment \in Fragments
    BY <1>1, <1>4, StreamTyped DEF FragmentFacts
  <2>2. top = Len(queue) + 1 /\ Len(queue) \in Nat /\ Stream[top] = Fragment
    BY <1>4, <2>1, AppendProperties, LenProperties
  <2> HIDE DEF top
  <2>3. top \in Nat /\ top \in 1..top /\ top # 0
    BY <2>2
  <2> QED
    BY <1>4, <2>2, <2>3, EmptySeq DEF top
<1>6. a[top] = h /\ e[top] <= x
  BY <1>1, <1>3, <1>5 DEF CountedIn
<1>7. CASE Fragment.last
  <2>1. sending' = None /\ Stream' = Stream
    BY <1>2, <1>4, <1>7 DEF SendFragment, Stream
  <2>2. e[top] + (h - a[top]) + Open(Stream[top]) <= x
    <3>1. Open(Stream[top]) = 0
      BY <1>5, <1>7 DEF Open
    <3> QED
      BY <1>5, <1>6, <3>1
  <2> HIDE DEF top
  <2>3. CountedIn(r, h, x, a, e)'
    BY <1>2, <1>3, <1>5, <2>1, <2>2 DEF CountedIn, InFrame, top
  <2> QED
    BY <1>1, <1>3, <2>1, <2>3 DEF UnmixedInv, Countable
<1>8. CASE ~Fragment.last
  <2>1. /\ sending' = [sending EXCEPT !.offset = @ + FragmentSize, !.fragmentno = @ + 1]
        /\ sending \in Sendings /\ sending.fragmentno \in Nat
    BY <1>1, <1>8 DEF SendFragment, WholeInv, EoEInv, EoETypeOK, Sendings
  <2>2. sending' # None /\ sending'.fragmentno = sending.fragmentno + 1
    <3>1. sending'.fragmentno = sending.fragmentno + 1 /\ FragmentSize \in Nat
      BY <1>1, <2>1, FragmentTyped DEF Sendings, WholeInv
    <3>2. sending' \in Sendings
      <4>1. sending.offset + FragmentSize \in Nat /\ sending.fragmentno + 1 \in Nat
        BY <2>1, <3>1 DEF Sendings
      <4>2. sending' = [sending EXCEPT !.offset = sending.offset + FragmentSize,
                                       !.fragmentno = sending.fragmentno + 1]
        BY <2>1 DEF Sendings
      <4> QED
        BY <2>1, <4>1, <4>2 DEF Sendings
    <3> QED
      BY <3>1, <3>2, NoneAssumption DEF NoneAssumption
  <2>3. FragmentFacts' /\ Stream' = Append(Stream, Fragment')
    BY <1>1, <1>2, <1>4, <2>2, NextFragment DEF WholeInv, Stream
  <2> DEFINE n == Fragment'
             y == e[top]
  <2>4. n \in Fragments /\ n.no > 0 /\ n.frameno = txframeno'
    BY <2>1, <2>2, <2>3 DEF FragmentFacts
  <2>5. txframeno' = (r + h) % FrameNos
    BY <1>2, <1>3 DEF CountedIn
  <2> HIDE DEF n
  <2>6. Passed(Stream[top], a[top], e[top], n, h, y) /\ a[top] <= h /\ (n.no = 0 => a[top] < h)
    <3>1. e[top] <= y /\ a[top] <= h /\ n.no # 0
      BY <1>5, <1>6, <2>4
    <3> QED
      BY <1>6, <2>4, <3>1 DEF Passed
  <2>7. y \in Nat /\ y <= x
    BY <1>5, <1>6
  <2> HIDE DEF top, y
  <2>8. Countable'
    BY <1>1, <1>2, <1>3, <1>5, <2>2, <2>3, <2>4, <2>5, <2>6, <2>7, CountedGrows DEF n, top
  <2> QED
    BY <1>1, <2>8 DEF UnmixedInv
<1> QED
  BY <1>7, <1>8

LEMMA SendFailsUnmixed ==
  ASSUME UnmixedInv, SendFails
  PROVE  UnmixedInv'
<1>1. WholeInv /\ WholeInv' /\ sending # None /\ sending' = None
  BY SendFailsWhole DEF UnmixedInv, SendFails
<1>2. /\ queue' \in {queue, Append(queue, Fragment)} /\ faults' = faults + 1
      /\ UNCHANGED <<txframeno, rx, buf, stamps>>
  BY DEF SendFails, Fault, eoeSetup, receiver
<1>3. PICK r \in 0..FrameNos - 1, h \in Nat, x \in Nat,
           a \in [1..Len(Stream) -> Nat], e \in [1..Len(Stream) -> Nat] : CountedIn(r, h, x, a, e)
  BY DEF UnmixedInv, Countable
<1>4. /\ FragmentFacts /\ Stream = Append(queue, Fragment) /\ queue \in Seq(Fragments)
      /\ Fragment \in Fragments
  BY <1>1, StreamTyped DEF FragmentFacts
<1> DEFINE m == Len(queue)
           u == Unfinished(rx)
<1>5. /\ m \in Nat /\ Len(Stream) = m + 1 /\ Stream[m + 1] = Fragment
      /\ \A i \in 1..m : Stream[i] = queue[i]
      /\ Chain(queue, Shorter(a, m), Shorter(e, m))
      /\ m > 0 => /\ a[m] <= a[m + 1]
                  /\ Passed(queue[m], a[m], e[m], Fragment, a[m + 1], e[m + 1])
      /\ queue # <<>> <=> m > 0
  <2>1. Chain(Append(queue, Fragment), a, e)
    BY <1>3, <1>4 DEF CountedIn
  <2>2. a \in [1..Len(Append(queue, Fragment)) -> Nat] /\ e \in [1..Len(Append(queue, Fragment)) -> Nat]
    BY <1>3, <1>4
  <2> DEFINE stream == Append(queue, Fragment)
  <2>3. /\ Chain(queue, Shorter(a, Len(queue)), Shorter(e, Len(queue)))
        /\ Len(stream) = Len(queue) + 1 /\ Len(queue) \in Nat
        /\ \A i \in 1..Len(queue) : stream[i] = queue[i]
        /\ stream[Len(queue) + 1] = Fragment
        /\ Len(queue) > 0 =>
             /\ a[Len(queue)] <= a[Len(queue) + 1]
             /\ Passed(queue[Len(queue)], a[Len(queue)], e[Len(queue)], Fragment,
                       a[Len(queue) + 1], e[Len(queue) + 1])
    BY <1>4, <2>1, <2>2, ChainBefore
  <2>4. Stream = stream
    BY <1>4
  <2> HIDE DEF stream
  <2>5. queue # <<>> <=> Len(queue) > 0
    BY <1>4, EmptySeq
  <2> QED
    BY <2>3, <2>4, <2>5
<1>6. /\ u \in {0, 1} /\ faults \in Nat /\ \A n : Open(n) \in {0, 1}
      /\ Stream # <<>>
  <2>1. Stream # <<>>
    BY <1>4, <1>5, EmptySeq
  <2> QED
    BY <1>1, <2>1, CountedTyped
<1> HIDE DEF m, u
<1>7. /\ m + 1 \in 1..Len(Stream) /\ a[m + 1] = h /\ h \in Nat /\ e[m + 1] \in Nat
      /\ e[m + 1] <= x /\ x <= faults
      /\ FirstAt(Stream[1], a[1], e[1], u)
  <2>1. m + 1 \in 1..Len(Stream)
    BY <1>5
  <2>2. a[m + 1] = h
    BY <1>1, <1>3, <1>5, <1>6 DEF CountedIn
  <2>3. e[m + 1] \in Nat
    BY <2>1
  <2> QED
    BY <1>3, <1>6, <2>1, <2>2, <2>3 DEF CountedIn, u
<1>8. x + 1 <= faults' /\ x + 1 \in Nat
  BY <1>2, <1>6, <1>7
<1>9. CASE queue' = Append(queue, Fragment)
  <2>1. Stream' = Stream
    BY <1>1, <1>4, <1>9 DEF Stream
  <2>2. e[Len(Stream)] + (h - a[Len(Stream)]) + Open(Stream[Len(Stream)]) <= x + 1
    BY <1>5, <1>6, <1>7
  <2>3. \A i \in 1..Len(Stream) : Stream[i].frameno = (r + a[i]) % FrameNos /\ e[i] <= x + 1
    <3>1. SUFFICES ASSUME NEW i \in 1..Len(Stream)
                   PROVE  Stream[i].frameno = (r + a[i]) % FrameNos /\ e[i] <= x + 1
      OBVIOUS
    <3>2. e[i] \in Nat /\ e[i] <= x /\ Stream[i].frameno = (r + a[i]) % FrameNos
      BY <1>3 DEF CountedIn
    <3>3. e[i] <= x + 1
      BY <3>2
    <3> QED
      BY <3>2, <3>3
  <2>4. CountedIn(r, h, x + 1, a, e)'
    BY <1>1, <1>2, <1>3, <1>6, <1>8, <2>1, <2>2, <2>3 DEF CountedIn, InFrame
  <2> QED
    BY <1>1, <1>3, <1>8, <2>1, <2>4 DEF UnmixedInv, Countable
<1>10. CASE queue' = queue
  <2>1. PICK b, f : b = Shorter(a, m) /\ f = Shorter(e, m)
    OBVIOUS
  <2>2. /\ Stream' = queue /\ Chain(queue, b, f)
        /\ Len(queue) = m /\ m \in Nat
    BY <1>1, <1>5, <1>10, <2>1 DEF Stream, m
  <2>3. /\ b \in [1..m -> Nat] /\ f \in [1..m -> Nat]
        /\ \A i \in 1..m : b[i] = a[i] /\ f[i] = e[i] /\ i \in 1..Len(Stream)
    <3>1. \A i \in 1..m : i \in 1..Len(Stream)
      BY <1>5
    <3> QED
      BY <2>1, <3>1 DEF Shorter
  <2>4. ASSUME NEW i \in 1..Len(queue)
        PROVE  queue[i].frameno = (r + b[i]) % FrameNos /\ f[i] <= x + 1
    <3>1. i \in 1..m /\ i \in 1..Len(Stream) /\ queue[i] = Stream[i]
      BY <1>5, <2>2, <2>3
    <3>2. e[i] \in Nat /\ e[i] <= x /\ Stream[i].frameno = (r + a[i]) % FrameNos
      BY <1>3, <3>1 DEF CountedIn
    <3>3. e[i] <= x + 1
      BY <3>2
    <3> QED
      BY <2>3, <3>1, <3>2, <3>3
  <2>5. ASSUME queue = <<>>
        PROVE  h + u <= x + 1
    <3>1. m = 0 /\ 0 + 1 = 1
      BY <1>5, <2>5
    <3>2. a[1] = h /\ e[1] \in Nat /\ e[1] <= x /\ Stream[1] = Fragment
      BY <1>5, <1>7, <3>1
    <3>3. CASE Fragment.no = 0
      <4>1. h - 1 + u <= e[1]
        BY <1>7, <3>2, <3>3 DEF FirstAt
      <4> QED
        BY <1>6, <3>2, <4>1
    <3>4. CASE Fragment.no # 0 /\ h # 0
      <4>1. h + u <= e[1]
        <5>1. Fragment.no > 0 /\ h > 0
          BY <1>4, <3>4 DEF Fragments
        <5> QED
          BY <1>7, <3>2, <5>1 DEF FirstAt
      <4> QED
        BY <1>6, <3>2, <4>1
    <3>5. CASE h = 0
      BY <1>6, <3>5
    <3> QED
      BY <3>3, <3>4, <3>5
  <2>6. ASSUME queue # <<>>
        PROVE  /\ queue[1] = Stream[1] /\ b[1] = a[1] /\ f[1] = e[1]
               /\ b[m] <= h /\ f[m] + (h - b[m]) + Open(queue[m]) <= x + 1
    <3>1. m > 0 /\ 1 \in 1..m /\ m \in 1..m
      BY <1>5, <2>6
    <3>2. /\ queue[1] = Stream[1] /\ b[1] = a[1] /\ f[1] = e[1]
          /\ b[m] = a[m] /\ f[m] = e[m] /\ a[m] \in Nat /\ e[m] \in Nat
      BY <1>5, <2>3, <3>1
    <3>3. a[m] <= h /\ Passed(queue[m], a[m], e[m], Fragment, h, e[m + 1])
      BY <1>5, <1>7, <3>1
    <3> DEFINE at == a[m]
               et == e[m]
               ee == e[m + 1]
               open == Open(queue[m])
    <3>4. /\ at \in Nat /\ et \in Nat /\ ee \in Nat /\ open \in {0, 1} /\ ee <= x /\ et <= ee
          /\ Fragment.no > 0 => h = at
          /\ Fragment.no = 0 => et + (h - at - 1) + open <= ee
      BY <1>6, <1>7, <3>2, <3>3 DEF Passed
    <3>5. Fragment.no > 0 \/ Fragment.no = 0
      BY <1>4 DEF Fragments
    <3> HIDE DEF at, et, ee, open
    <3>6. CASE Fragment.no > 0
      <4>1. h = at
        BY <3>4, <3>6
      <4>2. et + (h - at) + open <= x + 1
        BY <3>4, <4>1
      <4> QED
        BY <3>2, <3>3, <4>2 DEF at, et, open
    <3>7. CASE Fragment.no = 0
      <4>1. et + (h - at - 1) + open <= ee
        BY <3>4, <3>7
      <4>2. et + (h - at) + open <= x + 1
        BY <3>4, <4>1
      <4> QED
        BY <3>2, <3>3, <4>2 DEF at, et, open
    <3> QED
      BY <3>5, <3>6, <3>7
  <2>7. CountedIn(r, h, x + 1, b, f)'
    <3>1. /\ rx'.fragmentno > 0 => rx'.frameno = r
          /\ txframeno' = (r + h) % FrameNos
      BY <1>2, <1>3 DEF CountedIn
    <3>2. ASSUME queue # <<>>, rx'.fragmentno > 0, queue[1].no > 0, b[1] = 0
          PROVE  InFrame(Stream[1])'
      <4>1. InFrame(Stream[1])
        BY <1>2, <1>3, <1>6, <2>6, <3>2 DEF CountedIn
      <4>2. Stream'[1] = Stream[1]
        BY <2>2, <2>6, <3>2
      <4> QED
        BY <1>2, <4>1, <4>2 DEF InFrame
    <3>3. /\ Unfinished(rx') = u
          /\ queue # <<>> => FirstAt(queue[1], b[1], f[1], u)
      BY <1>2, <1>7, <2>6 DEF u
    <3> QED
      BY <1>1, <1>8, <1>10, <2>2, <2>4, <2>5, <2>6, <3>1, <3>2, <3>3 DEF CountedIn
  <2> QED
    BY <1>1, <1>3, <1>8, <2>2, <2>3, <2>7 DEF UnmixedInv, Countable
<1> QED
  BY <1>2, <1>9, <1>10

LEMMA StreamNotEmpty == WholeInv /\ sending # None => Stream # <<>>
<1> SUFFICES ASSUME WholeInv, sending # None
             PROVE  Stream # <<>>
    OBVIOUS
<1>1. Stream = Append(queue, Fragment) /\ queue \in Seq(Fragments) /\ Fragment \in Fragments
  BY StreamTyped DEF FragmentFacts
<1>2. Len(Stream) = Len(queue) + 1 /\ Len(queue) \in Nat
  BY <1>1, AppendProperties, LenProperties
<1> QED
  BY <1>2, EmptySeq

\* The first message is received or lost.  The frames are then counted from the d-th
\* on, where d is 0 or the frame of that message.
LEMMA CountedMoves ==
  ASSUME WholeInv, WholeInv', Stream # <<>>, Stream' = Tail(Stream),
         NEW m, m = Stream[1], NEW r \in 0..FrameNos - 1, NEW h \in Nat, NEW x \in Nat,
         NEW a \in [1..Len(Stream) -> Nat], NEW e \in [1..Len(Stream) -> Nat],
         CountedIn(r, h, x, a, e), NEW q \in 0..FrameNos - 1, NEW d \in Nat, NEW k \in Nat,
         (d = 0 /\ q = r) \/ (d = a[1] /\ q = m.frameno),
         faults' = faults + k, UNCHANGED <<stamps, sending, txframeno>>,
         rx'.fragmentno > 0 => rx'.frameno = q,
         a[1] - d + Unfinished(rx') <= e[1] + Open(m) + k,
         a[1] - d > 0 => a[1] - d + Unfinished(rx') <= e[1] + k,
         rx'.fragmentno > 0 /\ a[1] = d /\ ~m.last => InFrame(m)'
  PROVE  Countable'
<1> DEFINE top == Len(Stream)
           last == Len(Tail(Stream))
           u == Unfinished(rx')
           a1 == a[1]
           e1 == e[1]
           open == Open(m)
<1>1. /\ Stream \in Seq(Fragments) /\ top = last + 1 /\ last \in Nat
      /\ Len(Stream') = last /\ (Stream' # <<>> <=> last > 0)
      /\ \A i \in 1..last : Stream'[i] = Stream[i + 1]
      /\ m \in Fragments
  <2>1. Stream \in Seq(Fragments)
    BY StreamTyped
  <2>2. /\ Tail(Stream) \in Seq(Fragments) /\ last = top - 1
        /\ \A i \in 1..last : Tail(Stream)[i] = Stream[i + 1]
        /\ Head(Stream) \in Fragments /\ Head(Stream) = Stream[1]
    BY <2>1, HeadTailProperties
  <2>3. top \in Nat /\ last \in Nat /\ (Tail(Stream) # <<>> <=> last > 0)
    BY <2>1, <2>2, LenProperties, EmptySeq, SMTT(20)
  <2>4. top = last + 1
    <3> HIDE DEF top, last
    <3> QED
      BY <2>2, <2>3
  <2> QED
    BY <2>1, <2>2, <2>3, <2>4
<1>2. /\ FrameNos \in Nat \ {0} /\ faults \in Nat /\ open \in {0, 1}
      /\ \A n : Open(n) \in {0, 1}
      /\ m.frameno \in 0..FrameNos - 1
  BY <1>1, CountedTyped DEF Fragments
<1>3. u \in {0, 1}
  BY DEF Unfinished
<1>4. 1 \in 1..top /\ top \in 1..top /\ a1 \in Nat /\ e1 \in Nat
  <2>1. 1 \in 1..top /\ top \in 1..top
    BY <1>1
  <2> QED
    BY <2>1
<1>5. d <= a1
  BY <1>4
<1>6. PICK b, f : b = From(a, last, d) /\ f = Raised(e, last, k)
  OBVIOUS
<1>7. /\ Chain(Stream', b, f) /\ b \in [1..last -> Nat] /\ f \in [1..last -> Nat]
      /\ Stream' # <<>> => Passed(m, a[1], e[1], Stream'[1], a[2], e[2])
  <2>1. Chain(Stream, a, e)
    BY DEF CountedIn
  <2> QED
    BY <1>1, <1>5, <1>6, <2>1, ChainBehind
<1>8. \A i \in 1..last : /\ b[i] = a[i + 1] - d /\ f[i] = e[i + 1] + k
                         /\ i + 1 \in 1..top /\ a[i + 1] \in Nat /\ e[i + 1] \in Nat
  <2>1. \A i \in 1..last : i + 1 \in 1..top
    BY <1>1
  <2> QED
    BY <1>6, <2>1 DEF From, Raised
<1> HIDE DEF top, last, u, a1, e1, open
<1>9. /\ top >= 1 /\ a1 <= a[top] /\ a[top] <= h /\ a[top] \in Nat
      /\ \A j \in 2..top : a1 <= a[j]
  <2>1. Chain(Stream, a, e) /\ a[top] <= h
    BY DEF CountedIn, top
  <2>2. \A i, j \in 1..top : i < j => a[i] <= a[j]
    BY <2>1 DEF Chain, top
  <2>3. \A j \in 2..top : a1 <= a[j]
    <3>1. \A j \in 2..top : j \in 1..top /\ 1 < j
      BY <1>1
    <3> QED
      BY <1>4, <2>2, <3>1 DEF a1
  <2>4. a[top] \in Nat /\ top >= 1
    BY <1>1, <1>4 DEF top
  <2>5. a1 <= a[top]
    <3>1. CASE top = 1
      BY <1>4, <3>1 DEF a1
    <3>2. CASE top # 1
      <4>1. top \in 2..top
        BY <1>1, <1>4, <3>2
      <4> QED
        BY <2>3, <4>1
    <3> QED
      BY <3>1, <3>2
  <2> QED
    BY <2>1, <2>3, <2>4, <2>5
<1>10. h - d \in Nat /\ x + k \in Nat /\ x + k <= faults'
  <2>1. x <= faults
    BY DEF CountedIn
  <2> QED
    BY <1>2, <1>4, <1>5, <1>9, <2>1
\* The numbers of the frames, counted anew.
<1>11. ASSUME NEW j \in Nat, d <= j
       PROVE  (q + (j - d)) % FrameNos = (r + j) % FrameNos
  <2>1. CASE d = 0 /\ q = r
    <3>1. j - d = j
      BY <1>11, <2>1
    <3> QED
      BY <2>1, <3>1
  <2>2. CASE d = a[1] /\ q = m.frameno
    <3>1. m.frameno = (r + a1) % FrameNos
      <4>1. \A i \in 1..Len(Stream) : Stream[i].frameno = (r + a[i]) % FrameNos
        BY Zenon DEF CountedIn
      <4>2. Stream[1].frameno = (r + a[1]) % FrameNos
        BY <1>4, <4>1 DEF top
      <4> QED
        BY <4>2 DEF a1
    <3>2. r + a1 \in Nat /\ j - a1 \in Nat /\ r + a1 + (j - a1) = r + j
      <4>1. d = a1
        BY <2>2 DEF a1
      <4> QED
        BY <1>2, <1>4, <1>11, <4>1
    <3>3. (((r + a1) % FrameNos) + (j - a1)) % FrameNos = (r + a1 + (j - a1)) % FrameNos
      <4>1. FrameNos \in Nat \ {0} /\ r + a1 \in Nat /\ j - a1 \in Nat
        BY <1>2, <3>2
      <4> QED
        BY <4>1, RoundSum
    <3> QED
      BY <2>2, <3>1, <3>2, <3>3 DEF a1
  <2> QED
    BY <2>1, <2>2
<1>12. txframeno' = (q + (h - d)) % FrameNos
  <2>1. txframeno = (r + h) % FrameNos
    BY DEF CountedIn
  <2>2. d <= h
    BY <1>4, <1>5, <1>9
  <2> QED
    BY <1>11, <2>1, <2>2
<1>13. ASSUME NEW i \in 1..Len(Stream')
       PROVE  Stream'[i].frameno = (q + b[i]) % FrameNos /\ f[i] <= x + k
  <2>1. i \in 1..last
    BY <1>1
  <2>2. /\ Stream'[i] = Stream[i + 1] /\ b[i] = a[i + 1] - d /\ f[i] = e[i + 1] + k
        /\ i + 1 \in 1..top /\ a[i + 1] \in Nat /\ e[i + 1] \in Nat
    BY <1>1, <1>8, <2>1
  <2>3. Stream[i + 1].frameno = (r + a[i + 1]) % FrameNos /\ e[i + 1] <= x
    BY <2>2 DEF CountedIn, top
  <2>4. d <= a[i + 1]
    <3>1. i + 1 \in 2..top
      BY <1>1, <2>1
    <3>2. a1 <= a[i + 1]
      BY <1>9, <3>1
    <3> QED
      BY <1>4, <1>5, <2>2, <3>2
  <2>5. (q + (a[i + 1] - d)) % FrameNos = (r + a[i + 1]) % FrameNos
    BY <1>11, <2>2, <2>4
  <2>6. e[i + 1] + k <= x + k
    BY <2>2, <2>3
  <2> QED
    BY <2>2, <2>3, <2>5, <2>6
<1>14. a1 - d + u <= e1 + open + k /\ (a1 - d > 0 => a1 - d + u <= e1 + k)
  BY DEF a1, e1, u, open
<1>15. ASSUME Stream' = <<>>
       PROVE  h - d + u <= x + k
  <2>1. last = 0 /\ top = 1
    BY <1>1, <1>15
  <2>2. sending = None
    <3>1. (WholeInv /\ sending # None)' => (Stream # <<>>)'
      BY StreamNotEmpty, PTL
    <3> QED
      BY <1>15, <3>1
  <2>3. e1 + (h - a1) + open <= x
    <3>1. e[Len(Stream)] + (h - a[Len(Stream)]) + Open(Stream[Len(Stream)]) <= x
      BY <2>2 DEF CountedIn
    <3> QED
      BY <2>1, <3>1 DEF top, a1, e1, open
  <2> QED
    BY <1>2, <1>3, <1>4, <1>14, <2>3
<1>16. ASSUME Stream' # <<>>
       PROVE  /\ FirstAt(Stream'[1], b[1], f[1], u)
              /\ rx'.fragmentno > 0 /\ Stream'[1].no > 0 /\ b[1] = 0 => InFrame(Stream[1])'
              /\ b[last] <= h - d /\ b[last] = a[top] - d /\ f[last] = e[top] + k
              /\ Stream'[last] = Stream[top] /\ top = Len(Stream) /\ e[top] \in Nat
  <2>1. 1 \in 1..last /\ last \in 1..last /\ last + 1 = top /\ 1 + 1 = 2
    BY <1>1, <1>16
  <2> DEFINE n == Stream'[1]
             a2 == a[2]
             e2 == e[2]
  <2>2. /\ b[1] = a2 - d /\ f[1] = e2 + k /\ a2 \in Nat /\ e2 \in Nat
        /\ b[last] = a[top] - d /\ f[last] = e[top] + k /\ Stream'[last] = Stream[top]
        /\ n \in Fragments /\ e[top] \in Nat
    <3>1. n \in Fragments
      <4>1. Stream' \in Seq(Fragments)
        BY <1>1, HeadTailProperties
      <4> QED
        BY <1>1, <2>1, <4>1, ElementOfSeq
    <3> QED
      BY <1>1, <1>8, <2>1, <3>1
  <2>3. Passed(m, a1, e1, n, a2, e2)
    BY <1>7, <1>16 DEF a1, e1
  <2>4. Follows(m, n)
    <3>1. Sound(Stream, stamps)
      BY DEF WholeInv
    <3> QED
      BY <1>1, <1>16, <3>1, SoundBehind
  <2>5. b[last] <= h - d
    BY <1>9, <2>2
  <2> HIDE DEF n, a2, e2
  <2>6. ASSUME n.no = 0
        PROVE  1 <= a2 - d /\ a2 - d - 1 + u <= e2 + k
    <3>1. a1 < a2 /\ e1 + (a2 - a1 - 1) + open <= e2
      BY <2>3, <2>6 DEF Passed, open
    <3> QED
      BY <1>2, <1>3, <1>4, <1>5, <1>14, <2>2, <3>1, SMTT(20)
  <2>7. ASSUME n.no > 0
        PROVE  a2 = a1 /\ e1 <= e2 /\ (0 < a2 - d => a2 - d + u <= e2 + k)
    <3>1. a2 = a1 /\ e1 <= e2
      BY <2>3, <2>7 DEF Passed
    <3> QED
      BY <1>2, <1>3, <1>4, <1>5, <1>14, <2>2, <3>1
  <2>8. FirstAt(n, b[1], f[1], u)
    BY <2>2, <2>6, <2>7 DEF FirstAt
  <2>9. ASSUME rx'.fragmentno > 0, n.no > 0, b[1] = 0
        PROVE  InFrame(Stream[1])'
    <3>1. a1 = d
      <4>1. a2 - d = 0 /\ a2 = a1
        BY <2>2, <2>7, <2>9
      <4> QED
        BY <1>4, <4>1
    <3>2. ~m.last /\ n.of = m.of
      BY <2>4, <2>9 DEF Follows
    <3>3. InFrame(m)'
      BY <2>9, <3>1, <3>2 DEF a1
    <3> QED
      BY <3>2, <3>3 DEF InFrame, n
  <2> QED
    BY <2>1, <2>2, <2>5, <2>8, <2>9 DEF n, top
<1>17. ASSUME Stream' # <<>>
       PROVE  /\ sending' # None => b[last] = h - d
              /\ sending' = None => f[last] + (h - d - b[last]) + Open(Stream'[last]) <= x + k
  <2>1. /\ sending # None => a[top] = h
        /\ sending = None => e[top] + (h - a[top]) + Open(Stream[top]) <= x
    BY DEF CountedIn, top
  <2> DEFINE at == a[top]
             et == e[top]
             ot == Open(Stream[top])
  <2>2. at \in Nat /\ et \in Nat /\ ot \in {0, 1}
    BY <1>2, <1>9, <1>16, <1>17
  <2>3. b[last] = at - d /\ f[last] = et + k /\ Open(Stream'[last]) = ot
    BY <1>16, <1>17
  <2> HIDE DEF at, et, ot
  <2>4. ASSUME et + (h - at) + ot <= x
        PROVE  et + k + (h - d - (at - d)) + ot <= x + k
    BY <2>2, <2>4
  <2> QED
    BY <2>1, <2>3, <2>4 DEF at, et, ot
<1>18. CountedIn(q, h - d, x + k, b, f)'
  <2> DEFINE g == h - d
             y == x + k
  <2>1. /\ rx'.fragmentno > 0 => rx'.frameno = q
        /\ txframeno' = (q + g) % FrameNos /\ y <= faults'
        /\ Chain(Stream', b, f)
        /\ \A i \in 1..Len(Stream') : Stream'[i].frameno = (q + b[i]) % FrameNos /\ f[i] <= y
        /\ Stream' = <<>> => g + Unfinished(rx') <= y
    BY <1>7, <1>10, <1>12, <1>13, <1>15 DEF u
  <2>2. Stream' # <<>> =>
          /\ FirstAt(Stream'[1], b[1], f[1], Unfinished(rx'))
          /\ rx'.fragmentno > 0 /\ Stream'[1].no > 0 /\ b[1] = 0 => InFrame(Stream[1])'
          /\ b[Len(Stream')] <= g
          /\ sending' # None => b[Len(Stream')] = g
          /\ sending' = None =>
               f[Len(Stream')] + (g - b[Len(Stream')]) + Open(Stream'[Len(Stream')]) <= y
    BY <1>1, <1>16, <1>17 DEF u
  <2> HIDE DEF g, y
  <2>3. CountedIn(q, g, y, b, f)'
    BY <2>1, <2>2 DEF CountedIn
  <2> QED
    BY <2>3 DEF g, y
<1> QED
  BY <1>1, <1>7, <1>10, <1>18 DEF Countable

\* A fragment that is accepted is of the frame that was begun.
LEMMA AcceptedInFrame ==
  ASSUME FewFaults, WholeInv, Stream # <<>>, NEW m, m = Stream[1], Accepts(m),
         NEW r \in 0..FrameNos - 1, NEW h \in Nat, NEW x \in Nat,
         NEW a \in [1..Len(Stream) -> Nat], NEW e \in [1..Len(Stream) -> Nat],
         CountedIn(r, h, x, a, e)
  PROVE  Awaits(m) /\ Startable(m) /\ (m.no > 0 => a[1] = 0)
<1> DEFINE a1 == a[1]
           e1 == e[1]
           u == Unfinished(rx)
<1>1. /\ FrameNos \in Nat \ {0} /\ rx.fragmentno \in Nat /\ faults \in Nat
      /\ rx.fragmentno > 0 => u = 1
      /\ Len(Stream) \in Nat /\ Len(Stream) > 0
  BY CountedTyped
<1>2. 1 \in 1..Len(Stream)
  BY <1>1
<1>3. /\ m \in Fragments /\ Piece(m, stamps) /\ m.no \in Nat
      /\ a1 \in Nat /\ e1 \in Nat
  <2>1. Stream \in Seq(Fragments) /\ Sound(Stream, stamps)
    BY StreamTyped DEF WholeInv
  <2>2. m \in Fragments /\ Piece(m, stamps)
    BY <1>2, <2>1, SoundBehind
  <2> QED
    BY <1>2, <2>2 DEF Fragments
<1>4. /\ rx.fragmentno > 0 => rx.frameno = r
      /\ FirstAt(m, a1, e1, u) /\ x <= faults
      /\ rx.fragmentno > 0 /\ m.no > 0 /\ a1 = 0 => InFrame(m)
  BY Zenon DEF CountedIn
<1>5. m.frameno = (r + a1) % FrameNos /\ e1 <= x
  <2>1. \A i \in 1..Len(Stream) : Stream[i].frameno = (r + a[i]) % FrameNos /\ e[i] <= x
    BY Zenon DEF CountedIn
  <2> QED
    BY <1>2, <2>1
<1>6. e1 < FrameNos
  <2>1. faults \in 0..MaxFaults /\ MaxFaults \in Nat /\ MaxFaults < FrameNos
    BY ConstantsTyped DEF WholeInv, EoEInv, EoETypeOK, FewFaults
  <2> HIDE DEF e1
  <2> QED
    BY <1>1, <1>3, <1>4, <1>5, <2>1
<1> HIDE DEF a1, e1, u
<1>7. ASSUME rx.fragmentno > 0, rx.frameno = m.frameno
      PROVE  m.no > 0 /\ a1 = 0
  <2>1. SUFFICES ASSUME ~(m.no > 0 /\ a1 = 0)
                 PROVE  a1 \in 1..FrameNos - 1
    <3>1. ~(a1 \in 1..FrameNos - 1)
      BY <1>1, <1>4, <1>5, <1>7, OtherNumber
    <3> QED
      BY <3>1
  <2>2. CASE m.no = 0
    <3>1. 1 <= a1 /\ a1 - 1 + u <= e1 /\ u = 1
      BY <1>1, <1>4, <1>7, <2>2 DEF FirstAt
    <3> QED
      BY <1>1, <1>3, <1>6, <3>1
  <2>3. CASE m.no # 0
    <3>1. m.no > 0 /\ a1 > 0
      BY <1>3, <2>1, <2>3
    <3>2. a1 + u <= e1 /\ u = 1
      BY <1>1, <1>4, <1>7, <3>1 DEF FirstAt
    <3> QED
      BY <1>1, <1>3, <1>6, <3>1, <3>2
  <2> QED
    BY <2>2, <2>3
<1>8. CASE m.no = 0
  <2>1. ASSUME mode = "recv", rx.fragmentno # 0
        PROVE  FALSE
    <3>1. rx.fragmentno > 0
      BY <1>1, <2>1
    <3>2. rx.frameno = m.frameno
      BY <2>1 DEF Accepts, RecvAccepts, SameFrame
    <3>3. m.no > 0
      BY <1>7, <3>1, <3>2
    <3> QED
      BY <1>8, <3>3
  <2> QED
    BY <1>8, <2>1 DEF Awaits, Startable
<1>9. CASE m.no # 0
  <2>1. rx.fragmentno = m.no /\ SameFrame(m)
    BY <1>9 DEF Accepts, RecvAccepts, ReadAccepts
  <2>2. rx.fragmentno > 0 /\ rx.frameno = m.frameno /\ rx.frameoffset = m.offset * Block
    BY <1>3, <1>9, <2>1 DEF SameFrame
  <2>3. m.no > 0 /\ a1 = 0 /\ InFrame(m)
    BY <1>4, <1>7, <2>2
  <2>4. Start(m) = rx.frameoffset
    BY <1>9, <2>2 DEF Start
  <2>5. \A k \in 1..Start(m) : k <= Len(m.of)
    <3>1. Start(m) \in Nat /\ Len(m.of) \in Nat
      BY <1>3, MessageUnits
    <3>2. Start(m) < Total(m.of, stamps) /\ Total(m.of, stamps) \in {Len(m.of), Len(m.of) + 1}
      BY <1>3, <3>1, TotalUnits DEF Piece
    <3> QED
      BY <3>1, <3>2
  <2>6. Awaits(m)
    BY <2>1, <2>2, <2>3, <2>4, <2>5 DEF Awaits, InFrame
  <2> QED
    BY <1>9, <2>3, <2>6 DEF Startable, a1
<1> QED
  BY <1>8, <1>9

LEMMA ReceiveUnmixed ==
  ASSUME FewFaults, UnmixedInv, Receive
  PROVE  UnmixedInv'
<1>1. WholeInv /\ WholeInv' /\ EoETypeOK
  BY ReceiveWhole DEF UnmixedInv, WholeInv, EoEInv
<1>2. /\ queue # <<>> /\ queue' = Tail(queue)
      /\ UNCHANGED <<eoeSetup, sender, faults, stamps, sending, txframeno>>
  BY DEF Receive, eoeSetup, sender
<1>3. PICK r \in 0..FrameNos - 1, h \in Nat, x \in Nat,
           a \in [1..Len(Stream) -> Nat], e \in [1..Len(Stream) -> Nat] : CountedIn(r, h, x, a, e)
  BY DEF UnmixedInv, Countable
<1>4. PICK m : m = Stream[1]
  OBVIOUS
<1>5. Stream # <<>> /\ Stream' = Tail(Stream) /\ Head(queue) = m
  BY <1>1, <1>2, <1>4, FirstOfStream
<1>6. m \in Fragments /\ Piece(m, stamps)
  BY <1>1, <1>2, <1>5, StreamMoves
<1>7. \/ Accepts(m) /\ m.last /\ Complete(m)
      \/ Accepts(m) /\ ~m.last /\ Continue(m)
      \/ ~Accepts(m) /\ Reject
  BY <1>5 DEF Receive
<1> DEFINE a1 == a[1]
           e1 == e[1]
           v == Unfinished(rx')
<1>8. /\ FirstAt(m, a1, e1, Unfinished(rx)) /\ Unfinished(rx) \in {0, 1}
      /\ a1 \in Nat /\ e1 \in Nat /\ Open(m) \in {0, 1}
      /\ rx.fragmentno > 0 => rx.frameno = r
  <2>1. 1 \in 1..Len(Stream)
    BY <1>1, <1>5, CountedTyped
  <2> QED
    BY <1>1, <1>3, <1>4, <1>5, <2>1, CountedTyped DEF CountedIn
\* Only behind a fragment that is not the last the receiver is in a frame.
<1>9. ASSUME rx'.fragmentno > 0
      PROVE  /\ ~m.last /\ v = 1 /\ Open(m) = 1
             /\ rx'.frameno = m.frameno /\ InFrame(m)'
             /\ m.no > 0 => a1 = 0 /\ m.frameno = r
  <2>1. Accepts(m) /\ ~m.last /\ Continue(m)
    BY <1>7, <1>9 DEF Complete, Reject, Unstarted
  <2>2. Awaits(m) /\ Startable(m) /\ (m.no > 0 => a1 = 0)
    BY <1>1, <1>3, <1>4, <1>5, <2>1, AcceptedInFrame
  <2>3. /\ Advanced(m).frameno = m.frameno
        /\ Advanced(m).framesize = Blocks(Total(m.of, stamps)) * Block
        /\ Advanced(m).frameoffset = Start(m) + Len(m.data)
        /\ \A k \in 1..Start(m) + Len(m.data) : k <= Len(m.of) => Copied(m)[k] = m.of[k]
    BY <1>1, <1>6, <2>2, WholeSoFar
  <2>4. rx' = Advanced(m) /\ buf' = Copied(m)
    BY <2>1 DEF Continue
  <2>5. InFrame(m)'
    BY <1>2, <2>3, <2>4 DEF InFrame
  <2>6. m.no > 0 => m.frameno = r
    BY <1>8, <2>2 DEF Awaits
  <2> QED
    BY <1>9, <2>1, <2>2, <2>3, <2>4, <2>5, <2>6 DEF Unfinished, Open
<1>10. v \in {0, 1} /\ (v = 1 => rx'.fragmentno > 0)
  BY DEF Unfinished
<1> HIDE DEF v
\* Nothing more goes wrong.
<1>11. PICK none \in Nat : none = 0
  OBVIOUS
<1>12. faults' = faults + none
  BY <1>1, <1>2, <1>11, CountedTyped
<1>13. CASE m.no = 0
  <2>1. a1 - a1 + v <= e1 + Open(m) + none /\ ~(a1 - a1 > 0)
    BY <1>8, <1>9, <1>10, <1>11
  <2>2. m.frameno \in 0..FrameNos - 1
    BY <1>6 DEF Fragments
  <2>3. /\ rx'.fragmentno > 0 => rx'.frameno = m.frameno
        /\ rx'.fragmentno > 0 /\ a1 = a1 /\ ~m.last => InFrame(m)'
    BY <1>9
  <2>4. Countable'
    BY <1>1, <1>2, <1>3, <1>4, <1>5, <1>8, <1>12, <2>1, <2>2, <2>3, CountedMoves, ZenonT(30) DEF v
  <2> QED
    BY <1>1, <2>4 DEF UnmixedInv
<1>14. CASE m.no # 0
  <2>1. m.no > 0
    BY <1>6, <1>14 DEF Fragments
  <2>2. a1 - 0 + v <= e1 + Open(m) + none /\ (a1 - 0 > 0 => a1 - 0 + v <= e1 + none)
    <3>1. CASE v = 1
      BY <1>8, <1>9, <1>10, <1>11, <2>1, <3>1
    <3>2. CASE v = 0
      <4>1. 0 < a1 => a1 + Unfinished(rx) <= e1
        BY <1>8, <2>1 DEF FirstAt
      <4> QED
        BY <1>8, <1>11, <3>2, <4>1
    <3> QED
      BY <1>10, <3>1, <3>2
  <2>3. /\ rx'.fragmentno > 0 => rx'.frameno = r
        /\ rx'.fragmentno > 0 /\ a1 = 0 /\ ~m.last => InFrame(m)'
    BY <1>9, <2>1
  <2>4. Countable'
    BY <1>1, <1>2, <1>3, <1>4, <1>5, <1>8, <1>12, <2>2, <2>3, CountedMoves DEF v
  <2> QED
    BY <1>1, <2>4 DEF UnmixedInv
<1> QED
  BY <1>13, <1>14

LEMMA FaultsUnmixed ==
  ASSUME UnmixedInv, BreaksOff \/ Lost
  PROVE  UnmixedInv'
<1>1. WholeInv /\ WholeInv'
  BY FaultsWhole DEF UnmixedInv
<1>2. PICK r \in 0..FrameNos - 1, h \in Nat, x \in Nat,
           a \in [1..Len(Stream) -> Nat], e \in [1..Len(Stream) -> Nat] : CountedIn(r, h, x, a, e)
  BY DEF UnmixedInv, Countable
<1>3. faults' = faults + 1 /\ UNCHANGED <<eoeSetup, sender, stamps, sending, txframeno>>
  BY DEF BreaksOff, Lost, Fault, eoeSetup, sender
<1>4. /\ Unfinished(rx) \in {0, 1} /\ faults \in Nat
      /\ Len(Stream) \in Nat /\ (Stream # <<>> => 1 \in 1..Len(Stream))
  BY <1>1, CountedTyped
<1>5. CASE BreaksOff
  <2>1. Stream' = Stream /\ rx' = Unstarted
    BY <1>3, <1>5 DEF BreaksOff, Reject, Stream, Fragment, FragmentSize, Left, eoeSetup, sender
  <2>2. Unfinished(rx') = 0 /\ ~(rx'.fragmentno > 0)
    BY <2>1 DEF Unstarted, Unfinished
  <2>3. x <= faults'
    BY <1>2, <1>3, <1>4 DEF CountedIn
  <2>4. ASSUME Stream = <<>>
        PROVE  h + 0 <= x
    <3>1. h + Unfinished(rx) <= x
      BY <1>2, <2>4 DEF CountedIn
    <3> QED
      BY <1>4, <3>1
  <2>5. ASSUME Stream # <<>>
        PROVE  FirstAt(Stream[1], a[1], e[1], 0)
    <3>1. FirstAt(Stream[1], a[1], e[1], Unfinished(rx)) /\ a[1] \in Nat /\ e[1] \in Nat
      BY <1>2, <1>4, <2>5 DEF CountedIn
    <3> QED
      BY <1>4, <3>1 DEF FirstAt
  <2>6. CountedIn(r, h, x, a, e)'
    BY <1>2, <1>3, <2>1, <2>2, <2>3, <2>4, <2>5 DEF CountedIn
  <2> QED
    BY <1>1, <1>2, <2>1, <2>6 DEF UnmixedInv, Countable
<1>6. CASE Lost
  <2>1. queue # <<>> /\ queue' = Tail(queue) /\ UNCHANGED <<rx, buf>>
    BY <1>6 DEF Lost
  <2>2. PICK m : m = Stream[1]
    OBVIOUS
  <2>3. Stream # <<>> /\ Stream' = Tail(Stream) /\ Head(queue) = m
    BY <1>1, <1>3, <2>1, <2>2, FirstOfStream
  <2>4. m \in Fragments /\ m.no \in Nat
    BY <1>1, <1>3, <2>1, <2>3, StreamMoves DEF Fragments
  <2> DEFINE a1 == a[1]
             e1 == e[1]
             v == Unfinished(rx')
  <2>5. /\ FirstAt(m, a1, e1, v) /\ a1 \in Nat /\ e1 \in Nat
        /\ v \in {0, 1} /\ Open(m) \in {0, 1}
        /\ rx'.fragmentno > 0 => rx'.frameno = r
        /\ rx'.fragmentno > 0 /\ m.no > 0 /\ a1 = 0 => InFrame(m)
    <3>1. Open(m) \in {0, 1}
      BY DEF Open
    <3> QED
      BY <1>2, <1>4, <2>1, <2>2, <2>3, <3>1 DEF CountedIn
  <2> HIDE DEF v
  <2>6. a1 - 0 + v <= e1 + Open(m) + 1 /\ (a1 - 0 > 0 => a1 - 0 + v <= e1 + 1)
    <3>1. CASE m.no = 0
      <4>1. a1 - 1 + v <= e1
        BY <2>5, <3>1 DEF FirstAt
      <4> QED
        BY <2>5, <4>1
    <3>2. CASE m.no # 0
      <4>1. 0 < a1 => a1 + v <= e1
        BY <2>4, <2>5, <3>2 DEF FirstAt
      <4> QED
        BY <2>5, <4>1
    <3> QED
      BY <3>1, <3>2
  <2>7. rx'.fragmentno > 0 /\ a1 = 0 /\ ~m.last => InFrame(m)'
    <3>1. a1 = 0 => m.no > 0
      BY <2>4, <2>5 DEF FirstAt
    <3>2. InFrame(m) => InFrame(m)'
      BY <1>3, <2>1 DEF InFrame
    <3> QED
      BY <2>5, <3>1, <3>2
  <2>8. Countable'
    BY <1>1, <1>2, <1>3, <2>2, <2>3, <2>5, <2>6, <2>7, CountedMoves, ZenonT(30) DEF v
  <2> QED
    BY <1>1, <2>8 DEF UnmixedInv
<1> QED
  BY <1>5, <1>6

LEMMA UnmixedStays == UnmixedInv /\ UNCHANGED eoeVars => UnmixedInv'
<1> SUFFICES ASSUME UnmixedInv, UNCHANGED eoeVars
             PROVE  UnmixedInv'
    OBVIOUS
<1>1. /\ rx' = rx /\ buf' = buf /\ txframeno' = txframeno /\ faults' = faults
      /\ sending' = sending /\ stamps' = stamps
  BY DEF eoeVars, eoeSetup, sender, receiver
<1>2. Stream' = Stream
  BY DEF eoeVars, eoeSetup, sender, Stream, Fragment, FragmentSize, Left
<1>3. WholeInv'
  BY WholeStays DEF UnmixedInv
<1>4. PICK r \in 0..FrameNos - 1, h \in Nat, x \in Nat,
           a \in [1..Len(Stream) -> Nat], e \in [1..Len(Stream) -> Nat] : CountedIn(r, h, x, a, e)
  BY DEF UnmixedInv, Countable
<1>5. CountedIn(r, h, x, a, e)'
  BY <1>1, <1>2, <1>4 DEF CountedIn, InFrame
<1> QED
  BY <1>2, <1>3, <1>4, <1>5 DEF UnmixedInv, Countable

LEMMA UnmixedInvariant ==
  ASSUME FewFaults
  PROVE  EoESpec => []UnmixedInv
<1>1. UnmixedInv /\ [EoENext]_eoeVars => UnmixedInv'
  BY UnmixedStays, SendBeginsUnmixed, SendFragmentUnmixed, SendFailsUnmixed, ReceiveUnmixed,
     FaultsUnmixed DEF EoENext
<1> QED
  BY InitUnmixed, <1>1, PTL DEF EoESpec

-----------------------------------------------------------------------------
(* The frames that are under way                                           *)

\* A set of natural numbers has a least one, as the sets 1..n of finite size are
\* well-founded: what is shown of the frames of messages, one by one, is shown
\* by a message that would be the first of which it does not hold.
LEMMA LeastNumber ==
  ASSUME NEW S \in SUBSET Nat, S # {}
  PROVE  \E n \in S : \A m \in S : n <= m
<1> DEFINE F == {1..n : n \in S}
<1>1. F \subseteq FiniteSubsetsOf(Nat) /\ F # {}
  <2>1. ASSUME NEW n \in S
        PROVE  1..n \in SUBSET Nat /\ IsFiniteSet(1..n)
    BY FS_Interval
  <2> QED
    BY <2>1 DEF FiniteSubsetsOf
<1>2. IsWellFoundedOn(StrictSubsetOrdering(Nat), FiniteSubsetsOf(Nat))
  BY FS_StrictSubsetOrderingWellFounded
<1>3. PICK s \in F : \A t \in F : ~(<<t, s>> \in StrictSubsetOrdering(Nat))
  <2> HIDE DEF F
  <2> QED
    BY <1>1, <1>2, WFMin
<1>4. PICK n \in S : s = 1..n
  BY <1>3
<1>5. ASSUME NEW m \in S, m < n
      PROVE  FALSE
  <2>1. 1..m \in F /\ 1..m \in SUBSET Nat /\ 1..n \in SUBSET Nat
    OBVIOUS
  <2>2. 1..m \subseteq 1..n /\ 1..m # 1..n
    <3>1. n \in 1..n /\ n \notin 1..m
      BY <1>5
    <3> QED
      BY <1>5, <3>1
  <2>3. <<1..m, s>> \in StrictSubsetOrdering(Nat)
    BY <1>4, <2>1, <2>2 DEF StrictSubsetOrdering
  <2> QED
    BY <1>3, <2>1, <2>3
<1> QED
  BY <1>4, <1>5

\* The frames of the first n messages, from those of the first n - 1.
FramesTo(f, messages, n) ==
  IF n = 0 THEN <<>>
  ELSE IF n > 1 /\ messages[n].no > 0 THEN f[n - 1]
  ELSE Append(f[n - 1], messages[n].of)

\* f tells the frames of the first messages of a sequence, up to k.
Tells(f, messages, k) == f = [n \in 0..k |-> FramesTo(f, messages, n)]

LEMMA FramesTold ==
  ASSUME NEW messages, NEW k \in Nat
  PROVE  \E f : Tells(f, messages, k)
<1> DEFINE S == {n \in Nat : ~ \E f : Tells(f, messages, n)}
<1>1. SUFFICES ASSUME S # {}
               PROVE  FALSE
  OBVIOUS
<1>2. PICK n \in S : \A m \in S : n <= m
  <2> HIDE DEF S
  <2>1. S \in SUBSET Nat
    BY DEF S
  <2> QED
    BY <1>1, <2>1, LeastNumber
<1>3. CASE n = 0
  <2> DEFINE f == [j \in 0..0 |-> <<>>]
  <2>1. Tells(f, messages, 0)
    BY DEF Tells, FramesTo
  <2> QED
    BY <1>3, <2>1
<1>4. CASE n # 0
  <2>1. n - 1 \in Nat /\ n - 1 \notin S
    BY <1>2, <1>4
  <2>2. PICK f : Tells(f, messages, n - 1)
    BY <2>1
  <2> DEFINE g == [j \in 0..n |-> IF j = n THEN FramesTo(f, messages, n) ELSE f[j]]
  <2>3. ASSUME NEW j \in 0..n
        PROVE  g[j] = FramesTo(g, messages, j)
    <3>1. \A i \in 0..n - 1 : g[i] = f[i]
      BY <1>4
    <3>2. FramesTo(g, messages, j) = FramesTo(f, messages, j)
      <4>1. CASE j = 0
        BY <4>1 DEF FramesTo
      <4>2. CASE j # 0
        <5>1. g[j - 1] = f[j - 1]
          BY <3>1, <4>2
        <5> HIDE DEF g
        <5> QED
          BY <5>1 DEF FramesTo
      <4> QED
        BY <4>1, <4>2
    <3>3. CASE j = n
      BY <3>2, <3>3
    <3>4. CASE j # n
      <4>1. j \in 0..n - 1
        BY <3>4
      <4>2. f[j] = FramesTo(f, messages, j)
        BY <2>2, <4>1 DEF Tells
      <4> QED
        BY <3>2, <3>4, <4>2
    <3> QED
      BY <3>3, <3>4
  <2>4. g = [j \in 0..n |-> FramesTo(g, messages, j)]
    BY <2>3
  <2> HIDE DEF g
  <2>5. Tells(g, messages, n)
    BY <2>4 DEF Tells
  <2> QED
    BY <2>5
<1> QED
  BY <1>3, <1>4

LEMMA FramesToldOnce ==
  ASSUME NEW messages, NEW k \in Nat, NEW f, NEW g,
         Tells(f, messages, k), Tells(g, messages, k)
  PROVE  f = g
<1> DEFINE S == {n \in 0..k : f[n] # g[n]}
<1>1. \A n \in 0..k : f[n] = FramesTo(f, messages, n) /\ g[n] = FramesTo(g, messages, n)
  BY DEF Tells
<1>2. S = {}
  <2> SUFFICES ASSUME S # {}
               PROVE  FALSE
      OBVIOUS
  <2>1. PICK n \in S : \A m \in S : n <= m
    <3>1. S \in SUBSET Nat
      OBVIOUS
    <3> HIDE DEF S
    <3> QED
      BY <3>1, LeastNumber
  <2>2. FramesTo(f, messages, n) = FramesTo(g, messages, n)
    <3>1. CASE n = 0
      BY <3>1 DEF FramesTo
    <3>2. CASE n # 0
      <4>1. n - 1 \in 0..k /\ n - 1 \notin S
        BY <2>1, <3>2
      <4>2. f[n - 1] = g[n - 1]
        BY <4>1
      <4> QED
        BY <4>2 DEF FramesTo
    <3> QED
      BY <3>1, <3>2
  <2> QED
    BY <1>1, <2>2
<1> HIDE DEF S
<1>3. f = [n \in 0..k |-> f[n]] /\ g = [n \in 0..k |-> g[n]]
  BY DEF Tells
<1>4. \A n \in 0..k : f[n] = g[n]
  BY <1>2 DEF S
<1> QED
  BY <1>3, <1>4

\* What the recursive function of FramesOf is.
LEMMA FramesOfTold ==
  ASSUME NEW messages, Len(messages) \in Nat, NEW f, Tells(f, messages, Len(messages))
  PROVE  FramesOf(messages) = f[Len(messages)]
<1> DEFINE k == Len(messages)
           begun == CHOOSE g : g = [n \in 0..k |->
                       IF n = 0 THEN <<>>
                       ELSE IF n > 1 /\ messages[n].no > 0 THEN g[n - 1]
                       ELSE Append(g[n - 1], messages[n].of)]
<1>1. FramesOf(messages) = begun[k]
  BY DEF FramesOf
<1>2. Tells(begun, messages, k)
  <2>1. f = [n \in 0..k |->
              IF n = 0 THEN <<>>
              ELSE IF n > 1 /\ messages[n].no > 0 THEN f[n - 1]
              ELSE Append(f[n - 1], messages[n].of)]
    BY DEF Tells, FramesTo
  <2>2. begun = [n \in 0..k |->
              IF n = 0 THEN <<>>
              ELSE IF n > 1 /\ messages[n].no > 0 THEN begun[n - 1]
              ELSE Append(begun[n - 1], messages[n].of)]
    BY <2>1
  <2> HIDE DEF begun
  <2> QED
    BY <2>2 DEF Tells, FramesTo
<1> HIDE DEF begun
<1> QED
  BY <1>1, <1>2, FramesToldOnce

LEMMA NoFrames == FramesOf(<<>>) = <<>>
<1> DEFINE f == [n \in 0..0 |-> <<>>]
<1>1. Len(<<>>) = 0
  BY EmptySeq
<1>2. Tells(f, <<>>, 0)
  BY DEF Tells, FramesTo
<1>3. f[0] = <<>>
  OBVIOUS
<1> HIDE DEF f
<1> QED
  BY <1>1, <1>2, <1>3, FramesOfTold

\* Of one message more there is the frame more that it begins.
LEMMA FramesGrow ==
  ASSUME NEW s \in Seq(Fragments), NEW m \in Fragments
  PROVE  FramesOf(Append(s, m)) =
           IF s # <<>> /\ m.no > 0 THEN FramesOf(s) ELSE Append(FramesOf(s), m.of)
<1> DEFINE k == Len(s)
           t == Append(s, m)
<1>1. /\ k \in Nat /\ Len(t) = k + 1 /\ (s # <<>> <=> k + 1 > 1)
      /\ t[k + 1] = m /\ \A n \in 1..k : t[n] = s[n]
  <2>1. k \in Nat /\ (s # <<>> <=> k > 0)
    BY LenProperties, EmptySeq
  <2> QED
    BY <2>1, AppendProperties
<1> HIDE DEF k, t
<1>2. PICK f : Tells(f, t, k + 1)
  <2>1. k + 1 \in Nat
    BY <1>1
  <2> QED
    BY <2>1, FramesTold
<1>3. \A n \in 0..k + 1 : f[n] = FramesTo(f, t, n)
  BY <1>2 DEF Tells
<1> DEFINE g == [n \in 0..k |-> f[n]]
<1>4. ASSUME NEW n \in 0..k
      PROVE  FramesTo(f, t, n) = FramesTo(g, s, n)
  <2>1. CASE n = 0
    BY <2>1 DEF FramesTo
  <2>2. CASE n # 0
    <3>1. n \in 1..k /\ n - 1 \in 0..k
      BY <1>1, <2>2
    <3>2. t[n] = s[n] /\ g[n - 1] = f[n - 1]
      BY <1>1, <3>1
    <3> HIDE DEF g
    <3> QED
      BY <3>2 DEF FramesTo
  <2> QED
    BY <2>1, <2>2
<1>5. Tells(g, s, k)
  <2>1. \A n \in 0..k : n \in 0..k + 1
    BY <1>1
  <2>2. \A n \in 0..k : f[n] = FramesTo(g, s, n)
    <3> HIDE DEF g
    <3> QED
      BY <1>3, <1>4, <2>1
  <2>3. g = [n \in 0..k |-> FramesTo(g, s, n)]
    BY <2>2
  <2> HIDE DEF g
  <2> QED
    BY <2>3 DEF Tells
<1>6. g[k] = f[k]
  BY <1>1
<1> HIDE DEF g
<1>7. FramesOf(s) = f[k]
  BY <1>1, <1>5, <1>6, FramesOfTold DEF k
<1>8. FramesOf(t) = FramesTo(f, t, k + 1)
  <2>1. FramesOf(t) = f[k + 1]
    BY <1>1, <1>2, FramesOfTold
  <2> QED
    BY <1>1, <1>3, <2>1
<1>9. k + 1 # 0 /\ k + 1 - 1 = k
  BY <1>1
<1> QED
  BY <1>1, <1>7, <1>8, <1>9 DEF FramesTo, t

\* The frames of messages are frames, the first of them that of the first message.
LEMMA FramesToTyped ==
  ASSUME NEW s \in Seq(Fragments), NEW f, Tells(f, s, Len(s)), NEW i \in 1..Len(s)
  PROVE  f[i] \in Seq(Seq(Unit)) /\ f[i] # <<>> /\ Head(f[i]) = s[1].of
<1> DEFINE Good(u) == u \in Seq(Seq(Unit)) /\ u # <<>> /\ Head(u) = s[1].of
           S == {n \in 1..Len(s) : ~Good(f[n])}
<1>1. /\ Len(s) \in Nat /\ \A n \in 1..Len(s) : s[n].of \in Seq(Unit)
      /\ \A n \in 0..Len(s) : f[n] = FramesTo(f, s, n)
  <2>1. \A n \in 1..Len(s) : s[n] \in Fragments
    BY ElementOfSeq
  <2> QED
    BY <2>1, LenProperties DEF Tells, Fragments
<1>2. ASSUME NEW u \in Seq(Seq(Unit)), NEW v \in Seq(Unit)
      PROVE  /\ Append(u, v) \in Seq(Seq(Unit)) /\ Append(u, v) # <<>>
             /\ Head(Append(u, v)) = IF u = <<>> THEN v ELSE Head(u)
  BY AppendProperties, HeadTailAppend
<1>3. f[0] = <<>> /\ <<>> \in Seq(Seq(Unit))
  BY <1>1, EmptySeq DEF FramesTo
<1>4. SUFFICES ASSUME S # {}
               PROVE  FALSE
  OBVIOUS
<1>5. PICK n \in S : \A m \in S : n <= m
  <2>1. S \in SUBSET Nat
    OBVIOUS
  <2> HIDE DEF S
  <2> QED
    BY <1>4, <2>1, LeastNumber
<1>6. n \in 1..Len(s) /\ n \in Nat /\ n > 0 /\ f[n] = FramesTo(f, s, n) /\ ~Good(f[n])
  BY <1>1, <1>5
<1>7. CASE n = 1
  <2>1. f[1] = Append(<<>>, s[1].of)
    BY <1>3, <1>6, <1>7 DEF FramesTo
  <2>2. Good(f[1])
    BY <1>1, <1>2, <1>3, <1>6, <1>7, <2>1
  <2> QED
    BY <1>6, <1>7, <2>2
<1>8. CASE n # 1
  <2>1. n - 1 \in 1..Len(s) /\ n - 1 \notin S /\ n > 1
    BY <1>1, <1>5, <1>6, <1>8
  <2>2. Good(f[n - 1])
    BY <2>1
  <2>3. Good(Append(f[n - 1], s[n].of))
    BY <1>1, <1>2, <1>6, <2>2
  <2>4. f[n] \in {f[n - 1], Append(f[n - 1], s[n].of)}
    BY <1>6, <2>1 DEF FramesTo
  <2> HIDE DEF Good
  <2> QED
    BY <1>6, <2>2, <2>3, <2>4
<1> QED
  BY <1>7, <1>8

LEMMA FramesTyped ==
  ASSUME NEW s \in Seq(Fragments)
  PROVE  /\ FramesOf(s) \in Seq(Seq(Unit))
         /\ s # <<>> => FramesOf(s) # <<>> /\ Head(FramesOf(s)) = s[1].of
<1>1. CASE s = <<>>
  BY <1>1, NoFrames, EmptySeq
<1>2. CASE s # <<>>
  <2>1. Len(s) \in Nat /\ Len(s) \in 1..Len(s)
    BY <1>2, LenProperties, EmptySeq
  <2>2. PICK f : Tells(f, s, Len(s))
    BY <2>1, FramesTold
  <2>3. FramesOf(s) = f[Len(s)]
    BY <2>1, <2>2, FramesOfTold
  <2> QED
    BY <2>1, <2>2, <2>3, FramesToTyped
<1> QED
  BY <1>1, <1>2

\* Without the first message there are the same frames, if the next is of its
\* frame, and the first frame is gone otherwise.
LEMMA FramesShrink ==
  ASSUME NEW s \in Seq(Fragments), s # <<>>
  PROVE  /\ Len(s) > 1 /\ s[2].no > 0 /\ s[2].of = s[1].of => FramesOf(Tail(s)) = FramesOf(s)
         /\ (Len(s) > 1 => s[2].no = 0) => FramesOf(Tail(s)) = Tail(FramesOf(s))
<1> DEFINE t == Tail(s)
           k == Len(t)
<1>1. /\ k \in Nat /\ Len(s) = k + 1 /\ t \in Seq(Fragments)
      /\ \A n \in 1..k : t[n] = s[n + 1]
  <2>1. /\ t \in Seq(Fragments) /\ k = Len(s) - 1
        /\ \A n \in 1..k : t[n] = s[n + 1]
    BY HeadTailProperties
  <2>2. k \in Nat /\ Len(s) \in Nat
    BY <2>1, LenProperties
  <2> QED
    BY <2>1, <2>2
<1>2. PICK f : Tells(f, s, k + 1)
  <2>1. k + 1 \in Nat
    BY <1>1
  <2> QED
    BY <2>1, FramesTold
<1>3. /\ \A n \in 0..k + 1 : f[n] = FramesTo(f, s, n)
      /\ \A n \in 1..k + 1 : f[n] \in Seq(Seq(Unit)) /\ f[n] # <<>>
      /\ FramesOf(s) = f[k + 1]
  <2>1. Tells(f, s, Len(s))
    BY <1>1, <1>2
  <2>2. FramesOf(s) = f[k + 1]
    BY <1>1, <2>1, FramesOfTold
  <2>3. \A n \in 1..k + 1 : f[n] \in Seq(Seq(Unit)) /\ f[n] # <<>>
    <3>1. \A n \in 1..Len(s) : f[n] \in Seq(Seq(Unit)) /\ f[n] # <<>>
      BY <2>1, FramesToTyped
    <3> QED
      BY <1>1, <3>1
  <2> QED
    BY <1>2, <2>2, <2>3 DEF Tells
<1>4. /\ \A n \in 1..k + 1 : s[n] \in Fragments /\ s[n].of \in Seq(Unit) /\ s[n].no \in Nat
      /\ f[1] = Append(<<>>, s[1].of)
  <2>1. \A n \in 1..Len(s) : s[n] \in Fragments
    BY ElementOfSeq
  <2>2. 0 \in 0..k + 1 /\ 1 \in 0..k + 1 /\ 1 - 1 = 0
    BY <1>1
  <2>3. f[0] = <<>>
    BY <1>3, <2>2 DEF FramesTo
  <2>4. f[1] = Append(<<>>, s[1].of)
    <3>1. FramesTo(f, s, 1) = Append(f[0], s[1].of)
      BY DEF FramesTo
    <3> QED
      BY <1>3, <2>2, <2>3, <3>1
  <2> QED
    BY <1>1, <2>1, <2>4 DEF Fragments
<1> HIDE DEF t, k
\* The frames up to the message behind the n-th.
<1>5. ASSUME NEW n \in 1..k
      PROVE  /\ s[n + 1].no > 0 => f[n + 1] = f[n]
             /\ s[n + 1].no = 0 => f[n + 1] = Append(f[n], s[n + 1].of)
  <2>1. n + 1 \in 0..k + 1 /\ n + 1 # 0 /\ n + 1 > 1 /\ n + 1 - 1 = n
    BY <1>1
  <2>2. f[n + 1] = FramesTo(f, s, n + 1)
    BY <1>3, <2>1
  <2>3. FramesTo(f, s, n + 1) =
          IF s[n + 1].no > 0 THEN f[n] ELSE Append(f[n], s[n + 1].of)
    <3> DEFINE j == n + 1
    <3>1. j # 0 /\ j > 1 /\ f[j - 1] = f[n]
      BY <2>1
    <3> HIDE DEF j
    <3>2. FramesTo(f, s, j) = IF s[j].no > 0 THEN f[n] ELSE Append(f[n], s[j].of)
      BY <3>1, Zenon DEF FramesTo
    <3> QED
      BY <3>2 DEF j
  <2>4. s[n + 1].no = 0 => ~(s[n + 1].no > 0)
    OBVIOUS
  <2> QED
    BY <2>2, <2>3, <2>4, Zenon
<1>6. ASSUME k > 0, s[2].no > 0, s[2].of = s[1].of
      PROVE  FramesOf(t) = FramesOf(s)
  <2> DEFINE g == [n \in 0..k |-> IF n = 0 THEN <<>> ELSE f[n + 1]]
  <2>1. g[0] = <<>> /\ \A n \in 1..k : g[n] = f[n + 1]
    BY <1>1
  <2>2. g = [n \in 0..k |-> g[n]]
    OBVIOUS
  <2> HIDE DEF g
  <2>3. ASSUME NEW n \in 0..k
        PROVE  g[n] = FramesTo(g, t, n)
    <3>1. CASE n = 0
      BY <2>1, <3>1 DEF FramesTo
    <3>2. CASE n = 1
      <4>1. g[1] = f[2] /\ f[2] = f[1]
        BY <1>1, <1>5, <1>6, <2>1
      <4>2. t[1].of = s[1].of
        BY <1>1, <1>6
      <4>3. FramesTo(g, t, 1) = Append(g[0], t[1].of)
        BY DEF FramesTo
      <4> QED
        BY <1>4, <2>1, <3>2, <4>1, <4>2, <4>3
    <3>3. CASE n > 1
      <4>1. n \in 1..k /\ n - 1 \in 1..k /\ n - 1 + 1 = n /\ n # 0 /\ n + 1 \in 1..k + 1
        BY <1>1, <3>3
      <4>2. g[n] = f[n + 1] /\ g[n - 1] = f[n] /\ t[n] = s[n + 1] /\ s[n + 1].no \in Nat
        BY <1>1, <1>4, <2>1, <4>1
      <4>3. CASE t[n].no > 0
        BY <1>5, <3>3, <4>1, <4>2, <4>3 DEF FramesTo
      <4>4. CASE t[n].no = 0
        BY <1>5, <3>3, <4>1, <4>2, <4>4 DEF FramesTo
      <4> QED
        BY <4>2, <4>3, <4>4
    <3> QED
      BY <1>1, <3>1, <3>2, <3>3
  <2>4. Tells(g, t, k)
    BY <2>2, <2>3 DEF Tells
  <2>5. FramesOf(t) = g[k]
    BY <1>1, <2>4, FramesOfTold DEF k
  <2> QED
    BY <1>1, <1>3, <1>6, <2>1, <2>5
<1>7. ASSUME k > 0 => s[2].no = 0
      PROVE  FramesOf(t) = Tail(FramesOf(s))
  <2> DEFINE g == [n \in 0..k |-> Tail(f[n + 1])]
  <2>1. \A n \in 0..k : g[n] = Tail(f[n + 1])
    OBVIOUS
  <2>2. g = [n \in 0..k |-> g[n]]
    OBVIOUS
  <2> HIDE DEF g
  <2>3. g[0] = <<>>
    <3>1. /\ Tail(Append(<<>>, s[1].of)) = <<>> /\ 0 \in 0..k /\ 0 + 1 = 1
      <4>1. s[1].of \in Seq(Unit) /\ <<>> \in Seq(Seq(Unit)) /\ 0 \in 0..k /\ 0 + 1 = 1
        BY <1>1, <1>4, EmptySeq
      <4> QED
        BY <4>1, HeadTailAppend
    <3> QED
      BY <1>4, <2>1, <3>1
  <2>4. ASSUME NEW n \in 0..k
        PROVE  g[n] = FramesTo(g, t, n)
    <3>1. CASE n = 0
      BY <2>3, <3>1 DEF FramesTo
    <3>2. CASE n # 0
      <4>1. n \in 1..k /\ n \in 1..k + 1 /\ n - 1 \in 0..k /\ n - 1 + 1 = n /\ n + 1 \in 1..k + 1
        BY <1>1, <3>2
      <4>2. g[n] = Tail(f[n + 1]) /\ g[n - 1] = Tail(f[n]) /\ t[n] = s[n + 1]
        BY <1>1, <2>1, <4>1
      <4>3. s[n + 1].no \in Nat /\ s[n + 1].of \in Seq(Unit) /\ (n = 1 => s[n + 1].no = 0)
        BY <1>1, <1>4, <1>7, <4>1
      <4>4. CASE s[n + 1].no > 0
        <5>1. n > 1 /\ f[n + 1] = f[n]
          BY <1>5, <4>1, <4>3, <4>4
        <5> QED
          BY <3>2, <4>2, <4>4, <5>1 DEF FramesTo
      <4>5. CASE s[n + 1].no = 0
        <5>1. f[n + 1] = Append(f[n], s[n + 1].of)
          BY <1>5, <4>1, <4>5
        <5>2. f[n] \in Seq(Seq(Unit)) /\ f[n] # <<>>
          BY <1>3, <4>1
        <5>3. Tail(f[n + 1]) = Append(Tail(f[n]), s[n + 1].of)
          BY <4>3, <5>1, <5>2, HeadTailAppend
        <5>4. g[n] = Append(g[n - 1], t[n].of) /\ t[n].no = 0
          BY <4>2, <4>5, <5>3
        <5>5. ~(n > 1 /\ t[n].no > 0)
          BY <5>4
        <5> QED
          BY <3>2, <5>4, <5>5, Zenon DEF FramesTo
      <4> QED
        BY <4>3, <4>4, <4>5
    <3> QED
      BY <3>1, <3>2
  <2>5. Tells(g, t, k)
    BY <2>2, <2>4 DEF Tells
  <2>6. FramesOf(t) = g[k]
    BY <1>1, <2>5, FramesOfTold DEF k
  <2>7. k \in 0..k
    BY <1>1
  <2> QED
    BY <1>3, <2>1, <2>6, <2>7
<1>8. Len(s) > 1 <=> k > 0
  BY <1>1
<1> QED
  BY <1>6, <1>7, <1>8 DEF t

-----------------------------------------------------------------------------
(* The refinement of FrameChannel                                          *)

\* The frames that the channel has, when one message less or more is under way.
LEMMA UnderwayTyped ==
  ASSUME WholeInv
  PROVE  /\ Underway \in Seq(Seq(Unit))
         /\ Stream # <<>> => Underway # <<>> /\ Head(Underway) = Stream[1].of
<1>1. Stream \in Seq(Fragments)
  BY StreamTyped
<1> QED
  BY <1>1, FramesTyped DEF Underway

LEMMA FirstFrameLost ==
  ASSUME NEW S, NEW u \in Seq(S), u # <<>>
  PROVE  /\ 1 \in 1..Len(u) /\ u[1] = Head(u)
         /\ Tail(u) = SubSeq(u, 1 + 1, Len(u))
         /\ Tail(u) = SubSeq(u, 1, 1 - 1) \o SubSeq(u, 1 + 1, Len(u))
<1>1. /\ Len(u) \in Nat /\ Len(u) > 0 /\ 1 \in 1..Len(u) /\ u[1] = Head(u)
      /\ Tail(u) \in Seq(S)
  BY LenProperties, EmptySeq, HeadTailProperties
<1>2. Tail(u) = SubSeq(u, 2, Len(u))
  BY TailIsSubSeq
<1>3. SubSeq(u, 1, 0) = <<>>
  BY SubSeqEmpty
<1>4. <<>> \o Tail(u) = Tail(u)
  BY <1>1, ConcatEmptySeq
<1>5. 1 + 1 = 2 /\ 1 - 1 = 0
  OBVIOUS
<1> QED
  BY <1>1, <1>2, <1>3, <1>4, <1>5

LEMMA LastFrameLost ==
  ASSUME NEW S, NEW u \in Seq(S), NEW f \in S, NEW w, w = Append(u, f)
  PROVE  /\ Len(w) \in 1..Len(w)
         /\ u = SubSeq(w, 1, Len(w) - 1) \o SubSeq(w, Len(w) + 1, Len(w))
<1> DEFINE k == Len(u)
<1>1. /\ k \in Nat /\ Len(w) = k + 1 /\ w \in Seq(S)
      /\ \A i \in 1..k : w[i] = u[i] /\ w[i] \in S
  BY LenProperties, AppendProperties, ElementOfSeq
<1> HIDE DEF k
<1>2. /\ SubSeq(w, 1, k) \in Seq(S) /\ Len(SubSeq(w, 1, k)) = k
      /\ \A i \in 1..k : SubSeq(w, 1, k)[i] = w[i]
  <2>1. /\ SubSeq(w, 1, k) \in Seq(S)
        /\ Len(SubSeq(w, 1, k)) = IF 1 <= k THEN k - 1 + 1 ELSE 0
        /\ \A i \in 1..k - 1 + 1 : SubSeq(w, 1, k)[i] = w[1 + i - 1]
    BY <1>1, SubSeqProperties
  <2>2. k - 1 + 1 = k /\ (1 <= k \/ k = 0) /\ \A i \in 1..k : 1 + i - 1 = i
    BY <1>1
  <2> QED
    BY <2>1, <2>2
<1>3. SubSeq(w, 1, k) = u
  BY <1>1, <1>2, SeqEqual DEF k
<1>4. SubSeq(w, k + 1 + 1, k + 1) = <<>>
  BY <1>1, SubSeqEmpty
<1>5. u \o <<>> = u
  BY ConcatEmptySeq
<1>6. k + 1 - 1 = k /\ k + 1 \in 1..k + 1
  BY <1>1
<1> QED
  BY <1>1, <1>3, <1>4, <1>5, <1>6

\* With the first message its frame is gone, unless more of it is under way.
LEMMA FirstMessageGone ==
  ASSUME WholeInv, Stream # <<>>, Stream' = Tail(Stream)
  PROVE  \/ Underway' = Underway /\ ~Stream[1].last
         \/ Underway' = Tail(Underway)
<1>1. /\ Stream \in Seq(Fragments) /\ Len(Stream) \in Nat
      /\ \A i \in 1..Len(Stream) : Stream[i].no \in Nat
      /\ Sound(Stream, stamps)
  <2>1. Stream \in Seq(Fragments)
    BY StreamTyped
  <2>2. \A i \in 1..Len(Stream) : Stream[i] \in Fragments
    BY <2>1, ElementOfSeq
  <2> QED
    BY <2>1, <2>2, LenProperties DEF WholeInv, Fragments
<1>2. Underway' = FramesOf(Tail(Stream))
  BY DEF Underway
<1>3. CASE Len(Stream) > 1 /\ Stream[2].no > 0
  <2>1. Follows(Stream[1], Stream[1 + 1])
    <3>1. 1 \in 1..Len(Stream) - 1
      BY <1>1, <1>3
    <3> QED
      BY <1>1, <3>1 DEF Sound
  <2>2. ~Stream[1].last /\ Stream[2].of = Stream[1].of
    BY <1>3, <2>1 DEF Follows
  <2> QED
    BY <1>1, <1>2, <1>3, <2>2, FramesShrink DEF Underway
<1>4. CASE ~(Len(Stream) > 1 /\ Stream[2].no > 0)
  <2>1. Len(Stream) > 1 => Stream[2].no = 0
    BY <1>1, <1>4
  <2> QED
    BY <1>1, <1>2, <2>1, FramesShrink DEF Underway
<1> QED
  BY <1>3, <1>4

LEMMA SendBeginsRefines ==
  ASSUME WholeInv, SendBegins
  PROVE  Channel!Send
<1>1. WholeInv' /\ EoETypeOK
  BY SendBeginsWhole DEF WholeInv, EoEInv
<1>2. PICK length \in Lengths :
        sending' = [frame |-> Frame(length, tag), offset |-> 0, fragmentno |-> 0,
                    payload |-> IF stamps THEN Append(Frame(length, tag), Stamp(tag))
                                ELSE Frame(length, tag)]
  BY DEF SendBegins
<1>3. sending = None /\ queue' = queue /\ got' = got
  BY DEF SendBegins, receiver
<1>4. sending' # None
  BY BeginsWithLocals DEF WholeInv
<1>5. FragmentFacts' /\ Stream' = Append(queue', Fragment')
  <2>1. (WholeInv => (sending # None => FragmentFacts /\ Stream = Append(queue, Fragment)))'
    BY SentTyped, PTL
  <2> QED
    BY <1>1, <1>4, <2>1
<1>6. Fragment' \in Fragments /\ Fragment'.no = 0 /\ Fragment'.of = Frame(length, tag)
  BY <1>2, <1>5 DEF FragmentFacts
<1>7. Stream = queue /\ queue \in Seq(Fragments)
  BY <1>1, <1>3, StreamTyped
<1>8. Underway' = Append(Underway, Frame(length, tag))
  <2>1. Stream' = Append(Stream, Fragment')
    BY <1>3, <1>5, <1>7
  <2>2. Underway' = FramesOf(Append(Stream, Fragment'))
    BY <2>1 DEF Underway
  <2>3. FramesOf(Append(Stream, Fragment')) = Append(FramesOf(Stream), Fragment'.of)
    BY <1>6, <1>7, FramesGrow
  <2> QED
    BY <1>6, <2>2, <2>3 DEF Underway
<1>9. Frame(length, tag) \in {Frame(l, t) : l \in Lengths, t \in 0..Tags - 1}
  <2>1. tag \in 0..Tags - 1
    BY <1>1 DEF EoETypeOK
  <2>2. \E l \in Lengths, t \in 0..Tags - 1 : Frame(length, tag) = Frame(l, t)
    BY <2>1, Zenon
  <2> QED
    BY <2>2, SMT
<1> QED
  BY <1>3, <1>8, <1>9 DEF Channel!Send

LEMMA SendFragmentRefines ==
  ASSUME WholeInv, SendFragment
  PROVE  UNCHANGED <<Underway, got>>
<1>1. WholeInv' /\ sending # None /\ queue' = Append(queue, Fragment) /\ got' = got
  BY SendFragmentWhole DEF SendFragment, receiver
<1>2. FragmentFacts /\ Stream = Append(queue, Fragment) /\ Stream \in Seq(Fragments)
  BY <1>1, StreamTyped
<1>3. CASE sending' = None
  <2>1. Stream' = Stream
    BY <1>1, <1>2, <1>3 DEF Stream
  <2> QED
    BY <1>1, <2>1 DEF Underway
<1>4. CASE sending' # None
  <2>1. (WholeInv => (sending # None => FragmentFacts /\ Stream = Append(queue, Fragment)))'
    BY SentTyped, PTL
  <2>2. FragmentFacts' /\ Stream' = Append(Stream, Fragment')
    BY <1>1, <1>2, <1>4, <2>1
  <2>3. Fragment'.no > 0
    <3>1. sending' = [sending EXCEPT !.offset = @ + FragmentSize, !.fragmentno = @ + 1]
      BY <1>4 DEF SendFragment
    <3>2. sending'.fragmentno = sending.fragmentno + 1 /\ sending.fragmentno \in Nat
      BY <1>1, <3>1 DEF WholeInv, EoEInv, EoETypeOK, Sendings
    <3> QED
      BY <2>2, <3>2 DEF FragmentFacts
  <2>4. Fragment' \in Fragments /\ Stream # <<>>
    BY <1>1, <2>2, StreamNotEmpty DEF FragmentFacts
  <2>5. FramesOf(Append(Stream, Fragment')) = FramesOf(Stream)
    BY <1>2, <2>3, <2>4, FramesGrow
  <2> QED
    BY <1>1, <2>2, <2>5 DEF Underway
<1> QED
  BY <1>3, <1>4

LEMMA SendFailsRefines ==
  ASSUME WholeInv, SendFails
  PROVE  UNCHANGED <<Underway, got>> \/ Channel!Lose
<1>1. /\ sending # None /\ sending' = None /\ got' = got
      /\ queue' \in {queue, Append(queue, Fragment)}
  BY DEF SendFails, receiver
<1>2. /\ FragmentFacts /\ Fragment \in Fragments /\ queue \in Seq(Fragments)
      /\ Stream = Append(queue, Fragment) /\ Stream' = queue'
  BY <1>1, StreamTyped DEF FragmentFacts, Stream
<1>3. CASE queue' = Append(queue, Fragment)
  BY <1>1, <1>2, <1>3 DEF Underway
<1>4. CASE queue' = queue
  <2>1. Underway' = FramesOf(queue) /\ FramesOf(queue) \in Seq(Seq(Unit))
    BY <1>2, <1>4, FramesTyped DEF Underway
  <2>2. \/ Underway = Underway'
        \/ Underway = Append(Underway', Fragment.of)
    BY <1>2, <2>1, FramesGrow DEF Underway
  <2>3. ASSUME Underway = Append(Underway', Fragment.of)
        PROVE  Channel!Lose
    <3>1. Fragment.of \in Seq(Unit)
      BY <1>2 DEF Fragments
    <3>2. /\ Len(Underway) \in 1..Len(Underway)
          /\ Underway' = SubSeq(Underway, 1, Len(Underway) - 1)
                           \o SubSeq(Underway, Len(Underway) + 1, Len(Underway))
      BY <2>1, <2>3, <3>1, LastFrameLost
    <3> QED
      BY <1>1, <3>2 DEF Channel!Lose
  <2> QED
    BY <1>1, <2>2, <2>3
<1> QED
  BY <1>1, <1>3, <1>4

\* What the receiver hands over is the first of the frames that are under way.
LEMMA HandedIsFirst ==
  ASSUME FewFaults, UnmixedInv, Receive
  PROVE  got' = got \/ (Stream[1].last /\ got' = Stream[1].of)
<1>1. WholeInv /\ EoETypeOK
  BY DEF UnmixedInv, WholeInv, EoEInv
<1>2. queue # <<>> /\ queue' = Tail(queue) /\ UNCHANGED <<eoeSetup, sender>>
  BY DEF Receive
<1>3. PICK m : m = Stream[1]
  OBVIOUS
<1>4. Stream # <<>> /\ Head(queue) = m
  BY <1>1, <1>2, <1>3, FirstOfStream
<1>5. m \in Fragments /\ Piece(m, stamps)
  BY <1>1, <1>2, <1>4, StreamMoves
<1>6. PICK r \in 0..FrameNos - 1, h \in Nat, x \in Nat,
           a \in [1..Len(Stream) -> Nat], e \in [1..Len(Stream) -> Nat] : CountedIn(r, h, x, a, e)
  BY DEF UnmixedInv, Countable
<1>7. CASE Accepts(m) /\ m.last /\ Complete(m)
  <2>1. Awaits(m) /\ Startable(m)
    BY <1>1, <1>3, <1>4, <1>6, <1>7, AcceptedInFrame
  <2>2. got' = m.of
    BY <1>1, <1>5, <1>7, <2>1, HandedWhole
  <2> QED
    BY <1>3, <1>7, <2>2
<1>8. CASE ~(Accepts(m) /\ m.last /\ Complete(m))
  BY <1>4, <1>8 DEF Receive, Continue, Reject
<1> QED
  BY <1>7, <1>8

LEMMA ReceiveRefines ==
  ASSUME FewFaults, UnmixedInv, Receive
  PROVE  UNCHANGED <<Underway, got>> \/ Channel!HandOver \/ Channel!Lose
<1>1. WholeInv
  BY DEF UnmixedInv
<1>2. Stream # <<>> /\ Stream' = Tail(Stream)
  BY <1>1, FirstOfStream DEF Receive
<1>3. got' = got \/ (Stream[1].last /\ got' = Stream[1].of)
  BY HandedIsFirst
<1>4. \/ Underway' = Underway /\ ~Stream[1].last
      \/ Underway' = Tail(Underway)
  BY <1>1, <1>2, FirstMessageGone
<1>5. /\ 1 \in 1..Len(Underway) /\ Underway[1] = Stream[1].of
      /\ Tail(Underway) = SubSeq(Underway, 1 + 1, Len(Underway))
      /\ Tail(Underway) = SubSeq(Underway, 1, 1 - 1) \o SubSeq(Underway, 1 + 1, Len(Underway))
  BY <1>1, <1>2, UnderwayTyped, FirstFrameLost
<1>6. ASSUME Underway' = Tail(Underway), got' = got
      PROVE  Channel!Lose
  BY <1>5, <1>6 DEF Channel!Lose
<1>7. ASSUME Underway' = Tail(Underway), got' = Stream[1].of
      PROVE  Channel!HandOver
  BY <1>5, <1>7 DEF Channel!HandOver
<1> QED
  BY <1>3, <1>4, <1>6, <1>7

LEMMA FaultsRefine ==
  ASSUME WholeInv, BreaksOff \/ Lost
  PROVE  UNCHANGED <<Underway, got>> \/ Channel!Lose
<1>1. UNCHANGED <<eoeSetup, sender>> /\ got' = got
  BY DEF BreaksOff, Lost, Reject
<1>2. CASE BreaksOff
  <2>1. Stream' = Stream
    BY <1>1, <1>2 DEF BreaksOff, Stream, Fragment, FragmentSize, Left, eoeSetup, sender
  <2> QED
    BY <1>1, <2>1 DEF Underway
<1>3. CASE Lost
  <2>1. Stream # <<>> /\ Stream' = Tail(Stream)
    BY <1>1, <1>3, FirstOfStream DEF Lost
  <2>2. Underway' = Underway \/ Underway' = Tail(Underway)
    BY <2>1, FirstMessageGone
  <2>3. /\ 1 \in 1..Len(Underway)
        /\ Tail(Underway) = SubSeq(Underway, 1, 1 - 1) \o SubSeq(Underway, 1 + 1, Len(Underway))
    BY <2>1, UnderwayTyped, FirstFrameLost
  <2>4. ASSUME Underway' = Tail(Underway)
        PROVE  Channel!Lose
    BY <1>1, <2>3, <2>4 DEF Channel!Lose
  <2> QED
    BY <1>1, <2>2, <2>4
<1> QED
  BY <1>2, <1>3

\* As long as fewer things go wrong than there are frame numbers, ecx_EOErecv and
\* ecx_EOEreadfragment hand over nothing but frames that ecx_EOEsend was given: none
\* is put together of parts of two, though a first or a last fragment is lost, and
\* none comes twice, or behind one that was sent later.
THEOREM FramesAreNotMixed ==
  ASSUME FewFaults
  PROVE  EoESpec => ImplementsFrameChannel
<1>1. EoEInit => Channel!Init
  BY NoFrames DEF EoEInit, Channel!Init, Underway, Stream
<1>2. UnmixedInv /\ [EoENext]_eoeVars => [Channel!Next]_<<Underway, got>>
  <2> SUFFICES ASSUME UnmixedInv, [EoENext]_eoeVars
               PROVE  [Channel!Next]_<<Underway, got>>
      OBVIOUS
  <2>1. WholeInv
    BY DEF UnmixedInv
  <2>2. ASSUME UNCHANGED eoeVars
        PROVE  UNCHANGED <<Underway, got>>
    BY <2>2 DEF eoeVars, eoeSetup, sender, receiver, Underway, Stream, Fragment, FragmentSize, Left
  <2>3. \/ UNCHANGED <<Underway, got>>
        \/ Channel!Send \/ Channel!HandOver \/ Channel!Lose
    BY <2>1, <2>2, SendBeginsRefines, SendFragmentRefines, SendFailsRefines, ReceiveRefines,
       FaultsRefine DEF EoENext
  <2> QED
    BY <2>3 DEF Channel!Next
<1> QED
  BY <1>1, <1>2, UnmixedInvariant, PTL DEF EoESpec, ImplementsFrameChannel, Channel!Spec
=============================================================================
