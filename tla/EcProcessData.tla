--------------------------- MODULE EcProcessData ---------------------------
(***************************************************************************)
(* The process data cycle of the EtherCAT master: ecx_send_processdata_group *)
(* sends the frames of a group and pushes their indices on a stack,         *)
(* ecx_receive_processdata_group waits for each and copies its inputs into  *)
(* the IO map.  Between them, and between cycles, the same thread sends     *)
(* single commands (ecx_FPRD and its like) through the same buffers.        *)
(***************************************************************************)
EXTENDS EcFrames

CONSTANTS Setups,  \* the setups of the master and its network
          Nothing, \* no command, no answer
          MaxTries, \* how often a command is sent
          MaxCounter \* the largest number in the two bytes of a work counter

\* A setup: the commands of the group's frames (LRW, or LRD and LWR), whether
\* its first frame carries the distributed clock; whether frames may get lost,
\* and be late, by less than a cycle or a command; when there are commands;
\* whether hal_ethernet_recv may return a frame again.
SetupAssumption ==
  /\ Setups \subseteq [frames : Seq({"LRW", "LRD", "LWR"}), dc : BOOLEAN,
                       lossy : BOOLEAN, late : BOOLEAN,
                       commands : {"never", "between", "anytime"}, again : BOOLEAN]
  /\ \A s \in Setups : Len(s.frames) > 0
  /\ MaxTries \in Nat \ {0} /\ MaxCounter \in Nat
  /\ Nothing \notin Int \cup [idx : Indices, tries : 1..MaxTries]
ASSUME SetupAssumption

VARIABLES setup,  \* one of Setups
          pc,     \* idle, sending, sent, receiving
          number, \* the frames sent in this cycle (currentsegment)
          idxstack, pulled, \* the stack of indices and places in the IO map
          wkc, valid_wkc, first, \* the local variables of receive
          inputs, \* what is in the IO map for each frame
          returned, \* what the last receive returned
          command,  \* the command that is waited for
          answer,   \* what the last one returned, and what it was
          turn,     \* the number of the cycle, or of the command between two, mod 3
          question, \* the number of the command, mod 3
          spoilt    \* a frame of this cycle was lost or late

receive == <<wkc, valid_wkc, first>>
io == <<idxstack, pulled, inputs, returned>>
vars == <<frames, setup, pc, number, receive, io, command, answer, turn, question, spoilt>>

NumberOfFrames == Len(setup.frames)
Frames == 1..NumberOfFrames

NoInput == [part |-> 0, turn |-> 0]
Garbled == [part |-> 0, turn |-> 1]

Init ==
  /\ FramesInit
  /\ setup \in Setups
  /\ pc = "idle" /\ number = 0
  /\ idxstack = <<>> /\ pulled = 0
  /\ wkc = 0 /\ valid_wkc = FALSE /\ first = FALSE
  /\ inputs = [f \in Frames |-> NoInput] /\ returned = Nothing
  /\ command = Nothing /\ answer = Nothing
  /\ turn = 0 /\ question = 0 /\ spoilt = FALSE

-----------------------------------------------------------------------------
(* ecx_main_send_processdata                                               *)

\* Frames of the cycle, or of the command, before may still be on their way when
\* the next begins.  Older ones are gone by then.
NothingOlder == \A n \in 1..Len(wire) : wire[n].turn = turn
NextTurn == turn' = (turn + 1) % 3

\* The cycle begins.
StartCycle ==
  /\ pc = "idle" /\ command = Nothing /\ NothingOlder
  /\ pc' = "sending" /\ number' = 0
  /\ NextTurn
  /\ spoilt' = FALSE /\ returned' = Nothing /\ answer' = Nothing
  /\ UNCHANGED <<frames, setup, receive, idxstack, pulled, inputs, command, question>>

\* A late frame is gone before it was read.
Vanish ==
  /\ pc = "idle" /\ command = Nothing
  /\ wire # <<>> /\ Head(wire).turn # turn
  /\ wire' = Tail(wire)
  /\ UNCHANGED <<rxbufstat, rxbuf, lastidx, held>>
  /\ UNCHANGED <<setup, pc, number, receive, io, command, answer, turn, question, spoilt>>

\* ecx_pushindex: on a full stack the index is forgotten.
Pushed(i, part) ==
  IF Len(idxstack) < Buffers THEN Append(idxstack, [idx |-> i, part |-> part]) ELSE idxstack

\* One frame of the cycle: its index, its datagrams, the transmission, the stack.
SendFrame ==
  /\ pc = "sending"
  /\ number' = number + 1
  /\ \E i \in Indices :
       /\ GetsIndex(i)
       /\ OutFrame(i, [idx |-> i, command |-> setup.frames[number'], part |-> number',
                       dc |-> setup.dc /\ number' = 1, turn |-> turn], setup.lossy)
       /\ idxstack' = Pushed(i, number')
  /\ spoilt' = (spoilt \/ wire' = wire)
  /\ pc' = IF number' = NumberOfFrames THEN "sent" ELSE "sending"
  /\ UNCHANGED <<setup, receive, pulled, inputs, returned, command, answer, turn, question>>

-----------------------------------------------------------------------------
(* ecx_receive_processdata_group                                           *)

StartReceive ==
  /\ pc = "sent" /\ command = Nothing
  /\ pc' = "receiving"
  /\ wkc' = 0 /\ valid_wkc' = FALSE /\ first' = setup.dc
  /\ answer' = Nothing
  /\ UNCHANGED <<frames, setup, number, io, command, turn, question, spoilt>>

\* ecx_pullindex: the entry that is waited for.
Awaiting == pc = "receiving" /\ pulled < Len(idxstack)
Entry == idxstack[pulled + 1]

\* The work counter of a frame whose slaves all took part.
WorkCounter(name) == IF name = "LRW" THEN 3 ELSE 1

\* What a frame adds to the result: "output WKC counts 2 times when using LRW,
\* emulate the same for LWR".
Counts(name, counter) == IF name = "LWR" THEN 2 * counter ELSE counter

\* In the first frame that comes the counter is looked for before the clock
\* datagram, in the others at the end.  In one with the clock that is the counter
\* of the clock datagram, and before it, in one without, there are two bytes of
\* anything.
FoundCounter(frame) ==
  IF frame.dc = first THEN {WorkCounter(frame.command)} ELSE 0..MaxCounter

\* A process data frame is copied into the IO map; a LWR brings no inputs.  The
\* first frame's inputs are as long as those of the frame with the clock.
Copy(frame) ==
  /\ frame.command \in {"LRW", "LRD", "LWR"}
  /\ valid_wkc' = TRUE /\ first' = FALSE
  /\ \E counter \in FoundCounter(frame) : wkc' = wkc + Counts(frame.command, counter)
  /\ inputs' = IF frame.command = "LWR" THEN inputs
               ELSE [inputs EXCEPT ![Entry.part] =
                       IF first /\ ~frame.dc THEN Garbled
                       ELSE [part |-> frame.part, turn |-> frame.turn]]

\* Another frame with the index is not.
Ignore(frame) ==
  /\ frame.command \notin {"LRW", "LRD", "LWR"}
  /\ UNCHANGED <<receive, inputs>>

FrameFound(frame) == (Copy(frame) \/ Ignore(frame)) /\ pulled' = pulled + 1
FrameAwaited == UNCHANGED <<receive, inputs, pulled>>

ReceiveFrame ==
  /\ Awaiting
  /\ \/ FindKept(Entry.idx) /\ FrameFound(rxbuf[Entry.idx])
     \/ \E frame \in Receivable :
          \/ ReadOwn(Entry.idx, frame, setup.again) /\ FrameFound(frame)
          \/ ReadOther(Entry.idx, frame, setup.again) /\ FrameAwaited
  /\ UNCHANGED <<setup, pc, number, idxstack, returned, command, answer, turn, question, spoilt>>

\* A slip: the buffer of a frame that did not come is not released.
GiveUpKeeps(i) == UNCHANGED rxbufstat /\ pulled' = pulled + 1

\* A slip: a frame that did not come is waited for once more.
GiveUpWaits(i) == Release(i) /\ UNCHANGED pulled

\* The buffer is released, and the next frame is waited for.
GiveUp(i) == Release(i) /\ pulled' = pulled + 1

\* The frame was lost, or it is late: that spoils the cycle.
ReceiveTimesOut ==
  /\ Awaiting /\ TimeIsUp(Entry.idx, setup.late)
  /\ GiveUp(Entry.idx)
  /\ spoilt' = (spoilt \/ setup.late)
  /\ UNCHANGED <<rxbuf, lastidx, wire, held, setup, pc, number, receive, idxstack, inputs, returned,
                 command, answer, turn, question>>

\* A slip: the stack is emptied, but not rewound.
ClearIndexHalf == idxstack' = <<>> /\ UNCHANGED pulled

ClearIndex == idxstack' = <<>> /\ pulled' = 0

\* All frames are in: the stack is cleared.
EndReceive ==
  /\ pc = "receiving" /\ pulled = Len(idxstack)
  /\ pc' = "idle" /\ ClearIndex
  /\ returned' = IF valid_wkc THEN wkc ELSE -1      \* EC_NOFRAME
  /\ wkc' = 0 /\ valid_wkc' = FALSE /\ first' = FALSE
  /\ UNCHANGED <<frames, setup, number, inputs, command, answer, turn, question, spoilt>>

-----------------------------------------------------------------------------
(* Single commands                                                         *)

\* ecx_FPRD: a command may come before the frames of a cycle are received.
MayCommand ==
  /\ command = Nothing
  /\ \/ pc = "idle" /\ setup.commands # "never" /\ NothingOlder
     \/ pc = "sent" /\ setup.commands = "anytime"

CommandFrame(i, n, t) ==
  [idx |-> i, command |-> "FPRD", part |-> n, dc |-> FALSE, turn |-> t]

StartCommand ==
  /\ MayCommand
  /\ question' = (question + 1) % 3
  /\ IF pc = "idle" THEN NextTurn ELSE UNCHANGED turn
  /\ \E i \in Indices :
       /\ GetsIndex(i) /\ OutFrame(i, CommandFrame(i, question', turn'), setup.lossy)
       /\ command' = [idx |-> i, tries |-> 1]
  /\ answer' = Nothing /\ returned' = Nothing
  /\ UNCHANGED <<setup, pc, number, receive, idxstack, pulled, inputs, spoilt>>

CommandFound(frame) ==
  /\ command' = Nothing
  /\ answer' = [frame |-> frame.command, to |-> frame.part]
CommandAwaited == UNCHANGED <<command, answer>>

ReceiveAnswer ==
  /\ command # Nothing
  /\ \/ FindKept(command.idx) /\ CommandFound(rxbuf[command.idx])
     \/ \E frame \in Receivable :
          \/ ReadOwn(command.idx, frame, setup.again) /\ CommandFound(frame)
          \/ ReadOther(command.idx, frame, setup.again) /\ CommandAwaited
  /\ UNCHANGED <<setup, pc, number, receive, io, turn, question, spoilt>>

\* ecx_srconfirm sends the command again with its index, or gives up.
TryAgain ==
  /\ command # Nothing /\ TimeIsUp(command.idx, setup.late) /\ command.tries < MaxTries
  /\ LET i == command.idx
     IN  /\ rxbufstat' = [rxbufstat EXCEPT ![i] = "tx"]
         /\ Transmit(CommandFrame(i, question, turn), setup.lossy)
  /\ command' = [command EXCEPT !.tries = @ + 1]
  /\ UNCHANGED <<rxbuf, lastidx, held, setup, pc, number, receive, io, answer, turn, question, spoilt>>

CommandFails ==
  /\ command # Nothing /\ TimeIsUp(command.idx, setup.late) /\ command.tries = MaxTries
  /\ Release(command.idx)
  /\ command' = Nothing
  /\ UNCHANGED <<rxbuf, lastidx, wire, held, setup, pc, number, receive, io, answer, turn, question, spoilt>>

-----------------------------------------------------------------------------

Master ==
  \/ SendFrame \/ ReceiveFrame \/ ReceiveTimesOut \/ EndReceive
  \/ ReceiveAnswer \/ TryAgain \/ CommandFails
User == StartCycle \/ StartReceive \/ StartCommand

Next == Master \/ User \/ Vanish

\* The master's thread goes on, and its timer runs out however often a frame is
\* read that it does not wait for.
Spec == Init /\ [][Next]_vars /\ WF_vars(Master) /\ SF_vars(ReceiveTimesOut)

-----------------------------------------------------------------------------
(* Properties                                                              *)

BufferStates == {"empty", "tx", "rcvd"}

Datagram == [idx : Indices, command : {"LRW", "LRD", "LWR", "FPRD"}, part : Nat,
             dc : BOOLEAN, turn : 0..2]

TypeOK ==
  /\ rxbufstat \in [Indices -> BufferStates]
  /\ lastidx \in Indices
  /\ wire \in Seq(Datagram)
  /\ held \in Datagram \cup {NoFrame}
  /\ setup \in Setups
  /\ pc \in {"idle", "sending", "sent", "receiving"}
  /\ number \in 0..NumberOfFrames
  /\ idxstack \in Seq([idx : Indices, part : Frames]) /\ Len(idxstack) <= Buffers
  /\ pulled \in 0..Len(idxstack)
  /\ wkc \in Nat /\ returned \in {Nothing, -1} \cup Nat
  /\ command \in {Nothing} \cup [idx : Indices, tries : 1..MaxTries]
  /\ turn \in 0..2 /\ question \in 0..2

\* The buffers that someone waits for: the entries of the stack that are not
\* pulled yet, and the command's.
InUse == {idxstack[n].idx : n \in pulled + 1..Len(idxstack)}
         \cup IF command = Nothing THEN {} ELSE {command.idx}

\* No index is given out to two frames at a time, and each buffer is released
\* in the end whether its frame comes or not (ecx_getindex, ecx_setbufstat).
BuffersReleased == {i \in Indices : rxbufstat[i] # "empty"} = InUse

Expected == IF setup.frames[1] = "LRW" THEN 3 * NumberOfFrames ELSE 3

\* A full work counter means that all inputs are those of this cycle, each in
\* its place, whatever frames were lost, late, overtaken by commands or read
\* twice before.
FullCounterMeansFresh ==
  returned = Expected =>
    \A f \in Frames : setup.frames[f] # "LWR" => inputs[f] = [part |-> f, turn |-> turn]

\* The work counter is short only when a frame of this very cycle was lost or
\* late: earlier cycles and commands leave nothing behind.
LossEndsWithCycle == returned # Nothing /\ ~spoilt => returned = Expected

\* A command gets its own answer, not an earlier one's or a process data frame.
AnswersItsQuestion == answer # Nothing => answer = [frame |-> "FPRD", to |-> question]

\* Receive comes back.
ReceiveReturns == pc = "receiving" ~> pc = "idle"
=============================================================================
