------------------------------ MODULE EcFrames ------------------------------
(***************************************************************************)
(* The frames of the EtherCAT master (oshw/nicdrv.c): a few receive buffers, *)
(* each with an index that a frame carries around the ring of slaves, so    *)
(* that its answer finds back; and the network interface, which holds the   *)
(* frames until the master reads them.                                     *)
(***************************************************************************)
EXTENDS Integers, Sequences

CONSTANTS Buffers,  \* EC_MAXBUF
          NoFrame   \* the content of a buffer that has received none

BuffersAssumption == Buffers \in Nat \ {0}
ASSUME BuffersAssumption

VARIABLES rxbufstat, \* the state of each buffer
          rxbuf,     \* the frame it has received
          lastidx,   \* the index given out last
          wire,      \* the frames in the network and its interface, in order
          held       \* the frame that hal_ethernet_recv returned last

frames == <<rxbufstat, rxbuf, lastidx, wire, held>>

Indices == 0..Buffers - 1

FramesInit ==
  /\ rxbufstat = [i \in Indices |-> "empty"]
  /\ rxbuf = [i \in Indices |-> NoFrame]
  /\ lastidx = 0
  /\ wire = <<>> /\ held = NoFrame

Ahead(i) == IF i > lastidx THEN i - lastidx ELSE i - lastidx + Buffers

\* A slip: the next index, whether it is in use or not.
GetsIndexBlind(i) == Ahead(i) = 1

\* A slip: the first index that is empty, from the start of the array.
GetsIndexFirst(i) == rxbufstat[i] = "empty" /\ \A j \in Indices : rxbufstat[j] = "empty" => i <= j

\* ecx_getindex gives out i: the next index that is empty, or just the next one
\* when none is.
GetsIndex(i) ==
  IF \E j \in Indices : rxbufstat[j] = "empty"
  THEN /\ rxbufstat[i] = "empty"
       /\ \A j \in Indices : rxbufstat[j] = "empty" => Ahead(i) <= Ahead(j)
  ELSE Ahead(i) = 1

\* hal_ethernet_send: a frame goes out and comes back, or gets lost.
Transmit(frame, lossy) ==
  \/ wire' = Append(wire, frame)
  \/ lossy /\ wire' = wire

\* ecx_outframe: a frame goes out with index i.
OutFrame(i, frame, lossy) ==
  /\ rxbufstat' = [rxbufstat EXCEPT ![i] = "tx"]
  /\ lastidx' = i
  /\ Transmit(frame, lossy)
  /\ UNCHANGED <<rxbuf, held>>

\* ecx_setbufstat(EC_BUF_EMPTY).
Release(i) == rxbufstat' = [rxbufstat EXCEPT ![i] = "empty"]

\* hal_ethernet_recv gives a frame: the next one, or, in a build that returns
\* its last packet size when there is none, the frame before.
Recv(frame, again) ==
  \/ wire # <<>> /\ frame = Head(wire) /\ wire' = Tail(wire)
     /\ held' = IF again THEN frame ELSE NoFrame
  \/ again /\ held # NoFrame /\ frame = held /\ UNCHANGED <<wire, held>>

\* The frames that Recv can give.
Receivable == {held} \cup {wire[n] : n \in 1..Len(wire)}

\* A slip: a frame that another index waits for is dropped.
KeepForOtherDrops(frame) == UNCHANGED <<rxbuf, rxbufstat>>

\* A frame with another index than the one that is waited for is kept for whom
\* it may concern.  Nobody waits for it: "strange things happened".
KeepForOther(frame) ==
  IF rxbufstat[frame.idx] = "tx"
  THEN /\ rxbuf' = [rxbuf EXCEPT ![frame.idx] = frame]
       /\ rxbufstat' = [rxbufstat EXCEPT ![frame.idx] = "rcvd"]
  ELSE UNCHANGED <<rxbuf, rxbufstat>>

\* One call of ecx_inframe for index i, in the loop of ecx_waitinframe, does one
\* of the next three.  The frame was kept when another was waited for: it is
\* rxbuf[i].  A released buffer is not read before it is written, and its
\* content is left out.
FindKept(i) ==
  /\ rxbufstat[i] = "rcvd" /\ Release(i)
  /\ rxbuf' = [rxbuf EXCEPT ![i] = NoFrame]
  /\ UNCHANGED <<lastidx, wire, held>>

\* It is read from the network.
ReadOwn(i, frame, again) ==
  /\ rxbufstat[i] # "rcvd" /\ Recv(frame, again)
  /\ frame.idx = i /\ Release(i)
  /\ UNCHANGED <<rxbuf, lastidx>>

\* Another one is read, and the loop goes round again.
ReadOther(i, frame, again) ==
  /\ rxbufstat[i] # "rcvd" /\ Recv(frame, again)
  /\ frame.idx # i /\ KeepForOther(frame)
  /\ UNCHANGED lastidx

\* The timer of ecx_waitinframe may run out for index i: its frame is lost, or
\* frames may be late.
TimeIsUp(i, late) ==
  /\ rxbufstat[i] # "rcvd"
  /\ late \/ \A n \in 1..Len(wire) : wire[n].idx # i
=============================================================================
