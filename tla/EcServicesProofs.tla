-------------------------- MODULE EcServicesProofs --------------------------
(***************************************************************************)
(* Proofs about the mailbox services, for any contents, any buffers, any    *)
(* sizes of messages, any range of the mailbox counter and any number of    *)
(* lost answers and emergencies, and a slave that is never slower than the  *)
(* timeouts and does not stop: a call does what ObjectAccess promises.  The *)
(* error list, which the services fill, needs no such slave.                *)
(*                                                                         *)
(* The invariant follows the conversation of the call in progress: which    *)
(* request was composed, whether the slave has taken it, which answers are  *)
(* on their way (the sequence e) and what the slave keeps for the next one. *)
(* The mailboxes, with their repetitions, are only a stream that carries e. *)
(***************************************************************************)
EXTENDS EcServices, SequenceTheorems, TLAPS

-----------------------------------------------------------------------------
(* The messages in flight.  A message that is lost on its way to the master *)
(* is still in the mailbox's buffer, and comes before the others.           *)

Units == UNION {Range(c) : c \in Contents}

\* What the slave posts.
Messages ==
  Reports
  \cup [kind : {"upload_response", "download_response"}, size : Nat, data : Seq(Units)]
  \cup [kind : {"upload_segment_response", "SoE_data"}, data : Seq(Units), last : BOOLEAN]
  \cup [kind : {"download_segment_response", "abort", "busy", "FoE_error", "SoE_ack", "SoE_error"}]
  \cup [kind : {"data"}, packet : Nat, data : Seq(Units)]
  \cup [kind : {"ack"}, packet : Nat]

\* The master asks for the last message again, or is about to.
Lost == pc = "toggle" \/ (pc = "ack" /\ repeat # ack)

Single(m) == IF m = Nothing THEN <<>> ELSE <<m>>
Stream == (IF Lost THEN Single(last) ELSE <<>>) \o Single(out) \o queue

\* The stream s holds the answers e, in their order, among reports.
Carries(s, e) ==
  /\ \A i \in 1..Len(e) : e[i] \notin Reports
  /\ \E f \in [1..Len(e) -> 1..Len(s)] :
       /\ \A i, j \in 1..Len(e) : i < j => f[i] < f[j]
       /\ \A i \in 1..Len(e) : s[f[i]] = e[i]
       /\ \A k \in 1..Len(s) : s[k] \in Reports \/ \E i \in 1..Len(e) : f[i] = k

-----------------------------------------------------------------------------
(* The conversation of the call c with a slave whose session is s and whose *)
(* content is st: the answers e that are under way, before the slave has    *)
(* taken the request that was composed last, and after (t).                 *)

Session(kind, data, at, size, toggle, packet) ==
  [kind |-> kind, data |-> data, at |-> at, size |-> size, toggle |-> toggle, packet |-> packet]

\* The service refuses, or the mailbox does.
Declines(s, e, kind) == Refusable /\ e = <<[kind |-> kind]>> /\ s = Refusal
Rejected(s, e) == Refusable /\ e = <<>> /\ s = Refusal

FirstUpload(c, s, st, e, t) ==
  /\ c.op = ReadSDO /\ c.step = "request" /\ c.got = <<>> /\ ~c.toggle
  /\ ~t => e = <<>>
  /\ t => \/ Declines(s, e, "abort") \/ Rejected(s, e)
          \/ LET data == FirstUnits(st, UnitsFirst)
             IN  /\ e = <<[kind |-> "upload_response", size |-> Len(st), data |-> data]>>
                 /\ s = IF Len(data) = Len(st) THEN NoSession
                        ELSE Session("upload", st, Len(data), 0, FALSE, 0)

NextUpload(c, s, st, e, t) ==
  /\ c.op = ReadSDO /\ c.step = "segment"
  /\ Len(c.got) < Len(st) /\ c.got = SubSeq(st, 1, Len(c.got)) /\ Len(st) <= c.room
  /\ ~t => e = <<>> /\ s = Session("upload", st, Len(c.got), 0, c.toggle, 0)
  /\ t => \/ Declines(s, e, "abort")
          \/ LET data == UnitsFrom(st, Len(c.got))
                 last_ == Len(c.got) + Len(data) = Len(st)
             IN  /\ e = <<[kind |-> "upload_segment_response", data |-> data, last |-> last_]>>
                 /\ s = IF last_ THEN NoSession
                        ELSE Session("upload", st, Len(c.got) + Len(data), 0, ~c.toggle, 0)

\* What a download has brought with the first n units.
Downloaded(c, s, st, n, toggle) ==
  IF n = Len(c.data) THEN st = c.data /\ s = NoSession
  ELSE s = Session("download", SubSeq(c.data, 1, n), 0, Len(c.data), toggle, 0)

FirstDownload(c, s, st, e, t) ==
  /\ c.op = WriteSDO /\ c.step = "request" /\ c.from = 0 /\ ~c.toggle
  /\ c.more = (c.sent # Len(c.data))
  /\ ~t => e = <<>>
  /\ t => \/ Declines(s, e, "abort") \/ Rejected(s, e)
          \/ /\ e = <<[kind |-> "download_response", size |-> 0, data |-> <<>>]>>
             /\ Downloaded(c, s, st, c.sent, FALSE)

NextDownload(c, s, st, e, t) ==
  /\ c.op = WriteSDO /\ c.step = "segment"
  /\ c.from < c.sent /\ c.more = (c.sent # Len(c.data))
  /\ ~t => e = <<>> /\ s = Session("download", SubSeq(c.data, 1, c.from), 0, Len(c.data), c.toggle, 0)
  /\ t => \/ Declines(s, e, "abort")
          \/ /\ e = <<[kind |-> "download_segment_response"]>>
             /\ Downloaded(c, s, st, c.sent, ~c.toggle)

\* The packet from which the file st goes on after n units.
SendsPacket(s, st, e, n, packet) ==
  LET data == UnitsFrom(st, n)
  IN  /\ e = <<[kind |-> "data", packet |-> packet, data |-> data]>>
      /\ s = Session(IF Len(data) = UnitsMore THEN "FoE_read" ELSE "FoE_read_last",
                     st, n + Len(data), 0, FALSE, packet)

FirstPacket(c, s, st, e, t) ==
  /\ c.op = ReadFile /\ c.step = "request" /\ c.got = <<>> /\ c.packet = 0
  /\ ~t => e = <<>>
  /\ t => \/ Declines(s, e, "FoE_error") \/ Rejected(s, e)
          \/ SendsPacket(s, st, e, 0, 1)

LaterPacket(c, s, st, e, t) ==
  /\ c.op = ReadFile /\ c.step = "ack"
  /\ Len(c.got) <= Len(st) /\ c.got = SubSeq(st, 1, Len(c.got)) /\ Len(c.got) <= c.room
  /\ ~c.more => c.got = st
  /\ ~t => /\ e = <<>>
           /\ s = Session(IF c.more THEN "FoE_read" ELSE "FoE_read_last", st, Len(c.got), 0, FALSE, c.packet)
  /\ t => IF c.more
          THEN Declines(s, e, "FoE_error") \/ SendsPacket(s, st, e, Len(c.got), c.packet + 1)
          ELSE e = <<>> /\ s = NoSession

SaysBusy(s, e) == CanBeBusy /\ e = <<[kind |-> "busy"]>> /\ s.kind = "busy"

WriteRequest(c, s, st, e, t) ==
  /\ c.op = WriteFile /\ c.step = "request" /\ c.packet = 0 /\ c.sent = 0 /\ ~c.zero
  /\ ~t => e = <<>>
  /\ t => \/ Declines(s, e, "FoE_error") \/ Rejected(s, e) \/ SaysBusy(s, e)
          \/ e = <<[kind |-> "ack", packet |-> 0]>> /\ s = Session("FoE_write", <<>>, 0, 0, FALSE, 0)

WritePacket(c, s, st, e, t) ==
  /\ c.op = WriteFile /\ c.step = "data" /\ c.packet > 0
  /\ c.sent = Min2(c.from + UnitsMore, Len(c.data))
  /\ c.zero = (c.sent = Len(c.data) /\ c.sent - c.from = UnitsMore)
  /\ ~t => /\ e = <<>>
           /\ s = Session("FoE_write", SubSeq(c.data, 1, c.from), 0, 0, FALSE, c.packet - 1)
  /\ t => \/ Declines(s, e, "FoE_error") \/ SaysBusy(s, e)
          \/ /\ e = <<[kind |-> "ack", packet |-> c.packet]>>
             /\ IF c.sent - c.from < UnitsMore THEN st = c.data /\ s = NoSession
                ELSE s = Session("FoE_write", SubSeq(c.data, 1, c.sent), 0, 0, FALSE, c.packet)

\* The fragments of st from the j-th on, and what was read of the ones before.
FragmentsFrom(st, j) == SubSeq(Fragments(st), j + 1, Len(Fragments(st)))
ReadSoFar(c, st, j) == SubSeq(st, 1, Min2(c.room, Min2(j * UnitsMore, Len(st))))

FragmentsRead(c, s, st, e, t) ==
  /\ c.op = ReadSoE /\ c.step = "request" /\ ~c.more
  /\ ~t => e = <<>> /\ c.got = <<>>
  /\ t => \/ Declines(s, e, "SoE_error") /\ c.got = <<>>
          \/ Rejected(s, e) /\ c.got = <<>>
          \/ \E j \in 0..(Len(Fragments(st)) - 1) :
               /\ e = FragmentsFrom(st, j)
               /\ c.got = ReadSoFar(c, st, j) /\ s = NoSession

\* The slave refuses at the first of the fragments, and passes over the rest.
RefusesRest(s, e) ==
  Refusable /\ e = <<[kind |-> "SoE_error"]>> /\ s = [NoSession EXCEPT !.kind = "SoE_ignoring"]

FragmentsWritten(c, s, st, e, t) ==
  /\ c.op = WriteSoE /\ c.step = "segment"
  /\ c.from < c.sent /\ c.more = (c.sent # Len(c.data))
  /\ ~t => \/ e = <<>> /\ IF c.from = 0 THEN s.kind # "SoE_write"
                          ELSE s = Session("SoE_write", SubSeq(c.data, 1, c.from), 0, 0, FALSE, 0)
           \/ RefusesRest(s, e) /\ c.from # 0
  /\ t => \/ c.more /\ e = <<>> /\ s = Session("SoE_write", SubSeq(c.data, 1, c.sent), 0, 0, FALSE, 0)
          \/ ~c.more /\ e = <<[kind |-> "SoE_ack"]>> /\ st = c.data /\ s = NoSession
          \/ ~c.more /\ Declines(s, e, "SoE_error")
          \/ ~c.more /\ Rejected(s, e)
          \/ c.more /\ RefusesRest(s, e)

Conversation(c, s, st, e, t) ==
  \/ FirstUpload(c, s, st, e, t) \/ NextUpload(c, s, st, e, t)
  \/ FirstDownload(c, s, st, e, t) \/ NextDownload(c, s, st, e, t)
  \/ FirstPacket(c, s, st, e, t) \/ LaterPacket(c, s, st, e, t)
  \/ WriteRequest(c, s, st, e, t) \/ WritePacket(c, s, st, e, t)
  \/ FragmentsRead(c, s, st, e, t) \/ FragmentsWritten(c, s, st, e, t)

-----------------------------------------------------------------------------
(* The invariant                                                           *)

Waiting == {"poll", "read", "toggle", "ack", "avail"}
Draining == call # Nothing /\ call.step = "drain"
Talking == call # Nothing /\ call.step # "drain"
First == call.step = "request" \/ (call.op = WriteSoE /\ call.from = 0)

\* The slave has a request that it has not seen.
Fresh == inbox # Nothing /\ inbox.cnt # seen
Taken == pc # "send" /\ seen = mbx_cnt

\* No request of the call in progress has been written.
Early == pc = "idle" \/ Draining \/ (pc = "send" /\ First)

Ops == {ReadSDO, WriteSDO, ReadFile, WriteFile, ReadSoE, WriteSoE}
CallType ==
  [op : Ops, data : Seq(Units), room : Nat, step : Steps, got : Seq(Units), more : BOOLEAN,
   from : Nat, sent : Nat, toggle : BOOLEAN, packet : Nat, zero : BOOLEAN]
SessionType ==
  [kind : {"none", "upload", "download", "FoE_read", "FoE_read_last", "FoE_write", "busy",
           "SoE_write", "SoE_ignoring", "refused"},
   data : Seq(Units), at : Nat, size : Nat, toggle : BOOLEAN, packet : Nat]

Types ==
  /\ pc \in {"idle", "send", "send_again", "empty"} \cup Waiting
  /\ {expired, repeat, ack} \subseteq BOOLEAN
  /\ mbx_cnt \in 0..MaxCnt /\ seen \in 0..MaxCnt /\ mishaps \in 0..MaxMishaps
  /\ out \in Messages \cup {Nothing} /\ last \in Messages \cup {Nothing} /\ queue \in Seq(Messages)
  /\ call = Nothing \/ call \in CallType
  /\ result = Nothing \/ (result.outcome \in Outcomes /\ "outcome" \in DOMAIN result)
  /\ store \in Contents /\ session \in SessionType

\* What is the call's own.
Calling ==
  /\ (call = Nothing) = (pc = "idle")
  /\ call # Nothing =>
       /\ result = Nothing
       /\ call.from <= call.sent /\ call.sent <= Len(call.data)
       /\ IF IsWrite(call.op) THEN call.data \in Contents /\ call.room = 0
          ELSE call.data = <<>> /\ call.room \in Rooms
  /\ Draining => call = NewCall(call.op, call.data, call.room)
  /\ pc = "empty" => call.op = WriteSoE /\ call.more /\ Talking
  /\ pc \in Waiting /\ Talking => ~(call.op = WriteSoE /\ call.more) /\ ~(call.step = "ack" /\ ~call.more)

\* The counters tell a request from its repetition.
Counting ==
  /\ inbox # Nothing => inbox.cnt \in 0..MaxCnt
  /\ pc = "send" => IF inbox = Nothing THEN seen # mbx_cnt ELSE inbox.cnt # mbx_cnt
  /\ pc # "send" => IF inbox = Nothing THEN seen = mbx_cnt ELSE inbox.cnt = mbx_cnt

\* What is in the IN mailbox: the request, or one of the call before that is
\* not answered.
Leftover ==
  \/ inbox.kind = "ack" /\ session.kind = "FoE_read_last"
  \/ inbox.kind = WriteSoE /\ inbox.last /\ session.kind = "SoE_ignoring"
Requested ==
  /\ Early => /\ Fresh => Leftover
              /\ session.kind = "SoE_ignoring" => Fresh
              /\ session.kind # "SoE_write"
  /\ ~Early /\ pc = "send" => ~Fresh
  /\ ~Early /\ pc # "send" /\ inbox # Nothing => inbox = Request
  /\ ~Early /\ pc # "send" /\ First /\ Fresh => session.kind # "SoE_ignoring"

\* A repetition that is outstanding while the master goes on is one of a report.
Repetition ==
  /\ repeat # ack /\ pc # "ack" => {last, out} \subseteq Reports \cup {Nothing}
  /\ pc = "read" /\ out = Nothing => last \in Reports \cup {Nothing}

\* The timer runs out before the first request, and when the slave's mailbox
\* has refused.
Expiry(e) ==
  /\ Draining => expired
  /\ expired => pc \in Waiting /\ (Draining \/ (Taken /\ e = <<>>))

Talk(e) == IF Talking THEN Conversation(call, session, store, e, Taken) ELSE e = <<>>

\* Whose turn it is, and what is in the mailboxes.
Turns(e) == Calling /\ Counting /\ Requested /\ Talk(e)
Flow(e) == Repetition /\ Expiry(e) /\ Carries(Stream, e)

IInv == Types /\ \E e \in Seq(Messages) : Turns(e) /\ Flow(e)

\* The slave has not stopped, and does not stop in this step.
Up == stopped = FALSE /\ stopped' = FALSE

\* What a step is shown to do: it keeps the invariant and, while the slave is up,
\* the promise.
Becomes(d) == Types' /\ Turns(d)' /\ Flow(d)'
Advances ==
  /\ \E d \in Seq(Messages) : Becomes(d)
  /\ Up => [Object!Next]_(Object!vars)

-----------------------------------------------------------------------------
(* Constants, numbers and sequences                                        *)

\* What the code takes for granted: a slave in time that does not stop, and no
\* message, call or result that is taken for the lack of one.
Setting ==
  /\ Timely /\ "stop" \notin Mishaps
  /\ {"kind", "op", "outcome", "write"} \cap DOMAIN Nothing = {}

\* The minimum of the community modules, by cases.
LEMMA MinOfTwo ==
  ASSUME NEW a \in Int, NEW b \in Int
  PROVE  Min2(a, b) = IF a <= b THEN a ELSE b
<1> DEFINE m == IF a <= b THEN a ELSE b
<1>1. m \in {a, b} /\ \A y \in {a, b} : m <= y
  OBVIOUS
<1>2. \A x \in {a, b} : (\A y \in {a, b} : x <= y) => x = m
  OBVIOUS
<1> QED
  BY <1>1, <1>2 DEF Min2, Min

\* What a slave can hold is not empty.
LEMMA ContentsAreSequences ==
  \A c \in Contents : c \in Seq(Units) /\ Len(c) \in Nat \ {0}
<1> TAKE c \in Contents
<1>1. c \in Seq(Range(c)) /\ Len(c) > 0
  BY ServicesAssumption DEF ServicesAssumption
<1>2. Range(c) \subseteq Units
  BY DEF Units
<1>3. Len(c) \in Nat /\ \A i \in 1..Len(c) : c[i] \in Units
  BY <1>1, <1>2
<1>4. c = [i \in 1..Len(c) |-> c[i]]
  BY <1>1
<1> QED
  BY <1>1, <1>3, <1>4

\* Two sequences of the same length with the same elements are the same.
LEMMA SameSequence ==
  ASSUME NEW S, NEW s \in Seq(S), NEW t \in Seq(S), Len(s) = Len(t),
         \A i \in 1..Len(s) : s[i] = t[i]
  PROVE  s = t
OBVIOUS

\* Two parts of a sequence, one after the other.
LEMMA PartsJoin ==
  ASSUME NEW S, NEW s \in Seq(S), NEW a \in Nat, NEW b \in Nat, a <= b, b <= Len(s)
  PROVE  /\ SubSeq(s, 1, a) \in Seq(S) /\ Len(SubSeq(s, 1, a)) = a
         /\ SubSeq(s, a + 1, b) \in Seq(S) /\ Len(SubSeq(s, a + 1, b)) = b - a
         /\ SubSeq(s, 1, a) \o SubSeq(s, a + 1, b) = SubSeq(s, 1, b)
<1> DEFINE p == SubSeq(s, 1, a)
           q == SubSeq(s, a + 1, b)
           r == SubSeq(s, 1, b)
<1>1. p \in Seq(S) /\ Len(p) = a /\ \A i \in 1..a : p[i] = s[i]
  OBVIOUS
<1>2. q \in Seq(S) /\ Len(q) = b - a /\ \A i \in 1..(b - a) : q[i] = s[a + i]
  OBVIOUS
<1>3. r \in Seq(S) /\ Len(r) = b /\ \A i \in 1..b : r[i] = s[i]
  OBVIOUS
<1> HIDE DEF p, q, r
<1>4. /\ p \o q \in Seq(S) /\ Len(p \o q) = b
      /\ \A i \in 1..b : (p \o q)[i] = IF i <= a THEN p[i] ELSE q[i - a]
  <2>1. p \in Seq(S) /\ q \in Seq(S) /\ Len(p) + Len(q) = b /\ Len(p) = a
    BY <1>1, <1>2
  <2> HIDE <1>1, <1>2
  <2> QED
    BY <2>1, ConcatProperties
<1>5. \A i \in 1..b : (p \o q)[i] = r[i]
  <2> TAKE i \in 1..b
  <2>1. CASE i <= a
    <3>1. i \in 1..a
      BY <2>1
    <3> QED
      BY <3>1, <2>1, <1>1, <1>3, <1>4
  <2>2. CASE ~(i <= a)
    <3>1. i - a \in 1..(b - a) /\ a + (i - a) = i
      BY <2>2
    <3>2. (p \o q)[i] = q[i - a]
      BY <2>2, <1>4
    <3> QED
      BY <3>1, <3>2, <1>2, <1>3
  <2> QED
    BY <2>1, <2>2
<1>6. p \o q = r
  BY <1>3, <1>4, <1>5, SameSequence
<1> QED
  BY <1>1, <1>2, <1>6 DEF p, q, r

\* A sequence is the front of itself.
LEMMA WholeSequence ==
  ASSUME NEW S, NEW s \in Seq(S)
  PROVE  SubSeq(s, 1, Len(s)) = s
<1>1. SubSeq(s, 1, Len(s)) \in Seq(S) /\ Len(SubSeq(s, 1, Len(s))) = Len(s)
  BY PartsJoin
<1>2. \A i \in 1..Len(s) : SubSeq(s, 1, Len(s))[i] = s[i]
  OBVIOUS
<1> QED
  BY <1>1, <1>2, SameSequence

LEMMA NothingIsNoMessage == Setting => Nothing \notin Messages
<1> SUFFICES ASSUME Setting, NEW m \in Messages
             PROVE  m # Nothing
    OBVIOUS
<1>1. CASE m \in Reports
  <2> QED
    BY <1>1 DEF Setting, Reports
<1>2. CASE m \notin Reports
  <2>1. "kind" \in DOMAIN m
    BY <1>2 DEF Messages
  <2> QED
    BY <2>1 DEF Setting
<1> QED
  BY <1>1, <1>2

LEMMA NothingIsNoCall == Setting => Nothing \notin CallType
<1> SUFFICES ASSUME Setting, NEW m \in CallType
             PROVE  m # Nothing
    OBVIOUS
<1>1. "op" \in DOMAIN m
  BY DEF CallType
<1> QED
  BY <1>1 DEF Setting

-----------------------------------------------------------------------------
(* What happens to the answers in a stream when it grows or shrinks         *)

\* A report leaves the stream in front, and the answers stay.
LEMMA StreamAfterReport ==
  ASSUME NEW s \in Seq(Messages), NEW e \in Seq(Messages), Carries(s, e),
         s # <<>>, Head(s) \in Reports
  PROVE  Carries(Tail(s), e)
<1> DEFINE t == Tail(s)
<1>1. PICK f \in [1..Len(e) -> 1..Len(s)] :
        /\ \A i, j \in 1..Len(e) : i < j => f[i] < f[j]
        /\ \A i \in 1..Len(e) : s[f[i]] = e[i]
        /\ \A k \in 1..Len(s) : s[k] \in Reports \/ \E i \in 1..Len(e) : f[i] = k
  BY DEF Carries
<1>2. /\ Len(s) \in Nat \ {0} /\ Len(t) = Len(s) - 1 /\ s[1] \in Reports
      /\ \A k \in 1..Len(t) : t[k] = s[k + 1]
  OBVIOUS
<1>3. \A i \in 1..Len(e) : e[i] \notin Reports
  BY DEF Carries
<1> HIDE DEF t
<1> DEFINE g == [i \in 1..Len(e) |-> f[i] - 1]
<1>4. \A i \in 1..Len(e) : f[i] \in 2..Len(s)
  BY <1>1, <1>2, <1>3
<1>5. g \in [1..Len(e) -> 1..Len(t)]
  BY <1>2, <1>4
<1>6. \A i, j \in 1..Len(e) : i < j => g[i] < g[j]
  BY <1>1, <1>4
<1>7. \A i \in 1..Len(e) : t[g[i]] = e[i]
  BY <1>1, <1>2, <1>4
<1>8. \A k \in 1..Len(t) : t[k] \in Reports \/ \E i \in 1..Len(e) : g[i] = k
  <2> SUFFICES ASSUME NEW k \in 1..Len(t), t[k] \notin Reports
               PROVE  \E i \in 1..Len(e) : g[i] = k
      OBVIOUS
  <2>1. k + 1 \in 1..Len(s) /\ s[k + 1] \notin Reports
    BY <1>2
  <2>2. PICK i \in 1..Len(e) : f[i] = k + 1
    BY <2>1, <1>1
  <2> QED
    BY <2>2, <1>2
<1> QED
  BY <1>3, <1>5, <1>6, <1>7, <1>8 DEF Carries, t

\* An answer that leaves the stream in front is the first of the answers.
LEMMA StreamAfterAnswer ==
  ASSUME NEW s \in Seq(Messages), NEW e \in Seq(Messages), Carries(s, e),
         s # <<>>, Head(s) \notin Reports
  PROVE  e # <<>> /\ Head(e) = Head(s) /\ Carries(Tail(s), Tail(e))
<1> DEFINE t == Tail(s)
           d == Tail(e)
<1>1. PICK f \in [1..Len(e) -> 1..Len(s)] :
        /\ \A i, j \in 1..Len(e) : i < j => f[i] < f[j]
        /\ \A i \in 1..Len(e) : s[f[i]] = e[i]
        /\ \A k \in 1..Len(s) : s[k] \in Reports \/ \E i \in 1..Len(e) : f[i] = k
  BY DEF Carries
<1>2. /\ Len(s) \in Nat \ {0} /\ Len(t) = Len(s) - 1 /\ s[1] \notin Reports
      /\ \A k \in 1..Len(t) : t[k] = s[k + 1]
  OBVIOUS
<1>3. \A i \in 1..Len(e) : e[i] \notin Reports
  BY DEF Carries
<1>4. PICK n \in 1..Len(e) : f[n] = 1
  BY <1>1, <1>2
<1>5. Len(e) \in Nat
  OBVIOUS
<1>6. n = 1
  <2>1. 1 \in 1..Len(e) /\ f[1] \in 1..Len(s)
    BY <1>1, <1>4, <1>5
  <2>2. ~(1 < n)
    BY <1>1, <1>2, <1>4, <2>1
  <2> QED
    BY <2>2, <1>4, <1>5
<1>7. /\ e # <<>> /\ Len(d) = Len(e) - 1 /\ e[1] = s[1]
      /\ \A k \in 1..Len(d) : d[k] = e[k + 1]
  <2>1. e # <<>>
    BY <1>4
  <2>2. Len(d) = Len(e) - 1 /\ \A k \in 1..Len(d) : d[k] = e[k + 1]
    BY <2>1
  <2> QED
    BY <2>1, <2>2, <1>1, <1>4, <1>6
<1>8. Head(e) = Head(s)
  BY <1>7
<1> HIDE DEF t, d
<1> DEFINE g == [i \in 1..Len(d) |-> f[i + 1] - 1]
<1>9. \A i \in 2..Len(e) : f[i] \in 2..Len(s)
  <2> TAKE i \in 2..Len(e)
  <2>1. 1 \in 1..Len(e) /\ i \in 1..Len(e) /\ 1 < i /\ f[1] = 1
    BY <1>4, <1>5, <1>6
  <2>2. f[1] < f[i] /\ f[i] \in 1..Len(s)
    BY <2>1, <1>1
  <2> QED
    BY <2>1, <2>2, <1>2
<1>10. \A i \in 1..Len(d) : i + 1 \in 2..Len(e)
  BY <1>7, <1>5
<1>11. g \in [1..Len(d) -> 1..Len(t)]
  BY <1>2, <1>9, <1>10
<1>12. \A i, j \in 1..Len(d) : i < j => g[i] < g[j]
  <2> SUFFICES ASSUME NEW i \in 1..Len(d), NEW j \in 1..Len(d), i < j
               PROVE  g[i] < g[j]
      OBVIOUS
  <2>1. i + 1 \in 1..Len(e) /\ j + 1 \in 1..Len(e) /\ i + 1 < j + 1
    BY <1>10, <1>5
  <2>2. f[i + 1] < f[j + 1]
    BY <2>1, <1>1
  <2> QED
    BY <2>2, <1>9, <1>10
<1>13. \A i \in 1..Len(d) : t[g[i]] = d[i]
  <2> TAKE i \in 1..Len(d)
  <2>1. g[i] \in 1..Len(t) /\ g[i] + 1 = f[i + 1]
    BY <1>9, <1>10, <1>11, <1>2
  <2>2. i + 1 \in 1..Len(e)
    BY <1>10, <1>5
  <2>3. t[g[i]] = s[f[i + 1]]
    BY <2>1, <1>2
  <2> QED
    BY <2>2, <2>3, <1>1, <1>7
<1>14. \A k \in 1..Len(t) : t[k] \in Reports \/ \E i \in 1..Len(d) : g[i] = k
  <2> SUFFICES ASSUME NEW k \in 1..Len(t), t[k] \notin Reports
               PROVE  \E i \in 1..Len(d) : g[i] = k
      OBVIOUS
  <2>1. k + 1 \in 1..Len(s) /\ s[k + 1] \notin Reports
    BY <1>2
  <2>2. PICK i \in 1..Len(e) : f[i] = k + 1
    BY <2>1, <1>1
  <2>3. i # 1
    BY <2>2, <1>4, <1>6, <1>2
  <2>4. i - 1 \in 1..Len(d) /\ (i - 1) + 1 = i
    BY <2>3, <1>5, <1>7
  <2>5. g[i - 1] = k
    BY <2>2, <2>4, <1>2
  <2> QED
    BY <2>4, <2>5
<1>15. \A i \in 1..Len(d) : d[i] \notin Reports
  BY <1>3, <1>5, <1>7
<1>16. Carries(t, d)
  BY <1>15, <1>11, <1>12, <1>13, <1>14 DEF Carries
<1> QED
  BY <1>7, <1>8, <1>16 DEF t, d

\* A report goes in front.
LEMMA StreamBeforeReport ==
  ASSUME NEW s \in Seq(Messages), NEW e \in Seq(Messages), Carries(s, e), NEW m \in Reports
  PROVE  Carries(<<m>> \o s, e)
<1> DEFINE t == <<m>> \o s
<1>1. PICK f \in [1..Len(e) -> 1..Len(s)] :
        /\ \A i, j \in 1..Len(e) : i < j => f[i] < f[j]
        /\ \A i \in 1..Len(e) : s[f[i]] = e[i]
        /\ \A k \in 1..Len(s) : s[k] \in Reports \/ \E i \in 1..Len(e) : f[i] = k
  BY DEF Carries
<1>2. m \in Messages
  BY DEF Messages
<1>3. /\ Len(s) \in Nat /\ Len(t) = Len(s) + 1 /\ t[1] = m
      /\ \A k \in 2..Len(t) : t[k] = s[k - 1]
  <2>1. <<m>> \in Seq(Messages) /\ Len(<<m>>) = 1 /\ <<m>>[1] = m
    BY <1>2
  <2> QED
    BY <2>1, ConcatProperties
<1>4. \A i \in 1..Len(e) : e[i] \notin Reports
  BY DEF Carries
<1> HIDE DEF t
<1> DEFINE g == [i \in 1..Len(e) |-> f[i] + 1]
<1>5. g \in [1..Len(e) -> 1..Len(t)]
  BY <1>1, <1>3
<1>6. \A i, j \in 1..Len(e) : i < j => g[i] < g[j]
  <2> SUFFICES ASSUME NEW i \in 1..Len(e), NEW j \in 1..Len(e), i < j
               PROVE  g[i] < g[j]
      OBVIOUS
  <2>1. f[i] < f[j] /\ f[i] \in 1..Len(s) /\ f[j] \in 1..Len(s)
    BY <1>1
  <2> QED
    BY <2>1, <1>3
<1>7. \A i \in 1..Len(e) : t[g[i]] = e[i]
  BY <1>1, <1>3, SMTT(20)
<1>8. \A k \in 1..Len(t) : t[k] \in Reports \/ \E i \in 1..Len(e) : g[i] = k
  <2> SUFFICES ASSUME NEW k \in 1..Len(t), t[k] \notin Reports
               PROVE  \E i \in 1..Len(e) : g[i] = k
      OBVIOUS
  <2>1. k \in 2..Len(t) /\ k - 1 \in 1..Len(s) /\ s[k - 1] \notin Reports
    BY <1>3
  <2>2. PICK i \in 1..Len(e) : f[i] = k - 1
    BY <2>1, <1>1
  <2> QED
    BY <2>1, <2>2
<1> QED
  BY <1>4, <1>5, <1>6, <1>7, <1>8 DEF Carries, t

\* Places behind the first l.
LEMMA PastFirst ==
  \A l, m \in Nat : \A n \in 1..m : l + n \in 1..(l + m) /\ ~(l + n <= l) /\ l + n - l = n
OBVIOUS

\* What follows s in s \o a.
LEMMA SecondPart ==
  ASSUME NEW s \in Seq(Messages), NEW a \in Seq(Messages)
  PROVE  \A n \in 1..Len(a) : (s \o a)[Len(s) + n] = a[n]
<1>1. \A k \in 1..(Len(s) + Len(a)) : (s \o a)[k] = IF k <= Len(s) THEN s[k] ELSE a[k - Len(s)]
  BY ConcatProperties
<1> TAKE n \in 1..Len(a)
<1>2. Len(s) \in Nat /\ Len(a) \in Nat
  OBVIOUS
<1> DEFINE k == Len(s) + n
<1>3. k \in 1..(Len(s) + Len(a)) /\ ~(k <= Len(s)) /\ k - Len(s) = n
  <2>1. /\ Len(s) + n \in 1..(Len(s) + Len(a)) /\ ~(Len(s) + n <= Len(s))
        /\ Len(s) + n - Len(s) = n
    BY <1>2, PastFirst
  <2> QED
    BY <2>1
<1> HIDE DEF k
<1>4. (s \o a)[k] = a[k - Len(s)]
  BY <1>1, <1>3, Zenon
<1> QED
  BY <1>3, <1>4, Zenon DEF k

\* Answers are posted.
LEMMA StreamWithAnswers ==
  ASSUME NEW s \in Seq(Messages), NEW e \in Seq(Messages), Carries(s, e),
         NEW a \in Seq(Messages), \A i \in 1..Len(a) : a[i] \notin Reports
  PROVE  Carries(s \o a, e \o a)
<1> DEFINE t == s \o a
           d == e \o a
<1>1. PICK f \in [1..Len(e) -> 1..Len(s)] :
        /\ \A i, j \in 1..Len(e) : i < j => f[i] < f[j]
        /\ \A i \in 1..Len(e) : s[f[i]] = e[i]
        /\ \A k \in 1..Len(s) : s[k] \in Reports \/ \E i \in 1..Len(e) : f[i] = k
  BY DEF Carries
<1>2. /\ Len(t) = Len(s) + Len(a)
      /\ \A k \in 1..(Len(s) + Len(a)) : t[k] = IF k <= Len(s) THEN s[k] ELSE a[k - Len(s)]
  BY ConcatProperties
<1>3. /\ Len(d) = Len(e) + Len(a)
      /\ \A k \in 1..(Len(e) + Len(a)) : d[k] = IF k <= Len(e) THEN e[k] ELSE a[k - Len(e)]
  BY ConcatProperties
<1>3a. \A n \in 1..Len(a) : t[Len(s) + n] = a[n]
  BY SecondPart, Zenon
<1>4. Len(s) \in Nat /\ Len(e) \in Nat /\ Len(a) \in Nat
  OBVIOUS
<1>5. \A i \in 1..Len(e) : e[i] \notin Reports
  BY DEF Carries
<1> HIDE DEF t, d
<1> DEFINE g == [i \in 1..Len(d) |-> IF i <= Len(e) THEN f[i] ELSE Len(s) + i - Len(e)]
<1>6. \A i \in 1..Len(d) : \/ i \in 1..Len(e) /\ g[i] = f[i] /\ d[i] = e[i] /\ f[i] \in 1..Len(s)
                           \/ /\ i > Len(e) /\ g[i] = Len(s) + i - Len(e)
                              /\ i - Len(e) \in 1..Len(a) /\ d[i] = a[i - Len(e)]
  BY <1>1, <1>3, <1>4
<1>7. g \in [1..Len(d) -> 1..Len(t)]
  BY <1>2, <1>3, <1>4, <1>1
<1>8. \A i, j \in 1..Len(d) : i < j => g[i] < g[j]
  BY <1>1, <1>4, <1>6
<1>9. \A i \in 1..Len(d) : t[g[i]] = d[i]
  <2> TAKE i \in 1..Len(d)
  <2>1. CASE i \in 1..Len(e) /\ g[i] = f[i] /\ d[i] = e[i] /\ f[i] \in 1..Len(s)
    BY <2>1, <1>1, <1>2, <1>4
  <2>2. CASE /\ i > Len(e) /\ g[i] = Len(s) + i - Len(e)
             /\ i - Len(e) \in 1..Len(a) /\ d[i] = a[i - Len(e)]
    <3>1. PICK n \in Nat : n = i - Len(e) /\ n \in 1..Len(a)
      BY <2>2, <1>4
    <3>2. g[i] = Len(s) + n /\ d[i] = a[n]
      BY <2>2, <3>1, <1>4
    <3>3. t[Len(s) + n] = a[n]
      BY <1>3a, <3>1, Zenon
    <3> QED
      BY <3>2, <3>3, Zenon
  <2> QED
    BY <2>1, <2>2, <1>6
<1>10. \A k \in 1..Len(t) : t[k] \in Reports \/ \E i \in 1..Len(d) : g[i] = k
  <2> SUFFICES ASSUME NEW k \in 1..Len(t), t[k] \notin Reports
               PROVE  \E i \in 1..Len(d) : g[i] = k
      OBVIOUS
  <2>1. CASE k <= Len(s)
    <3>1. k \in 1..Len(s) /\ s[k] \notin Reports
      BY <2>1, <1>2, <1>4
    <3>2. PICK i \in 1..Len(e) : f[i] = k
      BY <3>1, <1>1
    <3>3. i \in 1..Len(d) /\ i <= Len(e)
      BY <1>3, <1>4
    <3> QED
      BY <3>2, <3>3
  <2>2. CASE k > Len(s)
    <3>1. Len(e) + k - Len(s) \in 1..Len(d) /\ ~(Len(e) + k - Len(s) <= Len(e))
      BY <2>2, <1>2, <1>3, <1>4
    <3>2. g[Len(e) + k - Len(s)] = k
      BY <3>1, <2>2, <1>4
    <3> QED
      BY <3>1, <3>2
  <2> QED
    BY <2>1, <2>2, <1>2, <1>4
<1>11. \A i \in 1..Len(d) : d[i] \notin Reports
  BY <1>5, <1>6
<1> QED
  BY <1>7, <1>8, <1>9, <1>10, <1>11 DEF Carries, t, d

\* A report is posted.
LEMMA StreamWithReport ==
  ASSUME NEW s \in Seq(Messages), NEW e \in Seq(Messages), Carries(s, e), NEW m \in Reports
  PROVE  Carries(Append(s, m), e)
<1> DEFINE t == Append(s, m)
<1>1. PICK f \in [1..Len(e) -> 1..Len(s)] :
        /\ \A i, j \in 1..Len(e) : i < j => f[i] < f[j]
        /\ \A i \in 1..Len(e) : s[f[i]] = e[i]
        /\ \A k \in 1..Len(s) : s[k] \in Reports \/ \E i \in 1..Len(e) : f[i] = k
  BY DEF Carries
<1>2. m \in Messages
  BY DEF Messages
<1>3. /\ Len(s) \in Nat /\ Len(t) = Len(s) + 1 /\ t[Len(s) + 1] = m
      /\ \A k \in 1..Len(s) : t[k] = s[k]
  BY <1>2, AppendProperties
<1>4. \A i \in 1..Len(e) : e[i] \notin Reports
  BY DEF Carries
<1> HIDE DEF t
<1>5. f \in [1..Len(e) -> 1..Len(t)]
  BY <1>1, <1>3
<1>6. \A i \in 1..Len(e) : t[f[i]] = e[i]
  BY <1>1, <1>3
<1>7. \A k \in 1..Len(t) : t[k] \in Reports \/ \E i \in 1..Len(e) : f[i] = k
  BY <1>1, <1>3
<1> QED
  BY <1>1, <1>4, <1>5, <1>6, <1>7 DEF Carries, t

\* Without answers under way there are only reports in the stream.
LEMMA StreamOfReports ==
  ASSUME NEW s \in Seq(Messages)
  PROVE  Carries(s, <<>>) <=> \A k \in 1..Len(s) : s[k] \in Reports
<1>1. Len(<<>>) = 0 /\ 1..0 = {}
  OBVIOUS
<1>2. [i \in {} |-> 1] \in [{} -> 1..Len(s)]
  OBVIOUS
<1> QED
  BY <1>1, <1>2 DEF Carries

\* An empty stream carries no answers.
LEMMA EmptyStream ==
  ASSUME NEW e \in Seq(Messages), Carries(<<>>, e)
  PROVE  e = <<>>
<1>1. PICK f \in [1..Len(e) -> 1..0] : TRUE
  BY DEF Carries
<1>2. Len(e) \in Nat
  OBVIOUS
<1>3. 1 \notin 1..Len(e)
  BY <1>1
<1> QED
  BY <1>2, <1>3

-----------------------------------------------------------------------------
(* Steps of the mailboxes, between which the call does not go on            *)

\* The request is the same as long as the call and its counter are.
LEMMA SameRequest ==
  ASSUME UNCHANGED <<call, mbx_cnt>>
  PROVE  Request' = Request
BY DEF Request, SDORequest, SoERequest, FoERequest, IsSDO, IsSoE, Chunk

\* A step between two polls, reads or repetitions leaves the call where it is.
LEMMA TurnsKept ==
  ASSUME NEW e, Turns(e), UNCHANGED <<mbx_cnt, call, result, session, store, inbox, seen>>,
         pc' = pc \/ {pc, pc'} \subseteq Waiting
  PROVE  Turns(e)' /\ Draining' = Draining /\ Taken' = Taken
<1>1. /\ (pc' = "send") = (pc = "send") /\ (pc' = "idle") = (pc = "idle")
      /\ (pc' = "empty") = (pc = "empty") /\ (pc' \in Waiting) = (pc \in Waiting)
  BY DEF Waiting
<1>2. Request' = Request
  BY SameRequest
<1>3. /\ Draining' = Draining /\ Talking' = Talking /\ First' = First /\ Fresh' = Fresh
      /\ Taken' = Taken /\ Leftover' = Leftover
  BY <1>1 DEF Draining, Talking, First, Fresh, Taken, Leftover
<1>4. Early' = Early
  BY <1>1, <1>3 DEF Early
<1>5. Talk(e)'
  BY <1>3 DEF Turns, Talk
<1>6. Calling'
  BY <1>1, <1>3 DEF Turns, Calling
<1>7. Counting'
  BY <1>1, <1>3 DEF Turns, Counting
<1>8. Requested'
  BY <1>1, <1>2, <1>3, <1>4 DEF Turns, Requested
<1> QED
  BY <1>3, <1>5, <1>6, <1>7, <1>8 DEF Turns

\* The parts of the stream are sequences of messages.
LEMMA StreamType ==
  ASSUME Types, Setting
  PROVE  /\ Single(last) \in Seq(Messages) /\ Single(out) \in Seq(Messages)
         /\ queue \in Seq(Messages)
         /\ Single(out) \o queue \in Seq(Messages)
         /\ Stream \in Seq(Messages)
         /\ Stream = IF Lost THEN Single(last) \o (Single(out) \o queue)
                     ELSE Single(out) \o queue
<1>1. /\ Single(last) \in Seq(Messages) /\ Single(out) \in Seq(Messages)
      /\ queue \in Seq(Messages) /\ <<>> \in Seq(Messages)
  BY DEF Types, Single
<1>2. Single(out) \o queue \in Seq(Messages)
  BY <1>1, ConcatProperties
<1>3. \A a, b, c \in Seq(Messages) : (a \o b) \o c = a \o (b \o c) /\ <<>> \o a = a /\ a \o b \in Seq(Messages)
  BY ConcatAssociative, ConcatEmptySeq, ConcatProperties, SMTT(20)
<1>4. Stream = IF Lost THEN Single(last) \o (Single(out) \o queue) ELSE Single(out) \o queue
  <2>1. CASE Lost
    BY <2>1, <1>1, <1>3, SMTT(20) DEF Stream
  <2>2. CASE ~Lost
    BY <2>2, <1>1, <1>3 DEF Stream
  <2> QED
    BY <2>1, <2>2
<1>5. Stream \in Seq(Messages)
  BY <1>1, <1>2, <1>3, <1>4
<1> QED
  BY <1>1, <1>2, <1>4, <1>5

\* The stream in the next state.
LEMMA StreamNext ==
  ASSUME Types', Setting
  PROVE  Stream' = IF Lost' THEN Single(last') \o (Single(out') \o queue')
                   ELSE Single(out') \o queue'
<1>1. (Types => Stream = IF Lost THEN Single(last) \o (Single(out) \o queue)
                         ELSE Single(out) \o queue)'
  BY StreamType, PTL
<1> QED
  BY <1>1 DEF Single

\* A message in front of others.
LEMMA FrontOfStream ==
  ASSUME NEW m \in Messages, NEW s \in Seq(Messages)
  PROVE  /\ <<m>> \o s \in Seq(Messages) /\ <<m>> \o s # <<>>
         /\ Head(<<m>> \o s) = m /\ Tail(<<m>> \o s) = s
<1> DEFINE t == <<m>> \o s
<1>1. <<m>> \in Seq(Messages) /\ Len(<<m>>) = 1 /\ <<m>>[1] = m
  OBVIOUS
<1>2. /\ t \in Seq(Messages) /\ Len(t) = 1 + Len(s)
      /\ \A i \in 1..(1 + Len(s)) : t[i] = IF i <= 1 THEN <<m>>[i] ELSE s[i - 1]
  BY <1>1, ConcatProperties
<1>3. Len(s) \in Nat
  OBVIOUS
<1> HIDE DEF t
<1>4. t # <<>> /\ Head(t) = m
  BY <1>1, <1>2, <1>3
<1>5. /\ Tail(t) \in Seq(Messages) /\ Len(Tail(t)) = Len(s)
      /\ \A i \in 1..Len(s) : Tail(t)[i] = t[i + 1]
  BY <1>2, <1>3, <1>4
<1>6. \A i \in 1..Len(s) : Tail(t)[i] = s[i]
  BY <1>2, <1>3, <1>5
<1>7. Tail(t) = s
  BY <1>5, <1>6, SameSequence
<1> QED
  BY <1>2, <1>4, <1>7 DEF t

\* A report at the end of the queue is at the end of the stream.
LEMMA EndOfStream ==
  ASSUME NEW s \in Seq(Messages), NEW q \in Seq(Messages), NEW m \in Messages
  PROVE  s \o Append(q, m) = Append(s \o q, m)
<1>1. <<m>> \in Seq(Messages) /\ s \o q \in Seq(Messages)
  BY ConcatProperties
<1>2. Append(q, m) = q \o <<m>> /\ Append(s \o q, m) = (s \o q) \o <<m>>
  BY <1>1, AppendIsConcat
<1> QED
  BY <1>1, <1>2, ConcatAssociative

\* A report in front of the answers can be left out.
LEMMA ReportInFront ==
  ASSUME NEW m \in Reports, NEW s \in Seq(Messages), NEW e \in Seq(Messages),
         Carries(<<m>> \o s, e)
  PROVE  Carries(s, e)
<1> DEFINE t == <<m>> \o s
<1>1. m \in Messages
  BY DEF Messages
<1>2. t \in Seq(Messages) /\ t # <<>> /\ Head(t) = m /\ Tail(t) = s
  BY <1>1, FrontOfStream
<1>3. Carries(t, e)
  OBVIOUS
<1> HIDE DEF t
<1>4. Carries(Tail(t), e)
  BY <1>2, <1>3, StreamAfterReport
<1> QED
  BY <1>2, <1>4

\* While no answer is under way there are only reports.
LEMMA OnlyReports ==
  ASSUME NEW m \in Messages, NEW s \in Seq(Messages), Carries(<<m>> \o s, <<>>)
  PROVE  m \in Reports /\ Carries(s, <<>>)
<1>1. <<>> \in Seq(Messages)
  OBVIOUS
<1>2. m \in Reports
  BY <1>1, FrontOfStream, StreamAfterAnswer
<1>3. Carries(s, <<>>)
  BY <1>1, <1>2, ReportInFront
<1> QED
  BY <1>2, <1>3

\* The timer has not run out while there is an answer under way.
LEMMA NoAnswerWhenExpired ==
  ASSUME NEW e, Turns(e), Flow(e), expired
  PROVE  e = <<>> /\ pc \in Waiting
<1>1. Draining => ~Talking
  BY DEF Draining, Talking
<1> QED
  BY <1>1 DEF Turns, Flow, Expiry, Talk

\* SM1STAT shows a message.
LEMMA PollFullKept ==
  ASSUME Setting, Types, NEW e \in Seq(Messages), Turns(e), Flow(e),
         PollFull, UNCHANGED slave
  PROVE  Types' /\ Turns(e)' /\ Flow(e)'
<1> USE DEF PollFull, Goto, mailboxes, slave
<1>1. Types'
  BY DEF Types, Waiting
<1>2. Turns(e)' /\ Draining' = Draining /\ Taken' = Taken
  BY TurnsKept DEF Waiting
<1>3. Stream' = Stream
  BY DEF Stream, Lost, Single
<1>4. Flow(e)'
  BY <1>2, <1>3 DEF Flow, Repetition, Expiry, Carries, Waiting
<1> QED
  BY <1>1, <1>2, <1>4

\* The answer to the read of the mailbox is lost: the message is to be repeated.
LEMMA ReadUnansweredKept ==
  ASSUME Setting, Types, NEW e \in Seq(Messages), Turns(e), Flow(e),
         ReadUnanswered, UNCHANGED slave
  PROVE  Types' /\ Turns(e)' /\ Flow(e)'
<1> USE DEF ReadUnanswered, Goto, Happens, slave
<1>1. Types'
  BY MailboxAssumption DEF Types, Waiting, MailboxAssumption
<1>2. Turns(e)' /\ Draining' = Draining /\ Taken' = Taken
  BY TurnsKept DEF Waiting
<1>3. Stream' = Stream
  <2>1. Stream = Single(out) \o queue /\ Single(out) \o queue \in Seq(Messages)
    BY StreamType DEF Lost
  <2>2. Stream' = Single(out) \o (<<>> \o queue)
    <3>1. Lost' /\ Single(last)' = Single(out) /\ Single(out)' = <<>> /\ queue' = queue
      BY DEF Lost, Single
    <3>2. (Types => Stream = IF Lost THEN Single(last) \o (Single(out) \o queue)
                             ELSE Single(out) \o queue)'
      BY StreamType, PTL
    <3> QED
      BY <3>1, <3>2, <1>1
  <2>3. <<>> \o queue = queue
    BY ConcatEmptySeq DEF Types
  <2> QED
    BY <2>1, <2>2, <2>3
<1>4. Carries(Stream, e)'
  BY <1>3 DEF Flow, Carries
<1>5. Flow(e)'
  BY <1>2, <1>4 DEF Flow, Repetition, Expiry, Waiting
<1> QED
  BY <1>1, <1>2, <1>5

\* An empty mailbox is read: a repetition is asked for, and only of a report.
LEMMA ReadEmptyKept ==
  ASSUME Setting, Types, NEW e \in Seq(Messages), Turns(e), Flow(e),
         ReadEmpty, UNCHANGED slave
  PROVE  Types' /\ Turns(e)' /\ Flow(e)'
<1> USE DEF ReadEmpty, Goto, mailboxes, slave
<1>1. Types'
  BY DEF Types, Waiting
<1>2. Turns(e)' /\ Draining' = Draining /\ Taken' = Taken
  BY TurnsKept DEF Waiting
<1>3. last \in Reports \cup {Nothing}
  BY DEF Flow, Repetition
<1>4. Stream \in Seq(Messages) /\ Stream' = Single(last) \o Stream
  <2>1. Stream = Single(out) \o queue /\ Stream \in Seq(Messages)
    BY StreamType DEF Lost
  <2>2. (Types => Stream = IF Lost THEN Single(last) \o (Single(out) \o queue)
                           ELSE Single(out) \o queue)'
    BY StreamType, PTL
  <2>3. Lost' /\ Single(last)' = Single(last) /\ Single(out)' = Single(out) /\ queue' = queue
    BY DEF Lost, Single
  <2> QED
    BY <2>1, <2>2, <2>3, <1>1
<1>5. Carries(Stream', e)
  <2>1. CASE last = Nothing
    <3>1. Stream' = Stream
      BY <2>1, <1>4, ConcatEmptySeq DEF Single
    <3> QED
      BY <3>1 DEF Flow
  <2>2. CASE last # Nothing
    BY <2>2, <1>3, <1>4, StreamBeforeReport DEF Single, Flow
  <2> QED
    BY <2>1, <2>2
<1>6. Flow(e)'
  BY <1>2, <1>3, <1>5 DEF Flow, Repetition, Expiry, Waiting, Carries
<1> QED
  BY <1>1, <1>2, <1>6

\* The repetition is asked for.
LEMMA ToggleKept ==
  ASSUME Setting, Types, NEW e \in Seq(Messages), Turns(e), Flow(e),
         Toggle, UNCHANGED slave
  PROVE  Types' /\ Turns(e)' /\ Flow(e)'
<1> USE DEF Toggle, Goto, slave
<1>1. Types'
  BY DEF Types, Waiting
<1>2. Turns(e)' /\ Draining' = Draining /\ Taken' = Taken
  BY TurnsKept DEF Waiting
<1>3. Stream = Single(last) \o (Single(out) \o queue)
  BY StreamType DEF Lost
<1>4. Carries(Stream', e)
  <2>1. (Types => Stream = IF Lost THEN Single(last) \o (Single(out) \o queue)
                           ELSE Single(out) \o queue)'
    BY StreamType, PTL
  <2>2. Single(last)' = Single(last) /\ Single(out)' = Single(out) /\ queue' = queue
    BY DEF Single
  <2>3. CASE repeat = ack
    <3>1. Lost'
      BY <2>3 DEF Lost, Types
    <3> QED
      BY <3>1, <2>1, <2>2, <1>1, <1>3 DEF Flow
  <2>4. CASE repeat # ack
    <3>1. ~Lost'
      BY <2>4 DEF Lost, Types
    <3>2. Stream' = Single(out) \o queue /\ Single(out) \o queue \in Seq(Messages)
      BY <3>1, <2>1, <2>2, <1>1, StreamType
    <3>3. last \in Reports \cup {Nothing}
      BY <2>4 DEF Flow, Repetition
    <3>4. CASE last = Nothing
      <4>1. Stream = Single(out) \o queue
        BY <3>4, <1>3, <3>2, ConcatEmptySeq DEF Single
      <4> QED
        BY <4>1, <3>2 DEF Flow
    <3>5. CASE last # Nothing
      <4>1. last \in Messages /\ Stream = <<last>> \o (Single(out) \o queue)
        BY <3>5, <1>3 DEF Single, Types
      <4> QED
        BY <4>1, <3>2, <3>3, <3>5, ReportInFront DEF Flow
    <3> QED
      BY <3>4, <3>5
  <2> QED
    BY <2>3, <2>4
<1>5. Flow(e)'
  BY <1>2, <1>4 DEF Flow, Repetition, Expiry, Waiting, Carries
<1> QED
  BY <1>1, <1>2, <1>5

\* The slave has acknowledged it.
LEMMA AckSeenKept ==
  ASSUME Setting, Types, NEW e \in Seq(Messages), Turns(e), Flow(e),
         AckSeen, UNCHANGED slave
  PROVE  Types' /\ Turns(e)' /\ Flow(e)'
<1> USE DEF AckSeen, Goto, mailboxes, slave
<1>1. Types'
  BY DEF Types, Waiting
<1>2. Turns(e)' /\ Draining' = Draining /\ Taken' = Taken
  BY TurnsKept DEF Waiting
<1>3. Expiry(e)'
  BY <1>2 DEF Flow, Expiry, Waiting
<1>4. Stream' = Single(out) \o queue /\ Single(out) \o queue \in Seq(Messages)
  <2>1. (Types => Stream = IF Lost THEN Single(last) \o (Single(out) \o queue)
                           ELSE Single(out) \o queue)'
    BY StreamType, PTL
  <2>2. ~Lost' /\ Single(out)' = Single(out) /\ queue' = queue
    BY DEF Lost, Single
  <2> QED
    BY <2>1, <2>2, <1>1, StreamType
<1>5. CASE repeat = ack
  <2>1. Stream = Single(out) \o queue
    BY <1>5, StreamType DEF Lost
  <2>2. Carries(Stream', e)
    BY <2>1, <1>4 DEF Flow
  <2> QED
    BY <1>1, <1>2, <1>3, <1>5, <2>2 DEF Flow, Repetition, Carries
<1>6. CASE repeat # ack
  <2>1. e = <<>>
    BY <1>6, NoAnswerWhenExpired
  <2>2. Stream = Single(last) \o (Single(out) \o queue)
    BY <1>6, StreamType DEF Lost
  <2>3. last \in Reports \cup {Nothing} /\ Carries(Single(out) \o queue, <<>>)
    <3>1. CASE last = Nothing
      BY <3>1, <2>1, <2>2, <1>4, ConcatEmptySeq DEF Single, Flow
    <3>2. CASE last # Nothing
      BY <3>2, <2>1, <2>2, <1>4, OnlyReports DEF Single, Flow, Types
    <3> QED
      BY <3>1, <3>2
  <2>4. out \in Reports \cup {Nothing}
    <3>1. CASE out # Nothing
      BY <3>1, <2>3, OnlyReports DEF Single, Types
    <3> QED
      BY <3>1
  <2>5. Carries(Stream', e)
    BY <1>4, <2>1, <2>3
  <2> QED
    BY <1>1, <1>2, <1>3, <2>3, <2>4, <2>5 DEF Flow, Repetition, Carries
<1> QED
  BY <1>5, <1>6

\* The mailbox is read again.
LEMMA ReadsAgainKept ==
  ASSUME Setting, Types, NEW e \in Seq(Messages), Turns(e), Flow(e),
         Available, ReadsAgain, UNCHANGED slave
  PROVE  Types' /\ Turns(e)' /\ Flow(e)'
<1> USE DEF Available, ReadsAgain, Goto, mailboxes, slave
<1>1. Types'
  BY DEF Types, Waiting
<1>2. Turns(e)' /\ Draining' = Draining /\ Taken' = Taken
  BY TurnsKept DEF Waiting
<1>3. Stream' = Stream
  BY DEF Stream, Lost, Single
<1>4. Flow(e)'
  BY <1>2, <1>3 DEF Flow, Repetition, Expiry, Carries, Waiting
<1> QED
  BY <1>1, <1>2, <1>4

\* The timer runs out: with the slave at rest nothing is under way.
LEMMA ExpireKept ==
  ASSUME Setting, stopped = FALSE, Types, NEW e \in Seq(Messages), Turns(e), Flow(e),
         Expire, UNCHANGED slave
  PROVE  Types' /\ Turns(e)' /\ Flow(e)'
<1> USE DEF Expire, SlaveAtRest, mailboxes, slave, Setting
<1>1. Types'
  BY DEF Types
<1>2. Turns(e)' /\ Draining' = Draining /\ Taken' = Taken
  BY TurnsKept
<1>3. Stream' = Stream /\ Stream = <<>>
  BY StreamType DEF Stream, Lost, Single
<1>4. e = <<>>
  BY <1>3, EmptyStream DEF Flow
<1>5. Taken
  BY DEF Turns, Counting, Taken
<1>6. Carries(Stream, e)'
  BY <1>3 DEF Flow, Carries
<1>7. Flow(e)'
  BY <1>2, <1>4, <1>5, <1>6 DEF Flow, Repetition, Expiry, Waiting
<1> QED
  BY <1>1, <1>2, <1>7

\* The next message goes into the mailbox.
LEMMA PostKept ==
  ASSUME Setting, Types, NEW e \in Seq(Messages), Turns(e), Flow(e),
         Post, UNCHANGED slave
  PROVE  Types' /\ Turns(e)' /\ Flow(e)'
<1> USE DEF Post, master, slave
<1>1. queue \in Seq(Messages) /\ Head(queue) \in Messages /\ Tail(queue) \in Seq(Messages)
  BY HeadTailProperties DEF Types
<1>2. Types'
  BY <1>1 DEF Types
<1>3. Turns(e)' /\ Draining' = Draining /\ Taken' = Taken
  BY TurnsKept
<1>4. Single(out') = <<Head(queue)>> /\ Single(out) = <<>>
  BY <1>1, NothingIsNoMessage DEF Single
<1>5. <<Head(queue)>> \o Tail(queue) = queue /\ <<>> \o queue = queue
  <2>1. Len(<<Head(queue)>> \o Tail(queue)) = Len(queue)
    BY <1>1, ConcatProperties
  <2>2. \A i \in 1..Len(queue) : (<<Head(queue)>> \o Tail(queue))[i] = queue[i]
    BY <1>1, ConcatProperties
  <2>3. <<Head(queue)>> \o Tail(queue) \in Seq(Messages)
    BY <1>1, ConcatProperties
  <2> QED
    BY <2>1, <2>2, <2>3, <1>1, SameSequence, ConcatEmptySeq
<1>6. Stream' = Stream
  <2>1. Lost' = Lost /\ Single(last') = Single(last)
    BY DEF Lost
  <2>2. Single(out') \o queue' = Single(out) \o queue
    BY <1>4, <1>5
  <2>3. Stream = IF Lost THEN Single(last) \o (Single(out) \o queue)
                 ELSE Single(out) \o queue
    BY StreamType
  <2>4. Stream' = IF Lost' THEN Single(last') \o (Single(out') \o queue')
                  ELSE Single(out') \o queue'
    BY <1>2, StreamNext, Zenon
  <2> QED
    BY <2>1, <2>2, <2>3, <2>4, Zenon
<1>7. out' # Nothing
  <2>1. out' = Head(queue)
    BY Zenon
  <2> QED
    BY <1>1, <2>1, NothingIsNoMessage, Zenon
<1>8. Carries(Stream, e)'
  <2>1. Carries(Stream, e)
    BY Zenon DEF Flow
  <2> QED
    BY <1>6, <2>1
<1>9. Flow(e)'
  BY <1>3, <1>7, <1>8 DEF Flow, Repetition, Expiry
<1> QED
  BY <1>2, <1>3, <1>9

\* The message that was read last goes back into it, in front of the others.
LEMMA RepeatsKept ==
  ASSUME Setting, Types, NEW e \in Seq(Messages), Turns(e), Flow(e),
         Repeats, UNCHANGED slave
  PROVE  Types' /\ Turns(e)' /\ Flow(e)'
<1> USE DEF Repeats, master, slave
<1>1. last # Nothing => queue' = Single(out) \o queue /\ queue' \in Seq(Messages)
  <2>1. <<>> \o queue = queue
    BY ConcatEmptySeq DEF Types
  <2> QED
    BY <2>1, StreamType DEF Single
<1>2. Types'
  BY <1>1 DEF Types
<1>3. Turns(e)' /\ Draining' = Draining /\ Taken' = Taken
  BY TurnsKept
<1>4. Expiry(e)'
  BY <1>3 DEF Flow, Expiry
<1>5. repeat' = ack'
  OBVIOUS
<1>6. Lost' = (pc = "toggle")
  BY <1>5 DEF Lost
<1>7. CASE last = Nothing
  <2>1. Single(last) = <<>> /\ <<>> \o (Single(out) \o queue) = Single(out) \o queue
    BY <1>7, StreamType, ConcatEmptySeq DEF Single
  <2>2. Stream' = Stream
    <3>1. Stream = Single(out) \o queue
      BY <2>1, StreamType
    <3>2. last' = last /\ out' = out /\ queue' = queue
      BY <1>7
    <3>3. Stream' = Single(out) \o queue
      BY <1>2, <2>1, <3>2, StreamNext
    <3> QED
      BY <3>1, <3>3
  <2> QED
    BY <1>2, <1>3, <1>4, <1>5, <1>7, <2>2 DEF Flow, Repetition, Carries
<1>8. CASE last # Nothing
  <2>1. /\ Single(last) = <<last>> /\ Single(out') = <<last>> /\ Single(last') = <<last>>
        /\ queue' = Single(out) \o queue /\ last \in Messages
    BY <1>1, <1>8 DEF Single, Types
  <2> DEFINE rest == Single(out) \o queue
  <2>2. rest \in Seq(Messages) /\ <<last>> \o rest \in Seq(Messages)
    BY <2>1, StreamType, FrontOfStream
  <2>3. Carries(Stream', e)
    <3>1. CASE pc = "ack"
      <4>1. Stream' = <<last>> \o rest /\ Stream = <<last>> \o rest
        BY <3>1, <1>2, <1>6, <2>1, StreamType, StreamNext DEF Lost
      <4> QED
        BY <4>1 DEF Flow
    <3>2. CASE pc # "ack"
      <4>1. last \in Reports
        BY <3>2, <1>8 DEF Flow, Repetition
      <4>2. CASE pc = "toggle"
        <5>1. Stream' = <<last>> \o (<<last>> \o rest) /\ Stream = <<last>> \o rest
          BY <4>2, <1>2, <1>6, <2>1, StreamType, StreamNext DEF Lost
        <5> QED
          BY <5>1, <4>1, <2>2, StreamBeforeReport DEF Flow
      <4>3. CASE pc # "toggle"
        <5>1. Stream' = <<last>> \o rest /\ Stream = rest
          BY <4>3, <3>2, <1>2, <1>6, <2>1, StreamType, StreamNext DEF Lost
        <5> QED
          BY <5>1, <4>1, <2>2, StreamBeforeReport DEF Flow
      <4> QED
        BY <4>2, <4>3
    <3> QED
      BY <3>1, <3>2
  <2> QED
    BY <1>2, <1>3, <1>4, <1>5, <1>8, <2>3 DEF Flow, Repetition, Carries
<1> QED
  BY <1>7, <1>8

\* An emergency goes behind the answers.
LEMMA SendsReportKept ==
  ASSUME Setting, Types, NEW e \in Seq(Messages), Turns(e), Flow(e),
         SendsReport, UNCHANGED slave
  PROVE  Types' /\ Turns(e)' /\ Flow(e)'
<1> DEFINE m == [kind |-> "emergency"]
<1>1. m \in Reports /\ m \in Messages /\ queue' = Append(queue, m)
  BY DEF Messages, Reports, SendsReport
<1> HIDE DEF m
<1>2. queue' \in Seq(Messages)
  BY <1>1, AppendProperties DEF Types
<1>3. Types'
  BY <1>2, MailboxAssumption DEF Types, MailboxAssumption, SendsReport, Happens, master, slave
<1>4. Turns(e)' /\ Draining' = Draining /\ Taken' = Taken
  BY TurnsKept DEF SendsReport, Happens, master, slave
<1>5. Stream' = Append(Stream, m)
  <2>1. Lost' = Lost /\ last' = last /\ out' = out
    BY DEF Lost, SendsReport, master
  <2> DEFINE a == Single(last)
             b == Single(out)
  <2> a \in Seq(Messages) /\ b \in Seq(Messages) /\ queue \in Seq(Messages) /\ b \o queue \in Seq(Messages)
    BY StreamType
  <2> HIDE DEF a, b
  <2>2. b \o queue' = Append(b \o queue, m)
    BY <1>1, EndOfStream
  <2>3. a \o (b \o queue') = Append(a \o (b \o queue), m)
    BY <2>2, <1>1, EndOfStream, SMTT(20)
  <2> QED
    BY <2>1, <2>2, <2>3, <1>3, StreamType, StreamNext DEF a, b
<1>6. Carries(Stream', e)
  BY <1>1, <1>5, StreamType, StreamWithReport DEF Flow
<1>7. Flow(e)'
  BY <1>4, <1>6 DEF Flow, Repetition, Expiry, Carries, SendsReport, master
<1> QED
  BY <1>3, <1>4, <1>7

\* A request that comes twice is passed over.
LEMMA IgnoresRepetitionKept ==
  ASSUME Setting, Types, NEW e \in Seq(Messages), Turns(e), Flow(e),
         IgnoresRepetition, UNCHANGED slave
  PROVE  Types' /\ Turns(e)' /\ Flow(e)'
<1> USE DEF IgnoresRepetition, master, slave
<1>1. Types'
  BY DEF Types
<1>2. Stream' = Stream
  BY DEF Stream, Lost, Single
<1>3. /\ Draining' = Draining /\ Talking' = Talking /\ First' = First
      /\ ~Fresh /\ ~Fresh' /\ Taken' = Taken /\ Early' = Early
  BY DEF Draining, Talking, First, Fresh, Taken, Early
<1>4. Turns(e)'
  <2>1. Talk(e)'
    BY <1>3 DEF Turns, Talk
  <2>2. Calling'
    BY <1>3 DEF Turns, Calling
  <2>3. Counting'
    BY DEF Turns, Counting
  <2>4. Requested'
    BY <1>3 DEF Turns, Requested
  <2> QED
    BY <2>1, <2>2, <2>3, <2>4 DEF Turns
<1>5. Flow(e)'
  BY <1>2, <1>3 DEF Flow, Repetition, Expiry, Carries
<1> QED
  BY <1>1, <1>4, <1>5

\* An emergency or a mailbox error is read.
LEMMA ReportReadKept ==
  ASSUME Setting, Types, NEW e \in Seq(Messages), Turns(e), Flow(e),
         ReadMailbox, IsReport(out), Goto(IF expired THEN "avail" ELSE "read"), UNCHANGED slave
  PROVE  Types' /\ Turns(e)' /\ Flow(e)'
<1> USE DEF ReadMailbox, IsReport, Goto, slave
<1>1. Types'
  BY DEF Types, Waiting
<1>2. Turns(e)' /\ Draining' = Draining /\ Taken' = Taken
  BY TurnsKept DEF Waiting
<1>3. Carries(Stream', e)
  <2>1. Stream = <<out>> \o queue /\ queue \in Seq(Messages)
    <3>1. ~Lost /\ Single(out) = <<out>>
      BY DEF Lost, Single
    <3> QED
      BY <3>1, StreamType
  <2>2. Stream' = <<>> \o queue
    <3>1. ~Lost' /\ Single(out') = <<>>
      BY DEF Lost, Single
    <3> QED
      BY <3>1, <1>1, StreamNext
  <2>3. <<>> \o queue = queue
    BY <2>1, ConcatEmptySeq
  <2> QED
    BY <2>1, <2>2, <2>3, ReportInFront DEF Flow
<1>4. Flow(e)'
  BY <1>2, <1>3 DEF Flow, Repetition, Expiry, Waiting, Carries
<1> QED
  BY <1>1, <1>2, <1>4

-----------------------------------------------------------------------------
(* Requests                                                                *)

\* Where a call can be.
LEMMA ConversationSteps ==
  ASSUME NEW c, NEW s, NEW st, NEW e, NEW t, Conversation(c, s, st, e, t)
  PROVE  \/ c.op \in {ReadSDO, WriteSDO} /\ c.step \in {"request", "segment"}
         \/ c.op = ReadFile /\ c.step \in {"request", "ack"}
         \/ c.op = WriteFile /\ c.step \in {"request", "data"}
         \/ c.op = ReadSoE /\ c.step = "request"
         \/ c.op = WriteSoE /\ c.step = "segment"
BY DEF Conversation, FirstUpload, NextUpload, FirstDownload, NextDownload, FirstPacket,
       LaterPacket, WriteRequest, WritePacket, FragmentsRead, FragmentsWritten

\* A request has the counter of the call, and is a message.
LEMMA RequestForm ==
  ASSUME Setting, NEW s, NEW st, NEW e, NEW t, Conversation(call, s, st, e, t)
  PROVE  Request # Nothing /\ Request.cnt = mbx_cnt
<1> USE DEF ReadSDO, WriteSDO, ReadFile, WriteFile, ReadSoE, WriteSoE, Request, IsSDO, IsSoE
<1>1. CASE call.op \in {ReadSDO, WriteSDO} /\ call.step \in {"request", "segment"}
  <2>1. Request.cnt = mbx_cnt /\ "kind" \in DOMAIN Request
    BY <1>1 DEF SDORequest
  <2> QED
    BY <2>1 DEF Setting
<1>2. CASE \/ call.op = ReadFile /\ call.step \in {"request", "ack"}
           \/ call.op = WriteFile /\ call.step \in {"request", "data"}
  <2>1. Request.cnt = mbx_cnt /\ "kind" \in DOMAIN Request
    BY <1>2 DEF FoERequest
  <2> QED
    BY <2>1 DEF Setting
<1>3. CASE \/ call.op = ReadSoE /\ call.step = "request"
           \/ call.op = WriteSoE /\ call.step = "segment"
  <2>1. Request.cnt = mbx_cnt /\ "kind" \in DOMAIN Request
    BY <1>3 DEF SoERequest
  <2> QED
    BY <2>1 DEF Setting
<1> QED
  BY <1>1, <1>2, <1>3, ConversationSteps

\* A request is sent within a conversation, and before the timer runs out.
LEMMA SendingIsTalking ==
  ASSUME NEW e, Turns(e), Flow(e), pc \in {"send", "send_again", "empty"}
  PROVE  Talking /\ ~expired /\ Conversation(call, session, store, e, Taken)
<1>1. ~expired
  BY DEF Flow, Expiry, Waiting
<1>2. Talking
  BY <1>1 DEF Turns, Flow, Expiry, Calling, Draining, Talking
<1> QED
  BY <1>1, <1>2 DEF Turns, Talk

\* The answers are where they were when only the thread has gone on.
LEMMA FlowKept ==
  ASSUME NEW e, Flow(e), UNCHANGED <<out, queue, last, repeat, ack>>,
         pc \notin {"toggle", "ack"}, pc' \notin {"toggle", "ack", "read"},
         ~expired', ~Draining'
  PROVE  Flow(e)'
<1>1. Stream' = Stream
  BY DEF Stream, Lost, Single
<1> QED
  BY <1>1 DEF Flow, Repetition, Expiry, Carries

\* A request is in the IN mailbox, for the first or for the second time.
LEMMA RequestWritten ==
  ASSUME Setting, Types, NEW e \in Seq(Messages), Turns(e), Flow(e),
         pc \in {"send", "send_again"}, inbox = Nothing, inbox' = Request,
         pc' \in {"send_again", "poll", "empty"}, ~expired',
         pc' = "empty" => call.op = WriteSoE /\ call.more,
         pc' = "poll" => ~(call.op = WriteSoE /\ call.more) /\ ~(call.step = "ack" /\ ~call.more),
         mishaps' \in 0..MaxMishaps, expired' \in BOOLEAN,
         UNCHANGED <<mbx_cnt, call, result, out, queue, last, repeat, ack, seen, store, session>>
  PROVE  Types' /\ Turns(e)' /\ Flow(e)'
<1>1. Talking /\ ~expired /\ Conversation(call, session, store, e, Taken)
  BY SendingIsTalking
<1>2. Request # Nothing /\ Request.cnt = mbx_cnt /\ Request' = Request
  BY <1>1, RequestForm, SameRequest
<1>3. /\ Talking' = Talking /\ ~Draining /\ ~Draining' /\ First' = First /\ Taken' = Taken
      /\ ~Fresh /\ Fresh' = (pc = "send")
  <2>1. CASE pc = "send"
    BY <2>1, <1>1, <1>2 DEF Turns, Counting, Talking, Draining, First, Taken, Fresh
  <2>2. CASE pc = "send_again"
    BY <2>2, <1>1, <1>2 DEF Turns, Counting, Talking, Draining, First, Taken, Fresh
  <2> QED
    BY <2>1, <2>2
<1>4. Early = (pc = "send" /\ First) /\ ~Early'
  BY <1>1, <1>3 DEF Early
<1>5. Types'
  BY DEF Types, Waiting
<1>6. Talk(e)'
  BY <1>3 DEF Turns, Talk
<1>7. Calling'
  BY <1>3, <1>1 DEF Turns, Calling, Waiting
<1>8. Counting'
  BY <1>2 DEF Types, Turns, Counting
<1>9. Requested'
  BY <1>2, <1>3, <1>4 DEF Turns, Requested
<1>10. Flow(e)'
  BY <1>3, FlowKept
<1> QED
  BY <1>5, <1>6, <1>7, <1>8, <1>9, <1>10 DEF Turns

\* The answer to the write of a request is lost.
LEMMA WriteUnansweredKept ==
  ASSUME Setting, Types, NEW e \in Seq(Messages), Turns(e), Flow(e),
         WriteUnanswered(Request), UNCHANGED slave
  PROVE  Types' /\ Turns(e)' /\ Flow(e)'
<1>1. /\ pc = "send" /\ inbox = Nothing /\ inbox' = Request /\ pc' = "send_again"
      /\ UNCHANGED <<expired, mbx_cnt, call, result, out, queue, last, repeat, ack, seen,
                     store, session>>
      /\ mishaps' = mishaps + 1 /\ mishaps < MaxMishaps
  BY DEF WriteUnanswered, Goto, Happens, slave
<1>2. ~expired
  BY <1>1, SendingIsTalking
<1>3. mishaps' \in 0..MaxMishaps /\ expired' \in BOOLEAN
  BY <1>1, MailboxAssumption DEF Types, MailboxAssumption
<1> QED
  BY <1>1, <1>2, <1>3, RequestWritten

\* The write of the last acknowledge ends the call (FoESent).
LEMMA LastAckWritten ==
  ASSUME Setting, Types, NEW e \in Seq(Messages), Turns(e), Flow(e),
         pc \in {"send", "send_again"}, inbox = Nothing, inbox' = Request,
         call.op = ReadFile, call.step = "ack", ~call.more, Return("done", call.got),
         UNCHANGED <<out, queue, last, repeat, ack, seen, mishaps, store, session>>
  PROVE  Types' /\ Turns(e)' /\ Flow(e)'
<1>1. Talking /\ ~expired /\ Conversation(call, session, store, e, Taken)
  BY SendingIsTalking
<1>2. LaterPacket(call, session, store, e, Taken)
  BY <1>1 DEF Conversation, FirstUpload, NextUpload, FirstDownload, NextDownload, FirstPacket,
     WriteRequest, WritePacket, FragmentsRead, FragmentsWritten,
     ReadSDO, WriteSDO, ReadFile, WriteFile, ReadSoE, WriteSoE
<1>3. /\ e = <<>>
      /\ session.kind = IF Taken THEN "none" ELSE "FoE_read_last"
  BY <1>2 DEF LaterPacket, Session, NoSession
<1>4. Request # Nothing /\ Request.cnt = mbx_cnt /\ Request.kind = "ack"
  <2>1. Request.kind = "ack"
    BY DEF Request, FoERequest, IsSDO, IsSoE, ReadSDO, WriteSDO, ReadFile, ReadSoE, WriteSoE
  <2> QED
    BY <2>1, <1>1, RequestForm
<1>5. /\ pc' = "idle" /\ expired' = FALSE /\ call' = Nothing /\ mbx_cnt' = mbx_cnt
      /\ result' = [op |-> call.op, outcome |-> "done", got |-> call.got]
  BY DEF Return
<1>6. /\ ~Draining' /\ ~Talking' /\ Early'
  BY <1>5 DEF Draining, Talking, Early
<1>7. Fresh' => session.kind = "FoE_read_last"
  BY <1>3, <1>4, <1>5 DEF Fresh, Taken, Turns, Counting
<1>8. Types'
  BY <1>5 DEF Types, Waiting, Outcomes
<1>9. Requested'
  BY <1>3, <1>4, <1>6, <1>7 DEF Requested, Leftover
<1>10. Calling' /\ Talk(e)'
  BY <1>3, <1>5, <1>6 DEF Calling, Talk, Waiting
<1>12. Counting'
  BY <1>4, <1>5 DEF Types, Turns, Counting
<1>11. Flow(e)'
  BY <1>5, <1>6, FlowKept
<1> QED
  BY <1>8, <1>9, <1>10, <1>11, <1>12 DEF Turns

\* The write of a request that is answered keeps the invariant.
LEMMA SentKept ==
  ASSUME Setting, Types, NEW e \in Seq(Messages), Turns(e), Flow(e),
         pc \in {"send", "send_again"}, inbox = Nothing, inbox' = Request, Sent(TRUE),
         UNCHANGED <<out, queue, last, repeat, ack, seen, mishaps, store, session>>
  PROVE  Types' /\ Turns(e)' /\ Flow(e)'
<1>1. Talking /\ ~expired /\ Conversation(call, session, store, e, Taken)
  BY SendingIsTalking
<1> USE DEF ReadSDO, WriteSDO, ReadFile, WriteFile, ReadSoE, WriteSoE
<1>2. CASE IsSDO
  <2>1. Await /\ ~(call.op = WriteSoE /\ call.more) /\ call.step # "ack"
    BY <1>1, <1>2, ConversationSteps DEF Sent, SDOSent, IsSDO
  <2> QED
    BY <2>1, RequestWritten DEF Await, Types
<1>3. CASE IsSoE
  <2>1. CASE call.more
    <3>1. call.op = WriteSoE
      BY <1>1, <1>3, <2>1 DEF IsSoE, Conversation, FirstUpload, NextUpload, FirstDownload,
         NextDownload, FirstPacket, LaterPacket, WriteRequest, WritePacket, FragmentsRead,
         FragmentsWritten
    <3>2. pc' = "empty" /\ expired' = FALSE /\ UNCHANGED <<mbx_cnt, call, result>>
      BY <1>3, <2>1 DEF Sent, SoESent, IsSDO, IsSoE
    <3> QED
      BY <2>1, <3>1, <3>2, RequestWritten DEF Types
  <2>2. CASE ~call.more
    <3>1. Await /\ call.step # "ack"
      BY <1>1, <1>3, <2>2, ConversationSteps DEF Sent, SoESent, IsSDO, IsSoE
    <3> QED
      BY <2>2, <3>1, RequestWritten DEF Await, Types
  <2> QED
    BY <2>1, <2>2
<1>4. CASE ~IsSDO /\ ~IsSoE
  <2>1. CASE call.step = "ack" /\ ~call.more
    <3>1. call.op = ReadFile /\ Return("done", call.got)
      BY <1>1, <1>4, <2>1, ConversationSteps DEF Sent, FoESent, IsSDO, IsSoE
    <3> QED
      BY <2>1, <3>1, LastAckWritten
  <2>2. CASE ~(call.step = "ack" /\ ~call.more)
    <3>1. Await /\ call.op # WriteSoE
      BY <1>4, <2>2 DEF Sent, FoESent, IsSDO, IsSoE
    <3> QED
      BY <2>2, <3>1, RequestWritten DEF Await, Types
  <2> QED
    BY <2>1, <2>2
<1> QED
  BY <1>2, <1>3, <1>4

\* With a slave in time no request is given up.
LEMMA NeverUnsent ==
  ASSUME Setting, stopped = FALSE, NEW e, Turns(e), Flow(e)
  PROVE  /\ ~SendGivesUp
         /\ ~FragmentNotTaken
         /\ ~WriteAgain(Request, FALSE)
<1>1. pc \in {"send", "empty"} => ~expired
  BY SendingIsTalking
<1> QED
  BY <1>1 DEF SendGivesUp, FragmentNotTaken, WriteAgain, Setting

-----------------------------------------------------------------------------
(* The next request, and the return                                        *)

\* Two requests one after the other differ in their counters.
LEMMA NextCounter ==
  ASSUME Types
  PROVE  nextmbxcnt \in 0..MaxCnt /\ nextmbxcnt # mbx_cnt
BY MailboxAssumption DEF Types, nextmbxcnt, MailboxAssumption

\* The next request is composed after the answer to the one before, or as the
\* first of the call.
LEMMA RequestComposed ==
  ASSUME Setting, Types, NEW e, Turns(e), NEW d, NEW c \in CallType,
         pc # "send", Draining \/ Taken, call # Nothing, Compose(c),
         Conversation(c, session, store, d, FALSE),
         Draining <=> (c.step = "request" \/ (c.op = WriteSoE /\ c.from = 0)),
         c.op = call.op, c.data = call.data, c.room = call.room,
         c.from <= c.sent, c.sent <= Len(c.data),
         UNCHANGED <<inbox, seen, store, session>>
  PROVE  Turns(d)' /\ ~Draining' /\ Talking'
<1>1. /\ call' = c /\ mbx_cnt' = nextmbxcnt /\ pc' = "send" /\ expired' = FALSE
      /\ result' = result
  BY DEF Compose
<1>2. c # Nothing /\ c.step # "drain"
  <2>1. c # Nothing
    BY NothingIsNoCall
  <2> QED
    BY <2>1, ConversationSteps
<1>3. ~Draining' /\ Talking' /\ First' = Draining /\ Fresh' = Fresh /\ Early' = Draining /\ Taken' = FALSE
  BY <1>1, <1>2 DEF Draining, Talking, First, Fresh, Early, Taken
<1>4. Draining => Early
  BY DEF Early
<1>5. nextmbxcnt # mbx_cnt
  BY NextCounter
<1>6. Talk(d)'
  <2>1. Conversation(call', session', store', d, Taken')
    BY <1>1, <1>3
  <2> QED
    BY <2>1, <1>3 DEF Talk
<1>7. Calling'
  BY <1>1, <1>2, <1>3 DEF Turns, Calling, Waiting
<1>8. Counting'
  BY <1>1, <1>5 DEF Turns, Counting
<1>9. Requested'
  <2>1. CASE Draining
    BY <2>1, <1>1, <1>3, <1>4 DEF Turns, Requested, Leftover
  <2>2. CASE ~Draining
    <3>1. ~Fresh
      BY <2>2 DEF Turns, Counting, Fresh, Taken
    <3> QED
      BY <2>2, <3>1, <1>1, <1>3 DEF Requested
  <2> QED
    BY <2>1, <2>2
<1> QED
  BY <1>3, <1>6, <1>7, <1>8, <1>9 DEF Turns

\* After the return of a call nothing of it is expected any more.
LEMMA CallReturned ==
  ASSUME NEW e, Turns(e), pc # "send", Talking,
         NEW o \in Outcomes, NEW g, Return(o, g),
         session.kind # "SoE_write",
         Fresh => Leftover,
         session.kind = "SoE_ignoring" => Fresh,
         UNCHANGED <<inbox, seen, store, session>>
  PROVE  Turns(<<>>)' /\ ~Draining' /\ ~Talking'
<1>1. /\ pc' = "idle" /\ expired' = FALSE /\ call' = Nothing /\ mbx_cnt' = mbx_cnt
  BY DEF Return
<1>2. ~Draining' /\ ~Talking' /\ Early' /\ Fresh' = Fresh /\ Leftover' = Leftover
  BY <1>1 DEF Draining, Talking, Early, Fresh, Leftover
<1>3. Talk(<<>>)'
  BY <1>2 DEF Talk
<1>4. Calling'
  BY <1>1, <1>2 DEF Calling, Waiting
<1>5. Counting'
  BY <1>1 DEF Turns, Counting
<1>6. Requested'
  BY <1>2 DEF Requested
<1> QED
  BY <1>2, <1>3, <1>4, <1>5, <1>6 DEF Turns

\* The session after a refusal.
LEMMA KindOfRefusal == Refusal.kind = "refused"
BY DEF Refusal, NoSession

\* The call writes to a slave that waits for a packet to be sent again.
AtBusySlave == session.kind = "busy" /\ call.op = WriteFile

\* With these outcomes a return keeps the promise.
Promised(o, g) ==
  \/ /\ o = "done" /\ (AtBusySlave => CanBeBusy)
     /\ IF IsWrite(call.op) THEN (store = call.data \/ AtBusySlave) /\ g = <<>>
        ELSE /\ g = IF Len(store) <= call.room THEN store ELSE SubSeq(store, 1, call.room)
             /\ call.op = ReadSoE \/ Len(store) <= call.room
  \/ /\ o \in {"abort", "error", "no_answer"} /\ session.kind \in {"refused", "SoE_ignoring"}
     /\ Refusable /\ g = <<>>
  \/ o = "too_small" /\ call.op \in {ReadSDO, ReadFile} /\ Len(store) > call.room /\ g = <<>>

\* What was promised of the outcome makes the return a step of ObjectAccess.
LEMMA PromiseKept ==
  ASSUME Setting, Types, Calling, Talking, NEW o, NEW g, Return(o, g), Promised(o, g),
         UNCHANGED <<store, session>>
  PROVE  Up => Object!Next
<1> USE DEF ReadSDO, WriteSDO, ReadFile, WriteFile, ReadSoE, WriteSoE
<1> SUFFICES ASSUME Up PROVE Object!Next
  OBVIOUS
<1>1. /\ call # Nothing /\ call' = Nothing /\ result' = [op |-> call.op, outcome |-> o, got |-> g]
  BY DEF Return, Talking
<1>2. result' # Nothing
  <2>1. "outcome" \in DOMAIN result'
    BY <1>1
  <2> QED
    BY <2>1 DEF Setting
<1>3. /\ Asked = [write |-> IsWrite(call.op), data |-> call.data, room |-> call.room,
                  cuts |-> call.op = ReadSoE]
      /\ Asked' = Nothing
  BY <1>1 DEF Asked
<1>4. Asked # Nothing
  <2>1. "write" \in DOMAIN Asked
    BY <1>3
  <2> QED
    BY <2>1 DEF Setting
<1>5. PICK b \in BOOLEAN : b = LeftBusy'
  <2>1. LeftBusy' \in BOOLEAN
    BY DEF LeftBusy
  <2> QED
    BY <2>1
<1>6. b <=> AtBusySlave /\ o = "done"
  BY <1>1, <1>5, Zenon DEF LeftBusy, AtBusySlave
<1>7. Told' = [outcome |-> IF Refused' THEN "refused" ELSE o, busy |-> b, got |-> g]
  BY <1>1, <1>2, <1>5, Zenon DEF Told
<1>8. Refused' <=> (/\ session.kind \in {"refused", "SoE_ignoring"}
                    /\ o \in {"abort", "error", "no_answer"})
  BY <1>1 DEF Refused, Up
<1>9. CASE /\ o = "done" /\ (AtBusySlave => CanBeBusy)
           /\ IF IsWrite(call.op) THEN (store = call.data \/ AtBusySlave) /\ g = <<>>
              ELSE /\ g = IF Len(store) <= call.room THEN store ELSE SubSeq(store, 1, call.room)
                   /\ call.op = ReadSoE \/ Len(store) <= call.room
  <2>1. Told' = [outcome |-> "done", busy |-> b, got |-> g]
    BY <1>7, <1>8, <1>9
  <2>2. b => CanBeBusy /\ IsWrite(call.op)
    BY <1>6, <1>9 DEF IsWrite, AtBusySlave
  <2>3. IsWrite(call.op) => (store = call.data \/ b) /\ g = <<>>
    BY <1>6, <1>9
  <2>4. Object!Succeed
    BY <2>1, <2>2, <2>3, <1>3, <1>4, <1>9 DEF Object!Succeed, Object!Fitting
  <2> QED
    BY <2>4 DEF Object!Next
<1>10. CASE o # "done"
  <2>1. b = FALSE
    BY <1>6, <1>10, Zenon
  <2>2. CASE /\ o \in {"abort", "error", "no_answer"} /\ session.kind \in {"refused", "SoE_ignoring"}
             /\ Refusable /\ g = <<>>
    <3>1. Told' = [outcome |-> "refused", busy |-> FALSE, got |-> <<>>] /\ Refusable
      BY <2>1, <1>7, <1>8, <2>2
    <3>2. Object!Fail
      BY <3>1, <1>3, <1>4 DEF Object!Fail
    <3> QED
      BY <3>2 DEF Object!Next
  <2>3. CASE o = "too_small" /\ call.op \in {ReadSDO, ReadFile} /\ Len(store) > call.room /\ g = <<>>
    <3>1. Told' = [outcome |-> "too_small", busy |-> FALSE, got |-> <<>>]
      BY <2>1, <1>7, <1>8, <2>3
    <3>2. Object!Fail
      BY <3>1, <1>3, <1>4, <2>3 DEF Object!Fail, IsWrite
    <3> QED
      BY <3>2 DEF Object!Next
  <2> QED
    BY <1>10, <2>2, <2>3 DEF Promised
<1> QED
  BY <1>9, <1>10 DEF Promised

-----------------------------------------------------------------------------
(* The master reads an answer                                              *)

\* Without a change of the call, the result and the slave the promise stutters.
LEMMA SameObject ==
  ASSUME UNCHANGED <<call, result, session, store>>
  PROVE  Up => UNCHANGED Object!vars
BY DEF Object!vars, Asked, Told, Refused, LeftBusy, Up

\* No answer and one answer, as sequences.
LEMMA OneAnswer ==
  ASSUME NEW m
  PROVE  <<m>> # <<>> /\ Head(<<m>>) = m /\ Tail(<<m>>) = <<>> /\ <<>> \in Seq(Messages)
OBVIOUS

\* An answer in front of the stream is the first of the answers.
LEMMA AnswerInFront ==
  ASSUME NEW m \in Messages, m \notin Reports, NEW s \in Seq(Messages), NEW e \in Seq(Messages),
         Carries(<<m>> \o s, e)
  PROVE  e # <<>> /\ Head(e) = m /\ Carries(s, Tail(e))
<1> DEFINE t == <<m>> \o s
<1>1. t \in Seq(Messages) /\ t # <<>> /\ Head(t) = m /\ Tail(t) = s
  BY FrontOfStream
<1>2. Carries(t, e)
  OBVIOUS
<1> HIDE DEF t
<1>3. e # <<>> /\ Head(e) = Head(t) /\ Carries(Tail(t), Tail(e))
  BY <1>1, <1>2, StreamAfterAnswer
<1> QED
  BY <1>1, <1>3

\* An answer that is read is the next of the conversation.
LEMMA AnswerRead ==
  ASSUME Setting, Types, NEW e \in Seq(Messages), Turns(e), Flow(e), ReadMailbox, ~IsReport(out)
  PROVE  /\ e # <<>> /\ out = Head(e) /\ out \in Messages /\ Tail(e) \in Seq(Messages)
         /\ Carries(queue, Tail(e))
         /\ repeat = ack /\ ~expired /\ Talking /\ ~Draining
         /\ Conversation(call, session, store, e, Taken)
         /\ ~(call.op = WriteSoE /\ call.more)
<1>1. pc = "read" /\ out # Nothing /\ out \notin Reports /\ out \in Messages
  BY DEF ReadMailbox, IsReport, Types
<1>2. Stream = <<out>> \o queue /\ queue \in Seq(Messages)
  <2>1. ~Lost /\ Single(out) = <<out>>
    BY <1>1 DEF Lost, Single
  <2> QED
    BY <2>1, StreamType
<1>3. e # <<>> /\ Head(e) = out /\ Carries(queue, Tail(e))
  BY <1>1, <1>2, AnswerInFront DEF Flow
<1>4. repeat = ack
  BY <1>1 DEF Flow, Repetition
<1>5. ~expired
  BY <1>3, NoAnswerWhenExpired
<1>6. ~Draining /\ Talking
  BY <1>1, <1>5 DEF Flow, Expiry, Turns, Calling, Draining, Talking
<1>7. Conversation(call, session, store, e, Taken)
  BY <1>6 DEF Turns, Talk
<1>8. ~(call.op = WriteSoE /\ call.more)
  BY <1>1, <1>6 DEF Turns, Calling, Waiting
<1> QED
  BY <1>1, <1>3, <1>4, <1>5, <1>6, <1>7, <1>8

\* The answers behind the one that was read.
LEMMA FlowAfterAnswer ==
  ASSUME Setting, Types, Types', NEW e \in Seq(Messages), Turns(e), Flow(e), ReadMailbox,
         ~IsReport(out), pc' \in {"send", "idle", "poll"}, ~expired', ~Draining'
  PROVE  Flow(Tail(e))'
<1>1. Carries(queue, Tail(e)) /\ repeat = ack
  BY AnswerRead
<1>2. out' = Nothing /\ queue' = queue /\ UNCHANGED <<repeat, ack>>
  BY DEF ReadMailbox
<1>3. Stream' = queue
  <2>1. ~Lost' /\ Single(out') = <<>> /\ <<>> \o queue = queue
    BY <1>2, ConcatEmptySeq DEF Lost, Single, Types
  <2> QED
    BY <1>2, <2>1, StreamNext
<1>4. Carries(Stream', Tail(e))
  BY <1>1, <1>3
<1> QED
  BY <1>1, <1>2, <1>4 DEF Flow, Repetition, Expiry, Carries

\* After an answer the call composes its next request.
LEMMA NextAfterAnswer ==
  ASSUME Setting, Types, NEW e \in Seq(Messages), Turns(e), Flow(e), ReadMailbox, ~IsReport(out),
         UNCHANGED slave,
         NEW c \in CallType, Compose(c), Taken,
         Conversation(c, session, store, Tail(e), FALSE),
         c.step # "request", ~(c.op = WriteSoE /\ c.from = 0),
         c.op = call.op, c.data = call.data, c.room = call.room,
         c.from <= c.sent, c.sent <= Len(c.data)
  PROVE  Advances
<1>1. /\ Tail(e) \in Seq(Messages) /\ Talking /\ ~Draining /\ out \in Messages
  BY AnswerRead
<1>2. UNCHANGED <<inbox, queue, repeat, ack, seen, mishaps, store, session>>
      /\ out' = Nothing /\ last' = out /\ pc = "read"
  BY DEF ReadMailbox, slave
<1>3. call' = c /\ mbx_cnt' = nextmbxcnt /\ pc' = "send" /\ expired' = FALSE /\ result' = result
  BY DEF Compose
<1>4. Turns(Tail(e))' /\ ~Draining'
  BY <1>1, <1>2, RequestComposed DEF Talking
<1>5. Types'
  BY <1>1, <1>2, <1>3, NextCounter DEF Types
<1>6. Flow(Tail(e))'
  BY <1>3, <1>4, <1>5, FlowAfterAnswer
<1>7. UNCHANGED Object!vars
  <2>1. call # Nothing /\ call' # Nothing /\ result = Nothing
    BY <1>1, <1>3, NothingIsNoCall DEF Talking, Turns, Calling
  <2> QED
    BY <2>1, <1>2, <1>3 DEF Object!vars, Asked, Told
<1> QED
  BY <1>1, <1>4, <1>5, <1>6, <1>7 DEF Advances, Becomes

\* After an answer the call returns.
LEMMA ReturnAfterAnswer ==
  ASSUME Setting, Types, NEW e \in Seq(Messages), Turns(e), Flow(e), ReadMailbox, ~IsReport(out),
         UNCHANGED slave,
         NEW o \in Outcomes, NEW g, Return(o, g), Tail(e) = <<>>, Promised(o, g),
         session.kind # "SoE_write", Fresh => Leftover, session.kind = "SoE_ignoring" => Fresh
  PROVE  Advances
<1>1. Talking /\ ~Draining /\ out \in Messages
  BY AnswerRead
<1>2. UNCHANGED <<inbox, queue, repeat, ack, seen, mishaps, store, session>>
      /\ out' = Nothing /\ last' = out /\ pc = "read"
  BY DEF ReadMailbox, slave
<1>3. /\ call' = Nothing /\ mbx_cnt' = mbx_cnt /\ pc' = "idle" /\ expired' = FALSE
      /\ result' = [op |-> call.op, outcome |-> o, got |-> g]
  BY DEF Return
<1>4. Turns(<<>>)' /\ ~Draining'
  BY <1>1, <1>2, CallReturned
<1>5. Types'
  BY <1>1, <1>2, <1>3 DEF Types
<1>6. Flow(<<>>)'
  BY <1>3, <1>4, <1>5, FlowAfterAnswer
<1>7. Up => Object!Next
  BY <1>1, <1>2, PromiseKept DEF Turns
<1> QED
  BY <1>4, <1>5, <1>6, <1>7, OneAnswer DEF Advances, Becomes

-----------------------------------------------------------------------------
(* CoE                                                                     *)

\* What the first message of an upload brings.
LEMMA FirstUnitsOf ==
  ASSUME NEW c \in Seq(Units), NEW n \in Nat
  PROVE  /\ FirstUnits(c, n) = SubSeq(c, 1, Min2(n, Len(c)))
         /\ FirstUnits(c, n) \in Seq(Units) /\ Len(FirstUnits(c, n)) = Min2(n, Len(c))
         /\ Min2(n, Len(c)) \in Nat /\ Min2(n, Len(c)) <= Len(c)
         /\ Len(FirstUnits(c, n)) = Len(c) => FirstUnits(c, n) = c
<1>1. Min2(n, Len(c)) = IF n <= Len(c) THEN n ELSE Len(c)
  BY MinOfTwo
<1>2. Min2(n, Len(c)) \in Nat /\ Min2(n, Len(c)) <= Len(c)
  BY <1>1
<1>3. FirstUnits(c, n) = SubSeq(c, 1, Min2(n, Len(c)))
  BY DEF FirstUnits
<1>4. FirstUnits(c, n) \in Seq(Units) /\ Len(FirstUnits(c, n)) = Min2(n, Len(c))
  BY <1>2, <1>3, PartsJoin
<1>5. Len(FirstUnits(c, n)) = Len(c) => FirstUnits(c, n) = c
  BY <1>3, <1>4, WholeSequence
<1> QED
  BY <1>2, <1>3, <1>4, <1>5

\* What a segment or packet from the n-th unit on brings.
LEMMA UnitsFromAt ==
  ASSUME NEW c \in Seq(Units), NEW n \in Nat, n <= Len(c)
  PROVE  /\ UnitsFrom(c, n) \in Seq(Units)
         /\ Len(UnitsFrom(c, n)) = IF n + UnitsMore <= Len(c) THEN UnitsMore ELSE Len(c) - n
         /\ SubSeq(c, 1, n) \o UnitsFrom(c, n) = SubSeq(c, 1, n + Len(UnitsFrom(c, n)))
         /\ SubSeq(c, 1, n) \in Seq(Units) /\ Len(SubSeq(c, 1, n)) = n
         /\ SubSeq(c, 1, n + Len(UnitsFrom(c, n))) \in Seq(Units)
         /\ Len(SubSeq(c, 1, n + Len(UnitsFrom(c, n)))) = n + Len(UnitsFrom(c, n))
<1> DEFINE m == IF n + UnitsMore <= Len(c) THEN n + UnitsMore ELSE Len(c)
<1>1. Len(c) \in Nat /\ UnitsMore \in Nat \ {0}
  BY CallAssumption DEF CallAssumption
<1>2. Min2(n + UnitsMore, Len(c)) = m /\ m \in Nat /\ n <= m /\ m <= Len(c)
  BY <1>1, MinOfTwo
<1> HIDE DEF m
<1>3. UnitsFrom(c, n) = SubSeq(c, n + 1, m)
  BY <1>2 DEF UnitsFrom
<1>4. UnitsFrom(c, n) \in Seq(Units) /\ Len(UnitsFrom(c, n)) = m - n
  BY <1>2, <1>3, PartsJoin
<1>5. SubSeq(c, 1, n) \o UnitsFrom(c, n) = SubSeq(c, 1, m)
  BY <1>2, <1>3, PartsJoin
<1>6. /\ SubSeq(c, 1, n) \in Seq(Units) /\ Len(SubSeq(c, 1, n)) = n
      /\ SubSeq(c, 1, m) \in Seq(Units) /\ Len(SubSeq(c, 1, m)) = m
  BY <1>2, PartsJoin
<1>7. n + Len(UnitsFrom(c, n)) = m
  BY <1>1, <1>2, <1>4
<1>8. Len(UnitsFrom(c, n)) = IF n + UnitsMore <= Len(c) THEN UnitsMore ELSE Len(c) - n
  BY <1>1, <1>4 DEF m
<1> QED
  BY <1>4, <1>5, <1>6, <1>7, <1>8

\* The units after those of g.
LEMMA NextUnits ==
  ASSUME NEW c \in Seq(Units), NEW g \in Seq(Units), g = SubSeq(c, 1, Len(g)), Len(g) <= Len(c)
  PROVE  LET d == UnitsFrom(c, Len(g))
         IN  /\ d \in Seq(Units) /\ Len(d) \in Nat /\ Len(g) \in Nat /\ Len(c) \in Nat
             /\ Len(d) = IF Len(g) + UnitsMore <= Len(c) THEN UnitsMore ELSE Len(c) - Len(g)
             /\ Len(g) + Len(d) <= Len(c)
             /\ g \o d \in Seq(Units) /\ Len(g \o d) = Len(g) + Len(d)
             /\ g \o d = SubSeq(c, 1, Len(g \o d))
             /\ Len(g \o d) = Len(c) => g \o d = c
<1> DEFINE d == UnitsFrom(c, Len(g))
<1>1. PICK n : n = Len(g)
  OBVIOUS
<1>2. n \in Nat /\ n <= Len(c) /\ Len(c) \in Nat
  BY <1>1
<1>3. /\ UnitsFrom(c, n) \in Seq(Units)
      /\ Len(UnitsFrom(c, n)) = IF n + UnitsMore <= Len(c) THEN UnitsMore ELSE Len(c) - n
      /\ SubSeq(c, 1, n) \o UnitsFrom(c, n) = SubSeq(c, 1, n + Len(UnitsFrom(c, n)))
      /\ SubSeq(c, 1, n + Len(UnitsFrom(c, n))) \in Seq(Units)
      /\ Len(SubSeq(c, 1, n + Len(UnitsFrom(c, n)))) = n + Len(UnitsFrom(c, n))
  BY <1>2, UnitsFromAt
<1>4. SubSeq(c, 1, n) = g /\ UnitsFrom(c, n) = d
  BY <1>1
<1> HIDE DEF d
<1> DEFINE h == g \o d
<1>5. /\ h = SubSeq(c, 1, n + Len(d)) /\ h \in Seq(Units) /\ Len(h) = n + Len(d)
      /\ d \in Seq(Units) /\ Len(d) = IF n + UnitsMore <= Len(c) THEN UnitsMore ELSE Len(c) - n
  BY <1>3, <1>4
<1>6. Len(d) \in Nat /\ n + Len(d) <= Len(c)
  BY <1>2, <1>5, CallAssumption DEF CallAssumption
<1> HIDE DEF h
<1>7. h = SubSeq(c, 1, Len(h))
  BY <1>5
<1>8. Len(h) = Len(c) => h = c
  BY <1>7, WholeSequence
<1>9. /\ d \in Seq(Units) /\ Len(d) \in Nat /\ Len(g) \in Nat /\ Len(c) \in Nat
      /\ Len(d) = IF Len(g) + UnitsMore <= Len(c) THEN UnitsMore ELSE Len(c) - Len(g)
      /\ Len(g) + Len(d) <= Len(c)
      /\ h \in Seq(Units) /\ Len(h) = Len(g) + Len(d)
      /\ h = SubSeq(c, 1, Len(h))
      /\ Len(h) = Len(c) => h = c
  BY <1>1, <1>2, <1>5, <1>6, <1>7, <1>8
<1> QED
  BY <1>9 DEF h, d

\* A service refuses.
LEMMA DeclineRead ==
  ASSUME Setting, Types, NEW e \in Seq(Messages), Turns(e), Flow(e), ReadMailbox, ~IsReport(out),
         UNCHANGED slave, NEW kind, Declines(session, e, kind), Taken,
         NEW o \in {"abort", "error"}, Return(o, <<>>)
  PROVE  Advances
<1>1. Tail(e) = <<>>
  BY OneAnswer DEF Declines
<1>2. session.kind = "refused" /\ Refusable
  BY KindOfRefusal DEF Declines
<1>3. ~Fresh
  BY DEF Turns, Counting, Fresh, Taken
<1>4. Promised(o, <<>>) /\ o \in Outcomes
  BY <1>2 DEF Promised, Outcomes
<1> QED
  BY <1>1, <1>2, <1>3, <1>4, ReturnAfterAnswer

\* ecx_SDOread with the answer to its first request.
LEMMA FirstUploadRead ==
  ASSUME Setting, Types, NEW e \in Seq(Messages), Turns(e), Flow(e), ReadMailbox, ~IsReport(out),
         UNCHANGED slave, FirstUpload(call, session, store, e, Taken), UploadBegins(out)
  PROVE  Advances
<1>1. e # <<>> /\ out = Head(e) /\ Talking
  BY AnswerRead
<1>2. Taken
  BY <1>1 DEF FirstUpload
<1>3. ~Fresh
  BY <1>2 DEF Turns, Counting, Fresh, Taken
<1>4. call \in CallType /\ call.op = ReadSDO /\ call.got = <<>> /\ call.toggle = FALSE
  BY <1>1 DEF FirstUpload, Talking, Types, CallType
<1>5. CASE Declines(session, e, "abort")
  <2>1. out = [kind |-> "abort"]
    BY <1>1, <1>5, OneAnswer DEF Declines
  <2>2. Return("abort", <<>>)
    BY <2>1 DEF UploadBegins, IsResponse, Unexpected
  <2> QED
    BY <2>2, <1>2, <1>5, DeclineRead
<1>6. CASE Rejected(session, e)
  BY <1>1, <1>6 DEF Rejected
<1> DEFINE data == FirstUnits(store, UnitsFirst)
<1>7. CASE /\ e = <<[kind |-> "upload_response", size |-> Len(store), data |-> data]>>
           /\ session = IF Len(data) = Len(store) THEN NoSession
                        ELSE Session("upload", store, Len(data), 0, FALSE, 0)
  <2>1. out = [kind |-> "upload_response", size |-> Len(store), data |-> data] /\ Tail(e) = <<>>
    BY <1>1, <1>7, OneAnswer
  <2>2. store \in Seq(Units) /\ Len(store) \in Nat
    BY ContentsAreSequences DEF Types
  <2>3. /\ data = SubSeq(store, 1, Len(data)) /\ data \in Seq(Units) /\ Len(data) \in Nat
        /\ Len(data) <= Len(store) /\ (Len(data) = Len(store) => data = store)
    BY <2>2, FirstUnitsOf, CallAssumption DEF CallAssumption
  <2> HIDE DEF data
  <2>4. session.kind \notin {"SoE_write", "SoE_ignoring", "busy"}
    BY <1>7 DEF Session, NoSession
  <2>5. call.room \in Nat
    BY <1>4 DEF CallType
  <2>6. CASE Len(store) > call.room
    <3>1. Return("too_small", <<>>)
      BY <2>1, <2>2, <2>5, <2>6 DEF UploadBegins, IsResponse, Fits
    <3>2. Promised("too_small", <<>>)
      BY <1>4, <2>6 DEF Promised
    <3> QED
      BY <3>1, <3>2, <1>3, <2>1, <2>4, ReturnAfterAnswer DEF Outcomes
  <2>7. CASE Len(store) <= call.room /\ Len(data) < Len(store)
    <3> DEFINE c == [call EXCEPT !.step = "segment", !.got = data, !.more = TRUE]
    <3>1. Compose(c)
      BY <2>1, <2>7 DEF UploadBegins, IsResponse, Fits
    <3>2. /\ c \in CallType /\ c.op = ReadSDO /\ c.step = "segment" /\ c.got = data
          /\ c.toggle = FALSE /\ c.room = call.room /\ c.data = call.data
          /\ c.from = call.from /\ c.sent = call.sent
      BY <1>4, <2>3 DEF CallType, Steps
    <3> HIDE DEF c
    <3>3. NextUpload(c, session, store, <<>>, FALSE)
      <4>1. session = Session("upload", store, Len(data), 0, FALSE, 0)
        <5>1. Len(data) # Len(store)
          BY <2>2, <2>3, <2>7
        <5> QED
          BY <5>1, <1>7
      <4>2. session = Session("upload", store, Len(c.got), 0, c.toggle, 0)
        BY <4>1, <3>2
      <4>3. Len(c.got) < Len(store) /\ Len(store) <= c.room
        BY <2>7, <3>2
      <4>4. c.got = SubSeq(store, 1, Len(c.got))
        BY <2>3, <3>2
      <4> QED
        BY <3>2, <4>2, <4>3, <4>4 DEF NextUpload
    <3>4. Conversation(c, session, store, Tail(e), FALSE)
      BY <3>3, <2>1 DEF Conversation
    <3>5. c.from <= c.sent /\ c.sent <= Len(c.data)
      BY <3>2, <1>1 DEF Turns, Calling, Talking
    <3> QED
      BY <3>1, <3>2, <3>4, <3>5, <1>2, <1>4, NextAfterAnswer DEF ReadSDO, WriteSoE
  <2>8. CASE Len(store) <= call.room /\ Len(data) = Len(store)
    <3>1. Return("done", store)
      BY <2>1, <2>3, <2>8 DEF UploadBegins, IsResponse, Fits
    <3>2. Promised("done", store)
      BY <1>4, <2>4, <2>8 DEF Promised, AtBusySlave, IsWrite, ReadSDO, WriteSDO, WriteFile, WriteSoE
    <3> QED
      BY <3>1, <3>2, <1>3, <2>1, <2>4, ReturnAfterAnswer DEF Outcomes
  <2> QED
    BY <2>2, <2>3, <2>5, <2>6, <2>7, <2>8
<1> QED
  BY <1>2, <1>5, <1>6, <1>7 DEF FirstUpload

\* ecx_SDOread with the answer to the request of a segment.
LEMMA NextUploadRead ==
  ASSUME Setting, Types, NEW e \in Seq(Messages), Turns(e), Flow(e), ReadMailbox, ~IsReport(out),
         UNCHANGED slave, NextUpload(call, session, store, e, Taken), UploadContinues(out)
  PROVE  Advances
<1>1. e # <<>> /\ out = Head(e) /\ Talking /\ out # Nothing
  BY AnswerRead, NothingIsNoMessage
<1>2. Taken
  BY <1>1 DEF NextUpload
<1>3. ~Fresh
  BY <1>2 DEF Turns, Counting, Fresh, Taken
<1>4. /\ call \in CallType /\ call.op = ReadSDO /\ Len(call.got) < Len(store)
      /\ call.got = SubSeq(store, 1, Len(call.got)) /\ Len(store) <= call.room
      /\ call.got \in Seq(Units) /\ Len(call.got) \in Nat
  BY <1>1 DEF NextUpload, Talking, Types, CallType
<1>5. CASE Declines(session, e, "abort")
  <2>1. out = [kind |-> "abort"]
    BY <1>1, <1>5, OneAnswer DEF Declines
  <2>2. Return("abort", <<>>)
    BY <2>1, <1>1 DEF UploadContinues, Unexpected
  <2> QED
    BY <2>2, <1>2, <1>5, DeclineRead
<1> DEFINE data == UnitsFrom(store, Len(call.got))
           last_ == Len(call.got) + Len(data) = Len(store)
<1>6. CASE /\ e = <<[kind |-> "upload_segment_response", data |-> data, last |-> last_]>>
           /\ session = IF last_ THEN NoSession
                        ELSE Session("upload", store, Len(call.got) + Len(data), 0, ~call.toggle, 0)
  <2>1. out = [kind |-> "upload_segment_response", data |-> data, last |-> last_] /\ Tail(e) = <<>>
    BY <1>1, <1>6, OneAnswer
  <2>2. store \in Seq(Units) /\ Len(store) \in Nat
    BY ContentsAreSequences DEF Types
  <2> DEFINE got == call.got \o data
  <2>3. /\ data \in Seq(Units) /\ Len(data) \in Nat
        /\ got = SubSeq(store, 1, Len(got)) /\ got \in Seq(Units)
        /\ Len(got) = Len(call.got) + Len(data) /\ Len(got) <= Len(store)
        /\ Len(got) = Len(store) => got = store
    <3>1. PICK g : g = call.got
      OBVIOUS
    <3>2. /\ g \in Seq(Units) /\ g = SubSeq(store, 1, Len(g)) /\ Len(g) <= Len(store)
          /\ data = UnitsFrom(store, Len(g)) /\ got = g \o data
      BY <3>1, <1>4, <2>2
    <3> DEFINE u == UnitsFrom(store, Len(g))
    <3>3. /\ u \in Seq(Units) /\ Len(u) \in Nat
          /\ Len(g) + Len(u) <= Len(store)
          /\ g \o u \in Seq(Units) /\ Len(g \o u) = Len(g) + Len(u)
          /\ g \o u = SubSeq(store, 1, Len(g \o u))
          /\ Len(g \o u) = Len(store) => g \o u = store
      <4> HIDE DEF data, got
      <4> QED
        BY <3>2, <2>2, NextUnits
    <3>4. data = u /\ got = g \o u
      BY <3>2
    <3> HIDE DEF data, got, u
    <3> QED
      BY <3>1, <3>3, <3>4
  <2>4. session.kind \notin {"SoE_write", "SoE_ignoring", "busy"}
    BY <1>6 DEF Session, NoSession
  <2> HIDE DEF got, data
  <2>5. CASE last_
    <3>1. Return("done", got)
      <4>1. out.kind = "upload_segment_response" /\ out.data = data /\ out.last
        BY <2>1, <2>5
      <4> QED
        BY <4>1, <1>1 DEF UploadContinues, got
    <3>2. got = store
      BY <2>3, <2>5
    <3>3. Promised("done", got)
      BY <3>2, <1>4, <2>4 DEF Promised, AtBusySlave, IsWrite, ReadSDO, WriteSDO, WriteFile, WriteSoE
    <3> QED
      BY <3>1, <3>3, <1>3, <2>1, <2>4, ReturnAfterAnswer DEF Outcomes
  <2>6. CASE ~last_
    <3> DEFINE c == [Toggled(call) EXCEPT !.got = got]
    <3>1. Compose(c)
      <4>1. out.kind = "upload_segment_response" /\ out.data = data /\ ~out.last
        BY <2>1, <2>6
      <4> QED
        BY <4>1, <1>1 DEF UploadContinues, got
    <3>2. /\ c \in CallType /\ c.op = ReadSDO /\ c.step = "segment" /\ c.got = got
          /\ c.toggle = ~call.toggle /\ c.room = call.room /\ c.data = call.data
          /\ c.from = call.from /\ c.sent = call.sent
      BY <1>4, <2>3 DEF CallType, Steps, Toggled, NextUpload
    <3> HIDE DEF c
    <3>3. NextUpload(c, session, store, <<>>, FALSE)
      BY <3>2, <2>2, <2>3, <2>6, <1>4, <1>6 DEF NextUpload
    <3>4. Conversation(c, session, store, Tail(e), FALSE)
      BY <3>3, <2>1 DEF Conversation
    <3>5. c.from <= c.sent /\ c.sent <= Len(c.data)
      BY <3>2, <1>1 DEF Turns, Calling, Talking
    <3> QED
      BY <3>1, <3>2, <3>4, <3>5, <1>2, <1>4, NextAfterAnswer DEF ReadSDO, WriteSoE
  <2> QED
    BY <2>5, <2>6
<1> QED
  BY <1>2, <1>5, <1>6 DEF NextUpload

\* A chunk is not empty while something is left.
LEMMA ChunkEnds ==
  ASSUME NEW n \in Nat, NEW k \in Nat, NEW u \in Nat \ {0}, n <= k
  PROVE  /\ Min2(n + u, k) \in Nat /\ n <= Min2(n + u, k) /\ Min2(n + u, k) <= k
         /\ n < k => n < Min2(n + u, k)
         /\ (Min2(n + u, k) < k) = (Min2(n + u, k) # k)
<1>1. Min2(n + u, k) = IF n + u <= k THEN n + u ELSE k
  BY MinOfTwo
<1> QED
  BY <1>1

\* The types of what belongs to a call.
LEMMA CallFields ==
  ASSUME Types, NEW e, Turns(e), Talking
  PROVE  /\ call # Nothing /\ call \in CallType /\ result = Nothing
         /\ call.sent \in Nat /\ call.from \in Nat /\ call.data \in Seq(Units)
         /\ call.room \in Nat /\ call.got \in Seq(Units) /\ Len(call.got) \in Nat
         /\ call.from <= call.sent /\ call.sent <= Len(call.data) /\ Len(call.data) \in Nat
         /\ call.toggle \in BOOLEAN /\ call.more \in BOOLEAN /\ call.packet \in Nat
<1>1. call # Nothing /\ call \in CallType
  BY DEF Talking, Types
<1>2. result = Nothing /\ call.from <= call.sent /\ call.sent <= Len(call.data)
  BY <1>1 DEF Turns, Calling
<1>3. /\ call.sent \in Nat /\ call.from \in Nat /\ call.data \in Seq(Units)
      /\ call.room \in Nat /\ call.got \in Seq(Units)
      /\ call.toggle \in BOOLEAN /\ call.more \in BOOLEAN /\ call.packet \in Nat
  BY <1>1 DEF CallType
<1> QED
  BY <1>1, <1>2, <1>3

\* The next segment is sent, or the last was answered.
LEMMA NextSegmentSent ==
  ASSUME Setting, Types, NEW e \in Seq(Messages), Turns(e), Flow(e), ReadMailbox, ~IsReport(out),
         UNCHANGED slave, Taken, call.op = WriteSDO,
         call.more = (call.sent # Len(call.data)), Tail(e) = <<>>,
         NEW b \in BOOLEAN, NEW o, o = [call EXCEPT !.toggle = b], NextSegment(o),
         Downloaded(call, session, store, call.sent, b)
  PROVE  Advances
<1>1. /\ Talking /\ call \in CallType /\ call.sent \in Nat /\ call.data \in Seq(Units)
      /\ call.from <= call.sent /\ call.sent <= Len(call.data) /\ Len(call.data) \in Nat
      /\ call.more \in BOOLEAN
  BY AnswerRead, CallFields
<1>2. /\ o \in CallType /\ o.op = call.op /\ o.data = call.data /\ o.room = call.room
      /\ o.sent = call.sent /\ o.more = call.more /\ o.toggle = b /\ o.got = call.got
  BY <1>1 DEF CallType
<1>3. ~Fresh
  BY DEF Turns, Counting, Fresh, Taken
<1>4. CASE call.more
  <2> DEFINE to == Min2(o.sent + UnitsMore, Len(o.data))
  <2>1. to \in Nat /\ call.sent < to /\ to <= Len(call.data) /\ (to < Len(call.data)) = (to # Len(call.data))
    <3>1. call.sent < Len(call.data)
      <4>1. call.sent # Len(call.data)
        BY <1>4, Zenon
      <4> QED
        BY <1>1, <4>1
    <3>2. to = Min2(call.sent + UnitsMore, Len(call.data))
      BY <1>2
    <3>3. PICK n, k : n = call.sent /\ k = Len(call.data)
      OBVIOUS
    <3>4. n \in Nat /\ k \in Nat /\ n < k /\ to = Min2(n + UnitsMore, k)
      BY <3>1, <3>2, <3>3, <1>1
    <3> HIDE DEF to
    <3>5. to \in Nat /\ n < to /\ to <= k /\ (to < k) = (to # k)
      BY <3>4, ChunkEnds, CallAssumption DEF CallAssumption
    <3> QED
      BY <3>3, <3>5
  <2> DEFINE c == [NextChunk(o, UnitsMore) EXCEPT !.step = "segment"]
  <2>2. Compose(c)
    BY <1>2, <1>4 DEF NextSegment
  <2>3. c = [o EXCEPT !.from = o.sent, !.sent = to, !.more = to < Len(o.data), !.step = "segment"]
    BY <1>2 DEF NextChunk, CallType
  <2> HIDE DEF to, c
  <2>4. /\ c \in CallType /\ c.op = WriteSDO /\ c.step = "segment" /\ c.from = call.sent /\ c.sent = to
        /\ c.more = (to < Len(call.data)) /\ c.toggle = b /\ c.data = call.data /\ c.room = call.room
    BY <1>1, <1>2, <2>1, <2>3, ZenonT(30) DEF CallType, Steps
  <2>5. NextDownload(c, session, store, <<>>, FALSE)
    <3>1. session = Session("download", SubSeq(call.data, 1, call.sent), 0, Len(call.data), b, 0)
      BY <1>4 DEF Downloaded
    <3> QED
      BY <3>1, <2>1, <2>4 DEF NextDownload
  <2>6. Conversation(c, session, store, Tail(e), FALSE)
    BY <2>5 DEF Conversation
  <2>7. /\ c.step # "request" /\ ~(c.op = WriteSoE /\ c.from = 0)
        /\ c.from <= c.sent /\ c.sent <= Len(c.data)
    BY <1>1, <2>1, <2>4 DEF WriteSDO, WriteSoE
  <2> QED
    BY <2>2, <2>4, <2>6, <2>7, NextAfterAnswer
<1>5. CASE ~call.more
  <2>1. Return("done", <<>>)
    BY <1>2, <1>5 DEF NextSegment
  <2>2. store = call.data /\ session.kind = "none"
    <3>1. call.sent = Len(call.data)
      BY <1>5, Zenon
    <3> QED
      BY <3>1 DEF Downloaded, NoSession
  <2>3. Promised("done", <<>>)
    BY <2>2 DEF Promised, AtBusySlave, IsWrite, WriteSDO, WriteFile
  <2> QED
    BY <2>1, <2>2, <2>3, <1>3, ReturnAfterAnswer DEF Outcomes
<1> QED
  BY <1>4, <1>5

\* ecx_SDOwrite with the answer to its first request.
LEMMA FirstDownloadRead ==
  ASSUME Setting, Types, NEW e \in Seq(Messages), Turns(e), Flow(e), ReadMailbox, ~IsReport(out),
         UNCHANGED slave, FirstDownload(call, session, store, e, Taken), DownloadBegins(out)
  PROVE  Advances
<1>1. e # <<>> /\ out = Head(e) /\ Talking /\ call \in CallType
  BY AnswerRead DEF Talking, Types
<1>2. Taken
  BY <1>1 DEF FirstDownload
<1>3. CASE Declines(session, e, "abort")
  <2>1. out = [kind |-> "abort"]
    BY <1>1, <1>3, OneAnswer DEF Declines
  <2>2. Return("abort", <<>>)
    BY <2>1 DEF DownloadBegins, IsResponse, Unexpected
  <2> QED
    BY <2>2, <1>2, <1>3, DeclineRead
<1>4. CASE Rejected(session, e)
  BY <1>1, <1>4 DEF Rejected
<1>5. CASE /\ e = <<[kind |-> "download_response", size |-> 0, data |-> <<>>]>>
           /\ Downloaded(call, session, store, call.sent, FALSE)
  <2>1. out.kind = "download_response" /\ Tail(e) = <<>>
    BY <1>1, <1>5, OneAnswer
  <2>2. NextSegment(call)
    BY <2>1 DEF DownloadBegins, IsResponse
  <2>3. /\ call = [call EXCEPT !.toggle = FALSE] /\ call.op = WriteSDO
        /\ call.more = (call.sent # Len(call.data))
    BY <1>1 DEF FirstDownload, CallType
  <2> QED
    BY <2>1, <2>2, <2>3, <1>2, <1>5, NextSegmentSent
<1> QED
  BY <1>2, <1>3, <1>4, <1>5 DEF FirstDownload

\* ecx_SDOwrite with the answer to a segment.
LEMMA NextDownloadRead ==
  ASSUME Setting, Types, NEW e \in Seq(Messages), Turns(e), Flow(e), ReadMailbox, ~IsReport(out),
         UNCHANGED slave, NextDownload(call, session, store, e, Taken), DownloadContinues(out)
  PROVE  Advances
<1>1. e # <<>> /\ out = Head(e) /\ Talking /\ call \in CallType /\ out # Nothing
  BY AnswerRead, NothingIsNoMessage DEF Talking, Types
<1>2. Taken
  BY <1>1 DEF NextDownload
<1>3. CASE Declines(session, e, "abort")
  <2>1. out = [kind |-> "abort"]
    BY <1>1, <1>3, OneAnswer DEF Declines
  <2>2. Return("abort", <<>>)
    BY <2>1, <1>1 DEF DownloadContinues, Unexpected
  <2> QED
    BY <2>2, <1>2, <1>3, DeclineRead
<1>4. CASE /\ e = <<[kind |-> "download_segment_response"]>>
           /\ Downloaded(call, session, store, call.sent, ~call.toggle)
  <2>1. out.kind = "download_segment_response" /\ Tail(e) = <<>>
    BY <1>1, <1>4, OneAnswer
  <2> DEFINE o == Toggled(call)
             b == ~call.toggle
  <2>2. NextSegment(o)
    BY <2>1, <1>1 DEF DownloadContinues
  <2>3. o = [call EXCEPT !.toggle = b] /\ b \in BOOLEAN /\ call.op = WriteSDO
        /\ call.more = (call.sent # Len(call.data)) /\ Downloaded(call, session, store, call.sent, b)
    BY <1>1, <1>4 DEF NextDownload, CallType, Toggled
  <2> HIDE DEF o, b
  <2> QED
    BY <2>1, <2>2, <2>3, <1>2, NextSegmentSent
<1> QED
  BY <1>2, <1>3, <1>4 DEF NextDownload

-----------------------------------------------------------------------------
(* FoE                                                                     *)

\* ecx_FOEread with an answer to its request or to an acknowledge.
LEMMA PacketRead ==
  ASSUME Setting, Types, NEW e \in Seq(Messages), Turns(e), Flow(e), ReadMailbox, ~IsReport(out),
         UNCHANGED slave, Taken, call.op = ReadFile,
         Len(call.got) <= Len(store), call.got = SubSeq(store, 1, Len(call.got)),
         SendsPacket(session, store, e, Len(call.got), call.packet + 1), FileContinues(out)
  PROVE  Advances
<1>1. /\ e # <<>> /\ out = Head(e) /\ Talking /\ call \in CallType
      /\ call.got \in Seq(Units) /\ Len(call.got) \in Nat /\ call.packet \in Nat /\ call.room \in Nat
      /\ call.from <= call.sent /\ call.sent <= Len(call.data)
  BY AnswerRead, CallFields
<1>2. ~Fresh
  BY DEF Turns, Counting, Fresh, Taken
<1> DEFINE data == UnitsFrom(store, Len(call.got))
           got == call.got \o data
<1>3. /\ e = <<[kind |-> "data", packet |-> call.packet + 1, data |-> data]>>
      /\ session = Session(IF Len(data) = UnitsMore THEN "FoE_read" ELSE "FoE_read_last",
                           store, Len(call.got) + Len(data), 0, FALSE, call.packet + 1)
  BY DEF SendsPacket
<1>4. /\ out = [kind |-> "data", packet |-> call.packet + 1, data |-> data] /\ Tail(e) = <<>>
  BY <1>1, <1>3, OneAnswer
<1>5. store \in Seq(Units) /\ Len(store) \in Nat
  BY ContentsAreSequences DEF Types
<1>6. /\ data \in Seq(Units) /\ Len(data) \in Nat
      /\ got = SubSeq(store, 1, Len(got)) /\ got \in Seq(Units)
      /\ Len(got) = Len(call.got) + Len(data) /\ Len(got) <= Len(store)
      /\ Len(data) # UnitsMore => got = store
  <2>1. PICK g : g = call.got
    OBVIOUS
  <2>2. /\ g \in Seq(Units) /\ g = SubSeq(store, 1, Len(g)) /\ Len(g) <= Len(store)
    BY <2>1, <1>1, <1>5
  <2> DEFINE u == UnitsFrom(store, Len(g))
  <2>3. /\ u \in Seq(Units) /\ Len(u) \in Nat
        /\ Len(u) = IF Len(g) + UnitsMore <= Len(store) THEN UnitsMore ELSE Len(store) - Len(g)
        /\ Len(g) + Len(u) <= Len(store)
        /\ g \o u \in Seq(Units) /\ Len(g \o u) = Len(g) + Len(u)
        /\ g \o u = SubSeq(store, 1, Len(g \o u))
        /\ Len(g \o u) = Len(store) => g \o u = store
    <3> HIDE DEF data, got
    <3> QED
      BY <2>2, <1>5, NextUnits
  <2>4. data = u /\ got = g \o u
    BY <2>1
  <2> HIDE DEF data, got, u
  <2>5. Len(data) # UnitsMore => got = store
    <3>1. Len(data) # UnitsMore => Len(got) = Len(store)
      BY <2>1, <2>3, <2>4, <1>1, <1>5
    <3> QED
      BY <3>1, <2>3, <2>4
  <2> QED
    BY <2>1, <2>3, <2>4, <2>5
<1>7. session.kind \notin {"SoE_write", "SoE_ignoring", "busy"}
  BY <1>3 DEF Session
<1> DEFINE more == MorePackets(data)
<1>11. more \in BOOLEAN /\ (more <=> Len(data) = UnitsMore)
  BY DEF MorePackets
<1> HIDE DEF data, got, more
<1>8. out.kind = "data" /\ out.packet = call.packet + 1 /\ out.data = data
  BY <1>4
<1>9. CASE Len(got) <= call.room
  <2> DEFINE c == [call EXCEPT !.step = "ack", !.packet = call.packet + 1,
                               !.got = got, !.more = more]
  <2>1. Compose(c)
    BY <1>6, <1>8, <1>9 DEF FileContinues, got, more
  <2>2. /\ c \in CallType /\ c.op = ReadFile /\ c.step = "ack" /\ c.got = got
        /\ c.packet = call.packet + 1 /\ c.more = more
        /\ c.room = call.room /\ c.data = call.data /\ c.from = call.from /\ c.sent = call.sent
    <3> DEFINE p == call.packet + 1
               a == [call EXCEPT !.step = "ack", !.packet = p]
    <3>3. p \in Nat
      BY <1>1
    <3> HIDE DEF p
    <3>1. /\ a \in CallType /\ a.op = call.op /\ a.step = "ack" /\ a.packet = p
          /\ a.room = call.room /\ a.data = call.data /\ a.from = call.from /\ a.sent = call.sent
      BY <1>1, <3>3 DEF CallType, Steps
    <3>2. c = [a EXCEPT !.got = got, !.more = more]
      BY DEF p
    <3> HIDE DEF a, c
    <3> QED
      BY <3>1, <3>2, <1>6, <1>11 DEF CallType, p
  <2> HIDE DEF c
  <2>3. LaterPacket(c, session, store, <<>>, FALSE)
    <3>1. c.more => Len(data) = UnitsMore
      BY <1>11, <2>2
    <3>2. ~c.more => Len(data) # UnitsMore
      BY <1>11, <2>2
    <3>3. session = Session(IF c.more THEN "FoE_read" ELSE "FoE_read_last", store,
                            Len(c.got), 0, FALSE, c.packet)
      BY <1>3, <1>6, <2>2, <3>1, <3>2
    <3> QED
      BY <1>6, <1>9, <2>2, <3>2, <3>3 DEF LaterPacket
  <2>4. Conversation(c, session, store, Tail(e), FALSE)
    BY <1>4, <2>3 DEF Conversation
  <2>5. /\ c.step # "request" /\ ~(c.op = WriteSoE /\ c.from = 0)
        /\ c.from <= c.sent /\ c.sent <= Len(c.data)
    BY <1>1, <2>2 DEF ReadFile, WriteSoE
  <2> QED
    BY <2>1, <2>2, <2>4, <2>5, NextAfterAnswer
<1>10. CASE ~(Len(got) <= call.room)
  <2>1. Return("too_small", <<>>)
    BY <1>6, <1>8, <1>10 DEF FileContinues
  <2>2. Promised("too_small", <<>>)
    BY <1>1, <1>5, <1>6, <1>10 DEF Promised
  <2> QED
    BY <2>1, <2>2, <1>2, <1>4, <1>7, ReturnAfterAnswer DEF Outcomes
<1> QED
  BY <1>9, <1>10

\* FoE refuses.
LEMMA FoERefusalRead ==
  ASSUME Setting, Types, NEW e \in Seq(Messages), Turns(e), Flow(e), ReadMailbox, ~IsReport(out),
         UNCHANGED slave, Taken, Declines(session, e, "FoE_error"),
         FileContinues(out) \/ Acknowledged(out)
  PROVE  Advances
<1>1. e # <<>> /\ out = Head(e)
  BY AnswerRead
<1>2. out = [kind |-> "FoE_error"]
  BY <1>1, OneAnswer DEF Declines
<1>3. Return("error", <<>>)
  BY <1>2 DEF FileContinues, Acknowledged, FoEFails
<1> QED
  BY <1>3, DeclineRead

\* ecx_FOEread with a packet that it expects.
LEMMA FileContinuesRead ==
  ASSUME Setting, Types, NEW e \in Seq(Messages), Turns(e), Flow(e), ReadMailbox, ~IsReport(out),
         UNCHANGED slave, FileContinues(out),
         FirstPacket(call, session, store, e, Taken) \/ LaterPacket(call, session, store, e, Taken)
  PROVE  Advances
<1>1. e # <<>> /\ Talking /\ call \in CallType /\ pc = "read"
  BY AnswerRead, CallFields DEF ReadMailbox
<1>2. store \in Seq(Units) /\ Len(store) \in Nat
  BY ContentsAreSequences DEF Types
<1>3. CASE FirstPacket(call, session, store, e, Taken)
  <2>1. Taken /\ call.op = ReadFile /\ call.got = <<>> /\ call.packet = 0
    BY <1>1, <1>3 DEF FirstPacket
  <2>2. Len(call.got) = 0 /\ call.got = SubSeq(store, 1, Len(call.got)) /\ Len(call.got) <= Len(store)
        /\ call.packet + 1 = 1
    BY <2>1, <1>2
  <2>3. CASE Declines(session, e, "FoE_error")
    BY <2>1, <2>3, FoERefusalRead
  <2>4. CASE Rejected(session, e)
    BY <1>1, <2>4 DEF Rejected
  <2>5. CASE SendsPacket(session, store, e, 0, 1)
    BY <2>1, <2>2, <2>5, PacketRead
  <2> QED
    BY <2>1, <2>3, <2>4, <2>5, <1>3 DEF FirstPacket
<1>4. CASE LaterPacket(call, session, store, e, Taken)
  <2>1. Taken /\ call.op = ReadFile /\ call.more
    BY <1>1, <1>4 DEF LaterPacket
  <2>2. Len(call.got) <= Len(store) /\ call.got = SubSeq(store, 1, Len(call.got))
    BY <1>4 DEF LaterPacket
  <2>3. CASE Declines(session, e, "FoE_error")
    BY <2>1, <2>3, FoERefusalRead
  <2>4. CASE SendsPacket(session, store, e, Len(call.got), call.packet + 1)
    BY <2>1, <2>2, <2>4, PacketRead
  <2> QED
    BY <2>1, <2>3, <2>4, <1>4 DEF LaterPacket
<1> QED
  BY <1>3, <1>4

\* Another packet follows the acknowledged one.
LEMMA PacketSent ==
  ASSUME Setting, Types, NEW e \in Seq(Messages), Turns(e), Flow(e), ReadMailbox, ~IsReport(out),
         UNCHANGED slave, Taken, call.op = WriteFile, Tail(e) = <<>>, NextPacket,
         call.zero \/ call.sent < Len(call.data),
         session = Session("FoE_write", SubSeq(call.data, 1, call.sent), 0, 0, FALSE, call.packet)
  PROVE  Advances
<1>1. /\ Talking /\ call \in CallType /\ call.sent \in Nat /\ call.packet \in Nat
      /\ call.sent <= Len(call.data) /\ Len(call.data) \in Nat
  BY AnswerRead, CallFields
<1> DEFINE to == Min2(call.sent + UnitsMore, Len(call.data))
           zero == FinalZero(Len(call.data) - to, to - call.sent)
           c == [call EXCEPT !.step = "data", !.packet = call.packet + 1,
                             !.from = call.sent, !.sent = to, !.zero = zero]
<1>2. /\ to \in Nat /\ call.sent <= to /\ to <= Len(call.data)
      /\ call.sent < Len(call.data) => call.sent < to
  <2>1. PICK n, k : n = call.sent /\ k = Len(call.data)
    OBVIOUS
  <2>2. n \in Nat /\ k \in Nat /\ n <= k /\ to = Min2(n + UnitsMore, k)
    BY <2>1, <1>1
  <2> HIDE DEF to
  <2>3. to \in Nat /\ n <= to /\ to <= k /\ (n < k => n < to)
    BY <2>2, ChunkEnds, CallAssumption DEF CallAssumption
  <2> QED
    BY <2>1, <2>3
<1>3. to = Min2(call.sent + UnitsMore, Len(call.data)) /\ zero \in BOOLEAN
  BY DEF FinalZero
<1>4. zero = (to = Len(call.data) /\ to - call.sent = UnitsMore)
  <2> HIDE DEF to
  <2>1. (Len(call.data) - to = 0) <=> (to = Len(call.data))
    BY <1>1, <1>2
  <2> QED
    BY <2>1 DEF FinalZero
<1>5. Compose(c)
  <2>1. to > call.sent \/ call.zero
    <3> HIDE DEF to
    <3> QED
      BY <1>1, <1>2
  <2> QED
    BY <2>1 DEF NextPacket
<1> HIDE DEF to, zero
<1>6. /\ c \in CallType /\ c.op = WriteFile /\ c.step = "data" /\ c.packet = call.packet + 1
      /\ c.from = call.sent /\ c.sent = to /\ c.zero = zero /\ c.data = call.data /\ c.room = call.room
  <2> DEFINE p == call.packet + 1
             a == [call EXCEPT !.step = "data", !.packet = p]
  <2>3. p \in Nat
    BY <1>1
  <2> HIDE DEF p
  <2>1. /\ a \in CallType /\ a.op = call.op /\ a.step = "data" /\ a.packet = p
        /\ a.room = call.room /\ a.data = call.data
    BY <1>1, <2>3 DEF CallType, Steps
  <2>2. c = [a EXCEPT !.from = call.sent, !.sent = to, !.zero = zero]
    BY DEF p
  <2> HIDE DEF a, c
  <2> QED
    BY <2>1, <2>2, <1>1, <1>2, <1>3 DEF CallType, p
<1> HIDE DEF c
<1>7. WritePacket(c, session, store, <<>>, FALSE)
  <2>1. c.packet > 0 /\ c.packet - 1 = call.packet
    BY <1>1, <1>6
  <2>2. c.sent = Min2(c.from + UnitsMore, Len(c.data))
    BY <1>3, <1>6
  <2>3. c.zero = (c.sent = Len(c.data) /\ c.sent - c.from = UnitsMore)
    BY <1>4, <1>6, Zenon
  <2>4. session = Session("FoE_write", SubSeq(c.data, 1, c.from), 0, 0, FALSE, c.packet - 1)
    BY <2>1, <1>6
  <2> QED
    BY <2>1, <2>2, <2>3, <2>4, <1>6 DEF WritePacket
<1>8. Conversation(c, session, store, Tail(e), FALSE)
  BY <1>7 DEF Conversation
<1>9. /\ c.step # "request" /\ ~(c.op = WriteSoE /\ c.from = 0)
      /\ c.from <= c.sent /\ c.sent <= Len(c.data)
  BY <1>1, <1>2, <1>6 DEF WriteFile, WriteSoE
<1> QED
  BY <1>5, <1>6, <1>8, <1>9, NextAfterAnswer

\* The slave is busy: ecx_FOEwrite returns.
LEMMA BusyRead ==
  ASSUME Setting, Types, NEW e \in Seq(Messages), Turns(e), Flow(e), ReadMailbox, ~IsReport(out),
         UNCHANGED slave, Taken, call.op = WriteFile, SaysBusy(session, e), Acknowledged(out)
  PROVE  Advances
<1>1. e # <<>> /\ out = Head(e) /\ Talking
  BY AnswerRead
<1>2. out = [kind |-> "busy"] /\ Tail(e) = <<>>
  BY <1>1, OneAnswer DEF SaysBusy
<1>3. Return("done", <<>>)
  BY <1>2 DEF Acknowledged
<1>4. ~Fresh /\ session.kind = "busy" /\ CanBeBusy
  BY DEF Turns, Counting, Fresh, Taken, SaysBusy
<1>5. Promised("done", <<>>)
  BY <1>4 DEF Promised, AtBusySlave, IsWrite
<1> QED
  BY <1>2, <1>3, <1>4, <1>5, ReturnAfterAnswer DEF Outcomes

\* ecx_FOEwrite with an answer to its request or to a packet.
LEMMA AcknowledgedRead ==
  ASSUME Setting, Types, NEW e \in Seq(Messages), Turns(e), Flow(e), ReadMailbox, ~IsReport(out),
         UNCHANGED slave, Acknowledged(out),
         WriteRequest(call, session, store, e, Taken) \/ WritePacket(call, session, store, e, Taken)
  PROVE  Advances
<1>1. /\ e # <<>> /\ out = Head(e) /\ Talking /\ call \in CallType
      /\ call.sent \in Nat /\ call.from \in Nat /\ call.packet \in Nat /\ call.from <= call.sent
      /\ call.sent <= Len(call.data) /\ Len(call.data) \in Nat /\ call # Nothing
  BY AnswerRead, CallFields
<1>2. Taken /\ call.op = WriteFile
  BY <1>1 DEF WriteRequest, WritePacket
<1>3. CASE Declines(session, e, "FoE_error")
  BY <1>2, <1>3, FoERefusalRead
<1>4. CASE Rejected(session, e)
  BY <1>1, <1>4 DEF Rejected
<1>5. CASE SaysBusy(session, e)
  BY <1>2, <1>5, BusyRead
<1>6. CASE /\ WriteRequest(call, session, store, e, Taken)
           /\ e = <<[kind |-> "ack", packet |-> 0]>> /\ session = Session("FoE_write", <<>>, 0, 0, FALSE, 0)
  <2>1. call.packet = 0 /\ call.sent = 0
    BY <1>6 DEF WriteRequest
  <2>2. out = [kind |-> "ack", packet |-> 0] /\ Tail(e) = <<>>
    BY <1>1, <1>6, OneAnswer
  <2>3. NextPacket
    BY <2>1, <2>2 DEF Acknowledged, RightAck
  <2>4. call.sent < Len(call.data)
    BY <1>1, <1>2, <2>1, ContentsAreSequences DEF Turns, Calling, IsWrite
  <2>5. SubSeq(call.data, 1, call.sent) = <<>>
    BY <2>1, <1>1 DEF CallType
  <2> QED
    BY <2>1, <2>2, <2>3, <2>4, <2>5, <1>2, <1>6, PacketSent
<1>7. CASE /\ WritePacket(call, session, store, e, Taken)
           /\ e = <<[kind |-> "ack", packet |-> call.packet]>>
           /\ IF call.sent - call.from < UnitsMore THEN store = call.data /\ session = NoSession
              ELSE session = Session("FoE_write", SubSeq(call.data, 1, call.sent), 0, 0, FALSE, call.packet)
  <2>1. out = [kind |-> "ack", packet |-> call.packet] /\ Tail(e) = <<>>
    BY <1>1, <1>7, OneAnswer
  <2>2. NextPacket
    BY <2>1 DEF Acknowledged, RightAck
  <2>3. /\ call.sent = IF call.from + UnitsMore <= Len(call.data) THEN call.from + UnitsMore ELSE Len(call.data)
        /\ UnitsMore \in Nat \ {0}
    <3>1. PICK n, k : n = call.from /\ k = Len(call.data)
      OBVIOUS
    <3>2. n \in Nat /\ k \in Nat /\ call.sent = Min2(n + UnitsMore, k)
      BY <3>1, <1>1, <1>7 DEF WritePacket
    <3>3. UnitsMore \in Nat \ {0}
      BY CallAssumption DEF CallAssumption
    <3>4. Min2(n + UnitsMore, k) = IF n + UnitsMore <= k THEN n + UnitsMore ELSE k
      BY <3>2, <3>3, MinOfTwo
    <3> QED
      BY <3>1, <3>2, <3>3, <3>4
  <2>4. call.zero = (call.sent = Len(call.data) /\ call.sent - call.from = UnitsMore)
    BY <1>7 DEF WritePacket
  <2>5. CASE call.sent - call.from < UnitsMore
    <3>1. ~call.zero
      <4>1. call.sent - call.from # UnitsMore
        BY <2>5, <2>3, <1>1
      <4> QED
        BY <2>4, <4>1, Zenon
    <3>2. call.sent = Len(call.data)
      BY <2>3, <2>5, <1>1
    <3>3. ~(Min2(call.sent + UnitsMore, Len(call.data)) > call.sent)
      <4>1. PICK k : k = Len(call.data)
        OBVIOUS
      <4>2. k \in Nat /\ UnitsMore \in Nat \ {0}
        BY <4>1, <1>1, <2>3
      <4> DEFINE to == Min2(k + UnitsMore, k)
      <4>3. to \in Nat /\ to <= k
        <5>1. k <= k
          BY <4>2
        <5> QED
          BY <4>2, <5>1, ChunkEnds
      <4> HIDE DEF to
      <4>4. ~(to > k)
        BY <4>2, <4>3
      <4> QED
        BY <4>1, <4>4, <3>2 DEF to
    <3>4. Return("done", <<>>)
      BY <2>2, <3>1, <3>3 DEF NextPacket
    <3>5. store = call.data /\ session.kind = "none"
      BY <1>7, <2>5 DEF NoSession
    <3>6. Promised("done", <<>>)
      BY <1>2, <3>5 DEF Promised, AtBusySlave, IsWrite
    <3>7. ~Fresh
      BY <1>2 DEF Turns, Counting, Fresh, Taken
    <3> QED
      BY <3>4, <3>5, <3>6, <3>7, <2>1, ReturnAfterAnswer DEF Outcomes
  <2>6. CASE ~(call.sent - call.from < UnitsMore)
    <3>1. call.sent = Len(call.data) => call.zero
      <4>1. call.sent - call.from = UnitsMore
        BY <2>6, <2>3, <1>1
      <4> QED
        BY <2>4, <4>1, Zenon
    <3>2. call.zero \/ call.sent < Len(call.data)
      BY <3>1, <1>1
    <3> QED
      BY <3>2, <2>1, <2>2, <2>6, <1>2, <1>7, PacketSent
  <2> QED
    BY <2>5, <2>6
<1> QED
  BY <1>2, <1>3, <1>4, <1>5, <1>6, <1>7 DEF WriteRequest, WritePacket

-----------------------------------------------------------------------------
(* SoE                                                                     *)

\* The number of fragments of n units, rounded up.
LEMMA Quotient ==
  ASSUME NEW n \in Nat \ {0}, NEW u \in Nat \ {0}
  PROVE  LET q == (n + u - 1) \div u IN q \in Nat \ {0} /\ (q - 1) * u < n /\ n <= q * u
OBVIOUS

\* The fragments of a content: how many there are and what each brings.
LEMMA FragmentsOf ==
  ASSUME NEW c \in Contents
  PROVE  LET N == Len(Fragments(c))
         IN  /\ N \in Nat \ {0} /\ (N - 1) * UnitsMore < Len(c) /\ Len(c) <= N * UnitsMore
             /\ Fragments(c) \in Seq(Messages)
             /\ \A i \in 1..N :
                  /\ Fragments(c)[i] \notin Reports
                  /\ Fragments(c)[i] = [kind |-> "SoE_data", data |-> UnitsFrom(c, (i - 1) * UnitsMore),
                                        last |-> i = N]
<1> DEFINE q == (Len(c) + UnitsMore - 1) \div UnitsMore
           f == [i \in 1..q |-> [kind |-> "SoE_data", data |-> UnitsFrom(c, (i - 1) * UnitsMore),
                                 last |-> i = q]]
<1>1. c \in Seq(Units) /\ Len(c) \in Nat \ {0} /\ UnitsMore \in Nat \ {0}
  BY ContentsAreSequences, CallAssumption DEF CallAssumption
<1>2. q \in Nat \ {0} /\ (q - 1) * UnitsMore < Len(c) /\ Len(c) <= q * UnitsMore
  BY <1>1, Quotient
<1>3. Fragments(c) = f
  BY DEF Fragments
<1> HIDE DEF q
<1>4. \A i \in 1..q : f[i] \in Messages /\ f[i] \notin Reports
  <2> TAKE i \in 1..q
  <2>1. PICK n : n = (i - 1) * UnitsMore
    OBVIOUS
  <2>2. n \in Nat /\ n <= Len(c)
    <3>1. (i - 1) * UnitsMore <= (q - 1) * UnitsMore /\ (i - 1) * UnitsMore \in Nat
      BY <1>1, <1>2
    <3> QED
      BY <3>1, <2>1, <1>1, <1>2
  <2>3. UnitsFrom(c, n) \in Seq(Units)
    BY <2>2, <1>1, UnitsFromAt
  <2> DEFINE d == UnitsFrom(c, n)
             b == i = q
  <2>4. f[i] = [kind |-> "SoE_data", data |-> d, last |-> b]
    BY <2>1
  <2>5. d \in Seq(Units) /\ b \in BOOLEAN
    BY <2>3
  <2> HIDE DEF d, b, f
  <2>6. f[i] \in Messages
    BY <2>4, <2>5 DEF Messages
  <2>7. f[i].kind = "SoE_data"
    BY <2>4
  <2> QED
    BY <2>6, <2>7 DEF Reports
<1>5. f \in Seq(Messages) /\ Len(f) = q
  <2>1. f \in [1..q -> Messages] /\ q \in Nat
    BY <1>2, <1>4
  <2> HIDE DEF f
  <2> QED
    BY <2>1
<1>6. \A i \in 1..q : f[i] = [kind |-> "SoE_data", data |-> UnitsFrom(c, (i - 1) * UnitsMore),
                              last |-> i = q]
  OBVIOUS
<1> HIDE DEF f
<1> QED
  BY <1>2, <1>3, <1>4, <1>5, <1>6

\* A part of a sequence, element by element.
LEMMA PartOf ==
  ASSUME NEW S, NEW s \in Seq(S), NEW a \in Nat, NEW b \in Nat, a <= b, b <= Len(s)
  PROVE  /\ SubSeq(s, a + 1, b) \in Seq(S) /\ Len(SubSeq(s, a + 1, b)) = b - a
         /\ \A i \in 1..(b - a) : SubSeq(s, a + 1, b)[i] = s[a + i]
<1>1. \A i \in 1..(b - a) : (a + 1) + i - 1 = a + i /\ s[a + i] \in S
  OBVIOUS
<1> QED
  BY <1>1, PartsJoin

\* The front of a sequence, element by element.
LEMMA FrontPart ==
  ASSUME NEW S, NEW s \in Seq(S), NEW b \in Nat, b <= Len(s)
  PROVE  /\ SubSeq(s, 1, b) \in Seq(S) /\ Len(SubSeq(s, 1, b)) = b
         /\ \A i \in 1..b : SubSeq(s, 1, b)[i] = s[i]
OBVIOUS

\* The rest of a sequence behind its j-th element, and what is behind that.
LEMMA RestOf ==
  ASSUME NEW S, NEW f \in Seq(S), NEW j \in Nat, j < Len(f)
  PROVE  LET s == SubSeq(f, j + 1, Len(f))
             t == SubSeq(f, j + 1 + 1, Len(f))
         IN  /\ s \in Seq(S) /\ s # <<>> /\ Head(s) = f[j + 1] /\ Tail(s) = t
             /\ j + 1 = Len(f) => t = <<>>
<1> DEFINE N == Len(f)
           s == SubSeq(f, j + 1, N)
           t == SubSeq(f, j + 1 + 1, N)
<1>1. N \in Nat /\ j < N /\ N <= Len(f) /\ j + 1 \in Nat /\ j <= N /\ j + 1 <= N
  OBVIOUS
<1> HIDE DEF N
<1>4. s \in Seq(S) /\ Len(s) = N - j /\ \A i \in 1..(N - j) : s[i] = f[j + i]
  BY <1>1, PartOf
<1>5. t \in Seq(S) /\ Len(t) = N - (j + 1) /\ \A i \in 1..(N - (j + 1)) : t[i] = f[(j + 1) + i]
  BY <1>1, PartOf
<1> HIDE DEF s, t
<1>6. s # <<>> /\ Head(s) = f[j + 1]
  BY <1>1, <1>4
<1>7. Tail(s) = t
  <2>1. Tail(s) \in Seq(S) /\ Len(Tail(s)) = N - (j + 1)
        /\ \A i \in 1..(N - (j + 1)) : Tail(s)[i] = s[i + 1]
    BY <1>1, <1>4
  <2>2. \A i \in 1..(N - (j + 1)) : s[i + 1] = f[(j + 1) + i]
    <3> TAKE i \in 1..(N - (j + 1))
    <3>1. i + 1 \in 1..(N - j) /\ j + (i + 1) = (j + 1) + i
      BY <1>1
    <3> QED
      BY <3>1, <1>4
  <2> DEFINE r == Tail(s)
  <2> HIDE DEF r
  <2>3. r \in Seq(S) /\ Len(r) = Len(t) /\ \A i \in 1..Len(r) : r[i] = t[i]
    BY <1>5, <2>1, <2>2 DEF r
  <2>4. r = t
    BY <1>5, <2>3, SameSequence
  <2> QED
    BY <2>4 DEF r
<1>8. j + 1 = N => t = <<>>
  BY <1>1, <1>5
<1> QED
  BY <1>4, <1>6, <1>7, <1>8 DEF s, t, N

\* The fragments from the j-th on: the first of them, and the others.
LEMMA FragmentsFromAt ==
  ASSUME NEW c \in Contents, NEW j \in Nat, j < Len(Fragments(c))
  PROVE  /\ FragmentsFrom(c, j) \in Seq(Messages) /\ FragmentsFrom(c, j) # <<>>
         /\ Head(FragmentsFrom(c, j)) = [kind |-> "SoE_data", data |-> UnitsFrom(c, j * UnitsMore),
                                         last |-> j + 1 = Len(Fragments(c))]
         /\ Tail(FragmentsFrom(c, j)) = FragmentsFrom(c, j + 1)
         /\ j + 1 = Len(Fragments(c)) => FragmentsFrom(c, j + 1) = <<>>
<1>1. /\ Fragments(c) \in Seq(Messages)
      /\ Fragments(c)[j + 1] = [kind |-> "SoE_data", data |-> UnitsFrom(c, j * UnitsMore),
                                last |-> j + 1 = Len(Fragments(c))]
  <2>1. PICK f : f = Fragments(c)
    OBVIOUS
  <2>2. Len(f) \in Nat /\ f \in Seq(Messages)
    BY <2>1, FragmentsOf
  <2>3. \A i \in 1..Len(f) : f[i] = [kind |-> "SoE_data", data |-> UnitsFrom(c, (i - 1) * UnitsMore),
                                     last |-> i = Len(f)]
    BY <2>1, FragmentsOf
  <2>4. j + 1 \in 1..Len(f) /\ (j + 1) - 1 = j
    BY <2>1, <2>2
  <2> DEFINE i == j + 1
  <2>5. i \in 1..Len(f) /\ i - 1 = j
    BY <2>4
  <2> HIDE DEF i
  <2>6. f[i] = [kind |-> "SoE_data", data |-> UnitsFrom(c, j * UnitsMore), last |-> i = Len(f)]
    BY <2>3, <2>5
  <2> QED
    BY <2>1, <2>2, <2>6 DEF i
<1> QED
  BY <1>1, RestOf DEF FragmentsFrom

\* Cutting a fragment to the rest of the buffer cuts the whole to the buffer.
LEMMA CutParts ==
  ASSUME NEW c \in Seq(Units), NEW n \in Nat, NEW m \in Nat, NEW room \in Nat, n <= m, m <= Len(c)
  PROVE  LET g == SubSeq(c, 1, Min2(room, n))
             d == SubSeq(c, n + 1, m)
         IN  /\ g \o SubSeq(d, 1, Min2(Len(d), room - Len(g))) = SubSeq(c, 1, Min2(room, m))
             /\ SubSeq(c, 1, Min2(room, m)) \in Seq(Units)
<1>5. PICK got : got = SubSeq(c, 1, Min2(room, n))
  OBVIOUS
<1>6. PICK d : d = SubSeq(c, n + 1, m)
  OBVIOUS
<1> DEFINE Goal == /\ got \o SubSeq(d, 1, Min2(Len(d), room - Len(got))) = SubSeq(c, 1, Min2(room, m))
                   /\ SubSeq(c, 1, Min2(room, m)) \in Seq(Units)
<1>1. d \in Seq(Units) /\ Len(d) = m - n /\ m - n \in Nat
  BY <1>6, PartsJoin
<1>2. ASSUME room <= n
      PROVE  Goal
  <2>1. Min2(room, n) = room /\ Min2(room, m) = room
    BY <1>2, MinOfTwo
  <2>2. got \in Seq(Units) /\ Len(got) = room
    BY <1>2, <1>5, <2>1, PartsJoin
  <2>3. Min2(Len(d), room - Len(got)) = 0
    <3>1. room - Len(got) = 0 /\ Len(d) \in Nat
      BY <1>1, <2>2
    <3>2. Min2(Len(d), 0) = 0
      BY <3>1, MinOfTwo
    <3> QED
      BY <3>1, <3>2
  <2>4. SubSeq(d, 1, 0) = <<>>
    BY <1>1
  <2>5. got \o <<>> = got
    BY <2>2, ConcatEmptySeq
  <2>6. got = SubSeq(c, 1, Min2(room, m))
    BY <1>5, <2>1
  <2> QED
    BY <2>2, <2>3, <2>4, <2>5, <2>6
<1>3. ASSUME room > n
      PROVE  Goal
  <2> DEFINE k == IF m <= room THEN m ELSE room
  <2>1. Min2(room, n) = n /\ Min2(room, m) = k
    BY <1>3, MinOfTwo
  <2>2. got \in Seq(Units) /\ Len(got) = n
    BY <1>3, <1>5, <2>1, PartsJoin
  <2>3. Min2(Len(d), room - Len(got)) = k - n
    <3>1. room - n \in Nat
      BY <1>3
    <3>2. Min2(m - n, room - n) = IF m - n <= room - n THEN m - n ELSE room - n
      BY <1>1, <3>1, MinOfTwo
    <3>3. Min2(m - n, room - n) = k - n
      BY <3>2
    <3> QED
      BY <1>1, <2>2, <3>3
  <2>4. k \in Nat /\ n <= k /\ k <= m
    BY <1>3
  <2> HIDE DEF k
  <2>5. SubSeq(d, 1, k - n) = SubSeq(c, n + 1, k)
    <3> DEFINE a == SubSeq(d, 1, k - n)
               b == SubSeq(c, n + 1, k)
    <3>1. a \in Seq(Units) /\ Len(a) = k - n /\ \A i \in 1..(k - n) : a[i] = d[i]
      <4> DEFINE h == k - n
      <4>1. h \in Nat /\ h <= Len(d)
        BY <1>1, <2>4
      <4> HIDE DEF h
      <4>2. /\ SubSeq(d, 1, h) \in Seq(Units) /\ Len(SubSeq(d, 1, h)) = h
            /\ \A i \in 1..h : SubSeq(d, 1, h)[i] = d[i]
        BY <1>1, <4>1, FrontPart
      <4> QED
        BY <4>2 DEF h
    <3>2. b \in Seq(Units) /\ Len(b) = k - n /\ \A i \in 1..(k - n) : b[i] = c[n + i]
      <4>1. k <= Len(c)
        BY <2>4
      <4> QED
        BY <2>4, <4>1, PartOf
    <3>3. \A i \in 1..(m - n) : d[i] = c[n + i]
      BY <1>6, PartOf
    <3> HIDE DEF a, b
    <3>4. \A i \in 1..Len(a) : a[i] = b[i]
      <4> TAKE i \in 1..Len(a)
      <4>1. i \in 1..(k - n) /\ i \in 1..(m - n)
        BY <3>1, <2>4
      <4> QED
        BY <4>1, <3>1, <3>2, <3>3
    <3>5. a = b
      BY <3>1, <3>2, <3>4, SameSequence
    <3> QED
      BY <3>5 DEF a, b
  <2>6. SubSeq(c, 1, n) \o SubSeq(c, n + 1, k) = SubSeq(c, 1, k) /\ SubSeq(c, 1, k) \in Seq(Units)
    <3>1. k <= Len(c)
      BY <2>4
    <3> QED
      BY <2>4, <3>1, PartsJoin
  <2>7. got = SubSeq(c, 1, n)
    BY <1>5, <2>1
  <2> QED
    BY <2>1, <2>3, <2>5, <2>6, <2>7
<1>4. room <= n \/ room > n
  OBVIOUS
<1>7. Goal
  BY <1>2, <1>3, <1>4, Zenon
<1> QED
  BY <1>5, <1>6, <1>7

\* ecx_SoEread with a fragment, or with a refusal.
LEMMA FragmentReceivedRead ==
  ASSUME Setting, Types, NEW e \in Seq(Messages), Turns(e), Flow(e), ReadMailbox, ~IsReport(out),
         UNCHANGED slave, FragmentsRead(call, session, store, e, Taken), FragmentReceived(out)
  PROVE  Advances
<1>1. /\ e # <<>> /\ out = Head(e) /\ Talking /\ ~Draining /\ Tail(e) \in Seq(Messages) /\ pc = "read"
      /\ call \in CallType /\ call.room \in Nat /\ call # Nothing /\ call.more \in BOOLEAN
      /\ out \in Messages /\ result = Nothing
  BY AnswerRead, CallFields DEF ReadMailbox
<1>2. Taken /\ call.op = ReadSoE /\ call.step = "request" /\ call.more = FALSE
  BY <1>1 DEF FragmentsRead
<1>3. ~Fresh
  BY <1>2 DEF Turns, Counting, Fresh, Taken
<1>4. CASE Declines(session, e, "SoE_error")
  <2>1. out = [kind |-> "SoE_error"]
    BY <1>1, <1>4, OneAnswer DEF Declines
  <2>2. Return("error", <<>>)
    BY <2>1, <1>2 DEF FragmentReceived, ExpectedSoE
  <2> QED
    BY <2>2, <1>2, <1>4, DeclineRead
<1>5. CASE Rejected(session, e)
  BY <1>1, <1>5 DEF Rejected
<1> DEFINE N == Len(Fragments(store))
<1>6. ASSUME NEW j \in 0..(N - 1), e = FragmentsFrom(store, j), session = NoSession,
             call.got = ReadSoFar(call, store, j)
      PROVE  Advances
  <2>1. /\ store \in Contents /\ store \in Seq(Units) /\ Len(store) \in Nat
        /\ N \in Nat \ {0} /\ (N - 1) * UnitsMore < Len(store) /\ Len(store) <= N * UnitsMore
        /\ UnitsMore \in Nat \ {0}
    BY ContentsAreSequences, FragmentsOf, CallAssumption DEF Types, CallAssumption
  <2> DEFINE u == UnitsFrom(store, j * UnitsMore)
             last_ == j + 1 = N
  <2>2. /\ out = [kind |-> "SoE_data", data |-> u, last |-> last_]
        /\ Tail(e) = FragmentsFrom(store, j + 1)
        /\ last_ => Tail(e) = <<>>
    <3>1. j \in Nat /\ j < N
      BY <2>1
    <3> QED
      BY <3>1, <2>1, <1>1, <1>6, FragmentsFromAt
  <2>3. session.kind = "none"
    BY <1>6 DEF NoSession
  <2> HIDE DEF N
  <2> DEFINE n == j * UnitsMore
             m == IF n + UnitsMore <= Len(store) THEN n + UnitsMore ELSE Len(store)
  <2>4. /\ n \in Nat /\ n <= (N - 1) * UnitsMore /\ (j + 1) * UnitsMore = n + UnitsMore
        /\ last_ => N * UnitsMore = n + UnitsMore
    BY <2>1
  <2> HIDE DEF n
  <2>5. /\ n <= Len(store) /\ m \in Nat /\ n <= m /\ m <= Len(store) /\ (last_ => m = Len(store))
    BY <2>1, <2>4
  <2>6. Min2(n + UnitsMore, Len(store)) = m /\ Min2(n, Len(store)) = n
    BY <2>1, <2>4, <2>5, MinOfTwo
  <2> HIDE DEF m
  <2> DEFINE got == CutFragment(call.got, u)
             cut == SubSeq(store, 1, Min2(call.room, m))
  <2>7. got = cut /\ cut \in Seq(Units)
    <3>1. call.got = SubSeq(store, 1, Min2(call.room, n))
      BY <1>6, <2>6 DEF ReadSoFar, n
    <3>2. u = SubSeq(store, n + 1, m)
      BY <2>6 DEF UnitsFrom, n
    <3> HIDE DEF u
    <3>3. PICK g, r : g = call.got /\ r = call.room
      OBVIOUS
    <3>4. /\ g \o SubSeq(u, 1, Min2(Len(u), r - Len(g))) = SubSeq(store, 1, Min2(r, m))
          /\ SubSeq(store, 1, Min2(r, m)) \in Seq(Units)
      <4>1. r \in Nat /\ g = SubSeq(store, 1, Min2(r, n))
        BY <3>1, <3>3, <1>1
      <4>2. g \in Seq(Units) /\ u \in Seq(Units)
        BY <3>2, <3>3, <1>1, <2>1, <2>4, <2>5, PartsJoin, CallFields
      <4>3. store \in Seq(Units) /\ n \in Nat /\ m \in Nat /\ n <= m /\ m <= Len(store)
        BY <2>1, <2>4, <2>5
      <4> QED
        BY <4>1, <4>3, <3>2, CutParts, ZenonT(30)
    <3> QED
      BY <3>3, <3>4 DEF CutFragment
  <2> HIDE DEF got, cut
  <2>8. ExpectedSoE(out) /\ out.last = last_ /\ got = CutFragment(call.got, out.data)
    BY <2>2, <1>2 DEF ExpectedSoE, got
  <2>9. CASE last_
    <3>1. Return("done", got)
      BY <2>8, <2>9 DEF FragmentReceived
    <3>2. got = IF Len(store) <= call.room THEN store ELSE SubSeq(store, 1, call.room)
      <4>1. m = Len(store)
        BY <2>5, <2>9
      <4>2. Min2(call.room, m) = IF call.room <= m THEN call.room ELSE m
        BY <1>1, <2>5, MinOfTwo
      <4>3. SubSeq(store, 1, Len(store)) = store
        BY <2>1, WholeSequence
      <4>4. CASE Len(store) <= call.room
        <5>1. Min2(call.room, m) = Len(store)
          BY <4>1, <4>2, <4>4, <1>1, <2>1
        <5> QED
          BY <5>1, <4>3, <4>4, <2>7 DEF cut
      <4>5. CASE ~(Len(store) <= call.room)
        <5>1. Min2(call.room, m) = call.room
          BY <4>1, <4>2, <4>5, <1>1, <2>1
        <5> QED
          BY <5>1, <4>5, <2>7 DEF cut
      <4> QED
        BY <4>4, <4>5
    <3>3. Promised("done", got)
      BY <3>2, <1>2, <2>3 DEF Promised, AtBusySlave, IsWrite, ReadSoE, WriteSDO, WriteFile, WriteSoE
    <3>4. Tail(e) = <<>>
      BY <2>2, <2>9
    <3> QED
      BY <3>1, <3>3, <3>4, <1>3, <2>3, ReturnAfterAnswer DEF Outcomes
  <2>10. CASE ~last_
    <3> DEFINE c == [call EXCEPT !.got = got]
    <3>1. /\ call' = c /\ pc' = "poll" /\ expired' = FALSE /\ UNCHANGED <<mbx_cnt, result>>
      BY <2>8, <2>10 DEF FragmentReceived
    <3>2. /\ c \in CallType /\ c.op = ReadSoE /\ c.step = "request" /\ c.got = got
          /\ c.room = call.room /\ c.data = call.data /\ c.more = FALSE
          /\ c.from = call.from /\ c.sent = call.sent
      BY <1>1, <1>2, <2>7 DEF CallType, Steps
    <3> HIDE DEF c
    <3>3. c # Nothing
      BY <3>2, NothingIsNoCall
    <3>4. /\ UNCHANGED <<inbox, queue, repeat, ack, seen, mishaps, store, session>>
          /\ out' = Nothing /\ last' = out
      BY DEF ReadMailbox, slave
    <3>5. FragmentsRead(c, session, store, Tail(e), TRUE)
      <4>1. ReadSoFar(c, store, j + 1) = got
        BY <2>4, <2>6, <2>7, <3>2 DEF ReadSoFar, cut
      <4>2. j + 1 \in 0..(N - 1)
        BY <2>1, <2>10
      <4> QED
        BY <4>1, <4>2, <1>6, <2>2, <3>2 DEF FragmentsRead, N
    <3>6. ~Draining' /\ Talking' /\ Fresh' = Fresh /\ Taken' = TRUE /\ First' = TRUE /\ ~Early' /\ ~Early
      BY <1>1, <1>2, <3>1, <3>2, <3>3, <3>4 DEF Draining, Talking, Fresh, Taken, First, Early
    <3>7. Request' = Request
      BY <3>1, <3>2, <1>2 DEF Request, IsSDO, IsSoE, SoERequest, ReadSDO, WriteSDO, ReadSoE, WriteSoE
    <3>8. Types'
      BY <3>1, <3>2, <3>4, <1>1 DEF Types, Waiting
    <3>9. Calling'
      BY <3>1, <3>2, <3>3, <3>6, <1>1, <1>2 DEF Turns, Calling, Waiting, ReadSoE, WriteSoE
    <3>10. Counting'
      BY <3>1, <3>4, <1>1 DEF Turns, Counting
    <3>11. Requested'
      BY <3>1, <3>4, <3>6, <3>7, <1>1, <1>3 DEF Turns, Requested
    <3>12. Talk(Tail(e))'
      <4>1. Conversation(call', session', store', Tail(e), Taken')
        BY <3>1, <3>4, <3>5, <3>6 DEF Conversation
      <4> QED
        BY <4>1, <3>6 DEF Talk
    <3>13. Flow(Tail(e))'
      BY <3>1, <3>6, <3>8, FlowAfterAnswer
    <3>14. UNCHANGED Object!vars
      <4>1. call' # Nothing /\ call'.op = call.op /\ call'.data = call.data /\ call'.room = call.room
        BY <1>2, <3>1, <3>2, <3>3
      <4>2. Asked' = Asked
        BY <4>1, <1>1 DEF Asked
      <4>3. Told' = Told
        BY <1>1, <3>1 DEF Told
      <4> QED
        BY <4>2, <4>3, <3>4 DEF Object!vars
    <3> QED
      BY <3>8, <3>9, <3>10, <3>11, <3>12, <3>13, <3>14, <1>1 DEF Advances, Becomes, Turns
  <2> QED
    BY <2>9, <2>10
<1> QED
  BY <1>2, <1>4, <1>5, <1>6 DEF FragmentsRead

\* The answer to a write, which may have come before the last fragment is taken.
LEMMA FragmentsWrittenRead ==
  ASSUME Setting, Types, NEW e \in Seq(Messages), Turns(e), Flow(e), ReadMailbox, ~IsReport(out),
         UNCHANGED slave, FragmentsWritten(call, session, store, e, Taken),
         Return(IF ExpectedSoE(out) THEN "done" ELSE "error", <<>>)
  PROVE  Advances
<1>1. /\ e # <<>> /\ out = Head(e) /\ Talking /\ ~Draining /\ pc = "read"
      /\ call \in CallType /\ call # Nothing /\ ~(call.op = WriteSoE /\ call.more)
  BY AnswerRead, CallFields DEF ReadMailbox
<1>2. call.op = WriteSoE /\ call.step = "segment" /\ ~call.more
  BY <1>1 DEF FragmentsWritten
<1>3. ASSUME e = <<[kind |-> "SoE_error"]>>
      PROVE  Return("error", <<>>) /\ Tail(e) = <<>>
  <2>1. out = [kind |-> "SoE_error"] /\ Tail(e) = <<>>
    BY <1>1, <1>3, OneAnswer
  <2>2. ~ExpectedSoE(out)
    BY <2>1, <1>2 DEF ExpectedSoE, ReadSoE, WriteSoE
  <2> QED
    BY <2>1, <2>2
<1>4. CASE Taken /\ Declines(session, e, "SoE_error")
  <2>1. Return("error", <<>>)
    BY <1>3, <1>4 DEF Declines
  <2> QED
    BY <2>1, <1>4, DeclineRead
<1>5. CASE Taken /\ e = <<[kind |-> "SoE_ack"]>> /\ store = call.data /\ session = NoSession
  <2>1. out = [kind |-> "SoE_ack"] /\ Tail(e) = <<>>
    BY <1>1, <1>5, OneAnswer
  <2>2. Return("done", <<>>)
    BY <2>1, <1>2 DEF ExpectedSoE, ReadSoE, WriteSoE
  <2>3. session.kind = "none"
    BY <1>5 DEF NoSession
  <2>4. Promised("done", <<>>)
    BY <1>2, <1>5, <2>3 DEF Promised, AtBusySlave, IsWrite
  <2>5. ~Fresh
    BY <1>5 DEF Turns, Counting, Fresh, Taken
  <2> QED
    BY <2>1, <2>2, <2>3, <2>4, <2>5, ReturnAfterAnswer DEF Outcomes
<1>6. CASE ~Taken /\ RefusesRest(session, e) /\ call.from # 0
  <2>1. Return("error", <<>>) /\ Tail(e) = <<>>
    BY <1>3, <1>6 DEF RefusesRest
  <2>2. session.kind = "SoE_ignoring" /\ Refusable
    BY <1>6 DEF RefusesRest, NoSession
  <2>3. inbox # Nothing /\ Fresh
    BY <1>1, <1>6 DEF Turns, Counting, Fresh, Taken
  <2>4. ~Early
    BY <1>1 DEF Early
  <2>5. inbox = Request
    BY <1>1, <2>3, <2>4 DEF Turns, Requested
  <2>6. Leftover
    BY <1>2, <2>2, <2>5 DEF Leftover, Request, IsSDO, IsSoE, SoERequest, ReadSDO, WriteSDO, ReadSoE, WriteSoE
  <2>7. Promised("error", <<>>)
    BY <2>2 DEF Promised
  <2> QED
    BY <2>1, <2>2, <2>3, <2>6, <2>7, ReturnAfterAnswer DEF Outcomes
<1>7. CASE Taken /\ Rejected(session, e)
  BY <1>1, <1>7 DEF Rejected
<1> QED
  BY <1>1, <1>2, <1>4, <1>5, <1>6, <1>7 DEF FragmentsWritten

-----------------------------------------------------------------------------
(* Every message that is read                                              *)

\* Every message that is read.
LEMMA ReadsKept ==
  ASSUME Setting, Types, NEW e \in Seq(Messages), Turns(e), Flow(e), ReadMailbox, UNCHANGED slave,
         IF IsReport(out) THEN Goto(IF expired THEN "avail" ELSE "read") ELSE Received(out)
  PROVE  Advances
<1>1. CASE IsReport(out)
  <2>1. Becomes(e)
    BY <1>1, ReportReadKept DEF Becomes
  <2>2. Up => UNCHANGED Object!vars
    BY <1>1, SameObject DEF Goto, slave
  <2> QED
    BY <2>1, <2>2 DEF Advances
<1>2. CASE ~IsReport(out)
  <2>1. Received(out) /\ Conversation(call, session, store, e, Taken) /\ out # Nothing
    BY <1>2, AnswerRead, NothingIsNoMessage
  <2>2. CASE FirstUpload(call, session, store, e, Taken)
    <3>1. call.op = ReadSDO /\ call.step = "request"
      BY <2>2 DEF FirstUpload
    <3>2. UploadBegins(out)
      BY <2>1, <3>1 DEF Received, IsSDO, IsSoE, SDOReceived, ReadSDO, WriteSDO, ReadFile, WriteFile, ReadSoE, WriteSoE
    <3> QED
      BY <3>2, <2>2, <1>2, FirstUploadRead
  <2>3. CASE NextUpload(call, session, store, e, Taken)
    <3>1. call.op = ReadSDO /\ call.step = "segment"
      BY <2>3 DEF NextUpload
    <3>2. UploadContinues(out)
      BY <2>1, <3>1 DEF Received, IsSDO, IsSoE, SDOReceived, ReadSDO, WriteSDO, ReadFile, WriteFile, ReadSoE, WriteSoE
    <3> QED
      BY <3>2, <2>3, <1>2, NextUploadRead
  <2>4. CASE FirstDownload(call, session, store, e, Taken)
    <3>1. call.op = WriteSDO /\ call.step = "request"
      BY <2>4 DEF FirstDownload
    <3>2. DownloadBegins(out)
      BY <2>1, <3>1 DEF Received, IsSDO, IsSoE, SDOReceived, ReadSDO, WriteSDO, ReadFile, WriteFile, ReadSoE, WriteSoE
    <3> QED
      BY <3>2, <2>4, <1>2, FirstDownloadRead
  <2>5. CASE NextDownload(call, session, store, e, Taken)
    <3>1. call.op = WriteSDO /\ call.step = "segment"
      BY <2>5 DEF NextDownload
    <3>2. DownloadContinues(out)
      BY <2>1, <3>1 DEF Received, IsSDO, IsSoE, SDOReceived, ReadSDO, WriteSDO, ReadFile, WriteFile, ReadSoE, WriteSoE
    <3> QED
      BY <3>2, <2>5, <1>2, NextDownloadRead
  <2>6. CASE FirstPacket(call, session, store, e, Taken)
    <3>1. call.op = ReadFile /\ call.step = "request"
      BY <2>6 DEF FirstPacket
    <3>2. FileContinues(out)
      BY <2>1, <3>1 DEF Received, IsSDO, IsSoE, FoEReceived, ReadSDO, WriteSDO, ReadFile, WriteFile, ReadSoE, WriteSoE
    <3> QED
      BY <3>2, <2>6, <1>2, FileContinuesRead
  <2>7. CASE LaterPacket(call, session, store, e, Taken)
    <3>1. call.op = ReadFile /\ call.step = "ack"
      BY <2>7 DEF LaterPacket
    <3>2. FileContinues(out)
      BY <2>1, <3>1 DEF Received, IsSDO, IsSoE, FoEReceived, ReadSDO, WriteSDO, ReadFile, WriteFile, ReadSoE, WriteSoE
    <3> QED
      BY <3>2, <2>7, <1>2, FileContinuesRead
  <2>8. CASE WriteRequest(call, session, store, e, Taken)
    <3>1. call.op = WriteFile /\ call.step = "request"
      BY <2>8 DEF WriteRequest
    <3>2. Acknowledged(out)
      BY <2>1, <3>1 DEF Received, IsSDO, IsSoE, FoEReceived, ReadSDO, WriteSDO, ReadFile, WriteFile, ReadSoE, WriteSoE
    <3> QED
      BY <3>2, <2>8, <1>2, AcknowledgedRead
  <2>9. CASE WritePacket(call, session, store, e, Taken)
    <3>1. call.op = WriteFile /\ call.step = "data"
      BY <2>9 DEF WritePacket
    <3>2. Acknowledged(out)
      BY <2>1, <3>1 DEF Received, IsSDO, IsSoE, FoEReceived, ReadSDO, WriteSDO, ReadFile, WriteFile, ReadSoE, WriteSoE
    <3> QED
      BY <3>2, <2>9, <1>2, AcknowledgedRead
  <2>10. CASE FragmentsRead(call, session, store, e, Taken)
    <3>1. call.op = ReadSoE /\ call.step = "request"
      BY <2>10 DEF FragmentsRead
    <3>2. FragmentReceived(out)
      BY <2>1, <3>1 DEF Received, IsSDO, IsSoE, SoEReceived, ReadSDO, WriteSDO, ReadFile, WriteFile, ReadSoE, WriteSoE
    <3> QED
      BY <3>2, <2>10, <1>2, FragmentReceivedRead
  <2>11. CASE FragmentsWritten(call, session, store, e, Taken)
    <3>1. call.op = WriteSoE /\ call.step = "segment"
      BY <2>11 DEF FragmentsWritten
    <3>2. Return(IF ExpectedSoE(out) THEN "done" ELSE "error", <<>>)
      BY <2>1, <3>1 DEF Received, IsSDO, IsSoE, SoEReceived, ReadSDO, WriteSDO, ReadFile, WriteFile, ReadSoE, WriteSoE
    <3> QED
      BY <3>2, <2>11, <1>2, FragmentsWrittenRead
  <2> QED
    BY <2>1, <2>2, <2>3, <2>4, <2>5, <2>6, <2>7, <2>8, <2>9, <2>10, <2>11 DEF Conversation
<1> QED
  BY <1>1, <1>2

-----------------------------------------------------------------------------
(* The other steps of the master                                           *)

\* A request has been written: the call waits, or is over with the last
\* acknowledge.
LEMMA SentAdvances ==
  ASSUME Setting, Types, NEW e \in Seq(Messages), Turns(e), Flow(e),
         pc \in {"send", "send_again"}, inbox = Nothing, inbox' = Request, Sent(TRUE),
         UNCHANGED <<out, queue, last, repeat, ack, seen, mishaps, store, session>>
  PROVE  Advances
<1>1. Becomes(e)
  BY SentKept DEF Becomes
<1>2. Talking /\ Conversation(call, session, store, e, Taken)
  BY SendingIsTalking
<1>3. CASE UNCHANGED <<call, result>>
  BY <1>1, <1>3, SameObject DEF Advances
<1>4. CASE ~UNCHANGED <<call, result>>
  <2>1. call.op = ReadFile /\ call.step = "ack" /\ ~call.more /\ Return("done", call.got)
    <3>1. ~IsSDO /\ ~IsSoE /\ call.step = "ack" /\ ~call.more /\ Return("done", call.got)
      BY <1>4 DEF Sent, SDOSent, SoESent, FoESent, Await
    <3> QED
      BY <3>1, <1>2, ConversationSteps DEF IsSDO, IsSoE, ReadSDO, WriteSDO, ReadFile, WriteFile, ReadSoE, WriteSoE
  <2>2. LaterPacket(call, session, store, e, Taken)
    BY <1>2, <2>1 DEF Conversation, FirstUpload, NextUpload, FirstDownload, NextDownload, FirstPacket,
       WriteRequest, WritePacket, FragmentsRead, FragmentsWritten,
       ReadSDO, WriteSDO, ReadFile, WriteFile, ReadSoE, WriteSoE
  <2>3. call.got = store /\ Len(store) <= call.room
    BY <2>1, <2>2 DEF LaterPacket
  <2>4. Promised("done", call.got)
    BY <2>1, <2>3 DEF Promised, AtBusySlave, IsWrite, ReadFile, WriteSDO, WriteFile, WriteSoE
  <2>5. Up => Object!Next
    BY <1>2, <2>1, <2>4, PromiseKept DEF Turns
  <2> QED
    BY <1>1, <2>5 DEF Advances
<1> QED
  BY <1>3, <1>4

\* The slave has taken a fragment that is not the last.
LEMMA FragmentTakenKept ==
  ASSUME Setting, Types, NEW e \in Seq(Messages), Turns(e), Flow(e), FragmentTaken, UNCHANGED slave
  PROVE  Advances
<1>1. /\ pc = "empty" /\ inbox = Nothing /\ NextFragment
      /\ UNCHANGED <<inbox, out, queue, last, repeat, ack, seen, mishaps, store, session>>
  BY DEF FragmentTaken, mailboxes, slave
<1>2. /\ Talking /\ ~expired /\ Conversation(call, session, store, e, Taken)
      /\ call.op = WriteSoE /\ call.more /\ ~Draining
  BY <1>1, SendingIsTalking DEF Turns, Calling, Talking, Draining
<1>3. /\ call \in CallType /\ call.sent \in Nat /\ call.from \in Nat /\ call.from <= call.sent
      /\ call.sent <= Len(call.data) /\ Len(call.data) \in Nat /\ call # Nothing /\ result = Nothing
  BY <1>2, CallFields
<1>4. Taken
  BY <1>1 DEF Turns, Counting, Taken
<1>5. FragmentsWritten(call, session, store, e, TRUE)
  <2>1. FragmentsWritten(call, session, store, e, Taken)
    BY <1>2 DEF Conversation, FirstUpload, NextUpload, FirstDownload, NextDownload, FirstPacket,
       LaterPacket, WriteRequest, WritePacket, FragmentsRead,
       ReadSDO, WriteSDO, ReadFile, WriteFile, ReadSoE, WriteSoE
  <2> QED
    BY <2>1, <1>4 DEF FragmentsWritten
<1>6. /\ call.from < call.sent /\ call.sent < Len(call.data)
      /\ \/ e = <<>> /\ session = Session("SoE_write", SubSeq(call.data, 1, call.sent), 0, 0, FALSE, 0)
         \/ RefusesRest(session, e)
  <2>1. call.sent # Len(call.data)
    BY <1>2, <1>5, Zenon DEF FragmentsWritten
  <2> QED
    <3>1. call.from < call.sent /\ call.sent < Len(call.data)
      BY <2>1, <1>3, <1>5 DEF FragmentsWritten
    <3>2. \/ e = <<>> /\ session = Session("SoE_write", SubSeq(call.data, 1, call.sent), 0, 0, FALSE, 0)
          \/ RefusesRest(session, e)
      BY <1>2, <1>5, Zenon DEF FragmentsWritten
    <3> QED
      BY <3>1, <3>2
<1> DEFINE to == Min2(call.sent + UnitsMore, Len(call.data))
           more == to < Len(call.data)
           c == [call EXCEPT !.step = "segment", !.from = call.sent, !.sent = to, !.more = more]
<1>7. Compose(c)
  BY <1>1 DEF NextFragment
<1>8. /\ to \in Nat /\ call.sent < to /\ to <= Len(call.data) /\ more \in BOOLEAN
      /\ more = (to # Len(call.data))
  <2>1. PICK n, k : n = call.sent /\ k = Len(call.data)
    OBVIOUS
  <2>2. n \in Nat /\ k \in Nat /\ n < k /\ n <= k /\ to = Min2(n + UnitsMore, k)
    BY <2>1, <1>3, <1>6
  <2> HIDE DEF to
  <2>3. Min2(n + UnitsMore, k) \in Nat /\ n < Min2(n + UnitsMore, k) /\ Min2(n + UnitsMore, k) <= k
    BY <2>2, ChunkEnds, CallAssumption DEF CallAssumption
  <2>4. to \in Nat /\ n < to /\ to <= k
    BY <2>2, <2>3
  <2>5. (to < k) = (to # k)
    BY <2>2, <2>4
  <2> QED
    BY <2>1, <2>4, <2>5
<1> HIDE DEF to, more
<1>9. /\ c \in CallType /\ c.op = WriteSoE /\ c.step = "segment" /\ c.from = call.sent
      /\ c.sent = to /\ c.more = more /\ c.data = call.data /\ c.room = call.room
  <2> DEFINE a == [call EXCEPT !.step = "segment", !.from = call.sent]
  <2>1. /\ a \in CallType /\ a.op = call.op /\ a.step = "segment" /\ a.from = call.sent
        /\ a.room = call.room /\ a.data = call.data
    BY <1>3 DEF CallType, Steps
  <2>2. c = [a EXCEPT !.sent = to, !.more = more]
    OBVIOUS
  <2> HIDE DEF a, c
  <2> QED
    BY <2>1, <2>2, <1>2, <1>8 DEF CallType
<1> HIDE DEF c
<1>10. FragmentsWritten(c, session, store, e, FALSE)
  <2>1. c.from < c.sent /\ c.from # 0
    BY <1>3, <1>6, <1>8, <1>9
  <2>2. c.more = (c.sent # Len(c.data))
    BY <1>8, <1>9, Zenon
  <2> QED
    BY <2>1, <2>2, <1>6, <1>9 DEF FragmentsWritten
<1>11. Conversation(c, session, store, e, FALSE)
  BY <1>10 DEF Conversation
<1>12. Turns(e)' /\ ~Draining'
  <2>1. c.step # "request" /\ c.from # 0 /\ c.from <= c.sent /\ c.sent <= Len(c.data)
    BY <1>3, <1>6, <1>8, <1>9
  <2> QED
    BY <2>1, <1>1, <1>2, <1>3, <1>4, <1>7, <1>9, <1>11, RequestComposed
<1>13. /\ call' = c /\ mbx_cnt' = nextmbxcnt /\ pc' = "send" /\ expired' = FALSE /\ result' = result
  BY <1>7 DEF Compose
<1>14. Types'
  BY <1>1, <1>9, <1>13, NextCounter DEF Types
<1>15. Flow(e)'
  BY <1>1, <1>12, <1>13, FlowKept
<1>16. UNCHANGED Object!vars
  <2>1. call' # Nothing /\ call'.op = call.op /\ call'.data = call.data /\ call'.room = call.room
    BY <1>2, <1>9, <1>13, NothingIsNoCall
  <2>2. Asked' = Asked
    BY <2>1, <1>3 DEF Asked
  <2>3. Told' = Told
    BY <1>3, <1>13 DEF Told
  <2> QED
    BY <2>2, <2>3, <1>1 DEF Object!vars
<1> QED
  BY <1>12, <1>14, <1>15, <1>16 DEF Advances, Becomes

\* Every step within ecx_mbxsend and ecx_mbxreceive that reads no message.
LEMMA WorksKept ==
  ASSUME Setting, stopped = FALSE, Types, NEW e \in Seq(Messages), Turns(e), Flow(e), Works
  PROVE  Advances
<1>1. UNCHANGED slave /\ UNCHANGED <<store, session>>
  BY DEF Works, slave
<1>2. ASSUME Becomes(e), UNCHANGED <<call, result>>
      PROVE  Advances
  BY <1>1, <1>2, SameObject DEF Advances
<1>3. CASE WriteMailbox(Request) /\ Sent(TRUE)
  BY <1>1, <1>3, SentAdvances DEF WriteMailbox
<1>4. CASE WriteUnanswered(Request)
  BY <1>1, <1>2, <1>4, WriteUnansweredKept DEF WriteUnanswered, Goto, Becomes
<1>5. CASE \E ok \in BOOLEAN : WriteAgain(Request, ok) /\ Sent(ok)
  <2>1. WriteAgain(Request, TRUE) /\ Sent(TRUE)
    BY <1>5, NeverUnsent
  <2> QED
    BY <2>1, <1>1, SentAdvances DEF WriteAgain
<1>6. CASE SendGivesUp /\ Sent(FALSE)
  BY <1>6, NeverUnsent
<1>7. CASE FragmentTaken
  BY <1>1, <1>7, FragmentTakenKept
<1>8. CASE FragmentNotTaken
  BY <1>8, NeverUnsent
<1>9. CASE PollFull
  BY <1>1, <1>2, <1>9, PollFullKept DEF PollFull, Goto, Becomes
<1>10. CASE ReadUnanswered
  BY <1>1, <1>2, <1>10, ReadUnansweredKept DEF ReadUnanswered, Goto, Becomes
<1>11. CASE ReadEmpty
  BY <1>1, <1>2, <1>11, ReadEmptyKept DEF ReadEmpty, Goto, Becomes
<1>12. CASE Toggle
  BY <1>1, <1>2, <1>12, ToggleKept DEF Toggle, Goto, Becomes
<1>13. CASE AckSeen
  BY <1>1, <1>2, <1>13, AckSeenKept DEF AckSeen, Goto, Becomes
<1>14. CASE Available /\ ReadsAgain
  BY <1>1, <1>2, <1>14, ReadsAgainKept DEF ReadsAgain, Goto, Becomes
<1> QED
  BY <1>3, <1>4, <1>5, <1>6, <1>7, <1>8, <1>9, <1>10, <1>11, <1>12, <1>13, <1>14 DEF Works

\* Every step of the slave's mailboxes, and of the timer.
LEMMA MailsKept ==
  ASSUME Setting, stopped = FALSE, Types, NEW e \in Seq(Messages), Turns(e), Flow(e), Mails \/ TimePasses
  PROVE  Advances
<1>1. UNCHANGED slave /\ UNCHANGED <<store, session>>
  BY DEF Mails, TimePasses, slave
<1>2. ASSUME Becomes(e), UNCHANGED <<call, result>>
      PROVE  Advances
  BY <1>1, <1>2, SameObject DEF Advances
<1>3. CASE Post
  BY <1>1, <1>2, <1>3, PostKept DEF Post, master, Becomes
<1>4. CASE Repeats
  BY <1>1, <1>2, <1>4, RepeatsKept DEF Repeats, master, Becomes
<1>5. CASE IgnoresRepetition
  BY <1>1, <1>2, <1>5, IgnoresRepetitionKept DEF IgnoresRepetition, master, Becomes
<1>6. CASE SendsReport
  BY <1>1, <1>2, <1>6, SendsReportKept DEF SendsReport, master, Becomes
<1>7. CASE Expire
  BY <1>1, <1>2, <1>7, ExpireKept DEF Expire, Becomes
<1>8. ~Stops
  BY DEF Stops, Happens, Setting
<1> QED
  BY <1>3, <1>4, <1>5, <1>6, <1>7, <1>8 DEF Mails, TimePasses

-----------------------------------------------------------------------------
(* ecx_mbxreceive ends without a message                                    *)

\* The OUT mailbox is empty, and the first request is sent.
LEMMA FirstRequest ==
  ASSUME Setting, Types, Turns(<<>>), Flow(<<>>), Draining, pc \in {"poll", "avail"},
         UNCHANGED <<mailboxes, mishaps, slave>>,
         NEW c \in CallType, Compose(c), Conversation(c, session, store, <<>>, FALSE),
         c.step = "request" \/ (c.op = WriteSoE /\ c.from = 0),
         c.op = call.op, c.data = call.data, c.room = call.room,
         c.from <= c.sent, c.sent <= Len(c.data)
  PROVE  Advances
<1>1. /\ UNCHANGED <<inbox, out, queue, last, repeat, ack, seen, mishaps, store, session>>
      /\ call # Nothing /\ result = Nothing
  BY DEF mailboxes, slave, Draining, Turns, Calling
<1>2. Turns(<<>>)' /\ ~Draining'
  BY <1>1, RequestComposed
<1>3. /\ call' = c /\ mbx_cnt' = nextmbxcnt /\ pc' = "send" /\ expired' = FALSE /\ result' = result
  BY DEF Compose
<1>4. Types'
  BY <1>1, <1>3, NextCounter DEF Types
<1>5. Flow(<<>>)'
  BY <1>1, <1>2, <1>3, FlowKept
<1>6. UNCHANGED Object!vars
  <2>1. call' # Nothing /\ call'.op = call.op /\ call'.data = call.data /\ call'.room = call.room
    BY <1>3, NothingIsNoCall
  <2>2. Asked' = Asked
    BY <2>1, <1>1 DEF Asked
  <2>3. Told' = Told
    BY <1>1, <1>3 DEF Told
  <2> QED
    BY <2>2, <2>3, <1>1 DEF Object!vars
<1> QED
  BY <1>2, <1>4, <1>5, <1>6, OneAnswer DEF Advances, Becomes

\* The first chunk of a write.
LEMMA FirstChunk ==
  ASSUME Setting, NEW k \in Nat \ {0}, NEW u \in Nat \ {0}
  PROVE  /\ Min2(0 + u, k) \in Nat /\ 0 < Min2(0 + u, k) /\ Min2(0 + u, k) <= k
<1>1. 0 <= k /\ 0 < k /\ 0 \in Nat /\ k \in Nat
  OBVIOUS
<1> QED
  BY <1>1, ChunkEnds

\* The call has emptied the OUT mailbox, and begins.
LEMMA DrainedKept ==
  ASSUME Setting, Types, NEW e \in Seq(Messages), Turns(e), Flow(e), Draining, pc \in {"poll", "avail"},
         UNCHANGED <<mailboxes, mishaps, slave>>, Received(Nothing)
  PROVE  Advances
<1>1. e = <<>>
  BY DEF Turns, Talk, Draining, Talking
<1>2. Turns(<<>>) /\ Flow(<<>>)
  BY <1>1
<1>3. /\ call \in CallType /\ call.step = "drain" /\ call.op \in Ops
      /\ call.data \in Seq(Units) /\ Len(call.data) \in Nat /\ call.room \in Nat
      /\ IsWrite(call.op) => Len(call.data) > 0
  BY ContentsAreSequences DEF Draining, Types, CallType, Turns, Calling
<1>4. /\ call.got = <<>> /\ call.more = FALSE /\ call.from = 0 /\ call.sent = 0
      /\ call.toggle = FALSE /\ call.packet = 0 /\ call.zero = FALSE
  <2>1. call = NewCall(call.op, call.data, call.room)
    BY DEF Turns, Calling
  <2>2. PICK o, d, r : o = call.op /\ d = call.data /\ r = call.room
    OBVIOUS
  <2>3. call = NewCall(o, d, r)
    BY <2>1, <2>2
  <2> QED
    BY <2>3 DEF NewCall
<1> USE DEF ReadSDO, WriteSDO, ReadFile, WriteFile, ReadSoE, WriteSoE
<1> DEFINE r == [call EXCEPT !.step = "request"]
<1>5. /\ r \in CallType /\ r.op = call.op /\ r.data = call.data /\ r.room = call.room /\ r.step = "request"
      /\ r.got = <<>> /\ r.more = FALSE /\ r.from = 0 /\ r.sent = 0
      /\ r.toggle = FALSE /\ r.packet = 0 /\ r.zero = FALSE
  BY <1>3, <1>4 DEF CallType, Steps
<1>6. ASSUME Compose(r), Conversation(r, session, store, <<>>, FALSE)
      PROVE  Advances
  <2> HIDE DEF r
  <2>1. r.from <= r.sent /\ r.sent <= Len(r.data)
    BY <1>3, <1>5
  <2> QED
    BY <2>1, <1>2, <1>5, <1>6, FirstRequest
<1> DEFINE first == Min2(call.sent + UnitsFirst, Len(call.data))
           more == first < Len(call.data)
           w == [r EXCEPT !.from = call.sent, !.sent = first, !.more = more]
           to == Min2(call.sent + UnitsMore, Len(call.data))
           rest == to < Len(call.data)
           f == [call EXCEPT !.step = "segment", !.from = call.sent, !.sent = to, !.more = rest]
<1>7. CASE call.op = ReadSDO
  <2>1. Compose(r)
    BY <1>3, <1>7 DEF Received, IsSDO, SDOReceived, SDOBegins
  <2>2. FirstUpload(r, session, store, <<>>, FALSE)
    <3> HIDE DEF r
    <3> QED
      BY <1>5, <1>7 DEF FirstUpload
  <2> QED
    BY <2>1, <2>2, <1>6 DEF Conversation
<1>8. CASE call.op = ReadFile
  <2>1. Compose(r)
    BY <1>3, <1>8 DEF Received, IsSDO, IsSoE, FoEReceived
  <2>2. FirstPacket(r, session, store, <<>>, FALSE)
    <3> HIDE DEF r
    <3> QED
      BY <1>5, <1>8 DEF FirstPacket
  <2> QED
    BY <2>1, <2>2, <1>6 DEF Conversation
<1>9. CASE call.op = WriteFile
  <2>1. Compose(r)
    BY <1>3, <1>9 DEF Received, IsSDO, IsSoE, FoEReceived
  <2>2. WriteRequest(r, session, store, <<>>, FALSE)
    <3> HIDE DEF r
    <3> QED
      BY <1>5, <1>9 DEF WriteRequest
  <2> QED
    BY <2>1, <2>2, <1>6 DEF Conversation
<1>10. CASE call.op = ReadSoE
  <2>1. Compose(r)
    BY <1>3, <1>10 DEF Received, IsSDO, IsSoE, SoEReceived, SoEBegins
  <2>2. FragmentsRead(r, session, store, <<>>, FALSE)
    <3> HIDE DEF r
    <3> QED
      BY <1>5, <1>10 DEF FragmentsRead
  <2> QED
    BY <2>1, <2>2, <1>6 DEF Conversation
<1>11. CASE call.op = WriteSDO
  <2>1. Compose([NextChunk(call, UnitsFirst) EXCEPT !.step = "request"])
    BY <1>3, <1>11 DEF Received, IsSDO, SDOReceived, SDOBegins
  <2>2. [NextChunk(call, UnitsFirst) EXCEPT !.step = "request"] = w
    <3> HIDE DEF first, more
    <3>1. NextChunk(call, UnitsFirst) = [call EXCEPT !.from = call.sent, !.sent = first, !.more = more]
      BY DEF NextChunk, first, more
    <3> QED
      BY <3>1, <1>3 DEF CallType
  <2>3. first \in Nat /\ 0 < first /\ first <= Len(call.data) /\ more \in BOOLEAN /\ more = (first # Len(call.data))
    <3>1. PICK k : k = Len(call.data)
      OBVIOUS
    <3>2. k \in Nat \ {0}
      BY <3>1, <1>3, <1>11 DEF IsWrite
    <3>3. Min2(0 + UnitsFirst, k) \in Nat /\ 0 < Min2(0 + UnitsFirst, k) /\ Min2(0 + UnitsFirst, k) <= k
      BY <3>2, FirstChunk, CallAssumption DEF CallAssumption
    <3>4. first = Min2(0 + UnitsFirst, k)
      BY <3>1, <1>4
    <3> HIDE DEF first
    <3>5. more = (first # Len(call.data)) /\ more \in BOOLEAN
      BY <3>1, <3>2, <3>3, <3>4
    <3> QED
      BY <3>1, <3>3, <3>4, <3>5
  <2> HIDE DEF first, more, r
  <2>4. /\ w \in CallType /\ w.op = WriteSDO /\ w.step = "request" /\ w.from = 0 /\ w.sent = first
        /\ w.more = more /\ w.toggle = FALSE /\ w.data = call.data /\ w.room = call.room
    BY <1>4, <1>5, <1>11, <2>3 DEF CallType
  <2> HIDE DEF w
  <2>5. FirstDownload(w, session, store, <<>>, FALSE)
    <3>1. w.more = (w.sent # Len(w.data))
      BY <2>3, <2>4, Zenon
    <3> QED
      BY <3>1, <2>4 DEF FirstDownload
  <2>6. Conversation(w, session, store, <<>>, FALSE)
    BY <2>5 DEF Conversation
  <2>7. w.from <= w.sent /\ w.sent <= Len(w.data)
    BY <2>3, <2>4
  <2> QED
    BY <2>1, <2>2, <2>4, <2>6, <2>7, <1>2, <1>11, FirstRequest
<1>12. CASE call.op = WriteSoE
  <2>1. Compose(f)
    BY <1>3, <1>12 DEF Received, IsSDO, IsSoE, SoEReceived, SoEBegins, NextFragment
  <2>3. to \in Nat /\ 0 < to /\ to <= Len(call.data) /\ rest \in BOOLEAN /\ rest = (to # Len(call.data))
    <3>1. PICK k : k = Len(call.data)
      OBVIOUS
    <3>2. k \in Nat \ {0}
      BY <3>1, <1>3, <1>12 DEF IsWrite
    <3>3. Min2(0 + UnitsMore, k) \in Nat /\ 0 < Min2(0 + UnitsMore, k) /\ Min2(0 + UnitsMore, k) <= k
      BY <3>2, FirstChunk, CallAssumption DEF CallAssumption
    <3>4. to = Min2(0 + UnitsMore, k)
      BY <3>1, <1>4
    <3> HIDE DEF to
    <3>5. rest = (to # Len(call.data)) /\ rest \in BOOLEAN
      BY <3>1, <3>2, <3>3, <3>4
    <3> QED
      BY <3>1, <3>3, <3>4, <3>5
  <2> HIDE DEF to, rest
  <2>4. /\ f \in CallType /\ f.op = WriteSoE /\ f.step = "segment" /\ f.from = 0 /\ f.sent = to
        /\ f.more = rest /\ f.data = call.data /\ f.room = call.room
    <3> DEFINE a == [call EXCEPT !.step = "segment", !.from = call.sent]
    <3>1. /\ a \in CallType /\ a.op = call.op /\ a.step = "segment" /\ a.from = 0
          /\ a.room = call.room /\ a.data = call.data
      BY <1>3, <1>4 DEF CallType, Steps
    <3>2. f = [a EXCEPT !.sent = to, !.more = rest]
      OBVIOUS
    <3> HIDE DEF a, f
    <3> QED
      BY <3>1, <3>2, <1>12, <2>3 DEF CallType
  <2> HIDE DEF f
  <2>5. FragmentsWritten(f, session, store, <<>>, FALSE)
    <3>1. f.more = (f.sent # Len(f.data))
      BY <2>3, <2>4, Zenon
    <3>2. session.kind # "SoE_write"
      BY DEF Turns, Requested, Early
    <3>3. f.from < f.sent
      BY <2>3, <2>4
    <3> QED
      BY <3>1, <3>2, <3>3, <2>4 DEF FragmentsWritten
  <2>6. Conversation(f, session, store, <<>>, FALSE)
    BY <2>5 DEF Conversation
  <2>7. f.from <= f.sent /\ f.sent <= Len(f.data)
    BY <2>3, <2>4
  <2> QED
    BY <2>1, <2>4, <2>6, <2>7, <1>2, <1>12, FirstRequest
<1> QED
  BY <1>3, <1>7, <1>8, <1>9, <1>10, <1>11, <1>12 DEF Ops

\* Only the slave's mailbox leaves a request without an answer.
LEMMA Unanswered ==
  ASSUME Setting, Types, Conversation(call, session, store, <<>>, TRUE),
         ~(call.op = WriteSoE /\ call.more), ~(call.step = "ack" /\ ~call.more)
  PROVE  /\ Rejected(session, <<>>)
         /\ IsSDO => call.step = "request"
         /\ IsSoE => ~call.more
<1> USE DEF ReadSDO, WriteSDO, ReadFile, WriteFile, ReadSoE, WriteSoE
<1>1. <<>> # <<[kind |-> "abort"]>> /\ <<>> # <<[kind |-> "FoE_error"]>> /\ <<>> # <<[kind |-> "SoE_error"]>>
      /\ \A m : <<>> # <<m>>
  OBVIOUS
<1>2. CASE FirstUpload(call, session, store, <<>>, TRUE)
  BY <1>1, <1>2 DEF FirstUpload, Declines, IsSDO, IsSoE
<1>3. CASE NextUpload(call, session, store, <<>>, TRUE)
  BY <1>1, <1>3 DEF NextUpload, Declines
<1>4. CASE FirstDownload(call, session, store, <<>>, TRUE)
  BY <1>1, <1>4 DEF FirstDownload, Declines, IsSDO, IsSoE
<1>5. CASE NextDownload(call, session, store, <<>>, TRUE)
  BY <1>1, <1>5 DEF NextDownload, Declines
<1>6. CASE FirstPacket(call, session, store, <<>>, TRUE)
  BY <1>1, <1>6 DEF FirstPacket, Declines, SendsPacket, IsSDO, IsSoE
<1>7. CASE LaterPacket(call, session, store, <<>>, TRUE)
  BY <1>1, <1>7 DEF LaterPacket, Declines, SendsPacket
<1>8. CASE WriteRequest(call, session, store, <<>>, TRUE)
  BY <1>1, <1>8 DEF WriteRequest, Declines, SaysBusy, IsSDO, IsSoE
<1>9. CASE WritePacket(call, session, store, <<>>, TRUE)
  BY <1>1, <1>9 DEF WritePacket, Declines, SaysBusy
<1>10. CASE FragmentsRead(call, session, store, <<>>, TRUE)
  <2>1. ~(\E j \in 0..(Len(Fragments(store)) - 1) : <<>> = FragmentsFrom(store, j))
    <3> SUFFICES ASSUME NEW j \in 0..(Len(Fragments(store)) - 1)
                 PROVE  <<>> # FragmentsFrom(store, j)
      OBVIOUS
    <3>1. PICK n : n = Len(Fragments(store))
      OBVIOUS
    <3>2. n \in Nat /\ store \in Contents
      BY <3>1, FragmentsOf DEF Types
    <3>3. j \in Nat /\ j < n
      BY <3>1, <3>2
    <3> QED
      BY <3>1, <3>2, <3>3, FragmentsFromAt
  <2> QED
    BY <2>1, <1>1, <1>10 DEF FragmentsRead, Declines, IsSDO, IsSoE
<1>11. CASE FragmentsWritten(call, session, store, <<>>, TRUE)
  BY <1>1, <1>11 DEF FragmentsWritten, Declines, IsSDO, IsSoE
<1> QED
  BY <1>2, <1>3, <1>4, <1>5, <1>6, <1>7, <1>8, <1>9, <1>10, <1>11 DEF Conversation

\* ecx_mbxreceive ends without a message: only when the mailbox has refused.
LEMMA UnansweredKept ==
  ASSUME Setting, Types, NEW e \in Seq(Messages), Turns(e), Flow(e), ~Draining, expired,
         pc \in {"poll", "avail"}, UNCHANGED <<mailboxes, mishaps, slave>>, Received(Nothing)
  PROVE  Advances
<1>1. /\ UNCHANGED <<inbox, out, queue, last, repeat, ack, seen, mishaps, store, session>>
      /\ Taken /\ e = <<>> /\ Talking
      /\ ~(call.op = WriteSoE /\ call.more) /\ ~(call.step = "ack" /\ ~call.more)
  BY DEF mailboxes, slave, Flow, Expiry, Draining, Talking, Turns, Calling, Waiting
<1>2. Conversation(call, session, store, e, Taken)
  BY <1>1 DEF Turns, Talk
<1>3. Conversation(call, session, store, <<>>, TRUE)
  <2>1. Taken = TRUE
    BY <1>1 DEF Taken
  <2> QED
    BY <2>1, <1>1, <1>2
<1>4. Rejected(session, <<>>) /\ (IsSDO => call.step = "request") /\ (IsSoE => ~call.more)
  BY <1>1, <1>3, Unanswered
<1>5. Return("no_answer", <<>>)
  <2>1. call.step # "drain"
    BY <1>1 DEF Talking
  <2>2. CASE IsSDO
    BY <2>2, <1>4 DEF Received, SDOReceived
  <2>3. CASE ~IsSDO /\ IsSoE
    BY <2>1, <2>3, <1>4 DEF Received, SoEReceived
  <2>4. CASE ~IsSDO /\ ~IsSoE
    BY <2>1, <2>4 DEF Received, FoEReceived
  <2> QED
    BY <2>2, <2>3, <2>4
<1>6. session.kind = "refused" /\ Refusable
  BY <1>4, KindOfRefusal DEF Rejected
<1>7. ~Fresh
  BY <1>1 DEF Turns, Counting, Fresh, Taken
<1>8. /\ call' = Nothing /\ mbx_cnt' = mbx_cnt /\ pc' = "idle" /\ expired' = FALSE
      /\ result' = [op |-> call.op, outcome |-> "no_answer", got |-> <<>>]
  BY <1>5 DEF Return
<1>9. Turns(<<>>)' /\ ~Draining'
  <2>1. "no_answer" \in Outcomes
    BY DEF Outcomes
  <2> QED
    BY <2>1, <1>1, <1>5, <1>6, <1>7, CallReturned
<1>10. Types'
  BY <1>1, <1>8 DEF Types, Outcomes
<1>11. Flow(<<>>)'
  <2>1. Flow(e)'
    BY <1>1, <1>8, <1>9, FlowKept
  <2> QED
    BY <2>1, <1>1
<1>12. Promised("no_answer", <<>>)
  BY <1>6 DEF Promised
<1>13. Up => Object!Next
  BY <1>1, <1>5, <1>12, PromiseKept DEF Turns
<1> QED
  BY <1>9, <1>10, <1>11, <1>13, OneAnswer DEF Advances, Becomes

\* Every end of ecx_mbxreceive without a message.
LEMMA GivesUpKept ==
  ASSUME Setting, Types, NEW e \in Seq(Messages), Turns(e), Flow(e), GivesUp
  PROVE  Advances
<1>1. /\ pc \in {"poll", "avail"} /\ expired /\ UNCHANGED <<mailboxes, mishaps, slave>>
      /\ Received(Nothing)
  BY DEF GivesUp, PollGivesUp, Available
<1>2. CASE Draining
  BY <1>1, <1>2, DrainedKept
<1>3. CASE ~Draining
  BY <1>1, <1>3, UnansweredKept
<1> QED
  BY <1>2, <1>3

-----------------------------------------------------------------------------
(* The application                                                         *)

\* A step of the error list alone.
LEMMA Unmoved ==
  ASSUME NEW e \in Seq(Messages), Types, Turns(e), Flow(e),
         UNCHANGED <<master, mailboxes, mishaps, slave>>
  PROVE  Advances
<1> USE DEF master, mailboxes, slave
<1>1. Turns(e)'
  BY TurnsKept
<1>2. Types'
  BY DEF Types
<1>3. Flow(e)'
  <2>1. Stream' = Stream
    BY DEF Stream, Lost, Single
  <2>2. Carries(Stream', e)
    BY <2>1 DEF Flow
  <2>3. Draining' = Draining /\ Taken' = Taken
    BY DEF Draining, Taken
  <2> QED
    BY <2>2, <2>3 DEF Flow, Repetition, Expiry, Carries, Waiting
<1>4. Up => UNCHANGED Object!vars
  BY SameObject
<1> QED
  BY <1>1, <1>2, <1>3, <1>4 DEF Advances, Becomes

\* The start of a call.
LEMMA StartKept ==
  ASSUME Setting, Types, NEW e \in Seq(Messages), Turns(e), Flow(e),
         NEW op \in Ops, NEW data, NEW room,
         IF IsWrite(op) THEN data \in Contents /\ room = 0 ELSE data = <<>> /\ room \in Rooms,
         Start(op, data, room), UNCHANGED slave
  PROVE  Advances
<1>1. /\ UNCHANGED <<inbox, out, queue, last, repeat, ack, seen, mishaps, store, session, mbx_cnt>>
      /\ pc = "idle" /\ pc' = "poll" /\ expired' = TRUE /\ result' = Nothing
      /\ call' = NewCall(op, data, room)
  BY DEF Start, mailboxes, slave
<1>2. call = Nothing /\ e = <<>>
  BY <1>1 DEF Turns, Calling, Talk, Talking
<1>3. data \in Seq(Units) /\ Len(data) \in Nat /\ room \in Nat
  <2>1. CASE IsWrite(op)
    BY <2>1, ContentsAreSequences
  <2>2. CASE ~IsWrite(op)
    <3>1. data = <<>> /\ room \in Rooms /\ Rooms \subseteq Nat
      BY <2>2, ServicesAssumption DEF ServicesAssumption
    <3> QED
      BY <3>1
  <2> QED
    BY <2>1, <2>2
<1>4. /\ call' \in CallType /\ call'.op = op /\ call'.data = data /\ call'.room = room
      /\ call'.step = "drain" /\ call'.from = 0 /\ call'.sent = 0
  BY <1>1, <1>3 DEF NewCall, CallType, Steps
<1>5. call' # Nothing
  BY <1>4, NothingIsNoCall
<1>6. Types'
  BY <1>1, <1>4 DEF Types, Waiting
<1>7. Turns(<<>>)' /\ Draining'
  <2>1. /\ Draining' /\ ~Talking' /\ Early' /\ Early
    BY <1>1, <1>4, <1>5 DEF Draining, Talking, Early
  <2>2. Calling'
    BY <1>1, <1>3, <1>4, <1>5, <2>1 DEF Calling, Waiting
  <2>3. Counting'
    BY <1>1 DEF Turns, Counting
  <2>4. Requested'
    <3>1. Fresh' = Fresh /\ Leftover' = Leftover
      BY <1>1 DEF Fresh, Leftover
    <3> QED
      BY <1>1, <2>1, <3>1 DEF Turns, Requested
  <2>5. Talk(<<>>)'
    BY <2>1 DEF Talk
  <2> QED
    BY <2>1, <2>2, <2>3, <2>4, <2>5 DEF Turns
<1>8. Flow(<<>>)'
  <2>1. Stream' = Stream
    BY <1>1 DEF Stream, Lost, Single
  <2>2. Carries(Stream', <<>>)
    BY <1>2, <2>1 DEF Flow
  <2>3. Repetition' /\ Expiry(<<>>)'
    BY <1>1, <1>7 DEF Flow, Repetition, Expiry, Waiting
  <2> QED
    BY <2>2, <2>3 DEF Flow, Carries
<1>9. Object!Ask
  <2>1. Asked = Nothing /\ Told' = Nothing /\ store' = store
    BY <1>1, <1>2 DEF Asked, Told
  <2>2. Asked' = [write |-> IsWrite(op), data |-> data, room |-> room, cuts |-> op = ReadSoE]
    BY <1>4, <1>5 DEF Asked
  <2>3. Asked' \in Object!Calls
    <3>1. CASE IsWrite(op)
      <4>1. op # ReadSoE
        BY <3>1 DEF IsWrite, ReadSDO, WriteSDO, ReadFile, WriteFile, ReadSoE, WriteSoE
      <4>2. Asked' = [write |-> TRUE, data |-> data, room |-> 0, cuts |-> FALSE]
        BY <2>2, <3>1, <4>1
      <4> QED
        BY <3>1, <4>2 DEF Object!Calls
    <3>2. CASE ~IsWrite(op)
      <4>1. PICK b \in BOOLEAN, w \in BOOLEAN : b = (op = ReadSoE) /\ w = IsWrite(op)
        <5>1. (op = ReadSoE) \in BOOLEAN /\ IsWrite(op) \in BOOLEAN
          BY DEF IsWrite
        <5>2. \E w \in BOOLEAN : w = IsWrite(op)
          BY <5>1, Zenon
        <5>3. \E b \in BOOLEAN : b = (op = ReadSoE)
          BY <5>1, Zenon
        <5> QED
          BY <5>2, <5>3, Zenon
      <4>2. Asked' = [write |-> w, data |-> data, room |-> room, cuts |-> b]
        BY <2>2, <4>1, Zenon
      <4>3. w = FALSE /\ data = <<>>
        BY <3>2, <4>1, Zenon
      <4>4. Asked' = [write |-> FALSE, data |-> <<>>, room |-> room, cuts |-> b]
        BY <4>2, <4>3
      <4> QED
        BY <3>2, <4>4 DEF Object!Calls
    <3> QED
      BY <3>1, <3>2
  <2> QED
    BY <2>1, <2>3 DEF Object!Ask
<1> QED
  BY <1>6, <1>7, <1>8, <1>9, OneAnswer DEF Advances, Becomes, Object!Next

\* The start of any of the six.
LEMMA CallsKept ==
  ASSUME Setting, Types, NEW e \in Seq(Messages), Turns(e), Flow(e), Calls
  PROVE  Advances
<1> USE DEF ReadSDO, WriteSDO, ReadFile, WriteFile, ReadSoE, WriteSoE
<1>1. UNCHANGED slave
  BY DEF Calls
<1>2. CASE \E op \in {ReadSDO, ReadFile, ReadSoE}, room \in Rooms : Start(op, <<>>, room)
  <2>1. PICK op \in {ReadSDO, ReadFile, ReadSoE}, room \in Rooms : Start(op, <<>>, room)
    BY <1>2
  <2>2. op \in Ops /\ ~IsWrite(op)
    BY DEF Ops, IsWrite
  <2> HIDE DEF ReadSDO, WriteSDO, ReadFile, WriteFile, ReadSoE, WriteSoE
  <2> QED
    BY <1>1, <2>1, <2>2, StartKept
<1>3. CASE \E op \in {WriteSDO, WriteFile, WriteSoE}, data \in Contents : Start(op, data, 0)
  <2>1. PICK op \in {WriteSDO, WriteFile, WriteSoE}, data \in Contents : Start(op, data, 0)
    BY <1>3
  <2>2. op \in Ops /\ IsWrite(op)
    BY DEF Ops, IsWrite
  <2> HIDE DEF ReadSDO, WriteSDO, ReadFile, WriteFile, ReadSoE, WriteSoE
  <2> QED
    BY <1>1, <2>1, <2>2, StartKept
<1> QED
  BY <1>2, <1>3 DEF Calls

-----------------------------------------------------------------------------
(* The slave's services                                                    *)

\* Putting messages one behind the other is associative.
LEMMA MessagesBehind ==
  \A x, y, z \in Seq(Messages) : (x \o y) \o z = x \o (y \o z)
BY ConcatAssociative

\* Answers are put behind what is under way.
LEMMA AnswersInStream ==
  ASSUME Setting, Types, Types', NEW a \in Seq(Messages), queue' = queue \o a,
         UNCHANGED <<pc, out, last, repeat, ack>>
  PROVE  Stream' = Stream \o a
<1> DEFINE b == Single(last)
           c == Single(out)
<1>1. /\ b \in Seq(Messages) /\ c \in Seq(Messages) /\ queue \in Seq(Messages)
      /\ c \o queue \in Seq(Messages)
  BY StreamType
<1>2. Lost' = Lost /\ Single(last') = b /\ Single(out') = c
  BY DEF Lost
<1> HIDE DEF b, c
<1> DEFINE Behind(x, y) == x \o y
<1>3. /\ \A x, y \in Seq(Messages) : Behind(x, y) \in Seq(Messages)
      /\ \A x, y, z \in Seq(Messages) : Behind(Behind(x, y), z) = Behind(x, Behind(y, z))
  <2>1. \A x, y \in Seq(Messages) : Behind(x, y) \in Seq(Messages)
    OBVIOUS
  <2> QED
    BY <2>1, MessagesBehind, Zenon
<1>4. /\ c \o queue' = (c \o queue) \o a
      /\ b \o (c \o queue') = (b \o (c \o queue)) \o a
  <2> HIDE DEF Behind
  <2>1. /\ Behind(c, Behind(queue, a)) = Behind(Behind(c, queue), a)
        /\ Behind(b, Behind(c, Behind(queue, a))) = Behind(Behind(b, Behind(c, queue)), a)
    BY <1>1, <1>3
  <2> QED
    BY <2>1, Zenon DEF Behind
<1>5. Stream = IF Lost THEN b \o (c \o queue) ELSE c \o queue
  BY StreamType DEF b, c
<1>6. Stream' = IF Lost' THEN b \o (c \o queue') ELSE c \o queue'
  <2>1. Stream' = IF Lost' THEN Single(last') \o (Single(out') \o queue')
                  ELSE Single(out') \o queue'
    BY StreamNext, Zenon
  <2> QED
    BY <1>2, <2>1, Zenon
<1>7. CASE Lost
  BY <1>2, <1>4, <1>5, <1>6, <1>7, Zenon
<1>8. CASE ~Lost
  BY <1>2, <1>4, <1>5, <1>6, <1>8, Zenon
<1> QED
  BY <1>7, <1>8

\* The slave's sessions without data.
LEMMA SessionTypes ==
  /\ NoSession \in SessionType
  /\ \A k \in {"none", "upload", "download", "FoE_read", "FoE_read_last", "FoE_write", "busy",
               "SoE_write", "SoE_ignoring", "refused"} :
       /\ [NoSession EXCEPT !.kind = k] \in SessionType
       /\ [NoSession EXCEPT !.kind = k].kind = k
  /\ Refusal \in SessionType /\ Refusal.kind = "refused"
<1>1. <<>> \in Seq(Units) /\ 0 \in Nat /\ FALSE \in BOOLEAN
  OBVIOUS
<1>2. NoSession \in SessionType
  BY <1>1 DEF NoSession, SessionType
<1>3. \A k \in {"none", "upload", "download", "FoE_read", "FoE_read_last", "FoE_write", "busy",
                "SoE_write", "SoE_ignoring", "refused"} :
        /\ [NoSession EXCEPT !.kind = k] \in SessionType
        /\ [NoSession EXCEPT !.kind = k].kind = k
  BY <1>2 DEF SessionType
<1> QED
  BY <1>2, <1>3 DEF Refusal

\* What the slave knows of the call when it takes its request.
LEMMA RequestTaken ==
  ASSUME Setting, Types, NEW e, Turns(e), Flow(e), inbox # Nothing, inbox.cnt # seen, ~Early
  PROVE  /\ inbox = Request /\ inbox.cnt = mbx_cnt /\ pc # "send" /\ ~expired
         /\ Talking /\ ~Draining /\ call \in CallType /\ call # Nothing /\ result = Nothing
         /\ Conversation(call, session, store, e, FALSE)
         /\ First => session.kind # "SoE_ignoring"
<1>1. Fresh
  BY DEF Fresh
<1>2. pc # "send" /\ inbox = Request /\ inbox.cnt = mbx_cnt /\ (First => session.kind # "SoE_ignoring")
  BY <1>1 DEF Turns, Requested, Counting
<1>3. Taken = FALSE
  BY <1>2 DEF Taken
<1>4. call # Nothing /\ ~Draining /\ Talking /\ result = Nothing /\ call \in CallType
  BY DEF Turns, Calling, Early, Draining, Talking, Types
<1>5. ~expired
  BY <1>3, <1>4 DEF Flow, Expiry
<1>6. Conversation(call, session, store, e, FALSE)
  BY <1>3, <1>4 DEF Turns, Talk
<1> QED
  BY <1>2, <1>4, <1>5, <1>6

\* The slave takes the request of the call in progress.
LEMMA ServedCall ==
  ASSUME Setting, Types, NEW e \in Seq(Messages), Turns(e), Flow(e), ~Early,
         NEW a \in Seq(Messages), Answers(a), NEW s \in SessionType, session' = s,
         store' = store \/ (IsWrite(call.op) /\ store' = call.data),
         NEW d \in Seq(Messages), Carries(Stream \o a, d),
         Conversation(call, s, store', d, TRUE)
  PROVE  Advances
<1>1. /\ inbox' = Nothing /\ seen' = inbox.cnt /\ queue' = queue \o a
      /\ UNCHANGED <<pc, expired, mbx_cnt, call, result, out, last, repeat, ack, mishaps>>
      /\ inbox # Nothing /\ inbox.cnt # seen
  BY DEF Answers, master
<1>2. /\ inbox.cnt = mbx_cnt /\ pc # "send" /\ ~expired
      /\ Talking /\ ~Draining /\ call \in CallType /\ call # Nothing /\ result = Nothing
  BY <1>1, RequestTaken
<1>3. IsWrite(call.op) => call.data \in Contents
  BY <1>2 DEF Turns, Calling
<1>4. Types'
  <2>1. queue' \in Seq(Messages)
    BY <1>1, ConcatProperties DEF Types
  <2>2. store' \in Contents
    BY <1>3 DEF Types
  <2> QED
    BY <1>1, <1>2, <2>1, <2>2 DEF Types
<1>5. /\ Draining' = Draining /\ Talking' = Talking /\ First' = First /\ Early' = Early
      /\ ~Fresh' /\ Taken' = TRUE
  BY <1>1, <1>2 DEF Draining, Talking, First, Early, Fresh, Taken
<1>6. Turns(d)'
  <2>1. Calling'
    BY <1>1, <1>5 DEF Turns, Calling
  <2>2. Counting'
    BY <1>1, <1>2 DEF Turns, Counting
  <2>3. Requested'
    BY <1>1, <1>2, <1>5 DEF Requested
  <2>4. Talk(d)'
    <3>1. Conversation(call', session', store', d, Taken')
      BY <1>1, <1>5
    <3> QED
      BY <3>1, <1>2, <1>5 DEF Talk
  <2> QED
    BY <2>1, <2>2, <2>3, <2>4 DEF Turns
<1>7. Flow(d)'
  <2>1. Stream' = Stream \o a
    BY <1>1, <1>4, AnswersInStream
  <2>2. Carries(Stream', d)
    BY <2>1
  <2>3. Repetition' /\ Expiry(d)'
    BY <1>1, <1>2, <1>5 DEF Flow, Repetition, Expiry
  <2> QED
    BY <2>2, <2>3 DEF Flow, Carries
<1>8. [Object!Next]_(Object!vars)
  <2>1. Asked' = Asked /\ Told' = Told
    BY <1>1, <1>2 DEF Asked, Told
  <2>2. CASE store' = store
    BY <2>1, <2>2 DEF Object!vars
  <2>3. CASE IsWrite(call.op) /\ store' = call.data
    <3>1. Asked.write /\ Asked.data = call.data /\ "write" \in DOMAIN Asked
      BY <1>2, <2>3 DEF Asked
    <3>2. Asked # Nothing
      BY <3>1 DEF Setting
    <3> QED
      BY <2>1, <2>3, <3>1, <3>2 DEF Object!Next, Object!Write
  <2> QED
    BY <2>2, <2>3
<1> QED
  BY <1>4, <1>6, <1>7, <1>8 DEF Advances, Becomes

\* It answers when nothing is under way.
LEMMA ServedAnswer ==
  ASSUME Setting, Types, Turns(<<>>), Flow(<<>>), ~Early,
         NEW a \in Seq(Messages), \A i \in 1..Len(a) : a[i] \notin Reports,
         NEW s \in SessionType, Does(a, s),
         store' = store \/ (IsWrite(call.op) /\ store' = call.data),
         Conversation(call, s, store', a, TRUE)
  PROVE  Advances
<1>1. Stream \in Seq(Messages) /\ Carries(Stream, <<>>) /\ <<>> \in Seq(Messages)
  BY StreamType DEF Flow
<1>2. Carries(Stream \o a, <<>> \o a)
  BY <1>1, StreamWithAnswers
<1>3. <<>> \o a = a
  BY ConcatEmptySeq
<1>4. Carries(Stream \o a, a)
  BY <1>2, <1>3
<1> QED
  BY <1>1, <1>4, ServedCall DEF Does

\* It says nothing.
LEMMA ServedSilently ==
  ASSUME Setting, Types, NEW e \in Seq(Messages), Turns(e), Flow(e), ~Early,
         NEW s \in SessionType, Does(<<>>, s), store' = store,
         Conversation(call, s, store, e, TRUE)
  PROVE  Advances
<1>1. Stream \in Seq(Messages) /\ Carries(Stream, e) /\ <<>> \in Seq(Messages)
  BY StreamType DEF Flow
<1>2. Carries(Stream \o <<>>, e)
  BY <1>1, ConcatEmptySeq
<1>3. Conversation(call, s, store', e, TRUE)
  OBVIOUS
<1> QED
  BY <1>1, <1>2, <1>3, ServedCall DEF Does

\* Its mailbox refuses the request.
LEMMA ServedReport ==
  ASSUME Setting, Types, Turns(<<>>), Flow(<<>>), ~Early, Rejects,
         Conversation(call, Refusal, store, <<>>, TRUE)
  PROVE  Advances
<1> DEFINE m == [kind |-> "mailbox_error"]
           s == Refusal
<1>1. m \in Reports /\ <<m>> \in Seq(Messages) /\ <<>> \in Seq(Messages)
  BY DEF Reports, Messages
<1>2. s \in SessionType
  BY SessionTypes
<1>3. Answers(<<m>>) /\ session' = s /\ store' = store
  BY DEF Rejects, Does
<1>4. Stream \in Seq(Messages) /\ Carries(Stream, <<>>)
  BY StreamType DEF Flow
<1>5. Stream \o <<m>> = Append(Stream, m)
  <2> HIDE DEF m
  <2> QED
    BY <1>1, <1>4, AppendIsConcat
<1>6. Carries(Stream \o <<m>>, <<>>)
  <2> HIDE DEF m
  <2> QED
    BY <1>1, <1>4, <1>5, StreamWithReport
<1>7. Conversation(call, s, store', <<>>, TRUE)
  BY <1>3
<1> HIDE DEF m, s
<1> QED
  BY <1>1, <1>2, <1>3, <1>6, <1>7, ServedCall

\* What the slave takes is new.
LEMMA ServesFresh ==
  ASSUME Serves
  PROVE  inbox # Nothing /\ inbox.cnt # seen /\ inbox' = Nothing /\ stopped' = stopped
BY DEF Serves, Upload, UploadSegment, Download, DownloadSegment, Abort, FileRead,
       PacketAcknowledged, Packet, FileWrite, PacketWritten, Busy, FoERefused, IDNRead,
       IDNWritten, IDNRefused, FragmentIgnored, Rejects, Does, Answers

\* The services by the requests that they take.
LEMMA ServesKinds ==
  ASSUME Serves
  PROVE  /\ inbox.kind = "upload" => Upload \/ Abort \/ Rejects
         /\ inbox.kind = "upload_segment" => UploadSegment \/ Abort
         /\ inbox.kind = "download" => Download \/ Abort \/ Rejects
         /\ inbox.kind = "download_segment" => DownloadSegment \/ Abort
         /\ inbox.kind = ReadFile => FileRead \/ FoERefused \/ Rejects
         /\ inbox.kind = "ack" => PacketAcknowledged \/ FoERefused
         /\ inbox.kind = WriteFile => FileWrite \/ Busy \/ FoERefused \/ Rejects
         /\ inbox.kind = "data" => PacketWritten \/ Busy \/ FoERefused
         /\ inbox.kind = ReadSoE => IDNRead \/ IDNRefused \/ Rejects
         /\ inbox.kind = WriteSoE => IDNWritten \/ IDNRefused \/ FragmentIgnored \/ Rejects
<1> USE DEF ReadSDO, WriteSDO, ReadFile, WriteFile, ReadSoE, WriteSoE
<1>1. /\ Upload => inbox.kind = "upload"
      /\ UploadSegment => inbox.kind = "upload_segment"
      /\ Download => inbox.kind = "download"
      /\ DownloadSegment => inbox.kind = "download_segment"
      /\ Abort => inbox.kind \in {"upload", "upload_segment", "download", "download_segment"}
  BY DEF Upload, UploadSegment, Download, DownloadSegment, Abort, SDOKinds
<1>2. /\ FileRead => inbox.kind = ReadFile
      /\ PacketAcknowledged => inbox.kind = "ack"
      /\ FileWrite => inbox.kind = WriteFile
      /\ PacketWritten => inbox.kind = "data"
      /\ Busy => inbox.kind \in {WriteFile, "data"}
      /\ FoERefused => inbox.kind \in {ReadFile, WriteFile, "data", "ack"}
  BY DEF FileRead, PacketAcknowledged, FileWrite, PacketWritten, Busy, FoERefused
<1>3. /\ IDNRead => inbox.kind = ReadSoE
      /\ IDNWritten => inbox.kind = WriteSoE
      /\ IDNRefused => inbox.kind \in {ReadSoE, WriteSoE}
      /\ FragmentIgnored => inbox.kind = WriteSoE
  BY DEF IDNRead, IDNWritten, IDNRefused, FragmentIgnored
<1>4. Rejects => inbox.kind \in {"upload", "download", ReadFile, WriteFile, ReadSoE, WriteSoE}
  BY DEF Rejects
<1> QED
  BY <1>1, <1>2, <1>3, <1>4 DEF Serves

\* Before the first request is taken the session does not matter, as long as it
\* is not one that takes fragments.
LEMMA SessionBefore ==
  ASSUME NEW c, NEW s, NEW r, r.kind # "SoE_write", NEW st, NEW e,
         Conversation(c, s, st, e, FALSE),
         c.step = "request" \/ (c.op = WriteSoE /\ c.from = 0)
  PROVE  Conversation(c, r, st, e, FALSE)
<1> USE DEF ReadSDO, WriteSDO, ReadFile, WriteFile, ReadSoE, WriteSoE
<1>1. CASE c.step = "request"
  BY <1>1 DEF Conversation, FirstUpload, NextUpload, FirstDownload, NextDownload, FirstPacket,
     LaterPacket, WriteRequest, WritePacket, FragmentsRead, FragmentsWritten
<1>2. CASE c.step # "request"
  <2>1. FragmentsWritten(c, s, st, e, FALSE)
    BY <1>2 DEF Conversation, FirstUpload, NextUpload, FirstDownload, NextDownload, FirstPacket,
       LaterPacket, WriteRequest, WritePacket, FragmentsRead
  <2>2. e = <<>> /\ c.from = 0
    BY <1>2, <2>1 DEF FragmentsWritten
  <2>3. FragmentsWritten(c, r, st, e, FALSE)
    BY <2>1, <2>2 DEF FragmentsWritten
  <2> QED
    BY <2>3 DEF Conversation
<1> QED
  BY <1>1, <1>2

\* A request of the call before, which the master did not wait for.
LEMMA ServedEarly ==
  ASSUME Setting, Types, NEW e \in Seq(Messages), Turns(e), Flow(e), Early, Serves
  PROVE  Advances
<1>1. inbox # Nothing /\ inbox.cnt # seen /\ Fresh /\ Leftover
  BY ServesFresh DEF Fresh, Turns, Requested
<1>2. /\ store' = store
      /\ \/ session.kind = "FoE_read_last" /\ Does(<<>>, NoSession)
         \/ session.kind = "SoE_ignoring" /\ Does(<<>>, Refusal)
  <2> USE DEF ReadSDO, WriteSDO, ReadFile, WriteFile, ReadSoE, WriteSoE
  <2>1. CASE inbox.kind = "ack" /\ session.kind = "FoE_read_last"
    <3>1. ~FoERefused
      BY <2>1 DEF FoERefused, PacketUnexpected, AfterRefusal
    <3>2. PacketAcknowledged
      BY <2>1, <3>1, ServesKinds
    <3> QED
      BY <2>1, <3>2 DEF PacketAcknowledged
  <2>2. CASE inbox.kind = WriteSoE /\ inbox.last /\ session.kind = "SoE_ignoring"
    <3>1. ~IDNWritten /\ ~IDNRefused /\ ~Rejects
      BY <2>2 DEF IDNWritten, IDNRefused, Rejects
    <3>2. FragmentIgnored
      BY <2>2, <3>1, ServesKinds
    <3> QED
      BY <2>2, <3>2 DEF FragmentIgnored, AfterFragment
  <2> QED
    BY <1>1, <2>1, <2>2 DEF Leftover
<1>3. /\ inbox' = Nothing /\ seen' = inbox.cnt /\ queue' = queue \o <<>>
      /\ \/ session.kind = "FoE_read_last" /\ session' = NoSession
         \/ session.kind = "SoE_ignoring" /\ session' = Refusal
      /\ UNCHANGED <<pc, expired, mbx_cnt, call, result, out, last, repeat, ack, mishaps>>
  BY <1>2 DEF Does, Answers, master
<1>4. queue' = queue
  BY <1>3, ConcatEmptySeq DEF Types
<1>5. /\ session' \in SessionType
      /\ \/ session.kind = "FoE_read_last" /\ session'.kind = "none"
         \/ session.kind = "SoE_ignoring" /\ session'.kind = "refused"
  <2>1. NoSession.kind = "none"
    BY DEF NoSession
  <2>2. NoSession \in SessionType /\ Refusal \in SessionType /\ Refusal.kind = "refused"
    BY SessionTypes
  <2> QED
    BY <1>3, <2>1, <2>2
<1>6. Types'
  <2>1. inbox.cnt \in 0..MaxCnt
    BY <1>1 DEF Turns, Counting
  <2> QED
    BY <2>1, <1>2, <1>3, <1>4, <1>5 DEF Types
<1>7. /\ Draining' = Draining /\ Talking' = Talking /\ First' = First /\ Early' /\ ~Fresh'
  <2>1. Draining' = Draining /\ Talking' = Talking /\ First' = First /\ ~Fresh'
    BY <1>3 DEF Draining, Talking, First, Fresh
  <2> QED
    BY <1>3, <2>1 DEF Early
<1>8. Talk(e)'
  <2>1. CASE Talking
    <3>1. pc = "send" /\ First
      BY <2>1 DEF Early, Talking, Draining, Turns, Calling
    <3>2. Taken = FALSE /\ Taken' = FALSE
      BY <1>3, <3>1 DEF Taken
    <3>3. Conversation(call, session, store, e, FALSE)
      BY <2>1, <3>2 DEF Turns, Talk
    <3>4. PICK r : r = session'
      OBVIOUS
    <3>5. r.kind # "SoE_write"
      BY <1>5, <3>4
    <3>6. call.step = "request" \/ (call.op = WriteSoE /\ call.from = 0)
      BY <3>1 DEF First
    <3>7. Conversation(call, r, store, e, FALSE)
      BY <3>3, <3>5, <3>6, SessionBefore
    <3>8. Conversation(call, session', store, e, FALSE)
      BY <3>4, <3>7
    <3>9. Conversation(call', session', store', e, Taken')
      BY <1>2, <1>3, <3>2, <3>8
    <3> QED
      BY <1>7, <2>1, <3>9 DEF Talk
  <2>2. CASE ~Talking
    BY <1>7, <2>2 DEF Turns, Talk
  <2> QED
    BY <2>1, <2>2
<1>9. Turns(e)'
  <2>1. Calling'
    BY <1>3, <1>7 DEF Turns, Calling
  <2>2. Counting'
    BY <1>1, <1>3 DEF Turns, Counting
  <2>3. Requested'
    BY <1>5, <1>7 DEF Requested
  <2> QED
    BY <1>8, <2>1, <2>2, <2>3 DEF Turns
<1>10. Flow(e)'
  <2>1. Stream' = Stream
    BY <1>3, <1>4 DEF Stream, Lost, Single
  <2>2. Carries(Stream', e)
    BY <2>1 DEF Flow
  <2>3. expired => Draining
    <3>1. CASE Talking
      BY <3>1 DEF Early, Talking, Draining, Turns, Calling, Flow, Expiry, Waiting
    <3>2. CASE ~Talking
      BY <3>2 DEF Talking, Draining, Turns, Calling, Flow, Expiry, Waiting
    <3> QED
      BY <3>1, <3>2
  <2>4. Repetition' /\ Expiry(e)'
    BY <1>3, <1>7, <2>3 DEF Flow, Repetition, Expiry
  <2> QED
    BY <2>2, <2>4 DEF Flow, Carries
<1>11. Up => UNCHANGED Object!vars
  <2> SUFFICES ASSUME Up PROVE UNCHANGED Object!vars
    OBVIOUS
  <2>1. Refused' = Refused /\ LeftBusy' = LeftBusy
    BY <1>3, <1>5 DEF Refused, LeftBusy, Up
  <2>2. Asked' = Asked /\ Told' = Told
    BY <1>3, <2>1 DEF Asked, Told
  <2> QED
    BY <1>2, <2>2 DEF Object!vars
<1> QED
  BY <1>6, <1>9, <1>10, <1>11 DEF Advances, Becomes

\* Sessions as records.
SessionKinds == {"none", "upload", "download", "FoE_read", "FoE_read_last", "FoE_write", "busy",
                 "SoE_write", "SoE_ignoring", "refused"}

\* A session is made of its fields.
LEMMA SessionFields ==
  ASSUME NEW s \in SessionType
  PROVE  s = Session(s.kind, s.data, s.at, s.size, s.toggle, s.packet)
BY DEF Session, SessionType

\* The session of an upload after a segment.
LEMMA UploadSessionAdvanced ==
  ASSUME NEW s \in SessionType, NEW at \in Nat, NEW t \in BOOLEAN
  PROVE  /\ [s EXCEPT !.at = at, !.toggle = t]
            = Session(s.kind, s.data, at, s.size, t, s.packet)
         /\ Session(s.kind, s.data, at, s.size, t, s.packet) \in SessionType
<1> DEFINE a == [s EXCEPT !.at = at]
<1>1. /\ a \in SessionType
      /\ a.kind = s.kind /\ a.data = s.data /\ a.at = at
      /\ a.size = s.size /\ a.toggle = s.toggle /\ a.packet = s.packet
  BY DEF SessionType, SessionKinds
<1> HIDE DEF a
<1> DEFINE b == [a EXCEPT !.toggle = t]
<1>2. /\ b \in SessionType
      /\ b.kind = s.kind /\ b.data = s.data /\ b.at = at
      /\ b.size = s.size /\ b.toggle = t /\ b.packet = s.packet
  BY <1>1 DEF SessionType, SessionKinds
<1> HIDE DEF b
<1>3. b = Session(b.kind, b.data, b.at, b.size, b.toggle, b.packet)
  BY <1>2, SessionFields
<1>4. b = Session(s.kind, s.data, at, s.size, t, s.packet)
  BY <1>2, <1>3, Zenon
<1> QED
  BY <1>2, <1>4 DEF a, b

\* The session of a download after a segment.
LEMMA DownloadSessionAdvanced ==
  ASSUME NEW s \in SessionType, NEW d \in Seq(Units), NEW t \in BOOLEAN
  PROVE  /\ [s EXCEPT !.data = d, !.toggle = t]
            = Session(s.kind, d, s.at, s.size, t, s.packet)
         /\ Session(s.kind, d, s.at, s.size, t, s.packet) \in SessionType
<1> DEFINE a == [s EXCEPT !.data = d]
<1>1. /\ a \in SessionType
      /\ a.kind = s.kind /\ a.data = d /\ a.at = s.at
      /\ a.size = s.size /\ a.toggle = s.toggle /\ a.packet = s.packet
  BY DEF SessionType, SessionKinds
<1> HIDE DEF a
<1> DEFINE b == [a EXCEPT !.toggle = t]
<1>2. /\ b \in SessionType
      /\ b.kind = s.kind /\ b.data = d /\ b.at = s.at
      /\ b.size = s.size /\ b.toggle = t /\ b.packet = s.packet
  BY <1>1 DEF SessionType, SessionKinds
<1> HIDE DEF b
<1>3. b = Session(b.kind, b.data, b.at, b.size, b.toggle, b.packet)
  BY <1>2, SessionFields
<1>4. b = Session(s.kind, d, s.at, s.size, t, s.packet)
  BY <1>2, <1>3, Zenon
<1> QED
  BY <1>2, <1>4 DEF a, b

\* The session of a file that is read, after a packet.
LEMMA ReadSessionAdvanced ==
  ASSUME NEW s \in SessionType, NEW k \in SessionKinds, NEW at \in Nat, NEW p \in Nat
  PROVE  /\ [s EXCEPT !.at = at, !.packet = p, !.kind = k]
            = Session(k, s.data, at, s.size, s.toggle, p)
         /\ Session(k, s.data, at, s.size, s.toggle, p) \in SessionType
<1> DEFINE a == [s EXCEPT !.at = at]
<1>1. /\ a \in SessionType
      /\ a.kind = s.kind /\ a.data = s.data /\ a.at = at
      /\ a.size = s.size /\ a.toggle = s.toggle /\ a.packet = s.packet
  BY DEF SessionType, SessionKinds
<1> HIDE DEF a
<1> DEFINE b == [a EXCEPT !.packet = p]
<1>2. /\ b \in SessionType
      /\ b.kind = s.kind /\ b.data = s.data /\ b.at = at
      /\ b.size = s.size /\ b.toggle = s.toggle /\ b.packet = p
  BY <1>1 DEF SessionType, SessionKinds
<1> HIDE DEF b
<1> DEFINE c == [b EXCEPT !.kind = k]
<1>3. /\ c \in SessionType
      /\ c.kind = k /\ c.data = s.data /\ c.at = at
      /\ c.size = s.size /\ c.toggle = s.toggle /\ c.packet = p
  BY <1>2 DEF SessionType, SessionKinds
<1> HIDE DEF c
<1>4. c = Session(c.kind, c.data, c.at, c.size, c.toggle, c.packet)
  BY <1>3, SessionFields
<1>5. c = Session(k, s.data, at, s.size, s.toggle, p)
  BY <1>3, <1>4, Zenon
<1> QED
  BY <1>3, <1>5 DEF a, b, c

\* The session of a file that is written, after a packet.
LEMMA WriteSessionAdvanced ==
  ASSUME NEW s \in SessionType, NEW k \in SessionKinds, NEW d \in Seq(Units), NEW p \in Nat
  PROVE  /\ [s EXCEPT !.kind = k, !.data = d, !.packet = p]
            = Session(k, d, s.at, s.size, s.toggle, p)
         /\ Session(k, d, s.at, s.size, s.toggle, p) \in SessionType
<1> DEFINE a == [s EXCEPT !.kind = k]
<1>1. /\ a \in SessionType
      /\ a.kind = k /\ a.data = s.data /\ a.at = s.at
      /\ a.size = s.size /\ a.toggle = s.toggle /\ a.packet = s.packet
  BY DEF SessionType, SessionKinds
<1> HIDE DEF a
<1> DEFINE b == [a EXCEPT !.data = d]
<1>2. /\ b \in SessionType
      /\ b.kind = k /\ b.data = d /\ b.at = s.at
      /\ b.size = s.size /\ b.toggle = s.toggle /\ b.packet = s.packet
  BY <1>1 DEF SessionType, SessionKinds
<1> HIDE DEF b
<1> DEFINE c == [b EXCEPT !.packet = p]
<1>3. /\ c \in SessionType
      /\ c.kind = k /\ c.data = d /\ c.at = s.at
      /\ c.size = s.size /\ c.toggle = s.toggle /\ c.packet = p
  BY <1>2 DEF SessionType, SessionKinds
<1> HIDE DEF c
<1>4. c = Session(c.kind, c.data, c.at, c.size, c.toggle, c.packet)
  BY <1>3, SessionFields
<1>5. c = Session(k, d, s.at, s.size, s.toggle, p)
  BY <1>3, <1>4, Zenon
<1> QED
  BY <1>3, <1>5 DEF a, b, c

\* The session of an upload that needs segments.
LEMMA UploadSessionBegun ==
  ASSUME NEW d \in Seq(Units), NEW at \in Nat
  PROVE  /\ [NoSession EXCEPT !.kind = "upload", !.data = d, !.at = at]
            = Session("upload", d, at, 0, FALSE, 0)
         /\ Session("upload", d, at, 0, FALSE, 0) \in SessionType
<1>1. /\ NoSession \in SessionType
      /\ NoSession.kind = "none"
      /\ NoSession.data = <<>>
      /\ NoSession.at = 0
      /\ NoSession.size = 0
      /\ NoSession.toggle = FALSE
      /\ NoSession.packet = 0
  BY SessionTypes DEF NoSession
<1> DEFINE a == [NoSession EXCEPT !.kind = "upload"]
<1>2. /\ a \in SessionType
      /\ a.kind = "upload" /\ a.data = <<>> /\ a.at = 0
      /\ a.size = 0 /\ a.toggle = FALSE /\ a.packet = 0
  BY <1>1 DEF SessionType, SessionKinds
<1> HIDE DEF a
<1> DEFINE b == [a EXCEPT !.data = d]
<1>3. /\ b \in SessionType
      /\ b.kind = "upload" /\ b.data = d /\ b.at = 0
      /\ b.size = 0 /\ b.toggle = FALSE /\ b.packet = 0
  BY <1>2 DEF SessionType, SessionKinds
<1> HIDE DEF b
<1> DEFINE c == [b EXCEPT !.at = at]
<1>4. /\ c \in SessionType
      /\ c.kind = "upload" /\ c.data = d /\ c.at = at
      /\ c.size = 0 /\ c.toggle = FALSE /\ c.packet = 0
  BY <1>3 DEF SessionType, SessionKinds
<1> HIDE DEF c
<1>5. c = Session(c.kind, c.data, c.at, c.size, c.toggle, c.packet)
  BY <1>4, SessionFields
<1>6. c = Session("upload", d, at, 0, FALSE, 0)
  BY <1>4, <1>5, Zenon
<1> QED
  BY <1>4, <1>6 DEF a, b, c

\* The session of a download that needs segments.
LEMMA DownloadSessionBegun ==
  ASSUME NEW d \in Seq(Units), NEW n \in Nat
  PROVE  /\ [NoSession EXCEPT !.kind = "download", !.data = d, !.size = n]
            = Session("download", d, 0, n, FALSE, 0)
         /\ Session("download", d, 0, n, FALSE, 0) \in SessionType
<1>1. /\ NoSession \in SessionType
      /\ NoSession.kind = "none"
      /\ NoSession.data = <<>>
      /\ NoSession.at = 0
      /\ NoSession.size = 0
      /\ NoSession.toggle = FALSE
      /\ NoSession.packet = 0
  BY SessionTypes DEF NoSession
<1> DEFINE a == [NoSession EXCEPT !.kind = "download"]
<1>2. /\ a \in SessionType
      /\ a.kind = "download" /\ a.data = <<>> /\ a.at = 0
      /\ a.size = 0 /\ a.toggle = FALSE /\ a.packet = 0
  BY <1>1 DEF SessionType, SessionKinds
<1> HIDE DEF a
<1> DEFINE b == [a EXCEPT !.data = d]
<1>3. /\ b \in SessionType
      /\ b.kind = "download" /\ b.data = d /\ b.at = 0
      /\ b.size = 0 /\ b.toggle = FALSE /\ b.packet = 0
  BY <1>2 DEF SessionType, SessionKinds
<1> HIDE DEF b
<1> DEFINE c == [b EXCEPT !.size = n]
<1>4. /\ c \in SessionType
      /\ c.kind = "download" /\ c.data = d /\ c.at = 0
      /\ c.size = n /\ c.toggle = FALSE /\ c.packet = 0
  BY <1>3 DEF SessionType, SessionKinds
<1> HIDE DEF c
<1>5. c = Session(c.kind, c.data, c.at, c.size, c.toggle, c.packet)
  BY <1>4, SessionFields
<1>6. c = Session("download", d, 0, n, FALSE, 0)
  BY <1>4, <1>5, Zenon
<1> QED
  BY <1>4, <1>6 DEF a, b, c

\* The session of an IDN that is written.
LEMMA IDNSessionBegun ==
  ASSUME NEW d \in Seq(Units)
  PROVE  /\ [NoSession EXCEPT !.kind = "SoE_write", !.data = d]
            = Session("SoE_write", d, 0, 0, FALSE, 0)
         /\ Session("SoE_write", d, 0, 0, FALSE, 0) \in SessionType
<1>1. /\ NoSession \in SessionType
      /\ NoSession.kind = "none"
      /\ NoSession.data = <<>>
      /\ NoSession.at = 0
      /\ NoSession.size = 0
      /\ NoSession.toggle = FALSE
      /\ NoSession.packet = 0
  BY SessionTypes DEF NoSession
<1> DEFINE a == [NoSession EXCEPT !.kind = "SoE_write"]
<1>2. /\ a \in SessionType
      /\ a.kind = "SoE_write" /\ a.data = <<>> /\ a.at = 0
      /\ a.size = 0 /\ a.toggle = FALSE /\ a.packet = 0
  BY <1>1 DEF SessionType, SessionKinds
<1> HIDE DEF a
<1> DEFINE b == [a EXCEPT !.data = d]
<1>3. /\ b \in SessionType
      /\ b.kind = "SoE_write" /\ b.data = d /\ b.at = 0
      /\ b.size = 0 /\ b.toggle = FALSE /\ b.packet = 0
  BY <1>2 DEF SessionType, SessionKinds
<1> HIDE DEF b
<1>4. b = Session(b.kind, b.data, b.at, b.size, b.toggle, b.packet)
  BY <1>3, SessionFields
<1>5. b = Session("SoE_write", d, 0, 0, FALSE, 0)
  BY <1>3, <1>4, Zenon
<1> QED
  BY <1>3, <1>5 DEF a, b

\* A session of which only the kind counts.
LEMMA KindOfNoSession ==
  ASSUME NEW k \in SessionKinds
  PROVE  /\ [NoSession EXCEPT !.kind = k]
            = Session(k, <<>>, 0, 0, FALSE, 0)
         /\ Session(k, <<>>, 0, 0, FALSE, 0) \in SessionType
<1>1. /\ NoSession \in SessionType
      /\ NoSession.kind = "none"
      /\ NoSession.data = <<>>
      /\ NoSession.at = 0
      /\ NoSession.size = 0
      /\ NoSession.toggle = FALSE
      /\ NoSession.packet = 0
  BY SessionTypes DEF NoSession
<1> DEFINE a == [NoSession EXCEPT !.kind = k]
<1>2. /\ a \in SessionType
      /\ a.kind = k /\ a.data = <<>> /\ a.at = 0
      /\ a.size = 0 /\ a.toggle = FALSE /\ a.packet = 0
  BY <1>1 DEF SessionType, SessionKinds
<1> HIDE DEF a
<1>3. a = Session(a.kind, a.data, a.at, a.size, a.toggle, a.packet)
  BY <1>2, SessionFields
<1>4. a = Session(k, <<>>, 0, 0, FALSE, 0)
  BY <1>2, <1>3, Zenon
<1> QED
  BY <1>2, <1>4 DEF a

\* One answer, and a refusal.
LEMMA ServedOneAnswer ==
  ASSUME Setting, Types, Turns(<<>>), Flow(<<>>), ~Early,
         NEW m \in Messages, m \notin Reports, NEW s \in SessionType, Does(<<m>>, s),
         store' = store \/ (IsWrite(call.op) /\ store' = call.data),
         Conversation(call, s, store', <<m>>, TRUE)
  PROVE  Advances
<1>1. <<m>> \in Seq(Messages) /\ \A i \in 1..Len(<<m>>) : <<m>>[i] \notin Reports
  OBVIOUS
<1> QED
  BY <1>1, ServedAnswer

\* The slave refuses.
LEMMA ServedRefusal ==
  ASSUME Setting, Types, Turns(<<>>), Flow(<<>>), ~Early,
         NEW k \in {"abort", "FoE_error", "SoE_error"}, Does(<<[kind |-> k]>>, Refusal),
         store' = store, Conversation(call, Refusal, store, <<[kind |-> k]>>, TRUE)
  PROVE  Advances
<1> DEFINE m == [kind |-> k]
<1>1. m \in Messages /\ m \notin Reports
  BY DEF Messages, Reports
<1>2. Conversation(call, Refusal, store', <<m>>, TRUE)
  OBVIOUS
<1> HIDE DEF m
<1> QED
  BY <1>1, <1>2, SessionTypes, ServedOneAnswer DEF m

\* The slave takes the first request of an upload.
LEMMA FirstUploadServed ==
  ASSUME Setting, Types, NEW e \in Seq(Messages), Turns(e), Flow(e), ~Early, Serves,
         FirstUpload(call, session, store, e, FALSE)
  PROVE  Advances
<1> USE DEF ReadSDO, WriteSDO
<1>1. /\ e = <<>> /\ inbox = Request /\ call \in CallType
      /\ call.op = ReadSDO /\ call.step = "request" /\ call.got = <<>> /\ ~call.toggle
  BY ServesFresh, RequestTaken DEF FirstUpload
<1>2. Turns(<<>>) /\ Flow(<<>>)
  BY <1>1
<1>3. inbox.kind = "upload"
  BY <1>1 DEF Request, IsSDO, SDORequest
<1>4. CASE Abort
  <2>1. Refusable /\ Does(<<[kind |-> "abort"]>>, Refusal) /\ store' = store
    BY <1>3, <1>4 DEF Abort, SDOSegment, SegmentUnexpected, AfterRefusal
  <2>2. FirstUpload(call, Refusal, store, <<[kind |-> "abort"]>>, TRUE)
    BY <1>1, <2>1 DEF FirstUpload, Declines
  <2> QED
    BY <1>2, <2>1, <2>2, ServedRefusal DEF Conversation
<1>5. CASE Rejects
  <2>1. FirstUpload(call, Refusal, store, <<>>, TRUE)
    BY <1>1, <1>5 DEF FirstUpload, Rejected, Rejects
  <2> QED
    BY <1>2, <1>5, <2>1, ServedReport DEF Conversation
<1>6. CASE Upload
  <2> DEFINE data == FirstUnits(store, UnitsFirst)
             m == [kind |-> "upload_response", size |-> Len(store), data |-> data]
             s == IF Len(data) = Len(store) THEN NoSession
                  ELSE Session("upload", store, Len(data), 0, FALSE, 0)
  <2>1. /\ store \in Seq(Units) /\ Len(store) \in Nat
        /\ data \in Seq(Units) /\ Len(data) \in Nat
    BY ContentsAreSequences, FirstUnitsOf, CallAssumption DEF Types, CallAssumption
  <2>2. /\ [NoSession EXCEPT !.kind = "upload", !.data = store, !.at = Len(data)]
           = Session("upload", store, Len(data), 0, FALSE, 0)
        /\ Session("upload", store, Len(data), 0, FALSE, 0) \in SessionType
    <3> DEFINE at == Len(data)
    <3>1. at \in Nat /\ store \in Seq(Units) /\ "upload" \in SessionKinds /\ 0 \in Nat /\ FALSE \in BOOLEAN
      BY <2>1 DEF SessionKinds
    <3> HIDE DEF at
    <3>2. /\ [NoSession EXCEPT !.kind = "upload", !.data = store, !.at = at]
             = Session("upload", store, at, 0, FALSE, 0)
          /\ Session("upload", store, at, 0, FALSE, 0) \in SessionType
      BY <3>1, UploadSessionBegun, Zenon
    <3> QED
      BY <3>2 DEF at
  <2>3. Does(<<m>>, s) /\ store' = store
    BY <1>6, <2>2 DEF Upload
  <2>4. FirstUpload(call, s, store, <<m>>, TRUE)
    BY <1>1 DEF FirstUpload
  <2> HIDE DEF data
  <2>5. m \in Messages /\ m \notin Reports
    BY <2>1 DEF Messages, Reports
  <2>6. s \in SessionType
    BY <2>2, SessionTypes
  <2>7. Conversation(call, s, store', <<m>>, TRUE)
    BY <2>3, <2>4 DEF Conversation
  <2> HIDE DEF m, s
  <2> QED
    BY <1>2, <2>3, <2>5, <2>6, <2>7, ServedOneAnswer
<1> QED
  BY <1>3, <1>4, <1>5, <1>6, ServesKinds

\* It takes the request of a segment.
LEMMA NextUploadServed ==
  ASSUME Setting, Types, NEW e \in Seq(Messages), Turns(e), Flow(e), ~Early, Serves,
         NextUpload(call, session, store, e, FALSE)
  PROVE  Advances
<1> USE DEF ReadSDO, WriteSDO
<1>1. /\ e = <<>> /\ inbox = Request /\ call \in CallType
      /\ call.op = ReadSDO /\ call.step = "segment"
      /\ Len(call.got) < Len(store) /\ call.got = SubSeq(store, 1, Len(call.got)) /\ Len(store) <= call.room
      /\ session = Session("upload", store, Len(call.got), 0, call.toggle, 0)
  BY ServesFresh, RequestTaken DEF NextUpload
<1>2. Turns(<<>>) /\ Flow(<<>>)
  BY <1>1
<1>3. inbox.kind = "upload_segment" /\ inbox.toggle = call.toggle
  BY <1>1 DEF Request, IsSDO, SDORequest
<1>4. /\ session.kind = "upload" /\ session.toggle = call.toggle
      /\ session.data = store /\ session.at = Len(call.got)
      /\ session.size = 0 /\ session.packet = 0
  BY <1>1 DEF Session
<1>5. CASE Abort
  <2>1. Refusable /\ Does(<<[kind |-> "abort"]>>, Refusal) /\ store' = store
    BY <1>3, <1>4, <1>5 DEF Abort, SDOSegment, SegmentUnexpected, AfterRefusal
  <2>2. NextUpload(call, Refusal, store, <<[kind |-> "abort"]>>, TRUE)
    BY <1>1, <2>1 DEF NextUpload, Declines
  <2> QED
    BY <1>2, <2>1, <2>2, ServedRefusal DEF Conversation
<1>6. CASE UploadSegment
  <2> DEFINE data == UnitsFrom(store, Len(call.got))
             last_ == Len(call.got) + Len(data) = Len(store)
             m == [kind |-> "upload_segment_response", data |-> data, last |-> last_]
             next == Session("upload", store, Len(call.got) + Len(data), 0, ~call.toggle, 0)
             s == IF last_ THEN NoSession ELSE next
  <2>1. /\ store \in Seq(Units) /\ call.got \in Seq(Units) /\ Len(call.got) \in Nat
        /\ data \in Seq(Units) /\ Len(data) \in Nat /\ Len(call.got) <= Len(store)
        /\ call.toggle \in BOOLEAN
    <3>1. store \in Seq(Units) /\ call.got \in Seq(Units) /\ call.toggle \in BOOLEAN
      BY <1>1, ContentsAreSequences DEF Types, CallType
    <3> QED
      BY <1>1, <3>1, NextUnits
  <2>2. [session EXCEPT !.at = @ + Len(data), !.toggle = ~@] = next /\ next \in SessionType
    <3> DEFINE at == Len(call.got) + Len(data)
               t == ~call.toggle
    <3>1. at \in Nat
      <4> HIDE DEF data
      <4> QED
        BY <2>1
    <3>2. t \in BOOLEAN
      OBVIOUS
    <3>3. session \in SessionType
      BY DEF Types
    <3>4. [session EXCEPT !.at = @ + Len(data), !.toggle = ~@] = [session EXCEPT !.at = at, !.toggle = t]
      BY <1>4
    <3>5. next = Session("upload", store, at, 0, t, 0)
      OBVIOUS
    <3> HIDE DEF at, t, next
    <3>6. /\ [session EXCEPT !.at = at, !.toggle = t]
             = Session(session.kind, session.data, at, session.size, t, session.packet)
          /\ Session(session.kind, session.data, at, session.size, t, session.packet) \in SessionType
      BY <3>1, <3>2, <3>3, UploadSessionAdvanced, Zenon
    <3> QED
      BY <1>4, <3>4, <3>5, <3>6
  <2>3. Does(<<m>>, s) /\ store' = store
    BY <1>4, <1>6, <2>2 DEF UploadSegment
  <2>4. NextUpload(call, s, store, <<m>>, TRUE)
    BY <1>1 DEF NextUpload
  <2>5. last_ \in BOOLEAN
    OBVIOUS
  <2> HIDE DEF data, last_
  <2>6. m \in Messages /\ m \notin Reports
    BY <2>1, <2>5 DEF Messages, Reports
  <2>7. s \in SessionType
    <3> HIDE DEF next
    <3> QED
      BY <2>2, SessionTypes
  <2>8. Conversation(call, s, store', <<m>>, TRUE)
    BY <2>3, <2>4 DEF Conversation
  <2> HIDE DEF m, s
  <2> QED
    BY <1>2, <2>3, <2>6, <2>7, <2>8, ServedOneAnswer
<1> QED
  BY <1>3, <1>5, <1>6, ServesKinds

\* The units that a request brings, after the ones of the requests before.
LEMMA ChunkJoins ==
  ASSUME Types, Calling, call # Nothing
  PROVE  /\ call \in CallType /\ call.data \in Seq(Units) /\ Len(call.data) \in Nat
         /\ call.from \in Nat /\ call.sent \in Nat /\ call.from <= call.sent /\ call.sent <= Len(call.data)
         /\ Chunk \in Seq(Units) /\ Len(Chunk) = call.sent - call.from
         /\ SubSeq(call.data, 1, call.from) \in Seq(Units) /\ Len(SubSeq(call.data, 1, call.from)) = call.from
         /\ SubSeq(call.data, 1, call.sent) \in Seq(Units) /\ Len(SubSeq(call.data, 1, call.sent)) = call.sent
         /\ SubSeq(call.data, 1, call.from) \o Chunk = SubSeq(call.data, 1, call.sent)
         /\ call.sent = Len(call.data) => SubSeq(call.data, 1, call.sent) = call.data
         /\ call.from = 0 => Chunk = SubSeq(call.data, 1, call.sent)
<1>1. /\ call \in CallType /\ call.data \in Seq(Units) /\ Len(call.data) \in Nat
      /\ call.from \in Nat /\ call.sent \in Nat /\ call.from <= call.sent /\ call.sent <= Len(call.data)
  BY DEF Types, Calling, CallType
<1>2. PICK d, a, b : d = call.data /\ a = call.from /\ b = call.sent
  OBVIOUS
<1>3. d \in Seq(Units) /\ a \in Nat /\ b \in Nat /\ a <= b /\ b <= Len(d) /\ 0 \in Nat /\ 0 <= b
  BY <1>1, <1>2
<1>4. /\ SubSeq(d, 1, a) \in Seq(Units) /\ Len(SubSeq(d, 1, a)) = a
      /\ SubSeq(d, a + 1, b) \in Seq(Units) /\ Len(SubSeq(d, a + 1, b)) = b - a
      /\ SubSeq(d, 1, a) \o SubSeq(d, a + 1, b) = SubSeq(d, 1, b)
  BY <1>3, PartsJoin
<1>5. SubSeq(d, 1, b) \in Seq(Units) /\ Len(SubSeq(d, 1, b)) = b
  BY <1>3, PartsJoin
<1>6. b = Len(d) => SubSeq(d, 1, b) = d
  BY <1>3, WholeSequence
<1>7. Chunk = SubSeq(d, a + 1, b)
  BY <1>2 DEF Chunk
<1>8. a = 0 => Chunk = SubSeq(d, 1, b)
  BY <1>7
<1> QED
  BY <1>1, <1>2, <1>4, <1>5, <1>6, <1>7, <1>8

\* It takes the first request of a download.
LEMMA FirstDownloadServed ==
  ASSUME Setting, Types, NEW e \in Seq(Messages), Turns(e), Flow(e), ~Early, Serves,
         FirstDownload(call, session, store, e, FALSE)
  PROVE  Advances
<1> USE DEF ReadSDO, WriteSDO
<1>1. /\ e = <<>> /\ inbox = Request /\ call # Nothing /\ call.op = WriteSDO /\ call.step = "request"
      /\ call.from = 0 /\ ~call.toggle /\ call.more = (call.sent # Len(call.data))
  BY ServesFresh, RequestTaken DEF FirstDownload
<1>2. Turns(<<>>) /\ Flow(<<>>)
  BY <1>1
<1>3. inbox.kind = "download" /\ inbox.size = Len(call.data) /\ inbox.data = Chunk
  BY <1>1 DEF Request, IsSDO, SDORequest
<1>4. ASSUME NEW s, NEW st, NEW a,
             \/ Declines(s, a, "abort") \/ Rejected(s, a)
             \/ /\ a = <<[kind |-> "download_response", size |-> 0, data |-> <<>>]>>
                /\ Downloaded(call, s, st, call.sent, FALSE)
      PROVE  Conversation(call, s, st, a, TRUE)
  BY <1>1, <1>4 DEF Conversation, FirstDownload
<1>5. CASE Abort
  <2>1. Refusable /\ Does(<<[kind |-> "abort"]>>, Refusal) /\ store' = store
    BY <1>3, <1>5 DEF Abort, SDOSegment, SegmentUnexpected, AfterRefusal
  <2>2. Conversation(call, Refusal, store, <<[kind |-> "abort"]>>, TRUE)
    BY <1>4, <2>1 DEF Declines
  <2> QED
    BY <1>2, <2>1, <2>2, ServedRefusal
<1>6. CASE Rejects
  <2>1. Conversation(call, Refusal, store, <<>>, TRUE)
    BY <1>4, <1>6 DEF Rejected, Rejects
  <2> QED
    BY <1>2, <1>6, <2>1, ServedReport
<1>7. CASE Download
  <2> DEFINE m == [kind |-> "download_response", size |-> 0, data |-> <<>>]
             k == Len(call.data)
             d == SubSeq(call.data, 1, call.sent)
             next == Session("download", d, 0, k, FALSE, 0)
             s == IF call.sent = k THEN NoSession ELSE next
  <2>1. /\ d \in Seq(Units) /\ k \in Nat /\ Len(d) = call.sent /\ Chunk = d
        /\ call.sent = k => d = call.data
    BY <1>1, ChunkJoins DEF Turns
  <2>2. /\ [NoSession EXCEPT !.kind = "download", !.data = d, !.size = k] = next
        /\ next \in SessionType
    <3> HIDE DEF d, k
    <3> QED
      BY <2>1, DownloadSessionBegun, Zenon
  <2>3. m \in Messages /\ m \notin Reports
    BY DEF Messages, Reports
  <2>4. s \in SessionType
    <3> HIDE DEF next
    <3> QED
      BY <2>2, SessionTypes
  <2>5. Does(<<m>>, s) /\ store' = IF call.sent = k THEN call.data ELSE store
    <3>1. CASE call.sent = k
      BY <1>3, <1>7, <2>1, <3>1 DEF Download
    <3>2. CASE call.sent # k
      BY <1>3, <1>7, <2>1, <2>2, <3>2 DEF Download
    <3> QED
      BY <3>1, <3>2
  <2>6. Downloaded(call, s, store', call.sent, FALSE)
    BY <2>1, <2>5 DEF Downloaded
  <2>7. Conversation(call, s, store', <<m>>, TRUE)
    BY <1>4, <2>6
  <2>8. store' = store \/ (IsWrite(call.op) /\ store' = call.data)
    BY <1>1, <2>5 DEF IsWrite
  <2> HIDE DEF m, s
  <2> QED
    BY <1>2, <2>3, <2>4, <2>5, <2>7, <2>8, ServedOneAnswer
<1> QED
  BY <1>3, <1>5, <1>6, <1>7, ServesKinds

\* It takes a segment of a download.
LEMMA NextDownloadServed ==
  ASSUME Setting, Types, NEW e \in Seq(Messages), Turns(e), Flow(e), ~Early, Serves,
         NextDownload(call, session, store, e, FALSE)
  PROVE  Advances
<1> USE DEF ReadSDO, WriteSDO
<1> DEFINE k == Len(call.data)
           n == call.sent
           d == SubSeq(call.data, 1, n)
           whole == n = k
<1>1. /\ e = <<>> /\ inbox = Request /\ call # Nothing /\ call.op = WriteSDO /\ call.step = "segment"
      /\ call.from < n /\ call.more = (n # k)
      /\ session = Session("download", SubSeq(call.data, 1, call.from), 0, k, call.toggle, 0)
  BY ServesFresh, RequestTaken DEF NextDownload
<1>2. Turns(<<>>) /\ Flow(<<>>)
  BY <1>1
<1>3. /\ inbox.kind = "download_segment" /\ inbox.toggle = call.toggle /\ inbox.data = Chunk
      /\ inbox.last = ~call.more
  BY <1>1 DEF Request, IsSDO, SDORequest
<1>4. /\ session.kind = "download" /\ session.toggle = call.toggle /\ session.size = k
      /\ session.data = SubSeq(call.data, 1, call.from) /\ session.at = 0 /\ session.packet = 0
  BY <1>1 DEF Session
<1>5. /\ d \in Seq(Units) /\ k \in Nat /\ n \in Nat /\ Len(d) = n /\ session.data \o inbox.data = d
      /\ Len(session.data) + Len(inbox.data) = n
      /\ n = k => d = call.data
  <2>1. Calling
    BY DEF Turns
  <2>2. PICK c, f : c = Chunk /\ f = SubSeq(call.data, 1, call.from)
    OBVIOUS
  <2>3. /\ d \in Seq(Units) /\ k \in Nat /\ n \in Nat /\ Len(d) = n
        /\ call.from \in Nat /\ call.from <= n /\ Len(c) = n - call.from /\ Len(f) = call.from
        /\ f \o c = d /\ (n = k => d = call.data)
    BY <1>1, <2>1, <2>2, ChunkJoins
  <2>4. session.data = f /\ inbox.data = c
    BY <1>3, <1>4, <2>2
  <2> HIDE DEF d, k, n
  <2>5. Len(f) + Len(c) = n
    BY <2>3
  <2> QED
    BY <2>3, <2>4, <2>5
<1> HIDE DEF k, n, d
<1>6. inbox.last <=> whole
  BY <1>1, <1>3, Zenon
<1>7. ASSUME NEW s, NEW st, NEW a,
             \/ Declines(s, a, "abort")
             \/ /\ a = <<[kind |-> "download_segment_response"]>>
                /\ Downloaded(call, s, st, n, ~call.toggle)
      PROVE  Conversation(call, s, st, a, TRUE)
  BY <1>1, <1>7 DEF Conversation, NextDownload, n, k
<1>8. CASE Abort
  <2>1. Refusable /\ Does(<<[kind |-> "abort"]>>, Refusal) /\ store' = store
    BY <1>3, <1>4, <1>5, <1>6, <1>8 DEF Abort, SDOSegment, SegmentUnexpected, AfterRefusal
  <2>2. Conversation(call, Refusal, store, <<[kind |-> "abort"]>>, TRUE)
    BY <1>7, <2>1 DEF Declines
  <2> QED
    BY <1>2, <2>1, <2>2, ServedRefusal
<1>9. CASE DownloadSegment
  <2> DEFINE m == [kind |-> "download_segment_response"]
             t == ~call.toggle
             next == Session("download", d, 0, k, t, 0)
             s == IF whole THEN NoSession ELSE next
  <2>1. t \in BOOLEAN /\ session \in SessionType
    BY DEF Types
  <2>2. [session EXCEPT !.data = d, !.toggle = ~@] = next /\ next \in SessionType
    <3>1. [session EXCEPT !.data = d, !.toggle = ~@] = [session EXCEPT !.data = d, !.toggle = t]
      BY <1>4
    <3> HIDE DEF t
    <3>2. /\ [session EXCEPT !.data = d, !.toggle = t]
             = Session(session.kind, d, session.at, session.size, t, session.packet)
          /\ Session(session.kind, d, session.at, session.size, t, session.packet) \in SessionType
      BY <2>1, <1>5, DownloadSessionAdvanced, Zenon
    <3> QED
      BY <1>4, <3>1, <3>2
  <2>3. m \in Messages /\ m \notin Reports
    BY DEF Messages, Reports
  <2>4. s \in SessionType
    <3> HIDE DEF next
    <3> QED
      BY <2>2, SessionTypes
  <2>5. Does(<<m>>, s) /\ store' = IF whole THEN call.data ELSE store
    <3>1. CASE whole
      BY <1>5, <1>6, <1>9, <3>1 DEF DownloadSegment
    <3>2. CASE ~whole
      BY <1>5, <1>6, <1>9, <2>2, <3>2 DEF DownloadSegment
    <3> QED
      BY <3>1, <3>2
  <2>6. Downloaded(call, s, store', n, t)
    BY <2>5 DEF Downloaded, k, d
  <2>7. Conversation(call, s, store', <<m>>, TRUE)
    BY <1>7, <2>6
  <2>8. store' = store \/ (IsWrite(call.op) /\ store' = call.data)
    BY <1>1, <2>5 DEF IsWrite
  <2> HIDE DEF m, s
  <2> QED
    BY <1>2, <2>3, <2>4, <2>5, <2>7, <2>8, ServedOneAnswer
<1> QED
  BY <1>3, <1>8, <1>9, ServesKinds

\* A packet of the file.
LEMMA PacketServed ==
  ASSUME NEW s \in SessionType, s.size = 0, s.toggle = FALSE, s.at <= Len(s.data), Packet(s)
  PROVE  \E m \in Messages, next \in SessionType :
           /\ m \notin Reports /\ Does(<<m>>, next)
           /\ SendsPacket(next, s.data, <<m>>, s.at, s.packet + 1)
<1> DEFINE data == UnitsFrom(s.data, s.at)
           p == s.packet + 1
           at == s.at + Len(data)
           k == IF Len(data) = UnitsMore THEN "FoE_read" ELSE "FoE_read_last"
           m == [kind |-> "data", packet |-> p, data |-> data]
           next == Session(k, s.data, at, 0, FALSE, p)
<1>1. s.data \in Seq(Units) /\ s.at \in Nat /\ s.packet \in Nat
  BY DEF SessionType
<1>2. data \in Seq(Units) /\ Len(data) \in Nat
  BY <1>1, UnitsFromAt
<1>3. p \in Nat /\ at \in Nat
  <2> HIDE DEF data
  <2> QED
    BY <1>1, <1>2
<1>4. k \in SessionKinds
  BY DEF SessionKinds
<1>5. Does(<<m>>, [s EXCEPT !.at = at, !.packet = p, !.kind = k])
  BY DEF Packet
<1>6. SendsPacket(next, s.data, <<m>>, s.at, p)
  BY DEF SendsPacket
<1> HIDE DEF data, p, at, k
<1>7. m \in Messages /\ m \notin Reports
  BY <1>2, <1>3 DEF Messages, Reports
<1>8. /\ [s EXCEPT !.at = at, !.packet = p, !.kind = k] = Session(k, s.data, at, s.size, s.toggle, p)
      /\ Session(k, s.data, at, s.size, s.toggle, p) \in SessionType
  BY <1>3, <1>4, ReadSessionAdvanced, Zenon
<1>9. next \in SessionType /\ Does(<<m>>, next)
  BY <1>5, <1>8
<1> HIDE DEF m, next
<1> QED
  BY <1>6, <1>7, <1>9 DEF p

\* It takes the request of a file.
LEMMA FirstPacketServed ==
  ASSUME Setting, Types, NEW e \in Seq(Messages), Turns(e), Flow(e), ~Early, Serves,
         FirstPacket(call, session, store, e, FALSE)
  PROVE  Advances
<1> USE DEF ReadSDO, WriteSDO, ReadFile, WriteFile, ReadSoE, WriteSoE
<1>1. /\ e = <<>> /\ inbox = Request /\ call.op = ReadFile /\ call.step = "request"
      /\ call.got = <<>> /\ call.packet = 0
  BY ServesFresh, RequestTaken DEF FirstPacket
<1>2. Turns(<<>>) /\ Flow(<<>>)
  BY <1>1
<1>3. inbox.kind = ReadFile
  BY <1>1 DEF Request, IsSDO, IsSoE, FoERequest
<1>4. ASSUME NEW s, NEW st, NEW a,
             Declines(s, a, "FoE_error") \/ Rejected(s, a) \/ SendsPacket(s, st, a, 0, 1)
      PROVE  Conversation(call, s, st, a, TRUE)
  BY <1>1, <1>4 DEF Conversation, FirstPacket
<1>5. CASE FoERefused
  <2>1. Refusable /\ Does(<<[kind |-> "FoE_error"]>>, Refusal) /\ store' = store
    BY <1>3, <1>5 DEF FoERefused, PacketUnexpected, AfterRefusal
  <2>2. Conversation(call, Refusal, store, <<[kind |-> "FoE_error"]>>, TRUE)
    BY <1>4, <2>1 DEF Declines
  <2> QED
    BY <1>2, <2>1, <2>2, ServedRefusal
<1>6. CASE Rejects
  <2>1. Conversation(call, Refusal, store, <<>>, TRUE)
    BY <1>4, <1>6 DEF Rejected, Rejects
  <2> QED
    BY <1>2, <1>6, <2>1, ServedReport
<1>7. CASE FileRead
  <2> DEFINE s == [NoSession EXCEPT !.data = store]
  <2>1. store \in Seq(Units) /\ 0 <= Len(store)
    BY ContentsAreSequences DEF Types
  <2>2. /\ s \in SessionType /\ s.size = 0 /\ s.toggle = FALSE /\ s.at = 0 /\ s.packet = 0
        /\ s.data = store
    BY <2>1, SessionTypes DEF SessionType, NoSession
  <2>3. Packet(s) /\ store' = store
    BY <1>7 DEF FileRead
  <2> HIDE DEF s
  <2>4. s.at <= Len(s.data)
    BY <2>1, <2>2
  <2>5. PICK m \in Messages, next \in SessionType :
           /\ m \notin Reports /\ Does(<<m>>, next)
           /\ SendsPacket(next, s.data, <<m>>, s.at, s.packet + 1)
    BY <2>2, <2>3, <2>4, PacketServed
  <2>6. SendsPacket(next, store, <<m>>, 0, 1)
    <3>1. s.packet + 1 = 1
      BY <2>2
    <3> QED
      BY <2>2, <2>5, <3>1
  <2>7. Conversation(call, next, store', <<m>>, TRUE)
    BY <1>4, <2>3, <2>6
  <2> QED
    BY <1>2, <2>3, <2>5, <2>7, ServedOneAnswer
<1> QED
  BY <1>3, <1>5, <1>6, <1>7, ServesKinds

\* It takes the acknowledge of a packet.
LEMMA LaterPacketServed ==
  ASSUME Setting, Types, NEW e \in Seq(Messages), Turns(e), Flow(e), ~Early, Serves,
         LaterPacket(call, session, store, e, FALSE)
  PROVE  Advances
<1> USE DEF ReadSDO, WriteSDO, ReadFile, WriteFile, ReadSoE, WriteSoE
<1>1. /\ e = <<>> /\ inbox = Request /\ call.op = ReadFile /\ call.step = "ack"
      /\ Len(call.got) <= Len(store) /\ call.got = SubSeq(store, 1, Len(call.got))
      /\ Len(call.got) <= call.room /\ (~call.more => call.got = store)
      /\ session = Session(IF call.more THEN "FoE_read" ELSE "FoE_read_last",
                           store, Len(call.got), 0, FALSE, call.packet)
  BY ServesFresh, RequestTaken DEF LaterPacket
<1>2. Turns(<<>>) /\ Flow(<<>>)
  BY <1>1
<1>3. inbox.kind = "ack" /\ inbox.packet = call.packet
  BY <1>1 DEF Request, IsSDO, IsSoE, FoERequest
<1>4. /\ session.kind = (IF call.more THEN "FoE_read" ELSE "FoE_read_last")
      /\ session.data = store /\ session.at = Len(call.got) /\ session.size = 0
      /\ session.toggle = FALSE /\ session.packet = call.packet /\ session \in SessionType
  BY <1>1 DEF Session, Types
<1>5. ASSUME NEW s, NEW st, NEW a, st = store,
             IF call.more THEN Declines(s, a, "FoE_error") \/ SendsPacket(s, st, a, Len(call.got), call.packet + 1)
             ELSE a = <<>> /\ s = NoSession
      PROVE  Conversation(call, s, st, a, TRUE)
  BY <1>1, <1>5 DEF Conversation, LaterPacket
<1>6. CASE FoERefused
  <2>1. /\ Refusable /\ Does(<<[kind |-> "FoE_error"]>>, Refusal) /\ store' = store
        /\ call.more
    BY <1>3, <1>4, <1>6 DEF FoERefused, PacketUnexpected, AfterRefusal
  <2>2. Conversation(call, Refusal, store, <<[kind |-> "FoE_error"]>>, TRUE)
    BY <1>5, <2>1 DEF Declines
  <2> QED
    BY <1>2, <2>1, <2>2, ServedRefusal
<1>7. CASE PacketAcknowledged
  <2>1. store' = store
    BY <1>7 DEF PacketAcknowledged
  <2>2. CASE call.more
    <3>1. Packet(session)
      BY <1>4, <1>7, <2>2 DEF PacketAcknowledged
    <3>2. PICK m \in Messages, next \in SessionType :
             /\ m \notin Reports /\ Does(<<m>>, next)
             /\ SendsPacket(next, session.data, <<m>>, session.at, session.packet + 1)
      BY <1>1, <1>4, <3>1, PacketServed
    <3>3. SendsPacket(next, store, <<m>>, Len(call.got), call.packet + 1)
      BY <1>4, <3>2
    <3>4. Conversation(call, next, store', <<m>>, TRUE)
      BY <1>5, <2>1, <2>2, <3>3
    <3> QED
      BY <1>2, <2>1, <3>2, <3>4, ServedOneAnswer
  <2>3. CASE ~call.more
    <3>1. Does(<<>>, NoSession)
      BY <1>4, <1>7, <2>3 DEF PacketAcknowledged
    <3>2. Conversation(call, NoSession, store, <<>>, TRUE)
      BY <1>5, <2>3
    <3> QED
      BY <1>1, <2>1, <3>1, <3>2, SessionTypes, ServedSilently
  <2> QED
    BY <2>2, <2>3
<1> QED
  BY <1>3, <1>6, <1>7, ServesKinds

\* The slave has the master wait.
LEMMA ServedBusy ==
  ASSUME Setting, Types, Turns(<<>>), Flow(<<>>), ~Early, Busy,
         \A s, a : SaysBusy(s, a) => Conversation(call, s, store, a, TRUE)
  PROVE  Advances
<1> DEFINE m == [kind |-> "busy"]
           s == [session EXCEPT !.kind = "busy"]
<1>1. m \in Messages /\ m \notin Reports
  BY DEF Messages, Reports
<1>2. s \in SessionType /\ s.kind = "busy"
  BY DEF Types, SessionType
<1>3. Does(<<m>>, s) /\ store' = store /\ CanBeBusy
  BY DEF Busy
<1>4. SaysBusy(s, <<m>>)
  BY <1>2, <1>3 DEF SaysBusy
<1> HIDE DEF m, s
<1>5. Conversation(call, s, store', <<m>>, TRUE)
  BY <1>3, <1>4
<1> QED
  BY <1>1, <1>2, <1>3, <1>5, ServedOneAnswer

\* It takes the request to write a file.
LEMMA WriteRequestServed ==
  ASSUME Setting, Types, NEW e \in Seq(Messages), Turns(e), Flow(e), ~Early, Serves,
         WriteRequest(call, session, store, e, FALSE)
  PROVE  Advances
<1> USE DEF ReadSDO, WriteSDO, ReadFile, WriteFile, ReadSoE, WriteSoE
<1>1. /\ e = <<>> /\ inbox = Request /\ call.op = WriteFile /\ call.step = "request"
      /\ call.packet = 0 /\ call.sent = 0 /\ ~call.zero
  BY ServesFresh, RequestTaken DEF WriteRequest
<1>2. Turns(<<>>) /\ Flow(<<>>)
  BY <1>1
<1>3. inbox.kind = WriteFile
  BY <1>1 DEF Request, IsSDO, IsSoE, FoERequest
<1>4. ASSUME NEW s, NEW st, NEW a,
             \/ Declines(s, a, "FoE_error") \/ Rejected(s, a) \/ SaysBusy(s, a)
             \/ a = <<[kind |-> "ack", packet |-> 0]>> /\ s = Session("FoE_write", <<>>, 0, 0, FALSE, 0)
      PROVE  Conversation(call, s, st, a, TRUE)
  BY <1>1, <1>4 DEF Conversation, WriteRequest
<1>5. CASE FoERefused
  <2>1. Refusable /\ Does(<<[kind |-> "FoE_error"]>>, Refusal) /\ store' = store
    BY <1>3, <1>5 DEF FoERefused, PacketUnexpected, AfterRefusal
  <2>2. Conversation(call, Refusal, store, <<[kind |-> "FoE_error"]>>, TRUE)
    BY <1>4, <2>1 DEF Declines
  <2> QED
    BY <1>2, <2>1, <2>2, ServedRefusal
<1>6. CASE Rejects
  <2>1. Conversation(call, Refusal, store, <<>>, TRUE)
    BY <1>4, <1>6 DEF Rejected, Rejects
  <2> QED
    BY <1>2, <1>6, <2>1, ServedReport
<1>7. CASE Busy
  BY <1>2, <1>4, <1>7, ServedBusy
<1>8. CASE FileWrite
  <2> DEFINE m == [kind |-> "ack", packet |-> 0]
             s == [NoSession EXCEPT !.kind = "FoE_write"]
  <2>1. m \in Messages /\ m \notin Reports
    BY DEF Messages, Reports
  <2>2. s = Session("FoE_write", <<>>, 0, 0, FALSE, 0) /\ s \in SessionType
    BY KindOfNoSession DEF SessionKinds
  <2>3. Does(<<m>>, s) /\ store' = store
    BY <1>8 DEF FileWrite
  <2>4. Conversation(call, s, store', <<m>>, TRUE)
    BY <1>4, <2>2
  <2> HIDE DEF m, s
  <2> QED
    BY <1>2, <2>1, <2>2, <2>3, <2>4, ServedOneAnswer
<1> QED
  BY <1>3, <1>5, <1>6, <1>7, <1>8, ServesKinds

\* It takes a packet of a file.
LEMMA WritePacketServed ==
  ASSUME Setting, Types, NEW e \in Seq(Messages), Turns(e), Flow(e), ~Early, Serves,
         WritePacket(call, session, store, e, FALSE)
  PROVE  Advances
<1> USE DEF ReadSDO, WriteSDO, ReadFile, WriteFile, ReadSoE, WriteSoE
<1> DEFINE k == Len(call.data)
           n == call.sent
           p == call.packet
           d == SubSeq(call.data, 1, n)
           full == n - call.from < UnitsMore
<1>1. /\ e = <<>> /\ inbox = Request /\ call # Nothing /\ call.op = WriteFile /\ call.step = "data"
      /\ p > 0 /\ n = Min2(call.from + UnitsMore, k)
      /\ session = Session("FoE_write", SubSeq(call.data, 1, call.from), 0, 0, FALSE, p - 1)
  BY ServesFresh, RequestTaken DEF WritePacket
<1>2. Turns(<<>>) /\ Flow(<<>>)
  BY <1>1
<1>3. inbox.kind = "data" /\ inbox.packet = p /\ inbox.data = Chunk
  BY <1>1 DEF Request, IsSDO, IsSoE, FoERequest
<1>4. /\ session.kind = "FoE_write" /\ session.data = SubSeq(call.data, 1, call.from)
      /\ session.at = 0 /\ session.size = 0 /\ session.toggle = FALSE /\ session.packet = p - 1
      /\ session \in SessionType
  BY <1>1 DEF Session, Types
<1>5. ASSUME NEW s, NEW st, NEW a,
             \/ Declines(s, a, "FoE_error") \/ SaysBusy(s, a)
             \/ /\ a = <<[kind |-> "ack", packet |-> p]>>
                /\ IF n - call.from < UnitsMore THEN st = call.data /\ s = NoSession
                   ELSE s = Session("FoE_write", d, 0, 0, FALSE, p)
      PROVE  Conversation(call, s, st, a, TRUE)
  <2>1. WritePacket(call, s, st, a, TRUE)
    <3>1. call.zero = (call.sent = Len(call.data) /\ call.sent - call.from = UnitsMore)
      BY DEF WritePacket
    <3> QED
      BY <1>1, <1>5, <3>1 DEF WritePacket
  <2> QED
    BY <2>1 DEF Conversation
<1>6. /\ d \in Seq(Units) /\ Len(inbox.data) = n - call.from /\ p \in Nat /\ p = (p - 1) + 1
      /\ session.data \o inbox.data = d
      /\ full => d = call.data
  <2>1. Calling
    BY DEF Turns
  <2>2. PICK c, f : c = Chunk /\ f = SubSeq(call.data, 1, call.from)
    OBVIOUS
  <2>3. /\ d \in Seq(Units) /\ k \in Nat /\ n \in Nat
        /\ call.from \in Nat /\ call.from <= n /\ Len(c) = n - call.from
        /\ f \o c = d /\ (n = k => d = call.data)
    BY <1>1, <2>1, <2>2, ChunkJoins
  <2>4. session.data = f /\ inbox.data = c
    BY <1>3, <1>4, <2>2
  <2>5. p \in Nat
    BY <1>1 DEF Types, CallType
  <2> HIDE DEF d, k, n, p
  <2>6. p = (p - 1) + 1
    BY <2>5
  <2>7. full => n = k
    <3>1. call.from + UnitsMore \in Int /\ k \in Int /\ UnitsMore \in Nat
      BY <2>3, CallAssumption DEF CallAssumption
    <3>2. n = IF call.from + UnitsMore <= k THEN call.from + UnitsMore ELSE k
      BY <1>1, <3>1, MinOfTwo
    <3> QED
      BY <2>3, <3>1, <3>2
  <2> QED
    BY <2>3, <2>4, <2>5, <2>6, <2>7
<1> HIDE DEF k, n, p, d
<1>7. CASE FoERefused
  <2>1. Refusable /\ Does(<<[kind |-> "FoE_error"]>>, Refusal) /\ store' = store
    BY <1>3, <1>4, <1>6, <1>7 DEF FoERefused, PacketUnexpected, AfterRefusal
  <2>2. Conversation(call, Refusal, store, <<[kind |-> "FoE_error"]>>, TRUE)
    BY <1>5, <2>1 DEF Declines
  <2> QED
    BY <1>2, <2>1, <2>2, ServedRefusal
<1>8. CASE Busy
  BY <1>2, <1>5, <1>8, ServedBusy
<1>9. CASE PacketWritten
  <2> DEFINE m == [kind |-> "ack", packet |-> p]
             next == Session("FoE_write", d, 0, 0, FALSE, p)
             s == IF full THEN NoSession ELSE next
  <2>1. m \in Messages /\ m \notin Reports
    BY <1>6 DEF Messages, Reports
  <2>2. [session EXCEPT !.kind = "FoE_write", !.data = d, !.packet = p] = next /\ next \in SessionType
    <3>1. /\ session \in SessionType /\ "FoE_write" \in SessionKinds
          /\ d \in Seq(Units) /\ p \in Nat
      BY <1>4, <1>6 DEF SessionKinds
    <3>2. /\ [session EXCEPT !.kind = "FoE_write", !.data = d, !.packet = p]
             = Session("FoE_write", d, session.at, session.size, session.toggle, p)
          /\ Session("FoE_write", d, session.at, session.size, session.toggle, p) \in SessionType
      BY <3>1, WriteSessionAdvanced, Zenon
    <3> QED
      BY <1>4, <3>2
  <2>3. s \in SessionType
    <3> HIDE DEF next
    <3> QED
      BY <2>2, SessionTypes
  <2>4. Does(<<m>>, s) /\ store' = IF full THEN call.data ELSE store
    <3>1. CASE full
      BY <1>3, <1>6, <1>9, <3>1 DEF PacketWritten
    <3>2. CASE ~full
      BY <1>3, <1>6, <1>9, <2>2, <3>2 DEF PacketWritten
    <3> QED
      BY <3>1, <3>2
  <2>5. Conversation(call, s, store', <<m>>, TRUE)
    BY <1>5, <2>4
  <2>6. store' = store \/ (IsWrite(call.op) /\ store' = call.data)
    BY <1>1, <2>4 DEF IsWrite
  <2> HIDE DEF m, s
  <2> QED
    BY <1>2, <2>1, <2>3, <2>4, <2>5, <2>6, ServedOneAnswer
<1> QED
  BY <1>3, <1>7, <1>8, <1>9, ServesKinds

\* It takes the request of an IDN.
LEMMA FragmentsReadServed ==
  ASSUME Setting, Types, NEW e \in Seq(Messages), Turns(e), Flow(e), ~Early, Serves,
         FragmentsRead(call, session, store, e, FALSE)
  PROVE  Advances
<1> USE DEF ReadSDO, WriteSDO, ReadFile, WriteFile, ReadSoE, WriteSoE
<1>1. /\ e = <<>> /\ inbox = Request /\ call \in CallType /\ call.op = ReadSoE /\ call.step = "request"
      /\ ~call.more /\ call.got = <<>>
  BY ServesFresh, RequestTaken DEF FragmentsRead
<1>2. Turns(<<>>) /\ Flow(<<>>)
  BY <1>1
<1>3. inbox.kind = ReadSoE
  BY <1>1 DEF Request, IsSDO, IsSoE, SoERequest
<1>4. ASSUME NEW s, NEW a,
             \/ Declines(s, a, "SoE_error") \/ Rejected(s, a)
             \/ \E j \in 0..(Len(Fragments(store)) - 1) :
                  /\ a = FragmentsFrom(store, j)
                  /\ call.got = ReadSoFar(call, store, j) /\ s = NoSession
      PROVE  Conversation(call, s, store, a, TRUE)
  BY <1>1, <1>4 DEF Conversation, FragmentsRead
<1>5. CASE IDNRefused
  <2>1. Refusable /\ Does(<<[kind |-> "SoE_error"]>>, Refusal) /\ store' = store
    BY <1>3, <1>5 DEF IDNRefused, AfterFragment
  <2>2. Conversation(call, Refusal, store, <<[kind |-> "SoE_error"]>>, TRUE)
    BY <1>4, <2>1 DEF Declines
  <2> QED
    BY <1>2, <2>1, <2>2, ServedRefusal
<1>6. CASE Rejects
  <2>1. Conversation(call, Refusal, store, <<>>, TRUE)
    BY <1>4, <1>6 DEF Rejected, Rejects
  <2> QED
    BY <1>2, <1>6, <2>1, ServedReport
<1>7. CASE IDNRead
  <2> DEFINE a == Fragments(store)
  <2>1. /\ a \in Seq(Messages) /\ Len(a) \in Nat \ {0} /\ \A i \in 1..Len(a) : a[i] \notin Reports
        /\ store \in Seq(Units) /\ Len(store) \in Nat
    BY FragmentsOf, ContentsAreSequences DEF Types
  <2>2. Does(a, NoSession) /\ store' = store
    BY <1>7 DEF IDNRead
  <2>3. a = FragmentsFrom(store, 0)
    <3> HIDE DEF a
    <3>1. SubSeq(a, 0 + 1, Len(a)) = a
      BY <2>1, WholeSequence
    <3> QED
      BY <3>1 DEF FragmentsFrom, a
  <2>4. call.got = ReadSoFar(call, store, 0)
    <3>1. PICK r, l : r = call.room /\ l = Len(store)
      OBVIOUS
    <3>2. r \in Nat /\ l \in Nat /\ UnitsMore \in Nat /\ 0 * UnitsMore = 0
      BY <1>1, <2>1, <3>1, CallAssumption DEF CallType, CallAssumption
    <3>3. Min2(0, l) = 0
      BY <3>2, MinOfTwo
    <3>4. Min2(r, 0) = 0
      BY <3>2, MinOfTwo
    <3>5. SubSeq(store, 1, 0) = <<>>
      BY <2>1
    <3> QED
      BY <1>1, <3>1, <3>2, <3>3, <3>4, <3>5 DEF ReadSoFar
  <2> HIDE DEF a
  <2>5. 0 \in 0..(Len(a) - 1)
    BY <2>1
  <2>6. Conversation(call, NoSession, store', a, TRUE)
    BY <1>4, <2>2, <2>3, <2>4, <2>5 DEF a
  <2> QED
    BY <1>2, <2>1, <2>2, <2>6, SessionTypes, ServedAnswer
<1> QED
  BY <1>3, <1>5, <1>6, <1>7, ServesKinds

\* It takes a fragment of an IDN.
LEMMA FragmentsWrittenServed ==
  ASSUME Setting, Types, NEW e \in Seq(Messages), Turns(e), Flow(e), ~Early, Serves,
         FragmentsWritten(call, session, store, e, FALSE)
  PROVE  Advances
<1> USE DEF ReadSDO, WriteSDO, ReadFile, WriteFile, ReadSoE, WriteSoE
<1> DEFINE k == Len(call.data)
           n == call.sent
           d == SubSeq(call.data, 1, n)
           next == Session("SoE_write", d, 0, 0, FALSE, 0)
           refused == [NoSession EXCEPT !.kind = "SoE_ignoring"]
           error == [kind |-> "SoE_error"]
<1>1. /\ inbox = Request /\ call # Nothing /\ call.op = WriteSoE /\ call.step = "segment"
      /\ call.from < n /\ call.more = (n # k)
      /\ call.from = 0 => session.kind # "SoE_ignoring"
  BY ServesFresh, RequestTaken DEF FragmentsWritten, First
<1>2. inbox.kind = WriteSoE /\ inbox.data = Chunk /\ inbox.last = ~call.more
  BY <1>1 DEF Request, IsSDO, IsSoE, SoERequest
<1>3. ASSUME NEW s, NEW st, NEW a,
             \/ call.more /\ a = <<>> /\ s = next
             \/ ~call.more /\ a = <<[kind |-> "SoE_ack"]>> /\ st = call.data /\ s = NoSession
             \/ ~call.more /\ Declines(s, a, "SoE_error")
             \/ ~call.more /\ Rejected(s, a)
             \/ call.more /\ RefusesRest(s, a)
      PROVE  Conversation(call, s, st, a, TRUE)
  BY <1>1, <1>3 DEF Conversation, FragmentsWritten
<1>4. error \in Messages /\ error \notin Reports
  BY DEF Messages, Reports
<1>5. refused \in SessionType /\ refused.kind = "SoE_ignoring"
  BY SessionTypes
<1>6. CASE RefusesRest(session, e) /\ call.from # 0
  <2>1. Refusable /\ e = <<error>> /\ session.kind = "SoE_ignoring"
    BY <1>5, <1>6 DEF RefusesRest
  <2>2. ~IDNWritten /\ ~IDNRefused /\ ~Rejects
    BY <1>2, <2>1 DEF IDNWritten, IDNRefused, Rejects
  <2>3. FragmentIgnored
    BY <1>2, <2>2, ServesKinds
  <2>4. /\ Does(<<>>, AfterFragment) /\ store' = store
        /\ AfterFragment = IF call.more THEN refused ELSE Refusal
    BY <1>2, <2>3 DEF FragmentIgnored, AfterFragment
  <2>5. AfterFragment \in SessionType
    BY <1>5, <2>4, SessionTypes
  <2>6. Conversation(call, AfterFragment, store, e, TRUE)
    BY <1>3, <2>1, <2>4 DEF RefusesRest, Declines
  <2> QED
    BY <2>4, <2>5, <2>6, ServedSilently
<1>7. CASE /\ e = <<>>
           /\ IF call.from = 0 THEN session.kind # "SoE_write"
              ELSE session = Session("SoE_write", SubSeq(call.data, 1, call.from), 0, 0, FALSE, 0)
  <2> DEFINE before == IF session.kind = "SoE_write" THEN session.data ELSE <<>>
  <2>1. Turns(<<>>) /\ Flow(<<>>)
    BY <1>7
  <2>2. /\ session.kind # "SoE_ignoring"
        /\ before = IF call.from = 0 THEN <<>> ELSE SubSeq(call.data, 1, call.from)
    <3>1. CASE call.from = 0
      BY <1>1, <1>7, <3>1
    <3>2. CASE call.from # 0
      <4>1. session.kind = "SoE_write" /\ session.data = SubSeq(call.data, 1, call.from)
        BY <1>7, <3>2 DEF Session
      <4> QED
        BY <3>2, <4>1
    <3> QED
      BY <3>1, <3>2
  <2>3. before \o inbox.data = d /\ d \in Seq(Units) /\ (n = k => d = call.data)
    <3>1. Calling
      BY DEF Turns
    <3>2. PICK c, f : c = Chunk /\ f = SubSeq(call.data, 1, call.from)
      OBVIOUS
    <3>3. /\ d \in Seq(Units) /\ c \in Seq(Units) /\ f \o c = d
          /\ (n = k => d = call.data) /\ (call.from = 0 => c = d)
      BY <1>1, <3>1, <3>2, ChunkJoins
    <3>4. <<>> \o c = c
      BY <3>3, ConcatEmptySeq
    <3> HIDE DEF before, d, n, k
    <3> QED
      BY <1>2, <2>2, <3>2, <3>3, <3>4
  <2>4. call.more <=> n # k
    BY <1>1, Zenon
  <2> HIDE DEF before, d, n, k
  <2>5. CASE IDNRefused
    <3>1. /\ Refusable /\ Does(<<error>>, AfterFragment) /\ store' = store
          /\ AfterFragment = IF call.more THEN refused ELSE Refusal
      BY <1>2, <2>5 DEF IDNRefused, AfterFragment
    <3>2. AfterFragment \in SessionType
      BY <1>5, <3>1, SessionTypes
    <3>3. Conversation(call, AfterFragment, store', <<error>>, TRUE)
      BY <1>3, <3>1 DEF RefusesRest, Declines
    <3> HIDE DEF error
    <3> QED
      BY <1>4, <2>1, <3>1, <3>2, <3>3, ServedOneAnswer
  <2>6. CASE Rejects
    <3>1. Conversation(call, Refusal, store, <<>>, TRUE)
      BY <1>2, <1>3, <2>6 DEF Rejected, Rejects
    <3> QED
      BY <2>1, <2>6, <3>1, ServedReport
  <2>7. CASE IDNWritten /\ call.more
    <3>1. /\ [NoSession EXCEPT !.kind = "SoE_write", !.data = d] = next /\ next \in SessionType
      BY <2>3, IDNSessionBegun, Zenon
    <3>2. Does(<<>>, [NoSession EXCEPT !.kind = "SoE_write", !.data = before \o inbox.data]) /\ store' = store
      BY <1>2, <2>7 DEF IDNWritten, before
    <3>3. Does(<<>>, next)
      BY <2>3, <3>1, <3>2
    <3>4. Conversation(call, next, store, <<>>, TRUE)
      BY <1>3, <2>7
    <3> HIDE DEF next
    <3> QED
      BY <2>1, <3>1, <3>2, <3>3, <3>4, OneAnswer, ServedSilently
  <2>8. CASE IDNWritten /\ ~call.more
    <3> DEFINE m == [kind |-> "SoE_ack"]
    <3>1. m \in Messages /\ m \notin Reports
      BY DEF Messages, Reports
    <3>2. Does(<<m>>, NoSession) /\ store' = call.data
      <4>1. Does(<<m>>, NoSession) /\ store' = before \o inbox.data
        BY <1>2, <2>8 DEF IDNWritten, before
      <4> QED
        BY <2>3, <2>4, <2>8, <4>1
    <3>3. Conversation(call, NoSession, store', <<m>>, TRUE)
      BY <1>3, <2>8, <3>2
    <3>4. IsWrite(call.op)
      BY <1>1 DEF IsWrite
    <3> HIDE DEF m
    <3> QED
      BY <2>1, <3>1, <3>2, <3>3, <3>4, SessionTypes, ServedOneAnswer
  <2>9. ~FragmentIgnored
    BY <2>2 DEF FragmentIgnored
  <2> QED
    BY <1>2, <2>5, <2>6, <2>7, <2>8, <2>9, ServesKinds
<1> QED
  BY <1>6, <1>7 DEF FragmentsWritten

\* Every request that the slave takes.
LEMMA ServesKept ==
  ASSUME Setting, Types, NEW e \in Seq(Messages), Turns(e), Flow(e), Serves
  PROVE  Advances
<1>1. CASE Early
  BY <1>1, ServedEarly
<1>2. CASE ~Early
  <2>1. Conversation(call, session, store, e, FALSE)
    BY <1>2, ServesFresh, RequestTaken
  <2> QED
    BY <1>2, <2>1, FirstUploadServed, NextUploadServed, FirstDownloadServed, NextDownloadServed,
       FirstPacketServed, LaterPacketServed, WriteRequestServed, WritePacketServed,
       FragmentsReadServed, FragmentsWrittenServed DEF Conversation
<1> QED
  BY <1>1, <1>2

-----------------------------------------------------------------------------
(* The error list                                                          *)

\* What holds in every state: the types, and the flag.
ListInv == ListTypeOK /\ ErrorFlagged

-----------------------------------------------------------------------------
(* The ring as a sequence                                                  *)

\* Going on from a place stays within the ring.
LEMMA FollowingInRing == \A p \in Places : Following(p) \in Places
BY ErrorListAssumption DEF ErrorListAssumption, Following, Places

\* The ring never holds more than MaxList errors.
LEMMA FilledInRange == ListTypeOK => Filled \in 0..MaxList /\ (iserror <=> Filled # 0)
BY ErrorListAssumption DEF ErrorListAssumption, ListTypeOK, Filled, Places, iserror

\* The places that are in use are places of the ring.
LEMMA PlaceInRing == ListTypeOK => \A i \in 1..Filled : Place(i) \in Places
BY ErrorListAssumption, FilledInRange DEF ErrorListAssumption, ListTypeOK, Filled, Place, Places

\* The content is a sequence, whose elements are those at the places in use.
LEMMA KeptIsSequence ==
  ListTypeOK =>
    /\ Kept \in Seq(Errors \cup {NoError})
    /\ Len(Kept) = Filled
    /\ \A i \in 1..Filled : Kept[i] = Error[Place(i)]
<1> SUFFICES ASSUME ListTypeOK
             PROVE  /\ Kept \in Seq(Errors \cup {NoError})
                    /\ Len(Kept) = Filled
                    /\ \A i \in 1..Filled : Kept[i] = Error[Place(i)]
    OBVIOUS
<1>1. Filled \in Nat
  BY FilledInRange
<1>2. \A i \in 1..Filled : Error[Place(i)] \in Errors \cup {NoError}
  BY PlaceInRing DEF ListTypeOK
<1> QED
  BY <1>1, <1>2 DEF Kept

-----------------------------------------------------------------------------
(* Types and the flag                                                      *)

\* It holds in the beginning.
LEMMA ListInitInv == ListInit => ListInv
<1> SUFFICES ASSUME ListInit
             PROVE  ListInv
    OBVIOUS
<1>1. 0 \in Places
  BY ErrorListAssumption DEF ErrorListAssumption, Places
<1>2. Error \in [Places -> Errors \cup {NoError}]
  BY DEF ListInit
<1> QED
  BY <1>1, <1>2 DEF ListInit, ListInv, ListTypeOK, ErrorFlagged, iserror

\* A push, a pop and any other step keep it.
LEMMA ListStepInv == ListInv /\ [ListNext]_elist => ListInv'
<1> SUFFICES ASSUME ListInv, [ListNext]_elist
             PROVE  ListInv'
    OBVIOUS
<1> USE ErrorListAssumption DEF ErrorListAssumption, ListInv
<1>1. ASSUME NEW e \in Errors, pusherror(e)
      PROVE  ListInv'
  <2>1. ListTypeOK'
    BY <1>1, FollowingInRing DEF pusherror, ListTypeOK
  <2> QED
    BY <2>1, <1>1 DEF pusherror, ErrorFlagged
<1>2. ASSUME poperror
      PROVE  ListInv'
  <2>1. ListTypeOK'
    BY <1>2, FollowingInRing DEF poperror, ListTypeOK
  <2>2. CASE iserror
    BY <2>1, <2>2, <1>2 DEF poperror, ErrorFlagged
  <2>3. CASE ~iserror
    BY <2>1, <2>3, <1>2 DEF poperror, ErrorFlagged, iserror
  <2> QED
    BY <2>2, <2>3
<1>3. ASSUME UNCHANGED elist
      PROVE  ListInv'
  BY <1>3 DEF elist, ListTypeOK, ErrorFlagged, iserror
<1> QED
  BY <1>1, <1>2, <1>3 DEF ListNext

\* The indices stay in the ring and the flag is up while there is an error
\* (ecx_pusherror, ecx_poperror), whatever the order of the calls.
THEOREM ErrorsFlagged == ListSpec => [](ListTypeOK /\ ErrorFlagged)
<1>1. ListInit => ListInv
  BY ListInitInv
<1>2. ListInv /\ [ListNext]_elist => ListInv'
  BY ListStepInv
<1> QED
  BY <1>1, <1>2, PTL DEF ListSpec, ListInv

-----------------------------------------------------------------------------
(* The refinement                                                          *)

\* A push into a full ring moves both ends, any other only the head.
LEMMA PushFills ==
  ASSUME ListTypeOK, ListTypeOK', NEW e \in Errors, pusherror(e)
  PROVE  /\ Filled = MaxList => /\ Filled' = MaxList
                                /\ \A i \in 1..(MaxList - 1) : Place(i)' = Place(i + 1)
         /\ Filled # MaxList => /\ Filled' = Filled + 1
                                /\ \A i \in 1..Filled : Place(i)' = Place(i)
         /\ Place(Filled)' = head
<1>1. head' = Following(head)
  BY DEF pusherror
<1>2. /\ MaxList \in Nat \ {0} /\ Filled \in 0..MaxList
      /\ head \in 0..MaxList /\ tail \in 0..MaxList
      /\ head' \in 0..MaxList /\ tail' \in 0..MaxList
  BY FilledInRange, ErrorListAssumption DEF ErrorListAssumption, ListTypeOK, Places
<1>3. Filled = MaxList <=> Following(head) = tail
  BY <1>2 DEF Filled, Following
<1>4. CASE Filled = MaxList
  <2>1. tail' = Following(tail)
    BY <1>3, <1>4 DEF pusherror
  <2>2. Filled' = MaxList
    BY <1>1, <1>2, <1>4, <2>1 DEF Filled, Following
  <2>3. \A i \in 1..(MaxList - 1) : Place(i)' = Place(i + 1)
    BY <1>2, <2>1 DEF Place, Following
  <2>4. Place(Filled)' = head
    BY <1>1, <1>2, <1>3, <1>4, <2>1, <2>2 DEF Place, Following
  <2> QED
    BY <1>2, <1>4, <2>2, <2>3, <2>4
<1>5. CASE Filled # MaxList
  <2>1. tail' = tail
    BY <1>3, <1>5 DEF pusherror
  <2>2. Filled' = Filled + 1
    BY <1>1, <1>2, <1>3, <1>5, <2>1 DEF Filled, Following
  <2>3. \A i \in 1..Filled : Place(i)' = Place(i)
    BY <2>1 DEF Place
  <2>4. Place(Filled)' = head
    BY <1>1, <1>2, <2>1, <2>2 DEF Place, Filled, Following
  <2> QED
    BY <1>5, <2>2, <2>3, <2>4
<1> QED
  BY <1>4, <1>5

\* The places in use are different from the head, where the new error goes.
LEMMA HeadIsFree == ListTypeOK => \A i \in 1..Filled : Place(i) # head
BY ErrorListAssumption, FilledInRange DEF ErrorListAssumption, ListTypeOK, Filled, Place, Places

\* The content after a push.
LEMMA PushIsAppend ==
  ASSUME ListTypeOK, ListTypeOK', NEW e \in Errors, pusherror(e)
  PROVE  Queue!Push(e)
<1> DEFINE S == Errors \cup {NoError}
           old == IF Len(Kept) = MaxList THEN Tail(Kept) ELSE Kept
<1>1. /\ Kept \in Seq(S) /\ Len(Kept) = Filled
      /\ \A i \in 1..Filled : Kept[i] = Error[Place(i)]
  BY KeptIsSequence
<1>2. /\ Kept' \in Seq(S) /\ Len(Kept') = Filled'
      /\ \A i \in 1..Filled' : Kept'[i] = Error'[Place(i)']
  <2>1. (ListTypeOK => /\ Kept \in Seq(S) /\ Len(Kept) = Filled
                       /\ \A i \in 1..Filled : Kept[i] = Error[Place(i)])'
    BY KeptIsSequence, PTL
  <2> QED
    BY <2>1
<1>3. Filled \in 0..MaxList /\ MaxList \in Nat \ {0}
  BY FilledInRange, ErrorListAssumption DEF ErrorListAssumption
<1>4. /\ Filled = MaxList => /\ Filled' = MaxList
                             /\ \A i \in 1..(MaxList - 1) : Place(i)' = Place(i + 1)
      /\ Filled # MaxList => /\ Filled' = Filled + 1
                             /\ \A i \in 1..Filled : Place(i)' = Place(i)
      /\ Place(Filled)' = head
  BY PushFills
<1>5. /\ \A i \in 1..Filled : Place(i) \in Places /\ Place(i) # head
      /\ head \in Places
  BY HeadIsFree, PlaceInRing DEF ListTypeOK
<1>6. Error' = [Error EXCEPT ![head] = e] /\ Error \in [Places -> S]
  BY DEF pusherror, ListTypeOK
<1>7. \A i \in 1..Filled : Error'[Place(i)] = Kept[i]
  BY <1>1, <1>5, <1>6
<1>8. Error'[head] = e
  BY <1>5, <1>6
<1>9. Kept' = Append(old, e)
  <2>1. CASE Filled = MaxList
    <3>1. /\ old = Tail(Kept) /\ old \in Seq(S) /\ Len(old) = MaxList - 1
          /\ \A i \in 1..(MaxList - 1) : old[i] = Kept[i + 1]
      BY <1>1, <1>3, <2>1
    <3>2. \A i \in 1..(MaxList - 1) : Kept'[i] = old[i]
      <4> TAKE i \in 1..(MaxList - 1)
      <4>1. Kept'[i] = Error'[Place(i + 1)]
        BY <1>2, <1>3, <1>4, <2>1
      <4>2. Error'[Place(i + 1)] = Kept[i + 1]
        BY <1>3, <1>7, <2>1
      <4> QED
        BY <4>1, <4>2, <3>1
    <3>3. Kept'[MaxList] = e
      BY <1>2, <1>3, <1>4, <1>8, <2>1
    <3>4. Append(old, e) \in Seq(S) /\ Len(Append(old, e)) = MaxList
      BY <3>1, <1>3
    <3>5. \A i \in 1..MaxList : Append(old, e)[i] = Kept'[i]
      BY <3>1, <3>2, <3>3, <1>3
    <3> QED
      BY <3>4, <3>5, <1>2, <1>4, <2>1, SameSequence
  <2>2. CASE Filled # MaxList
    <3>1. old = Kept
      BY <1>1, <2>2
    <3>2. \A i \in 1..Filled : Kept'[i] = Kept[i]
      BY <1>2, <1>3, <1>4, <1>7, <2>2
    <3>3. Kept'[Filled + 1] = e
      BY <1>2, <1>3, <1>4, <1>8, <2>2
    <3>4. Append(Kept, e) \in Seq(S) /\ Len(Append(Kept, e)) = Filled + 1
      BY <1>1, <1>3
    <3>5. \A i \in 1..(Filled + 1) : Append(Kept, e)[i] = Kept'[i]
      BY <1>1, <3>2, <3>3, <1>3
    <3> QED
      BY <3>1, <3>4, <3>5, <1>2, <1>4, <2>2, SameSequence
  <2> QED
    BY <2>1, <2>2
<1> QED
  BY <1>9 DEF Queue!Push, pusherror

\* The oldest error is at the tail, and the others are not.
LEMMA TailIsOldest ==
  ListTypeOK => /\ Filled > 0 => Place(1) = tail
                /\ \A i \in 2..Filled : Place(i) # tail
BY ErrorListAssumption, FilledInRange DEF ErrorListAssumption, ListTypeOK, Filled, Place, Places

\* The content after a pop.
LEMMA PopIsTail ==
  ASSUME ListTypeOK, ListTypeOK', poperror
  PROVE  Queue!Pop
<1> DEFINE S == Errors \cup {NoError}
<1>1. /\ Kept \in Seq(S) /\ Len(Kept) = Filled
      /\ \A i \in 1..Filled : Kept[i] = Error[Place(i)]
  BY KeptIsSequence
<1>2. /\ Kept' \in Seq(S) /\ Len(Kept') = Filled'
      /\ \A i \in 1..Filled' : Kept'[i] = Error'[Place(i)']
  <2>1. (ListTypeOK => /\ Kept \in Seq(S) /\ Len(Kept) = Filled
                       /\ \A i \in 1..Filled : Kept[i] = Error[Place(i)])'
    BY KeptIsSequence, PTL
  <2> QED
    BY <2>1
<1>3. Filled \in 0..MaxList /\ (iserror <=> Filled # 0)
  BY FilledInRange
<1>4. head' = head /\ Error' = [Error EXCEPT ![tail] = NoError] /\ Error \in [Places -> S]
  BY DEF poperror, ListTypeOK
<1>5. CASE iserror
  <2>1. tail' = Following(tail) /\ ecaterror' = ecaterror /\ popped' = Error[tail]
    BY <1>5 DEF poperror
  <2>2. /\ Filled' = Filled - 1
        /\ \A i \in 1..(Filled - 1) : Place(i)' = Place(i + 1)
    <3>1. MaxList \in Nat /\ head \in 0..MaxList /\ tail \in 0..MaxList
      BY ErrorListAssumption DEF ErrorListAssumption, ListTypeOK, Places
    <3>2. head' = head /\ tail' = (IF tail + 1 > MaxList THEN 0 ELSE tail + 1) /\ head # tail
      BY <1>4, <1>5, <2>1 DEF Following, iserror
    <3>3. Filled' = Filled - 1
      BY <3>1, <3>2 DEF Filled
    <3>4. Filled \in 0..MaxList
      BY <1>3
    <3>5. \A i \in 1..(Filled - 1) : Place(i)' = Place(i + 1)
      <4> TAKE i \in 1..(Filled - 1)
      <4>1. i \in 1..MaxList
        BY <3>1, <3>4
      <4> HIDE DEF Filled
      <4> QED
        BY <3>1, <3>2, <4>1 DEF Place
    <3> QED
      BY <3>3, <3>5
  <2>3. Tail(Kept) \in Seq(S) /\ Len(Tail(Kept)) = Filled - 1 /\ Kept # <<>>
    BY <1>1, <1>3, <1>5
  <2>4. \A i \in 1..(Filled - 1) : Tail(Kept)[i] = Kept'[i]
    <3> TAKE i \in 1..(Filled - 1)
    <3>1. i + 1 \in 2..Filled
      BY <1>3
    <3>2. Error'[Place(i + 1)] = Error[Place(i + 1)]
      BY <3>1, <1>3, <1>4, TailIsOldest, PlaceInRing
    <3>3. Kept'[i] = Error'[Place(i + 1)]
      BY <1>2, <2>2
    <3>4. Tail(Kept)[i] = Kept[i + 1]
      BY <1>1, <2>3
    <3> QED
      BY <3>1, <3>2, <3>3, <3>4, <1>1, <1>3
  <2>5. Kept' = Tail(Kept)
    BY <2>2, <2>3, <2>4, <1>2, SameSequence
  <2>6. Head(Kept) = Error[tail]
    BY <1>1, <1>3, <1>5, TailIsOldest
  <2> QED
    BY <2>1, <2>3, <2>5, <2>6 DEF Queue!Pop
<1>6. CASE ~iserror
  <2>1. tail' = tail /\ ecaterror' = FALSE /\ popped' = NoError
    BY <1>6 DEF poperror
  <2>2. Kept = <<>>
    BY <1>1, <1>3, <1>6
  <2>3. Filled' = 0
    BY <1>3, <1>4, <1>6, <2>1 DEF Filled
  <2>4. Kept' = <<>>
    BY <1>2, <2>3
  <2> QED
    BY <2>1, <2>2, <2>4 DEF Queue!Pop
<1> QED
  BY <1>5, <1>6

\* The ring implements the queue of the newest errors, for every size of the
\* ring: every push and pop is the abstract one (ecx_pusherror, ecx_poperror).
THEOREM ListImplementsQueue == ListSpec => ImplementsErrorQueue
<1>1. ListInit => Queue!Init
  <2> SUFFICES ASSUME ListInit
               PROVE  Queue!Init
      OBVIOUS
  <2>1. Filled = 0
    BY DEF ListInit, Filled
  <2>2. Kept = <<>>
    BY <2>1 DEF Kept
  <2> QED
    BY <2>2 DEF Queue!Init, ListInit
<1>2. ListInv /\ ListInv' /\ [ListNext]_elist => [Queue!Next]_(Queue!vars)
  <2> SUFFICES ASSUME ListInv, ListInv', [ListNext]_elist
               PROVE  [Queue!Next]_(Queue!vars)
      OBVIOUS
  <2>1. ASSUME NEW e \in Errors, pusherror(e)
        PROVE  Queue!Next
    BY <2>1, PushIsAppend DEF ListInv, Queue!Next
  <2>2. ASSUME poperror
        PROVE  Queue!Next
    BY <2>2, PopIsTail DEF ListInv, Queue!Next
  <2>3. ASSUME UNCHANGED elist
        PROVE  UNCHANGED Queue!vars
    BY <2>3 DEF elist, Queue!vars, Kept, Filled, Place
  <2> QED
    BY <2>1, <2>2, <2>3 DEF ListNext
<1>3. ListInv /\ [ListNext]_elist => ListInv'
  BY ListStepInv
<1>4. ListInit => ListInv
  BY ListInitInv
<1> QED
  BY <1>1, <1>2, <1>3, <1>4, PTL DEF ListSpec, ImplementsErrorQueue, Queue!Spec

-----------------------------------------------------------------------------
(* The services as a whole                                                 *)

\* Whatever the services do with the error list is a push or a pop.
LEMMA ServicesUseList == [Next]_vars => [ListNext]_elist
<1> SUFFICES ASSUME [Next]_vars
             PROVE  [ListNext]_elist
    OBVIOUS
<1>1. ASSUME NEW m, Reported(m)
      PROVE  [ListNext]_elist
  <2>1. \A kind \in ErrorKinds : ErrorOf[kind] \in Errors
    BY ServicesAssumption DEF ServicesAssumption
  <2>2. m # Nothing /\ IsReport(m) => m.kind \in ErrorKinds
    BY DEF IsReport, Reports, ErrorKinds
  <2>3. SDOErrors \subseteq ErrorKinds /\ SoEError(m) \in ErrorKinds
    BY DEF SDOErrors, SoEError, ErrorKinds
  <2> QED
    BY <1>1, <2>1, <2>2, <2>3 DEF Reported, ListNext
<1>2. CASE Reads
  BY <1>1, <1>2 DEF Reads
<1>3. CASE GivesUp
  BY <1>1, <1>3 DEF GivesUp
<1>4. CASE PopsError \/ OtherPushes
  BY <1>4 DEF PopsError, OtherPushes, ListNext
<1>5. CASE Calls \/ Works \/ TimePasses \/ Serves \/ Mails \/ UNCHANGED vars
  BY <1>5 DEF Calls, Works, TimePasses, Serves, Mails, vars
<1> QED
  BY <1>2, <1>3, <1>4, <1>5 DEF Next

\* Behind the services, the error list is still one.
LEMMA ListServed == Spec => ListSpec
<1>1. Init => ListInit
  BY DEF Init
<1> QED
  BY <1>1, ServicesUseList, PTL DEF Spec, ListSpec

\* In the beginning there is no call and nothing under way.
LEMMA InitIInv == ASSUME Setting, Init PROVE IInv /\ Object!Init
<1>1. /\ pc = "idle" /\ expired = FALSE /\ mbx_cnt = 0 /\ inbox = Nothing /\ out = Nothing
      /\ queue = <<>> /\ last = Nothing /\ repeat = FALSE /\ ack = FALSE /\ seen = 0
      /\ mishaps = 0 /\ call = Nothing /\ result = Nothing
      /\ store \in Contents /\ session = NoSession
  BY DEF Init, MailboxInit
<1>2. Types
  <2>1. MaxCnt \in Nat /\ MaxMishaps \in Nat
    BY MailboxAssumption DEF MailboxAssumption
  <2>2. session \in SessionType
    BY <1>1, SessionTypes
  <2>3. queue \in Seq(Messages)
    BY <1>1
  <2>4. {expired, repeat, ack} \subseteq BOOLEAN
    BY <1>1
  <2>5. mbx_cnt \in 0..MaxCnt /\ seen \in 0..MaxCnt /\ mishaps \in 0..MaxMishaps
    BY <1>1, <2>1
  <2> QED
    BY <1>1, <2>2, <2>3, <2>4, <2>5, Zenon DEF Types
<1>3. ~Talking /\ ~Draining /\ Early /\ ~Fresh
  BY <1>1 DEF Talking, Draining, Early, Fresh
<1>4. Turns(<<>>)
  <2>1. Calling
    BY <1>1, <1>3 DEF Calling, Waiting
  <2>2. Counting
    BY <1>1 DEF Counting
  <2>3. Requested
    BY <1>1, <1>3 DEF Requested, NoSession
  <2> QED
    BY <1>3, <2>1, <2>2, <2>3 DEF Turns, Talk
<1>5. Flow(<<>>)
  <2>1. Stream = <<>>
    BY <1>1 DEF Stream, Lost, Single
  <2>2. <<>> \in Seq(Messages) /\ \A k \in 1..Len(<<>>) : <<>>[k] \in Reports
    OBVIOUS
  <2>3. Carries(Stream, <<>>)
    BY <2>1, <2>2, StreamOfReports
  <2> QED
    BY <1>1, <1>3, <2>3 DEF Flow, Repetition, Expiry
<1>6. Asked = Nothing /\ Told = Nothing
  BY <1>1 DEF Asked, Told
<1>7. \E e \in Seq(Messages) : Turns(e) /\ Flow(e)
  <2>1. <<>> \in Seq(Messages)
    OBVIOUS
  <2> QED
    BY <1>4, <1>5, <2>1, Zenon
<1> QED
  BY <1>1, <1>2, <1>6, <1>7 DEF IInv, Object!Init

\* Every step keeps the invariant, and is a step of the promise or none.
LEMMA StepAdvances ==
  ASSUME Setting, stopped = FALSE, IInv, [Next]_vars
  PROVE  IInv' /\ (Up => [Object!Next]_(Object!vars))
<1>1. PICK e \in Seq(Messages) : Turns(e) /\ Flow(e)
  BY DEF IInv
<1>2. Types
  BY DEF IInv
<1>3. ASSUME Advances
      PROVE  IInv' /\ (Up => [Object!Next]_(Object!vars))
  BY <1>3 DEF Advances, Becomes, IInv
<1>4. CASE Calls
  BY <1>1, <1>2, <1>3, <1>4, CallsKept
<1>5. CASE PopsError \/ OtherPushes
  BY <1>1, <1>2, <1>3, <1>5, Unmoved DEF PopsError, OtherPushes
<1>6. CASE Works
  BY <1>1, <1>2, <1>3, <1>6, WorksKept
<1>7. CASE Reads
  BY <1>1, <1>2, <1>3, <1>7, ReadsKept DEF Reads
<1>8. CASE GivesUp
  BY <1>1, <1>2, <1>3, <1>8, GivesUpKept
<1>9. CASE Mails \/ TimePasses
  BY <1>1, <1>2, <1>3, <1>9, MailsKept
<1>10. CASE Serves
  BY <1>1, <1>2, <1>3, <1>10, ServesKept
<1>11. CASE UNCHANGED vars
  BY <1>1, <1>2, <1>3, <1>11, Unmoved DEF vars
<1> QED
  BY <1>4, <1>5, <1>6, <1>7, <1>8, <1>9, <1>10, <1>11 DEF Next

\* Only a mishap stops the slave.
LEMMA StaysUp ==
  ASSUME Setting, stopped = FALSE, [Next]_vars
  PROVE  (stopped = FALSE)'
<1> USE DEF mailboxes
<1>1. CASE Calls
  BY <1>1 DEF Calls, Start
<1>2. CASE PopsError \/ OtherPushes
  BY <1>2 DEF PopsError, OtherPushes
<1>3. CASE Works
  BY <1>3 DEF Works, WriteMailbox, WriteUnanswered, WriteAgain, SendGivesUp, FragmentTaken,
              FragmentNotTaken, PollFull, ReadUnanswered, ReadEmpty, Toggle, AckSeen, Available
<1>4. CASE Reads \/ GivesUp
  BY <1>4 DEF Reads, ReadMailbox, GivesUp, PollGivesUp, Available
<1>5. CASE TimePasses
  BY <1>5 DEF TimePasses, Expire
<1>6. CASE Serves
  BY <1>6, ServesFresh
<1>7. CASE Mails
  BY <1>7 DEF Mails, Post, Repeats, IgnoresRepetition, SendsReport, Stops, Happens, Setting
<1> QED
  BY <1>1, <1>2, <1>3, <1>4, <1>5, <1>6, <1>7 DEF Next, vars

\* The types follow from the two invariants.
LEMMA IInvTypeOK == ASSUME IInv, ListTypeOK, stopped = FALSE PROVE TypeOK
BY DEF IInv, Types, Turns, Calling, CallType, TypeOK, Waiting

\* Where the thread of a call is, what a call has sent and returned, the
\* counters of the mailboxes, and that the slave never stores a part of what is
\* written, or of two writes (ecx_SDOwrite, ecx_FOEwrite, ecx_SoEwrite).
THEOREM TypeCorrect == ASSUME Setting PROVE Spec => []TypeOK
<1>1. Init => IInv /\ stopped = FALSE
  BY InitIInv DEF Init, MailboxInit
<1>2. stopped = FALSE /\ IInv /\ [Next]_vars => IInv' /\ (stopped = FALSE)'
  BY StepAdvances, StaysUp
<1>3. ListInit => ListInv
  BY ListInitInv
<1>4. ListInv /\ [ListNext]_elist => ListInv'
  BY ListStepInv
<1>5. stopped = FALSE /\ IInv /\ ListInv => TypeOK
  BY IInvTypeOK DEF ListInv
<1> QED
  BY <1>1, <1>2, <1>3, <1>4, <1>5, ListServed, PTL DEF Spec, ListSpec

\* Every call reads or writes the whole content at one point between its start
\* and its return, and fails only because the buffer is too small or the slave
\* refuses of its own accord, whatever answers get lost and whatever the slave
\* reports in between (ecx_SDOread, ecx_SDOwrite, ecx_FOEread, ecx_FOEwrite,
\* ecx_SoEread, ecx_SoEwrite over ecx_mbxsend and ecx_mbxreceive).  The success
\* of a write tells nothing only when the slave was busy, for ecx_FOEwrite does
\* not resend to it.
THEOREM ServicesImplementObjectAccess ==
  ASSUME Setting PROVE Spec => ImplementsObjectAccess
<1>1. Init => IInv /\ Object!Init /\ stopped = FALSE
  BY InitIInv DEF Init, MailboxInit
<1>2. /\ stopped = FALSE /\ IInv /\ [Next]_vars
      => IInv' /\ [Object!Next]_(Object!vars) /\ (stopped = FALSE)'
  BY StepAdvances, StaysUp DEF Up
<1> QED
  BY <1>1, <1>2, PTL DEF Spec, ImplementsObjectAccess, Object!Spec

\* The flag that the application looks at between two calls is up while there
\* is an error (ecx_pusherror, ecx_poperror), for any slave.
THEOREM ServicesFlagErrors == Spec => []ErrorFlagged
BY ListServed, ErrorsFlagged, PTL

\* The errors of the services are queued, the newest ones, in their order, for
\* any slave.
THEOREM ServicesImplementErrorQueue == Spec => ImplementsErrorQueue
BY ListServed, ListImplementsQueue, PTL
=============================================================================
