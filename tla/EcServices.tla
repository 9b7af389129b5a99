----------------------------- MODULE EcServices -----------------------------
(***************************************************************************)
(* The mailbox services of the EtherCAT master over the mailboxes of one    *)
(* slave: an application that calls ecx_SDOread, ecx_SDOwrite, ecx_FOEread,  *)
(* ecx_FOEwrite, ecx_SoEread and ecx_SoEwrite, one after the other, and      *)
(* empties the error list in between; the slave's answers, which are not in *)
(* the repository.                                                          *)
(***************************************************************************)
EXTENDS EcCoE, EcFoE, EcSoE, ErrorList

CONSTANTS Contents,  \* what the slave's object, file or IDN can hold
          Rooms,     \* sizes of the buffers that are read into
          Refusable, \* the slave may refuse a transfer
          CanBeBusy, \* it may answer a FoE write with BUSY
          ErrorOf    \* what is told apart of the errors that the services push

ErrorKinds == {"emergency", "mailbox_error", "abort", "packet_error", "too_small", "SoE_error"}

ServicesAssumption ==
  /\ \A c \in Contents : c \in Seq(Range(c)) /\ Len(c) > 0
  /\ ErrorOf \in [ErrorKinds -> Errors]
  /\ Rooms \subseteq Nat
  /\ {Refusable, CanBeBusy} \subseteq BOOLEAN
ASSUME ServicesAssumption

VARIABLES store,  \* the object, file or IDN of the slave
          session \* its transfer in progress

slave == <<store, session>>
vars == <<master, mailboxes, mishaps, elist, slave>>

NoSession == [kind |-> "none", data |-> <<>>, at |-> 0, size |-> 0, toggle |-> FALSE, packet |-> 0]

Init ==
  /\ MailboxInit /\ ListInit
  /\ store \in Contents /\ session = NoSession

-----------------------------------------------------------------------------
(* The master                                                              *)

IsSDO == call.op \in {ReadSDO, WriteSDO}
IsSoE == call.op \in {ReadSoE, WriteSoE}

Request == IF IsSDO THEN SDORequest ELSE IF IsSoE THEN SoERequest ELSE FoERequest
Sent(ok) == IF IsSDO THEN SDOSent(ok) ELSE IF IsSoE THEN SoESent(ok) ELSE FoESent(ok)
Received(m) == IF IsSDO THEN SDOReceived(m) ELSE IF IsSoE THEN SoEReceived(m) ELSE FoEReceived(m)

\* The error that the receipt of m adds to the error list: an emergency or a
\* mailbox error at once, a message that ends an SDO transfer on its return,
\* what SoE does not expect at any time.
Reported(m) ==
  IF m # Nothing /\ IsReport(m) THEN pusherror(ErrorOf[m.kind])
  ELSE IF IsSDO /\ result' # Nothing /\ result'.outcome \in SDOErrors
  THEN pusherror(ErrorOf[result'.outcome])
  ELSE IF IsSoE /\ SoEErrs(m) THEN pusherror(ErrorOf[SoEError(m)])
  ELSE UNCHANGED elist

\* The next call, with the error list emptied and of a slave that is there.
Calls ==
  /\ ~ecaterror /\ ~stopped
  /\ \/ \E op \in {ReadSDO, ReadFile, ReadSoE}, room \in Rooms : Start(op, <<>>, room)
     \/ \E op \in {WriteSDO, WriteFile, WriteSoE}, data \in Contents : Start(op, data, 0)
  /\ UNCHANGED <<elist, slave>>

\* The application reads an error between two calls.
PopsError ==
  /\ pc = "idle"
  /\ poperror
  /\ UNCHANGED <<master, mailboxes, mishaps, slave>>

\* Another service of the master, for the object dictionary say, pushes an error
\* between two calls.
OtherPushes ==
  /\ pc = "idle"
  /\ \E e \in Errors : pusherror(e)
  /\ UNCHANGED <<master, mailboxes, mishaps, slave>>

\* The reads of a status and the writes leave the error list alone.
Works ==
  /\ \/ WriteMailbox(Request) /\ Sent(TRUE)
     \/ WriteUnanswered(Request)
     \/ \E ok \in BOOLEAN : WriteAgain(Request, ok) /\ Sent(ok)
     \/ SendGivesUp /\ Sent(FALSE)
     \/ FragmentTaken \/ FragmentNotTaken
     \/ PollFull
     \/ ReadUnanswered \/ ReadEmpty
     \/ Toggle \/ AckSeen
     \/ Available /\ ReadsAgain
  /\ UNCHANGED <<elist, slave>>

\* A message is read.  An emergency or a mailbox error does not end the call
\* of ecx_mbxreceive, but for its time.
Reads ==
  /\ ReadMailbox
  /\ IF IsReport(out) THEN Goto(IF expired THEN "avail" ELSE "read") ELSE Received(out)
  /\ Reported(out)
  /\ UNCHANGED slave

\* ecx_mbxreceive ends without a message.
GivesUp ==
  /\ PollGivesUp \/ (Available /\ expired)
  /\ Received(Nothing)
  /\ Reported(Nothing)
  /\ UNCHANGED slave

TimePasses == Expire /\ UNCHANGED <<elist, slave>>

-----------------------------------------------------------------------------
(* The slave's services                                                    *)

FirstUnits(data, units) == SubSeq(data, 1, Min2(units, Len(data)))
UnitsFrom(data, at) == SubSeq(data, at + 1, Min2(at + UnitsMore, Len(data)))

\* The slave answers, and its session becomes s.
Does(answers, s) == Answers(answers) /\ session' = s

\* The session after a refusal: Refusal when it comes of the slave's own accord,
\* NoSession when the master made a mistake.
Refusal == [NoSession EXCEPT !.kind = "refused"]
AfterRefusal(mistake) == {s \in {Refusal, NoSession} : IF s = Refusal THEN Refusable ELSE mistake}

Upload ==
  /\ inbox.kind = "upload"
  /\ LET data == FirstUnits(store, UnitsFirst)
     IN  Does(<<[kind |-> "upload_response", size |-> Len(store), data |-> data]>>,
              IF Len(data) = Len(store) THEN NoSession
              ELSE [NoSession EXCEPT !.kind = "upload", !.data = store, !.at = Len(data)])
  /\ UNCHANGED store

\* A segment with the toggle bit that it must have.
UploadSegment ==
  /\ inbox.kind = "upload_segment"
  /\ session.kind = "upload" /\ session.toggle = inbox.toggle
  /\ LET data == UnitsFrom(session.data, session.at)
         last_ == session.at + Len(data) = Len(session.data)
     IN  Does(<<[kind |-> "upload_segment_response", data |-> data, last |-> last_]>>,
              IF last_ THEN NoSession
              ELSE [session EXCEPT !.at = @ + Len(data), !.toggle = ~@])
  /\ UNCHANGED store

Download ==
  /\ inbox.kind = "download"
  /\ IF Len(inbox.data) = inbox.size
     THEN store' = inbox.data /\ Does(<<[kind |-> "download_response", size |-> 0, data |-> <<>>]>>, NoSession)
     ELSE /\ Does(<<[kind |-> "download_response", size |-> 0, data |-> <<>>]>>,
                  [NoSession EXCEPT !.kind = "download", !.data = inbox.data, !.size = inbox.size])
          /\ UNCHANGED store

DownloadSegment ==
  /\ inbox.kind = "download_segment"
  /\ session.kind = "download" /\ session.toggle = inbox.toggle
  /\ LET data == session.data \o inbox.data
     IN  /\ inbox.last => Len(data) = session.size
         /\ store' = IF inbox.last THEN data ELSE store
         /\ Does(<<[kind |-> "download_segment_response"]>>,
                 IF inbox.last THEN NoSession
                 ELSE [session EXCEPT !.data = data, !.toggle = ~@])

SDOKinds == {"upload", "upload_segment", "download", "download_segment"}
SDOSegment == inbox.kind \in {"upload_segment", "download_segment"}

\* A segment that the slave does not expect.
SegmentUnexpected ==
  \/ SDOSegment /\ session.toggle # inbox.toggle
  \/ inbox.kind = "upload_segment" /\ session.kind # "upload"
  \/ inbox.kind = "download_segment" /\ session.kind # "download"
  \/ /\ inbox.kind = "download_segment" /\ inbox.last
     /\ Len(session.data) + Len(inbox.data) # session.size

\* The slave aborts.
Abort ==
  /\ inbox.kind \in SDOKinds
  /\ \E s \in AfterRefusal(SegmentUnexpected) : Does(<<[kind |-> "abort"]>>, s)
  /\ UNCHANGED store

\* A packet of the file, the first one or the next.
Packet(s) ==
  LET data == UnitsFrom(s.data, s.at)
  IN  Does(<<[kind |-> "data", packet |-> s.packet + 1, data |-> data]>>,
           [s EXCEPT !.at = @ + Len(data), !.packet = @ + 1,
                     !.kind = IF Len(data) = UnitsMore THEN "FoE_read" ELSE "FoE_read_last"])

FileRead ==
  /\ inbox.kind = ReadFile
  /\ Packet([NoSession EXCEPT !.data = store])
  /\ UNCHANGED store

PacketAcknowledged ==
  /\ inbox.kind = "ack"
  /\ \/ session.kind = "FoE_read" /\ inbox.packet = session.packet /\ Packet(session)
     \/ session.kind = "FoE_read_last" /\ Does(<<>>, NoSession)
  /\ UNCHANGED store

FileWrite ==
  /\ inbox.kind = WriteFile
  /\ Does(<<[kind |-> "ack", packet |-> 0]>>, [NoSession EXCEPT !.kind = "FoE_write"])
  /\ UNCHANGED store

\* The file is stored with the packet that is not full.
PacketWritten ==
  /\ inbox.kind = "data"
  /\ session.kind \in {"FoE_write", "busy"} /\ inbox.packet = session.packet + 1
  /\ LET data == session.data \o inbox.data
         last_ == Len(inbox.data) < UnitsMore
     IN  /\ store' = IF last_ THEN data ELSE store
         /\ Does(<<[kind |-> "ack", packet |-> inbox.packet]>>,
                 IF last_ THEN NoSession
                 ELSE [session EXCEPT !.kind = "FoE_write", !.data = data, !.packet = inbox.packet])

\* The slave cannot take a packet, or start a write, now, and waits for it to be
\* sent again.
Busy ==
  /\ CanBeBusy
  /\ \/ inbox.kind = WriteFile
     \/ inbox.kind = "data" /\ session.kind = "FoE_write"
  /\ Does(<<[kind |-> "busy"]>>, [session EXCEPT !.kind = "busy"])
  /\ UNCHANGED store

\* A packet or an acknowledge that the slave does not expect.
PacketUnexpected ==
  \/ inbox.kind = "data" /\ (session.kind # "FoE_write" \/ inbox.packet # session.packet + 1)
  \/ inbox.kind = "ack" /\ session.kind \notin {"FoE_read", "FoE_read_last"}

\* A file is refused, but not the acknowledge of its last packet.
FoERefused ==
  /\ inbox.kind \in {ReadFile, WriteFile, "data", "ack"}
  /\ ~(inbox.kind = "ack" /\ session.kind = "FoE_read_last")
  /\ \E s \in AfterRefusal(PacketUnexpected) : Does(<<[kind |-> "FoE_error"]>>, s)
  /\ UNCHANGED store

\* The responses to a read of an IDN, all at once.
Fragments(data) ==
  LET number == (Len(data) + UnitsMore - 1) \div UnitsMore
  IN  [i \in 1..number |-> [kind |-> "SoE_data", data |-> UnitsFrom(data, (i - 1) * UnitsMore),
                            last |-> i = number]]

IDNRead ==
  /\ inbox.kind = ReadSoE
  /\ Does(Fragments(store), NoSession)
  /\ UNCHANGED store

\* The IDN is written with the last fragment, and only that is answered.
IDNWritten ==
  /\ inbox.kind = WriteSoE /\ session.kind # "SoE_ignoring"
  /\ LET data == (IF session.kind = "SoE_write" THEN session.data ELSE <<>>) \o inbox.data
     IN  IF inbox.last
         THEN store' = data /\ Does(<<[kind |-> "SoE_ack"]>>, NoSession)
         ELSE /\ Does(<<>>, [NoSession EXCEPT !.kind = "SoE_write", !.data = data])
              /\ UNCHANGED store

\* A refusal comes at once, and the rest of the fragments are passed over.
AfterFragment == IF inbox.kind = WriteSoE /\ ~inbox.last
                 THEN [NoSession EXCEPT !.kind = "SoE_ignoring"] ELSE Refusal
IDNRefused ==
  /\ Refusable /\ inbox.kind \in {ReadSoE, WriteSoE} /\ session.kind # "SoE_ignoring"
  /\ Does(<<[kind |-> "SoE_error"]>>, AfterFragment)
  /\ UNCHANGED store
FragmentIgnored ==
  /\ inbox.kind = WriteSoE /\ session.kind = "SoE_ignoring"
  /\ Does(<<>>, AfterFragment)
  /\ UNCHANGED store

\* The slave's mailbox handler refuses a service with a mailbox error, which
\* the services of the master never see.
Rejects ==
  /\ \/ inbox.kind \in {"upload", "download", ReadFile, WriteFile, ReadSoE}
     \/ inbox.kind = WriteSoE /\ inbox.last /\ session.kind # "SoE_ignoring"
  /\ Refusable /\ Does(<<[kind |-> "mailbox_error"]>>, Refusal)
  /\ UNCHANGED store

Serves ==
  /\ inbox # Nothing
  /\ \/ Upload \/ UploadSegment \/ Download \/ DownloadSegment \/ Abort
     \/ FileRead \/ PacketAcknowledged \/ FileWrite \/ PacketWritten \/ Busy \/ FoERefused
     \/ IDNRead \/ IDNWritten \/ IDNRefused \/ FragmentIgnored \/ Rejects
  /\ UNCHANGED elist

Mails == (Post \/ Repeats \/ IgnoresRepetition \/ SendsReport \/ Stops) /\ UNCHANGED <<elist, slave>>

-----------------------------------------------------------------------------

Next == Calls \/ PopsError \/ OtherPushes \/ Works \/ Reads \/ GivesUp \/ TimePasses \/ Serves \/ Mails

\* The master's thread goes on and its timer runs out.  The slave takes what is
\* in its IN mailbox and fills its OUT mailbox.  The message is not always
\* posted in the moment before a repetition, which would displace it again:
\* sometimes the master is about to read it.
TakesRequest == Serves \/ (IgnoresRepetition /\ UNCHANGED <<elist, slave>>)
FillsMailbox == (Post \/ Repeats) /\ UNCHANGED <<elist, slave>>

Fairness ==
  /\ WF_vars(Works \/ Reads \/ GivesUp) /\ SF_vars(TimePasses)
  /\ WF_vars(TakesRequest) /\ WF_vars(FillsMailbox)
  /\ SF_vars(pc = "read" /\ Post /\ UNCHANGED <<elist, slave>>)

Spec == Init /\ [][Next]_vars /\ Fairness

-----------------------------------------------------------------------------
(* Properties                                                              *)

Steps == {"drain", "request", "segment", "ack", "data"}
Outcomes == {"done", "abort", "packet_error", "too_small", "no_answer", "error", "packet_number"}

TypeOK ==
  /\ pc \in {"idle", "send", "send_again", "poll", "read", "toggle", "ack", "avail", "empty"}
  /\ {expired, repeat, ack, stopped} \subseteq BOOLEAN
  /\ mbx_cnt \in 0..MaxCnt /\ seen \in 0..MaxCnt
  /\ mishaps \in 0..MaxMishaps
  /\ (call = Nothing) = (pc = "idle")
  /\ call # Nothing => call.step \in Steps /\ call.sent <= Len(call.data)
  /\ result # Nothing => result.outcome \in Outcomes
  /\ store \in Contents
  /\ ListTypeOK

IsWrite(op) == op \in {WriteSDO, WriteFile, WriteSoE}

Asked == IF call = Nothing THEN Nothing
         ELSE [write |-> IsWrite(call.op), data |-> call.data, room |-> call.room,
               cuts |-> call.op = ReadSoE]

\* The slave has refused the call, of its own accord, or has stopped: whatever it
\* answered to a mistake of the master, or did not answer, is no refusal.
Refused ==
  \/ /\ session.kind \in {"refused", "SoE_ignoring"}
     /\ result.outcome \in {"abort", "error", "no_answer"}
  \/ stopped /\ result.outcome = "no_answer"

\* The call returned success with a slave that waits for a packet to be sent again.
LeftBusy == session.kind = "busy" /\ result.op = WriteFile /\ result.outcome = "done"

Told ==
  IF result = Nothing THEN Nothing
  ELSE [outcome |-> IF Refused THEN "refused" ELSE result.outcome, busy |-> LeftBusy,
        got |-> result.got]

Object == INSTANCE ObjectAccess
  WITH asked <- Asked, told <- Told, Refusable <- Refusable \/ "stop" \in Mishaps

\* Whatever answers get lost, with segments, packets and repetitions, a call
\* reads or writes the whole content at one point between its start and its
\* return, and fails only when the slave refuses of its own accord or stops, or
\* the buffer is too small: no call makes a slave refuse, returns without an
\* answer, or with another call's.  The exception: success of ecx_FOEwrite to a
\* slave that was busy (ethercatfoe.c:306-321, "resend if data has been send
\* before") tells nothing, for the loop ends before anything is sent again.
ImplementsObjectAccess == Object!Spec

\* The call is in the loop over the segments of an upload.
UploadLoop == pc # "idle" /\ call.op = ReadSDO /\ call.step = "segment"

\* Every call comes back: no message is waited for that does not come, and no
\* segment or packet is asked for without end, whatever gets lost and when the
\* slave stops at any point.  The exception: a slave that stops in the middle of
\* an upload in segments holds ecx_SDOread for ever, for its loop asks for the
\* segment again and again (ethercatcoe.c:213-277); the timeout that the header
\* gives it (coe.c:117) ends one wait and not the call.
EveryCallReturns == (pc # "idle") ~> (pc = "idle" \/ (stopped /\ UploadLoop))

\* "The function will combine all segments and copy them to the parameter
\* buffer": what a successful ecx_SDOread has read in segments is the object.
SegmentsCombined ==
  result # Nothing /\ result.op = ReadSDO /\ result.outcome = "done"
     /\ Len(result.got) > UnitsFirst
  => result.got = store
=============================================================================
