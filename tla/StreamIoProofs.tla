--------------------------- MODULE StreamIoProofs ---------------------------
(***************************************************************************)
(* For any payloads, segment sizes, queue capacities and ways to poll: a   *)
(* stream uses its session as the session allows, a shutdown does not cut  *)
(* off a send, what a flush covers is on the wire, and the two ends of the *)
(* stream implement ByteStream.                                            *)
(*                                                                         *)
(* The first half is about the writing end alone (IoInv).  For the second  *)
(* a byte is followed on its way: BytesInv says where the message of the   *)
(* next segment is being put together, which messages have been packed,    *)
(* where in what is written the payload of a message stands, and up to     *)
(* which message what is read goes.                                        *)
(***************************************************************************)
EXTENDS StreamIo, SessionProofs

\* The futures the stream keeps, and the send of the session behind them.
PollInv ==
  /\ op \in {"none", "write", "start", "flush", "shutdown"}
  /\ future \in {"none", "new", "begun"}
  /\ shutdown \in BOOLEAN /\ gone \in BOOLEAN
  /\ buf \in Lengths \cup {0} /\ (op = "write" => buf \in Lengths)
  /\ IF future = "none" THEN pending = 0 ELSE pending \in Lengths
  /\ sender[Writer] # Idle <=> future = "begun"
  /\ closed["snd"] => future # "begun"
  /\ future = "new" => Len(sent) < MaxMessages
  /\ op = "write" => Len(sent) + (IF future = "new" THEN 1 ELSE 0) < MaxMessages

\* The bytes that no pending future holds any more.
Kept == Len(written) - pending

\* What is written and kept is sent; the rest belongs to the pending future.
WrittenInv ==
  /\ written \in Seq(Bytes)
  /\ Kept \in Nat /\ flushed \in 0..Kept
  /\ \A k \in 1..Kept : written[k][1] \in Messages /\ outcome[written[k][1]] = "ok"
  /\ future = "begun" => /\ sender[Writer].msg \in Messages
                         /\ outcome[sender[Writer].msg] = "sending"
  /\ \A k \in Kept + 1..Len(written) :
       written[k][1] = IF future = "new" THEN Len(sent) + 1 ELSE sender[Writer].msg

IoInv == TypeOK /\ PollInv /\ WrittenInv /\ ReadTypeOK

LEMMA OneTask ==
  /\ Senders = {Writer} /\ Receivers = {Reader} /\ Writer \in Senders /\ Reader \in Receivers
  /\ Lengths \subseteq Nat /\ MaxMessages \in Nat /\ Closers \subseteq Ends
BY StreamAssumption, SessionAssumption DEF StreamAssumption, SessionAssumption

LEMMA IoInitInv == IoInit => IoInv
<1> SUFFICES ASSUME IoInit PROVE IoInv
  OBVIOUS
<1>1. TypeOK
  BY InitType DEF IoInit
<1>2. PollInv
  <2>1. sent = <<>> /\ Len(<<>>) = 0 /\ sender[Writer] = Idle /\ ~closed["snd"]
    BY OneTask DEF IoInit, Init, Ends
  <2> QED
    BY <2>1 DEF IoInit, PollInv
<1>3. WrittenInv
  <2>1. written = <<>> /\ <<>> \in Seq(Bytes) /\ Len(<<>>) = 0 /\ pending = 0 /\ flushed = 0
        /\ future = "none"
    BY DEF IoInit
  <2>2. Kept = 0
    BY <2>1 DEF Kept
  <2> QED
    BY <2>1, <2>2 DEF WrittenInv
<1>4. ReadTypeOK
  BY DEF IoInit, ReadTypeOK
<1> QED
  BY <1>1, <1>2, <1>3, <1>4 DEF IoInv
-----------------------------------------------------------------------------
(* The session under the stream *)

LEMMA WritingIsSession ==
  ASSUME PollInv, Writing
  PROVE  [Next]_vars
<1> USE OneTask
<1>1. CASE PollWrite \/ PollFlush \/ PollShutdown \/ PollPending
  BY <1>1 DEF PollWrite, PollFlush, PollShutdown, PollPending, Poll
<1>2. CASE SendBegins
  BY <1>2 DEF SendBegins, Next, SenderStep, PollInv
<1>3. CASE SendProceeds
  BY <1>3 DEF SendProceeds, Next, SenderStep
<1>4. CASE SendErr
  BY <1>4 DEF SendErr, Next, SenderStep
<1>5. CASE WriteStarts \/ WriteReturns \/ FlushReturns \/ ShutdownAgain
  BY <1>5 DEF WriteStarts, WriteReturns, FlushReturns, ShutdownAgain, StartsSend
<1>6. CASE ShutdownBegins \/ ShutdownReturns
  BY <1>6 DEF ShutdownBegins, ShutdownReturns, Next, EndStep, Ends
<1>7. CASE DropStream
  BY <1>7 DEF DropStream, Next, SenderStep
<1> QED
  BY <1>1, <1>2, <1>3, <1>4, <1>5, <1>6, <1>7 DEF Writing

LEMMA ReadingIsSession ==
  ASSUME Reading
  PROVE  [Next]_vars /\ UNCHANGED <<writeVars, sendVars, connVars>>
<1>1. CASE PollRead \/ ReadPending \/ ReadReturns
  BY <1>1 DEF PollRead, ReadPending, ReadReturns, vars
<1>2. CASE ReadProceeds
  BY <1>2, OneTask DEF ReadProceeds, Next, ReceiverStep, RecvEnter, RecvLock
<1>3. CASE ReadReceives
  BY <1>3, OneTask DEF ReadReceives, Next, ReceiverStep, RecvPacket
<1> QED
  BY <1>1, <1>2, <1>3 DEF Reading

LEMMA SessionRunsIsSession ==
  ASSUME TypeOK, SessionRuns
  PROVE  Next /\ UNCHANGED <<writeVars, readVars, sendVars>> /\ closed'["snd"] = closed["snd"]
<1>1. UNCHANGED <<writeVars, readVars>>
  BY DEF SessionRuns
<1>2. CASE OnMessage \/ Enqueue
  BY <1>1, <1>2 DEF Next, OnMessage, Enqueue, connVars
<1>3. ASSUME NEW e \in Ends, AttachReliable(e) \/ PeerCloses(e)
      PROVE  Next /\ UNCHANGED <<sendVars, closed>>
  BY <1>3 DEF Next, EndStep, AttachReliable, PeerCloses
<1>4. CASE CloseFlag("rcv") \/ CloseTransport("rcv")
  <2>1. Next
    BY <1>4 DEF Next, EndStep, Ends
  <2>2. closed \in [Ends -> BOOLEAN] /\ "snd" \in Ends
    BY DEF TypeOK, ConnTypeOK, Ends
  <2>3. UNCHANGED sendVars /\ closed'["snd"] = closed["snd"]
    BY <1>4, <2>2 DEF CloseFlag, CloseTransport
  <2> QED
    BY <1>1, <2>1, <2>3
<1> QED
  BY <1>1, <1>2, <1>3, <1>4 DEF SessionRuns

LEMMA IoStepIsSession ==
  ASSUME TypeOK, PollInv, [IoNext]_ioVars
  PROVE  [Next]_vars
<1>1. CASE UNCHANGED ioVars
  BY <1>1 DEF ioVars
<1> QED
  BY <1>1, WritingIsSession, ReadingIsSession, SessionRunsIsSession DEF IoNext
-----------------------------------------------------------------------------
(* The futures of the stream *)

\* A send is past its checks: a message of its own, and the flag was not set.
LEMMA BeginsPoll ==
  ASSUME IoInv, SendBegins
  PROVE  PollInv'
<1> DEFINE m == Len(sent) + 1
<1>1. /\ sender' = [sender EXCEPT ![Writer] = [msg |-> m, seg |-> 1]]
      /\ ~closed["snd"] /\ UNCHANGED connVars
      /\ sent' = Append(sent, Payload(m, pending)) /\ m <= MaxMessages
  BY DEF SendBegins, BeginSend
<1>2. [msg |-> m, seg |-> 1] # Idle
  BY DEF Idle
<1>3. sender'[Writer] # Idle
  BY <1>1, <1>2, OneTask DEF IoInv, TypeOK, SendTypeOK
<1>4. /\ future = "new" /\ future' = "begun" /\ UNCHANGED <<op, buf, pending, shutdown, gone>>
  BY DEF SendBegins
<1>5. Len(sent') = Len(sent) + 1 /\ Len(sent) \in Nat
  BY <1>1 DEF IoInv, TypeOK, SendTypeOK
<1>6. op' = "write" => Len(sent') + 0 < MaxMessages
  BY <1>4, <1>5, OneTask DEF IoInv, PollInv
<1> QED
  BY <1>1, <1>3, <1>4, <1>5, <1>6 DEF IoInv, PollInv, connVars

LEMMA ProceedsPoll ==
  ASSUME IoInv, SendProceeds
  PROVE  PollInv'
<1>1. /\ UNCHANGED <<sent, connVars, op, buf, shutdown, gone>>
      /\ future = "begun"
      /\ IF sender'[Writer] = Idle THEN future' = "none" /\ pending' = 0 ELSE UNCHANGED futureVars
  BY DEF SendProceeds, SendSegment
<1> QED
  BY <1>1 DEF IoInv, PollInv, connVars, futureVars

\* The send ends early: by an error, or with the stream.
LEMMA EndsPoll ==
  ASSUME IoInv, SendErr \/ DropStream
  PROVE  PollInv'
<1>1. /\ UNCHANGED <<sent, connVars>> /\ future' = "none" /\ pending' = 0
      /\ op' = "none" /\ buf' \in {buf, 0}
      /\ shutdown' \in {shutdown, FALSE} /\ gone' \in {gone, TRUE}
  BY DEF SendErr, DropStream, ForgetsSend, Return, SendFails, CancelSend, GiveUp, vars, sendVars
<1>2. sender'[Writer] = Idle
  <2>1. CASE UNCHANGED vars /\ future # "begun"
    BY <2>1 DEF IoInv, PollInv, vars, sendVars
  <2>2. CASE GiveUp(Writer)
    BY <2>2, OneTask DEF GiveUp, IoInv, TypeOK, SendTypeOK
  <2> QED
    BY <2>1, <2>2 DEF SendErr, DropStream, SendFails, CancelSend
<1> QED
  BY <1>1, <1>2 DEF IoInv, PollInv, connVars

LEMMA CallsPoll ==
  ASSUME IoInv,
         \/ PollWrite \/ PollFlush \/ PollShutdown \/ PollPending
         \/ WriteStarts \/ WriteReturns \/ FlushReturns \/ ShutdownAgain
  PROVE  PollInv' /\ UNCHANGED vars
<1>1. CASE PollWrite \/ PollFlush \/ PollShutdown
  BY <1>1 DEF PollWrite, PollFlush, PollShutdown, Poll, IoInv, PollInv, vars, sendVars, connVars, futureVars
<1>2. CASE PollPending \/ WriteReturns \/ FlushReturns \/ ShutdownAgain
  BY <1>2 DEF PollPending, WriteReturns, FlushReturns, ShutdownAgain, Return, IoInv, PollInv,
              vars, sendVars, connVars, futureVars
<1>3. CASE WriteStarts
  <2>1. Len(sent) < MaxMessages
    <3>1. Len(sent) \in Nat
      BY DEF IoInv, TypeOK, SendTypeOK
    <3> QED
      BY <1>3, <3>1 DEF WriteStarts, IoInv, PollInv
  <2> QED
    BY <1>3, <2>1 DEF WriteStarts, StartsSend, IoInv, PollInv, vars, sendVars, connVars
<1> QED
  BY <1>1, <1>2, <1>3

LEMMA ShutdownPoll ==
  ASSUME IoInv, ShutdownBegins \/ ShutdownReturns
  PROVE  PollInv' /\ UNCHANGED sendVars
<1>1. UNCHANGED sendVars /\ future = "none" /\ future' = "none" /\ pending' = pending
  BY DEF ShutdownBegins, ShutdownReturns, CloseFlag, CloseTransport, futureVars
<1>2. op = "shutdown" /\ op' \in {"shutdown", "none"} /\ buf' \in {buf, 0}
      /\ shutdown' \in BOOLEAN /\ gone' = gone
  BY DEF ShutdownBegins, ShutdownReturns, Return, IoInv, PollInv
<1> QED
  BY <1>1, <1>2 DEF IoInv, PollInv, sendVars

LEMMA PollStep ==
  ASSUME IoInv, [IoNext]_ioVars
  PROVE  PollInv'
<1>1. UNCHANGED <<writeVars, sendVars>> /\ closed'["snd"] = closed["snd"] => PollInv'
  BY DEF IoInv, PollInv, writeVars, sendVars, futureVars
<1>2. CASE UNCHANGED ioVars
  BY <1>1, <1>2 DEF ioVars, vars, connVars
<1>3. CASE Reading
  BY <1>1, <1>3, ReadingIsSession DEF connVars
<1>4. CASE SessionRuns
  BY <1>1, <1>4, SessionRunsIsSession DEF IoInv
<1>5. CASE Writing
  BY <1>5, BeginsPoll, ProceedsPoll, EndsPoll, CallsPoll, ShutdownPoll DEF Writing
<1> QED
  BY <1>2, <1>3, <1>4, <1>5 DEF IoNext
-----------------------------------------------------------------------------
(* What is written *)

LEMMA WrittenFacts ==
  ASSUME IoInv
  PROVE  /\ written \in Seq(Bytes) /\ Len(written) \in Nat /\ Kept \in Nat /\ pending \in Nat
         /\ Kept <= Len(written) /\ Kept + pending = Len(written)
         /\ Len(sent) \in Nat /\ DOMAIN outcome = 1..Len(sent)
<1>1. written \in Seq(Bytes) /\ Kept \in Nat
  BY DEF IoInv, WrittenInv
<1>2. pending \in Nat
  <2>1. pending = 0 \/ pending \in Lengths
    BY DEF IoInv, PollInv
  <2>2. pending \in Lengths => pending \in Nat
    BY OneTask, Zenon
  <2>3. pending = 0 => pending \in Nat
    OBVIOUS
  <2> QED
    BY <2>1, <2>2, <2>3
<1>3. sent \in Seq(Payloads) /\ outcome \in Seq({"sending", "ok", "failed"})
      /\ Len(outcome) = Len(sent)
  BY DEF IoInv, TypeOK, SendTypeOK
<1>4. Len(sent) \in Nat /\ DOMAIN outcome = 1..Len(sent)
  BY <1>3
<1>5. Len(written) \in Nat
  BY <1>1
<1> QED
  BY <1>1, <1>2, <1>4, <1>5 DEF Kept

LEMMA WrittenStable ==
  ASSUME IoInv, UNCHANGED <<futureVars, written, sendVars>>, flushed' \in {flushed, Kept}
  PROVE  WrittenInv'
<1>1. Kept' = Kept /\ Kept \in Nat
  BY WrittenFacts DEF Kept, futureVars
<1>2. flushed' \in 0..Kept'
  BY <1>1 DEF IoInv, WrittenInv
<1> QED
  BY <1>1, <1>2 DEF IoInv, WrittenInv, futureVars, sendVars, Messages, Bytes

\* The pending future is forgotten, and the bytes it holds are taken back.
LEMMA EndsWritten ==
  ASSUME IoInv, SendErr \/ DropStream
  PROVE  WrittenInv'
<1> USE WrittenFacts
<1>1. /\ future' = "none" /\ pending' = 0 /\ written' = SubSeq(written, 1, Kept)
      /\ flushed' = flushed /\ sent' = sent
  BY DEF SendErr, DropStream, ForgetsSend, SendFails, CancelSend, GiveUp, vars, sendVars, Kept
<1>2. /\ written' \in Seq(Bytes) /\ Len(written') = Kept
      /\ \A k \in 1..Kept : written'[k] = written[k]
  BY <1>1
<1>3. Kept' = Kept
  BY <1>1, <1>2 DEF Kept
<1>4. ASSUME NEW k \in 1..Kept
      PROVE  outcome'[written[k][1]] = "ok"
  <2>1. written[k][1] \in Messages /\ outcome[written[k][1]] = "ok"
    BY DEF IoInv, WrittenInv
  <2>2. CASE UNCHANGED vars
    BY <2>1, <2>2 DEF vars, sendVars
  <2>3. CASE GiveUp(Writer) /\ future = "begun"
    BY <2>1, <2>3 DEF GiveUp, IoInv, WrittenInv, Messages
  <2> QED
    BY <2>2, <2>3 DEF SendErr, DropStream, SendFails, CancelSend
<1>5. \A k \in 1..Kept : written[k][1] \in Messages
  BY DEF IoInv, WrittenInv
<1>6. flushed' \in 0..Kept
  BY <1>1 DEF IoInv, WrittenInv
<1>7. \A k \in Kept + 1..Kept : FALSE
  OBVIOUS
<1>8. Messages' = Messages
  BY <1>1 DEF Messages
<1> QED
  BY <1>1, <1>2, <1>3, <1>4, <1>5, <1>6, <1>7, <1>8 DEF WrittenInv

\* The bytes of the pending future become a message.
LEMMA BeginsWritten ==
  ASSUME IoInv, SendBegins
  PROVE  WrittenInv'
<1> USE WrittenFacts
<1> DEFINE m == Len(sent) + 1
<1>1. /\ future = "new" /\ future' = "begun" /\ UNCHANGED <<pending, written, flushed>>
      /\ sent' = Append(sent, Payload(m, pending)) /\ outcome' = Append(outcome, "sending")
      /\ sender' = [sender EXCEPT ![Writer] = [msg |-> m, seg |-> 1]]
  BY DEF SendBegins, BeginSend
<1>2. /\ Len(sent') = m /\ m \in Messages' /\ Messages \subseteq Messages'
  <2>1. sent \in Seq(Payloads)
    BY DEF IoInv, TypeOK, SendTypeOK
  <2>2. Len(sent') = m
    BY <1>1, <2>1
  <2> QED
    BY <2>2 DEF Messages
<1>3. outcome'[m] = "sending" /\ \A k \in Messages : outcome'[k] = outcome[k]
  <2>1. outcome \in Seq({"sending", "ok", "failed"}) /\ Len(outcome) = Len(sent)
    BY DEF IoInv, TypeOK, SendTypeOK
  <2> QED
    BY <1>1, <2>1 DEF Messages
<1>4. sender'[Writer].msg = m
  BY <1>1, OneTask DEF IoInv, TypeOK, SendTypeOK
<1>5. Kept' = Kept
  BY <1>1 DEF Kept
<1> HIDE DEF m
<1>6. \A k \in Kept + 1..Len(written) : written[k][1] = m
  BY <1>1 DEF IoInv, WrittenInv, m
<1>7. \A k \in 1..Kept : written[k][1] \in Messages' /\ outcome'[written[k][1]] = "ok"
  BY <1>2, <1>3 DEF IoInv, WrittenInv
<1>8. flushed \in 0..Kept
  BY DEF IoInv, WrittenInv
<1> QED
  BY <1>1, <1>2, <1>3, <1>4, <1>5, <1>6, <1>7, <1>8 DEF WrittenInv

\* With its last segment, a message is sent and nothing is pending.
LEMMA ProceedsWritten ==
  ASSUME IoInv, SendProceeds
  PROVE  WrittenInv'
<1> USE WrittenFacts
<1> DEFINE ref == sender[Writer]
<1>1. /\ future = "begun" /\ UNCHANGED <<written, flushed, sent>>
      /\ IF sender'[Writer] = Idle THEN future' = "none" /\ pending' = 0 ELSE UNCHANGED futureVars
  BY DEF SendProceeds, SendSegment
<1>2. ref.msg \in Messages /\ outcome[ref.msg] = "sending" /\ ref # Idle /\ Messages' = Messages
  BY <1>1 DEF IoInv, WrittenInv, PollInv, Messages
<1>3. ref.seg \in Nat /\ ref.msg \in Nat /\ ref.msg # 0
  BY <1>2, OneTask DEF IoInv, TypeOK, SendTypeOK, Refs, Messages
<1>4. /\ \A k \in 1..Kept : written[k][1] \in Messages /\ outcome[written[k][1]] = "ok"
      /\ \A k \in Kept + 1..Len(written) : written[k][1] = ref.msg
      /\ flushed \in 0..Kept
  BY <1>1 DEF IoInv, WrittenInv
<1>5. CASE ref.seg = Len(SegmentsOf(ref.msg))
  <2>1. sender'[Writer] = Idle /\ outcome' = [outcome EXCEPT ![ref.msg] = "ok"]
    BY <1>5, OneTask DEF SendProceeds, SendSegment, IoInv, TypeOK, SendTypeOK
  <2>2. future' = "none" /\ pending' = 0
    BY <1>1, <2>1
  <2>3. Kept' = Len(written) /\ Len(written') = Len(written)
    BY <1>1, <2>2 DEF Kept
  <2>4. \A k \in Messages : outcome'[k] = IF k = ref.msg THEN "ok" ELSE outcome[k]
    BY <2>1 DEF Messages
  <2>5. ASSUME NEW k \in 1..Len(written)
        PROVE  written[k][1] \in Messages /\ outcome'[written[k][1]] = "ok"
    <3>1. k \in 1..Kept \/ k \in Kept + 1..Len(written)
      OBVIOUS
    <3> QED
      BY <1>2, <1>4, <2>4, <3>1
  <2>6. \A k \in Len(written) + 1..Len(written) : FALSE
    OBVIOUS
  <2>7. flushed \in 0..Len(written)
    BY <1>4
  <2> HIDE DEF ref
  <2> QED
    BY <1>1, <1>2, <2>2, <2>3, <2>5, <2>6, <2>7 DEF IoInv, WrittenInv
<1>6. CASE ref.seg # Len(SegmentsOf(ref.msg))
  <2>1. sender' = [sender EXCEPT ![Writer] = [ref EXCEPT !.seg = @ + 1]] /\ outcome' = outcome
    BY <1>6 DEF SendProceeds, SendSegment
  <2>2. ref \in [msg : Messages, seg : Nat \ {0}]
    BY <1>2, OneTask DEF IoInv, TypeOK, SendTypeOK, Refs
  <2>3. sender'[Writer].msg = ref.msg
    BY <2>1, <2>2, OneTask DEF IoInv, TypeOK, SendTypeOK
  <2>4. sender'[Writer] # Idle
    BY <1>3, <2>3 DEF Idle
  <2>5. UNCHANGED futureVars /\ Kept' = Kept
    BY <1>1, <2>4 DEF Kept, futureVars
  <2> QED
    BY <1>1, <1>2, <1>4, <2>1, <2>3, <2>5 DEF IoInv, WrittenInv, futureVars
<1> QED
  BY <1>5, <1>6

\* poll_write appends the bytes of a message that is yet to begin.
LEMMA StartsWritten ==
  ASSUME IoInv, WriteStarts
  PROVE  WrittenInv'
<1> USE WrittenFacts
<1> DEFINE m    == Len(sent) + 1
           more == Payload(m, buf)
<1>1. /\ future = "none" /\ future' = "new" /\ pending' = buf /\ written' = written \o more
      /\ flushed' = flushed /\ UNCHANGED sendVars /\ op = "write"
  BY DEF WriteStarts, StartsSend, vars
<1>2. buf \in Nat /\ m \in 1..MaxMessages /\ pending = 0
  BY <1>1, OneTask DEF IoInv, PollInv
<1>3. more \in Seq(Bytes) /\ Len(more) = buf /\ \A k \in 1..buf : more[k][1] = m
  BY <1>2 DEF Payload, Bytes
<1> HIDE DEF more, m
<1>4. /\ written' \in Seq(Bytes) /\ Len(written') = Len(written) + buf
      /\ \A k \in 1..Len(written) : written'[k] = written[k]
      /\ \A k \in Len(written) + 1..Len(written) + buf : written'[k] = more[k - Len(written)]
  <2>1. /\ written \o more \in Seq(Bytes) /\ Len(written \o more) = Len(written) + Len(more)
        /\ \A k \in 1..Len(written) + Len(more) :
             (written \o more)[k] = IF k <= Len(written) THEN written[k] ELSE more[k - Len(written)]
    BY <1>3, ConcatProperties
  <2> QED
    BY <1>1, <1>2, <1>3, <2>1
<1>5. Kept = Len(written) /\ Kept' = Kept
  BY <1>1, <1>2, <1>4 DEF Kept
<1>6. \A k \in Kept + 1..Len(written') : written'[k][1] = m
  <2>1. ASSUME NEW k \in Kept + 1..Len(written') PROVE written'[k][1] = m
    <3>1. k - Len(written) \in 1..buf /\ written'[k] = more[k - Len(written)]
      BY <1>2, <1>4, <1>5
    <3> QED
      BY <1>3, <3>1
  <2> QED
    BY <2>1
<1>7. \A k \in 1..Kept : written'[k][1] \in Messages /\ outcome[written'[k][1]] = "ok"
  BY <1>4, <1>5 DEF IoInv, WrittenInv
<1> QED
  BY <1>1, <1>4, <1>5, <1>6, <1>7 DEF IoInv, WrittenInv, sendVars, Messages, m

LEMMA WrittenStep ==
  ASSUME IoInv, [IoNext]_ioVars
  PROVE  WrittenInv'
<1>1. UNCHANGED <<writeVars, sendVars>> => WrittenInv'
  BY WrittenStable DEF writeVars
<1>2. CASE UNCHANGED ioVars
  BY <1>1, <1>2 DEF ioVars, vars
<1>3. CASE Reading
  BY <1>1, <1>3, ReadingIsSession
<1>4. CASE SessionRuns
  BY <1>1, <1>4, SessionRunsIsSession DEF IoInv
<1>5. CASE PollWrite \/ PollFlush \/ PollShutdown \/ PollPending \/ WriteReturns
  <2>1. UNCHANGED <<futureVars, written, sendVars, flushed>>
    BY <1>5 DEF PollWrite, PollFlush, PollShutdown, Poll, PollPending, WriteReturns, vars
  <2> QED
    BY <2>1, WrittenStable
<1>6. CASE FlushReturns \/ ShutdownAgain \/ ShutdownBegins \/ ShutdownReturns
  <2>1. future = "none" /\ UNCHANGED <<futureVars, written, sendVars>>
    BY <1>6, ShutdownPoll DEF FlushReturns, ShutdownAgain, ShutdownBegins, ShutdownReturns, vars
  <2>2. flushed' \in {flushed, Len(written)}
    BY <1>6 DEF FlushReturns, ShutdownAgain, ShutdownBegins, ShutdownReturns
  <2>3. Kept = Len(written)
    BY <2>1, WrittenFacts DEF IoInv, PollInv
  <2> QED
    BY <2>1, <2>2, <2>3, WrittenStable
<1>7. CASE Writing
  BY <1>5, <1>6, <1>7, EndsWritten, BeginsWritten, ProceedsWritten, StartsWritten DEF Writing
<1> QED
  BY <1>2, <1>3, <1>4, <1>7 DEF IoNext
-----------------------------------------------------------------------------
(* What is read *)

LEMMA ReadStep ==
  ASSUME IoInv, [IoNext]_ioVars
  PROVE  ReadTypeOK'
<1>1. rop \in {"none", "read"} /\ chunk \in Seq(Bytes) /\ read \in Seq(Bytes)
  BY DEF IoInv, ReadTypeOK
<1>2. CASE UNCHANGED readVars
  BY <1>1, <1>2 DEF ReadTypeOK, readVars, Bytes
<1>3. CASE PollRead \/ ReadPending
  BY <1>1, <1>3 DEF PollRead, ReadPending, ReadTypeOK, Bytes
<1>4. CASE ReadReceives
  <2>1. packets \in Seq(Seq(Bytes)) /\ taken \in 0..Len(packets) /\ Queued > 0
    BY <1>4 DEF ReadReceives, RecvPacket, IoInv, TypeOK, RecvTypeOK
  <2>2. taken + 1 \in 1..Len(packets)
    BY <2>1 DEF Queued
  <2>3. packets[taken + 1] \in Seq(Bytes)
    BY <2>1, <2>2
  <2> QED
    BY <1>1, <1>4, <2>3 DEF ReadReceives, ReadTypeOK, Bytes
<1>5. CASE ReadReturns
  <2>1. PICK n \in 1..Len(chunk) : /\ read' = read \o SubSeq(chunk, 1, n)
                                   /\ chunk' = SubSeq(chunk, n + 1, Len(chunk))
    BY <1>5 DEF ReadReturns
  <2>2. SubSeq(chunk, 1, n) \in Seq(Bytes) /\ chunk' \in Seq(Bytes)
    BY <1>1, <2>1
  <2>3. read' \in Seq(Bytes)
    BY <1>1, <2>1, <2>2
  <2> QED
    BY <1>5, <2>2, <2>3 DEF ReadReturns, ReadTypeOK, Bytes
<1>6. CASE Writing
  BY <1>2, <1>6 DEF Writing, PollWrite, PollFlush, PollShutdown, Poll, PollPending, SendBegins,
       SendProceeds, SendErr, WriteStarts, StartsSend, WriteReturns, FlushReturns,
       ShutdownBegins, ShutdownReturns, ShutdownAgain, DropStream
<1>7. CASE Reading
  BY <1>2, <1>3, <1>4, <1>5, <1>7 DEF Reading, ReadProceeds
<1> QED
  BY <1>2, <1>6, <1>7 DEF IoNext, SessionRuns, ioVars
-----------------------------------------------------------------------------
LEMMA IoInvariant == IoSpec => []IoInv
<1>1. IoInv /\ [IoNext]_ioVars => IoInv'
  <2> SUFFICES ASSUME IoInv, [IoNext]_ioVars PROVE IoInv'
    OBVIOUS
  <2>1. TypeOK'
    BY IoStepIsSession, TypeStep DEF IoInv
  <2> QED
    BY <2>1, PollStep, WrittenStep, ReadStep DEF IoInv
<1> QED
  BY <1>1, IoInitInv, PTL DEF IoSpec

(* stream.rs:379-470: whichever poll functions are called, in whatever order,
   and however often they say Pending, what the stream does to its session is
   what tasks that call send, recv and close one after the other do. *)
THEOREM StreamUsesSession == IoSpec => Spec
<1>1. IoInit => Init
  BY DEF IoInit
<1>2. IoInv /\ [IoNext]_ioVars => [Next]_vars
  BY IoStepIsSession DEF IoInv
<1> QED
  BY <1>1, <1>2, IoInvariant, PTL DEF IoSpec, Spec

(* stream.rs: the futures that a stream keeps between two polls are those of
   the session, and a flush never covers bytes of a send that is pending. *)
THEOREM IoTypeCorrect == IoSpec => []IoTypeOK
<1>1. IoInv => IoTypeOK
  <2> SUFFICES ASSUME IoInv PROVE IoTypeOK
    OBVIOUS
  <2>1. FutureOK
    BY DEF IoInv, PollInv, FutureOK
  <2>2. flushed \in 0..Len(written)
    BY WrittenFacts DEF IoInv, WrittenInv
  <2>3. pending \in Lengths \cup {0}
    BY DEF IoInv, PollInv
  <2> QED
    BY <2>1, <2>2, <2>3 DEF IoInv, PollInv, WrittenInv, WriteTypeOK, IoTypeOK
<1> QED
  BY <1>1, IoInvariant, PTL

(* stream.rs:459: poll_shutdown never sets the closed flag under a send that
   poll_write has reported as done, and no send begins after it. *)
THEOREM ShutdownComesAfter == IoSpec => []ShutdownFlushes
<1>1. IoInv => ShutdownFlushes
  BY DEF IoInv, PollInv, ShutdownFlushes
<1> QED
  BY <1>1, IoInvariant, PTL

(* stream.rs:399: poll_write says Ok(len) before the send is through; flush
   makes up for it.  Every byte that a flush covers is in a message whose send
   has succeeded, whatever errors and drops come later. *)
THEOREM FlushCovers == IoSpec => []FlushedIsSent
<1>1. IoInv => FlushedIsSent
  <2> SUFFICES ASSUME IoInv PROVE FlushedIsSent
    OBVIOUS
  <2>1. \A k \in 1..flushed : k \in 1..Kept
    BY DEF IoInv, WrittenInv
  <2> QED
    BY <2>1 DEF IoInv, WrittenInv, FlushedIsSent
<1> QED
  BY <1>1, IoInvariant, PTL
-----------------------------------------------------------------------------
(* The two halves together: the bytes that are read are those written *)

(* Every payload carries the number of its message, so a byte says which
   send it is from and where in it. *)
SentInv == \A m \in Messages : \A i \in 1..Len(sent[m]) : sent[m][i] = <<m, i>>

(* While the stream is there and its channel open, the writer is at the
   segment the wire waits for; messages that are through are never undone. *)
LinkInv ==
  /\ WireInv
  /\ gone => op = "none"
  /\ open["snd"] /\ ~gone =>
       IF sender[Writer] = Idle
       THEN After(Len(wired)) = [msg |-> Len(sent) + 1, seg |-> 1]
       ELSE sender[Writer] = After(Len(wired))
  /\ sender[Writer] # Idle => sender[Writer].msg = Len(sent)
  /\ \A m \in Messages : m < After(Len(wired)).msg => outcome[m] = "ok"

\* The packets that have been assembled, and the message of the j-th.
Packed == packets \o completed
Tag(j) == Packed[j][1][1]

(* The accumulator holds the message of the next segment so far; the messages
   before it have been packed in order, all but the empty ones. *)
PackedInv ==
  LET next == After(handled)
  IN  /\ buffer = Partial(sent[next.msg], next.seg - 1)
      /\ \A j \in 1..Len(Packed) :
           /\ Packed[j] # <<>>
           /\ Tag(j) \in Messages /\ Tag(j) < next.msg
           /\ Packed[j] = sent[Tag(j)]
      /\ \A i, j \in 1..Len(Packed) : i < j => Tag(i) < Tag(j)
      /\ \A m \in Messages :
           m < next.msg /\ sent[m] # <<>> => \E j \in 1..Len(Packed) : Tag(j) = m

Earlier(a, b) == a[1] < b[1] \/ (a[1] = b[1] /\ a[2] < b[2])

\* The message the pending future sends or will send.
PendingMsg == IF future = "new" THEN Len(sent) + 1 ELSE sender[Writer].msg

\* The payload of a message that is through, in one piece.
Placed(m) == \E at \in 0..Kept :
               /\ at + Len(sent[m]) <= Kept
               /\ \A i \in 1..Len(sent[m]) : written[at + i] = <<m, i>>

SortedInv == \A j, k \in 1..Len(written) : j < k => Earlier(written[j], written[k])

KeptInv == \A k \in 1..Kept : written[k][2] \in 1..Len(sent[written[k][1]])

PendingInv ==
  /\ \A i \in 1..pending : written[Kept + i] = <<PendingMsg, i>>
  /\ future = "begun" => Len(sent[sender[Writer].msg]) = pending

(* What is written: the payloads of the messages that are through, each in
   one piece and in their order, and then that of the pending future. *)
PlacedInv ==
  /\ SortedInv
  /\ KeptInv
  /\ \A m \in Messages : outcome[m] = "ok" => Placed(m)
  /\ PendingInv

\* What recv has returned to the stream, and the last message of it.
Got == read \o chunk
LastTaken == IF taken = 0 THEN 0 ELSE Tag(taken)

(* It is the beginning of what is written, up to the end of a message. *)
GotInv ==
  /\ Len(Got) <= Kept
  /\ \A k \in 1..Len(Got) : Got[k] = written[k]
  /\ \A k \in 1..Len(written) : k <= Len(Got) <=> written[k][1] <= LastTaken

BytesInv == IoInv /\ SentInv /\ LinkInv /\ PackedInv /\ PlacedInv /\ GotInv

(* The steps by what they change: the writing half, or what has been read and
   what is on its way there, or nothing the invariant is about. *)
LEMMA IoCases ==
  ASSUME IoInv, [IoNext]_ioVars
  PROVE  \/ /\ SendBegins \/ SendProceeds \/ SendErr \/ DropStream \/ WriteStarts
            /\ UNCHANGED <<handled, buffer, completed, packets, taken, chunk, read>>
         \/ /\ UNCHANGED <<sendVars, futureVars, written>>
            /\ open'["snd"] => open["snd"]
            /\ gone' = gone /\ (gone /\ op = "none" => op' = "none")
            /\ \/ UNCHANGED <<handled, buffer, completed, packets, taken, chunk, read>>
               \/ OnMessage /\ UNCHANGED <<chunk, read>>
               \/ Enqueue /\ UNCHANGED <<chunk, read>>
               \/ ReadReceives
               \/ ReadReturns
<1> DEFINE still == UNCHANGED <<handled, buffer, completed, packets, taken, chunk, read>>
           quiet == /\ UNCHANGED <<sendVars, futureVars, written>>
                    /\ open'["snd"] => open["snd"]
                    /\ gone' = gone /\ (gone /\ op = "none" => op' = "none")
<1>1. CASE SendBegins \/ SendProceeds \/ SendErr \/ DropStream \/ WriteStarts
  BY <1>1 DEF SendBegins, BeginSend, SendProceeds, SendSegment, SendErr, SendFails, DropStream,
              CancelSend, GiveUp, WriteStarts, StartsSend, vars, recvVars, readVars
<1>2. CASE PollWrite \/ PollFlush \/ PollShutdown \/ PollPending
           \/ WriteReturns \/ FlushReturns \/ ShutdownAgain
  <2>1. UNCHANGED <<vars, futureVars, written, readVars, gone>> /\ (op' = "none" \/ ~gone)
    BY <1>2 DEF PollWrite, PollFlush, PollShutdown, PollPending, Poll, WriteReturns, FlushReturns,
                ShutdownAgain, Return
  <2> QED
    BY <2>1 DEF vars, recvVars, connVars, readVars
<1>3. CASE ShutdownBegins \/ ShutdownReturns
  <2>1. open \in [Ends -> BOOLEAN] /\ "snd" \in Ends
    BY DEF IoInv, TypeOK, ConnTypeOK, Ends
  <2>2. UNCHANGED <<sendVars, recvVars, futureVars, written, readVars, gone>> /\ op' \in {op, "none"}
    BY <1>3 DEF ShutdownBegins, ShutdownReturns, CloseFlag, CloseTransport, Return, recvVars
  <2>3. open'["snd"] => open["snd"]
    BY <1>3, <2>1 DEF ShutdownBegins, ShutdownReturns, CloseFlag, CloseTransport
  <2> QED
    BY <2>2, <2>3 DEF recvVars, readVars
<1>4. CASE UNCHANGED ioVars
  BY <1>4 DEF ioVars, vars, writeVars, recvVars, connVars, readVars
<1>5. CASE Reading
  <2>1. UNCHANGED <<writeVars, sendVars, connVars>>
    BY <1>5, ReadingIsSession
  <2>2. quiet
    BY <2>1 DEF writeVars, connVars
  <2>3. CASE PollRead \/ ReadPending
    BY <2>2, <2>3 DEF PollRead, ReadPending, vars, recvVars
  <2>4. CASE ReadProceeds
    BY <2>2, <2>4 DEF ReadProceeds, RecvEnter, RecvLock, readVars
  <2> QED
    BY <1>5, <2>2, <2>3, <2>4 DEF Reading
<1>6. CASE SessionRuns
  <2>1. UNCHANGED <<writeVars, readVars, sendVars>>
    BY <1>6, SessionRunsIsSession DEF IoInv
  <2>2. open \in [Ends -> BOOLEAN] /\ "snd" \in Ends
    BY DEF IoInv, TypeOK, ConnTypeOK, Ends
  <2>3. CASE OnMessage \/ Enqueue
    BY <2>1, <2>3 DEF OnMessage, Enqueue, connVars, writeVars, readVars
  <2>4. CASE \/ \E e \in Ends : AttachReliable(e) \/ PeerCloses(e)
             \/ CloseFlag("rcv") \/ CloseTransport("rcv")
    <3>1. UNCHANGED recvVars
      BY <2>4 DEF AttachReliable, PeerCloses, CloseFlag, CloseTransport
    <3>2. open'["snd"] => open["snd"]
      BY <2>2, <2>4 DEF AttachReliable, PeerCloses, CloseFlag, CloseTransport
    <3> QED
      BY <2>1, <3>1, <3>2 DEF writeVars, readVars, recvVars
  <2> QED
    BY <1>6, <2>3, <2>4 DEF SessionRuns
<1> QED
  BY <1>1, <1>2, <1>3, <1>4, <1>5, <1>6 DEF IoNext, Writing

(* The numbers of the writer. *)
LEMMA WriterFacts ==
  ASSUME IoInv
  PROVE  /\ SendTypeOK /\ RecvTypeOK /\ Len(sent) \in Nat /\ Len(wired) \in Nat
         /\ handled \in 0..Len(wired)
         /\ sender \in [{Writer} -> Refs \cup {Idle}]
         /\ sender[Writer] # Idle => /\ sender[Writer] \in Refs
                                     /\ sender[Writer] \in [msg : Messages, seg : Nat \ {0}]
                                     /\ sender[Writer].msg \in Messages
                                     /\ sender[Writer].msg \in Nat \ {0}
                                     /\ sender[Writer].seg \in Nat \ {0}
<1>1. /\ SendTypeOK /\ RecvTypeOK /\ Len(sent) \in Nat /\ Len(wired) \in Nat
      /\ handled \in 0..Len(wired)
  BY DEF IoInv, TypeOK, SendTypeOK, RecvTypeOK
<1>2. sender \in [{Writer} -> Refs \cup {Idle}]
  BY <1>1, OneTask DEF SendTypeOK
<1>3. sender[Writer] # Idle => sender[Writer] \in Refs
  BY <1>2
<1>4. sender[Writer] \in Refs => /\ sender[Writer] \in [msg : Messages, seg : Nat \ {0}]
                                 /\ sender[Writer].msg \in Messages
                                 /\ sender[Writer].seg \in Nat \ {0}
  BY DEF Refs
<1>5. Messages \subseteq Nat \ {0}
  BY DEF Messages
<1> QED
  BY <1>1, <1>2, <1>3, <1>4, <1>5

LEMMA SentStep ==
  ASSUME IoInv, SentInv, [IoNext]_ioVars
  PROVE  SentInv'
<1>1. UNCHANGED sent => SentInv'
  BY DEF SentInv, Messages
<1>2. CASE SendBegins
  <2> DEFINE m == Len(sent) + 1
  <2>1. sent' = Append(sent, Payload(m, pending))
    BY <1>2 DEF SendBegins, BeginSend
  <2>2. Len(sent) \in Nat /\ sent \in Seq(Payloads) /\ pending \in Nat
    BY WriterFacts, WrittenFacts DEF SendTypeOK
  <2>3. /\ Len(sent') = m /\ sent'[m] = Payload(m, pending)
        /\ \A k \in Messages : sent'[k] = sent[k]
    BY <2>1, <2>2 DEF Messages
  <2>4. Len(sent'[m]) = pending /\ \A i \in 1..pending : sent'[m][i] = <<m, i>>
    BY <2>2, <2>3 DEF Payload
  <2>5. \A k \in Messages' : k = m \/ k \in Messages
    BY <2>2, <2>3 DEF Messages
  <2> HIDE DEF m
  <2> QED
    BY <2>3, <2>4, <2>5 DEF SentInv
<1>3. CASE SendProceeds \/ SendErr \/ DropStream \/ WriteStarts
  BY <1>1, <1>3 DEF SendProceeds, SendSegment, SendErr, SendFails, DropStream, CancelSend, GiveUp,
                    WriteStarts, StartsSend, vars, sendVars
<1> QED
  BY <1>1, <1>2, <1>3, IoCases DEF sendVars

LEMMA LinkBegins ==
  ASSUME IoInv, LinkInv, SendBegins
  PROVE  LinkInv' /\ \A k \in 0..Len(wired) : After(k)' = After(k)
<1> USE WriterFacts
<1> DEFINE m == Len(sent) + 1
           first == [msg |-> m, seg |-> 1]
<1>1. /\ sender[Writer] = Idle /\ op # "none" /\ UNCHANGED <<wired, op, gone, connVars>>
      /\ sent' = Append(sent, Payload(m, pending)) /\ outcome' = Append(outcome, "sending")
      /\ sender' = [sender EXCEPT ![Writer] = first]
  BY DEF SendBegins, BeginSend
<1>2. /\ Len(sent') = m /\ \A k \in Messages : sent'[k] = sent[k]
      /\ \A k \in Messages : outcome'[k] = outcome[k]
  BY <1>1 DEF SendTypeOK, Messages
<1>3. WireInv' /\ \A k \in 0..Len(wired) : After(k)' = After(k)
  BY <1>1, <1>2, WireKeeps DEF LinkInv
<1>4. After(Len(wired))' = After(Len(wired))
  BY <1>1, <1>3
<1>5. sender'[Writer] = first /\ first # Idle
  BY <1>1 DEF Idle
<1>6. ~gone' /\ open'["snd"] = open["snd"]
  BY <1>1 DEF LinkInv, connVars
<1>7. open["snd"] => After(Len(wired)) = first
  BY <1>1 DEF LinkInv
<1>8. ASSUME NEW k \in Messages', k < After(Len(wired)).msg PROVE outcome'[k] = "ok"
  <2>1. After(Len(wired)).msg <= m /\ After(Len(wired)).msg \in Nat
    BY AfterFacts
  <2>2. k \in Messages
    BY <1>2, <1>8, <2>1 DEF Messages
  <2> QED
    BY <1>2, <1>8, <2>2 DEF LinkInv
<1> HIDE DEF m
<1> QED
  BY <1>2, <1>3, <1>4, <1>5, <1>6, <1>7, <1>8 DEF LinkInv, Idle

LEMMA LinkProceeds ==
  ASSUME IoInv, LinkInv, SendProceeds
  PROVE  /\ LinkInv'
         /\ \A k \in 0..Len(wired) : After(k)' = After(k)
<1> USE WriterFacts
<1> DEFINE ref == sender[Writer]
<1> PICK n \in Nat : n = Len(wired)
  OBVIOUS
<1>1. /\ ref # Idle /\ open["snd"] /\ op # "none"
      /\ UNCHANGED <<sent, op, gone, connVars>> /\ wired' = Append(wired, ref)
      /\ sender' = [sender EXCEPT ![Writer] =
                      IF IsLast(ref) THEN Idle ELSE [ref EXCEPT !.seg = @ + 1]]
      /\ outcome' = IF IsLast(ref) THEN [outcome EXCEPT ![ref.msg] = "ok"] ELSE outcome
  BY DEF SendProceeds, SendSegment, IsLast
<1>2. /\ ref \in Refs /\ ref = After(n) /\ ref.msg = Len(sent) /\ n \in Nat
      /\ ref \in [msg : Messages, seg : Nat \ {0}] /\ ref.msg \in Nat /\ ref.seg \in Nat \ {0}
  BY <1>1 DEF LinkInv
<1>3. /\ WireInv' /\ Len(wired') = n + 1
      /\ \A k \in 0..n : After(k)' = After(k)
      /\ After(n + 1)' = NextRef(ref)
  BY <1>1, <1>2, WireNext DEF LinkInv
<1>4. After(Len(wired))' = NextRef(ref)
  BY <1>3
<1>5. outcome \in Seq({"sending", "ok", "failed"}) /\ Len(outcome) = Len(sent)
      /\ Messages' = Messages /\ ref.msg \in Messages
  BY <1>1, <1>2 DEF SendTypeOK, Messages
<1> HIDE DEF ref
<1>6. CASE IsLast(ref)
  <2>1. sender'[Writer] = Idle /\ outcome' = [outcome EXCEPT ![ref.msg] = "ok"]
    BY <1>1, <1>6
  <2>2. NextRef(ref) = [msg |-> Len(sent') + 1, seg |-> 1]
    BY <1>1, <1>2, <1>6 DEF NextRef
  <2>3. ASSUME NEW k \in Messages, k < Len(sent) + 1 PROVE outcome'[k] = "ok"
    <3>1. CASE k = ref.msg
      BY <1>5, <2>1, <3>1 DEF Messages
    <3>2. CASE k # ref.msg
      <4>1. k < After(Len(wired)).msg
        BY <1>2, <2>3, <3>2 DEF Messages
      <4> QED
        BY <1>5, <2>1, <3>2, <4>1 DEF LinkInv, Messages
    <3> QED
      BY <3>1, <3>2
  <2>4. NextRef(ref).msg = Len(sent) + 1
    BY <1>1, <2>2
  <2> QED
    BY <1>1, <1>3, <1>4, <1>5, <2>1, <2>2, <2>3, <2>4 DEF LinkInv, Idle
<1>7. CASE ~IsLast(ref)
  <2>1. sender'[Writer] = [ref EXCEPT !.seg = @ + 1] /\ outcome' = outcome
    BY <1>1, <1>7
  <2>2. NextRef(ref) = [msg |-> ref.msg, seg |-> ref.seg + 1]
    BY <1>7 DEF NextRef
  <2>3. sender'[Writer] = NextRef(ref) /\ NextRef(ref).msg = Len(sent')
    BY <1>1, <1>2, <2>1, <2>2
  <2>4. sender'[Writer] # Idle
    BY <1>2, <2>2, <2>3 DEF Idle
  <2>5. NextRef(ref).msg = After(Len(wired)).msg
    BY <1>2, <2>2
  <2> QED
    BY <1>1, <1>3, <1>4, <1>5, <2>1, <2>3, <2>4, <2>5 DEF LinkInv, Idle
<1> QED
  BY <1>3, <1>6, <1>7

(* A send that ends early ends the use of the channel: either the channel is
   closed, or the stream is gone. *)
LEMMA LinkEnds ==
  ASSUME IoInv, LinkInv, SendErr \/ DropStream
  PROVE  LinkInv' /\ \A k \in 0..Len(wired) : After(k)' = After(k)
<1> USE WriterFacts
<1>1. /\ UNCHANGED <<sent, wired, connVars>> /\ op' = "none"
      /\ gone' \in {gone, TRUE}
  BY DEF SendErr, DropStream, Return, SendFails, CancelSend, GiveUp, vars, sendVars
<1>2. \A k : After(k)' = After(k)
  BY <1>1 DEF After, NextRef, IsLast, SegmentsOf
<1>3. WireInv'
  BY <1>1 DEF LinkInv, WireInv, After, NextRef, IsLast, SegmentsOf, Before
<1>4. CASE UNCHANGED vars
  <2>1. UNCHANGED <<sender, outcome>>
    BY <1>4 DEF vars, sendVars
  <2> QED
    BY <1>1, <1>2, <1>3, <2>1 DEF LinkInv, Messages, Idle, connVars
<1>5. CASE GiveUp(Writer) /\ (~open["snd"] \/ gone') /\ future = "begun"
  <2>1. sender'[Writer] = Idle /\ outcome' = [outcome EXCEPT ![sender[Writer].msg] = "failed"]
        /\ sender[Writer] # Idle
    BY <1>5 DEF GiveUp
  <2>2. ASSUME NEW m \in Messages, m < After(Len(wired)).msg PROVE outcome'[m] = "ok"
    <3>1. outcome[m] = "ok"
      BY <2>2 DEF LinkInv
    <3>2. outcome[sender[Writer].msg] = "sending"
      BY <1>5 DEF IoInv, WrittenInv
    <3> QED
      BY <2>1, <3>1, <3>2 DEF SendTypeOK, Messages
  <2> QED
    BY <1>1, <1>2, <1>3, <1>5, <2>1, <2>2 DEF LinkInv, Messages, Idle, connVars
<1> QED
  BY <1>2, <1>4, <1>5 DEF SendErr, DropStream, SendFails, CancelSend

LEMMA LinkOther ==
  ASSUME LinkInv, UNCHANGED sendVars, open'["snd"] => open["snd"],
         gone' = gone, gone /\ op = "none" => op' = "none"
  PROVE  LinkInv' /\ \A k \in 0..Len(wired) : After(k)' = After(k)
<1>1. UNCHANGED <<sent, wired, sender, outcome>>
  BY DEF sendVars
<1>2. \A k : After(k)' = After(k)
  BY <1>1 DEF After, NextRef, IsLast, SegmentsOf
<1>3. WireInv'
  BY <1>1 DEF LinkInv, WireInv, After, NextRef, IsLast, SegmentsOf, Before
<1>4. After(Len(wired))' = After(Len(wired)) /\ Messages' = Messages /\ Idle' = Idle
  BY <1>1, <1>2 DEF Messages, Idle
<1> QED
  BY <1>1, <1>2, <1>3, <1>4 DEF LinkInv

(* What follows on the wire is settled once the wire is that long. *)
LEMMA LinkStep ==
  ASSUME IoInv, LinkInv, [IoNext]_ioVars
  PROVE  LinkInv' /\ \A k \in 0..Len(wired) : After(k)' = After(k)
<1>1. CASE WriteStarts
  <2>1. UNCHANGED <<sendVars, open, gone>> /\ op # "none"
    BY <1>1 DEF WriteStarts, StartsSend, vars, connVars
  <2> QED
    BY <2>1, LinkOther
<1> QED
  BY <1>1, IoCases, LinkBegins, LinkProceeds, LinkEnds, LinkOther

LEMMA PackedFacts ==
  ASSUME RecvTypeOK
  PROVE  /\ Packed \in Seq(Seq(Bytes)) /\ Len(packets) \in Nat /\ Len(Packed) \in Nat
         /\ Len(packets) <= Len(Packed)
         /\ \A j \in 1..Len(packets) : Packed[j] = packets[j]
         /\ completed = <<>> => Len(Packed) = Len(packets)
<1>1. packets \in Seq(Seq(Bytes)) /\ completed \in Seq(Seq(Bytes))
  BY DEF RecvTypeOK
<1>2. /\ packets \o completed \in Seq(Seq(Bytes))
      /\ Len(packets \o completed) = Len(packets) + Len(completed)
      /\ \A j \in 1..Len(packets) : (packets \o completed)[j] = packets[j]
  BY <1>1, ConcatProperties
<1>3. Len(packets) \in Nat /\ Len(completed) \in Nat /\ (completed = <<>> => Len(completed) = 0)
  BY <1>1
<1> QED
  BY <1>2, <1>3 DEF Packed

(* Nothing is handled, and nothing packed but what was in the handler's hands. *)
LEMMA PackedStable ==
  ASSUME IoInv, PackedInv, UNCHANGED <<handled, buffer, Packed>>,
         \A m \in Messages : sent'[m] = sent[m], Messages \subseteq Messages',
         After(handled)' = After(handled)
  PROVE  PackedInv'
<1> DEFINE next == After(handled)
<1>1. /\ next.msg \in Nat \ {0} /\ next.seg \in Nat \ {0} /\ next.msg <= Len(sent) + 1
      /\ next.msg \notin Messages => next.seg = 1 /\ Len(sent) \in Nat
  BY WriterFacts, AfterFacts
<1>2. Partial(sent'[next.msg], next.seg - 1) = Partial(sent[next.msg], next.seg - 1)
  <2>1. CASE next.msg \in Messages
    BY <2>1
  <2>2. CASE next.msg \notin Messages
    <3>1. next.seg - 1 = 0
      BY <1>1, <2>2
    <3> QED
      BY <3>1 DEF Partial
  <2> QED
    BY <2>1, <2>2
<1>3. buffer' = Partial(sent'[next.msg], next.seg - 1)
  BY <1>2 DEF PackedInv
<1>4. \A j : Tag(j)' = Tag(j)
  BY DEF Tag
<1>5. \A m \in Messages' : m < next.msg => m \in Messages
  <2>1. Len(sent) \in Nat /\ \A m \in Messages' : m \in Nat \ {0}
    BY WriterFacts DEF Messages
  <2> HIDE DEF next
  <2> QED
    BY <1>1, <2>1 DEF Messages
<1> HIDE DEF next
<1>6. /\ \A j \in 1..Len(Packed) :
           /\ Packed[j] # <<>>
           /\ Tag(j) \in Messages' /\ Tag(j) < next.msg
           /\ Packed[j] = sent'[Tag(j)]
      /\ \A i, j \in 1..Len(Packed) : i < j => Tag(i) < Tag(j)
      /\ \A m \in Messages' :
           m < next.msg /\ sent'[m] # <<>> => \E j \in 1..Len(Packed) : Tag(j) = m
  BY <1>5 DEF PackedInv, next
<1> QED
  BY <1>3, <1>4, <1>6 DEF PackedInv, next

\* An empty payload is one segment, which the peer does not decode.
LEMMA EmptyIsRefused ==
  ASSUME NEW data \in Seq(Bytes), data = <<>>
  PROVE  SegmentCount(Len(data)) = 1 /\ ~Decodes(SplitIntoSegments(data)[1])
<1>1. Len(data) = 0
  OBVIOUS
<1>2. SegmentCount(Len(data)) = 1
  BY <1>1, SizesAssumption DEF SegmentCount
<1>3. ChunkEnd(Len(data), 1) = 0 /\ (1 - 1) * MAX_MESSAGE_SIZE + 1 = 1
  BY <1>1, SizesAssumption DEF ChunkEnd
<1>4. SplitIntoSegments(data)[1].data = SubSeq(data, 1, 0)
  <2>1. \A i \in 1..SegmentCount(Len(data)) :
          SplitIntoSegments(data)[i].data =
            SubSeq(data, (i - 1) * MAX_MESSAGE_SIZE + 1, ChunkEnd(Len(data), i))
    BY SplitShape
  <2>2. SplitIntoSegments(data)[1].data =
          SubSeq(data, (1 - 1) * MAX_MESSAGE_SIZE + 1, ChunkEnd(Len(data), 1))
    BY <1>2, <2>1
  <2> QED
    BY <1>3, <2>2
<1>5. SubSeq(data, 1, 0) = <<>>
  OBVIOUS
<1> QED
  BY <1>2, <1>4, <1>5 DEF Decodes

LEMMA PackedOnMessage ==
  ASSUME IoInv, SentInv, LinkInv, PackedInv, OnMessage
  PROVE  PackedInv'
<1> USE WriterFacts
<1> DEFINE ref == wired[handled + 1]
           data == sent[ref.msg]
           c == SegmentCount(Len(data))
           result == AddSegment(buffer, Segment(ref))
<1> PICK p \in Nat : p = Len(packets)
  BY DEF RecvTypeOK
<1>1. /\ handled < Len(wired) /\ completed = <<>> /\ handled' = handled + 1
      /\ packets' = packets /\ UNCHANGED sendVars
      /\ IF Decodes(Segment(ref))
         THEN buffer' = result.message /\ completed' = result.packet
         ELSE buffer' = buffer /\ completed' = completed
  BY DEF OnMessage
<1>2. /\ ref \in Refs /\ ref.msg \in Messages /\ ref.seg \in Nat \ {0} /\ ref.msg \in Nat
      /\ ref.seg <= Len(SegmentsOf(ref.msg))
  BY <1>1 DEF SendTypeOK, Refs, Messages
<1>3. /\ data \in Payloads /\ data \in Seq(Bytes) /\ ~TooLarge(Len(data))
      /\ c \in Nat \ {0} /\ Len(SegmentsOf(ref.msg)) = c
      /\ Segment(ref) = SplitIntoSegments(data)[ref.seg]
  BY <1>2, SegmentFacts, PayloadFacts DEF Segment, SegmentsOf
<1>4. ref.seg \in 1..c
  BY <1>2, <1>3
<1>5. ref = After(handled)
  BY <1>1 DEF LinkInv, WireInv
<1>6. buffer = Partial(data, ref.seg - 1)
  BY <1>5 DEF PackedInv
<1>7. /\ Packed \in Seq(Seq(Bytes)) /\ p \in Nat /\ Len(Packed) = p
      /\ \A j \in 1..p : Packed[j] = packets[j]
  BY <1>1, PackedFacts
<1>8. After(handled)' = NextRef(ref)
  <2>1. After(handled)' = NextRef(wired[handled])'
    BY <1>1 DEF After
  <2> QED
    BY <1>1, <2>1 DEF NextRef, IsLast, SegmentsOf, sendVars
<1>9. UNCHANGED <<sent, Messages>>
  BY <1>1 DEF sendVars, Messages
<1>10. /\ \A j \in 1..p : /\ Packed[j] # <<>>
                          /\ Tag(j) \in Messages /\ Tag(j) < ref.msg
                          /\ Packed[j] = sent[Tag(j)]
       /\ \A i, j \in 1..p : i < j => Tag(i) < Tag(j)
       /\ \A m \in Messages :
            m < ref.msg /\ sent[m] # <<>> => \E j \in 1..p : Tag(j) = m
  BY <1>5, <1>7 DEF PackedInv
<1> HIDE DEF ref, c, result
(* No packet: the payloads packed are those of the messages before. *)
<1>11. ASSUME UNCHANGED completed, NextRef(ref).msg \in {ref.msg, ref.msg + 1},
              NextRef(ref).msg = ref.msg \/ data = <<>>,
              buffer' = Partial(sent[NextRef(ref).msg], NextRef(ref).seg - 1)
       PROVE  PackedInv'
  <2>1. Packed' = Packed /\ \A j : Tag(j)' = Tag(j)
    BY <1>1, <1>11 DEF Packed, Tag
  <2>2. ASSUME NEW m \in Messages, m < NextRef(ref).msg
        PROVE  m < ref.msg \/ (data = <<>> /\ m = ref.msg)
    <3>1. m \in Nat
      BY DEF Messages
    <3>2. CASE NextRef(ref).msg = ref.msg
      BY <2>2, <3>2
    <3>3. CASE NextRef(ref).msg = ref.msg + 1
      <4>1. m < ref.msg + 1 /\ NextRef(ref).msg # ref.msg
        BY <1>2, <2>2, <3>3
      <4> QED
        BY <1>2, <1>11, <3>1, <4>1
    <3> QED
      BY <1>11, <3>2, <3>3
  <2>3. \A j \in 1..p : Tag(j) < NextRef(ref).msg
    BY <1>2, <1>10, <1>11 DEF Messages
  <2>4. /\ Len(Packed') = p
        /\ \A j \in 1..p : /\ Packed'[j] # <<>>
                           /\ Tag(j)' \in Messages /\ Tag(j)' < NextRef(ref).msg
                           /\ Packed'[j] = sent[Tag(j)']
        /\ \A i, j \in 1..p : i < j => Tag(i)' < Tag(j)'
    BY <1>7, <1>10, <2>1, <2>3
  <2>5. \A m \in Messages :
          m < NextRef(ref).msg /\ sent[m] # <<>> => \E j \in 1..p : Tag(j)' = m
    BY <1>10, <2>1, <2>2
  <2>6. /\ buffer' = Partial(sent'[NextRef(ref).msg], NextRef(ref).seg - 1)
        /\ sent' = sent /\ Messages' = Messages
    BY <1>9, <1>11
  <2> QED
    BY <1>8, <2>4, <2>5, <2>6 DEF PackedInv
<1>12. CASE data = <<>>
  <2>1. c = 1 /\ ref.seg = 1
    <3>1. SegmentCount(Len(data)) = 1
      BY <1>3, <1>12, EmptyIsRefused
    <3>2. c = 1
      BY <3>1 DEF c
    <3> QED
      BY <1>2, <1>4, <3>2
  <2>2. ~Decodes(Segment(ref))
    BY <1>3, <1>12, <2>1, EmptyIsRefused
  <2>3. NextRef(ref) = [msg |-> ref.msg + 1, seg |-> 1]
    BY <1>3, <2>1 DEF NextRef, IsLast
  <2>4. buffer' = NewMessage /\ UNCHANGED completed
    BY <1>1, <1>6, <2>1, <2>2 DEF Partial
  <2>5. NextRef(ref).msg = ref.msg + 1 /\ NextRef(ref).seg - 1 = 0
    BY <2>3
  <2>6. Partial(sent[NextRef(ref).msg], NextRef(ref).seg - 1) = NewMessage
    BY <2>5 DEF Partial
  <2> QED
    BY <1>11, <1>12, <2>4, <2>5, <2>6
<1>13. CASE data # <<>>
  <2>1. Decodes(Segment(ref))
    BY <1>2, <1>3, <1>4, <1>13, SegmentFacts DEF Segment, c
  <2>2. result = IF ref.seg = c
                 THEN [message |-> NewMessage, packet |-> <<data>>]
                 ELSE [message |-> Partial(data, ref.seg), packet |-> <<>>]
    BY <1>3, <1>4, <1>6, <1>13, Reassembly DEF result, c
  <2>3. CASE ref.seg # c
    <3>1. buffer' = Partial(data, ref.seg) /\ UNCHANGED completed
      BY <1>1, <2>1, <2>2, <2>3
    <3>2. NextRef(ref) = [msg |-> ref.msg, seg |-> ref.seg + 1]
      BY <1>3, <2>3 DEF NextRef, IsLast
    <3>3. NextRef(ref).msg = ref.msg /\ NextRef(ref).seg - 1 = ref.seg
      BY <1>2, <3>2
    <3> QED
      BY <1>11, <3>1, <3>3
  <2>4. CASE ref.seg = c
    <3>1. buffer' = NewMessage /\ completed' = <<data>>
      BY <1>1, <2>1, <2>2, <2>4
    <3>2. NextRef(ref) = [msg |-> ref.msg + 1, seg |-> 1]
      BY <1>3, <2>4 DEF NextRef, IsLast
    <3>3. NextRef(ref).msg = ref.msg + 1 /\ NextRef(ref).seg - 1 = 0
      BY <3>2
    <3>4. Partial(sent[NextRef(ref).msg], NextRef(ref).seg - 1) = NewMessage
      BY <3>3 DEF Partial
    <3>5. /\ Len(Packed') = p + 1 /\ Packed'[p + 1] = data
          /\ \A j \in 1..p : Packed'[j] = Packed[j]
      <4>1. packets \in Seq(Seq(Bytes)) /\ <<data>> \in Seq(Seq(Bytes)) /\ Len(<<data>>) = 1
            /\ <<data>>[1] = data
        BY <1>3 DEF RecvTypeOK
      <4>2. /\ Len(packets \o <<data>>) = p + 1 /\ (packets \o <<data>>)[p + 1] = data
            /\ \A j \in 1..p : (packets \o <<data>>)[j] = packets[j]
        BY <4>1, ConcatOne
      <4> QED
        BY <1>1, <1>7, <3>1, <4>2 DEF Packed
    <3>6. Tag(p + 1)' = ref.msg /\ \A j \in 1..p : Tag(j)' = Tag(j)
      <4>1. 1 \in 1..Len(data)
        BY <1>3, <1>13, EmptySeq
      <4>2. data[1] = <<ref.msg, 1>>
        BY <1>2, <4>1 DEF SentInv
      <4> QED
        BY <3>5, <4>2 DEF Tag
    <3>7. ASSUME NEW j \in 1..(p + 1)
          PROVE  /\ Packed'[j] # <<>>
                 /\ Tag(j)' \in Messages /\ Tag(j)' < ref.msg + 1
                 /\ Packed'[j] = sent[Tag(j)']
      <4>1. CASE j = p + 1
        <5>1. Packed'[j] = data /\ Tag(j)' = ref.msg
          BY <3>5, <3>6, <4>1
        <5> QED
          BY <1>2, <1>13, <5>1
      <4>2. CASE j # p + 1
        <5>1. j \in 1..p
          BY <1>7, <4>2
        <5>2. Packed'[j] = Packed[j] /\ Tag(j)' = Tag(j) /\ Tag(j) \in Nat
          BY <1>10, <3>5, <3>6, <5>1 DEF Messages
        <5> QED
          BY <1>2, <1>10, <5>1, <5>2
      <4> QED
        BY <4>1, <4>2
    <3>8. ASSUME NEW i \in 1..(p + 1), NEW j \in 1..(p + 1), i < j PROVE Tag(i)' < Tag(j)'
      <4>1. i \in 1..p
        BY <1>7, <3>8
      <4>2. CASE j = p + 1
        <5>1. Tag(j)' = ref.msg /\ Tag(i)' = Tag(i) /\ Tag(i) < ref.msg
          BY <1>10, <3>6, <4>1, <4>2
        <5> QED
          BY <5>1
      <4>3. CASE j # p + 1
        <5>1. j \in 1..p
          BY <4>3
        <5>2. Tag(j)' = Tag(j) /\ Tag(i)' = Tag(i) /\ Tag(i) < Tag(j)
          BY <1>10, <3>6, <3>8, <4>1, <5>1
        <5> QED
          BY <5>2
      <4> QED
        BY <4>2, <4>3
    <3>9. ASSUME NEW m \in Messages, m < ref.msg + 1, sent[m] # <<>>
          PROVE  \E j \in 1..(p + 1) : Tag(j)' = m
      <4>1. CASE m = ref.msg
        BY <1>7, <3>6, <4>1
      <4>2. CASE m # ref.msg
        <5>1. m < ref.msg
          BY <1>2, <3>9, <4>2 DEF Messages
        <5>2. PICK j \in 1..p : Tag(j) = m
          BY <1>10, <3>9, <5>1
        <5>3. j \in 1..(p + 1) /\ Tag(j)' = m
          BY <1>7, <3>6, <5>2
        <5> QED
          BY <5>3
      <4> QED
        BY <4>1, <4>2
    <3> QED
      BY <1>8, <1>9, <3>1, <3>3, <3>4, <3>5, <3>7, <3>8, <3>9 DEF PackedInv
  <2> QED
    BY <2>3, <2>4
<1> QED
  BY <1>12, <1>13

(* What the handler held becomes the last packet of the queue. *)
LEMMA EnqueueKeeps ==
  ASSUME RecvTypeOK, Enqueue
  PROVE  Packed' = Packed
<1>1. packets' = packets \o completed /\ completed' = <<>>
  BY DEF Enqueue
<1>2. Packed \in Seq(Seq(Bytes))
  BY PackedFacts
<1>3. Packed \o <<>> = Packed
  BY <1>2
<1> QED
  BY <1>1, <1>3 DEF Packed

LEMMA PackedStep ==
  ASSUME IoInv, SentInv, LinkInv, PackedInv, [IoNext]_ioVars
  PROVE  PackedInv'
<1> USE WriterFacts
<1>1. CASE OnMessage
  BY <1>1, PackedOnMessage
<1>2. \A k \in 0..Len(wired) : After(k)' = After(k)
  BY LinkStep
<1>3. handled' = handled => After(handled)' = After(handled)
  BY <1>2
<1>4. (\A m \in Messages : sent'[m] = sent[m]) /\ Messages \subseteq Messages'
  <2>1. CASE SendBegins
    <3>1. sent' = Append(sent, Payload(Len(sent) + 1, pending))
      BY <2>1 DEF SendBegins, BeginSend
    <3> QED
      BY <3>1 DEF SendTypeOK, Messages
  <2>2. CASE SendProceeds \/ SendErr \/ DropStream \/ WriteStarts \/ UNCHANGED sendVars
    <3>1. sent' = sent
      BY <2>2 DEF SendProceeds, SendSegment, SendErr, SendFails, DropStream, CancelSend, GiveUp,
                  WriteStarts, StartsSend, vars, sendVars
    <3> QED
      BY <3>1 DEF Messages
  <2> QED
    BY <2>1, <2>2, IoCases
<1>5. CASE UNCHANGED <<handled, buffer, completed, packets>>
  <2>1. Packed' = Packed
    BY <1>5 DEF Packed
  <2> QED
    BY <1>3, <1>4, <1>5, <2>1, PackedStable
<1>6. CASE Enqueue
  <2>1. UNCHANGED <<handled, buffer>>
    BY <1>6 DEF Enqueue
  <2> QED
    BY <1>3, <1>4, <1>6, <2>1, PackedStable, EnqueueKeeps
<1>7. CASE ReadReceives \/ ReadReturns
  <2>1. UNCHANGED <<handled, buffer, completed, packets>>
    BY <1>7 DEF ReadReceives, RecvPacket, ReadReturns, vars, recvVars
  <2> QED
    BY <1>5, <2>1
<1> QED
  BY <1>1, <1>5, <1>6, <1>7, IoCases

LEMMA PlacedStable ==
  ASSUME NEW m \in Messages, Placed(m), SendTypeOK,
         Kept \in Nat, Kept' \in Nat, Kept <= Kept', sent'[m] = sent[m],
         \A k \in 1..Kept : written'[k] = written[k]
  PROVE  Placed(m)'
<1>1. Len(sent[m]) \in Nat
  BY SegmentFacts
<1>2. PICK at \in 0..Kept : /\ at + Len(sent[m]) <= Kept
                            /\ \A i \in 1..Len(sent[m]) : written[at + i] = <<m, i>>
  BY DEF Placed
<1>3. \A i \in 1..Len(sent[m]) : at + i \in 1..Kept
  BY <1>1, <1>2
<1>4. at \in 0..Kept' /\ at + Len(sent[m]) <= Kept'
  BY <1>1, <1>2
<1> QED
  BY <1>2, <1>3, <1>4 DEF Placed

LEMMA PlacedOther ==
  ASSUME IoInv, PlacedInv, UNCHANGED <<written, futureVars, sendVars>>
  PROVE  PlacedInv' /\ Kept' = Kept
<1>1. UNCHANGED <<written, future, pending, sent, outcome, sender>>
  BY DEF futureVars, sendVars
<1>2. Kept' = Kept /\ PendingMsg' = PendingMsg /\ Messages' = Messages
  BY <1>1 DEF Kept, PendingMsg, Messages
<1>3. SortedInv' /\ KeptInv' /\ PendingInv'
  <2>1. SortedInv'
    BY <1>1 DEF PlacedInv, SortedInv, Earlier
  <2>2. KeptInv'
    BY <1>1, <1>2 DEF PlacedInv, KeptInv
  <2>3. PendingInv'
    BY <1>1, <1>2 DEF PlacedInv, PendingInv
  <2> QED
    BY <2>1, <2>2, <2>3
<1>4. \A m \in Messages' : outcome'[m] = "ok" => Placed(m)'
  <2> SUFFICES ASSUME NEW m \in Messages, outcome[m] = "ok" PROVE Placed(m)'
    BY <1>1, <1>2
  <2>1. Placed(m)
    BY DEF PlacedInv
  <2> QED
    BY <1>1, <1>2, <2>1, PlacedStable, WriterFacts, WrittenFacts
<1> QED
  BY <1>2, <1>3, <1>4 DEF PlacedInv

\* The bytes that are kept belong to messages that are through.
LEMMA KeptFacts ==
  ASSUME IoInv, PlacedInv, NEW k \in 1..Kept
  PROVE  /\ k \in 1..Len(written) /\ written[k] \in Bytes
         /\ written[k][1] \in Messages /\ outcome[written[k][1]] = "ok"
         /\ written[k][1] \in Nat /\ written[k][1] <= Len(sent)
         /\ written[k][2] \in Nat \ {0} /\ written[k][2] <= Len(sent[written[k][1]])
<1>1. k \in 1..Len(written)
  BY WrittenFacts
<1>2. written[k] \in Bytes
  BY <1>1, WrittenFacts
<1>3. written[k][1] \in Messages /\ outcome[written[k][1]] = "ok"
  BY DEF IoInv, WrittenInv
<1>4. written[k][2] \in 1..Len(sent[written[k][1]]) /\ Len(sent) \in Nat
  BY WriterFacts DEF PlacedInv, KeptInv
<1> QED
  BY <1>1, <1>2, <1>3, <1>4 DEF Messages

(* poll_write: the bytes of a later message follow. *)
LEMMA PlacedStarts ==
  ASSUME IoInv, PlacedInv, WriteStarts
  PROVE  /\ PlacedInv' /\ Kept' = Kept /\ Kept = Len(written)
         /\ Len(written') = Kept + buf /\ buf \in Nat
         /\ \A k \in 1..Kept : written'[k] = written[k]
         /\ \A k \in 1..Len(written') : k \notin 1..Kept => written'[k][1] = Len(sent) + 1
<1> USE WrittenFacts
<1> DEFINE m    == Len(sent) + 1
           more == Payload(m, buf)
<1>1. /\ future = "none" /\ future' = "new" /\ pending' = buf /\ written' = written \o more
      /\ UNCHANGED sendVars /\ op = "write"
      /\ UNCHANGED <<sent, outcome, sender>>
  BY DEF WriteStarts, StartsSend, vars, sendVars
<1>2. buf \in Nat /\ m \in 1..MaxMessages /\ pending = 0
  BY <1>1, OneTask DEF IoInv, PollInv
<1>3. more \in Seq(Bytes) /\ Len(more) = buf /\ \A i \in 1..buf : more[i] = <<m, i>>
  BY <1>2 DEF Payload, Bytes
<1> HIDE DEF more
<1>4. /\ Len(written') = Len(written) + buf
      /\ \A k \in 1..Len(written) : written'[k] = written[k]
      /\ \A i \in 1..buf : written'[Len(written) + i] = more[i]
  <2>1. /\ Len(written \o more) = Len(written) + Len(more)
        /\ \A k \in 1..Len(written) + Len(more) :
             (written \o more)[k] = IF k <= Len(written) THEN written[k] ELSE more[k - Len(written)]
    BY <1>3, ConcatProperties
  <2>2. \A i \in 1..buf : /\ Len(written) + i \in 1..Len(written) + buf
                          /\ ~(Len(written) + i <= Len(written))
                          /\ Len(written) + i - Len(written) = i
    BY <1>2
  <2> QED
    BY <1>1, <1>2, <1>3, <2>1, <2>2
<1>5. Kept = Len(written) /\ Kept' = Kept
  BY <1>1, <1>2, <1>4 DEF Kept
<1>6. \A i \in 1..buf : written'[Kept + i] = <<m, i>>
  BY <1>3, <1>4, <1>5
<1>7. Len(written') = Kept + buf /\ \A k \in 1..Kept : written'[k] = written[k]
  BY <1>4, <1>5
<1>8. ASSUME NEW k \in 1..(Kept + buf), k \notin 1..Kept
      PROVE  k - Kept \in 1..buf /\ written'[k] = <<m, k - Kept>>
  <2>1. k - Kept \in 1..buf /\ Kept + (k - Kept) = k
    BY <1>2, <1>8
  <2> QED
    BY <1>6, <2>1
<1>9. ASSUME NEW j \in 1..(Kept + buf), NEW k \in 1..(Kept + buf), j < k
      PROVE  Earlier(written'[j], written'[k])
  <2>1. CASE k \in 1..Kept
    <3>1. j \in 1..Kept
      BY <1>9, <2>1
    <3> QED
      BY <1>5, <1>7, <1>9, <2>1, <3>1 DEF PlacedInv, SortedInv
  <2>2. CASE k \notin 1..Kept /\ j \in 1..Kept
    <3>1. written'[k][1] = m
      BY <1>8, <2>2
    <3>2. written'[j][1] \in Nat /\ written'[j][1] <= Len(sent)
      BY <1>7, <2>2, KeptFacts
    <3> QED
      BY <3>1, <3>2 DEF Earlier
  <2>3. CASE k \notin 1..Kept /\ j \notin 1..Kept
    <3>1. written'[k] = <<m, k - Kept>> /\ written'[j] = <<m, j - Kept>>
      BY <1>8, <2>3
    <3>2. j - Kept < k - Kept
      BY <1>2, <1>9
    <3> QED
      BY <3>1, <3>2 DEF Earlier
  <2> QED
    BY <2>1, <2>2, <2>3
<1>10. SortedInv'
  BY <1>7, <1>9 DEF SortedInv, Earlier
<1>11. KeptInv'
  BY <1>1, <1>5, <1>7 DEF PlacedInv, KeptInv
<1>12. \A l \in Messages' : outcome'[l] = "ok" => Placed(l)'
  <2>1. Messages' = Messages
    BY <1>1 DEF Messages
  <2> QED
    BY <1>1, <1>5, <1>7, <2>1, PlacedStable, WriterFacts DEF PlacedInv
<1>13. PendingInv'
  <2>1. PendingMsg' = m
    BY <1>1 DEF PendingMsg
  <2> HIDE DEF m
  <2> QED
    BY <1>1, <1>5, <1>6, <2>1 DEF PendingInv
<1>14. \A k \in 1..Len(written') : k \notin 1..Kept => written'[k][1] = m
  BY <1>7, <1>8
<1> QED
  BY <1>2, <1>5, <1>7, <1>10, <1>11, <1>12, <1>13, <1>14 DEF PlacedInv

(* Its send begins: the bytes get the number they were written with. *)
LEMMA PlacedBegins ==
  ASSUME IoInv, PlacedInv, SendBegins
  PROVE  PlacedInv' /\ Kept' = Kept /\ written' = written
<1> USE WriterFacts, WrittenFacts
<1> DEFINE m == Len(sent) + 1
<1>1. /\ future = "new" /\ future' = "begun" /\ UNCHANGED <<pending, written>>
      /\ sent' = Append(sent, Payload(m, pending)) /\ outcome' = Append(outcome, "sending")
      /\ sender' = [sender EXCEPT ![Writer] = [msg |-> m, seg |-> 1]]
  BY DEF SendBegins, BeginSend
<1>2. /\ Len(sent') = m /\ sent'[m] = Payload(m, pending)
      /\ outcome'[m] = "sending"
      /\ \A k \in Messages : sent'[k] = sent[k] /\ outcome'[k] = outcome[k]
  <2>1. /\ sent \in Seq(Payloads) /\ Len(sent) \in Nat
        /\ outcome \in Seq({"sending", "ok", "failed"}) /\ Len(outcome) = Len(sent)
    BY DEF IoInv, TypeOK, SendTypeOK
  <2>2. /\ Len(sent') = m /\ sent'[m] = Payload(m, pending)
        /\ \A k \in Messages : sent'[k] = sent[k]
    BY <1>1, <2>1 DEF Messages
  <2>3. outcome'[m] = "sending" /\ \A k \in Messages : outcome'[k] = outcome[k]
    BY <1>1, <2>1 DEF Messages
  <2> QED
    BY <2>2, <2>3
<1>3. sender'[Writer].msg = m
  BY <1>1
<1>4. Kept' = Kept /\ PendingMsg' = PendingMsg /\ PendingMsg = m
  BY <1>1, <1>3 DEF Kept, PendingMsg
<1>5. Len(sent'[m]) = pending
  BY <1>2 DEF Payload
<1>6. KeptInv'
  <2> SUFFICES ASSUME NEW k \in 1..Kept PROVE written[k][2] \in 1..Len(sent'[written[k][1]])
    BY <1>1, <1>4 DEF KeptInv
  <2>1. written[k][1] \in Messages
    BY KeptFacts
  <2> QED
    BY <1>2, <2>1 DEF PlacedInv, KeptInv
<1>7. \A k \in Messages' : outcome'[k] = "ok" => k \in Messages /\ outcome[k] = "ok"
  BY <1>2 DEF Messages
<1>8. \A l \in Messages' : outcome'[l] = "ok" => Placed(l)'
  <2> SUFFICES ASSUME NEW l \in Messages', outcome'[l] = "ok" PROVE Placed(l)'
    OBVIOUS
  <2>1. l \in Messages /\ Placed(l) /\ sent'[l] = sent[l]
    BY <1>2, <1>7 DEF PlacedInv
  <2>2. Kept' \in Nat /\ Kept <= Kept' /\ \A k \in 1..Kept : written'[k] = written[k]
    BY <1>1, <1>4
  <2> QED
    BY <2>1, <2>2, PlacedStable
<1>9. PendingInv'
  BY <1>1, <1>3, <1>4, <1>5 DEF PlacedInv, PendingInv
<1>10. SortedInv'
  BY <1>1 DEF PlacedInv, SortedInv, Earlier
<1> QED
  BY <1>1, <1>4, <1>6, <1>8, <1>9, <1>10 DEF PlacedInv

(* With its last segment the send is through, and nothing is pending. *)
LEMMA PlacedProceeds ==
  ASSUME IoInv, PlacedInv, SendProceeds
  PROVE  PlacedInv' /\ Kept' \in Nat /\ Kept <= Kept' /\ written' = written
<1> USE WriterFacts, WrittenFacts
<1> DEFINE ref == sender[Writer]
<1>1. /\ future = "begun" /\ ref # Idle /\ UNCHANGED <<written, sent>>
      /\ sender' = [sender EXCEPT ![Writer] =
                      IF IsLast(ref) THEN Idle ELSE [ref EXCEPT !.seg = @ + 1]]
      /\ outcome' = IF IsLast(ref) THEN [outcome EXCEPT ![ref.msg] = "ok"] ELSE outcome
      /\ IF sender'[Writer] = Idle THEN future' = "none" /\ pending' = 0 ELSE UNCHANGED futureVars
  BY DEF SendProceeds, SendSegment, IsLast
<1>2. /\ ref.msg \in Messages /\ ref.seg \in Nat \ {0} /\ ref.msg # 0 /\ Messages' = Messages
      /\ ref \in [msg : Messages, seg : Nat \ {0}]
  BY <1>1 DEF Messages
<1>3. SortedInv'
  BY <1>1 DEF PlacedInv, SortedInv, Earlier
<1>4. /\ \A i \in 1..pending : written[Kept + i] = <<ref.msg, i>>
      /\ Len(sent[ref.msg]) = pending
  <2>1. PendingMsg = ref.msg
    BY <1>1 DEF PendingMsg
  <2> QED
    BY <1>1, <2>1 DEF PlacedInv, PendingInv
<1> HIDE DEF ref
<1>5. CASE IsLast(ref)
  <2>1. sender'[Writer] = Idle /\ outcome' = [outcome EXCEPT ![ref.msg] = "ok"]
    BY <1>1, <1>5
  <2>2. future' = "none" /\ pending' = 0 /\ Kept' = Kept + pending
    BY <1>1, <2>1 DEF Kept
  <2>3. KeptInv'
    <3> SUFFICES ASSUME NEW k \in 1..(Kept + pending) PROVE written[k][2] \in 1..Len(sent[written[k][1]])
      BY <1>1, <2>2 DEF KeptInv
    <3>1. CASE k \in 1..Kept
      BY <3>1 DEF PlacedInv, KeptInv
    <3>2. CASE k \notin 1..Kept
      <4>1. k - Kept \in 1..pending /\ Kept + (k - Kept) = k
        BY <3>2
      <4>2. written[k] = <<ref.msg, k - Kept>>
        BY <1>4, <4>1
      <4> QED
        BY <1>4, <4>1, <4>2
    <3> QED
      BY <3>1, <3>2
  <2>4. ASSUME NEW m \in Messages, outcome'[m] = "ok" PROVE Placed(m)'
    <3>1. CASE m = ref.msg
      <4>1. Kept \in 0..(Kept + pending) /\ Kept + Len(sent'[m]) <= Kept + pending
            /\ \A i \in 1..Len(sent'[m]) : written'[Kept + i] = <<m, i>>
        BY <1>1, <1>4, <3>1
      <4> QED
        BY <2>2, <4>1 DEF Placed
    <3>2. CASE m # ref.msg
      <4>1. outcome[m] = "ok"
        BY <2>1, <2>4, <3>2 DEF Messages
      <4> QED
        BY <1>1, <2>2, <4>1, PlacedStable DEF PlacedInv
    <3> QED
      BY <3>1, <3>2
  <2>5. PendingInv'
    BY <2>2 DEF PendingInv
  <2> QED
    BY <1>1, <1>2, <1>3, <2>2, <2>3, <2>4, <2>5 DEF PlacedInv
<1>6. CASE ~IsLast(ref)
  <2>1. sender'[Writer] = [ref EXCEPT !.seg = @ + 1] /\ outcome' = outcome
    BY <1>1, <1>6
  <2>2. sender'[Writer].msg = ref.msg
    BY <1>2, <2>1
  <2>3. sender'[Writer] # Idle
    BY <1>2, <2>2 DEF Idle
  <2>4. UNCHANGED <<future, pending, outcome>> /\ Kept' = Kept
    BY <1>1, <2>1, <2>3 DEF futureVars, Kept
  <2>5. PendingMsg' = ref.msg
    BY <1>1, <2>2, <2>4 DEF PendingMsg
  <2>6. PendingInv'
    BY <1>1, <1>4, <2>2, <2>4, <2>5 DEF PendingInv
  <2>7. KeptInv'
    BY <1>1, <2>4 DEF PlacedInv, KeptInv
  <2>8. \A m \in Messages : outcome'[m] = "ok" => Placed(m)'
    BY <1>1, <2>4, PlacedStable DEF PlacedInv
  <2> QED
    BY <1>1, <1>2, <1>3, <2>4, <2>6, <2>7, <2>8 DEF PlacedInv
<1> QED
  BY <1>5, <1>6

(* An error, or the drop of the stream, takes the pending bytes back. *)
LEMMA PlacedEnds ==
  ASSUME IoInv, PlacedInv, SendErr \/ DropStream
  PROVE  PlacedInv' /\ Kept' = Kept /\ written' = SubSeq(written, 1, Kept)
         /\ Len(written') = Kept /\ \A k \in 1..Kept : written'[k] = written[k]
<1> USE WriterFacts, WrittenFacts
<1>1. /\ future' = "none" /\ pending' = 0 /\ written' = SubSeq(written, 1, Kept)
      /\ sent' = sent
  BY DEF SendErr, DropStream, ForgetsSend, SendFails, CancelSend, GiveUp, vars, sendVars, Kept
<1>2. Len(written') = Kept /\ \A k \in 1..Kept : written'[k] = written[k]
  BY <1>1
<1>3. Kept' = Kept /\ Messages' = Messages
  BY <1>1, <1>2 DEF Kept, Messages
<1>4. SortedInv'
  BY <1>2 DEF PlacedInv, SortedInv, Earlier
<1>5. KeptInv'
  BY <1>1, <1>2, <1>3 DEF PlacedInv, KeptInv
<1>6. ASSUME NEW m \in Messages, outcome'[m] = "ok" PROVE outcome[m] = "ok"
  <2>1. CASE UNCHANGED vars
    BY <1>6, <2>1 DEF vars, sendVars
  <2>2. CASE GiveUp(Writer)
    BY <1>6, <2>2 DEF GiveUp, Messages
  <2> QED
    BY <2>1, <2>2 DEF SendErr, DropStream, SendFails, CancelSend
<1>7. \A m \in Messages : outcome'[m] = "ok" => Placed(m)'
  BY <1>1, <1>2, <1>3, <1>6, PlacedStable DEF PlacedInv
<1>8. PendingInv'
  BY <1>1 DEF PendingInv
<1> QED
  BY <1>1, <1>2, <1>3, <1>4, <1>5, <1>7, <1>8 DEF PlacedInv

LEMMA PlacedStep ==
  ASSUME IoInv, PlacedInv, [IoNext]_ioVars
  PROVE  PlacedInv'
BY IoCases, PlacedStarts, PlacedBegins, PlacedProceeds, PlacedEnds, PlacedOther

LEMMA TakenFacts ==
  ASSUME IoInv, PackedInv
  PROVE  /\ taken \in Nat /\ taken <= Len(packets) /\ LastTaken \in Nat /\ LastTaken <= Len(sent)
         /\ taken # 0 => /\ taken \in 1..Len(Packed) /\ LastTaken = Tag(taken)
<1> USE WriterFacts
<1>1. /\ taken \in 0..Len(packets) /\ Len(packets) \in Nat /\ Len(Packed) \in Nat
      /\ Len(packets) <= Len(Packed)
  BY PackedFacts DEF RecvTypeOK
<1>2. CASE taken = 0
  BY <1>1, <1>2 DEF LastTaken
<1>3. CASE taken # 0
  <2>1. taken \in 1..Len(Packed) /\ LastTaken = Tag(taken)
    BY <1>1, <1>3 DEF LastTaken
  <2>2. LastTaken \in Messages
    BY <2>1 DEF PackedInv
  <2> QED
    BY <1>1, <2>1, <2>2 DEF Messages
<1> QED
  BY <1>2, <1>3

LEMMA TakenStable ==
  ASSUME RecvTypeOK, RecvTypeOK', taken' = taken, packets' = packets \/ Packed' = Packed
  PROVE  LastTaken' = LastTaken
<1>1. CASE Packed' = Packed
  BY <1>1 DEF LastTaken, Tag
<1>2. CASE packets' = packets
  <2>1. taken = 0 \/ taken \in 1..Len(packets)
    BY DEF RecvTypeOK
  <2>2. \A j \in 1..Len(packets) : Packed[j] = packets[j]
    BY PackedFacts
  <2>3. \A j \in 1..Len(packets) : Packed'[j] = packets[j]
    <3>1. packets \in Seq(Seq(Bytes)) /\ completed' \in Seq(Seq(Bytes))
      BY <1>2 DEF RecvTypeOK, Bytes
    <3>2. \A j \in 1..Len(packets) : (packets \o completed')[j] = packets[j]
      BY <3>1, ConcatProperties
    <3> QED
      BY <1>2, <3>2 DEF Packed
  <2> QED
    BY <2>1, <2>2, <2>3 DEF LastTaken, Tag
<1> QED
  BY <1>1, <1>2

LEMMA GotFacts ==
  ASSUME IoInv
  PROVE  /\ read \in Seq(Bytes) /\ chunk \in Seq(Bytes) /\ Len(read) \in Nat
         /\ Got \in Seq(Bytes) /\ Len(Got) \in Nat /\ Len(Got) = Len(read) + Len(chunk)
         /\ \A k \in 1..Len(read) : Got[k] = read[k]
<1>1. read \in Seq(Bytes) /\ chunk \in Seq(Bytes)
  BY DEF IoInv, ReadTypeOK
<1>2. /\ read \o chunk \in Seq(Bytes) /\ Len(read \o chunk) = Len(read) + Len(chunk)
      /\ \A k \in 1..Len(read) : (read \o chunk)[k] = read[k]
  BY <1>1, ConcatProperties
<1>3. Len(read) \in Nat /\ Len(chunk) \in Nat
  BY <1>1
<1> QED
  BY <1>1, <1>2, <1>3 DEF Got

\* The writing half goes on.
LEMMA GotWriting ==
  ASSUME IoInv, PackedInv, PlacedInv, GotInv,
         SendBegins \/ SendProceeds \/ SendErr \/ DropStream \/ WriteStarts,
         UNCHANGED <<completed, packets, taken, chunk, read>>
  PROVE  GotInv'
<1> USE WrittenFacts, WriterFacts, TakenFacts, GotFacts
<1>1. Got' = Got /\ LastTaken' = LastTaken
  BY DEF Got, LastTaken, Tag, Packed
<1>2. CASE SendBegins \/ SendProceeds
  <2>1. written' = written /\ Kept' \in Nat /\ Kept <= Kept'
    BY <1>2, PlacedBegins, PlacedProceeds
  <2> QED
    BY <1>1, <2>1 DEF GotInv
<1>3. CASE SendErr \/ DropStream
  <2>1. Kept' = Kept /\ Len(written') = Kept /\ \A k \in 1..Kept : written'[k] = written[k]
    BY <1>3, PlacedEnds
  <2>2. \A k \in 1..Kept : k \in 1..Len(written)
    OBVIOUS
  <2>3. \A k \in 1..Len(Got) : k \in 1..Kept
    BY DEF GotInv
  <2> QED
    BY <1>1, <2>1, <2>2, <2>3 DEF GotInv
<1>4. CASE WriteStarts
  <2>1. /\ Kept' = Kept /\ Kept = Len(written)
        /\ \A k \in 1..Kept : written'[k] = written[k]
        /\ \A k \in 1..Len(written') : k \notin 1..Kept => written'[k][1] = Len(sent) + 1
    BY <1>4, PlacedStarts
  <2>2. \A k \in 1..Len(Got) : k \in 1..Kept
    BY DEF GotInv
  <2>3. ASSUME NEW k \in 1..Len(written') PROVE k <= Len(Got) <=> written'[k][1] <= LastTaken
    <3>1. CASE k \in 1..Kept
      BY <2>1, <3>1 DEF GotInv
    <3>2. CASE k \notin 1..Kept
      <4>1. written'[k][1] = Len(sent) + 1 /\ ~(k <= Len(Got))
        BY <2>1, <2>2, <3>2
      <4> QED
        BY <4>1
    <3> QED
      BY <3>1, <3>2
  <2> QED
    BY <1>1, <2>1, <2>2, <2>3 DEF GotInv
<1> QED
  BY <1>2, <1>3, <1>4

(* poll_read gives out a part of the chunk and keeps the rest. *)
LEMMA GotReturns ==
  ASSUME IoInv, ReadReturns
  PROVE  Got' = Got /\ \E n \in 1..Len(chunk) : read' = read \o SubSeq(chunk, 1, n)
<1>1. PICK n \in 1..Len(chunk) : /\ read' = read \o SubSeq(chunk, 1, n)
                                 /\ chunk' = SubSeq(chunk, n + 1, Len(chunk))
  BY DEF ReadReturns
<1>2. read \in Seq(Bytes) /\ chunk \in Seq(Bytes)
  BY GotFacts
<1> DEFINE a == SubSeq(chunk, 1, n)
           b == SubSeq(chunk, n + 1, Len(chunk))
<1>3. a \in Seq(Bytes) /\ b \in Seq(Bytes) /\ a \o b = chunk
  <2>1. Len(chunk) \in Nat /\ n \in Nat /\ 1 <= n /\ n <= Len(chunk)
    BY <1>2
  <2>2. /\ a \in Seq(Bytes) /\ Len(a) = n /\ \A k \in 1..n : a[k] = chunk[k]
    BY <1>2, <2>1, SubSeqProperties
  <2>3. /\ b \in Seq(Bytes) /\ Len(b) = Len(chunk) - n
        /\ \A k \in 1..(Len(chunk) - n) : b[k] = chunk[n + k]
    BY <1>2, <2>1
  <2> HIDE DEF a, b
  <2>4. a \o b \in Seq(Bytes) /\ Len(a \o b) = Len(chunk)
    <3>1. a \o b \in Seq(Bytes) /\ Len(a \o b) = Len(a) + Len(b)
      BY <2>2, <2>3, ConcatProperties
    <3>2. n + (Len(chunk) - n) = Len(chunk)
      BY <2>1
    <3> QED
      BY <2>2, <2>3, <3>1, <3>2
  <2>5. ASSUME NEW k \in 1..Len(chunk) PROVE (a \o b)[k] = chunk[k]
    <3>1. (a \o b)[k] = IF k <= n THEN a[k] ELSE b[k - n]
      BY <2>1, <2>2, <2>3
    <3>2. CASE k <= n
      BY <2>1, <2>2, <3>1, <3>2
    <3>3. CASE ~(k <= n)
      <4>1. k - n \in 1..(Len(chunk) - n) /\ n + (k - n) = k
        BY <2>1, <3>3
      <4> QED
        BY <2>3, <3>1, <3>3, <4>1
    <3> QED
      BY <3>2, <3>3
  <2> QED
    BY <1>2, <2>2, <2>3, <2>4, <2>5, SeqEqual
<1> HIDE DEF a, b
<1>4. (read \o a) \o b = read \o (a \o b)
  <2>1. ASSUME NEW s \in Seq(Bytes), NEW t \in Seq(Bytes), NEW u \in Seq(Bytes)
        PROVE  (s \o t) \o u = s \o (t \o u)
    BY ConcatAssociative, SMTT(60)
  <2>2. a \in Seq(Bytes) /\ b \in Seq(Bytes)
    BY <1>3
  <2> QED
    BY <1>2, <2>1, <2>2
<1> QED
  BY <1>1, <1>3, <1>4 DEF Got, a, b

LEMMA GotOther ==
  ASSUME IoInv, GotInv, UNCHANGED <<sendVars, futureVars, written>>, Got' = Got,
         LastTaken' = LastTaken
  PROVE  GotInv'
<1>1. Kept' = Kept
  BY DEF Kept, futureVars
<1> QED
  BY <1>1 DEF GotInv

(* A message is through before the handler is called with the next one. *)
LEMMA HandledIsOk ==
  ASSUME IoInv, LinkInv, NEW m \in Messages, m < After(handled).msg
  PROVE  outcome[m] = "ok"
<1> USE WriterFacts
<1> PICK n \in Nat : n = Len(wired)
  OBVIOUS
<1>1. After(handled).msg \in Nat /\ After(n).msg \in Nat /\ m \in Nat
  BY AfterFacts DEF Messages
<1>2. After(handled).msg <= After(n).msg
  <2>1. CASE handled = n
    BY <1>1, <2>1
  <2>2. CASE handled # n
    <3>1. handled + 1 \in 1..n /\ n # 0 /\ n \in 1..n
      BY <2>2
    <3>2. wired[handled + 1] = After(handled)
      BY <3>1 DEF LinkInv, WireInv
    <3>3. wired[n] \in Refs /\ After(n) = NextRef(wired[n])
      BY <3>1 DEF SendTypeOK, After
    <3>4. wired[n].msg \in Nat /\ wired[n].msg <= NextRef(wired[n]).msg
      BY <3>3 DEF Refs, NextRef, Messages
    <3>5. handled + 1 = n \/ Before(wired[handled + 1], wired[n])
      BY <3>1 DEF LinkInv, WireInv
    <3>6. After(handled).msg <= wired[n].msg
      BY <1>1, <3>2, <3>4, <3>5 DEF Before
    <3> QED
      BY <1>1, <3>3, <3>4, <3>6
  <2> QED
    BY <2>1, <2>2
<1>3. m < After(n).msg
  BY <1>1, <1>2
<1> QED
  BY <1>3 DEF LinkInv

(* The payload that recv returns next follows on what has been read: between
   the two lies no byte, since the message of that byte would have come first. *)
LEMMA NextFollows ==
  ASSUME IoInv, SentInv, LinkInv, PackedInv, PlacedInv, GotInv,
         NEW t \in 1..Len(Packed), t = taken + 1
  PROVE  \E m \in Nat \ {0} :
           /\ m = Tag(t) /\ m \in Messages /\ Packed[t] = sent[m] /\ sent[m] # <<>>
           /\ outcome[m] = "ok" /\ LastTaken < m
           /\ Len(Got) + Len(sent[m]) <= Kept
           /\ \A i \in 1..Len(sent[m]) : written[Len(Got) + i] = <<m, i>>
<1>1. PICK m \in Nat \ {0} : /\ m = Tag(t) /\ m \in Messages /\ m < After(handled).msg
                             /\ Packed[t] = sent[m] /\ sent[m] # <<>>
  BY DEF PackedInv, Messages
<1>2. outcome[m] = "ok" /\ Placed(m)
  BY <1>1, HandledIsOk DEF PlacedInv
<1>3. SendTypeOK /\ sent[m] \in Seq(Bytes)
  BY <1>1, WriterFacts, SegmentFacts, PayloadFacts
<1>4. PICK n \in Nat \ {0} : n = Len(sent[m])
  BY <1>1, <1>3, EmptySeq
<1>5. PICK len \in Nat : len = Len(Got)
  BY GotFacts
<1>6. Kept \in Nat /\ Len(written) \in Nat /\ Kept <= Len(written)
  BY WrittenFacts
<1>7. len <= Kept /\ \A k \in 1..Len(written) : k <= len <=> written[k][1] <= LastTaken
  BY <1>5 DEF GotInv
<1>8. /\ LastTaken \in Nat /\ taken \in Nat
      /\ taken # 0 => taken \in 1..Len(Packed) /\ LastTaken = Tag(taken)
  BY TakenFacts
<1>9. LastTaken < m
  <2>1. CASE taken = 0
    BY <1>1, <2>1 DEF LastTaken
  <2>2. CASE taken # 0
    BY <1>1, <1>8, <2>2 DEF PackedInv
  <2> QED
    BY <2>1, <2>2
<1>10. PICK at \in Nat : /\ at + n <= Kept
                         /\ \A i \in 1..n : written[at + i] = <<m, i>>
  <2>1. PICK a \in 0..Kept : /\ a + Len(sent[m]) <= Kept
                             /\ \A i \in 1..Len(sent[m]) : written[a + i] = <<m, i>>
    BY <1>2 DEF Placed
  <2>2. a \in Nat
    OBVIOUS
  <2> QED
    BY <1>4, <2>1, <2>2
<1>11. at + 1 \in 1..Kept /\ at + 1 \in 1..Len(written)
  BY <1>4, <1>6, <1>10
<1>12. written[at + 1][1] = m /\ written[at + 1][2] = 1
  BY <1>4, <1>10
<1>13. ~(at < len)
  <2>1. at < len => m <= LastTaken
    BY <1>5, <1>7, <1>10, <1>11, <1>12
  <2> QED
    BY <1>1, <1>8, <1>9, <2>1
<1>14. ~(len < at)
  <2> SUFFICES ASSUME len < at PROVE FALSE
    OBVIOUS
  <2>1. len + 1 \in 1..Kept /\ len + 1 \in 1..Len(written) /\ len + 1 < at + 1
    BY <1>5, <1>6, <1>10, <1>11
  <2>2. PICK x \in Nat, y \in Nat \ {0} :
           /\ written[len + 1][1] = x /\ written[len + 1][2] = y
           /\ x \in Messages /\ y <= Len(sent[x])
    BY <2>1, KeptFacts
  <2>3. LastTaken < x
    BY <1>5, <1>7, <1>8, <2>1, <2>2
  <2>4. x < m
    <3>1. Earlier(written[len + 1], written[at + 1])
      BY <1>11, <2>1 DEF PlacedInv, SortedInv
    <3>2. x < m \/ (x = m /\ y < 1)
      BY <1>12, <2>2, <3>1 DEF Earlier
    <3> QED
      BY <2>2, <3>2
  <2>5. sent[x] # <<>>
    <3>1. Len(<<>>) = 0
      OBVIOUS
    <3> QED
      BY <2>2, <3>1
  <2>6. x < After(handled).msg
    <3>1. After(handled).msg \in Nat
      BY WriterFacts, AfterFacts
    <3> QED
      BY <1>1, <2>2, <2>4, <3>1
  <2>7. PICK j \in 1..Len(Packed) : Tag(j) = x
    BY <2>2, <2>5, <2>6 DEF PackedInv
  <2>8. ~(t < j) /\ j # t
    <3>1. t < j => m < x
      BY <1>1, <2>7 DEF PackedInv
    <3>2. j = t => m = x
      BY <1>1, <2>7
    <3> QED
      BY <1>1, <2>2, <2>4, <3>1, <3>2
  <2>9. Len(Packed) \in Nat
    BY WriterFacts, PackedFacts
  <2>10. taken # 0 /\ j <= taken
    BY <1>8, <2>8, <2>9
  <2>11. x <= LastTaken
    <3>1. j < taken => x < LastTaken
      BY <1>8, <2>7, <2>10 DEF PackedInv
    <3>2. j = taken => x = LastTaken
      BY <1>8, <2>7, <2>10
    <3> QED
      BY <1>8, <2>2, <2>9, <2>10, <3>1, <3>2
  <2> QED
    BY <1>8, <2>2, <2>3, <2>11
<1>15. at = len
  BY <1>5, <1>10, <1>13, <1>14
<1> QED
  BY <1>1, <1>2, <1>4, <1>5, <1>9, <1>10, <1>15

(* With it the bytes that have been taken are those up to its message. *)
LEMMA TakenUpTo ==
  ASSUME IoInv, PlacedInv, NEW m \in Nat, m \in Messages, outcome[m] = "ok",
         NEW n \in Nat \ {0}, n = Len(sent[m]),
         NEW len \in Nat, len + n <= Kept, NEW k \in 1..Len(written),
         NEW last \in Nat, last < m, k <= len <=> written[k][1] <= last,
         \A i \in 1..n : written[len + i] = <<m, i>>
  PROVE  k <= len + n <=> written[k][1] <= m
<1>1. Kept \in Nat /\ Len(written) \in Nat /\ Kept <= Len(written) /\ k \in Nat
  BY WrittenFacts
<1>2. CASE k <= len
  <2>1. k \in 1..Kept
    BY <1>1, <1>2
  <2>2. written[k][1] \in Nat /\ written[k][1] <= last
    BY <1>2, <2>1, KeptFacts
  <2> QED
    BY <1>1, <1>2, <2>2
<1>3. CASE ~(k <= len) /\ k <= len + n
  <2>1. k - len \in 1..n /\ len + (k - len) = k
    BY <1>1, <1>3
  <2>2. written[k] = <<m, k - len>>
    BY <2>1
  <2> QED
    BY <1>3, <2>2
<1>4. CASE ~(k <= len + n)
  <2>1. len + n \in 1..Len(written) /\ len + n < k
    BY <1>1, <1>4
  <2>2. n \in 1..n
    OBVIOUS
  <2>3. written[len + n] = <<m, n>>
    BY <2>2
  <2>4. Earlier(written[len + n], written[k])
    BY <2>1 DEF PlacedInv, SortedInv
  <2>5. m < written[k][1] \/ (m = written[k][1] /\ n < written[k][2])
    BY <2>3, <2>4 DEF Earlier
  <2>6. written[k][1] \in Nat /\ written[k][1] # m
    <3>1. CASE k \in 1..Kept
      <4>1. written[k][1] \in Nat /\ written[k][2] \in Nat
            /\ written[k][2] <= Len(sent[written[k][1]])
        BY <3>1, KeptFacts
      <4> QED
        BY <2>5, <4>1
    <3>2. CASE k \notin 1..Kept
      <4>1. k \in (Kept + 1)..Len(written) /\ pending # 0
        BY <1>1, <3>2, WrittenFacts
      <4>2. written[k][1] = IF future = "new" THEN Len(sent) + 1 ELSE sender[Writer].msg
        BY <4>1 DEF IoInv, WrittenInv
      <4>3. future \in {"new", "begun"} /\ Len(sent) \in Nat
        BY <4>1, WrittenFacts DEF IoInv, PollInv
      <4>4. future = "begun" => /\ sender[Writer].msg \in Messages
                                /\ outcome[sender[Writer].msg] = "sending"
        BY DEF IoInv, WrittenInv
      <4>5. CASE future = "new"
        BY <4>2, <4>3, <4>5 DEF Messages
      <4>6. CASE future = "begun"
        BY <4>2, <4>4, <4>6 DEF Messages
      <4> QED
        BY <4>3, <4>5, <4>6
    <3> QED
      BY <3>1, <3>2
  <2> QED
    BY <1>4, <2>5, <2>6
<1> QED
  BY <1>2, <1>3, <1>4

\* recv returns it to the stream.
LEMMA GotReceives ==
  ASSUME IoInv, SentInv, LinkInv, PackedInv, PlacedInv, GotInv, ReadReceives
  PROVE  GotInv'
<1>1. taken \in Nat /\ taken + 1 \in 1..Len(packets) /\ RecvTypeOK
  <2>1. Len(packets) - taken > 0
    BY DEF ReadReceives, RecvPacket, Queued
  <2>2. RecvTypeOK
    BY WriterFacts
  <2>3. taken \in 0..Len(packets) /\ Len(packets) \in Nat
    BY <2>2 DEF RecvTypeOK
  <2> QED
    BY <2>1, <2>2, <2>3
<1>2. /\ chunk = <<>> /\ taken' = taken + 1 /\ chunk' = packets[taken + 1] /\ read' = read
      /\ UNCHANGED <<packets, completed, sent, outcome, sender, futureVars, written>>
  BY DEF ReadReceives, PollsRecv, RecvPacket, sendVars, writeVars
<1>3. PICK t \in 1..Len(Packed) : t = taken + 1 /\ Packed[t] = packets[t]
  BY <1>1, PackedFacts
<1>4. Packed' = Packed
  BY <1>2 DEF Packed
<1>5. PICK m \in Nat \ {0} :
           /\ m = Tag(t) /\ m \in Messages /\ Packed[t] = sent[m] /\ sent[m] # <<>>
           /\ outcome[m] = "ok" /\ LastTaken < m
           /\ Len(Got) + Len(sent[m]) <= Kept
           /\ \A i \in 1..Len(sent[m]) : written[Len(Got) + i] = <<m, i>>
  BY <1>3, NextFollows
<1>6. sent[m] \in Seq(Bytes)
  BY <1>5, WriterFacts, SegmentFacts, PayloadFacts
<1>7. PICK n \in Nat \ {0} : n = Len(sent[m])
  BY <1>5, <1>6, EmptySeq
<1>8. PICK len \in Nat : len = Len(Got)
  BY GotFacts
<1>9. \A i \in 1..n : sent[m][i] = <<m, i>> /\ written[len + i] = <<m, i>>
  <2>1. \A i \in 1..Len(sent[m]) : sent[m][i] = <<m, i>>
    BY <1>5 DEF SentInv
  <2>2. \A i \in 1..Len(sent[m]) : written[Len(Got) + i] = <<m, i>>
    BY <1>5
  <2> QED
    BY <1>7, <1>8, <2>1, <2>2
<1>10. LastTaken' = m
  <2>1. taken' # 0 /\ taken' = t
    BY <1>1, <1>2, <1>3
  <2>2. Packed[t][1][1] = m
    BY <1>5 DEF Tag
  <2>3. Packed'[taken'][1][1] = m
    BY <1>4, <2>1, <2>2
  <2> QED
    BY <2>1, <2>3 DEF LastTaken, Tag
<1>11. Kept' = Kept
  BY <1>2 DEF Kept, futureVars
<1>12. Got = read /\ Got' = read \o sent[m]
  <2>1. read \o <<>> = read
    BY GotFacts
  <2> QED
    BY <1>2, <1>3, <1>5, <2>1 DEF Got
<1>13. /\ Len(Got') = len + n
       /\ \A k \in 1..(len + n) : Got'[k] = IF k <= len THEN read[k] ELSE sent[m][k - len]
  BY <1>6, <1>7, <1>8, <1>12, GotFacts, ConcatProperties
<1>14. len + n <= Kept /\ Kept \in Nat /\ Len(written) \in Nat /\ Kept <= Len(written)
  BY <1>5, <1>7, <1>8, WrittenFacts
<1>15. \A k \in 1..len : read[k] = written[k]
  BY <1>8, <1>12 DEF GotInv
<1>16. ASSUME NEW k \in 1..(len + n) PROVE Got'[k] = written[k]
  <2>1. CASE k <= len
    BY <1>13, <1>15, <2>1
  <2>2. CASE ~(k <= len)
    <3>1. k - len \in 1..n /\ len + (k - len) = k
      BY <2>2
    <3>2. written[k] = <<m, k - len>> /\ sent[m][k - len] = <<m, k - len>>
      BY <1>9, <3>1
    <3> QED
      BY <1>13, <2>2, <3>2
  <2> QED
    BY <2>1, <2>2
<1>17. ASSUME NEW k \in 1..Len(written) PROVE k <= len + n <=> written[k][1] <= m
  <2>1. k <= len <=> written[k][1] <= LastTaken
    BY <1>8 DEF GotInv
  <2>2. LastTaken \in Nat
    BY TakenFacts
  <2> QED
    BY <1>5, <1>7, <1>9, <1>14, <2>1, <2>2, TakenUpTo
<1> QED
  BY <1>2, <1>10, <1>11, <1>13, <1>14, <1>16, <1>17 DEF GotInv

LEMMA GotStep ==
  ASSUME IoInv, IoInv', SentInv, LinkInv, PackedInv, PlacedInv, GotInv, [IoNext]_ioVars
  PROVE  GotInv'
<1>1. CASE /\ SendBegins \/ SendProceeds \/ SendErr \/ DropStream \/ WriteStarts
           /\ UNCHANGED <<handled, buffer, completed, packets, taken, chunk, read>>
  BY <1>1, GotWriting
<1>2. CASE /\ UNCHANGED <<sendVars, futureVars, written>>
           /\ \/ UNCHANGED <<handled, buffer, completed, packets, taken, chunk, read>>
              \/ OnMessage /\ UNCHANGED <<chunk, read>>
              \/ Enqueue /\ UNCHANGED <<chunk, read>>
              \/ ReadReturns
  <2>1. RecvTypeOK /\ RecvTypeOK'
    BY DEF IoInv, TypeOK
  <2>2. /\ taken' = taken
        /\ packets' = packets \/ Packed' = Packed
    BY <1>2, <2>1, EnqueueKeeps DEF OnMessage, Enqueue, ReadReturns, vars, recvVars
  <2>3. LastTaken' = LastTaken
    BY <2>1, <2>2, TakenStable
  <2>4. Got' = Got
    BY <1>2, GotReturns DEF Got
  <2> QED
    BY <1>2, <2>3, <2>4, GotOther
<1>3. CASE ReadReceives
  BY <1>3, GotReceives
<1> QED
  BY <1>1, <1>2, <1>3, IoCases

LEMMA BytesInit == IoInit => BytesInv
<1> SUFFICES ASSUME IoInit PROVE BytesInv
  OBVIOUS
<1>1. /\ sent = <<>> /\ outcome = <<>> /\ wired = <<>> /\ handled = 0 /\ buffer = NewMessage
      /\ completed = <<>> /\ packets = <<>> /\ taken = 0 /\ sender[Writer] = Idle
      /\ future = "none" /\ pending = 0 /\ gone = FALSE /\ op = "none"
      /\ written = <<>> /\ chunk = <<>> /\ read = <<>>
  BY OneTask DEF IoInit, Init
<1>2. Len(<<>>) = 0 /\ <<>> \o <<>> = <<>> /\ 1..0 = {}
  OBVIOUS
<1>3. Messages = {}
  BY <1>1, <1>2 DEF Messages
<1>4. After(0) = [msg |-> 1, seg |-> 1]
  BY DEF After
<1>5. IoInv
  BY IoInitInv
<1>6. SentInv
  BY <1>3 DEF SentInv
<1>7. LinkInv
  <2>1. WireInv
    BY <1>1, <1>2 DEF WireInv
  <2>2. After(Len(wired)) = [msg |-> Len(sent) + 1, seg |-> 1]
    BY <1>1, <1>2, <1>4
  <2> QED
    BY <1>1, <1>3, <2>1, <2>2 DEF LinkInv
<1>8. PackedInv
  <2>1. Packed = <<>>
    BY <1>1, <1>2 DEF Packed
  <2>2. After(handled).seg - 1 = 0
    BY <1>1, <1>4
  <2>3. buffer = Partial(sent[After(handled).msg], After(handled).seg - 1)
    BY <1>1, <2>2 DEF Partial
  <2> QED
    BY <1>2, <1>3, <2>1, <2>3 DEF PackedInv
<1>9. Kept = 0 /\ Got = <<>>
  BY <1>1, <1>2 DEF Kept, Got
<1>10. PlacedInv
  BY <1>1, <1>2, <1>3, <1>9 DEF PlacedInv, SortedInv, KeptInv, PendingInv
<1>11. GotInv
  BY <1>1, <1>2, <1>9 DEF GotInv
<1> QED
  BY <1>5, <1>6, <1>7, <1>8, <1>10, <1>11 DEF BytesInv

LEMMA BytesInvariant == IoSpec => []BytesInv
<1>1. BytesInv /\ IoInv' /\ [IoNext]_ioVars => BytesInv'
  BY SentStep, LinkStep, PackedStep, PlacedStep, GotStep DEF BytesInv
<1> QED
  BY <1>1, BytesInit, IoInvariant, PTL DEF IoSpec
-----------------------------------------------------------------------------
(* The stream of bytes *)

LEMMA PrefixAt ==
  ASSUME NEW s \in Seq(Bytes), NEW t \in Seq(Bytes), Len(s) <= Len(t),
         \A k \in 1..Len(s) : s[k] = t[k]
  PROVE  Bytewise!IsPrefix(s, t)
<1>1. Len(s) \in Nat /\ Len(t) \in Nat /\ 1 \in Int
  OBVIOUS
<1>2. \A k \in 1..Len(s) : s[k] \in Bytes /\ t[k] \in Bytes
  BY <1>1
<1>3. /\ SubSeq(s, 1, Len(s)) \in Seq(Bytes) /\ Len(SubSeq(s, 1, Len(s))) = Len(s)
      /\ \A k \in 1..Len(s) : SubSeq(s, 1, Len(s))[k] = s[k]
  BY <1>1, <1>2
<1>4. /\ SubSeq(t, 1, Len(s)) \in Seq(Bytes) /\ Len(SubSeq(t, 1, Len(s))) = Len(s)
      /\ \A k \in 1..Len(s) : SubSeq(t, 1, Len(s))[k] = t[k]
  BY <1>1, <1>2
<1>5. SubSeq(s, 1, Len(s)) = SubSeq(t, 1, Len(s))
  BY <1>3, <1>4, SeqEqual
<1> QED
  BY <1>5 DEF Bytewise!IsPrefix

\* What is read lies within what is kept.
LEMMA ReadIsKept ==
  ASSUME IoInv, GotInv
  PROVE  Len(read) <= Kept /\ \A k \in 1..Len(read) : read[k] = written[k]
<1>1. /\ Len(read) \in Nat /\ Len(chunk) \in Nat /\ Len(Got) = Len(read) + Len(chunk)
      /\ \A k \in 1..Len(read) : Got[k] = read[k]
  BY GotFacts
<1>2. Kept \in Nat
  BY WrittenFacts
<1> QED
  BY <1>1, <1>2 DEF GotInv

LEMMA WriteIsWrite ==
  ASSUME IoInv, IoInv', PlacedInv, WriteStarts
  PROVE  Bytewise!Write
<1>1. /\ Kept = Len(written) /\ Len(written') = Kept + buf /\ buf \in Nat
      /\ \A k \in 1..Kept : written'[k] = written[k]
  BY PlacedStarts
<1>2. written \in Seq(Bytes) /\ written' \in Seq(Bytes) /\ Kept \in Nat
  BY WrittenFacts DEF IoInv, WrittenInv, Bytes
<1>3. Bytewise!IsPrefix(written, written')
  BY <1>1, <1>2, PrefixAt
<1>4. UNCHANGED <<flushed, read>>
  BY DEF WriteStarts, StartsSend, readVars
<1> QED
  BY <1>3, <1>4 DEF Bytewise!Write

LEMMA EndIsTakeBack ==
  ASSUME IoInv, IoInv', PlacedInv, GotInv, SendErr \/ DropStream
  PROVE  Bytewise!TakeBack
<1>1. Len(written') = Kept /\ \A k \in 1..Kept : written'[k] = written[k]
  BY PlacedEnds
<1>2. /\ written \in Seq(Bytes) /\ written' \in Seq(Bytes) /\ read \in Seq(Bytes)
      /\ Kept \in Nat /\ Kept <= Len(written)
  BY WrittenFacts, GotFacts DEF IoInv, WrittenInv, Bytes
<1>3. Bytewise!IsPrefix(written', written)
  BY <1>1, <1>2, PrefixAt
<1>4. Len(read) <= Kept /\ \A k \in 1..Len(read) : read[k] = written'[k]
  BY <1>1, <1>2, ReadIsKept
<1>5. Bytewise!IsPrefix(read, written')
  BY <1>1, <1>2, <1>4, PrefixAt
<1>6. flushed <= Len(written')
  BY <1>1 DEF IoInv, WrittenInv
<1>7. UNCHANGED <<flushed, read>>
  BY DEF SendErr, DropStream, readVars
<1> QED
  BY <1>3, <1>5, <1>6, <1>7 DEF Bytewise!TakeBack

LEMMA ReadIsRead ==
  ASSUME IoInv, IoInv', GotInv, ReadReturns
  PROVE  Bytewise!Read
<1>1. PICK n \in 1..Len(chunk) : read' = read \o SubSeq(chunk, 1, n)
  BY GotReturns
<1>2. read \in Seq(Bytes) /\ chunk \in Seq(Bytes) /\ read' \in Seq(Bytes) /\ Len(read) \in Nat
  BY GotFacts DEF IoInv, ReadTypeOK, Bytes
<1>3. SubSeq(chunk, 1, n) \in Seq(Bytes) /\ Len(SubSeq(chunk, 1, n)) \in Nat
  BY <1>2
<1>4. Len(read) <= Len(read') /\ \A k \in 1..Len(read) : read'[k] = read[k]
  BY <1>1, <1>2, <1>3, ConcatProperties
<1>5. Bytewise!IsPrefix(read, read')
  BY <1>2, <1>4, PrefixAt
<1>6. UNCHANGED <<written, flushed, pending>>
  BY DEF ReadReturns, writeVars, futureVars
<1>7. chunk' \in Seq(Bytes) /\ read' \o chunk' = Got
  BY GotReturns DEF Got, IoInv, ReadTypeOK, Bytes
<1>8. /\ Len(read') \in Nat /\ Len(Got) = Len(read') + Len(chunk') /\ Len(chunk') \in Nat
      /\ \A k \in 1..Len(read') : Got[k] = read'[k]
  BY <1>2, <1>7, ConcatProperties
<1>9. Len(read') <= Len(written) /\ \A k \in 1..Len(read') : read'[k] = written[k]
  BY <1>8, WrittenFacts DEF GotInv
<1>10. Bytewise!IsPrefix(read', written)
  BY <1>2, <1>9, WrittenFacts, PrefixAt
<1> QED
  BY <1>5, <1>6, <1>10 DEF Bytewise!Read

LEMMA BytewiseStep ==
  ASSUME BytesInv, BytesInv', [IoNext]_ioVars
  PROVE  [Bytewise!Next]_<<written, flushed, read>>
<1> USE DEF BytesInv
<1>1. CASE WriteStarts
  BY <1>1, WriteIsWrite DEF Bytewise!Next
<1>2. CASE SendErr \/ DropStream
  BY <1>2, EndIsTakeBack DEF Bytewise!Next
<1>3. CASE ReadReturns
  BY <1>3, ReadIsRead DEF Bytewise!Next
<1>4. CASE FlushReturns \/ ShutdownBegins \/ ShutdownAgain
  <2>1. flushed' = Len(written) /\ UNCHANGED <<written, read>>
    BY <1>4 DEF FlushReturns, ShutdownBegins, ShutdownAgain, readVars
  <2> QED
    BY <2>1 DEF Bytewise!Next, Bytewise!Flush
<1>5. CASE PollWrite \/ PollFlush \/ PollShutdown \/ PollPending \/ SendBegins \/ SendProceeds
           \/ WriteReturns \/ ShutdownReturns
  BY <1>5 DEF PollWrite, PollFlush, PollShutdown, PollPending, Poll, SendBegins, SendProceeds,
              WriteReturns, ShutdownReturns, readVars
<1>6. CASE PollRead \/ ReadProceeds \/ ReadReceives \/ ReadPending \/ SessionRuns \/ UNCHANGED ioVars
  BY <1>6 DEF PollRead, ReadProceeds, ReadReceives, ReadPending, SessionRuns, ioVars, writeVars,
              readVars
<1> QED
  BY <1>1, <1>2, <1>3, <1>4, <1>5, <1>6 DEF IoNext, Writing, Reading

(* stream.rs:347-470: through the segments, the packet queue, the chunk that
   the reader keeps, and futures that are polled in bits, the bytes that
   poll_read gives out are those that poll_write took, in their order.  An
   error or a drop takes back only bytes that were neither flushed nor read. *)
THEOREM StreamIsBytewise == IoSpec => ByteStreamSpec
<1>1. IoInit => Bytewise!Init
  BY DEF IoInit, Bytewise!Init
<1>2. BytesInv /\ BytesInv' /\ [IoNext]_ioVars => [Bytewise!Next]_<<written, flushed, read>>
  BY BytewiseStep
<1> QED
  BY <1>1, <1>2, BytesInvariant, PTL DEF IoSpec, ByteStreamSpec, Bytewise!Spec
=============================================================================
