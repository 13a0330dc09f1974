---------------------------- MODULE SessionProofs ----------------------------
(***************************************************************************)
(* For every number of tasks, payload length, segment size, queue capacity *)
(* and order of closing: a session keeps its types; and when sends are     *)
(* made one after the other, and none is dropped, it is a FIFO channel of  *)
(* whole messages that loses nothing between the wire and recv.            *)
(***************************************************************************)
EXTENDS Session, MessageProofs

(* A payload is a sequence of bytes, one per position. *)
LEMMA PayloadFacts ==
  ASSUME NEW data \in Payloads
  PROVE  /\ data \in Seq(Bytes)
         /\ ~TooLarge(Len(data))
         /\ 0 \notin Lengths => data # <<>>
<1>1. PICK m \in 1..MaxMessages, len \in {l \in Lengths : ~TooLarge(l)} : data = Payload(m, len)
  BY DEF Payloads
<1>2. len \in Nat /\ ~TooLarge(len) /\ m \in 1..MaxMessages
  BY <1>1, SessionAssumption
<1>3. data = [i \in 1..len |-> <<m, i>>]
  BY <1>1 DEF Payload
<1>4. \A i \in 1..len : <<m, i>> \in Bytes
  BY <1>2, SessionAssumption DEF Bytes
<1>5. data \in Seq(Bytes) /\ Len(data) = len
  BY <1>2, <1>3, <1>4
<1>6. data = <<>> => len = 0
  BY <1>5
<1> QED
  BY <1>1, <1>2, <1>5, <1>6

(* The segments of a message that is being sent. *)
LEMMA SegmentFacts ==
  ASSUME SendTypeOK, NEW m \in Messages
  PROVE  LET c == SegmentCount(Len(sent[m]))
         IN  /\ sent[m] \in Payloads
             /\ sent[m] \in Seq(Bytes)
             /\ c \in Nat \ {0}
             /\ c <= U8MAX
             /\ Len(SegmentsOf(m)) = c
             /\ \A i \in 1..c : /\ SegmentsOf(m)[i].remaining_segments = c - i
                                /\ SegmentsOf(m)[i].data \in Seq(Bytes)
                                /\ sent[m] # <<>> => Decodes(SegmentsOf(m)[i])
<1>1. sent[m] \in Payloads
  BY DEF SendTypeOK, Messages
<1>2. sent[m] \in Seq(Bytes) /\ ~TooLarge(Len(sent[m]))
  BY <1>1, PayloadFacts
<1>3. SegmentCount(Len(sent[m])) <= U8MAX
  BY <1>2, CountFits
<1> QED
  BY <1>1, <1>2, <1>3, SplitShape DEF SegmentsOf

LEMMA SegmentType ==
  ASSUME SendTypeOK, NEW ref \in Refs
  PROVE  /\ Segment(ref).remaining_segments \in 0..U8MAX
         /\ Segment(ref).data \in Seq(Bytes)
<1> DEFINE c == SegmentCount(Len(sent[ref.msg]))
<1>1. ref.msg \in Messages /\ ref.seg \in Nat \ {0} /\ ref.seg <= Len(SegmentsOf(ref.msg))
  BY DEF Refs
<1>2. c \in Nat /\ c <= U8MAX /\ ref.seg \in 1..c
  BY <1>1, SegmentFacts
<1>3. /\ Segment(ref).remaining_segments = c - ref.seg
      /\ Segment(ref).data \in Seq(Bytes)
  BY <1>1, <1>2, SegmentFacts DEF Segment
<1> HIDE DEF c
<1> QED
  BY <1>2, <1>3, SizesAssumption

-----------------------------------------------------------------------------
(* Type correctness, action by action.  SendTypeOK depends on the variables
   of the sending half only, the other two parts on theirs. *)
LEMMA InitType == Init => TypeOK
<1> SUFFICES ASSUME Init PROVE TypeOK
  OBVIOUS
<1>1. SendTypeOK
  BY DEF Init, SendTypeOK
<1>2. RecvTypeOK
  BY SizesAssumption, SessionAssumption DEF Init, RecvTypeOK, NewMessage, Queued
<1>3. ConnTypeOK
  BY DEF Init, ConnTypeOK
<1> QED
  BY <1>1, <1>2, <1>3 DEF TypeOK

(* The log of payloads only grows, so a segment stays a segment. *)
LEMMA BeginSendType ==
  ASSUME SendTypeOK, NEW s \in Senders, NEW len \in Lengths, BeginSend(s, len)
  PROVE  SendTypeOK'
<1> DEFINE m == Len(sent) + 1
           data == Payload(m, len)
           first == [msg |-> m, seg |-> 1]
<1>1. /\ sent \in Seq(Payloads) /\ outcome \in Seq({"sending", "ok", "failed"})
      /\ Len(outcome) = Len(sent)
      /\ sender \in [Senders -> Refs \cup {Idle}]
      /\ wired \in Seq([msg : Nat \ {0}, seg : Nat \ {0}])
      /\ \A k \in 1..Len(wired) : wired[k] \in Refs
  BY DEF SendTypeOK
<1>2. /\ m \in 1..MaxMessages /\ ~TooLarge(len)
      /\ sent' = Append(sent, data)
      /\ outcome' = Append(outcome, "sending")
      /\ sender' = [sender EXCEPT ![s] = first]
      /\ wired' = wired
  BY <1>1, SessionAssumption DEF BeginSend
<1>3. data \in Payloads
  BY <1>2 DEF Payloads
<1>4. /\ sent' \in Seq(Payloads) /\ Len(sent') = m /\ sent'[m] = data
      /\ \A k \in Messages : sent'[k] = sent[k]
  BY <1>1, <1>2, <1>3, AppendProperties DEF Messages
<1>5. outcome' \in Seq({"sending", "ok", "failed"}) /\ Len(outcome') = m
  BY <1>1, <1>2, AppendProperties
<1>6. Refs \subseteq Refs'
  <2> SUFFICES ASSUME NEW ref \in Refs PROVE ref \in Refs'
    OBVIOUS
  <2>1. /\ ref \in [msg : Messages, seg : Nat \ {0}]
        /\ ref.seg <= Len(SplitIntoSegments(sent[ref.msg]))
    BY DEF Refs, SegmentsOf
  <2>2. ref.msg \in Messages /\ ref.msg \in Messages' /\ Messages \subseteq Messages'
    BY <1>1, <1>4, <2>1 DEF Messages
  <2>3. sent'[ref.msg] = sent[ref.msg]
    BY <1>4, <2>2
  <2> QED
    BY <2>1, <2>2, <2>3 DEF Refs, SegmentsOf
<1>7. first \in Refs'
  <2>1. data \in Seq(Bytes)
    BY <1>3, PayloadFacts
  <2>2. SegmentCount(Len(data)) \in Nat \ {0} /\ Len(SplitIntoSegments(data)) = SegmentCount(Len(data))
    BY <2>1, SplitShape
  <2>3. m \in Messages'
    BY <1>1, <1>4 DEF Messages
  <2> HIDE DEF data, m
  <2>4. first.msg = m /\ first.seg = 1 /\ first \in [msg : Messages', seg : Nat \ {0}]
    BY <2>3
  <2> HIDE DEF first
  <2>5. first.seg <= Len(SplitIntoSegments(sent'[first.msg]))
    BY <1>4, <2>2, <2>4
  <2> QED
    BY <2>4, <2>5 DEF Refs, SegmentsOf
<1>8. sender' \in [Senders -> Refs' \cup {Idle}]
  BY <1>1, <1>2, <1>6, <1>7
<1>9. \A k \in 1..Len(wired') : wired'[k] \in Refs'
  BY <1>1, <1>2, <1>6
<1>10. Idle' = Idle
  BY DEF Idle
<1> QED
  BY <1>1, <1>2, <1>4, <1>5, <1>8, <1>9, <1>10 DEF SendTypeOK

(* Refs is a function of sent alone. *)
LEMMA RefsStable == ASSUME UNCHANGED sent PROVE Refs' = Refs /\ Messages' = Messages
BY DEF Refs, Messages, SegmentsOf

LEMMA SendSegmentType ==
  ASSUME SendTypeOK, NEW s \in Senders, SendSegment(s)
  PROVE  SendTypeOK'
<1> DEFINE ref == sender[s]
           last == ref.seg = Len(SegmentsOf(ref.msg))
           next == [ref EXCEPT !.seg = @ + 1]
<1>1. /\ sent' = sent
      /\ wired' = Append(wired, ref)
      /\ sender' = [sender EXCEPT ![s] = IF last THEN Idle ELSE next]
      /\ outcome' = IF last THEN [outcome EXCEPT ![ref.msg] = "ok"] ELSE outcome
      /\ ref # Idle
  BY DEF SendSegment
<1>2. ref \in Refs /\ ref.msg \in Messages /\ ref \in [msg : Messages, seg : Nat \ {0}]
      /\ ref.seg <= Len(SegmentsOf(ref.msg)) /\ Len(SegmentsOf(ref.msg)) \in Nat
  BY <1>1, SegmentFacts DEF SendTypeOK, Refs
<1>3. ~last => next \in Refs
  BY <1>2 DEF Refs
<1>4. sender' \in [Senders -> Refs \cup {Idle}]
  BY <1>1, <1>3 DEF SendTypeOK
<1>5. /\ outcome' \in Seq({"sending", "ok", "failed"})
      /\ Len(outcome') = Len(outcome)
  <2>1. ref.msg \in 1..Len(outcome) /\ outcome \in Seq({"sending", "ok", "failed"})
    BY <1>2 DEF SendTypeOK, Messages
  <2>2. CASE last
    BY <1>1, <2>1, <2>2, ExceptSeq
  <2>3. CASE ~last
    BY <1>1, <2>1, <2>3
  <2> QED
    BY <2>2, <2>3
<1>6. /\ wired' \in Seq([msg : Nat \ {0}, seg : Nat \ {0}])
      /\ \A k \in 1..Len(wired') : wired'[k] \in Refs
  BY <1>1, <1>2, AppendProperties DEF SendTypeOK, Messages
<1> QED
  BY <1>1, <1>4, <1>5, <1>6, RefsStable DEF SendTypeOK, Idle

LEMMA GiveUpType ==
  ASSUME SendTypeOK, NEW s \in Senders, GiveUp(s)
  PROVE  SendTypeOK'
<1> DEFINE m == sender[s].msg
<1>1. /\ sent' = sent /\ wired' = wired
      /\ sender' = [sender EXCEPT ![s] = Idle]
      /\ outcome' = [outcome EXCEPT ![m] = "failed"]
      /\ sender[s] # Idle
  BY DEF GiveUp
<1>2. m \in 1..Len(outcome) /\ outcome \in Seq({"sending", "ok", "failed"})
  BY <1>1 DEF SendTypeOK, Refs, Messages
<1>3. outcome' \in Seq({"sending", "ok", "failed"}) /\ Len(outcome') = Len(outcome)
  BY <1>1, <1>2, ExceptSeq
<1>4. sender' \in [Senders -> Refs \cup {Idle}]
  BY <1>1 DEF SendTypeOK
<1> QED
  BY <1>1, <1>3, <1>4, RefsStable DEF SendTypeOK, Idle

LEMMA OnMessageType ==
  ASSUME SendTypeOK, RecvTypeOK, OnMessage
  PROVE  RecvTypeOK'
<1> DEFINE segment == Segment(wired[handled + 1])
           result == AddSegment(buffer, segment)
<1>1. /\ handled < Len(wired) /\ handled' = handled + 1 /\ wired' = wired
      /\ \/ buffer' = result.message /\ completed' = result.packet
         \/ buffer' = buffer /\ completed' = completed
      /\ packets' = packets /\ taken' = taken /\ receiver' = receiver
  BY DEF OnMessage, sendVars
<1>2. wired[handled + 1] \in Refs
  BY <1>1 DEF SendTypeOK, RecvTypeOK
<1>3. /\ result.message \in Accumulators(Bytes)
      /\ result.packet \in Seq(Seq(Bytes))
      /\ Len(result.packet) <= 1
  <2>1. buffer \in Accumulators(Bytes)
    BY DEF RecvTypeOK, Accumulators
  <2>2. segment.remaining_segments \in 0..U8MAX /\ segment.data \in Seq(Bytes)
    BY <1>2, SegmentType
  <2> HIDE DEF segment
  <2> QED
    BY <2>1, <2>2, AddSegmentType
<1> HIDE DEF result
<1>4. buffer' \in Accumulators(Bytes) /\ completed' \in Seq(Seq(Bytes)) /\ Len(completed') <= 1
  BY <1>1, <1>3 DEF RecvTypeOK, Accumulators
<1>5. handled' \in 0..Len(wired')
  BY <1>1 DEF SendTypeOK, RecvTypeOK
<1> QED
  BY <1>1, <1>4, <1>5 DEF RecvTypeOK, Accumulators, Queued

LEMMA EnqueueType == ASSUME RecvTypeOK, Enqueue PROVE RecvTypeOK'
<1>1. /\ completed # <<>> /\ Len(packets) - taken < Capacity
      /\ packets' = packets \o completed /\ completed' = <<>>
      /\ handled' = handled /\ wired' = wired /\ buffer' = buffer
      /\ taken' = taken /\ receiver' = receiver
  BY DEF Enqueue, sendVars, Queued
<1> DEFINE p == Len(packets)
           q == Len(completed)
<1>2. /\ packets \in Seq(Seq(Bytes)) /\ completed \in Seq(Seq(Bytes))
      /\ q <= 1 /\ taken \in 0..p
  BY DEF RecvTypeOK
<1>3. /\ p \in Nat /\ q \in Nat
      /\ packets' \in Seq(Seq(Bytes)) /\ Len(packets') = p + q
  BY <1>1, <1>2
<1> HIDE DEF p, q
<1>4. taken' \in 0..Len(packets') /\ Len(packets') - taken' <= Capacity
  <2>1. p - taken < Capacity
    BY <1>1 DEF p
  <2> QED
    BY <1>1, <1>2, <1>3, <2>1, SessionAssumption
<1>5. completed' \in Seq(Seq(Bytes)) /\ Len(completed') <= 1
  BY <1>1
<1> QED
  BY <1>1, <1>3, <1>4, <1>5 DEF RecvTypeOK, Queued

LEMMA ReceiverType ==
  ASSUME RecvTypeOK, NEW r \in Receivers, ReceiverStep(r)
  PROVE  RecvTypeOK'
<1>1. /\ wired' = wired /\ handled' = handled /\ buffer' = buffer
      /\ completed' = completed /\ packets' = packets
      /\ taken' = taken \/ (taken' = taken + 1 /\ Queued > 0)
      /\ \E at \in {"idle", "locking", "waiting"} : receiver' = [receiver EXCEPT ![r] = at]
  BY DEF ReceiverStep, RecvEnter, RecvLock, RecvPacket, CancelRecv, sendVars
<1>2. taken' \in 0..Len(packets') /\ Len(packets') - taken' <= Capacity
  <2>1. /\ Len(packets) \in Nat /\ taken \in 0..Len(packets)
        /\ Len(packets) - taken <= Capacity /\ Capacity \in Nat
    BY SessionAssumption DEF RecvTypeOK, Queued
  <2>2. packets' = packets /\ (taken' = taken \/ (taken' = taken + 1 /\ Len(packets) - taken > 0))
    BY <1>1 DEF Queued
  <2> QED
    BY <2>1, <2>2
<1>3. receiver' \in [Receivers -> {"idle", "locking", "waiting"}]
  BY <1>1 DEF RecvTypeOK
<1> QED
  BY <1>1, <1>2, <1>3 DEF RecvTypeOK, Queued

LEMMA EndType == ASSUME ConnTypeOK, NEW e \in Ends, EndStep(e) PROVE ConnTypeOK'
BY DEF ConnTypeOK, EndStep, AttachReliable, CloseFlag, CloseTransport, PeerCloses

LEMMA TypeStep == TypeOK /\ [Next]_vars => TypeOK'
<1> SUFFICES ASSUME SendTypeOK, RecvTypeOK, ConnTypeOK, [Next]_vars
             PROVE  SendTypeOK' /\ RecvTypeOK' /\ ConnTypeOK'
  BY DEF TypeOK
<1> USE DEF recvVars, connVars
(* A part of the type whose variables a step leaves alone. *)
<1>1. UNCHANGED sendVars => SendTypeOK'
  BY RefsStable DEF sendVars, SendTypeOK, Idle
<1>2. UNCHANGED <<recvVars, wired>> => RecvTypeOK'
  BY DEF RecvTypeOK, Queued
<1>3. UNCHANGED connVars => ConnTypeOK'
  BY DEF ConnTypeOK
(* The wire may grow under the receiving half. *)
<1>4. UNCHANGED recvVars /\ handled \in 0..Len(wired') => RecvTypeOK'
  BY DEF RecvTypeOK, Queued
<1>5. CASE UNCHANGED vars
  BY <1>1, <1>2, <1>3, <1>5 DEF vars, sendVars
<1>6. ASSUME NEW s \in Senders, SenderStep(s) PROVE SendTypeOK' /\ RecvTypeOK' /\ ConnTypeOK'
  <2>1. UNCHANGED connVars /\ UNCHANGED recvVars
    BY <1>6 DEF SenderStep, BeginSend, SendSegment, SendFails, CancelSend, GiveUp
  <2>2. ASSUME NEW len \in Lengths, BeginSend(s, len) PROVE SendTypeOK' /\ wired' = wired
    BY <2>2, BeginSendType DEF BeginSend
  <2>3. CASE SendSegment(s)
    <3>1. SendTypeOK'
      BY <2>3, SendSegmentType
    <3>2. handled \in 0..Len(wired')
      BY <2>3 DEF SendSegment, RecvTypeOK, SendTypeOK
    <3> QED
      BY <1>3, <1>4, <2>1, <3>1, <3>2
  <2>4. CASE SendFails(s) \/ CancelSend(s)
    <3>1. GiveUp(s)
      BY <2>4 DEF SendFails, CancelSend
    <3>2. wired' = wired
      BY <3>1 DEF GiveUp
    <3> QED
      BY <1>2, <1>3, <2>1, <3>1, <3>2, GiveUpType
  <2> QED
    BY <1>2, <1>3, <1>6, <2>1, <2>2, <2>3, <2>4 DEF SenderStep
<1>7. CASE OnMessage
  BY <1>1, <1>3, <1>7, OnMessageType DEF OnMessage
<1>8. CASE Enqueue
  BY <1>1, <1>3, <1>8, EnqueueType DEF Enqueue
<1>9. ASSUME NEW r \in Receivers, ReceiverStep(r) PROVE SendTypeOK' /\ RecvTypeOK' /\ ConnTypeOK'
  BY <1>1, <1>3, <1>9, ReceiverType DEF ReceiverStep, RecvEnter, RecvLock, RecvPacket, CancelRecv
<1>10. ASSUME NEW e \in Ends, EndStep(e) PROVE SendTypeOK' /\ RecvTypeOK' /\ ConnTypeOK'
  BY <1>1, <1>2, <1>10, EndType
     DEF EndStep, AttachReliable, CloseFlag, CloseTransport, PeerCloses, sendVars
<1> QED
  BY <1>5, <1>6, <1>7, <1>8, <1>9, <1>10 DEF Next

THEOREM TypeCorrect == Spec => []TypeOK
<1> QED
  BY InitType, TypeStep, PTL DEF Spec

\* What most proofs need of the types.
LEMMA TypeFacts ==
  ASSUME TypeOK
  PROVE  /\ SendTypeOK /\ RecvTypeOK
         /\ Len(sent) \in Nat /\ Len(wired) \in Nat /\ handled \in 0..Len(wired)
         /\ packets \in Seq(Seq(Bytes)) /\ Len(packets) \in Nat /\ taken \in 0..Len(packets)
         /\ completed \in Seq(Seq(Bytes)) /\ Len(completed) \in Nat /\ Len(completed) <= 1
<1>1. SendTypeOK /\ RecvTypeOK
  BY DEF TypeOK
<1>2. sent \in Seq(Payloads) /\ wired \in Seq([msg : Nat \ {0}, seg : Nat \ {0}])
  BY <1>1 DEF SendTypeOK
<1>3. /\ handled \in 0..Len(wired) /\ taken \in 0..Len(packets)
      /\ packets \in Seq(Seq(Bytes)) /\ completed \in Seq(Seq(Bytes)) /\ Len(completed) <= 1
  BY <1>1 DEF RecvTypeOK
<1>4. Len(sent) \in Nat /\ Len(wired) \in Nat
  BY <1>2
<1>5. Len(packets) \in Nat /\ Len(completed) \in Nat
  BY <1>3
<1> QED
  BY <1>1, <1>3, <1>4, <1>5
-----------------------------------------------------------------------------
(* The hypothesis of what follows: one task sends at a time, no send is
   dropped halfway, and no payload is empty.  (Each of the three is needed:
   see the runs session_concurrent and session_cancel, and the README.) *)
Serialised == /\ \A s, t \in Senders : s = t
              /\ ~SendersMayCancel
              /\ 0 \notin Lengths

IsLast(ref) == ref.seg = Len(SegmentsOf(ref.msg))

NextRef(ref) == IF IsLast(ref)
                THEN [msg |-> ref.msg + 1, seg |-> 1]
                ELSE [msg |-> ref.msg, seg |-> ref.seg + 1]

\* The segment that follows the first k on the wire.
After(k) == IF k = 0 THEN [msg |-> 1, seg |-> 1] ELSE NextRef(wired[k])

Before(a, b) == a.msg < b.msg \/ (a.msg = b.msg /\ a.seg < b.seg)

(* The wire carries the segments of the messages in order, all of one
   before the first of the next. *)
WireInv ==
  /\ \A k \in 1..Len(wired) : wired[k] = After(k - 1)
  /\ \A j, k \in 1..Len(wired) : j < k => Before(wired[j], wired[k])

(* While the channel is open the sender is at the segment the wire waits
   for.  (A send that fails leaves a gap, on a wire nobody writes to again.) *)
SenderInv ==
  open["snd"] =>
    \A s \in Senders :
      IF sender[s] = Idle
      THEN After(Len(wired)) = [msg |-> Len(sent) + 1, seg |-> 1]
      ELSE sender[s] = After(Len(wired)) /\ sender[s].msg = Len(sent)

(* The accumulator holds the segments of the message that the next segment
   belongs to, and every message before it has been completed. *)
ReceiveInv ==
  LET next == After(handled)
  IN  /\ buffer = Partial(sent[next.msg], next.seg - 1)
      /\ Len(packets) + Len(completed) = next.msg - 1

IInv == TypeOK /\ WireInv /\ SenderInv /\ ReceiveInv /\ Fifo

(* The next segment exists, or begins the message after the last. *)
LEMMA AfterFacts ==
  ASSUME SendTypeOK, NEW k \in 0..Len(wired)
  PROVE  /\ After(k).msg \in Nat \ {0} /\ After(k).seg \in Nat \ {0}
         /\ After(k).msg <= Len(sent) + 1
         /\ After(k).msg \notin Messages => After(k).seg = 1
<1>1. CASE k = 0
  BY <1>1 DEF After, SendTypeOK, Messages
<1>2. CASE k # 0
  <2> DEFINE ref == wired[k]
  <2>1. ref.msg \in Messages /\ ref.seg \in Nat \ {0} /\ Len(sent) \in Nat
    BY <1>2 DEF SendTypeOK, Refs
  <2>2. After(k) = NextRef(ref)
    BY <1>2 DEF After
  <2> HIDE DEF ref
  <2> QED
    BY <2>1, <2>2 DEF NextRef, Messages
<1> QED
  BY <1>1, <1>2

LEMMA NextIsLater ==
  ASSUME SendTypeOK, NEW ref \in Refs
  PROVE  Before(ref, NextRef(ref))
<1>1. ref.msg \in Nat /\ ref.seg \in Nat
  BY DEF Refs, Messages, SendTypeOK
<1> QED
  BY <1>1 DEF Before, NextRef

(* A step that adds nothing to the wire and keeps the payloads that have
   segments on it does not change what follows. *)
LEMMA AfterStable ==
  ASSUME SendTypeOK, \A m \in Messages : sent'[m] = sent[m],
         NEW k \in 0..Len(wired), k # 0 => wired'[k] = wired[k]
  PROVE  After(k)' = After(k)
<1>1. CASE k = 0
  BY <1>1 DEF After
<1>2. CASE k # 0
  <2>1. wired[k] \in Refs /\ wired[k].msg \in Messages
    BY <1>2 DEF SendTypeOK, Refs
  <2>2. SegmentsOf(wired[k].msg)' = SegmentsOf(wired[k].msg)
    BY <1>2, <2>1 DEF SegmentsOf
  <2> QED
    BY <1>2, <2>2 DEF After, NextRef, IsLast
<1> QED
  BY <1>1, <1>2

(* The segment the wire waits for is put on it. *)
LEMMA WireNext ==
  ASSUME SendTypeOK, WireInv, NEW n \in Nat, n = Len(wired), NEW ref \in Refs, ref = After(n),
         UNCHANGED sent, wired' = Append(wired, ref)
  PROVE  /\ WireInv'
         /\ Len(wired') = n + 1 /\ wired'[n + 1] = ref /\ \A k \in 1..n : wired'[k] = wired[k]
         /\ \A k \in 0..n : After(k)' = After(k)
         /\ After(n + 1)' = NextRef(ref)
<1>1. ref \in [msg : Messages, seg : Nat \ {0}]
  BY DEF Refs
<1>2. /\ Len(wired') = n + 1 /\ wired'[n + 1] = ref
      /\ \A k \in 1..n : wired'[k] = wired[k]
  BY <1>1, AppendProperties DEF SendTypeOK, Messages
<1>3. \A k \in 0..n : After(k)' = After(k)
  BY <1>2, AfterStable
<1>4. After(n + 1)' = NextRef(ref)
  <2>1. After(n + 1)' = NextRef(wired[n + 1])'
    BY DEF After
  <2> QED
    BY <1>2, <2>1 DEF NextRef, IsLast, SegmentsOf
<1>5. WireInv'
  <2>1. ASSUME NEW k \in 1..(n + 1) PROVE wired'[k] = After(k - 1)'
    <3>1. CASE k = n + 1
      BY <1>2, <1>3, <3>1
    <3>2. CASE k # n + 1
      <4>1. k \in 1..n /\ k - 1 \in 0..n
        BY <3>2
      <4>2. wired[k] = After(k - 1)
        BY <4>1 DEF WireInv
      <4> QED
        BY <1>2, <1>3, <4>1, <4>2
    <3> QED
      BY <3>1, <3>2
  <2>2. ASSUME NEW j \in 1..n PROVE Before(wired[j], ref)
    <3>1. wired[n] \in Refs /\ wired[j] \in Refs /\ n \in 1..n
      BY <2>2 DEF SendTypeOK
    <3>2. ref = NextRef(wired[n])
      BY <3>1 DEF After
    <3>3. Before(wired[n], ref)
      BY <3>1, <3>2, NextIsLater
    <3>4. j = n \/ Before(wired[j], wired[n])
      BY <2>2, <3>1 DEF WireInv
    <3>5. /\ wired[j].msg \in Nat /\ wired[j].seg \in Nat
          /\ wired[n].msg \in Nat /\ wired[n].seg \in Nat
          /\ ref.msg \in Nat /\ ref.seg \in Nat
      BY <1>1, <3>1, SMTT(30) DEF Refs, Messages, SendTypeOK
    <3> QED
      BY <3>3, <3>4, <3>5 DEF Before
  <2>3. ASSUME NEW j \in 1..(n + 1), NEW k \in 1..(n + 1), j < k
        PROVE  Before(wired'[j], wired'[k])
    <3>1. CASE k = n + 1
      <4>1. j \in 1..n
        BY <2>3, <3>1
      <4> QED
        BY <1>2, <2>2, <3>1, <4>1
    <3>2. CASE k # n + 1
      <4>1. j \in 1..n /\ k \in 1..n
        BY <2>3, <3>2
      <4> QED
        BY <1>2, <2>3, <4>1 DEF WireInv
    <3> QED
      BY <3>1, <3>2
  <2>4. /\ \A k \in 1..Len(wired') : wired'[k] = After(k - 1)'
        /\ \A j, k \in 1..Len(wired') : j < k => Before(wired'[j], wired'[k])
    BY <1>2, <2>1, <2>3
  <2> QED
    BY <2>4 DEF WireInv, Before
<1> QED
  BY <1>2, <1>3, <1>4, <1>5

(* A new payload leaves the wire as it is. *)
LEMMA WireKeeps ==
  ASSUME SendTypeOK, WireInv, wired' = wired, \A m \in Messages : sent'[m] = sent[m]
  PROVE  WireInv' /\ \A k \in 0..Len(wired) : After(k)' = After(k)
<1>1. Len(wired) \in Nat
  BY DEF SendTypeOK
<1>2. \A k \in 0..Len(wired) : After(k)' = After(k)
  BY AfterStable
<1> QED
  BY <1>1, <1>2 DEF WireInv, Before

LEMMA InitInv == Init => IInv
<1> SUFFICES ASSUME Init PROVE IInv
  OBVIOUS
<1>1. TypeOK
  BY InitType
<1>2. WireInv /\ SenderInv /\ Fifo
  BY DEF Init, WireInv, SenderInv, Fifo, After
<1>3. ReceiveInv
  BY DEF Init, ReceiveInv, After, Partial
<1> QED
  BY <1>1, <1>2, <1>3 DEF IInv

LEMMA BeginSendInv ==
  ASSUME Serialised, IInv, TypeOK',
         NEW s \in Senders, NEW len \in Lengths, BeginSend(s, len)
  PROVE  IInv'
<1> DEFINE m == Len(sent) + 1
<1>1. /\ sent' = Append(sent, Payload(m, len)) /\ wired' = wired
      /\ sender[s] = Idle /\ sender' = [sender EXCEPT ![s] = [msg |-> m, seg |-> 1]]
      /\ UNCHANGED <<recvVars, connVars>>
  BY DEF BeginSend
<1>2. SendTypeOK /\ Len(sent) \in Nat /\ handled \in 0..Len(wired) /\ Len(wired) \in Nat
  BY TypeFacts DEF IInv
<1>3. Len(sent') = m /\ \A k \in Messages : sent'[k] = sent[k]
  BY <1>1, <1>2 DEF SendTypeOK, Messages
<1>4. \A k \in 0..Len(wired) : After(k)' = After(k)
  BY <1>1, <1>2, <1>3, WireKeeps DEF IInv
<1>5. WireInv'
  BY <1>1, <1>2, <1>3, WireKeeps DEF IInv
<1>6. SenderInv'
  <2> SUFFICES ASSUME open["snd"]
               PROVE  sender'[s] = After(Len(wired)) /\ sender'[s].msg = Len(sent') /\ sender'[s] # Idle
    BY <1>1, <1>2, <1>4 DEF SenderInv, Serialised, connVars, Idle
  <2>1. After(Len(wired)) = [msg |-> m, seg |-> 1]
    BY <1>1 DEF IInv, SenderInv
  <2>2. sender'[s] = [msg |-> m, seg |-> 1]
    BY <1>1 DEF IInv, TypeOK, SendTypeOK
  <2> QED
    BY <1>2, <1>3, <2>1, <2>2 DEF Idle
<1>7. ReceiveInv'
  <2> DEFINE next == After(handled)
  <2>1. After(handled)' = next
    BY <1>1, <1>2, <1>4 DEF recvVars
  <2>2. Partial(sent'[next.msg], next.seg - 1) = Partial(sent[next.msg], next.seg - 1)
    <3>1. CASE next.msg \in Messages
      BY <1>3, <3>1
    <3>2. CASE next.msg \notin Messages
      <4>1. next.seg - 1 = 0
        BY <1>2, <3>2, AfterFacts
      <4> QED
        BY <4>1 DEF Partial
    <3> QED
      BY <3>1, <3>2
  <2> QED
    BY <1>1, <2>1, <2>2 DEF IInv, ReceiveInv, recvVars
<1>8. Fifo'
  <2>1. Len(packets) + Len(completed) <= Len(sent) /\ Len(packets) \in Nat /\ Len(completed) \in Nat
    <3>1. packets \in Seq(Seq(Bytes)) /\ completed \in Seq(Seq(Bytes))
      BY DEF IInv, TypeOK, RecvTypeOK
    <3>2. Len(packets) + Len(completed) <= Len(sent)
      BY DEF IInv, Fifo
    <3> QED
      BY <3>1, <3>2
  <2>2. \A i \in 1..Len(packets) : packets[i] = sent[i] /\ i \in Messages
    BY <1>2, <2>1 DEF IInv, Fifo, Messages
  <2>3. \A i \in 1..Len(completed) : completed[i] = sent[Len(packets) + i]
                                   /\ Len(packets) + i \in Messages
    BY <1>2, <2>1 DEF IInv, Fifo, Messages
  <2> QED
    BY <1>1, <1>2, <1>3, <2>1, <2>2, <2>3 DEF Fifo, recvVars
<1> QED
  BY <1>5, <1>6, <1>7, <1>8 DEF IInv

LEMMA SendSegmentInv ==
  ASSUME Serialised, IInv, TypeOK', NEW s \in Senders, SendSegment(s)
  PROVE  IInv'
<1> DEFINE ref == sender[s]
<1> PICK n \in Nat : n = Len(wired)
  BY DEF IInv, TypeOK, SendTypeOK
<1>1. /\ ref # Idle /\ open["snd"]
      /\ sent' = sent /\ wired' = Append(wired, ref)
      /\ sender' = [sender EXCEPT ![s] =
                      IF IsLast(ref) THEN Idle ELSE [ref EXCEPT !.seg = @ + 1]]
      /\ UNCHANGED <<recvVars, connVars>>
  BY DEF SendSegment, IsLast
<1>2. SendTypeOK /\ Len(sent) \in Nat /\ handled \in 0..n /\ n \in Nat
  BY TypeFacts DEF IInv
<1>3. /\ ref \in Refs /\ ref \in [msg : Messages, seg : Nat \ {0}]
      /\ ref = After(n) /\ ref.msg = Len(sent)
  BY <1>1, <1>2 DEF IInv, SendTypeOK, SenderInv, Refs
<1>4. /\ Len(wired') = n + 1 /\ WireInv'
      /\ \A k \in 0..n : After(k)' = After(k)
      /\ After(n + 1)' = NextRef(ref)
  BY <1>1, <1>2, <1>3, WireNext DEF IInv
<1>5. SenderInv'
  <2>1. \A t \in Senders : t = s
    BY DEF Serialised
  <2>2. CASE IsLast(ref)
    <3>1. sender'[s] = Idle
      BY <1>1, <1>2, <2>2 DEF SendTypeOK
    <3>2. NextRef(ref) = [msg |-> Len(sent') + 1, seg |-> 1]
      BY <1>1, <1>3, <2>2 DEF NextRef
    <3> QED
      BY <1>4, <2>1, <3>1, <3>2, Zenon DEF SenderInv, Idle
  <2>3. CASE ~IsLast(ref)
    <3>1. sender'[s] = [ref EXCEPT !.seg = @ + 1]
      BY <1>1, <1>2, <2>3 DEF SendTypeOK
    <3>2. NextRef(ref) = [msg |-> ref.msg, seg |-> ref.seg + 1]
      BY <2>3 DEF NextRef
    <3>3. sender'[s] = NextRef(ref) /\ NextRef(ref).msg = Len(sent')
      BY <1>1, <1>3, <3>1, <3>2
    <3>4. sender'[s] # Idle
      BY <1>2, <1>3, <3>2, <3>3 DEF Idle
    <3> QED
      BY <1>4, <2>1, <3>3, <3>4, Zenon DEF SenderInv, Idle
  <2> QED
    BY <2>2, <2>3
<1>6. ReceiveInv'
  BY <1>1, <1>2, <1>4 DEF IInv, ReceiveInv, recvVars
<1>7. Fifo'
  BY <1>1 DEF IInv, Fifo, recvVars
<1> QED
  BY <1>4, <1>5, <1>6, <1>7 DEF IInv

(* A send that fails ends the use of the channel. *)
LEMMA GiveUpInv ==
  ASSUME Serialised, IInv, TypeOK', NEW s \in Senders, SendFails(s) \/ CancelSend(s)
  PROVE  IInv'
<1>1. /\ ~open["snd"]
      /\ sent' = sent /\ wired' = wired /\ UNCHANGED <<recvVars, connVars>>
  BY DEF SendFails, CancelSend, GiveUp, Serialised
<1>2. SenderInv'
  BY <1>1 DEF SenderInv, connVars
<1>3. WireInv'
  BY <1>1 DEF IInv, WireInv, After, NextRef, IsLast, SegmentsOf, Before
<1>4. ReceiveInv'
  BY <1>1 DEF IInv, ReceiveInv, After, NextRef, IsLast, SegmentsOf, recvVars
<1>5. Fifo'
  BY <1>1 DEF IInv, Fifo, recvVars
<1> QED
  BY <1>2, <1>3, <1>4, <1>5 DEF IInv

(* The heart of the argument: the segment handled next is the one the
   accumulator waits for. *)
LEMMA OnMessageInv ==
  ASSUME Serialised, IInv, TypeOK', OnMessage
  PROVE  IInv'
<1> DEFINE ref == wired[handled + 1]
           data == sent[ref.msg]
           c == SegmentCount(Len(data))
           result == AddSegment(buffer, Segment(ref))
<1>1. /\ SendTypeOK /\ handled \in 0..Len(wired) /\ handled < Len(wired) /\ Len(wired) \in Nat
      /\ completed = <<>> /\ handled' = handled + 1
      /\ packets' = packets /\ UNCHANGED <<sendVars, connVars>>
  <2>1. SendTypeOK /\ RecvTypeOK
    BY DEF IInv, TypeOK
  <2>2. handled \in 0..Len(wired) /\ Len(wired) \in Nat
    BY TypeFacts DEF IInv
  <2>3. /\ handled < Len(wired) /\ completed = <<>> /\ handled' = handled + 1
        /\ packets' = packets /\ UNCHANGED <<sendVars, connVars>>
    BY DEF OnMessage
  <2> QED
    BY <2>1, <2>2, <2>3
<1>2. /\ ref \in Refs /\ ref.msg \in Messages /\ ref.seg \in Nat \ {0}
      /\ ref.seg <= Len(SegmentsOf(ref.msg))
  BY <1>1 DEF SendTypeOK, Refs
<1>3. /\ data \in Seq(Bytes) /\ data # <<>> /\ ~TooLarge(Len(data))
      /\ c \in Nat \ {0} /\ ref.seg \in 1..c
      /\ Len(SegmentsOf(ref.msg)) = c /\ Decodes(Segment(ref))
  <2>0. data \in Payloads /\ 0 \notin Lengths
    BY <1>1, <1>2 DEF SendTypeOK, Messages, Serialised
  <2>1. /\ data \in Seq(Bytes) /\ ~TooLarge(Len(data)) /\ data # <<>>
    BY <2>0, PayloadFacts
  <2>2. /\ c \in Nat \ {0} /\ Len(SegmentsOf(ref.msg)) = c /\ Decodes(Segment(ref))
    BY <1>1, <1>2, <2>1, SegmentFacts DEF Segment
  <2> QED
    BY <1>2, <2>1, <2>2
<1>4. ref = After(handled)
  BY <1>1 DEF IInv, WireInv
<1>5. buffer = Partial(data, ref.seg - 1) /\ Len(packets) = ref.msg - 1
  BY <1>1, <1>4 DEF IInv, ReceiveInv, TypeOK, RecvTypeOK
<1>6. result = IF ref.seg = c
               THEN [message |-> NewMessage, packet |-> <<data>>]
               ELSE [message |-> Partial(data, ref.seg), packet |-> <<>>]
  BY <1>3, <1>5, Reassembly DEF Segment, SegmentsOf
<1>7. buffer' = result.message /\ completed' = result.packet
  BY <1>3 DEF OnMessage
<1>8. After(handled)' = NextRef(ref)
  <2>1. After(handled)' = NextRef(wired[handled])'
    BY <1>1 DEF After
  <2> QED
    BY <1>1, <2>1 DEF NextRef, IsLast, SegmentsOf, sendVars
<1>9. WireInv' /\ SenderInv'
  BY <1>1 DEF IInv, WireInv, SenderInv, After, NextRef, IsLast, SegmentsOf, Before, Idle,
              sendVars, connVars
<1> HIDE DEF result, c, data, ref
<1>10. CASE ref.seg = c
  <2>1. buffer' = NewMessage /\ completed' = <<data>>
    BY <1>6, <1>7, <1>10
  <2>2. NextRef(ref) = [msg |-> ref.msg + 1, seg |-> 1]
    BY <1>3, <1>10 DEF NextRef, IsLast
  <2>3. ReceiveInv'
    BY <1>1, <1>2, <1>5, <1>8, <2>1, <2>2 DEF ReceiveInv, Partial, Messages
  <2>4. Fifo'
    BY <1>1, <1>2, <1>5, <2>1 DEF IInv, Fifo, Messages, sendVars, data
  <2> QED
    BY <1>9, <2>3, <2>4 DEF IInv
<1>11. CASE ref.seg # c
  <2>1. buffer' = Partial(data, ref.seg) /\ completed' = <<>>
    BY <1>6, <1>7, <1>11
  <2>2. NextRef(ref) = [msg |-> ref.msg, seg |-> ref.seg + 1]
    BY <1>3, <1>11 DEF NextRef, IsLast
  <2>3. ReceiveInv'
    BY <1>1, <1>2, <1>5, <1>8, <2>1, <2>2, SMTT(30) DEF ReceiveInv, Messages, sendVars, data
  <2>4. Fifo'
    BY <1>1, <2>1 DEF IInv, Fifo, sendVars
  <2> QED
    BY <1>9, <2>3, <2>4 DEF IInv
<1> QED
  BY <1>10, <1>11

(* A queue of capacity one is empty or holds one element. *)
LEMMA AtMostOne ==
  ASSUME NEW S, NEW s \in Seq(S), Len(s) <= 1
  PROVE  Len(s) \in 0..1 /\ (s # <<>> => Len(s) = 1)
<1> DEFINE n == Len(s)
<1>1. n \in Nat /\ (s # <<>> => n # 0) /\ n <= 1
  BY EmptySeq
<1> HIDE DEF n
<1>2. n \in 0..1 /\ (s # <<>> => n = 1)
  BY <1>1
<1> QED
  BY <1>2 DEF n

(* Appending what it holds appends that element. *)
LEMMA ConcatOne ==
  ASSUME NEW S, NEW s \in Seq(S), NEW t \in Seq(S), Len(t) = 1
  PROVE  /\ Len(s \o t) = Len(s) + 1
         /\ \A i \in 1..Len(s) : (s \o t)[i] = s[i]
         /\ (s \o t)[Len(s) + 1] = t[1]
<1>0. /\ Len(s \o t) = Len(s) + Len(t)
      /\ \A i \in 1..(Len(s) + Len(t)) : (s \o t)[i] = IF i <= Len(s) THEN s[i] ELSE t[i - Len(s)]
  BY ConcatProperties, Zenon
<1>1. /\ Len(s) \in Nat /\ Len(s \o t) = Len(s) + Len(t)
      /\ \A i \in 1..(Len(s) + Len(t)) : (s \o t)[i] = IF i <= Len(s) THEN s[i] ELSE t[i - Len(s)]
  BY <1>0
<1>2. (Len(s) + 1) - Len(s) = 1 /\ ~(Len(s) + 1 <= Len(s)) /\ Len(s) + 1 \in 1..(Len(s) + Len(t))
  BY <1>1
<1>3. \A i \in 1..Len(s) : i \in 1..(Len(s) + Len(t)) /\ i <= Len(s)
  BY <1>1
<1> QED
  BY <1>1, <1>2, <1>3

LEMMA EnqueueInv == ASSUME IInv, TypeOK', Enqueue PROVE IInv'
<1> DEFINE p == Len(packets)
<1>1. /\ packets' = packets \o completed /\ completed' = <<>> /\ completed # <<>>
      /\ handled' = handled /\ buffer' = buffer /\ UNCHANGED <<sendVars, connVars>>
  BY DEF Enqueue
<1>2. /\ packets \in Seq(Seq(Bytes)) /\ completed \in Seq(Seq(Bytes)) /\ Len(completed) <= 1
  BY DEF IInv, TypeOK, RecvTypeOK
<1>3. Len(completed) = 1 /\ p \in Nat
  BY <1>1, <1>2, AtMostOne
<1>4. /\ Len(packets') = p + 1
      /\ \A i \in 1..p : packets'[i] = packets[i]
      /\ packets'[p + 1] = completed[1]
  BY <1>1, <1>2, <1>3, ConcatOne
<1>5. WireInv' /\ SenderInv'
  BY <1>1 DEF IInv, WireInv, SenderInv, After, NextRef, IsLast, SegmentsOf, Before, Idle,
              sendVars, connVars
<1>6. ReceiveInv'
  <2>1. After(handled)' = After(handled) /\ sent' = sent /\ buffer' = buffer
    BY <1>1 DEF After, NextRef, IsLast, SegmentsOf, sendVars
  <2>2. /\ buffer = Partial(sent[After(handled).msg], After(handled).seg - 1)
        /\ Len(packets) + Len(completed) = After(handled).msg - 1
    BY DEF IInv, ReceiveInv
  <2>3. Len(packets') + Len(completed') = After(handled).msg - 1
    BY <1>1, <1>3, <1>4, <2>2
  <2>4. /\ buffer' = Partial(sent'[After(handled)'.msg], After(handled)'.seg - 1)
        /\ Len(packets') + Len(completed') = After(handled)'.msg - 1
    BY <2>1, <2>2, <2>3
  <2> QED
    BY <2>4 DEF ReceiveInv
<1>7. Fifo'
  <2>1. p + 1 <= Len(sent) /\ \A i \in 1..p : packets[i] = sent[i]
    BY <1>3 DEF IInv, Fifo
  <2>2. completed[1] = sent[p + 1]
    BY <1>3 DEF IInv, Fifo
  <2> HIDE DEF p
  <2>3. \A i \in 1..(p + 1) : packets'[i] = sent[i]
    BY <1>3, <1>4, <2>1, <2>2
  <2> QED
    BY <1>1, <1>3, <1>4, <2>1, <2>3 DEF Fifo, sendVars
<1> QED
  BY <1>5, <1>6, <1>7 DEF IInv

(* The other steps touch none of the variables the invariant is about. *)
LEMMA OtherInv ==
  ASSUME IInv, TypeOK',
         UNCHANGED <<sendVars, handled, buffer, completed, packets>>,
         open'["snd"] => open["snd"]
  PROVE  IInv'
<1>1. WireInv'
  BY DEF IInv, WireInv, After, NextRef, IsLast, SegmentsOf, Before, sendVars
<1>2. SenderInv'
  BY DEF IInv, SenderInv, After, NextRef, IsLast, SegmentsOf, Idle, sendVars
<1>3. ReceiveInv'
  BY DEF IInv, ReceiveInv, After, NextRef, IsLast, SegmentsOf, sendVars
<1>4. Fifo'
  BY DEF IInv, Fifo, sendVars
<1> QED
  BY <1>1, <1>2, <1>3, <1>4 DEF IInv

LEMMA InvStep ==
  ASSUME Serialised, IInv, TypeOK', [Next]_vars
  PROVE  IInv'
<1>1. CASE UNCHANGED vars
  BY <1>1, OtherInv DEF vars, recvVars, connVars
<1>2. ASSUME NEW s \in Senders, SenderStep(s) PROVE IInv'
  BY <1>2, BeginSendInv, SendSegmentInv, GiveUpInv DEF SenderStep
<1>3. CASE OnMessage
  BY <1>3, OnMessageInv
<1>4. CASE Enqueue
  BY <1>4, EnqueueInv
<1>5. ASSUME NEW r \in Receivers, ReceiverStep(r) PROVE IInv'
  BY <1>5, OtherInv DEF ReceiverStep, RecvEnter, RecvLock, RecvPacket, CancelRecv, connVars
<1>6. ASSUME NEW e \in Ends, EndStep(e) PROVE IInv'
  <2>1. UNCHANGED <<sendVars, handled, buffer, completed, packets>>
    BY <1>6 DEF EndStep, AttachReliable, CloseFlag, CloseTransport, PeerCloses, recvVars
  <2>2. open'["snd"] => open["snd"]
    BY <1>6 DEF EndStep, AttachReliable, CloseFlag, CloseTransport, PeerCloses,
                IInv, TypeOK, ConnTypeOK, Ends
  <2> QED
    BY <2>1, <2>2, OtherInv
<1> QED
  BY <1>1, <1>2, <1>3, <1>4, <1>5, <1>6 DEF Next

LEMMA SessionInvariant == ASSUME Serialised PROVE Spec => []IInv
<1>1. IInv /\ TypeOK' /\ [Next]_vars => IInv'
  BY InvStep
<1> QED
  BY <1>1, InitInv, TypeCorrect, PTL DEF Spec

(* Packets come out whole, once and in the order of the calls of send, for
   any backpressure, any receivers and any closing. *)
THEOREM PacketsInOrder == ASSUME Serialised PROVE Spec => []Fifo
<1>1. IInv => Fifo
  BY DEF IInv
<1> QED
  BY <1>1, SessionInvariant, PTL

(* No message is lost between the wire and the packet queue. *)
THEOREM NothingLost == ASSUME Serialised PROVE Spec => []HandledIsDelivered
<1>1. IInv => HandledIsDelivered
  <2> SUFFICES ASSUME IInv, NEW m \in Messages, FullyHandled(m) PROVE Delivered(m)
    BY DEF HandledIsDelivered
  <2> DEFINE d == Len(packets) + Len(completed)
  <2>1. /\ SendTypeOK /\ handled \in 0..Len(wired) /\ Len(wired) \in Nat
        /\ Len(packets) \in Nat /\ Len(completed) \in 0..1 /\ m \in Nat \ {0}
    <3>1. /\ SendTypeOK /\ handled \in 0..Len(wired) /\ Len(wired) \in Nat
          /\ packets \in Seq(Seq(Bytes)) /\ completed \in Seq(Seq(Bytes))
          /\ Len(completed) <= 1 /\ m \in Nat \ {0}
      BY TypeFacts DEF IInv, Messages
    <3>2. Len(packets) \in Nat /\ Len(completed) \in 0..1
      BY <3>1, AtMostOne
    <3> QED
      BY <3>1, <3>2
  <2>2. PICK k \in 1..handled : wired[k] = LastRef(m)
    BY DEF FullyHandled
  <2>3. /\ wired[handled] \in Refs /\ handled # 0 /\ handled \in 1..Len(wired) /\ k \in 1..Len(wired)
    BY <2>1, <2>2 DEF SendTypeOK
  <2>4. After(handled) = NextRef(wired[handled])
    BY <2>3 DEF After
  <2>5. m <= d
    <3>1. d = After(handled).msg - 1
      BY DEF IInv, ReceiveInv
    <3>2. CASE k = handled
      <4>1. IsLast(LastRef(m)) /\ LastRef(m).msg = m
        BY DEF IsLast, LastRef
      <4>2. After(handled) = [msg |-> m + 1, seg |-> 1]
        BY <2>2, <2>4, <3>2, <4>1 DEF NextRef
      <4> QED
        BY <2>1, <3>1, <4>2
    <3>3. CASE k < handled
      <4> DEFINE ref == wired[handled]
      <4>1. Before(LastRef(m), ref)
        BY <2>2, <2>3, <3>3 DEF IInv, WireInv
      <4>2. /\ ref.msg \in Nat /\ ref.seg \in Nat /\ ref.seg <= Len(SegmentsOf(ref.msg))
        <5>1. ref \in Refs
          BY <2>3
        <5>2. ref.msg \in Messages /\ ref.seg \in 1..Len(SegmentsOf(ref.msg))
          BY <5>1 DEF Refs
        <5>3. Len(SegmentsOf(ref.msg)) \in Nat
          BY <2>1, <5>2, SegmentFacts
        <5> HIDE DEF ref
        <5> QED
          BY <5>2, <5>3 DEF Messages
      <4>3. Len(SegmentsOf(m)) \in Nat
        BY <2>1, SegmentFacts
      <4> HIDE DEF ref
      <4>4. ref.msg > m
        BY <2>1, <4>1, <4>2, <4>3 DEF Before, LastRef
      <4>5. After(handled).msg >= ref.msg
        BY <2>4, <4>2 DEF NextRef, ref
      <4>6. After(handled).msg \in Nat
        BY <2>1, AfterFacts
      <4> QED
        BY <2>1, <3>1, <4>2, <4>4, <4>5, <4>6
    <3> QED
      BY <2>1, <2>2, <3>2, <3>3
  <2>6. CASE m <= Len(packets)
    <3>1. m \in 1..Len(packets) /\ packets[m] = sent[m]
      BY <2>1, <2>6 DEF IInv, Fifo
    <3> QED
      BY <3>1 DEF Delivered
  <2>7. CASE m > Len(packets)
    <3> DEFINE p == Len(packets)
               q == Len(completed)
    <3>0. p \in Nat /\ q \in 0..1 /\ m <= p + q /\ m > p /\ m \in Nat
      BY <2>1, <2>5, <2>7
    <3> HIDE DEF p, q
    <3>a. q = 1 /\ m = p + 1
      BY <3>0
    <3>1. Len(completed) = 1 /\ m = Len(packets) + 1
      BY <3>a DEF p, q
    <3>2. 1 \in 1..Len(completed) /\ completed[1] = sent[m]
      BY <3>1 DEF IInv, Fifo
    <3> QED
      BY <3>2 DEF Delivered
  <2> QED
    BY <2>1, <2>6, <2>7
<1> QED
  BY <1>1, SessionInvariant, PTL

-----------------------------------------------------------------------------
(* What recv has returned, one packet later. *)
LEMMA TakeNext ==
  ASSUME NEW S, NEW s \in Seq(S), NEW n \in Nat, n + 1 <= Len(s)
  PROVE  SubSeq(s, 1, n + 1) = Append(SubSeq(s, 1, n), s[n + 1])
<1>1. SubSeq(s, 1, n + 1) \in Seq(S) /\ Len(SubSeq(s, 1, n + 1)) = n + 1
  BY SubSeqProperties
<1>2. SubSeq(s, 1, n) \in Seq(S) /\ Len(SubSeq(s, 1, n)) = n
  BY SubSeqProperties
<1> QED
  BY <1>1, <1>2, SubSeqProperties, AppendProperties, SeqEqual

(* What recv has returned does not depend on what is queued behind it. *)
LEMMA TakeStable ==
  ASSUME NEW S, NEW s \in Seq(S), NEW t \in Seq(S), NEW n \in Nat, n <= Len(s)
  PROVE  SubSeq(s \o t, 1, n) = SubSeq(s, 1, n)
<1>1. Len(s) \in Nat /\ Len(t) \in Nat /\ s \o t \in Seq(S) /\ Len(s \o t) = Len(s) + Len(t)
  BY ConcatProperties
<1>2. \A i \in 1..n : (s \o t)[i] = s[i]
  BY <1>1, ConcatProperties
<1> QED
  BY <1>1, <1>2, SubSeqProperties, SeqEqual

(* A session whose sends are made one after the other is the message channel
   its applications see: send puts a payload in, and each recv returns the
   payload of the next send, whatever happens in between. *)
THEOREM SessionIsAChannel == ASSUME Serialised PROVE Spec => ChannelSpec
<1> DEFINE got == SubSeq(packets, 1, taken)
<1>1. Init => Channel!Init
  <2> SUFFICES ASSUME Init PROVE Channel!Init
    OBVIOUS
  <2>1. packets = <<>> /\ taken = 0 /\ sent = <<>>
    BY DEF Init
  <2>2. SubSeq(<<>>, 1, 0) = <<>>
    OBVIOUS
  <2> QED
    BY <2>1, <2>2 DEF Channel!Init
<1>2. IInv /\ [Next]_vars => [Channel!Next]_(Channel!vars)
  <2> SUFFICES ASSUME IInv, [Next]_vars PROVE [Channel!Next]_(Channel!vars)
    OBVIOUS
  <2>1. ASSUME sent' = sent, packets' = packets, taken' = taken
        PROVE  UNCHANGED Channel!vars
    BY <2>1 DEF Channel!vars
  <2>2. ASSUME NEW s \in Senders, NEW len \in Lengths, BeginSend(s, len) PROVE Channel!Next
    <3>1. Payload(Len(sent) + 1, len) \in Payloads
      <4>1. Len(sent) \in Nat
        BY DEF IInv, TypeOK, SendTypeOK
      <4>2. Len(sent) + 1 \in 1..MaxMessages
        BY <2>2, <4>1, SessionAssumption DEF BeginSend
      <4> QED
        BY <2>2, <4>2 DEF BeginSend, Payloads
    <3>2. Channel!Send(Payload(Len(sent) + 1, len))
      BY <2>2 DEF BeginSend, recvVars, Channel!Send
    <3> QED
      BY <3>1, <3>2 DEF Channel!Next
  <2>3. ASSUME NEW r \in Receivers, RecvPacket(r) PROVE Channel!Next
    <3>1. /\ packets \in Seq(Seq(Bytes)) /\ taken \in Nat /\ Len(packets) \in Nat
          /\ Len(sent) \in Nat /\ Len(completed) \in Nat
      BY TypeFacts DEF IInv
    <3>2. /\ taken + 1 <= Len(packets) /\ taken' = taken + 1
          /\ packets' = packets /\ sent' = sent
      BY <2>3, <3>1 DEF RecvPacket, Queued, sendVars
    <3>3. Len(packets) <= Len(sent) /\ packets[taken + 1] = sent[taken + 1]
      BY <3>1, <3>2 DEF IInv, Fifo
    <3>4. Len(got) = taken
      BY <3>1, <3>2, SubSeqProperties
    <3>5. got' = Append(got, sent[taken + 1])
      BY <3>1, <3>2, <3>3, TakeNext
    <3>6. Channel!Receive
      BY <3>1, <3>2, <3>3, <3>4, <3>5 DEF Channel!Receive
    <3> QED
      BY <3>6 DEF Channel!Next
  <2>4. ASSUME Enqueue PROVE UNCHANGED Channel!vars
    <3>1. /\ packets \in Seq(Seq(Bytes)) /\ completed \in Seq(Seq(Bytes))
          /\ taken \in Nat /\ taken <= Len(packets)
      BY DEF IInv, TypeOK, RecvTypeOK
    <3>2. packets' = packets \o completed /\ taken' = taken /\ sent' = sent
      BY <2>4 DEF Enqueue, sendVars
    <3>3. got' = got
      BY <3>1, <3>2, TakeStable
    <3> QED
      BY <3>2, <3>3 DEF Channel!vars
  <2>5. ASSUME NEW s \in Senders, SendSegment(s) \/ SendFails(s) \/ CancelSend(s)
        PROVE  UNCHANGED Channel!vars
    BY <2>1, <2>5 DEF SendSegment, SendFails, CancelSend, GiveUp, recvVars
  <2>6. ASSUME OnMessage PROVE UNCHANGED Channel!vars
    BY <2>1, <2>6 DEF OnMessage, sendVars
  <2>7. ASSUME NEW r \in Receivers, RecvEnter(r) \/ RecvLock(r) \/ CancelRecv(r)
        PROVE  UNCHANGED Channel!vars
    BY <2>1, <2>7 DEF RecvEnter, RecvLock, CancelRecv, sendVars
  <2>8. ASSUME NEW e \in Ends, EndStep(e) PROVE UNCHANGED Channel!vars
    BY <2>1, <2>8 DEF EndStep, AttachReliable, CloseFlag, CloseTransport, PeerCloses, sendVars, recvVars
  <2>9. ASSUME UNCHANGED vars PROVE UNCHANGED Channel!vars
    BY <2>1, <2>9 DEF vars, sendVars, recvVars
  <2> QED
    BY <2>2, <2>3, <2>4, <2>5, <2>6, <2>7, <2>8, <2>9 DEF Next, SenderStep, ReceiverStep
<1> QED
  BY <1>1, <1>2, SessionInvariant, PTL DEF Spec, ChannelSpec, Channel!Spec
-----------------------------------------------------------------------------
(* Sends that are abandoned *)

(* The hypothesis of this part: one task sends at a time, and no payload is
   empty.  Its sends may be dropped at any await. *)
OneSender == /\ \A s, t \in Senders : s = t
             /\ 0 \notin Lengths

(* The wire: a segment is preceded by those of its message before it, and the
   messages come in order, torn ones included. *)
OrderInv ==
  /\ \A k \in 1..Len(wired) :
       /\ wired[k].seg <= k
       /\ \A i \in 1..wired[k].seg :
            wired[k - wired[k].seg + i] = [msg |-> wired[k].msg, seg |-> i]
  /\ \A j, k \in 1..Len(wired) : j < k => Before(wired[j], wired[k])

(* The sender is in the last message, and goes on from the last segment. *)
SendingInv ==
  \A s \in Senders : sender[s] # Idle =>
    /\ sender[s].msg = Len(sent)
    /\ IF sender[s].seg = 1
       THEN \A k \in 1..Len(wired) : wired[k].msg < Len(sent)
       ELSE /\ wired # <<>>
            /\ wired[Len(wired)] = [msg |-> Len(sent), seg |-> sender[s].seg - 1]

\* A send that returned Ok has given all its segments to the channel.
OkInv ==
  \A m \in Messages : outcome[m] = "ok" => \E k \in 1..Len(wired) : wired[k] = LastRef(m)

\* Positions p..k of the wire are the first segments of one message, right
\* after the last segment of another or at the very beginning.
Whole(p, k) ==
  /\ p = 1 \/ IsLast(wired[p - 1])
  /\ \A j \in p..k : wired[j] = [msg |-> wired[p].msg, seg |-> j - p + 1]

(* A last segment empties the accumulator, whatever it held: so a message
   that begins after one is held in full, and its packet delivered. *)
HeldInv ==
  /\ handled = 0 \/ IsLast(wired[handled]) => buffer = NewMessage
  /\ \A p \in 1..handled :
       Whole(p, handled) /\ ~IsLast(wired[handled])
       => buffer = Partial(sent[wired[p].msg], handled - p + 1)
  /\ \A k \in 1..handled : \A p \in 1..k :
       Whole(p, k) /\ IsLast(wired[k]) => Delivered(wired[p].msg)

ConfinedInv == TypeOK /\ OrderInv /\ SendingInv /\ OkInv /\ HeldInv

(* What is on the wire stays there, and the payloads it belongs to. *)
WireGrows == /\ \A m \in Messages : sent'[m] = sent[m]
             /\ \A k \in 1..Len(wired) : wired'[k] = wired[k]

LEMMA LastStable ==
  ASSUME SendTypeOK, WireGrows, NEW k \in 1..Len(wired)
  PROVE  IsLast(wired[k])' <=> IsLast(wired[k])
<1>1. wired[k].msg \in Messages /\ wired'[k] = wired[k]
  BY DEF SendTypeOK, Refs, WireGrows
<1>2. SegmentsOf(wired[k].msg)' = SegmentsOf(wired[k].msg)
  BY <1>1 DEF SegmentsOf, WireGrows
<1> QED
  BY <1>1, <1>2 DEF IsLast

LEMMA WholeStable ==
  ASSUME SendTypeOK, WireGrows, NEW k \in 1..Len(wired), NEW p \in 1..k
  PROVE  Whole(p, k)' <=> Whole(p, k)
<1>1. Len(wired) \in Nat /\ k \in Nat /\ p \in Nat
  BY DEF SendTypeOK
<1>2. \A j \in p..k : j \in 1..Len(wired) /\ wired'[j] = wired[j]
  BY <1>1 DEF WireGrows
<1>3. wired'[p] = wired[p]
  BY <1>1, <1>2
<1>4. p = 1 \/ (IsLast(wired[p - 1])' <=> IsLast(wired[p - 1]))
  <2> SUFFICES ASSUME p # 1 PROVE IsLast(wired[p - 1])' <=> IsLast(wired[p - 1])
    OBVIOUS
  <2>1. p - 1 \in 1..Len(wired)
    BY <1>1
  <2> QED
    BY <2>1, LastStable
<1> QED
  BY <1>2, <1>3, <1>4 DEF Whole

(* A step that leaves what was handled and the accumulator alone. *)
LEMMA HeldStable ==
  ASSUME SendTypeOK, RecvTypeOK, HeldInv, WireGrows, handled' = handled, buffer' = buffer,
         \A m \in Messages : Delivered(m) => Delivered(m)'
  PROVE  HeldInv'
<1>1. /\ Len(wired) \in Nat /\ handled \in 0..Len(wired)
      /\ \A k \in 1..handled : k \in 1..Len(wired) /\ wired'[k] = wired[k]
  <2>1. Len(wired) \in Nat /\ handled \in 0..Len(wired)
    BY DEF SendTypeOK, RecvTypeOK
  <2>2. \A k \in 1..Len(wired) : wired'[k] = wired[k]
    BY DEF WireGrows
  <2> QED
    BY <2>1, <2>2
<1>2. \A k \in 1..handled : wired[k].msg \in Messages
  BY <1>1 DEF SendTypeOK, Refs
<1>3. \A k \in 1..handled : IsLast(wired[k])' <=> IsLast(wired[k])
  BY <1>1, LastStable
<1>4. handled' = 0 \/ IsLast(wired[handled])' => buffer' = NewMessage
  <2>1. handled = 0 \/ handled \in 1..handled
    BY <1>1
  <2> QED
    BY <1>3, <2>1 DEF HeldInv
<1>5. ASSUME NEW p \in 1..handled, Whole(p, handled)', ~IsLast(wired[handled])'
      PROVE  buffer' = Partial(sent'[wired'[p].msg], handled - p + 1)
  <2>1. handled \in 1..Len(wired) /\ handled \in 1..handled
    BY <1>1, <1>5
  <2>2. Whole(p, handled)
    BY <1>5, <2>1, WholeStable
  <2>3. buffer = Partial(sent[wired[p].msg], handled - p + 1)
    BY <1>3, <1>5, <2>1, <2>2 DEF HeldInv
  <2>4. sent'[wired'[p].msg] = sent[wired[p].msg]
    BY <1>1, <1>2 DEF WireGrows
  <2> QED
    BY <2>3, <2>4
<1>6. ASSUME NEW k \in 1..handled, NEW p \in 1..k, Whole(p, k)', IsLast(wired[k])'
      PROVE  Delivered(wired[p].msg)'
  <2>1. k \in 1..Len(wired) /\ p \in 1..handled
    BY <1>1
  <2>2. Whole(p, k) /\ IsLast(wired[k])
    BY <1>3, <1>6, <2>1, WholeStable
  <2>3. Delivered(wired[p].msg)
    BY <2>2 DEF HeldInv
  <2>4. wired[p].msg \in Messages /\ wired'[p] = wired[p]
    BY <1>1, <1>2, <2>1
  <2>5. \A m \in Messages : Delivered(m)' <=>
          sent'[m] \in {packets'[i] : i \in 1..Len(packets')} \cup {completed'[i] : i \in 1..Len(completed')}
    BY DEF Delivered
  <2> QED
    BY <2>3, <2>4, <2>5 DEF Delivered
<1> QED
  BY <1>4, <1>5, <1>6 DEF HeldInv

\* A message that has been packed stays in the queue, or in the hands of the handler.
LEMMA DeliveredStable ==
  ASSUME \A m \in Messages : sent'[m] = sent[m], UNCHANGED <<packets, completed>>
  PROVE  \A m \in Messages : Delivered(m) => Delivered(m)'
BY DEF Delivered

(* The wire does not change: neither does its order, nor what is on it. *)
LEMMA OrderStable == ASSUME OrderInv, UNCHANGED wired PROVE OrderInv'
BY DEF OrderInv, Before

LEMMA OkStable ==
  ASSUME SendTypeOK, OkInv, WireGrows, Len(wired') \in Nat, Len(wired') >= Len(wired),
         NEW m \in Messages, outcome[m] = "ok"
  PROVE  \E k \in 1..Len(wired') : wired'[k] = LastRef(m)'
<1>1. PICK k \in 1..Len(wired) : wired[k] = LastRef(m)
  BY DEF OkInv
<1>2. LastRef(m)' = LastRef(m)
  BY DEF LastRef, SegmentsOf, WireGrows
<1>3. k \in 1..Len(wired') /\ wired'[k] = wired[k]
  BY DEF SendTypeOK, WireGrows
<1> QED
  BY <1>1, <1>2, <1>3

LEMMA BeginSendConfined ==
  ASSUME OneSender, ConfinedInv, TypeOK',
         NEW s \in Senders, NEW len \in Lengths, BeginSend(s, len)
  PROVE  ConfinedInv'
<1> DEFINE m == Len(sent) + 1
<1>1. /\ sent' = Append(sent, Payload(m, len)) /\ wired' = wired
      /\ outcome' = Append(outcome, "sending")
      /\ sender' = [sender EXCEPT ![s] = [msg |-> m, seg |-> 1]]
      /\ UNCHANGED <<recvVars, connVars>>
  BY DEF BeginSend
<1>2. /\ SendTypeOK /\ RecvTypeOK /\ OrderInv /\ SendingInv /\ OkInv /\ HeldInv
      /\ Len(sent) \in Nat /\ Len(wired) \in Nat
  BY DEF ConfinedInv, TypeOK, SendTypeOK
<1>3. Len(sent') = m /\ \A k \in Messages : sent'[k] = sent[k]
  BY <1>1, <1>2 DEF SendTypeOK, Messages
<1>4. WireGrows
  BY <1>1, <1>3 DEF WireGrows
<1>5. SendingInv'
  <2> SUFFICES ASSUME NEW t \in Senders
               PROVE  /\ sender'[t] = [msg |-> m, seg |-> 1]
                      /\ \A k \in 1..Len(wired) : wired[k].msg < m
    BY <1>1, <1>3 DEF SendingInv, Idle
  <2>1. sender'[t] = [msg |-> m, seg |-> 1]
    BY <1>1, <1>2 DEF OneSender, SendTypeOK
  <2>2. \A k \in 1..Len(wired) : wired[k].msg \in Messages
    BY <1>2 DEF SendTypeOK, Refs
  <2> QED
    BY <1>2, <2>1, <2>2 DEF Messages
<1>6. OkInv'
  <2> SUFFICES ASSUME NEW k \in Messages', outcome'[k] = "ok"
               PROVE  \E i \in 1..Len(wired') : wired'[i] = LastRef(k)'
    BY DEF OkInv
  <2>1. /\ outcome \in Seq({"sending", "ok", "failed"}) /\ Len(outcome) = Len(sent)
        /\ k \in 1..m
    BY <1>2, <1>3 DEF SendTypeOK, Messages
  <2>2. outcome'[m] = "sending" /\ \A i \in Messages : outcome'[i] = outcome[i]
    BY <1>1, <2>1, AppendProperties DEF Messages
  <2>3. k \in Messages
    BY <1>2, <2>1, <2>2 DEF Messages
  <2>4. k \in Messages /\ outcome[k] = "ok"
    BY <2>2, <2>3
  <2> QED
    BY <1>1, <1>2, <1>4, <2>4, OkStable
<1>7. HeldInv'
  BY <1>1, <1>2, <1>3, <1>4, HeldStable, DeliveredStable DEF recvVars
<1> QED
  BY <1>1, <1>2, <1>5, <1>6, <1>7, OrderStable DEF ConfinedInv

LEMMA GiveUpConfined ==
  ASSUME OneSender, ConfinedInv, TypeOK', NEW s \in Senders, GiveUp(s)
  PROVE  ConfinedInv'
<1>1. /\ sent' = sent /\ wired' = wired
      /\ sender' = [sender EXCEPT ![s] = Idle]
      /\ outcome' = [outcome EXCEPT ![sender[s].msg] = "failed"]
      /\ UNCHANGED <<recvVars, connVars>>
  BY DEF GiveUp
<1>2. /\ SendTypeOK /\ RecvTypeOK /\ OrderInv /\ SendingInv /\ OkInv /\ HeldInv
      /\ Len(sent) \in Nat /\ Len(wired) \in Nat
  BY DEF ConfinedInv, TypeOK, SendTypeOK
<1>3. WireGrows
  BY <1>1 DEF WireGrows
<1>4. SendingInv'
  BY <1>1, <1>2 DEF SendingInv, OneSender, SendTypeOK, Idle
<1>5. OkInv'
  <2> SUFFICES ASSUME NEW k \in Messages, outcome'[k] = "ok"
               PROVE  \E i \in 1..Len(wired') : wired'[i] = LastRef(k)'
    BY <1>1, RefsStable DEF OkInv
  <2>1. k \in DOMAIN outcome /\ outcome \in Seq({"sending", "ok", "failed"})
    BY <1>2 DEF SendTypeOK, Messages
  <2>2. outcome[k] = "ok"
    BY <1>1, <2>1
  <2> QED
    BY <1>1, <1>2, <1>3, <2>2, OkStable
<1>6. HeldInv'
  BY <1>1, <1>2, <1>3, HeldStable, DeliveredStable DEF recvVars
<1> QED
  BY <1>1, <1>2, <1>4, <1>5, <1>6, OrderStable DEF ConfinedInv

LEMMA SendSegmentConfined ==
  ASSUME OneSender, ConfinedInv, TypeOK', NEW s \in Senders, SendSegment(s)
  PROVE  ConfinedInv'
<1> DEFINE ref == sender[s]
<1> PICK n \in Nat : n = Len(wired)
  BY DEF ConfinedInv, TypeOK, SendTypeOK
<1>1. /\ ref # Idle
      /\ sent' = sent /\ wired' = Append(wired, ref)
      /\ sender' = [sender EXCEPT ![s] =
                      IF IsLast(ref) THEN Idle ELSE [ref EXCEPT !.seg = @ + 1]]
      /\ outcome' = IF IsLast(ref) THEN [outcome EXCEPT ![ref.msg] = "ok"] ELSE outcome
      /\ UNCHANGED <<recvVars, connVars>>
  BY DEF SendSegment, IsLast
<1>2. /\ SendTypeOK /\ RecvTypeOK /\ OrderInv /\ SendingInv /\ OkInv /\ HeldInv
      /\ Len(sent) \in Nat
  BY DEF ConfinedInv, TypeOK, SendTypeOK
<1>3. /\ ref \in Refs /\ ref \in [msg : Messages, seg : Nat \ {0}]
      /\ ref.msg = Len(sent) /\ ref.msg \in Nat /\ ref.seg \in Nat \ {0}
      /\ ref = [msg |-> ref.msg, seg |-> ref.seg]
  BY <1>1, <1>2 DEF SendTypeOK, SendingInv, Refs, Messages
<1>4. IF ref.seg = 1
      THEN \A k \in 1..n : wired[k].msg < Len(sent)
      ELSE n # 0 /\ wired[n] = [msg |-> Len(sent), seg |-> ref.seg - 1]
  BY <1>1, <1>2 DEF SendingInv, SendTypeOK
<1>5. /\ Len(wired') = n + 1 /\ wired'[n + 1] = ref
      /\ \A k \in 1..n : wired'[k] = wired[k]
  BY <1>1, <1>2, <1>3, AppendProperties DEF SendTypeOK, Messages
<1>6. WireGrows
  BY <1>1, <1>5 DEF WireGrows
<1>7. \A k \in 1..n : wired[k] \in Refs /\ wired[k].msg \in Nat /\ wired[k].seg \in Nat \ {0}
  BY <1>2 DEF SendTypeOK, Refs, Messages
<1> HIDE DEF ref
<1>8. OrderInv'
  <2> DEFINE Good(k) == /\ wired'[k].seg <= k
                        /\ \A i \in 1..wired'[k].seg :
                             wired'[k - wired'[k].seg + i] = [msg |-> wired'[k].msg, seg |-> i]
  <2>a. ASSUME NEW k \in 1..n PROVE Good(k)
    <3>1. /\ wired[k].seg <= k
          /\ \A i \in 1..wired[k].seg :
               wired[k - wired[k].seg + i] = [msg |-> wired[k].msg, seg |-> i]
      BY <1>2 DEF OrderInv
    <3>2. \A i \in 1..wired[k].seg : k - wired[k].seg + i \in 1..n
      BY <1>7, <3>1
    <3> QED
      BY <1>5, <3>1, <3>2
  <2>b. Good(n + 1)
    <3>1. CASE ref.seg = 1
      <4>1. (n + 1) - 1 + 1 = n + 1 /\ 1 <= n + 1
        OBVIOUS
      <4>2. wired'[n + 1].seg = 1 /\ wired'[n + 1] = [msg |-> wired'[n + 1].msg, seg |-> 1]
        BY <1>3, <1>5, <3>1
      <4>3. \A i \in 1..1 : i = 1
        OBVIOUS
      <4> QED
        BY <4>1, <4>2, <4>3
    <3>2. CASE ref.seg # 1
      <4> DEFINE q == ref.seg - 1
      <4>1. q \in Nat \ {0} /\ n \in 1..n /\ wired[n].seg = q /\ wired[n].msg = ref.msg
        BY <1>3, <1>4, <3>2
      <4>2. /\ q <= n
            /\ \A i \in 1..q : wired[n - q + i] = [msg |-> ref.msg, seg |-> i]
        BY <1>2, <4>1 DEF OrderInv
      <4>3. ref.seg = q + 1
        BY <1>3
      <4> HIDE DEF q
      <4>4. q + 1 <= n + 1
        BY <4>1, <4>2
      <4>5. ASSUME NEW i \in 1..(q + 1)
            PROVE  wired'[(n + 1) - (q + 1) + i] = [msg |-> ref.msg, seg |-> i]
        <5>1. CASE i = q + 1
          <6>1. (n + 1) - (q + 1) + i = n + 1
            BY <4>1, <5>1
          <6> QED
            BY <1>3, <1>5, <4>3, <5>1, <6>1
        <5>2. CASE i # q + 1
          <6>1. i \in 1..q /\ (n + 1) - (q + 1) + i = n - q + i /\ n - q + i \in 1..n
            BY <4>1, <4>2, <5>2
          <6> QED
            BY <1>5, <4>2, <6>1
        <5> QED
          BY <5>1, <5>2
      <4>6. wired'[n + 1].seg = q + 1 /\ wired'[n + 1].msg = ref.msg
        BY <1>5, <4>3
      <4> QED
        BY <4>4, <4>5, <4>6, Zenon
    <3> QED
      BY <3>1, <3>2
  <2>1. ASSUME NEW k \in 1..(n + 1) PROVE Good(k)
    <3>1. k \in 1..n \/ k = n + 1
      OBVIOUS
    <3> HIDE DEF Good
    <3> QED
      BY <2>a, <2>b, <3>1
  <2>2. ASSUME NEW j \in 1..n PROVE Before(wired[j], ref)
    <3>1. CASE ref.seg = 1
      BY <1>3, <1>4, <3>1 DEF Before
    <3>2. CASE ref.seg # 1
      <4>1. /\ n \in 1..n /\ wired[n].msg = ref.msg /\ wired[n].seg = ref.seg - 1
            /\ wired[n].seg < ref.seg
        BY <1>3, <1>4, <3>2
      <4>2. j = n \/ Before(wired[j], wired[n])
        BY <1>2, <4>1 DEF OrderInv
      <4> QED
        BY <1>3, <1>7, <4>1, <4>2 DEF Before
    <3> QED
      BY <3>1, <3>2
  <2>3. ASSUME NEW j \in 1..(n + 1), NEW k \in 1..(n + 1), j < k
        PROVE  Before(wired'[j], wired'[k])
    <3>1. CASE k = n + 1
      <4>1. j \in 1..n
        BY <2>3, <3>1
      <4> QED
        BY <1>5, <2>2, <3>1, <4>1
    <3>2. CASE k # n + 1
      <4>1. j \in 1..n /\ k \in 1..n
        BY <2>3, <3>2
      <4> QED
        BY <1>2, <1>5, <2>3, <4>1 DEF OrderInv
    <3> QED
      BY <3>1, <3>2
  <2> QED
    BY <1>5, <2>1, <2>3 DEF OrderInv, Before
<1>9. SendingInv'
  <2> SUFFICES ASSUME NEW t \in Senders, sender'[t] # Idle
               PROVE  /\ sender'[t].msg = Len(sent)
                      /\ sender'[t].seg # 1
                      /\ wired'[n + 1] = [msg |-> Len(sent), seg |-> sender'[t].seg - 1]
    BY <1>1, <1>5, EmptySeq DEF SendingInv, Idle
  <2>1. sender'[t] = IF IsLast(ref) THEN Idle ELSE [ref EXCEPT !.seg = @ + 1]
    BY <1>1, <1>2 DEF OneSender, SendTypeOK
  <2>2. sender'[t] = [msg |-> ref.msg, seg |-> ref.seg + 1]
    <3>1. sender'[t] = [ref EXCEPT !.seg = @ + 1]
      BY <2>1
    <3> QED
      BY <1>3, <3>1
  <2>3. sender'[t].msg = ref.msg /\ sender'[t].seg = ref.seg + 1
    BY <2>2
  <2>4. ref.seg + 1 # 1 /\ (ref.seg + 1) - 1 = ref.seg
    BY <1>3
  <2> QED
    BY <1>3, <1>5, <2>3, <2>4
<1>10. OkInv'
  <2> SUFFICES ASSUME NEW k \in Messages, outcome'[k] = "ok"
               PROVE  \E i \in 1..Len(wired') : wired'[i] = LastRef(k)'
    BY <1>1, RefsStable DEF OkInv
  <2>1. k \in DOMAIN outcome /\ outcome \in Seq({"sending", "ok", "failed"})
    BY <1>2 DEF SendTypeOK, Messages
  <2>2. CASE outcome[k] = "ok"
    BY <1>2, <1>5, <1>6, <2>2, OkStable
  <2>3. CASE outcome[k] # "ok"
    <3>1. IsLast(ref) /\ k = ref.msg
      BY <1>1, <2>1, <2>3
    <3>2. ref = LastRef(k)
      BY <1>3, <3>1 DEF IsLast, LastRef
    <3>3. LastRef(k)' = LastRef(k)
      BY <1>1 DEF LastRef, SegmentsOf
    <3>4. n + 1 \in 1..Len(wired')
      BY <1>5
    <3> QED
      BY <1>5, <3>2, <3>3, <3>4
  <2> QED
    BY <2>2, <2>3
<1>11. HeldInv'
  BY <1>1, <1>2, <1>6, HeldStable, DeliveredStable DEF recvVars
<1> QED
  BY <1>8, <1>9, <1>10, <1>11 DEF ConfinedInv

(* Whether it completes a packet or is refused, the last segment of a message
   leaves an empty accumulator behind. *)
LEMMA LastEmpties ==
  ASSUME NEW message, NEW segment, segment.remaining_segments = 0
  PROVE  AddSegment(message, segment).message = NewMessage
BY DEF AddSegment

LEMMA OnMessageConfined ==
  ASSUME OneSender, ConfinedInv, TypeOK', OnMessage
  PROVE  ConfinedInv'
<1> DEFINE ref == wired[handled + 1]
           data == sent[ref.msg]
           c == SegmentCount(Len(data))
           result == AddSegment(buffer, Segment(ref))
<1> PICK h \in Nat : h = handled
  BY TypeFacts DEF ConfinedInv
<1>1. /\ SendTypeOK /\ h < Len(wired) /\ Len(wired) \in Nat
      /\ completed = <<>> /\ handled' = h + 1 /\ h + 1 \in 1..Len(wired)
      /\ packets' = packets /\ UNCHANGED sendVars
      /\ sent' = sent /\ wired' = wired
  <2>1. SendTypeOK /\ Len(wired) \in Nat
    BY DEF ConfinedInv, TypeOK, SendTypeOK
  <2>2. /\ h < Len(wired) /\ completed = <<>> /\ handled' = h + 1
        /\ packets' = packets /\ UNCHANGED sendVars
    BY DEF OnMessage
  <2> QED
    BY <2>1, <2>2 DEF sendVars
<1>2. OrderInv /\ SendingInv /\ OkInv /\ HeldInv
  BY DEF ConfinedInv
<1>3. /\ ref \in Refs /\ ref.msg \in Messages /\ ref.seg \in Nat \ {0}
      /\ ref.seg <= Len(SegmentsOf(ref.msg))
  BY <1>1 DEF SendTypeOK, Refs
<1>4. /\ data \in Seq(Bytes) /\ data # <<>> /\ ~TooLarge(Len(data))
      /\ c \in Nat \ {0} /\ ref.seg \in 1..c
      /\ Len(SegmentsOf(ref.msg)) = c /\ Decodes(Segment(ref))
      /\ Segment(ref).remaining_segments = c - ref.seg
  BY <1>1, <1>3, SegmentFacts, PayloadFacts, SMTT(30) DEF OneSender, Segment
<1>5. buffer' = result.message /\ completed' = result.packet
  BY <1>4 DEF OnMessage
<1>6. OrderInv' /\ SendingInv' /\ OkInv'
  BY <1>1, <1>2 DEF OrderInv, SendingInv, OkInv, Before, LastRef, SegmentsOf, Messages, Idle, sendVars
<1>7. \A p, k : /\ Whole(p, k)' <=> Whole(p, k)
                /\ IsLast(wired[k])' <=> IsLast(wired[k])
  BY <1>1 DEF Whole, IsLast, SegmentsOf
<1>8. IsLast(ref) <=> ref.seg = c
  BY <1>4 DEF IsLast
<1>9. IsLast(ref) => buffer' = NewMessage
  <2> SUFFICES ASSUME IsLast(ref) PROVE result.message = NewMessage
    BY <1>5
  <2>1. Segment(ref).remaining_segments = 0
    BY <1>4, <1>8
  <2> QED
    BY <2>1, LastEmpties
(* A message that is whole so far is held so far, and grows by this segment. *)
<1>10. ASSUME NEW p \in 1..(h + 1), Whole(p, h + 1)
       PROVE  /\ wired[p].msg = ref.msg /\ ref.seg = (h + 1) - p + 1
              /\ result = IF ref.seg = c
                          THEN [message |-> NewMessage, packet |-> <<data>>]
                          ELSE [message |-> Partial(data, ref.seg), packet |-> <<>>]
  <2>1. /\ p \in Nat \ {0} /\ p <= h + 1
        /\ p = 1 \/ IsLast(wired[p - 1])
        /\ \A j \in p..(h + 1) : wired[j] = [msg |-> wired[p].msg, seg |-> j - p + 1]
    BY <1>10 DEF Whole
  <2>2. wired[h + 1] = [msg |-> wired[p].msg, seg |-> (h + 1) - p + 1]
    BY <2>1
  <2>3. ref.msg = wired[p].msg /\ ref.seg = (h + 1) - p + 1
    BY <2>2
  <2>4. buffer = Partial(data, ref.seg - 1)
    <3>1. CASE p = h + 1
      <4>1. h = 0 \/ (p - 1 = h /\ IsLast(wired[h]))
        BY <2>1, <3>1
      <4>2. buffer = NewMessage
        BY <1>2, <4>1 DEF HeldInv
      <4>3. ref.seg - 1 = 0
        BY <2>3, <3>1
      <4> QED
        BY <4>2, <4>3 DEF Partial
    <3>2. CASE p # h + 1
      <4>1. p \in 1..h /\ h \in p..(h + 1) /\ h \in 1..h
        BY <2>1, <3>2
      <4>2. wired[h] = [msg |-> wired[p].msg, seg |-> h - p + 1]
        BY <2>1, <4>1
      <4>3. Whole(p, h)
        BY <2>1, <4>1 DEF Whole
      <4>4. ~IsLast(wired[h])
        <5>1. wired[h].msg = ref.msg /\ wired[h].seg = h - p + 1 /\ h - p + 1 < ref.seg
          BY <2>1, <2>3, <4>2
        <5>2. h - p + 1 \in Int /\ ref.seg \in Int /\ c \in Int /\ ref.seg <= c
          BY <1>4, <2>1
        <5> HIDE DEF ref, c
        <5>3. h - p + 1 # c
          BY <5>1, <5>2
        <5>4. Len(SegmentsOf(wired[h].msg)) = c
          BY <1>4, <5>1
        <5> QED
          BY <5>1, <5>3, <5>4 DEF IsLast
      <4>5. buffer = Partial(sent[wired[p].msg], h - p + 1)
        BY <1>2, <4>1, <4>3, <4>4 DEF HeldInv
      <4>6. ref.seg - 1 = h - p + 1
        BY <2>1, <2>3
      <4> QED
        BY <2>3, <4>5, <4>6
    <3> QED
      BY <3>1, <3>2
  <2>5. Segment(ref) = SplitIntoSegments(data)[ref.seg]
    BY DEF Segment, SegmentsOf
  <2>6. AddSegment(Partial(data, ref.seg - 1), SplitIntoSegments(data)[ref.seg]) =
          IF ref.seg = c
          THEN [message |-> NewMessage, packet |-> <<data>>]
          ELSE [message |-> Partial(data, ref.seg), packet |-> <<>>]
    BY <1>4, Reassembly
  <2>7. result = AddSegment(Partial(data, ref.seg - 1), SplitIntoSegments(data)[ref.seg])
    BY <2>4, <2>5
  <2> QED
    BY <2>3, <2>6, <2>7
<1> HIDE DEF result, c
<1>11. ASSUME NEW p \in 1..(h + 1), Whole(p, h + 1), ~IsLast(ref)
       PROVE  buffer' = Partial(sent[wired[p].msg], (h + 1) - p + 1)
  BY <1>5, <1>8, <1>10, <1>11
<1>12. ASSUME NEW k \in 1..(h + 1), NEW p \in 1..k, Whole(p, k), IsLast(wired[k])
       PROVE  Delivered(wired[p].msg)'
  <2>1. CASE k = h + 1
    <3>1. wired[p].msg = ref.msg /\ ref.seg = c /\ p \in 1..(h + 1) /\ Whole(p, h + 1)
      BY <1>8, <1>10, <1>12, <2>1
    <3>2. result = [message |-> NewMessage, packet |-> <<data>>]
      BY <1>10, <3>1
    <3>3. completed' = <<data>>
      BY <1>5, <3>2
    <3>4. 1 \in 1..Len(completed') /\ completed'[1] = sent'[wired'[p].msg]
      BY <1>1, <3>1, <3>3
    <3> QED
      BY <1>1, <3>4 DEF Delivered
  <2>2. CASE k # h + 1
    <3>1. k \in 1..h
      BY <2>2
    <3>2. Delivered(wired[p].msg)
      BY <1>2, <1>12, <3>1 DEF HeldInv
    <3>3. sent[wired[p].msg] \in {packets[i] : i \in 1..Len(packets)}
      BY <1>1, <3>2, EmptySeq DEF Delivered
    <3> QED
      BY <1>1, <3>3 DEF Delivered
  <2> QED
    BY <2>1, <2>2
<1>13. HeldInv'
  <2>1. handled' = 0 \/ IsLast(wired[handled])' => buffer' = NewMessage
    BY <1>1, <1>7, <1>9 DEF IsLast, SegmentsOf
  <2>2. ASSUME NEW p \in 1..(h + 1), Whole(p, h + 1)', ~IsLast(wired[handled])'
        PROVE  buffer' = Partial(sent'[wired'[p].msg], (h + 1) - p + 1)
    BY <1>1, <1>7, <1>11, <2>2 DEF IsLast, SegmentsOf
  <2>3. ASSUME NEW k \in 1..(h + 1), NEW p \in 1..k, Whole(p, k)', IsLast(wired[k])'
        PROVE  Delivered(wired[p].msg)'
    BY <1>7, <1>12, <2>3
  <2> QED
    BY <1>1, <2>1, <2>2, <2>3 DEF HeldInv
<1> QED
  BY <1>6, <1>13 DEF ConfinedInv

(* What the handler held is now the last packet of the queue. *)
LEMMA EnqueueConfined == ASSUME ConfinedInv, TypeOK', Enqueue PROVE ConfinedInv'
<1> DEFINE p == Len(packets)
<1>1. /\ packets' = packets \o completed /\ completed # <<>>
      /\ handled' = handled /\ buffer' = buffer /\ UNCHANGED sendVars
  BY DEF Enqueue
<1>2. /\ packets \in Seq(Seq(Bytes)) /\ completed \in Seq(Seq(Bytes)) /\ Len(completed) <= 1
      /\ SendTypeOK /\ RecvTypeOK
  BY TypeFacts DEF ConfinedInv
<1>3. Len(completed) = 1 /\ p \in Nat
  BY <1>1, <1>2, AtMostOne
<1>4. /\ Len(packets') = p + 1
      /\ \A i \in 1..p : packets'[i] = packets[i]
      /\ packets'[p + 1] = completed[1]
  BY <1>1, <1>2, <1>3, ConcatOne
<1> HIDE DEF p
<1>5. ASSUME NEW m \in Messages, Delivered(m) PROVE Delivered(m)'
  <2>1. \A i \in 1..p : i \in 1..(p + 1) /\ packets'[i] = packets[i]
    BY <1>3, <1>4
  <2>2. CASE \E i \in 1..p : sent[m] = packets[i]
    <3>1. PICK i \in 1..p : sent[m] = packets[i]
      BY <2>2
    <3>2. i \in 1..Len(packets') /\ sent'[m] = packets'[i]
      BY <1>1, <1>4, <2>1, <3>1 DEF sendVars
    <3> QED
      BY <3>2 DEF Delivered
  <2>3. CASE sent[m] = completed[1]
    <3>1. p + 1 \in 1..Len(packets') /\ sent'[m] = packets'[p + 1]
      BY <1>1, <1>3, <1>4, <2>3 DEF sendVars
    <3> QED
      BY <3>1 DEF Delivered
  <2>4. \A i \in 1..Len(completed) : i = 1
    BY <1>3
  <2> QED
    BY <1>5, <2>2, <2>3, <2>4 DEF Delivered, p
<1>6. WireGrows
  BY <1>1 DEF WireGrows, sendVars
<1>7. HeldInv'
  BY <1>1, <1>2, <1>5, <1>6, HeldStable DEF ConfinedInv
<1>8. OrderInv' /\ SendingInv' /\ OkInv'
  BY <1>1 DEF ConfinedInv, OrderInv, SendingInv, OkInv, Before, LastRef, SegmentsOf, Messages,
              Idle, sendVars
<1> QED
  BY <1>7, <1>8 DEF ConfinedInv

(* The other steps touch none of the variables the invariant is about. *)
LEMMA OtherConfined ==
  ASSUME ConfinedInv, TypeOK', UNCHANGED <<sendVars, handled, buffer, completed, packets>>
  PROVE  ConfinedInv'
<1>1. WireGrows /\ SendTypeOK /\ RecvTypeOK /\ HeldInv
  BY DEF WireGrows, sendVars, ConfinedInv, TypeOK
<1>2. HeldInv'
  BY <1>1, HeldStable, DeliveredStable DEF sendVars
<1>3. OrderInv' /\ SendingInv' /\ OkInv'
  BY DEF ConfinedInv, OrderInv, SendingInv, OkInv, Before, LastRef, SegmentsOf, Messages,
         Idle, sendVars
<1> QED
  BY <1>2, <1>3 DEF ConfinedInv

LEMMA ConfinedStep ==
  ASSUME OneSender, ConfinedInv, TypeOK', [Next]_vars
  PROVE  ConfinedInv'
<1>1. CASE UNCHANGED vars
  BY <1>1, OtherConfined DEF vars, recvVars
<1>2. ASSUME NEW s \in Senders, SenderStep(s) PROVE ConfinedInv'
  BY <1>2, BeginSendConfined, SendSegmentConfined, GiveUpConfined DEF SenderStep, SendFails, CancelSend
<1>3. CASE OnMessage
  BY <1>3, OnMessageConfined
<1>4. CASE Enqueue
  BY <1>4, EnqueueConfined
<1>5. ASSUME NEW r \in Receivers, ReceiverStep(r) PROVE ConfinedInv'
  BY <1>5, OtherConfined DEF ReceiverStep, RecvEnter, RecvLock, RecvPacket, CancelRecv
<1>6. ASSUME NEW e \in Ends, EndStep(e) PROVE ConfinedInv'
  BY <1>6, OtherConfined
     DEF EndStep, AttachReliable, CloseFlag, CloseTransport, PeerCloses, recvVars
<1> QED
  BY <1>1, <1>2, <1>3, <1>4, <1>5, <1>6 DEF Next

LEMMA InitConfined == Init => ConfinedInv
<1> SUFFICES ASSUME Init PROVE ConfinedInv
  OBVIOUS
<1>1. TypeOK
  BY InitType
<1>2. wired = <<>> /\ sent = <<>> /\ handled = 0 /\ buffer = NewMessage
      /\ \A s \in Senders : sender[s] = Idle
  BY DEF Init
<1>3. Len(wired) = 0 /\ Messages = {}
  BY <1>2 DEF Messages
<1>4. OrderInv /\ SendingInv /\ OkInv /\ HeldInv
  BY <1>2, <1>3 DEF OrderInv, SendingInv, OkInv, HeldInv
<1> QED
  BY <1>1, <1>4 DEF ConfinedInv

LEMMA ConfinedInvariant == ASSUME OneSender PROVE Spec => []ConfinedInv
<1>1. ConfinedInv /\ TypeOK' /\ [Next]_vars => ConfinedInv'
  BY ConfinedStep
<1> QED
  BY <1>1, InitConfined, TypeCorrect, PTL DEF Spec

(* A successful send that follows a successful one, or is the first, is whole
   on the wire and begins after a last segment. *)
LEMMA CleanIsWhole ==
  ASSUME ConfinedInv, NEW m \in Messages, m = 1 \/ outcome[m - 1] = "ok",
         NEW k \in 1..Len(wired), wired[k] = LastRef(m)
  PROVE  /\ IsLast(wired[k])
         /\ \E p \in 1..k : Whole(p, k) /\ wired[p].msg = m
<1> DEFINE c == Len(SegmentsOf(m))
           p == k - c + 1
<1>1. SendTypeOK /\ OrderInv /\ OkInv /\ Len(wired) \in Nat /\ k \in Nat \ {0} /\ m \in Nat \ {0}
  BY DEF ConfinedInv, TypeOK, SendTypeOK, Messages
<1>2. wired[k].msg = m /\ wired[k].seg = c /\ c \in Nat \ {0}
  BY <1>1, SegmentFacts DEF LastRef
<1>3. IsLast(wired[k])
  BY <1>2 DEF IsLast
<1>4. c <= k /\ \A i \in 1..c : wired[k - c + i] = [msg |-> m, seg |-> i]
  BY <1>1, <1>2 DEF OrderInv
<1> HIDE DEF c
<1>5. p \in 1..k
  BY <1>1, <1>2, <1>4
<1>6. wired[p] = [msg |-> m, seg |-> 1]
  <2>1. 1 \in 1..c /\ p = k - c + 1
    BY <1>2
  <2> QED
    BY <1>4, <2>1
<1>7. ASSUME NEW j \in p..k PROVE wired[j] = [msg |-> m, seg |-> j - p + 1]
  <2>1. j - p + 1 \in 1..c /\ k - c + (j - p + 1) = j
    BY <1>1, <1>2, <1>4
  <2> QED
    BY <1>4, <2>1
<1>8. p = 1 \/ IsLast(wired[p - 1])
  <2> SUFFICES ASSUME p # 1 PROVE IsLast(wired[p - 1])
    OBVIOUS
  <2> HIDE DEF p
  <2>1. p - 1 \in 1..Len(wired) /\ p \in 1..Len(wired) /\ p \in Nat
    BY <1>1, <1>5
  <2> DEFINE prev == wired[p - 1]
  <2>2. /\ prev.msg \in Messages /\ prev.seg \in Nat \ {0} /\ prev.msg \in Nat \ {0}
        /\ prev.seg <= Len(SegmentsOf(prev.msg))
    <3>1. prev \in Refs
      BY <1>1, <2>1 DEF SendTypeOK
    <3> HIDE DEF prev
    <3>2. prev.msg \in Messages /\ prev.seg \in Nat \ {0} /\ prev.seg <= Len(SegmentsOf(prev.msg))
      BY <3>1 DEF Refs
    <3> QED
      BY <3>2 DEF Messages
  <2>3. Before(prev, wired[p])
    BY <1>1, <2>1 DEF OrderInv
  <2>4. prev.msg < m
    BY <1>1, <1>6, <2>2, <2>3 DEF Before
  <2>5. m - 1 \in Messages /\ outcome[m - 1] = "ok"
    <3>1. m # 1 /\ m - 1 \in Nat \ {0}
      BY <1>1, <2>2, <2>4
    <3> QED
      BY <3>1 DEF Messages
  <2>6. PICK j \in 1..Len(wired) : wired[j] = LastRef(m - 1)
    BY <1>1, <2>5 DEF OkInv
  <2>7. wired[j].msg = m - 1 /\ wired[j].seg = Len(SegmentsOf(m - 1)) /\ wired[j].seg \in Nat
    BY <1>1, <2>5, <2>6, SegmentFacts DEF LastRef
  (* It comes before the first segment of m, and nothing lies between. *)
  <2>8. ~Before(wired[p], wired[j]) /\ j # p
    BY <1>1, <1>6, <2>7 DEF Before
  <2>9. j < p
    <3>1. j \in Nat /\ (p < j => Before(wired[p], wired[j]))
      BY <1>1, <2>1 DEF OrderInv
    <3> QED
      BY <2>1, <2>8, <3>1
  <2>10. j = p - 1
    <3> SUFFICES ASSUME j # p - 1 PROVE FALSE
      OBVIOUS
    <3>1. j < p - 1
      BY <2>1, <2>9
    <3>2. Before(wired[j], prev)
      BY <1>1, <2>1, <3>1 DEF OrderInv
    <3> HIDE DEF prev
    <3>3. prev.msg = m - 1 /\ wired[j].seg < prev.seg
      BY <1>1, <2>2, <2>4, <2>7, <3>2 DEF Before
    <3>4. prev.seg <= Len(SegmentsOf(m - 1))
      BY <2>2, <3>3
    <3> QED
      BY <2>2, <2>7, <3>3, <3>4
  <2> QED
    BY <2>7, <2>10 DEF IsLast
<1>9. Whole(p, k) /\ wired[p].msg = m
  <2>1. wired[p].msg = m
    BY <1>6
  <2> HIDE DEF p
  <2> QED
    BY <1>7, <1>8, <2>1 DEF Whole
<1> QED
  BY <1>3, <1>5, <1>9

(* A send that is dropped halfway can cost the message after it, and no later
   one: what a torn message leaves in the accumulator does not outlive the
   next last segment. *)
THEOREM DamageStaysConfined == ASSUME OneSender PROVE Spec => []DamageConfined
<1>1. ConfinedInv => DamageConfined
  <2> SUFFICES ASSUME ConfinedInv, NEW m \in Messages,
                      m = 1 \/ outcome[m - 1] = "ok", FullyHandled(m)
               PROVE  Delivered(m)
    BY DEF DamageConfined
  <2>1. handled \in 0..Len(wired) /\ Len(wired) \in Nat
    BY TypeFacts DEF ConfinedInv
  <2>2. PICK k \in 1..handled : wired[k] = LastRef(m)
    BY DEF FullyHandled
  <2>3. k \in 1..Len(wired)
    BY <2>1
  <2>4. IsLast(wired[k]) /\ \E p \in 1..k : Whole(p, k) /\ wired[p].msg = m
    BY <2>2, <2>3, CleanIsWhole
  <2>5. PICK p \in 1..k : Whole(p, k) /\ wired[p].msg = m
    BY <2>4
  <2> QED
    BY <2>4, <2>5 DEF ConfinedInv, HeldInv
<1> QED
  BY <1>1, ConfinedInvariant, PTL
=============================================================================
