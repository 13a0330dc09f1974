----------------------- MODULE NethernetSystemProofs -----------------------
(***************************************************************************)
(* For any number of candidates, offers and signals and any capacity of    *)
(* the ring: what connect does with the candidates it is sent, and that a  *)
(* client and a listener that are put together each still behave as they   *)
(* do alone.                                                               *)
(***************************************************************************)
EXTENDS NethernetSystem, SequenceTheorems, WellFoundedInduction, TLAPS

-----------------------------------------------------------------------------
(* The types of connect *)

LEMMA InitType == Init => TypeOK
<1> SUFFICES ASSUME Init PROVE TypeOK
  OBVIOUS
<1>1. unread \in Seq(Signals) /\ Len(unread) = 0 /\ published \in Seq(Signals)
  BY DEF Init
<1>2. buffered \in Seq(Candidates) /\ applied \in Seq(Candidates)
  BY DEF Init
<1>3. Len(unread) <= RingCapacity
  BY <1>1, ConnectAssumption
<1> QED
  BY <1>1, <1>2, <1>3 DEF Init, TypeOK

\* A signal is read.
LEMMA ReadType ==
  ASSUME TypeOK, unread # <<>>, unread' = Tail(unread)
  PROVE  unread' \in Seq(Signals) /\ Len(unread') <= RingCapacity
<1>1. unread \in Seq(Signals) /\ Len(unread) <= RingCapacity /\ RingCapacity \in Nat
  BY ConnectAssumption DEF TypeOK
<1> QED
  BY <1>1, HeadTailProperties

LEMMA PublishType ==
  ASSUME TypeOK, NEW signal \in Signals, Publish(signal)
  PROVE  TypeOK'
<1>1. /\ unread \in Seq(Signals) /\ Len(unread) <= RingCapacity
      /\ RingCapacity \in Nat \ {0} /\ published \in Seq(Signals)
  BY ConnectAssumption DEF TypeOK
<1>2. unread' \in Seq(Signals) /\ Len(unread') <= RingCapacity
  <2>1. CASE Len(unread) < RingCapacity
    BY <1>1, <2>1 DEF Publish
  <2>2. CASE ~(Len(unread) < RingCapacity)
    <3>1. unread # <<>> /\ unread' = Append(Tail(unread), signal)
      BY <1>1, <2>2 DEF Publish
    <3>2. Tail(unread) \in Seq(Signals) /\ Len(Tail(unread)) = Len(unread) - 1
      BY <1>1, <3>1, HeadTailProperties
    <3> QED
      BY <1>1, <3>1, <3>2
  <2> QED
    BY <2>1, <2>2
<1>3. published' \in Seq(Signals) /\ lagged' \in BOOLEAN
  BY <1>1 DEF Publish, TypeOK
<1> QED
  BY <1>2, <1>3 DEF TypeOK, Publish, candidateVars, taskVars, libraryVars

LEMMA TypeStep == TypeOK /\ [Next]_connectVars => TypeOK'
<1> SUFFICES ASSUME TypeOK, [Next]_connectVars PROVE TypeOK'
  OBVIOUS
<1>1. CASE UNCHANGED connectVars
  BY <1>1 DEF TypeOK, connectVars, signalVars, candidateVars, taskVars, libraryVars
<1>2. CASE Prepare \/ Subscribe \/ SendOffer \/ SetRemoteDescription \/ SpawnReader \/ BothOpen
  BY <1>2 DEF Prepare, Subscribe, SendOffer, SetRemoteDescription, SpawnReader, BothOpen, Goto,
              TypeOK, signalVars, candidateVars, taskVars, libraryVars
<1>3. CASE \/ OpenTimeout \/ IcePolled \/ IceTimeout \/ StepFails \/ DropConnect \/ NoMoreSignals
  BY <1>3 DEF OpenTimeout, IcePolled, IceTimeout, StepFails, DropConnect, NoMoreSignals, Return,
              TypeOK, signalVars, candidateVars, taskVars, libraryVars
<1>4. CASE AwaitAnswer
  <2>1. unread' \in Seq(Signals) /\ Len(unread') <= RingCapacity
    BY <1>4, ReadType DEF AwaitAnswer
  <2>2. buffered' \in Seq(Candidates)
    BY <1>4 DEF AwaitAnswer, TypeOK
  <2> QED
    BY <1>4, <2>1, <2>2 DEF AwaitAnswer, Goto, TypeOK, taskVars, libraryVars
<1>5. CASE AddBuffered
  <2>1. Head(buffered) \in Candidates /\ Tail(buffered) \in Seq(Candidates)
    BY <1>5, HeadTailProperties DEF AddBuffered, TypeOK
  <2> QED
    BY <1>5, <2>1 DEF AddBuffered, TypeOK, signalVars, taskVars, libraryVars
<1>6. CASE ReaderReads
  <2>1. unread' \in Seq(Signals) /\ Len(unread') <= RingCapacity
    BY <1>6, ReadType DEF ReaderReads
  <2>2. applied' \in Seq(Candidates)
    BY <1>6 DEF ReaderReads, TypeOK
  <2> QED
    BY <1>6, <2>1, <2>2 DEF ReaderReads, TypeOK, taskVars, libraryVars
<1>7. CASE ReaderEnds
  BY <1>7 DEF ReaderEnds, TypeOK, signalVars, candidateVars, libraryVars
<1>8. CASE StreamEnds
  BY <1>8 DEF StreamEnds, TypeOK, candidateVars, taskVars, libraryVars
<1>9. ASSUME NEW label \in DataChannels, OpenChannel(label) PROVE TypeOK'
  BY <1>9 DEF OpenChannel, TypeOK, signalVars, candidateVars, taskVars
<1>10. ASSUME NEW state \in {"connected", "failed"}, IceChanges(state) PROVE TypeOK'
  BY <1>10 DEF IceChanges, TypeOK, signalVars, candidateVars, taskVars
<1> QED
  BY <1>1, <1>2, <1>3, <1>4, <1>5, <1>6, <1>7, <1>8, <1>9, <1>10, PublishType
     DEF Next, ConnectStep, ConnectRuns, ReaderStep

(* stream.rs:73: whatever the signaller, the library and the caller do, connect
   returns once, and the ring of its subscription never holds more than its
   capacity. *)
THEOREM ConnectTypeCorrect == Spec => []TypeOK
<1> QED
  BY InitType, TypeStep, PTL DEF Spec
-----------------------------------------------------------------------------
(* Candidates are added after the remote description *)

TheSignals(s) == {s[k] : k \in 1..Len(s)}

\* How far connect is when the answer is known, and when its task runs.
AnswerInv ==
  /\ TheSignals(unread) \subseteq TheSignals(published)
  /\ phase \in {"answered", "remote", "opening", "connecting"} => "answer" \in TheSignals(published)
  /\ reader # "none" => /\ phase \in {"opening", "connecting", "returned"}
                        /\ "answer" \in TheSignals(published)
  /\ AddedAfterRemote

\* A signal is read.
LEMMA ReadRange ==
  ASSUME TypeOK, AnswerInv, unread # <<>>
  PROVE  /\ Head(unread) \in TheSignals(published)
         /\ TheSignals(Tail(unread)) \subseteq TheSignals(published)
<1>1. unread \in Seq(Signals) /\ Len(unread) \in Nat /\ Len(unread) >= 1
  BY DEF TypeOK
<1>2. /\ Head(unread) = unread[1] /\ Len(Tail(unread)) = Len(unread) - 1
      /\ \A k \in 1..Len(Tail(unread)) : Tail(unread)[k] = unread[k + 1]
  BY <1>1, HeadTailProperties
<1>3. \A k \in 1..Len(Tail(unread)) : Tail(unread)[k] \in TheSignals(unread)
  BY <1>1, <1>2 DEF TheSignals
<1>4. Head(unread) \in TheSignals(unread)
  BY <1>1, <1>2 DEF TheSignals
<1>5. TheSignals(Tail(unread)) \subseteq TheSignals(unread)
  BY <1>3 DEF TheSignals
<1>6. TheSignals(unread) \subseteq TheSignals(published)
  BY DEF AnswerInv
<1> QED
  BY <1>4, <1>5, <1>6

LEMMA AppendSignals ==
  ASSUME NEW S, NEW s \in Seq(S), NEW x \in S
  PROVE  TheSignals(Append(s, x)) = TheSignals(s) \cup {x}
<1> DEFINE t == Append(s, x)
<1>1. /\ Len(s) \in Nat /\ Len(t) = Len(s) + 1 /\ t[Len(s) + 1] = x
      /\ \A k \in 1..Len(s) : t[k] = s[k]
  BY AppendProperties
<1> HIDE DEF t
<1>2. ASSUME NEW k \in 1..Len(t) PROVE t[k] \in TheSignals(s) \cup {x}
  <2>1. k \in 1..Len(s) \/ k = Len(s) + 1
    BY <1>1
  <2> QED
    BY <1>1, <2>1 DEF TheSignals
<1>3. x \in TheSignals(t)
  <2>1. Len(s) + 1 \in 1..Len(t)
    BY <1>1
  <2> QED
    BY <1>1, <2>1 DEF TheSignals
<1>4. ASSUME NEW k \in 1..Len(s) PROVE s[k] \in TheSignals(t)
  <2>1. k \in 1..Len(t) /\ t[k] = s[k]
    BY <1>1
  <2> QED
    BY <2>1 DEF TheSignals
<1>5. TheSignals(t) \subseteq TheSignals(s) \cup {x}
  BY <1>2 DEF TheSignals
<1>6. TheSignals(s) \subseteq TheSignals(t)
  BY <1>4 DEF TheSignals
<1> QED
  BY <1>3, <1>5, <1>6 DEF t

LEMMA PublishRange ==
  ASSUME TypeOK, AnswerInv, NEW signal \in Signals, Publish(signal)
  PROVE  /\ TheSignals(published) \subseteq TheSignals(published')
         /\ TheSignals(unread') \subseteq TheSignals(published')
<1>1. unread \in Seq(Signals) /\ published \in Seq(Signals)
  BY DEF TypeOK
<1>2. TheSignals(published') = TheSignals(published) \cup {signal}
  BY <1>1, AppendSignals DEF Publish
<1> DEFINE kept == IF Len(unread) < RingCapacity THEN unread ELSE Tail(unread)
<1>3. kept \in Seq(Signals) /\ TheSignals(kept) \subseteq TheSignals(published)
  <2>1. CASE Len(unread) < RingCapacity
    BY <1>1, <2>1 DEF AnswerInv
  <2>2. CASE ~(Len(unread) < RingCapacity)
    <3>1. unread # <<>>
      BY <1>1, <2>2, ConnectAssumption
    <3>2. Tail(unread) \in Seq(Signals)
      BY <1>1, <3>1, HeadTailProperties
    <3> QED
      BY <2>2, <3>1, <3>2, ReadRange
  <2> QED
    BY <2>1, <2>2
<1>4. unread' = Append(kept, signal)
  BY DEF Publish
<1> HIDE DEF kept
<1>5. TheSignals(unread') = TheSignals(kept) \cup {signal}
  BY <1>3, <1>4, AppendSignals
<1> QED
  BY <1>2, <1>3, <1>5

LEMMA AnswerStep ==
  ASSUME TypeOK, AnswerInv, [Next]_connectVars
  PROVE  AnswerInv'
<1> USE DEF AnswerInv, AddedAfterRemote
<1>1. CASE UNCHANGED connectVars
  BY <1>1 DEF connectVars, signalVars, candidateVars, taskVars, TheSignals
<1>2. CASE Prepare \/ Subscribe \/ SendOffer \/ SetRemoteDescription \/ SpawnReader \/ BothOpen
  BY <1>2 DEF Prepare, Subscribe, SendOffer, SetRemoteDescription, SpawnReader, BothOpen, Goto,
              signalVars, candidateVars, taskVars, TheSignals
<1>3. CASE \/ OpenTimeout \/ IcePolled \/ IceTimeout \/ StepFails \/ DropConnect \/ NoMoreSignals
  BY <1>3 DEF OpenTimeout, IcePolled, IceTimeout, StepFails, DropConnect, NoMoreSignals, Return,
              signalVars, candidateVars, taskVars, TheSignals
<1>4. CASE AwaitAnswer
  <2>1. Head(unread) \in TheSignals(published) /\ TheSignals(unread') \subseteq TheSignals(published)
    BY <1>4, ReadRange DEF AwaitAnswer
  <2>2. TheSignals(published') = TheSignals(published)
    BY <1>4 DEF AwaitAnswer, TheSignals
  <2>3. phase = "offered" /\ phase' \in {"offered", "answered"}
        /\ (phase' = "answered" => Head(unread) = "answer")
    BY <1>4 DEF AwaitAnswer, Goto
  <2>4. reader' = reader /\ applied' = applied /\ published' = published
    BY <1>4 DEF AwaitAnswer, taskVars
  <2> QED
    BY <2>1, <2>2, <2>3, <2>4 DEF TheSignals
<1>5. CASE AddBuffered
  BY <1>5 DEF AddBuffered, signalVars, taskVars, TheSignals
<1>6. CASE ReaderReads
  <2>1. TheSignals(unread') \subseteq TheSignals(published)
    BY <1>6, ReadRange DEF ReaderReads
  <2>2. UNCHANGED <<phase, published, reader>> /\ reader = "running"
    BY <1>6 DEF ReaderReads, taskVars
  <2> QED
    BY <2>1, <2>2 DEF TheSignals
<1>7. CASE ReaderEnds
  BY <1>7 DEF ReaderEnds, signalVars, candidateVars, TheSignals
<1>8. CASE StreamEnds
  BY <1>8 DEF StreamEnds, candidateVars, taskVars, TheSignals
<1>9. ASSUME NEW label \in DataChannels, OpenChannel(label) PROVE AnswerInv'
  BY <1>9 DEF OpenChannel, signalVars, candidateVars, taskVars, TheSignals
<1>10. ASSUME NEW state \in {"connected", "failed"}, IceChanges(state) PROVE AnswerInv'
  BY <1>10 DEF IceChanges, signalVars, candidateVars, taskVars, TheSignals
<1>11. ASSUME NEW signal \in Signals, Publish(signal) PROVE AnswerInv'
  <2>1. /\ TheSignals(published) \subseteq TheSignals(published')
        /\ TheSignals(unread') \subseteq TheSignals(published')
    BY <1>11, PublishRange
  <2>2. UNCHANGED <<phase, applied, reader>>
    BY <1>11 DEF Publish, candidateVars, taskVars
  <2> QED
    BY <2>1, <2>2 DEF TheSignals
<1> HIDE DEF AnswerInv, AddedAfterRemote
<1> QED
  BY <1>1, <1>2, <1>3, <1>4, <1>5, <1>6, <1>7, <1>8, <1>9, <1>10, <1>11
     DEF Next, ConnectStep, ConnectRuns, ReaderStep

LEMMA AnswerInvariant == Spec => []AnswerInv
<1>1. Init => AnswerInv
  <2> SUFFICES ASSUME Init PROVE AnswerInv
    OBVIOUS
  <2>1. TheSignals(unread) = {}
    BY DEF Init, TheSignals
  <2> QED
    BY <2>1 DEF Init, AnswerInv, AddedAfterRemote
<1> QED
  BY <1>1, AnswerStep, ConnectTypeCorrect, PTL DEF Spec

(* stream.rs:195: no candidate reaches the peer connection before the remote
   description, neither by the buffer nor by the task, which takes over the
   same subscription. *)
THEOREM CandidatesComeAfterRemote == Spec => []AddedAfterRemote
<1>1. AnswerInv => AddedAfterRemote
  BY DEF AnswerInv
<1> QED
  BY <1>1, AnswerInvariant, PTL
-----------------------------------------------------------------------------
(* The candidates among the signals *)

(* Induction, for a set of numbers. *)
LEMMA NatSetInduction ==
  ASSUME NEW T, T \subseteq Nat, 0 \in T, \A n \in T : n + 1 \in T
  PROVE  T = Nat
<1> SUFFICES ASSUME T # Nat PROVE FALSE
  OBVIOUS
<1> DEFINE Missing == Nat \ T
<1>1. Missing \subseteq Nat /\ Missing # {}
  OBVIOUS
<1>2. PICK m \in Missing : \A k \in Missing : <<k, m>> \notin OpToRel(<, Nat)
  BY <1>1, WFMin, NatLessThanWellFounded, Zenon
<1>3. ASSUME NEW k \in Missing PROVE ~(k < m)
  BY <1>2, Zenon DEF OpToRel
<1>4. m # 0 /\ m - 1 \in Nat /\ m - 1 < m /\ (m - 1) + 1 = m
  OBVIOUS
<1>5. m - 1 \in T
  BY <1>3, <1>4
<1> QED
  BY <1>4, <1>5

\* One signal more.
Among(found, signal) == IF signal \in Candidates THEN Append(found, signal) ELSE found

\* f collects the candidates of the first n signals of s.
Collects(f, s, n) ==
  f = [k \in 0..n |-> IF k = 0 THEN <<>> ELSE Among(f[k - 1], s[k])]

LEMMA CollectsFacts ==
  ASSUME NEW f, NEW s, NEW n \in Nat, Collects(f, s, n)
  PROVE  /\ f[0] = <<>>
         /\ \A k \in 1..n : f[k] = Among(f[k - 1], s[k])
<1> DEFINE body(g) == [k \in 0..n |-> IF k = 0 THEN <<>> ELSE Among(g[k - 1], s[k])]
<1>1. f = body(f)
  BY DEF Collects
<1>2. body(f)[0] = <<>> /\ \A k \in 1..n : body(f)[k] = Among(f[k - 1], s[k])
  OBVIOUS
<1> HIDE DEF body
<1> QED
  BY <1>1, <1>2

LEMMA CollectsExists ==
  ASSUME NEW s
  PROVE  \A n \in Nat : \E f : Collects(f, s, n)
<1> DEFINE T == {n \in Nat : \E f : Collects(f, s, n)}
<1>1. 0 \in T
  <2>1. Collects([k \in 0..0 |-> <<>>], s, 0)
    BY DEF Collects
  <2> QED
    BY <2>1
<1>2. ASSUME NEW n \in T PROVE n + 1 \in T
  <2>1. PICK f : Collects(f, s, n)
    OBVIOUS
  <2>2. f[0] = <<>> /\ \A k \in 1..n : f[k] = Among(f[k - 1], s[k])
    BY <2>1, CollectsFacts
  <2> DEFINE g == [k \in 0..(n + 1) |-> IF k = n + 1 THEN Among(f[n], s[n + 1]) ELSE f[k]]
             h == [k \in 0..(n + 1) |-> IF k = 0 THEN <<>> ELSE Among(g[k - 1], s[k])]
  <2>3. ASSUME NEW k \in 0..(n + 1) PROVE g[k] = h[k]
    <3>1. CASE k = 0
      BY <2>2, <3>1
    <3>2. CASE k \in 1..n
      BY <2>2, <3>2
    <3>3. CASE k = n + 1
      BY <3>3
    <3> QED
      BY <3>1, <3>2, <3>3
  <2>4. g = h
    BY <2>3
  <2>5. Collects(g, s, n + 1)
    BY <2>4, Zenon DEF Collects
  <2> QED
    BY <2>5
<1> HIDE DEF T
<1>3. T = Nat
  <2>1. T \subseteq Nat
    BY DEF T
  <2> QED
    BY <1>1, <1>2, <2>1, NatSetInduction
<1> QED
  BY <1>3 DEF T

\* It is determined by the first n signals.
LEMMA CollectsUnique ==
  ASSUME NEW f, NEW g, NEW s, NEW t, NEW m \in Nat, NEW n \in 0..m,
         Collects(f, s, m), Collects(g, t, n), \A k \in 1..n : s[k] = t[k]
  PROVE  \A k \in 0..n : f[k] = g[k]
<1> DEFINE T == {k \in Nat : k \in 0..n => f[k] = g[k]}
<1>1. /\ f[0] = <<>> /\ \A k \in 1..m : f[k] = Among(f[k - 1], s[k])
      /\ g[0] = <<>> /\ \A k \in 1..n : g[k] = Among(g[k - 1], t[k])
  BY CollectsFacts
<1>2. 0 \in T
  BY <1>1
<1>3. ASSUME NEW k \in T PROVE k + 1 \in T
  <2> SUFFICES ASSUME k + 1 \in 0..n PROVE f[k + 1] = g[k + 1]
    OBVIOUS
  <2>1. k \in 0..n /\ k + 1 \in 1..n /\ k + 1 \in 1..m /\ (k + 1) - 1 = k
    OBVIOUS
  <2> QED
    BY <1>1, <2>1
<1> HIDE DEF T
<1>4. T = Nat
  <2>1. T \subseteq Nat
    BY DEF T
  <2> QED
    BY <1>2, <1>3, <2>1, NatSetInduction
<1> QED
  BY <1>4 DEF T

LEMMA CandidatesInFacts ==
  ASSUME NEW s, Len(s) \in Nat
  PROVE  \E f : Collects(f, s, Len(s)) /\ CandidatesIn(s) = f[Len(s)]
<1> DEFINE F == CHOOSE f : Collects(f, s, Len(s))
<1>1. Collects(F, s, Len(s))
  BY CollectsExists
<1>2. CandidatesIn(s) = F[Len(s)]
  BY Zenon DEF CandidatesIn, Collects, Among
<1> QED
  BY <1>1, <1>2

LEMMA CandidatesInEmpty == CandidatesIn(<<>>) = <<>>
<1>1. Len(<<>>) = 0
  OBVIOUS
<1>2. PICK f : Collects(f, <<>>, 0) /\ CandidatesIn(<<>>) = f[0]
  BY <1>1, CandidatesInFacts
<1> QED
  BY <1>2, CollectsFacts

LEMMA CandidatesInAppend ==
  ASSUME NEW s \in Seq(Signals), NEW x \in Signals
  PROVE  CandidatesIn(Append(s, x)) = Among(CandidatesIn(s), x)
<1> DEFINE t == Append(s, x)
           n == Len(s)
<1>1. n \in Nat /\ Len(t) = n + 1 /\ t[n + 1] = x /\ \A k \in 1..n : t[k] = s[k]
  BY AppendProperties
<1> HIDE DEF t, n
<1>2. PICK f : Collects(f, t, n + 1) /\ CandidatesIn(t) = f[n + 1]
  BY <1>1, CandidatesInFacts
<1>3. PICK g : Collects(g, s, n) /\ CandidatesIn(s) = g[n]
  BY <1>1, CandidatesInFacts DEF n
<1>4. f[n] = g[n]
  BY <1>1, <1>2, <1>3, CollectsUnique
<1>5. f[n + 1] = Among(f[n], t[n + 1])
  BY <1>1, <1>2, CollectsFacts
<1> QED
  BY <1>1, <1>2, <1>3, <1>4, <1>5 DEF t

LEMMA AmongType ==
  ASSUME NEW found \in Seq(Candidates), NEW x PROVE Among(found, x) \in Seq(Candidates)
BY DEF Among

\* A sequence of signals that is not empty is one that got a signal more.
LEMMA SignalsSplit ==
  ASSUME NEW s \in Seq(Signals), NEW n \in Nat, Len(s) = n + 1
  PROVE  \E t \in Seq(Signals), x \in Signals : s = Append(t, x) /\ Len(t) = n
<1>1. s # <<>>
  BY Len(<<>>) = 0
<1>2. PICK t \in Seq(Signals), x \in Signals : s = Append(t, x)
  BY <1>1, SequenceEmptyOrAppend
<1>3. Len(s) = Len(t) + 1 /\ Len(t) \in Nat
  BY <1>2, AppendProperties
<1> QED
  BY <1>2, <1>3

LEMMA CandidatesInType ==
  ASSUME NEW s \in Seq(Signals) PROVE CandidatesIn(s) \in Seq(Candidates)
<1> DEFINE T == {n \in Nat : \A t \in Seq(Signals) : Len(t) = n => CandidatesIn(t) \in Seq(Candidates)}
<1>1. 0 \in T
  <2> SUFFICES ASSUME NEW t \in Seq(Signals), Len(t) = 0 PROVE CandidatesIn(t) \in Seq(Candidates)
    OBVIOUS
  <2>1. t = <<>>
    OBVIOUS
  <2> QED
    BY <2>1, CandidatesInEmpty, EmptySeq
<1>2. ASSUME NEW n \in T PROVE n + 1 \in T
  <2> SUFFICES ASSUME NEW t \in Seq(Signals), Len(t) = n + 1
               PROVE  CandidatesIn(t) \in Seq(Candidates)
    OBVIOUS
  <2>1. PICK u \in Seq(Signals), x \in Signals : t = Append(u, x) /\ Len(u) = n
    BY SignalsSplit
  <2>2. CandidatesIn(u) \in Seq(Candidates)
    BY <2>1
  <2> QED
    BY <2>1, <2>2, CandidatesInAppend, AmongType
<1> HIDE DEF T
<1>3. T = Nat
  <2>1. T \subseteq Nat
    BY DEF T
  <2> QED
    BY <1>1, <1>2, <2>1, NatSetInduction
<1> QED
  BY <1>3, LenProperties DEF T

LEMMA AmongConcat ==
  ASSUME NEW a \in Seq(Candidates), NEW b \in Seq(Candidates), NEW x
  PROVE  a \o Among(b, x) = Among(a \o b, x)
<1>1. CASE x \in Candidates
  <2>1. /\ Append(b, x) = b \o <<x>> /\ <<x>> \in Seq(Candidates)
        /\ Append(a \o b, x) = (a \o b) \o <<x>>
    BY <1>1, AppendIsConcat
  <2> QED
    BY <1>1, <2>1, ConcatAssociative DEF Among
<1>2. CASE x \notin Candidates
  BY <1>2 DEF Among
<1> QED
  BY <1>1, <1>2

\* A signal is taken from the front.
LEMMA CandidatesInTail ==
  ASSUME NEW s \in Seq(Signals), s # <<>>
  PROVE  CandidatesIn(s) = Among(<<>>, Head(s)) \o CandidatesIn(Tail(s))
<1> DEFINE Claim(t) == CandidatesIn(t) = Among(<<>>, Head(t)) \o CandidatesIn(Tail(t))
           T == {n \in Nat : \A t \in Seq(Signals) : Len(t) = n + 1 => Claim(t)}
<1> HIDE DEF Claim
<1>1. 0 \in T
  <2> SUFFICES ASSUME NEW t \in Seq(Signals), Len(t) = 0 + 1 PROVE Claim(t)
    OBVIOUS
  <2>1. PICK u \in Seq(Signals), x \in Signals : t = Append(u, x) /\ Len(u) = 0
    BY SignalsSplit
  <2>2. u = <<>> /\ Head(t) = x /\ Tail(t) = <<>>
    BY <2>1
  <2>3. CandidatesIn(t) = Among(<<>>, x)
    BY <2>1, <2>2, CandidatesInEmpty, CandidatesInAppend
  <2>4. Among(<<>>, x) \in Seq(Candidates)
    BY AmongType, EmptySeq
  <2>5. Among(<<>>, x) \o <<>> = Among(<<>>, x)
    BY <2>4, ConcatEmptySeq
  <2> QED
    BY <2>2, <2>3, <2>5, CandidatesInEmpty DEF Claim
<1>2. ASSUME NEW n \in T PROVE n + 1 \in T
  <2> SUFFICES ASSUME NEW t \in Seq(Signals), Len(t) = (n + 1) + 1 PROVE Claim(t)
    OBVIOUS
  <2>0. n + 1 \in Nat
    OBVIOUS
  <2>1. PICK u \in Seq(Signals), x \in Signals : t = Append(u, x) /\ Len(u) = n + 1
    BY <2>0, SignalsSplit
  <2>2. Claim(u) /\ u # <<>>
    BY <2>1, Len(<<>>) = 0
  <2>3. /\ Head(t) = Head(u) /\ Tail(t) = Append(Tail(u), x)
        /\ Tail(u) \in Seq(Signals) /\ Head(u) \in Signals
    BY <2>1, <2>2, HeadTailAppend, HeadTailProperties
  <2>4. /\ CandidatesIn(t) = Among(CandidatesIn(u), x)
        /\ CandidatesIn(Tail(t)) = Among(CandidatesIn(Tail(u)), x)
    BY <2>1, <2>3, CandidatesInAppend
  <2>5. /\ Among(<<>>, Head(u)) \in Seq(Candidates)
        /\ CandidatesIn(Tail(u)) \in Seq(Candidates)
    BY <2>3, AmongType, CandidatesInType, EmptySeq
  <2> QED
    BY <2>2, <2>3, <2>4, <2>5, AmongConcat DEF Claim
<1> HIDE DEF T
<1>3. T = Nat
  <2>1. T \subseteq Nat
    BY DEF T
  <2> QED
    BY <1>1, <1>2, <2>1, NatSetInduction
<1>4. Len(s) - 1 \in Nat /\ Len(s) = (Len(s) - 1) + 1
  BY LenProperties, EmptySeq
<1> QED
  BY <1>3, <1>4 DEF T, Claim
-----------------------------------------------------------------------------
(* No candidate is missed *)

\* The task that reads the signals finds the buffer empty.
MissInv == NoneMissed /\ (reader # "none" => buffered = <<>>)

LEMMA MissRead ==
  ASSUME TypeOK, MissInv, unread # <<>>, ~lagged
  PROVE  CandidatesIn(published) =
           (applied \o buffered) \o (Among(<<>>, Head(unread)) \o CandidatesIn(Tail(unread)))
<1>1. unread \in Seq(Signals)
  BY DEF TypeOK
<1> QED
  BY <1>1, CandidatesInTail DEF MissInv, NoneMissed

LEMMA AmongShifts ==
  ASSUME NEW a \in Seq(Candidates), NEW c \in Seq(Candidates), NEW x
  PROVE  a \o (Among(<<>>, x) \o c) = Among(a, x) \o c
<1> DEFINE b == Among(<<>>, x)
<1>1. <<>> \in Seq(Candidates)
  BY EmptySeq
<1>2. b \in Seq(Candidates)
  BY <1>1, AmongType
<1>3. a \o b = Among(a \o <<>>, x)
  BY <1>1, AmongConcat
<1>4. a \o <<>> = a
  BY ConcatEmptySeq
<1> HIDE DEF b
<1>5. (a \o b) \o c = a \o (b \o c)
  BY <1>2, ConcatAssociative, SMTT(30)
<1> QED
  BY <1>3, <1>4, <1>5 DEF b

LEMMA MissStep ==
  ASSUME TypeOK, AnswerInv, MissInv, [Next]_connectVars
  PROVE  MissInv'
<1> USE DEF MissInv, NoneMissed
<1>0. /\ unread \in Seq(Signals) /\ published \in Seq(Signals)
      /\ applied \in Seq(Candidates) /\ buffered \in Seq(Candidates)
      /\ applied \o buffered \in Seq(Candidates)
      /\ lagged \in BOOLEAN
  BY DEF TypeOK
<1>1. ASSUME UNCHANGED <<unread, published, lagged, applied, buffered>>,
             reader' = reader \/ buffered = <<>> \/ reader # "none"
      PROVE  MissInv'
  BY <1>1
<1>2. CASE UNCHANGED connectVars
  BY <1>1, <1>2 DEF connectVars, signalVars, candidateVars, taskVars, libraryVars
<1>3. CASE Prepare \/ Subscribe \/ SendOffer \/ SetRemoteDescription \/ SpawnReader \/ BothOpen
  BY <1>1, <1>3 DEF Prepare, Subscribe, SendOffer, SetRemoteDescription, SpawnReader, BothOpen,
              signalVars, candidateVars, taskVars
<1>4. CASE \/ OpenTimeout \/ IcePolled \/ IceTimeout \/ StepFails \/ DropConnect \/ NoMoreSignals
  BY <1>1, <1>4 DEF OpenTimeout, IcePolled, IceTimeout, StepFails, DropConnect, NoMoreSignals,
              signalVars, candidateVars, taskVars
<1>5. CASE ReaderEnds \/ StreamEnds
  BY <1>1, <1>5 DEF ReaderEnds, StreamEnds, signalVars, candidateVars, taskVars
<1>6. ASSUME NEW label \in DataChannels, OpenChannel(label) PROVE MissInv'
  BY <1>1, <1>6 DEF OpenChannel, signalVars, candidateVars, taskVars
<1>7. ASSUME NEW state \in {"connected", "failed"}, IceChanges(state) PROVE MissInv'
  BY <1>1, <1>7 DEF IceChanges, signalVars, candidateVars, taskVars
(* The answer loop: from the subscription to the buffer. *)
<1>8. CASE AwaitAnswer
  <2>1. /\ unread # <<>> /\ unread' = Tail(unread) /\ buffered' = Among(buffered, Head(unread))
        /\ UNCHANGED <<published, lagged, applied, reader>> /\ phase = "offered"
    BY <1>8 DEF AwaitAnswer, Among, taskVars
  <2>2. reader = "none"
    BY <2>1 DEF AnswerInv
  <2>3. ASSUME ~lagged
        PROVE  CandidatesIn(published) = (applied \o buffered') \o CandidatesIn(unread')
    <3>1. Tail(unread) \in Seq(Signals)
      BY <1>0, <2>1, HeadTailProperties
    <3>2. CandidatesIn(Tail(unread)) \in Seq(Candidates)
      BY <3>1, CandidatesInType
    <3>3. CandidatesIn(published) =
            (applied \o buffered) \o (Among(<<>>, Head(unread)) \o CandidatesIn(Tail(unread)))
      BY <2>1, <2>3, MissRead
    <3>4. CandidatesIn(published) =
            Among(applied \o buffered, Head(unread)) \o CandidatesIn(Tail(unread))
      BY <1>0, <3>2, <3>3, AmongShifts
    <3>5. Among(applied \o buffered, Head(unread)) = applied \o buffered'
      BY <1>0, <2>1, AmongConcat
    <3> QED
      BY <2>1, <3>4, <3>5
  <2> QED
    BY <2>1, <2>2, <2>3
(* The task: from the subscription to the library, past the empty buffer. *)
<1>9. CASE ReaderReads
  <2>1. /\ unread # <<>> /\ unread' = Tail(unread) /\ applied' = Among(applied, Head(unread))
        /\ UNCHANGED <<published, lagged, buffered, reader>> /\ reader = "running"
    BY <1>9 DEF ReaderReads, Among, taskVars
  <2>2. buffered = <<>>
    BY <2>1
  <2>3. ASSUME ~lagged
        PROVE  CandidatesIn(published) = (applied' \o buffered') \o CandidatesIn(unread')
    <3>1. Tail(unread) \in Seq(Signals)
      BY <1>0, <2>1, HeadTailProperties
    <3>2. CandidatesIn(Tail(unread)) \in Seq(Candidates)
      BY <3>1, CandidatesInType
    <3>3. CandidatesIn(published) =
            (applied \o buffered) \o (Among(<<>>, Head(unread)) \o CandidatesIn(Tail(unread)))
      BY <2>1, <2>3, MissRead
    <3>4. applied \o buffered = applied
      BY <1>0, <2>2, ConcatEmptySeq
    <3>5. CandidatesIn(published) = applied' \o CandidatesIn(Tail(unread))
      <4>1. applied \o (Among(<<>>, Head(unread)) \o CandidatesIn(Tail(unread))) =
              Among(applied, Head(unread)) \o CandidatesIn(Tail(unread))
        BY <1>0, <3>2, AmongShifts
      <4> QED
        BY <2>1, <3>3, <3>4, <4>1, Zenon
    <3>6. applied' \in Seq(Candidates)
      BY <1>0, <2>1, AmongType
    <3>7. applied' \o buffered' = applied'
      BY <2>1, <2>2, <3>6, ConcatEmptySeq
    <3> QED
      BY <2>1, <3>5, <3>7
  <2> QED
    BY <2>1, <2>2, <2>3
(* From the buffer to the library. *)
<1>10. CASE AddBuffered
  <2>1. /\ buffered # <<>> /\ applied' = Append(applied, Head(buffered)) /\ buffered' = Tail(buffered)
        /\ UNCHANGED <<unread, published, lagged, reader>>
    BY <1>10 DEF AddBuffered, signalVars, taskVars
  <2>2. applied' \o buffered' = applied \o buffered
    <3>1. /\ buffered = <<Head(buffered)>> \o Tail(buffered)
          /\ <<Head(buffered)>> \in Seq(Candidates) /\ Tail(buffered) \in Seq(Candidates)
      BY <1>0, <2>1, HeadTailProperties
    <3>2. applied' = applied \o <<Head(buffered)>>
      BY <1>0, <2>1, <3>1, HeadTailProperties, AppendIsConcat
    <3> QED
      BY <1>0, <2>1, <3>1, <3>2, ConcatAssociative
  <2>3. CandidatesIn(published') = CandidatesIn(published) /\ CandidatesIn(unread') = CandidatesIn(unread)
    BY <2>1
  <2> QED
    BY <2>1, <2>2, <2>3
(* A signal is broadcast, and nothing overwritten. *)
<1>11. ASSUME NEW signal \in Signals, Publish(signal) PROVE MissInv'
  <2>1. /\ published' = Append(published, signal) /\ lagged' = (lagged \/ Len(unread) = RingCapacity)
        /\ unread' = Append(IF Len(unread) < RingCapacity THEN unread ELSE Tail(unread), signal)
        /\ UNCHANGED <<applied, buffered, reader>>
    BY <1>11 DEF Publish, candidateVars, taskVars
  <2>2. ASSUME ~lagged'
        PROVE  CandidatesIn(published') = (applied \o buffered) \o CandidatesIn(unread')
    <3>1. ~lagged /\ Len(unread) < RingCapacity
      <4>1. ~lagged /\ Len(unread) # RingCapacity
        BY <2>1, <2>2, Zenon
      <4>2. Len(unread) \in Nat /\ RingCapacity \in Nat /\ Len(unread) <= RingCapacity
        BY <1>0, ConnectAssumption DEF TypeOK
      <4> QED
        BY <4>1, <4>2
    <3>2. unread' = Append(unread, signal)
      BY <2>1, <3>1
    <3>3. /\ CandidatesIn(published') = Among(CandidatesIn(published), signal)
          /\ CandidatesIn(unread') = Among(CandidatesIn(unread), signal)
      BY <1>0, <2>1, <3>2, CandidatesInAppend
    <3>4. CandidatesIn(unread) \in Seq(Candidates)
      BY <1>0, CandidatesInType
    <3>5. (applied \o buffered) \o Among(CandidatesIn(unread), signal) =
            Among((applied \o buffered) \o CandidatesIn(unread), signal)
      BY <1>0, <3>4, AmongConcat
    <3> QED
      BY <3>1, <3>3, <3>5, Zenon
  <2> QED
    BY <2>1, <2>2
<1> HIDE DEF MissInv, NoneMissed
<1> QED
  BY <1>2, <1>3, <1>4, <1>5, <1>6, <1>7, <1>8, <1>9, <1>10, <1>11
     DEF Next, ConnectStep, ConnectRuns, ReaderStep

(* stream.rs:177 and :195: as long as the ring of signals does not overflow,
   the answer loop, its buffer and the task that takes the subscription over
   pass every candidate on, once and in order. *)
THEOREM EveryCandidateIsPassedOn == Spec => []NoneMissed
<1>1. Init => MissInv
  <2> SUFFICES ASSUME Init PROVE MissInv
    OBVIOUS
  <2>1. CandidatesIn(published) = <<>> /\ CandidatesIn(unread) = <<>>
    BY CandidatesInEmpty DEF Init
  <2>2. (<<>> \o <<>>) \o <<>> = <<>>
    OBVIOUS
  <2> QED
    BY <2>1, <2>2 DEF Init, MissInv, NoneMissed
<1>2. TypeOK /\ AnswerInv /\ MissInv /\ [Next]_connectVars => MissInv'
  BY MissStep
<1>3. MissInv => NoneMissed
  BY DEF MissInv
<1> QED
  BY <1>1, <1>2, <1>3, ConnectTypeCorrect, AnswerInvariant, PTL DEF Spec
-----------------------------------------------------------------------------
(* The two ends together *)

(* A step of the system is one of connect, or none of it; likewise of the listener. *)
LEMMA ClientMoves == [SysNext]_sysVars => [Next]_connectVars
<1> SUFFICES ASSUME [SysNext]_sysVars PROVE [Next]_connectVars
  OBVIOUS
<1>1. CASE UNCHANGED sysVars
  BY <1>1 DEF sysVars
<1>2. CASE ClientSendsOffer \/ ClientRuns \/ ClientStops
  BY <1>2 DEF ClientSendsOffer, ClientRuns, ClientStops, Next, ConnectStep
<1>3. CASE ClientGathers \/ ServerRuns \/ DeliverOffer \/ DeliverCandidate
  BY <1>3 DEF ClientGathers, ServerRuns, DeliverOffer, DeliverCandidate
<1>4. ASSUME NEW i \in Server!Offers, NEW candidate \in Candidates, ServerGathers(i, candidate)
      PROVE  UNCHANGED connectVars
  BY <1>4 DEF ServerGathers
<1>5. ASSUME NEW i \in Server!Offers, ServerAnswers(i)
      PROVE  UNCHANGED connectVars
  BY <1>5 DEF ServerAnswers
<1>6. ASSUME NEW signal \in Signals, DeliverToClient(signal) PROVE Next
  BY <1>6 DEF DeliverToClient, Next
<1>7. CASE PeersConnect \/ ChannelOpens \/ PeersLose
  BY <1>7 DEF PeersConnect, ChannelOpens, PeersLose, Next
<1>8. ASSUME NEW i \in Server!Offers, ServerNotices(i)
      PROVE  UNCHANGED connectVars
  BY <1>8 DEF ServerNotices
<1> QED
  BY <1>1, <1>2, <1>3, <1>4, <1>5, <1>6, <1>7, <1>8 DEF SysNext

LEMMA ServerMoves == [SysNext]_sysVars => [Server!Next]_(Server!vars)
<1> SUFFICES ASSUME [SysNext]_sysVars PROVE [Server!Next]_(Server!vars)
  OBVIOUS
<1> DEFINE Still == UNCHANGED Server!vars
<1>1. UNCHANGED serverVars => Still
  BY DEF serverVars, Server!vars, Server!loopVars, Server!maps, Server!taskVars,
         Server!channelVars, Server!waitVars, Server!acceptVars
<1> HIDE DEF Still
<1>2. CASE UNCHANGED sysVars
  BY <1>1, <1>2 DEF sysVars, Still
<1>3. CASE ClientSendsOffer \/ ClientGathers \/ ClientRuns \/ ClientStops
  BY <1>1, <1>3 DEF ClientSendsOffer, ClientGathers, ClientRuns, ClientStops, Still
<1>4. ASSUME NEW i \in Server!Offers, ServerAnswers(i) PROVE Server!Next
  BY <1>4 DEF ServerAnswers, Server!Next, Server!HandleOffer
<1>5. ASSUME NEW i \in Server!Offers, NEW candidate \in Candidates, ServerGathers(i, candidate)
      PROVE  Still
  BY <1>1, <1>5 DEF ServerGathers
<1>6. CASE ServerRuns
  BY <1>6 DEF ServerRuns, Server!Next, Server!HandleOffer
<1>7. CASE DeliverOffer \/ DeliverCandidate
  BY <1>7 DEF DeliverOffer, DeliverCandidate, Server!Next
<1>8. ASSUME NEW signal \in Signals, DeliverToClient(signal) PROVE Still
  BY <1>1, <1>8 DEF DeliverToClient
<1>9. CASE PeersConnect \/ ChannelOpens
  BY <1>1, <1>9 DEF PeersConnect, ChannelOpens, Still
<1>10. CASE PeersLose
  BY <1>1, <1>10 DEF PeersLose, Server!Next, Still
<1>11. ASSUME NEW i \in Server!Offers, ServerNotices(i) PROVE Server!Next
  BY <1>11 DEF ServerNotices, Server!Next
<1> QED
  BY <1>2, <1>3, <1>4, <1>5, <1>6, <1>7, <1>8, <1>9, <1>10, <1>11 DEF SysNext, Still

(* stream.rs: among the signals of a lossy network, with a listener that acts
   on them, connect still behaves as it does alone. *)
THEOREM ClientIsConnect == SysSpec => Spec
<1>1. SysInit => Init
  BY DEF SysInit
<1> QED
  BY <1>1, ClientMoves, PTL DEF SysSpec, Spec

(* listener.rs: the listener behaves as it does alone; so everything that is
   proved of it holds of it here. *)
THEOREM ServerIsListener == SysSpec => Server!Spec
<1>1. SysInit => Server!Init
  BY DEF SysInit
<1> QED
  BY <1>1, ServerMoves, PTL DEF SysSpec, Server!Spec

(* stream.rs:195, between a client and a listener that exchange signals over
   a network that loses, repeats and reorders them. *)
THEOREM SystemAddsAfterRemote == SysSpec => []AddedAfterRemote
<1> QED
  BY ClientIsConnect, CandidatesComeAfterRemote, PTL
-----------------------------------------------------------------------------
(* The types of the two ends *)

\* What is proved of the listener, for the listener of this system.
ServerFacts == INSTANCE ListenerProofs

LEMMA SameVars ==
  /\ ServerFacts!Init <=> Server!Init
  /\ UNCHANGED ServerFacts!vars <=> UNCHANGED Server!vars
  /\ ServerFacts!TypeOK <=> Server!TypeOK
<1>1. ServerFacts!Init <=> Server!Init
  BY DEF Server!Init, ServerFacts!Init, Server!Offers, ServerFacts!Offers, Server!BothChannels,
         ServerFacts!BothChannels
<1>2. UNCHANGED ServerFacts!vars <=> UNCHANGED Server!vars
  BY DEF Server!vars, ServerFacts!vars, Server!loopVars, ServerFacts!loopVars, Server!maps,
         ServerFacts!maps, Server!taskVars, ServerFacts!taskVars, Server!channelVars,
         ServerFacts!channelVars, Server!waitVars, ServerFacts!waitVars, Server!acceptVars,
         ServerFacts!acceptVars
<1>3. ServerFacts!TypeOK <=> Server!TypeOK
  BY DEF Server!TypeOK, ServerFacts!TypeOK, Server!LoopTypeOK, ServerFacts!LoopTypeOK,
         Server!MapTypeOK, ServerFacts!MapTypeOK, Server!TaskTypeOK, ServerFacts!TaskTypeOK,
         Server!PeerTypeOK, ServerFacts!PeerTypeOK, Server!ChannelTypeOK,
         ServerFacts!ChannelTypeOK, Server!WaitTypeOK, ServerFacts!WaitTypeOK,
         Server!AcceptTypeOK, ServerFacts!AcceptTypeOK, Server!Offers, ServerFacts!Offers,
         Server!Known, ServerFacts!Known, Server!Stages, ServerFacts!Stages, Server!Tasks,
         ServerFacts!Tasks, Server!Callbacks, ServerFacts!Callbacks, Server!BothChannels,
         ServerFacts!BothChannels
<1> QED
  BY <1>1, <1>2, <1>3

LEMMA SameNext == ServerFacts!Next <=> Server!Next
<1> USE DEF Server!Offers, ServerFacts!Offers, Server!Known, ServerFacts!Known, Server!Handling,
         ServerFacts!Handling, Server!loopVars, ServerFacts!loopVars, Server!maps,
         ServerFacts!maps, Server!taskVars, ServerFacts!taskVars, Server!channelVars,
         ServerFacts!channelVars, Server!waitVars, ServerFacts!waitVars, Server!acceptVars,
         ServerFacts!acceptVars
<1>1. ASSUME NEW c
      PROVE  /\ ServerFacts!TakeOffer(c) <=> Server!TakeOffer(c)
             /\ ServerFacts!Dispatch(c) <=> Server!Dispatch(c)
  BY DEF Server!TakeOffer, ServerFacts!TakeOffer, Server!Dispatch, ServerFacts!Dispatch,
         Server!InLoop, ServerFacts!InLoop, Server!DropNotifier, ServerFacts!DropNotifier
<1>2. /\ ServerFacts!SignalsEnd <=> Server!SignalsEnd
      /\ ServerFacts!Cancelled <=> Server!Cancelled
      /\ ServerFacts!Accept <=> Server!Accept
      /\ ServerFacts!DropListener <=> Server!DropListener
  BY DEF Server!SignalsEnd, ServerFacts!SignalsEnd, Server!Cancelled, ServerFacts!Cancelled,
         Server!EndLoop, ServerFacts!EndLoop, Server!InLoop, ServerFacts!InLoop, Server!Accept,
         ServerFacts!Accept, Server!DropListener, ServerFacts!DropListener
<1>3. ASSUME NEW i PROVE ServerFacts!HandleOffer(i) <=> Server!HandleOffer(i)
  BY DEF Server!HandleOffer, ServerFacts!HandleOffer, Server!InsertDispatcher,
         ServerFacts!InsertDispatcher, Server!SetRemoteDescription,
         ServerFacts!SetRemoteDescription, Server!SignalAnswer, ServerFacts!SignalAnswer,
         Server!RegisterHandlers, ServerFacts!RegisterHandlers, Server!OfferFails,
         ServerFacts!OfferFails, Server!Proceed, ServerFacts!Proceed
<1>4. ASSUME NEW i PROVE ServerFacts!TaskStep(i) <=> Server!TaskStep(i)
  BY DEF Server!TaskStep, ServerFacts!TaskStep, Server!TaskReceives, ServerFacts!TaskReceives,
         Server!TaskAdds, ServerFacts!TaskAdds, Server!TaskSkips, ServerFacts!TaskSkips,
         Server!TaskNotifies, ServerFacts!TaskNotifies, Server!TaskEnds, ServerFacts!TaskEnds,
         Server!TaskCleansUp, ServerFacts!TaskCleansUp, Server!TaskAt, ServerFacts!TaskAt,
         Server!RemoteSet, ServerFacts!RemoteSet, Server!Notify, ServerFacts!Notify,
         Server!DropNotifier, ServerFacts!DropNotifier
<1>5. ASSUME NEW i
      PROVE  /\ ServerFacts!WaiterStep(i) <=> Server!WaiterStep(i)
             /\ ServerFacts!PeerGone(i) <=> Server!PeerGone(i)
             /\ ServerFacts!StateHandler(i) <=> Server!StateHandler(i)
  BY DEF Server!WaiterStep, ServerFacts!WaiterStep, Server!CandidateSeen,
         ServerFacts!CandidateSeen, Server!CandidateTimeout, ServerFacts!CandidateTimeout,
         Server!WaitEnds, ServerFacts!WaitEnds, Server!WaiterAt, ServerFacts!WaiterAt,
         Server!Push, ServerFacts!Push, Server!PeerGone, ServerFacts!PeerGone,
         Server!StateHandler, ServerFacts!StateHandler
<1>6. ASSUME NEW i, NEW label
      PROVE  /\ ServerFacts!OpenChannel(i, label) <=> Server!OpenChannel(i, label)
             /\ ServerFacts!ChannelStep(i, label) <=> Server!ChannelStep(i, label)
  BY DEF Server!OpenChannel, ServerFacts!OpenChannel, Server!ChannelStep,
         ServerFacts!ChannelStep, Server!SetChannel, ServerFacts!SetChannel,
         Server!CheckReliable, ServerFacts!CheckReliable, Server!CheckUnreliable,
         ServerFacts!CheckUnreliable, Server!CallbackAt, ServerFacts!CallbackAt
<1> QED
  BY <1>1, <1>2, <1>3, <1>4, <1>5, <1>6, Zenon
     DEF Server!Next, ServerFacts!Next, Server!BothChannels, ServerFacts!BothChannels

(* Whatever is proved of the listener alone holds of the listener of the system. *)
LEMMA SameSpec == Server!Spec => ServerFacts!Spec
<1>1. [Server!Next]_(Server!vars) => [ServerFacts!Next]_(ServerFacts!vars)
  BY SameVars, SameNext
<1> QED
  BY <1>1, SameVars, PTL DEF Server!Spec, ServerFacts!Spec

LEMMA ServerTypes == SysSpec => []Server!TypeOK
<1>1. ServerFacts!ListenerAssumption
  BY SystemAssumption DEF Server!Offers, ServerFacts!Offers
<1>2. ServerFacts!Spec => []ServerFacts!TypeOK
  BY <1>1, ServerFacts!TypeCorrect
<1>3. ServerFacts!TypeOK <=> Server!TypeOK
  BY SameVars
<1> QED
  BY <1>2, <1>3, SameSpec, ServerIsListener, PTL

(* Only an offer that the client has sent reaches handle_offer. *)
AskedInv ==
  /\ toServer \subseteq {"offer", "candidate"}
  /\ toClient \subseteq Candidates \cup {"answer"}
  /\ "answer" \in toClient => "offer" \in toServer
  /\ conn # <<>> => "offer" \in toServer

\* A handle_offer that goes on has begun.
LEMMA HandledIsKnown ==
  ASSUME Server!TypeOK, NEW i, NEW from, NEW to, Server!Proceed(i, from, to)
  PROVE  conn # <<>> /\ conn' = conn
<1>1. Len(conn) \in Nat /\ i \in 1..Len(conn)
  BY DEF Server!TypeOK, Server!LoopTypeOK, Server!Proceed, Server!Handling, Server!Known
<1>2. conn # <<>>
  BY <1>1
<1> QED
  BY <1>2 DEF Server!Proceed

LEMMA AskedStep == Server!TypeOK /\ AskedInv /\ [SysNext]_sysVars => AskedInv'
<1> SUFFICES ASSUME Server!TypeOK, AskedInv, [SysNext]_sysVars PROVE AskedInv'
  OBVIOUS
<1> USE DEF AskedInv
<1>1. CASE UNCHANGED sysVars
  BY <1>1 DEF sysVars, serverVars, netVars
<1>2. CASE ClientSendsOffer \/ ClientGathers \/ ClientRuns \/ ClientStops
  BY <1>2 DEF ClientSendsOffer, ClientGathers, ClientRuns, ClientStops, serverVars, netVars
<1>3. ASSUME NEW i \in Server!Offers, ServerAnswers(i) PROVE AskedInv'
  <2>1. conn # <<>> /\ conn' = conn
    BY <1>3, HandledIsKnown DEF ServerAnswers, Server!SignalAnswer
  <2> QED
    BY <1>3, <2>1 DEF ServerAnswers
<1>4. ASSUME NEW i \in Server!Offers, NEW candidate \in Candidates, ServerGathers(i, candidate)
      PROVE  AskedInv'
  BY <1>4, ConnectAssumption DEF ServerGathers, serverVars
<1>5. CASE ServerRuns
  <2>1. UNCHANGED netVars
    BY <1>5 DEF ServerRuns
  <2>2. conn' = conn
    <3>1. ASSUME NEW i \in Server!Offers,
                 \/ Server!InsertDispatcher(i) \/ Server!SetRemoteDescription(i)
                 \/ Server!RegisterHandlers(i) \/ Server!OfferFails(i)
          PROVE  conn' = conn
      BY <3>1, HandledIsKnown
         DEF Server!InsertDispatcher, Server!SetRemoteDescription, Server!RegisterHandlers,
             Server!OfferFails
    <3>2. ASSUME NEW i \in Server!Offers, Server!TaskStep(i) PROVE conn' = conn
      BY <3>2 DEF Server!TaskStep, Server!TaskReceives, Server!TaskAdds, Server!TaskSkips,
                  Server!TaskNotifies, Server!TaskEnds, Server!TaskCleansUp, Server!loopVars
    <3>3. ASSUME NEW i \in Server!Offers, Server!WaiterStep(i) PROVE conn' = conn
      BY <3>3 DEF Server!WaiterStep, Server!CandidateSeen, Server!CandidateTimeout,
                  Server!WaitEnds, Server!WaiterAt, Server!loopVars
    <3>4. Server!Accept => conn' = conn
      BY DEF Server!Accept, Server!loopVars
    <3> QED
      BY <1>5, <3>1, <3>2, <3>3, <3>4 DEF ServerRuns
  <2> QED
    BY <2>1, <2>2 DEF netVars
<1>6. CASE DeliverOffer
  BY <1>6 DEF DeliverOffer, netVars
<1>7. CASE DeliverCandidate
  BY <1>7 DEF DeliverCandidate, Server!Dispatch, netVars
<1>8. ASSUME NEW signal \in Signals, DeliverToClient(signal) PROVE AskedInv'
  BY <1>8 DEF DeliverToClient, serverVars, netVars
<1>9. CASE PeersConnect \/ ChannelOpens
  BY <1>9 DEF PeersConnect, ChannelOpens, serverVars, netVars
<1>10. CASE PeersLose
  <2>1. ASSUME NEW i \in Server!Offers, Server!PeerGone(i) PROVE conn' = conn
    BY <2>1 DEF Server!PeerGone, Server!loopVars
  <2> QED
    BY <1>10, <2>1 DEF PeersLose, serverVars, netVars
<1>11. ASSUME NEW i \in Server!Offers, ServerNotices(i) PROVE AskedInv'
  BY <1>11 DEF ServerNotices, Server!StateHandler, Server!loopVars, netVars
<1> QED
  BY <1>1, <1>2, <1>3, <1>4, <1>5, <1>6, <1>7, <1>8, <1>9, <1>10, <1>11 DEF SysNext

(* listener.rs and stream.rs together: each end keeps the types it has alone,
   the maps hold only what is known, and no answer comes unasked. *)
THEOREM SystemTypeCorrect == SysSpec => []SysTypeOK
<1>1. SysInit => AskedInv
  BY DEF SysInit, Server!Init, AskedInv
<1>2. SysSpec => []AskedInv
  BY <1>1, AskedStep, ServerTypes, PTL DEF SysSpec
<1>3. TypeOK /\ Server!TypeOK /\ AskedInv => SysTypeOK
  BY DEF AskedInv, SysTypeOK
<1> QED
  BY <1>2, <1>3, ClientIsConnect, ConnectTypeCorrect, ServerTypes, PTL

(* stream.rs:177 and :195, over the same network: what is published to the
   client's subscription is passed on in full. *)
THEOREM SystemPassesCandidatesOn == SysSpec => []NoneMissed
<1> QED
  BY ClientIsConnect, EveryCandidateIsPassedOn, PTL
-----------------------------------------------------------------------------
(* The answer *)

(* Each step of the system is one of the listener, or none of it. *)
LEMMA ListenerMoves == [SysNext]_sysVars => [ServerFacts!Next]_(ServerFacts!vars)
<1>1. [Server!Next]_(Server!vars) => [ServerFacts!Next]_(ServerFacts!vars)
  BY SameVars, SameNext
<1> QED
  BY <1>1, ServerMoves

\* What lasts at the client, and where Ok comes from.
LEMMA ClientKeeps ==
  ASSUME TypeOK, [Next]_connectVars
  PROVE  /\ applied # <<>> => applied' # <<>>
         /\ result' = "ok" => result = "ok" \/ ice = "connected"
<1>0. applied \in Seq(Candidates) /\ \A c : Append(applied, c) # <<>>
  <2>1. applied \in Seq(Candidates)
    BY DEF TypeOK
  <2>2. ASSUME NEW c PROVE Append(applied, c) # <<>>
    <3>1. Len(Append(applied, c)) = Len(applied) + 1 /\ Len(applied) \in Nat
      BY <2>1
    <3>2. Len(<<>>) = 0
      OBVIOUS
    <3> QED
      BY <3>1, <3>2
  <2> QED
    BY <2>1, <2>2
<1>1. CASE UNCHANGED connectVars
  BY <1>1 DEF connectVars, candidateVars
<1>2. CASE Prepare \/ Subscribe \/ SendOffer \/ SetRemoteDescription \/ SpawnReader \/ BothOpen
  BY <1>2 DEF Prepare, Subscribe, SendOffer, SetRemoteDescription, SpawnReader, BothOpen, Goto,
              candidateVars
<1>3. CASE \/ OpenTimeout \/ IcePolled \/ IceTimeout \/ StepFails \/ DropConnect \/ NoMoreSignals
  BY <1>3 DEF OpenTimeout, IcePolled, IceTimeout, StepFails, DropConnect, NoMoreSignals, Return,
              candidateVars
<1>4. CASE AwaitAnswer
  BY <1>4 DEF AwaitAnswer, Goto
<1>5. CASE AddBuffered \/ ReaderReads
  BY <1>0, <1>5 DEF AddBuffered, ReaderReads
<1>6. CASE ReaderEnds \/ StreamEnds
  BY <1>6 DEF ReaderEnds, StreamEnds, candidateVars
<1>7. ASSUME \/ \E signal \in Signals : Publish(signal)
             \/ \E label \in DataChannels : OpenChannel(label)
             \/ \E state \in {"connected", "failed"} : IceChanges(state)
      PROVE  UNCHANGED <<applied, result>>
  BY <1>7 DEF Publish, OpenChannel, IceChanges, candidateVars
<1> QED
  BY <1>1, <1>2, <1>3, <1>4, <1>5, <1>6, <1>7 DEF Next, ConnectStep, ConnectRuns, ReaderStep

(* An answer that is under way, or read, is that of an offer; and a connection
   is one between peers that could find each other. *)
ReplyInv ==
  /\ "answer" \in toClient => \E i \in Server!Offers : Answered(i)
  /\ "answer" \in TheSignals(published) => "answer" \in toClient
  /\ ice = "connected" \/ result = "ok" => \E i \in Server!Offers : Answered(i) /\ Reachable(i)

\* Where the answers that are sent and published come from, and the connection.
LEMMA ReplySources ==
  ASSUME TypeOK, Server!TypeOK, [SysNext]_sysVars
  PROVE  /\ toClient \subseteq toClient'
         /\ "answer" \in toClient' =>
               "answer" \in toClient \/ \E i \in Server!Offers : Answered(i)'
         /\ "answer" \in TheSignals(published') =>
               "answer" \in TheSignals(published) \/ "answer" \in toClient
         /\ ice' = "connected" =>
               ice = "connected" \/ \E i \in Server!Offers : Answered(i) /\ Reachable(i)
<1> DEFINE Goal == /\ toClient \subseteq toClient'
                   /\ "answer" \in toClient' =>
                         "answer" \in toClient \/ \E i \in Server!Offers : Answered(i)'
                   /\ "answer" \in TheSignals(published') =>
                         "answer" \in TheSignals(published) \/ "answer" \in toClient
                   /\ ice' = "connected" =>
                         ice = "connected" \/ \E i \in Server!Offers : Answered(i) /\ Reachable(i)
<1> SUFFICES Goal
  OBVIOUS
<1>0. UNCHANGED <<toClient, published, ice>> => Goal
  OBVIOUS
<1>1. CASE UNCHANGED sysVars
  BY <1>0, <1>1 DEF sysVars, netVars, connectVars, signalVars, libraryVars
<1>2. CASE ClientSendsOffer \/ ClientGathers \/ ClientRuns \/ ClientStops
  <2>1. CASE ClientGathers
    BY <1>0, <2>1 DEF ClientGathers, connectVars, signalVars, libraryVars
  <2>2. CASE ClientSendsOffer \/ ClientStops
    BY <1>0, <2>2 DEF ClientSendsOffer, ClientStops, SendOffer, DropConnect, netVars, signalVars,
                      libraryVars
  <2>3. CASE ClientRuns
    <3>1. UNCHANGED <<published, ice>>
      BY <2>3 DEF ClientRuns, ConnectRuns, ReaderStep, Prepare, Subscribe, AwaitAnswer,
                  SetRemoteDescription, AddBuffered, SpawnReader, BothOpen, OpenTimeout, IcePolled,
                  IceTimeout, StepFails, ReaderReads, ReaderEnds, signalVars, libraryVars
    <3> QED
      BY <1>0, <2>3, <3>1 DEF ClientRuns, netVars
  <2> QED
    BY <1>2, <2>1, <2>2, <2>3
<1>3. ASSUME NEW i \in Server!Offers, ServerAnswers(i) PROVE Goal
  <2>1. Answered(i)'
    <3>1. stage \in [Server!Offers -> Server!Stages]
      BY DEF Server!TypeOK, Server!LoopTypeOK
    <3>2. stage' = [stage EXCEPT ![i] = "answered"]
      BY <1>3 DEF ServerAnswers, Server!SignalAnswer, Server!Proceed
    <3> QED
      BY <3>1, <3>2 DEF Answered
  <2>2. toClient' = toClient \cup {"answer"} /\ UNCHANGED <<published, ice>>
    BY <1>3 DEF ServerAnswers, connectVars, signalVars, libraryVars
  <2> QED
    BY <2>1, <2>2
<1>4. ASSUME NEW i \in Server!Offers, NEW candidate \in Candidates, ServerGathers(i, candidate)
      PROVE  Goal
  <2>1. toClient' = toClient \cup {candidate} /\ UNCHANGED <<published, ice>>
    BY <1>4 DEF ServerGathers, connectVars, signalVars, libraryVars
  <2>2. candidate # "answer"
    BY ConnectAssumption
  <2> QED
    BY <2>1, <2>2
<1>5. CASE ServerRuns \/ DeliverOffer \/ DeliverCandidate
  BY <1>0, <1>5 DEF ServerRuns, DeliverOffer, DeliverCandidate, netVars, connectVars, signalVars,
                    libraryVars
<1>6. ASSUME NEW signal \in Signals, DeliverToClient(signal) PROVE Goal
  <2>1. published \in Seq(Signals)
    BY DEF TypeOK
  <2>2. TheSignals(published') = TheSignals(published) \cup {signal}
    BY <1>6, <2>1, AppendSignals DEF DeliverToClient, Publish
  <2>3. signal \in toClient /\ toClient' = toClient /\ ice' = ice
    BY <1>6 DEF DeliverToClient, Publish, netVars, libraryVars
  <2> QED
    BY <2>2, <2>3
<1>7. CASE PeersConnect
  <2>1. UNCHANGED <<toClient, published>>
    BY <1>7 DEF PeersConnect, IceChanges, netVars, signalVars
  <2>2. \E i \in Server!Offers : Answered(i) /\ Reachable(i)
    BY <1>7 DEF PeersConnect, Answered, Reachable
  <2> QED
    BY <2>1, <2>2
<1>8. CASE ChannelOpens
  BY <1>0, <1>8 DEF ChannelOpens, OpenChannel, netVars, signalVars
<1>9. CASE PeersLose
  BY <1>9 DEF PeersLose, IceChanges, netVars, signalVars, connectVars, libraryVars
<1>10. ASSUME NEW i \in Server!Offers, ServerNotices(i) PROVE Goal
  BY <1>0, <1>10 DEF ServerNotices, netVars, connectVars, signalVars, libraryVars
<1> HIDE DEF Goal
<1> QED
  BY <1>1, <1>2, <1>3, <1>4, <1>5, <1>6, <1>7, <1>8, <1>9, <1>10 DEF SysNext

LEMMA ReplyStep ==
  ASSUME TypeOK, Server!TypeOK, ReplyInv, [SysNext]_sysVars
  PROVE  ReplyInv'
<1>1. ASSUME NEW i \in Server!Offers, Answered(i)
      PROVE  Answered(i)' /\ (Reachable(i) => Reachable(i)')
  <2>1. ServerFacts!ListenerAssumption /\ ServerFacts!TypeOK /\ i \in ServerFacts!Offers
    BY SystemAssumption, SameVars DEF Server!Offers, ServerFacts!Offers
  <2>2. stage'[i] \in {"answered", "done"} /\ (added[i] => added'[i])
    BY <1>1, <2>1, ListenerMoves, ServerFacts!AnsweredStays DEF Answered
  <2>3. applied # <<>> => applied' # <<>>
    BY ClientMoves, ClientKeeps
  <2> QED
    BY <2>2, <2>3 DEF Answered, Reachable
<1>2. result' = "ok" => result = "ok" \/ ice = "connected"
  BY ClientMoves, ClientKeeps
<1>3. /\ "answer" \in toClient => "answer" \in toClient'
      /\ "answer" \in toClient' =>
            "answer" \in toClient \/ \E i \in Server!Offers : Answered(i)'
      /\ "answer" \in TheSignals(published') =>
            "answer" \in TheSignals(published) \/ "answer" \in toClient
      /\ ice' = "connected" =>
            ice = "connected" \/ \E i \in Server!Offers : Answered(i) /\ Reachable(i)
  BY ReplySources
<1>4. TheSignals(published)' = TheSignals(published')
  BY DEF TheSignals
<1>5. Server!Offers' = Server!Offers
  BY DEF Server!Offers
<1>6. "answer" \in toClient' => \E i \in Server!Offers : Answered(i)'
  BY <1>1, <1>3 DEF ReplyInv
<1>7. ice' = "connected" \/ result' = "ok" =>
        \E i \in Server!Offers : Answered(i)' /\ Reachable(i)'
  BY <1>1, <1>2, <1>3 DEF ReplyInv
<1> QED
  BY <1>3, <1>4, <1>5, <1>6, <1>7 DEF ReplyInv

(* listener.rs:169 and stream.rs:154, between any client and a listener whose
   offers all have a connection_id of their own: once connect knows the answer,
   or has returned Ok, the offer it answers is served, whatever the network
   did to the signals. *)
THEOREM SystemServesAnswers ==
  ASSUME ~OffersRepeat
  PROVE  SysSpec => []AnswerIsServed
<1>1. SysInit => ReplyInv
  <2> SUFFICES ASSUME SysInit PROVE ReplyInv
    OBVIOUS
  <2>1. TheSignals(published) = {}
    BY DEF SysInit, Init, TheSignals
  <2> QED
    BY <2>1 DEF SysInit, Init, ReplyInv
<1>2. SysSpec => []TypeOK
  BY ClientIsConnect, ConnectTypeCorrect, PTL
<1>3. SysSpec => []ReplyInv
  BY <1>1, <1>2, ReplyStep, ServerTypes, PTL DEF SysSpec
<1>4. ServerFacts!ListenerAssumption
  BY SystemAssumption DEF Server!Offers, ServerFacts!Offers
<1>5. ServerFacts!Spec => []ServerFacts!RegistrationInv
  BY <1>4, ServerFacts!RegistrationInvariant
<1>6. Server!TypeOK /\ ServerFacts!RegistrationInv /\ AnswerInv /\ ReplyInv /\ TypeOK
        => AnswerIsServed
  <2> SUFFICES ASSUME Server!TypeOK, ServerFacts!RegistrationInv, AnswerInv, ReplyInv
               PROVE  AnswerIsServed
    OBVIOUS
  <2>1. ASSUME NEW i \in Server!Offers, Answered(i) PROVE Serves(i)
    <3>1. i \in ServerFacts!Known
      BY <2>1 DEF Answered, Server!TypeOK, Server!LoopTypeOK, Server!Known, ServerFacts!Known
    <3> QED
      BY <2>1, <3>1 DEF Serves, Answered, ServerFacts!RegistrationInv, ServerFacts!OwnEntries
  <2> QED
    BY <2>1 DEF AnswerIsServed, AnswerInv, ReplyInv
<1> QED
  BY <1>2, <1>3, <1>5, <1>6, ServerTypes, SameSpec, ServerIsListener, ClientIsConnect,
     AnswerInvariant, PTL
=============================================================================
