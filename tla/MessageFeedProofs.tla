-------------------------- MODULE MessageFeedProofs --------------------------
(***************************************************************************)
(* What an accumulator does with any sequence of segments whatever, for    *)
(* every width of the counter byte and any number of segments.             *)
(***************************************************************************)
EXTENDS MessageFeed, SequenceTheorems, TLAPS

(* The peers split_into_segments is: no more than U8MAX segments, so the
   largest counter never occurs. *)
HonestPeer == PeerCounts \subseteq 0..(U8MAX - 1)

(* OpenRun says which segments the accumulator holds; this part says that
   it holds all it could: an open message that began right after a last
   segment is held from its first segment on. *)
HoldsWholeRun ==
  \A a \in 1..Len(fed) :
    (/\ fed[Len(fed)] > 0
     /\ CountsDown(a, Len(fed))
     /\ a = 1 \/ fed[a - 1] = 0)
    => Len(message.data) >= Len(fed) - a + 1

IInv == /\ TypeOK
        /\ OpenRun
        /\ HoldsWholeRun
        /\ PacketIsARun
        /\ RunsAreDelivered

(* message.rs:69: add_segment keeps the types, whatever the peer puts in its
   counters, the largest included: the expected count stays within the byte. *)
THEOREM TypeCorrect == Spec => []TypeOK
<1>1. Init => TypeOK
  BY SizesAssumption DEF Init, TypeOK, NewMessage
<1>2. TypeOK /\ [Next]_vars => TypeOK'
  <2> SUFFICES ASSUME TypeOK, [Next]_vars PROVE TypeOK'
    OBVIOUS
  <2>1. CASE UNCHANGED vars
    BY <2>1 DEF TypeOK, vars
  <2>2. ASSUME NEW remaining \in PeerCounts, Feed(remaining) PROVE TypeOK'
    BY <2>2, SizesAssumption, FeedAssumption, SMTT(30)
       DEF TypeOK, Feed, AddSegment, NewMessage, MessageSegment, ExpectedOn, Announced, OutOfOrder
  <2> QED
    BY <2>1, <2>2 DEF Next
<1> QED
  BY <1>1, <1>2, PTL DEF Spec

-----------------------------------------------------------------------------
(* The bytes of a run, one segment longer. *)
LEMMA BytesAppend ==
  ASSUME NEW a \in Nat \ {0}, NEW b \in Nat, a <= b + 1
  PROVE  Bytes(a, b) \o <<b + 1>> = Bytes(a, b + 1)
<1> DEFINE s == Bytes(a, b) \o <<b + 1>>
<1>1. /\ Bytes(a, b) \in Seq(Nat) /\ Len(Bytes(a, b)) = b - a + 1
      /\ Bytes(a, b + 1) \in Seq(Nat) /\ Len(Bytes(a, b + 1)) = b - a + 2
  BY DEF Bytes
<1>2. s \in Seq(Nat) /\ Len(s) = b - a + 2
  BY <1>1
<1>3. ASSUME NEW k \in 1..(b - a + 2) PROVE s[k] = Bytes(a, b + 1)[k]
  BY <1>1, <1>3 DEF Bytes
<1> QED
  BY <1>1, <1>2, <1>3, SeqEqual

(* The segment is the one the accumulator waits for, or it waits for none. *)
Fits(remaining) ==
  message.expected_segments = 0 \/ message.expected_segments = remaining + 1

(* The three ways add_segment treats a segment, for a peer that never uses
   the largest counter. *)
LEMMA AddSegmentCases ==
  ASSUME HonestPeer, NEW remaining \in PeerCounts, TypeOK, NEW data
  PROVE  LET result == AddSegment(message, MessageSegment(remaining, data))
         IN  /\ ~Fits(remaining) => result = [message |-> NewMessage, packet |-> <<>>]
             /\ Fits(remaining) /\ remaining = 0 =>
                  result = [message |-> NewMessage, packet |-> <<message.data \o data>>]
             /\ Fits(remaining) /\ remaining # 0 =>
                  result = [message |-> [expected_segments |-> remaining,
                                         data |-> message.data \o data],
                            packet |-> <<>>]
<1> DEFINE segment == MessageSegment(remaining, data)
           e == message.expected_segments
           x == ExpectedOn(message, segment)
           left == IF x > 0 THEN x - 1 ELSE 0
<1>1. /\ remaining \in Nat /\ remaining # U8MAX /\ e \in Nat
      /\ segment.remaining_segments = remaining /\ segment.data = data
  BY SizesAssumption DEF HonestPeer, TypeOK, MessageSegment
<1>2. x = IF e = 0 /\ remaining > 0 THEN remaining + 1 ELSE e
  BY <1>1 DEF ExpectedOn, Announced
<1>3. OutOfOrder(message, segment) <=> ~Fits(remaining)
  BY <1>1, <1>2 DEF OutOfOrder, Fits
<1>4. AddSegment(message, segment) =
        IF ~Fits(remaining)
        THEN [message |-> NewMessage, packet |-> <<>>]
        ELSE IF remaining = 0
        THEN [message |-> NewMessage, packet |-> <<message.data \o data>>]
        ELSE [message |-> [expected_segments |-> left, data |-> message.data \o data],
              packet |-> <<>>]
  BY <1>1, <1>3, Zenon DEF AddSegment
<1>5. ASSUME Fits(remaining), remaining # 0 PROVE left = remaining
  BY <1>1, <1>2, <1>5 DEF Fits
<1> HIDE DEF left, segment
<1>6. /\ ~Fits(remaining) =>
           AddSegment(message, segment) = [message |-> NewMessage, packet |-> <<>>]
      /\ Fits(remaining) /\ remaining = 0 =>
           AddSegment(message, segment) =
             [message |-> NewMessage, packet |-> <<message.data \o data>>]
      /\ Fits(remaining) /\ remaining # 0 =>
           AddSegment(message, segment) =
             [message |-> [expected_segments |-> remaining, data |-> message.data \o data],
              packet |-> <<>>]
  BY <1>4, <1>5, Zenon
<1> QED
  BY <1>6, Zenon DEF segment

-----------------------------------------------------------------------------
LEMMA InitInv == Init => IInv
<1> SUFFICES ASSUME Init PROVE IInv
  OBVIOUS
<1>1. TypeOK
  BY SizesAssumption DEF Init, TypeOK, NewMessage
<1>2. OpenRun
  <2>1. Bytes(1, 0) \in Seq(Nat) /\ Len(Bytes(1, 0)) = 0
    BY DEF Bytes
  <2>2. Bytes(1, 0) = <<>>
    BY <2>1
  <2> QED
    BY <2>2 DEF Init, OpenRun, CountsDown, NewMessage
<1>3. HoldsWholeRun /\ PacketIsARun /\ RunsAreDelivered
  BY DEF Init, HoldsWholeRun, PacketIsARun, RunsAreDelivered
<1> QED
  BY <1>1, <1>2, <1>3 DEF IInv

LEMMA FeedInv ==
  ASSUME HonestPeer, TypeOK', IInv, NEW remaining \in PeerCounts, Feed(remaining)
  PROVE  IInv'
<1> DEFINE n == Len(fed)
           d == Len(message.data)
           byte == <<n + 1>>
           start == n - d + 1
<1>0. TypeOK /\ OpenRun /\ HoldsWholeRun /\ PacketIsARun /\ RunsAreDelivered
  BY DEF IInv
<1>1. /\ n \in Nat /\ d \in 0..n /\ remaining \in Nat
      /\ \A k \in 1..n : fed[k] \in Nat
  <2>1. PeerCounts \subseteq Nat
    BY SizesAssumption DEF HonestPeer
  <2>2. n \in Nat /\ d \in Nat /\ \A k \in 1..n : fed[k] \in PeerCounts
    BY <1>0 DEF TypeOK
  <2>3. d <= n
    BY <1>0 DEF OpenRun
  <2> HIDE DEF n, d
  <2>4. d \in 0..n
    BY <2>2, <2>3
  <2>5. remaining \in Nat /\ \A k \in 1..n : fed[k] \in Nat
    BY <2>1, <2>2
  <2> QED
    BY <2>2, <2>4, <2>5
<1>2. /\ Len(fed') = n + 1
      /\ fed'[n + 1] = remaining
      /\ \A k \in 1..n : fed'[k] = fed[k]
  <2>1. fed \in Seq(PeerCounts) /\ fed' = Append(fed, remaining)
    BY <1>0 DEF TypeOK, Feed
  <2> QED
    BY <2>1, AppendProperties
<1> HIDE DEF n, d
<1> DEFINE packet == AddSegment(message, MessageSegment(remaining, byte)).packet
<1>3. /\ message' = AddSegment(message, MessageSegment(remaining, byte)).message
      /\ emitted' = Append(emitted, packet)
  BY DEF Feed, n
(* The segments it holds, with one more that fits, are a run. *)
<1>4. ASSUME Fits(remaining)
      PROVE  /\ \A k \in start..(n + 1) : fed'[k] = remaining + (n + 1 - k)
             /\ message.data \o byte = Bytes(start, n + 1)
  <2>1. /\ message.data = Bytes(start, n)
        /\ \A k \in start..n : fed[k] = fed[n] + (n - k)
        /\ d > 0 => message.expected_segments = fed[n] /\ fed[n] > 0
    BY <1>0 DEF OpenRun, CountsDown, n, d
  <2>2. d > 0 => fed[n] = remaining + 1
    BY <1>4, <2>1 DEF Fits
  <2>3. \A k \in start..(n + 1) : fed'[k] = remaining + (n + 1 - k)
    <3> SUFFICES ASSUME NEW k \in start..(n + 1) PROVE fed'[k] = remaining + (n + 1 - k)
      OBVIOUS
    <3>1. CASE k = n + 1
      BY <1>1, <1>2, <3>1
    <3>2. CASE k # n + 1
      <4>1. k \in start..n /\ k \in 1..n /\ d > 0
        BY <1>1, <3>2
      <4> QED
        BY <1>1, <1>2, <2>1, <2>2, <4>1
    <3> QED
      BY <3>1, <3>2
  <2>4. message.data \o byte = Bytes(start, n + 1)
    <3>1. start \in Nat \ {0} /\ start <= n + 1
      BY <1>1
    <3> QED
      BY <1>1, <2>1, <3>1, BytesAppend
  <2> QED
    BY <2>3, <2>4
<1>5. /\ ~Fits(remaining) => message' = NewMessage /\ packet = <<>>
      /\ Fits(remaining) /\ remaining = 0 =>
           message' = NewMessage /\ packet = <<Bytes(start, n + 1)>>
      /\ Fits(remaining) /\ remaining # 0 =>
           /\ message' = [expected_segments |-> remaining, data |-> Bytes(start, n + 1)]
           /\ packet = <<>>
  <2>1. /\ ~Fits(remaining) => message' = NewMessage /\ packet = <<>>
        /\ Fits(remaining) /\ remaining = 0 =>
             message' = NewMessage /\ packet = <<message.data \o byte>>
        /\ Fits(remaining) /\ remaining # 0 =>
             /\ message' = [expected_segments |-> remaining, data |-> message.data \o byte]
             /\ packet = <<>>
    <3> DEFINE result == AddSegment(message, MessageSegment(remaining, byte))
    <3>1. /\ ~Fits(remaining) => result = [message |-> NewMessage, packet |-> <<>>]
          /\ Fits(remaining) /\ remaining = 0 =>
               result = [message |-> NewMessage, packet |-> <<message.data \o byte>>]
          /\ Fits(remaining) /\ remaining # 0 =>
               result = [message |-> [expected_segments |-> remaining,
                                      data |-> message.data \o byte],
                         packet |-> <<>>]
      BY <1>0, AddSegmentCases, Zenon
    <3>2. message' = result.message /\ packet = result.packet
      BY <1>3
    <3> HIDE DEF result, packet, byte
    <3>3. CASE ~Fits(remaining)
      BY <3>1, <3>2, <3>3
    <3>4. CASE Fits(remaining) /\ remaining = 0
      BY <3>1, <3>2, <3>4
    <3>5. CASE Fits(remaining) /\ remaining # 0
      <4>1. /\ message' = [expected_segments |-> remaining, data |-> message.data \o byte]
            /\ packet = <<>>
        BY <3>1, <3>2, <3>5
      <4> QED
        BY <3>5, <4>1, Zenon
    <3> QED
      BY <3>3, <3>4, <3>5, Zenon
  <2> QED
    BY <1>4, <2>1, Zenon
<1>6. /\ Bytes(n + 2, n + 1) = <<>>
      /\ Len(Bytes(start, n + 1)) = d + 1
      /\ Bytes(start, n + 1) \in Seq(Nat)
  BY <1>1 DEF Bytes
<1> HIDE DEF packet
<1>12. /\ emitted'[n + 1] = packet
       /\ \A k \in 1..n : emitted'[k] = emitted[k]
       /\ Len(emitted') = n + 1
  <2>1. packet \in Seq(Seq(Nat))
    <3>1. <<Bytes(start, n + 1)>> \in Seq(Seq(Nat)) /\ <<>> \in Seq(Seq(Nat))
      BY <1>6
    <3> QED
      BY <1>5, <3>1, Zenon
  <2>2. emitted \in Seq(Seq(Seq(Nat))) /\ Len(emitted) = n
    BY <1>0, <1>1 DEF TypeOK, n, d
  <2> QED
    BY <1>3, <2>1, <2>2, AppendProperties
<1>7. OpenRun'
  <2>1. CASE ~Fits(remaining) \/ remaining = 0
    <3>1. message'.data = <<>> /\ message'.expected_segments = 0
      BY <1>5, <2>1 DEF NewMessage
    <3> QED
      BY <1>0, <1>1, <1>2, <1>6, <3>1 DEF OpenRun, CountsDown, n, d
  <2>2. CASE Fits(remaining) /\ remaining # 0
    <3>1. message'.data = Bytes(start, n + 1) /\ message'.expected_segments = remaining
      BY <1>5, <2>2
    <3> QED
      <4>1. Len(message'.data) = d + 1 /\ Len(fed') = n + 1 /\ start = (n + 1) - (d + 1) + 1
        BY <1>1, <1>2, <1>6, <3>1
      <4>2. fed'[n + 1] = remaining /\ remaining > 0
        BY <1>1, <1>2, <2>2
      <4>3. \A k \in start..(n + 1) : fed'[k] = fed'[n + 1] + ((n + 1) - k)
        BY <1>1, <1>4, <2>2, <4>2
      <4> QED
        BY <1>1, <3>1, <4>1, <4>2, <4>3 DEF OpenRun, CountsDown
  <2> QED
    BY <2>1, <2>2
(* A segment of a run that began right after a last segment always fits,
   and finds the accumulator holding exactly the run up to it. *)
<1>8. ASSUME NEW a \in 1..(n + 1),
             \A k \in a..(n + 1) : fed'[k] = remaining + (n + 1 - k),
             a = 1 \/ fed'[a - 1] = 0
      PROVE  Fits(remaining) /\ start = a
  <2>1. CASE a = n + 1
    <3>1. n = 0 \/ fed[n] = 0
      BY <1>1, <1>2, <1>8, <2>1
    <3>2. d = 0
      BY <1>0, <1>1, <3>1 DEF OpenRun, n, d
    <3> QED
      BY <1>0, <1>1, <2>1, <3>2 DEF OpenRun, Fits, n, d
  <2>2. CASE a <= n
    <3>1. /\ fed[n] = remaining + 1
          /\ \A k \in a..n : fed[k] = fed[n] + (n - k)
      BY <1>1, <1>2, <1>8, <2>2
    <3>2. a = 1 \/ (a - 1 \in 1..n /\ fed[a - 1] = 0)
      BY <1>1, <1>2, <1>8, <2>2
    <3>3. d >= n - a + 1
      BY <1>0, <1>1, <2>2, <3>1, <3>2 DEF HoldsWholeRun, CountsDown, n, d
    <3>4. message.expected_segments = remaining + 1
      BY <1>0, <1>1, <2>2, <3>1, <3>3 DEF OpenRun, n, d
    <3>5. d <= n - a + 1
      <4>1. d > 0 => fed[n] > 0 /\ \A k \in (n - d + 1)..n : fed[k] = fed[n] + (n - k)
        BY <1>0 DEF OpenRun, CountsDown, n, d
      <4>2. SUFFICES ASSUME d > n - a + 1 PROVE FALSE
        BY <1>1, <2>2
      <4>3. d > 0 /\ a > n - d + 1 /\ n - d + 1 \in 1..n
        BY <1>1, <2>2, <4>2
      <4>4. a - 1 \in (n - d + 1)..n /\ a - 1 \in 1..n /\ a # 1
        BY <1>1, <2>2, <4>3
      <4>5. fed[a - 1] = fed[n] + (n - (a - 1)) /\ fed[n] > 0 /\ fed[a - 1] = 0
        BY <3>2, <4>1, <4>3, <4>4
      <4> QED
        BY <1>1, <2>2, <4>4, <4>5
    <3> QED
      BY <1>1, <3>3, <3>4, <3>5 DEF Fits
  <2> QED
    BY <1>1, <2>1, <2>2
<1>9. HoldsWholeRun'
  <2> SUFFICES ASSUME NEW a \in 1..(n + 1), remaining > 0,
                      \A k \in a..(n + 1) : fed'[k] = remaining + (n + 1 - k),
                      a = 1 \/ fed'[a - 1] = 0
               PROVE  Len(message'.data) >= n + 1 - a + 1
    BY <1>0, <1>1, <1>2 DEF HoldsWholeRun, CountsDown, n, d
  <2>1. Fits(remaining) /\ start = a
    BY <1>8
  <2> QED
    BY <1>1, <1>5, <1>6, <2>1
<1>10. PacketIsARun'
  <2> SUFFICES ASSUME NEW b \in 1..Len(emitted'), emitted'[b] # <<>>
               PROVE  \E a \in 1..b : /\ emitted'[b] = <<Bytes(a, b)>>
                                      /\ fed'[b] = 0
                                      /\ \A k \in a..b : fed'[k] = fed'[b] + (b - k)
    BY DEF PacketIsARun, CountsDown
  <2>1. CASE b \in 1..n
    <3>1. emitted'[b] = emitted[b] /\ b \in 1..Len(emitted)
      BY <1>0, <1>12, <2>1 DEF TypeOK, n
    <3>2. PICK a \in 1..b : /\ emitted[b] = <<Bytes(a, b)>>
                            /\ fed[b] = 0
                            /\ \A k \in a..b : fed[k] = fed[b] + (b - k)
      BY <1>0, <3>1 DEF PacketIsARun, CountsDown
    <3>3. fed'[b] = 0 /\ \A k \in a..b : fed'[k] = fed'[b] + (b - k)
      BY <1>1, <1>2, <2>1, <3>2
    <3> QED
      BY <3>1, <3>2, <3>3, Zenon
  <2>2. CASE b = n + 1
    <3>0. emitted'[b] = packet /\ fed'[b] = remaining
      BY <1>2, <1>12, <2>2
    <3>1. Fits(remaining) /\ remaining = 0 /\ packet = <<Bytes(start, n + 1)>>
      BY <1>5, <3>0, Zenon
    <3>2. start \in 1..(n + 1)
      BY <1>1
    <3>3. /\ emitted'[b] = <<Bytes(start, b)>>
          /\ fed'[b] = 0
          /\ \A k \in start..b : fed'[k] = fed'[b] + (b - k)
      <4>1. emitted'[b] = <<Bytes(start, b)>>
        BY <2>2, <3>0, <3>1, Zenon
      <4>2. fed'[b] = 0 /\ \A k \in start..b : fed'[k] = fed'[b] + (b - k)
        BY <1>1, <1>4, <2>2, <3>0, <3>1
      <4> QED
        BY <4>1, <4>2
    <3> QED
      BY <2>2, <3>2, <3>3
  <2> QED
    BY <1>1, <1>12, <2>1, <2>2
<1>11. RunsAreDelivered'
  <2> SUFFICES ASSUME NEW b \in 1..(n + 1), NEW a \in 1..b,
                      fed'[b] = 0,
                      \A k \in a..b : fed'[k] = fed'[b] + (b - k),
                      a = 1 \/ fed'[a - 1] = 0
               PROVE  emitted'[b] = <<Bytes(a, b)>>
    BY <1>0, <1>1, <1>2 DEF RunsAreDelivered, CountsDown, n, d
  <2>1. CASE b \in 1..n
    <3>1. /\ fed[b] = 0
          /\ \A k \in a..b : fed[k] = fed[b] + (b - k)
          /\ a = 1 \/ fed[a - 1] = 0
      BY <1>1, <1>2, <2>1
    <3>2. emitted[b] = <<Bytes(a, b)>>
      BY <1>0, <1>1, <2>1, <3>1 DEF RunsAreDelivered, CountsDown, n, d
    <3> QED
      BY <1>12, <2>1, <3>2, Zenon
  <2>2. CASE b = n + 1
    <3>1. Fits(remaining) /\ start = a /\ remaining = 0
      BY <1>1, <1>2, <1>8, <2>2
    <3>2. emitted'[b] = packet /\ packet = <<Bytes(start, n + 1)>>
      BY <1>5, <1>12, <2>2, <3>1, Zenon
    <3> QED
      BY <2>2, <3>1, <3>2, Zenon
  <2> QED
    BY <1>1, <2>1, <2>2
<1> QED
  BY <1>7, <1>9, <1>10, <1>11 DEF IInv

THEOREM RunsInvariant == ASSUME HonestPeer PROVE Spec => []IInv
<1>1. IInv /\ TypeOK' /\ [Next]_vars => IInv'
  <2> SUFFICES ASSUME IInv, TypeOK', [Next]_vars PROVE IInv'
    OBVIOUS
  <2>1. CASE UNCHANGED vars
    BY <2>1 DEF IInv, vars, TypeOK, OpenRun, HoldsWholeRun, PacketIsARun, RunsAreDelivered, CountsDown
  <2>2. ASSUME NEW remaining \in PeerCounts, Feed(remaining) PROVE IInv'
    BY <2>2, FeedInv
  <2> QED
    BY <2>1, <2>2 DEF Next
<1> QED
  BY <1>1, InitInv, TypeCorrect, PTL DEF Spec

(* message.rs:69: between two segments the accumulator holds one run of
   consecutive segments and waits for the one that continues it; or it holds
   nothing and waits for nothing. *)
THEOREM HoldsTheOpenRun == ASSUME HonestPeer PROVE Spec => []OpenRun
<1>1. IInv => OpenRun
  BY DEF IInv
<1> QED
  BY <1>1, RunsInvariant, PTL

(* Whatever the order in which counters arrive, a completed packet is the
   payload of consecutive segments that count down to 0. *)
THEOREM PacketsAreRuns == ASSUME HonestPeer PROVE Spec => []PacketIsARun
<1>1. IInv => PacketIsARun
  BY DEF IInv
<1> QED
  BY <1>1, RunsInvariant, PTL

(* Whatever came before, a message sent after the end of another one is
   completed in full. *)
THEOREM DamageEndsWithTheMessage == ASSUME HonestPeer PROVE Spec => []RunsAreDelivered
<1>1. IInv => RunsAreDelivered
  BY DEF IInv
<1> QED
  BY <1>1, RunsInvariant, PTL
=============================================================================
