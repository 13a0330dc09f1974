---------------------------- MODULE MessageProofs ----------------------------
(***************************************************************************)
(* Splitting and reassembly are inverse, for every payload, segment size   *)
(* and width of the counter byte.  Reassembly says what one segment adds   *)
(* to the accumulator; RoundTrip takes all of them together.               *)
(***************************************************************************)
EXTENDS Message, SequenceTheorems, WellFoundedInduction, TLAPS

(* Ceiling division: the last chunk is not empty and the chunks suffice. *)
LEMMA DivCeilBounds ==
  ASSUME NEW n \in Nat \ {0}, NEW d \in Nat \ {0}
  PROVE  /\ DivCeil(n, d) \in Nat \ {0}
         /\ (DivCeil(n, d) - 1) * d < n
         /\ n <= DivCeil(n, d) * d
<1> DEFINE q == (n + d - 1) \div d
<1>1. q \in Int /\ q * d <= n + d - 1 /\ n + d - 1 < (q + 1) * d
  OBVIOUS
<1>2. q \in Nat \ {0}
  BY <1>1
<1> QED
  BY <1>1, <1>2 DEF DivCeil

(* Where the chunks of a payload of len bytes lie. *)
LEMMA ChunkBounds ==
  ASSUME NEW len \in Nat \ {0}, NEW i \in 1..SegmentCount(len)
  PROVE  /\ SegmentCount(len) \in Nat \ {0}
         /\ ChunkEnd(len, SegmentCount(len)) = len
         /\ ChunkEnd(len, i) \in 1..len
         /\ (i - 1) * MAX_MESSAGE_SIZE \in Nat
         /\ (i - 1) * MAX_MESSAGE_SIZE < ChunkEnd(len, i)
         /\ i < SegmentCount(len) => ChunkEnd(len, i) = i * MAX_MESSAGE_SIZE
<1> DEFINE d == MAX_MESSAGE_SIZE
           c == SegmentCount(len)
<1>1. d \in Nat \ {0}
  BY SizesAssumption
<1>2. c \in Nat \ {0} /\ (c - 1) * d < len /\ len <= c * d
  <2>1. CASE len <= d
    BY <1>1, <2>1 DEF SegmentCount
  <2>2. CASE ~(len <= d)
    <3>1. c = DivCeil(len, d)
      BY <2>2 DEF SegmentCount
    <3> QED
      BY <1>1, <3>1, DivCeilBounds
  <2> QED
    BY <2>1, <2>2
<1> HIDE DEF c, d
<1>3. i \in Nat \ {0} /\ i <= c
  BY <1>2 DEF c
<1>4. /\ (i - 1) * d \in Nat
      /\ i * d \in Nat
      /\ (i - 1) * d <= (c - 1) * d
      /\ (i - 1) * d < i * d
      /\ i < c => i * d <= (c - 1) * d
  BY <1>1, <1>2, <1>3
<1>5. ChunkEnd(len, c) = len
  <2>1. c * d \in Nat
    BY <1>1, <1>2
  <2>2. ChunkEnd(len, c) = IF c * d <= len THEN c * d ELSE len
    BY DEF ChunkEnd, d
  <2> QED
    BY <1>2, <2>1, <2>2
<1> DEFINE before == (i - 1) * d
           upto == i * d
           short == (c - 1) * d
<1>6. ChunkEnd(len, i) = IF upto <= len THEN upto ELSE len
  BY DEF ChunkEnd, d
<1>7. /\ before \in Nat /\ upto \in Nat /\ short \in Int
      /\ before <= short /\ before < upto /\ short < len
      /\ i < c => upto <= short
  BY <1>1, <1>2, <1>4
<1> HIDE DEF before, upto, short
<1>8. /\ i < c => ChunkEnd(len, i) = upto
      /\ before < ChunkEnd(len, i) /\ ChunkEnd(len, i) \in 1..len
  BY <1>6, <1>7
<1> QED
  BY <1>2, <1>5, <1>7, <1>8 DEF c, d, before, upto

(* What split_into_segments returns: at least one segment, counting down to
   0, and no empty segment unless the payload itself is empty. *)
LEMMA SplitShape ==
  ASSUME NEW S, NEW data \in Seq(S)
  PROVE  LET c == SegmentCount(Len(data))
             segments == SplitIntoSegments(data)
         IN  /\ c \in Nat \ {0}
             /\ Len(segments) = c
             /\ \A i \in 1..c :
                  /\ segments[i].remaining_segments = c - i
                  /\ segments[i].data =
                       SubSeq(data, (i - 1) * MAX_MESSAGE_SIZE + 1, ChunkEnd(Len(data), i))
                  /\ segments[i].data \in Seq(S)
                  /\ data # <<>> => Decodes(segments[i])
<1> DEFINE len == Len(data)
           c == SegmentCount(len)
           segments == SplitIntoSegments(data)
<1>1. len \in Nat /\ (data # <<>> => len # 0) /\ (data = <<>> => len = 0)
  BY EmptySeq
<1>2. c \in Nat \ {0} /\ (len = 0 => c = 1)
  <2>1. CASE len <= MAX_MESSAGE_SIZE
    BY <2>1 DEF SegmentCount
  <2>2. CASE ~(len <= MAX_MESSAGE_SIZE)
    BY <1>1, <2>2, DivCeilBounds, SizesAssumption DEF SegmentCount
  <2> QED
    BY <2>1, <2>2
<1>3. Len(segments) = c
  BY <1>2 DEF SplitIntoSegments
<1>4. ASSUME NEW i \in 1..c
      PROVE  LET chunk == SubSeq(data, (i - 1) * MAX_MESSAGE_SIZE + 1, ChunkEnd(len, i))
             IN  /\ segments[i] = MessageSegment(c - i, chunk)
                 /\ chunk \in Seq(S)
                 /\ data # <<>> => chunk # <<>>
                 /\ MessageSegment(c - i, chunk).remaining_segments = c - i
                 /\ MessageSegment(c - i, chunk).data = chunk
  <2> DEFINE from == (i - 1) * MAX_MESSAGE_SIZE + 1
             to == ChunkEnd(len, i)
             chunk == SubSeq(data, from, to)
  <2>1. segments[i] = MessageSegment(c - i, chunk)
    BY <1>2 DEF SplitIntoSegments
  <2>2. /\ MessageSegment(c - i, chunk).remaining_segments = c - i
        /\ MessageSegment(c - i, chunk).data = chunk
    BY DEF MessageSegment
  <2>3. CASE len # 0
    <3>1. from \in 1..len /\ to \in 1..len /\ from <= to
      BY <1>1, <2>3, ChunkBounds
    <3> HIDE DEF from, to
    <3>2. chunk \in Seq(S) /\ Len(chunk) = to - from + 1
      BY <3>1, SubSeqProperties
    <3>3. chunk # <<>>
      BY <3>1, <3>2
    <3> QED
      BY <2>1, <2>2, <3>2, <3>3 DEF from, to
  <2>4. CASE len = 0
    <3>1. i = 1
      BY <1>2, <2>4
    <3>2. from = 1 /\ to = 0
      BY <2>4, <3>1, SizesAssumption DEF ChunkEnd
    <3>3. chunk = <<>>
      BY <3>2
    <3> QED
      BY <1>1, <2>1, <2>2, <2>4, <3>3
  <2> QED
    BY <2>3, <2>4
<1> QED
  BY <1>2, <1>3, <1>4, Zenon DEF Decodes

(* A payload that is not too large needs no more segments than the counter
   byte can count. *)
LEMMA CountFits ==
  ASSUME NEW len \in Nat, ~TooLarge(len)
  PROVE  SegmentCount(len) <= U8MAX
<1>1. CASE len <= MAX_MESSAGE_SIZE
  BY <1>1, SizesAssumption DEF SegmentCount
<1>2. CASE ~(len <= MAX_MESSAGE_SIZE)
  <2>1. SegmentCount(len) \in Nat
    BY <1>2, DivCeilBounds, SizesAssumption DEF SegmentCount
  <2> QED
    BY <1>2, <2>1, SizesAssumption DEF TooLarge
<1> QED
  BY <1>1, <1>2

(* The types of an accumulator and of the segments it is given. *)
Accumulators(S) == [expected_segments : 0..U8MAX, data : Seq(S)]

LEMMA AddSegmentType ==
  ASSUME NEW S, NEW message \in Accumulators(S), NEW segment,
         segment.remaining_segments \in 0..U8MAX, segment.data \in Seq(S)
  PROVE  LET result == AddSegment(message, segment)
         IN  /\ result.message \in Accumulators(S)
             /\ result.packet \in Seq(Seq(S))
             /\ Len(result.packet) <= 1
<1> DEFINE x == ExpectedOn(message, segment)
           joined == message.data \o segment.data
           left == IF x > 0 THEN x - 1 ELSE 0
           result == AddSegment(message, segment)
<1>1. joined \in Seq(S)
  BY DEF Accumulators
<1>2. left \in 0..U8MAX
  <2>1. x \in 0..U8MAX
    BY SizesAssumption DEF ExpectedOn, Announced, Accumulators
  <2> HIDE DEF x
  <2> QED
    BY <2>1, SizesAssumption
<1>3. NewMessage \in Accumulators(S)
  BY SizesAssumption DEF NewMessage, Accumulators
<1>4. \/ result = [message |-> NewMessage, packet |-> <<>>]
      \/ result = [message |-> NewMessage, packet |-> <<joined>>]
      \/ result = [message |-> [expected_segments |-> left, data |-> joined], packet |-> <<>>]
  BY Zenon DEF AddSegment
<1> HIDE DEF left, joined, result
<1>5. [expected_segments |-> left, data |-> joined] \in Accumulators(S)
  BY <1>1, <1>2 DEF Accumulators
<1>6. /\ <<joined>> \in Seq(Seq(S)) /\ Len(<<joined>>) <= 1
      /\ <<>> \in Seq(Seq(S)) /\ Len(<<>>) <= 1
  BY <1>1
<1>7. CASE result = [message |-> NewMessage, packet |-> <<>>]
  BY <1>3, <1>6, <1>7 DEF result
<1>8. CASE result = [message |-> NewMessage, packet |-> <<joined>>]
  BY <1>3, <1>6, <1>8 DEF result
<1>9. CASE result = [message |-> [expected_segments |-> left, data |-> joined], packet |-> <<>>]
  BY <1>5, <1>6, <1>9 DEF result
<1> QED
  BY <1>4, <1>7, <1>8, <1>9

-----------------------------------------------------------------------------
(* The accumulator after the first i segments of a payload, the last one
   excepted. *)
Partial(data, i) ==
  IF i = 0
  THEN NewMessage
  ELSE [expected_segments |-> SegmentCount(Len(data)) - i,
        data |-> SubSeq(data, 1, ChunkEnd(Len(data), i))]

(* add_segment, given the next segment of a payload, holds one segment more
   of it, and completes exactly the payload with the last. *)
LEMMA Reassembly ==
  ASSUME NEW S, NEW data \in Seq(S), data # <<>>, ~TooLarge(Len(data)),
         NEW i \in 1..SegmentCount(Len(data))
  PROVE  AddSegment(Partial(data, i - 1), SplitIntoSegments(data)[i]) =
           IF i = SegmentCount(Len(data))
           THEN [message |-> NewMessage, packet |-> <<data>>]
           ELSE [message |-> Partial(data, i), packet |-> <<>>]
<1> DEFINE len == Len(data)
           c == SegmentCount(len)
           segment == SplitIntoSegments(data)[i]
           message == Partial(data, i - 1)
           upto(k) == SubSeq(data, 1, ChunkEnd(len, k))
<1>1. len \in Nat \ {0}
  BY EmptySeq
<1>2. /\ c \in Nat \ {0}
      /\ segment.remaining_segments = c - i
      /\ segment.data = SubSeq(data, (i - 1) * MAX_MESSAGE_SIZE + 1, ChunkEnd(len, i))
  BY SplitShape
<1>3. c <= U8MAX
  BY <1>1, CountFits
<1>4. i \in Nat /\ 1 <= i /\ i <= c
  BY <1>2
<1>10. /\ message.expected_segments = IF i = 1 THEN 0 ELSE c - (i - 1)
       /\ message.data = IF i = 1 THEN <<>> ELSE upto(i - 1)
  <2>1. CASE i = 1
    BY <1>4, <2>1 DEF Partial, NewMessage
  <2>2. CASE i # 1
    <3>1. i - 1 # 0
      BY <1>4, <2>2
    <3>2. message = [expected_segments |-> c - (i - 1), data |-> upto(i - 1)]
      BY <3>1 DEF Partial
    <3> HIDE DEF message, c
    <3> QED
      BY <2>2, <3>2
  <2> QED
    BY <2>1, <2>2
<1> HIDE DEF segment, message, c
(* The data: what was held, followed by the chunk. *)
<1>5. message.data \o segment.data = upto(i)
  <2>1. CASE i = 1
    <3>1. message.data = <<>>
      BY <1>10, <2>1
    <3>2. (i - 1) * MAX_MESSAGE_SIZE + 1 = 1
      BY <2>1, SizesAssumption
    <3>3. segment.data = upto(i)
      BY <1>2, <3>2
    <3>4. upto(i) \in Seq(S)
      <4>1. ChunkEnd(len, i) \in 1..len
        BY <1>1, ChunkBounds DEF c
      <4> QED
        BY <4>1, SubSeqProperties
    <3> QED
      BY <3>1, <3>3, <3>4
  <2>2. CASE i > 1
    <3> DEFINE k == (i - 1) * MAX_MESSAGE_SIZE
    <3>1. /\ k \in Nat
          /\ k < ChunkEnd(len, i)
          /\ ChunkEnd(len, i) \in 1..len
      BY <1>1, ChunkBounds DEF c
    <3>2. i - 1 \in 1..c /\ i - 1 < c /\ i # 1
      BY <1>2, <1>4, <2>2
    <3>3. ChunkEnd(len, i - 1) = k
      BY <1>1, <3>2, ChunkBounds DEF c
    <3>4. segment.data = SubSeq(data, k + 1, ChunkEnd(len, i))
      BY <1>2
    <3> HIDE DEF k
    <3>5. message.data = SubSeq(data, 1, k)
      BY <1>10, <3>2, <3>3, Zenon
    <3>6. 1 \in 1..(len + 1) /\ k \in (1 - 1)..len /\ ChunkEnd(len, i) \in k..len
      BY <1>1, <3>1
    <3>7. SubSeq(data, 1, k) \o SubSeq(data, k + 1, ChunkEnd(len, i)) = upto(i)
      BY <3>6, ConcatAdjacentSubSeq
    <3> QED
      BY <3>4, <3>5, <3>7, Zenon
  <2>3. i = 1 \/ i > 1
    BY <1>4
  <2> QED
    BY <2>1, <2>2, <2>3, Zenon
(* The counter: the segment is the one that is waited for. *)
<1>6. ExpectedOn(message, segment) = IF i = 1 /\ c = 1 THEN 0 ELSE c - i + 1
  <2>1. CASE i = 1
    BY <1>2, <1>3, <1>4, <1>10, <2>1, SizesAssumption DEF ExpectedOn, Announced
  <2>2. CASE i > 1
    BY <1>2, <1>4, <1>10, <2>2 DEF ExpectedOn
  <2> QED
    BY <1>4, <2>1, <2>2
<1>7. ~OutOfOrder(message, segment)
  BY <1>2, <1>4, <1>6 DEF OutOfOrder
<1>8. CASE i = c
  <2>1. upto(i) = data
    <3>1. ChunkEnd(len, i) = len
      BY <1>1, <1>8, ChunkBounds DEF c
    <3> QED
      BY <3>1, SubSeqFull
  <2>2. segment.remaining_segments = 0
    BY <1>2, <1>4, <1>8
  <2>3. AddSegment(message, segment) = [message |-> NewMessage, packet |-> <<data>>]
    BY <1>5, <1>7, <2>1, <2>2, Zenon DEF AddSegment
  <2> QED
    BY <1>8, <2>3 DEF message, segment, c
<1>9. CASE i < c
  <2>1. Partial(data, i) = [expected_segments |-> c - i, data |-> upto(i)]
    BY <1>4 DEF Partial, c
  <2> DEFINE x == ExpectedOn(message, segment)
             left == IF x > 0 THEN x - 1 ELSE 0
  <2>2. left = c - i
    BY <1>2, <1>4, <1>6, <1>9
  <2>3. segment.remaining_segments # 0
    BY <1>2, <1>4, <1>9
  <2>4. AddSegment(message, segment) =
          [message |-> [expected_segments |-> left, data |-> message.data \o segment.data],
           packet |-> <<>>]
    BY <1>7, <2>3, Zenon DEF AddSegment
  <2> HIDE DEF left
  <2>5. AddSegment(message, segment) = [message |-> Partial(data, i), packet |-> <<>>]
    BY <1>5, <2>1, <2>2, <2>4, Zenon
  <2> QED
    BY <1>4, <1>9, <2>5 DEF message, segment, c
<1> QED
  BY <1>2, <1>4, <1>8, <1>9
-----------------------------------------------------------------------------
(* All the segments of a payload *)

\* Induction up to a number, for a set: a least number missing cannot be.
LEMMA InductionUpTo ==
  ASSUME NEW last \in Nat, NEW T \in SUBSET (0..last), 0 \in T,
         \A n \in T : n < last => n + 1 \in T
  PROVE  T = 0..last
<1> SUFFICES ASSUME T # 0..last PROVE FALSE
  OBVIOUS
<1> DEFINE Missing == (0..last) \ T
<1>1. Missing \subseteq Nat /\ Missing # {}
  <2>1. Missing \subseteq Nat
    OBVIOUS
  <2>2. Missing # {}
    BY Zenon
  <2> QED
    BY <2>1, <2>2
<1>2. PICK m \in Missing : \A k \in Missing : <<k, m>> \notin OpToRel(<, Nat)
  BY <1>1, WFMin, NatLessThanWellFounded, Zenon
<1>3. ASSUME NEW k \in Missing PROVE ~(k < m)
  BY <1>1, <1>2, Zenon DEF OpToRel
<1>4. m - 1 \in 0..last /\ m - 1 < m /\ m - 1 < last /\ (m - 1) + 1 = m
  OBVIOUS
<1>5. m - 1 \in T
  BY <1>3, <1>4
<1> QED
  BY <1>4, <1>5

(* message.rs:60-141: the segments of a payload, fed to add_segment one after
   the other from an empty accumulator (held[i] is what is in it after the
   first i), give no packet but with the last, and then exactly the payload;
   and they leave the accumulator as it was. *)
THEOREM RoundTrip ==
  ASSUME NEW S, NEW data \in Seq(S), data # <<>>, ~TooLarge(Len(data)),
         NEW held, held[0] = NewMessage,
         \A i \in 1..SegmentCount(Len(data)) :
           held[i] = AddSegment(held[i - 1], SplitIntoSegments(data)[i]).message
  PROVE  /\ held[SegmentCount(Len(data))] = NewMessage
         /\ \A i \in 1..SegmentCount(Len(data)) :
              AddSegment(held[i - 1], SplitIntoSegments(data)[i]).packet =
                IF i = SegmentCount(Len(data)) THEN <<data>> ELSE <<>>
<1>1. PICK c \in Nat \ {0} : c = SegmentCount(Len(data))
  BY SplitShape
<1>2. PICK last \in Nat : last = c - 1
  OBVIOUS
<1> DEFINE T == {i \in 0..last : held[i] = Partial(data, i)}
<1>3. 0 \in T
  BY DEF Partial
<1>4. ASSUME NEW i \in T, i < last PROVE i + 1 \in T
  <2>1. i + 1 \in 1..c /\ (i + 1) - 1 = i /\ i + 1 # c /\ i + 1 \in 0..last
    BY <1>2, <1>4
  <2>2. held[i + 1] = AddSegment(Partial(data, i), SplitIntoSegments(data)[i + 1]).message
    BY <1>1, <2>1
  <2>3. AddSegment(Partial(data, i), SplitIntoSegments(data)[i + 1])
          = [message |-> Partial(data, i + 1), packet |-> <<>>]
    BY <1>1, <2>1, Reassembly
  <2> QED
    BY <2>1, <2>2, <2>3
<1>5. T = 0..last
  <2>1. T \in SUBSET (0..last)
    OBVIOUS
  <2> HIDE DEF T
  <2> QED
    BY <1>3, <1>4, <2>1, InductionUpTo
<1>6. ASSUME NEW i \in 1..c
      PROVE  AddSegment(held[i - 1], SplitIntoSegments(data)[i]) =
               IF i = c THEN [message |-> NewMessage, packet |-> <<data>>]
                        ELSE [message |-> Partial(data, i), packet |-> <<>>]
  <2>1. i - 1 \in 0..last
    BY <1>2
  <2>2. held[i - 1] = Partial(data, i - 1)
    BY <1>5, <2>1
  <2> QED
    BY <1>1, <2>2, Reassembly
<1>7. c \in 1..c
  OBVIOUS
<1>8. held[c] = NewMessage
  <2>1. AddSegment(held[c - 1], SplitIntoSegments(data)[c])
          = [message |-> NewMessage, packet |-> <<data>>]
    BY <1>6, <1>7
  <2>2. held[c] = AddSegment(held[c - 1], SplitIntoSegments(data)[c]).message
    BY <1>1, <1>7
  <2> QED
    BY <2>1, <2>2
<1>9. ASSUME NEW i \in 1..c
      PROVE  AddSegment(held[i - 1], SplitIntoSegments(data)[i]).packet =
               IF i = c THEN <<data>> ELSE <<>>
  <2>1. CASE i = c
    <3>1. AddSegment(held[i - 1], SplitIntoSegments(data)[i])
            = [message |-> NewMessage, packet |-> <<data>>]
      BY <1>6, <2>1
    <3> QED
      BY <2>1, <3>1
  <2>2. CASE i # c
    <3>1. AddSegment(held[i - 1], SplitIntoSegments(data)[i])
            = [message |-> Partial(data, i), packet |-> <<>>]
      BY <1>6, <2>2
    <3> QED
      BY <2>2, <3>1
  <2> QED
    BY <2>1, <2>2
<1> QED
  BY <1>1, <1>8, <1>9
=============================================================================
