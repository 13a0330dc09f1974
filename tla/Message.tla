------------------------------- MODULE Message -------------------------------
(***************************************************************************)
(* Segments and their reassembly: src/src/protocol/message.rs.             *)
(*                                                                         *)
(* A payload is a sequence of bytes, a byte is any value.  A segment is a  *)
(* record with the count of segments that follow it and its share of the   *)
(* payload.  On the wire a segment is one byte longer than its data, so    *)
(* the minimum of two bytes that decode asks for is non-empty data.        *)
(***************************************************************************)
EXTENDS Integers, Sequences

CONSTANTS MAX_MESSAGE_SIZE,   (* bytes of payload in a full segment (10000)  *)
          U8MAX               (* largest value of the counter byte (255)     *)

ASSUME SizesAssumption == /\ MAX_MESSAGE_SIZE \in Nat \ {0}
                          /\ U8MAX \in Nat \ {0}
-----------------------------------------------------------------------------
MessageSegment(remaining, data) ==
  [remaining_segments |-> remaining, data |-> data]

\* Mutant: one byte too many is asked for.
Decodes_TooStrict(segment) == Len(segment.data) > 1

\* MessageSegment::decode refuses a buffer that holds the counter byte only.
Decodes(segment) == segment.data # <<>>

-----------------------------------------------------------------------------
(* split_into_segments *)

DivCeil(n, d) == (n + d - 1) \div d

SegmentCount(len) ==
  IF len <= MAX_MESSAGE_SIZE THEN 1 ELSE DivCeil(len, MAX_MESSAGE_SIZE)

\* Err(MessageTooLarge): the short path never gets as far as the check.
TooLarge(len) == len > MAX_MESSAGE_SIZE /\ SegmentCount(len) > U8MAX

\* Where the i-th chunk of a payload ends.
ChunkEnd(len, i) ==
  IF i * MAX_MESSAGE_SIZE <= len THEN i * MAX_MESSAGE_SIZE ELSE len

SplitIntoSegments(data) ==
  [i \in 1..SegmentCount(Len(data)) |->
     MessageSegment(SegmentCount(Len(data)) - i,
                    SubSeq(data, (i - 1) * MAX_MESSAGE_SIZE + 1, ChunkEnd(Len(data), i)))]

-----------------------------------------------------------------------------
(* The accumulator *)

NewMessage == [expected_segments |-> 0, data |-> <<>>]

\* The count a first segment announces; the byte wraps (no overflow checks in
\* a release build).
Announced(segment) ==
  IF segment.remaining_segments = U8MAX THEN 0 ELSE segment.remaining_segments + 1

\* expected_segments once the segment has been looked at.
ExpectedOn(message, segment) ==
  IF message.expected_segments = 0 /\ segment.remaining_segments > 0
  THEN Announced(segment)
  ELSE message.expected_segments

OutOfOrder(message, segment) ==
  LET expected == ExpectedOn(message, segment)
  IN  expected > 0 /\ expected - 1 # segment.remaining_segments

\* Mutant: an error leaves the data of the abandoned message behind.
AddSegment_KeepsData(message, segment) ==
  LET expected == ExpectedOn(message, segment)
      data     == message.data \o segment.data
  IN  IF OutOfOrder(message, segment)
      THEN [message |-> [NewMessage EXCEPT !.data = message.data], packet |-> <<>>]
      ELSE IF segment.remaining_segments = 0
      THEN [message |-> NewMessage, packet |-> <<data>>]
      ELSE [message |-> [expected_segments |-> expected - 1, data |-> data], packet |-> <<>>]

\* Mutant: an error clears the data and not the expected count.
AddSegment_KeepsCount(message, segment) ==
  LET expected == ExpectedOn(message, segment)
      data     == message.data \o segment.data
  IN  IF OutOfOrder(message, segment)
      THEN [message |-> [expected_segments |-> expected, data |-> <<>>], packet |-> <<>>]
      ELSE IF segment.remaining_segments = 0
      THEN [message |-> NewMessage, packet |-> <<data>>]
      ELSE [message |-> [expected_segments |-> expected - 1, data |-> data], packet |-> <<>>]

\* Mutant: the count is decremented for single segments too, and not reset.
AddSegment_Underflows(message, segment) ==
  LET expected == ExpectedOn(message, segment)
      data     == message.data \o segment.data
  IN  IF OutOfOrder(message, segment)
      THEN [message |-> NewMessage, packet |-> <<>>]
      ELSE IF segment.remaining_segments = 0
      THEN [message |-> [expected_segments |-> expected - 1, data |-> <<>>], packet |-> <<data>>]
      ELSE [message |-> [expected_segments |-> expected - 1, data |-> data], packet |-> <<>>]

\* What add_segment leaves in the accumulator, and the packet it completes:
\* a sequence of no or one payload.
AddSegment(message, segment) ==
  LET expected == ExpectedOn(message, segment)
      data     == message.data \o segment.data
  IN  IF OutOfOrder(message, segment)
      THEN [message |-> NewMessage, packet |-> <<>>]
      ELSE IF segment.remaining_segments = 0
      THEN [message |-> NewMessage, packet |-> <<data>>]
      ELSE [message |-> [expected_segments |-> IF expected > 0 THEN expected - 1 ELSE 0,
                         data |-> data],
            packet  |-> <<>>]
=============================================================================
