----------------------------- MODULE MessageFeed -----------------------------
(***************************************************************************)
(* One accumulator fed by a peer that may put anything in the counter      *)
(* byte: the segments of interleaved, truncated and restarted messages     *)
(* are all among the sequences it is fed.  The k-th segment carries the    *)
(* single byte k, so a packet names the segments it was assembled from.    *)
(***************************************************************************)
EXTENDS Message

CONSTANTS PeerCounts,   (* the counter bytes the peer uses                 *)
          MaxFeeds      (* bound on the number of segments                 *)

ASSUME FeedAssumption == /\ PeerCounts \subseteq 0..U8MAX
                         /\ MaxFeeds \in Nat

VARIABLES fed,       \* the counter bytes fed so far
          message,   \* the accumulator
          emitted    \* emitted[k]: the packet (none or one) the k-th segment completed
vars == <<fed, message, emitted>>

Init == /\ fed = <<>>
        /\ message = NewMessage
        /\ emitted = <<>>

Feed(remaining) ==
  LET result == AddSegment(message, MessageSegment(remaining, <<Len(fed) + 1>>))
  IN  /\ Len(fed) < MaxFeeds
      /\ fed' = Append(fed, remaining)
      /\ message' = result.message
      /\ emitted' = Append(emitted, result.packet)

Next == \E remaining \in PeerCounts : Feed(remaining)

Spec == Init /\ [][Next]_vars
-----------------------------------------------------------------------------
\* Segments a..b count down without a gap: each announces one segment less
\* than the one before it.
CountsDown(a, b) == \A k \in a..b : fed[k] = fed[b] + (b - k)

\* The bytes a..b, in order: the payload assembled from segments a..b.
Bytes(a, b) == [k \in 1..(b - a + 1) |-> a + k - 1]

(* Type invariant of the accumulator and its two logs. *)
TypeOK == /\ fed \in Seq(PeerCounts)
          /\ message.expected_segments \in 0..U8MAX
          /\ message.data \in Seq(Nat)
          /\ emitted \in Seq(Seq(Seq(Nat)))
          /\ Len(emitted) = Len(fed)

(* add_segment completes a packet only from consecutive segments that count
   down to 0: nothing is skipped, repeated or left over from an earlier,
   abandoned message. *)
PacketIsARun ==
  \A b \in 1..Len(emitted) :
    emitted[b] # <<>> =>
      \E a \in 1..b : /\ emitted[b] = <<Bytes(a, b)>>
                      /\ fed[b] = 0
                      /\ CountsDown(a, b)

(* Whatever was fed before, a message whose segments follow a last segment
   (counter 0) is completed in full: one damaged message never costs the
   message after the next. *)
RunsAreDelivered ==
  \A b \in 1..Len(fed) : \A a \in 1..b :
    (/\ fed[b] = 0
     /\ CountsDown(a, b)
     /\ a = 1 \/ fed[a - 1] = 0)
    => emitted[b] = <<Bytes(a, b)>>

-----------------------------------------------------------------------------
(* What the accumulator remembers is the run that is open: the last
   Len(message.data) segments, which count down to one above the next
   expected counter.  (The inductive part of the two properties above.) *)
OpenRun ==
  LET n == Len(fed)
      d == Len(message.data)
  IN  /\ d <= n
      /\ message.data = Bytes(n - d + 1, n)
      /\ CountsDown(n - d + 1, n)
      /\ d > 0 => /\ fed[n] > 0
                  /\ message.expected_segments = fed[n]
      /\ d = 0 => message.expected_segments = 0
=============================================================================
