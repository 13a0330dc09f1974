--------------------------- MODULE MCMessageFeed ---------------------------
(* The accumulator on a counter byte of two bits.  HonestCounts are those
   split_into_segments can produce (at most U8MAX segments). *)
EXTENDS MessageFeed

HonestCounts == 0..(U8MAX - 1)
=============================================================================
