----------------------------- MODULE ByteStream -----------------------------
(***************************************************************************)
(* What AsyncRead and AsyncWrite of a NethernetStream promise together: a  *)
(* reader gets the bytes that were written, in their order, none twice and *)
(* none in between missing.  An error, or the drop of the stream, takes    *)
(* back bytes from the end, but never one that was flushed or read.        *)
(***************************************************************************)
EXTENDS Naturals, Sequences, SequencesExt

VARIABLES written,   \* the bytes accepted by poll_write and not taken back
          flushed,   \* how many of them a poll_flush that returned Ok covers
          read       \* the bytes poll_read returned

Init == written = <<>> /\ flushed = 0 /\ read = <<>>

Write == /\ IsPrefix(written, written')
         /\ UNCHANGED <<flushed, read>>

Flush == /\ flushed' = Len(written)
         /\ UNCHANGED <<written, read>>

Read == /\ IsPrefix(read, read')
        /\ IsPrefix(read', written)
        /\ UNCHANGED <<written, flushed>>

TakeBack == /\ IsPrefix(written', written)
            /\ IsPrefix(read, written')
            /\ flushed <= Len(written')
            /\ UNCHANGED <<flushed, read>>

Next == Write \/ Flush \/ Read \/ TakeBack

Spec == Init /\ [][Next]_<<written, flushed, read>>
=============================================================================
