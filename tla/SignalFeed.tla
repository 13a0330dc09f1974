----------------------------- MODULE SignalFeed -----------------------------
(***************************************************************************)
(* What one subscriber of a signaller sees: the signals published since it *)
(* subscribed, in order and each once, except that the oldest unread ones  *)
(* are skipped when more than Capacity are waiting; and the end after the  *)
(* last of them, once no more can be published (the doc of                 *)
(* Signaling::signals, src/src/signaling/lan.rs).                          *)
(***************************************************************************)
EXTENDS Naturals, Sequences

CONSTANTS Signals, Capacity

VARIABLES unread,   \* published and not yet read, oldest first
          read,     \* what the subscriber has read
          closed,   \* nothing more is published
          over      \* the subscriber has seen the end

feedVars == <<unread, read, closed, over>>

Init == unread = <<>> /\ read = <<>> /\ closed = FALSE /\ over = FALSE

Publish == /\ ~closed
           /\ \E signal \in Signals :
                unread' = Append(IF Len(unread) < Capacity THEN unread ELSE Tail(unread), signal)
           /\ UNCHANGED <<read, closed, over>>

Read == /\ unread # <<>>
        /\ unread' = Tail(unread) /\ read' = Append(read, Head(unread))
        /\ UNCHANGED <<closed, over>>

Close == closed' = TRUE /\ UNCHANGED <<unread, read, over>>

End == /\ closed /\ unread = <<>> /\ over' = TRUE
       /\ UNCHANGED <<unread, read, closed>>

Spec == Init /\ [][Publish \/ Read \/ Close \/ End]_feedVars
=============================================================================
