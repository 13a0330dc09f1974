--------------------------- MODULE MessageChannel ---------------------------
(***************************************************************************)
(* What one direction of a session promises the applications at its two    *)
(* ends: the payloads given to send come out of recv whole, once and in    *)
(* the order in which they went in.  The channel may stop at any point     *)
(* (a session can be closed), so it promises no delivery.                  *)
(***************************************************************************)
EXTENDS Naturals, Sequences

CONSTANT Data        (* the payloads that may be sent *)

VARIABLES sent,       \* the payloads given to send, in order
          received    \* the payloads recv returned, in order
vars == <<sent, received>>

Init == /\ sent = <<>>
        /\ received = <<>>

Send(data) == /\ sent' = Append(sent, data)
              /\ UNCHANGED received

Receive == /\ Len(received) < Len(sent)
           /\ received' = Append(received, sent[Len(received) + 1])
           /\ UNCHANGED sent

Next == \/ \E data \in Data : Send(data)
        \/ Receive

Spec == Init /\ [][Next]_vars
=============================================================================
