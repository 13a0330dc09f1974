--------------------------- MODULE ErrorExchange ---------------------------
(***************************************************************************)
(* An error is reported with Signal::error, and read from the text of the  *)
(* signal with NegotiationMessage::parse.  Any error may follow another.   *)
(***************************************************************************)
EXTENDS Formats

CONSTANT Connections   (* the connection ids, each a numeral *)

VARIABLES error,       \* the error reported last, or Nothing
          text,        \* the text on the wire
          understood   \* what the other end makes of it, or Nothing, or Refused

Nothing == -1
Refused == -2

vars == <<error, text, understood>>

Init == error = Nothing /\ text = <<>> /\ understood = Nothing

Report ==
  /\ \E e \in Errors, connection \in Connections :
       error' = e /\ text' = SignalText(SignalError(connection, e))
  /\ understood' = Nothing

Understand ==
  /\ text # <<>>
  /\ understood' = IF IsNegotiation(text) THEN Parse(text).error ELSE Refused
  /\ UNCHANGED <<error, text>>

Spec == Init /\ [][Report \/ Understand]_vars
-----------------------------------------------------------------------------
(* webrtc/error.rs:3: "These error codes are sent in CONNECTERROR messages
   during WebRTC negotiation", and :5: ConnectError and SignalErrorCode
   "represent the same logical error conditions".  So the error that is
   reported in a CONNECTERROR is the one that is read there. *)
ErrorsAreUnderstood == understood # Nothing => understood = error
=============================================================================
