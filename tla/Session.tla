------------------------------ MODULE Session ------------------------------
(***************************************************************************)
(* One direction of a NetherNet session: src/src/session/mod.rs.           *)
(*                                                                         *)
(* The session at end "snd" runs send, the one at end "rcv" runs the       *)
(* on_message handler and recv; both can be closed.  Between them lies the *)
(* reliable, ordered data channel of the WebRTC library (external).  The   *)
(* other direction is the same with the ends exchanged and shares with     *)
(* this one only the closed flags and the data channel.                    *)
(*                                                                         *)
(* The byte string of message m with n bytes is <<1, .., n>> tagged with   *)
(* m, so that no two bytes of a behaviour are equal.  Queues are logs with *)
(* a read index: the wire is wired[handled + 1 ..], the packet queue is    *)
(* packets[taken + 1 ..].                                                  *)
(***************************************************************************)
EXTENDS Message, FiniteSets

CONSTANTS Senders,           (* tasks that call send on the sending session   *)
          Receivers,         (* tasks that call recv on the receiving session *)
          Lengths,           (* lengths of the payloads that are sent         *)
          Capacity,          (* of the packet queue (1024)                    *)
          MaxMessages,       (* bound on the calls of send that get to the wire *)
          SendersMayCancel,  (* whether the future of a send may be dropped   *)
          Impatient,         (* the receivers whose recv may be dropped       *)
          Closers            (* the ends whose application calls close        *)

Ends == {"snd", "rcv"}

ASSUME SessionAssumption ==
  /\ Lengths \subseteq Nat
  /\ Capacity \in Nat \ {0}
  /\ MaxMessages \in Nat
  /\ SendersMayCancel \in BOOLEAN
  /\ Impatient \subseteq Receivers
  /\ Closers \subseteq Ends

VARIABLES
  sent,        \* the payloads whose send got as far as splitting them
  outcome,     \* outcome[m]: "sending", "ok", or "failed" (error or dropped future)
  sender,      \* sender[s]: the message s is sending (0: none) and its next segment
  wired,       \* every segment given to the data channel, as [msg, seg]
  handled,     \* how many of them the on_message handler has been called with
  buffer,      \* message_buffer of the receiving session
  completed,   \* the packet the handler holds while the queue is full (0 or 1)
  packets,     \* every packet put into the packet queue
  taken,       \* how many of them recv returned
  receiver,    \* receiver[r]: "idle", "locking" or "waiting" (inside recv)
  attached,    \* attached[e]: the session has its reliable channel
  open,        \* open[e]: the data channel is open as seen from e
  closed,      \* closed[e]: the session's closed flag
  closing      \* closing[e]: close has set the flag and not yet closed the channels

sendVars == <<sent, outcome, sender, wired>>
recvVars == <<handled, buffer, completed, packets, taken, receiver>>
connVars == <<attached, open, closed, closing>>
vars == <<sendVars, recvVars, connVars>>

-----------------------------------------------------------------------------
Payload(m, len) == [i \in 1..len |-> <<m, i>>]

\* The payloads that split_into_segments accepts.
Payloads == {Payload(m, len) : m \in 1..MaxMessages, len \in {l \in Lengths : ~TooLarge(l)}}

SegmentsOf(m) == SplitIntoSegments(sent[m])

Segment(ref) == SegmentsOf(ref.msg)[ref.seg]

Idle == [msg |-> 0, seg |-> 0]

Queued == Len(packets) - taken

Init == /\ sent = <<>>
        /\ outcome = <<>>
        /\ sender = [s \in Senders |-> Idle]
        /\ wired = <<>>
        /\ handled = 0
        /\ buffer = NewMessage
        /\ completed = <<>>
        /\ packets = <<>>
        /\ taken = 0
        /\ receiver = [r \in Receivers |-> "idle"]
        /\ attached = [e \in Ends |-> FALSE]
        /\ open = [e \in Ends |-> TRUE]
        /\ closed = [e \in Ends |-> FALSE]
        /\ closing = [e \in Ends |-> FALSE]
-----------------------------------------------------------------------------
(* set_reliable_channel: the handler is registered and the channel stored. *)
AttachReliable(e) ==
  /\ ~attached[e]
  /\ attached' = [attached EXCEPT ![e] = TRUE]
  /\ UNCHANGED <<sendVars, recvVars, open, closed, closing>>

(* send, up to its first await on the channel.  A closed session, a missing
   channel and a payload that is too large are refused and change nothing. *)
BeginSend(s, len) ==
  LET m == Len(sent) + 1
  IN  /\ sender[s] = Idle
      /\ m <= MaxMessages
      /\ ~closed["snd"]
      /\ attached["snd"]
      /\ ~TooLarge(len)
      /\ sent' = Append(sent, Payload(m, len))
      /\ outcome' = Append(outcome, "sending")
      /\ sender' = [sender EXCEPT ![s] = [msg |-> m, seg |-> 1]]
      /\ UNCHANGED <<wired, recvVars, connVars>>

(* One turn of send's loop: the segment is on the wire.  The session is not
   locked between two turns, and the closed flag is not looked at again. *)
SendSegment(s) ==
  LET ref  == sender[s]
      last == ref.seg = Len(SegmentsOf(ref.msg))
  IN  /\ ref # Idle
      /\ open["snd"]
      /\ wired' = Append(wired, ref)
      /\ sender' = [sender EXCEPT ![s] = IF last THEN Idle ELSE [ref EXCEPT !.seg = @ + 1]]
      /\ outcome' = IF last THEN [outcome EXCEPT ![ref.msg] = "ok"] ELSE outcome
      /\ UNCHANGED <<sent, recvVars, connVars>>

GiveUp(s) ==
  /\ sender[s] # Idle
  /\ sender' = [sender EXCEPT ![s] = Idle]
  /\ outcome' = [outcome EXCEPT ![sender[s].msg] = "failed"]
  /\ UNCHANGED <<sent, wired, recvVars, connVars>>

\* Mutant: a failing channel is tried again and again.
SendFails_Retries(s) == ~open["snd"] /\ sender[s] # Idle /\ UNCHANGED vars

(* channel.send fails, and send returns its error without the rest. *)
SendFails(s) == ~open["snd"] /\ GiveUp(s)

(* The future of a send is dropped at its await. *)
CancelSend(s) == SendersMayCancel /\ GiveUp(s)
-----------------------------------------------------------------------------
\* Mutant: the handler runs again while it still waits for a free slot, and
\* the packet it held is overwritten.
OnMessage_Reentered ==
  LET segment == Segment(wired[handled + 1])
      result  == AddSegment(buffer, segment)
  IN  /\ handled < Len(wired)
      /\ attached["rcv"]
      /\ open["rcv"]
      /\ handled' = handled + 1
      /\ buffer' = result.message
      /\ completed' = result.packet
      /\ UNCHANGED <<sendVars, packets, taken, receiver, connVars>>

(* The on_message handler: decode, then add_segment under the lock of the
   message buffer.  The library calls it for one message at a time. *)
OnMessage ==
  LET segment == Segment(wired[handled + 1])
      result  == AddSegment(buffer, segment)
  IN  /\ handled < Len(wired)
      /\ attached["rcv"]
      /\ open["rcv"]
      /\ completed = <<>>
      /\ handled' = handled + 1
      /\ IF Decodes(segment)
         THEN /\ buffer' = result.message
              /\ completed' = result.packet
         ELSE UNCHANGED <<buffer, completed>>
      /\ UNCHANGED <<sendVars, packets, taken, receiver, connVars>>

\* Mutant: try_send instead of send; what does not fit is dropped.
Enqueue_Drops ==
  /\ completed # <<>>
  /\ packets' = IF Queued < Capacity THEN packets \o completed ELSE packets
  /\ completed' = <<>>
  /\ UNCHANGED <<sendVars, handled, buffer, taken, receiver, connVars>>

\* Mutant: one packet more than the capacity.
Enqueue_Overfills ==
  /\ completed # <<>>
  /\ Queued <= Capacity
  /\ packets' = packets \o completed
  /\ completed' = <<>>
  /\ UNCHANGED <<sendVars, handled, buffer, taken, receiver, connVars>>

\* Mutant: one packet less than the capacity.
Enqueue_Underfills ==
  /\ completed # <<>>
  /\ Queued + 1 < Capacity
  /\ packets' = packets \o completed
  /\ completed' = <<>>
  /\ UNCHANGED <<sendVars, handled, buffer, taken, receiver, connVars>>

(* The handler's tx.send(complete_msg).await gets a free slot. *)
Enqueue ==
  /\ completed # <<>>
  /\ Queued < Capacity
  /\ packets' = packets \o completed
  /\ completed' = <<>>
  /\ UNCHANGED <<sendVars, handled, buffer, taken, receiver, connVars>>
-----------------------------------------------------------------------------
(* recv: past the check of the closed flag (a closed session answers None at
   once, which changes nothing) ... *)
RecvEnter(r) ==
  /\ receiver[r] = "idle"
  /\ ~closed["rcv"]
  /\ receiver' = [receiver EXCEPT ![r] = "locking"]
  /\ UNCHANGED <<sendVars, handled, buffer, completed, packets, taken, connVars>>

(* ... the lock of packet_rx ... *)
RecvLock(r) ==
  /\ receiver[r] = "locking"
  /\ \A other \in Receivers : receiver[other] # "waiting"
  /\ receiver' = [receiver EXCEPT ![r] = "waiting"]
  /\ UNCHANGED <<sendVars, handled, buffer, completed, packets, taken, connVars>>

(* ... and the next packet.  The queue never reports its end: the session
   itself owns a packet_tx. *)
RecvPacket(r) ==
  /\ receiver[r] = "waiting"
  /\ Queued > 0
  /\ taken' = taken + 1
  /\ receiver' = [receiver EXCEPT ![r] = "idle"]
  /\ UNCHANGED <<sendVars, handled, buffer, completed, packets, connVars>>

(* The future of a recv is dropped (a select, a timeout). *)
CancelRecv(r) ==
  /\ r \in Impatient
  /\ receiver[r] # "idle"
  /\ receiver' = [receiver EXCEPT ![r] = "idle"]
  /\ UNCHANGED <<sendVars, handled, buffer, completed, packets, taken, connVars>>
-----------------------------------------------------------------------------
(* close: sets the flag under its lock; a second call returns here. *)
CloseFlag(e) ==
  /\ e \in Closers
  /\ ~closed[e]
  /\ closed' = [closed EXCEPT ![e] = TRUE]
  /\ closing' = [closing EXCEPT ![e] = TRUE]
  /\ UNCHANGED <<sendVars, recvVars, attached, open>>

(* close, the rest: the channels and the peer connection. *)
CloseTransport(e) ==
  /\ closing[e]
  /\ closing' = [closing EXCEPT ![e] = FALSE]
  /\ open' = [open EXCEPT ![e] = FALSE]
  /\ UNCHANGED <<sendVars, recvVars, attached, closed>>

(* The library notices that the other end has closed (external).  What was
   on the wire may or may not have been handled by then. *)
PeerCloses(e) ==
  /\ open[e]
  /\ \E other \in Ends : ~open[other]
  /\ open' = [open EXCEPT ![e] = FALSE]
  /\ UNCHANGED <<sendVars, recvVars, attached, closed, closing>>
-----------------------------------------------------------------------------
SenderStep(s) == \/ \E len \in Lengths : BeginSend(s, len)
                 \/ SendSegment(s)
                 \/ SendFails(s)
                 \/ CancelSend(s)

ReceiverStep(r) == \/ RecvEnter(r)
                   \/ RecvLock(r)
                   \/ RecvPacket(r)
                   \/ CancelRecv(r)

EndStep(e) == \/ AttachReliable(e)
              \/ CloseFlag(e)
              \/ CloseTransport(e)
              \/ PeerCloses(e)

Next == \/ \E s \in Senders : SenderStep(s)
        \/ OnMessage
        \/ Enqueue
        \/ \E r \in Receivers : ReceiverStep(r)
        \/ \E e \in Ends : EndStep(e)

Spec == Init /\ [][Next]_vars

(* Fairness.  Each task that can go on does: the channel accepts segments,
   the handler is called and resumed, the application calls recv in a loop.
   The mutex of packet_rx is first-come first-served (tokio), which is the
   strong fairness of RecvLock.  Nobody is obliged to send, drop or close,
   and a receiver that is Impatient may drop every recv before its packet. *)
Fairness ==
  /\ \A e \in Ends : WF_vars(AttachReliable(e)) /\ WF_vars(CloseTransport(e)) /\ WF_vars(PeerCloses(e))
  /\ \A s \in Senders : WF_vars(SendSegment(s)) /\ WF_vars(SendFails(s))
  /\ WF_vars(OnMessage) /\ WF_vars(Enqueue)
  /\ \A r \in Receivers : WF_vars(RecvEnter(r)) /\ SF_vars(RecvLock(r)) /\ WF_vars(RecvPacket(r))

FairSpec == Spec /\ Fairness
-----------------------------------------------------------------------------
Messages == 1..Len(sent)

LastRef(m) == [msg |-> m, seg |-> Len(SegmentsOf(m))]

\* The handler has been called with the last segment of m.
FullyHandled(m) == \E k \in 1..handled : wired[k] = LastRef(m)

\* Reassembled: in the queue, returned by recv, or about to be queued.
Delivered(m) == sent[m] \in {packets[i] : i \in 1..Len(packets)} \cup {completed[i] : i \in 1..Len(completed)}

Bytes == (1..MaxMessages) \X (Nat \ {0})

\* The segments of the payloads.
Refs == {ref \in [msg : Messages, seg : Nat \ {0}] : ref.seg <= Len(SegmentsOf(ref.msg))}

SendTypeOK ==
  /\ sent \in Seq(Payloads)
  /\ outcome \in Seq({"sending", "ok", "failed"})
  /\ Len(outcome) = Len(sent)
  /\ sender \in [Senders -> Refs \cup {Idle}]
  /\ wired \in Seq([msg : Nat \ {0}, seg : Nat \ {0}])
  /\ \A k \in 1..Len(wired) : wired[k] \in Refs

RecvTypeOK ==
  /\ handled \in 0..Len(wired)
  /\ buffer \in [expected_segments : 0..U8MAX, data : Seq(Bytes)]
  /\ completed \in Seq(Seq(Bytes))
  /\ Len(completed) <= 1
  /\ packets \in Seq(Seq(Bytes))
  /\ taken \in 0..Len(packets)
  /\ Queued <= Capacity
  /\ receiver \in [Receivers -> {"idle", "locking", "waiting"}]

ConnTypeOK ==
  /\ attached \in [Ends -> BOOLEAN]
  /\ open \in [Ends -> BOOLEAN]
  /\ closed \in [Ends -> BOOLEAN]
  /\ closing \in [Ends -> BOOLEAN]

(* Types and ranges; the packet queue never exceeds its capacity. *)
TypeOK == SendTypeOK /\ RecvTypeOK /\ ConnTypeOK

(* Every packet the receiving session assembled is a payload somebody gave
   to send (session/mod.rs:102, :136): not a mixture, not a part of one. *)
PacketsArePayloads == \A i \in 1..Len(packets) : \E m \in Messages : packets[i] = sent[m]

(* With sends made one after the other, the packets are the payloads in the
   order of the calls: whatever the payload lengths, the backpressure of the
   queue, the receivers that come and go, and the ends that close. *)
Fifo ==
  /\ Len(packets) + Len(completed) <= Len(sent)
  /\ \A i \in 1..Len(packets) : packets[i] = sent[i]
  /\ \A i \in 1..Len(completed) : completed[i] = sent[Len(packets) + i]

(* A payload is never lost between the wire and recv: once the handler has
   had its last segment, a send that succeeded has produced its packet. *)
HandledIsDelivered ==
  \A m \in Messages : outcome[m] = "ok" /\ FullyHandled(m) => Delivered(m)

(* A send that is abandoned halfway (its future dropped, or an error) leaves
   a torn message in the peer's accumulator.  It can damage the message that
   follows it and no later one: a successful send that follows a successful
   one is delivered. *)
DamageConfined ==
  \A m \in Messages :
    (/\ outcome[m] = "ok"
     /\ m = 1 \/ outcome[m - 1] = "ok"
     /\ FullyHandled(m))
    => Delivered(m)

(* The session is the message channel its two applications see. *)
Channel == INSTANCE MessageChannel
             WITH Data     <- Payloads,
                  received <- SubSeq(packets, 1, taken)

ChannelSpec == Channel!Spec

(* Every payload that send accepted with Ok is returned by some recv, unless
   somebody closes: neither the bounded queue nor the lock of the receiver
   can wedge the handler. *)
OkSendsArrive ==
  \A m \in 1..MaxMessages :
    (m <= Len(sent) /\ outcome[m] = "ok")
    ~> \/ \E e \in Ends : closed[e]
       \/ m <= Len(sent) /\ \E i \in 1..taken : packets[i] = sent[m]

(* A send in progress ends, with its error if the session is closed under it
   by either end. *)
SendsEnd == \A s \in Senders : sender[s] # Idle ~> sender[s] = Idle

(* session/mod.rs:137: "If the session has been closed, or the underlying
   packet channel has been closed, this returns Ok(None)".  Stated of a call
   that is in progress when the session is closed. *)
RecvReturnsOnceClosed ==
  \A r \in Receivers :
    (closed["rcv"] /\ receiver[r] # "idle") ~> receiver[r] = "idle"
=============================================================================
