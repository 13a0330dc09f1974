------------------------------ MODULE Connect ------------------------------
(***************************************************************************)
(* NethernetStream::connect, src/src/transport/stream.rs, for one call.    *)
(*                                                                         *)
(* The signals come from one subscription of the signaller's broadcast     *)
(* channel, a ring whose oldest entry is lost when it is full.  The loop   *)
(* that waits for the answer reads it first and hands it to the candidate  *)
(* task.  A signal is "answer", a candidate, or "other", which is one of   *)
(* another connection_id, an offer or an error: all of those are ignored.  *)
(***************************************************************************)
EXTENDS Naturals, Sequences, FiniteSets

CONSTANTS RingCapacity,   (* of the broadcast channel (100)                    *)
          MaxSignals,     (* bound on the signals published                    *)
          Candidates,     (* the remote candidates of this connection           *)
          StepsMayFail,   (* whether the library or the signaller may refuse a step *)
          SignalsMayEnd   (* whether the stream of signals may end: not with the
                             LAN signaller, which the call itself keeps alive  *)

ASSUME ConnectAssumption ==
  /\ RingCapacity \in Nat \ {0}
  /\ MaxSignals \in Nat \ {0}
  /\ {"answer", "other"} \cap Candidates = {}
  /\ StepsMayFail \in BOOLEAN
  /\ SignalsMayEnd \in BOOLEAN

Signals == Candidates \cup {"answer", "other"}

\* RELIABLE_CHANNEL and UNRELIABLE_CHANNEL.
DataChannels == {"reliable", "unreliable"}

VARIABLES
  phase,       \* how far connect has come; "returned" at the end
  result,      \* what it returned: "none" yet, "ok", "timeout", "closed", "failed", "dropped"
  unread,      \* the signals in the subscription
  published,   \* every signal published since the subscription (history)
  lagged,      \* one was overwritten before it was read (history)
  ended,       \* the stream of signals has ended
  buffered,    \* pending_candidates
  applied,     \* the candidates given to add_ice_candidate
  reader,      \* the candidate task: "none", "running", "done"
  token,       \* cancel_token has been cancelled
  opened,      \* the data channels whose on_open has run
  ice          \* the ICE connection state: "checking", "connected", "failed"

signalVars    == <<unread, published, lagged, ended>>
candidateVars == <<buffered, applied>>
taskVars      == <<reader, token>>
libraryVars   == <<opened, ice>>
connectVars   == <<phase, result, signalVars, candidateVars, taskVars, libraryVars>>

Init == /\ phase = "start" /\ result = "none"
        /\ unread = <<>> /\ published = <<>> /\ lagged = FALSE /\ ended = FALSE
        /\ buffered = <<>> /\ applied = <<>>
        /\ reader = "none" /\ token = FALSE
        /\ opened = {} /\ ice = "checking"
-----------------------------------------------------------------------------
Goto(from, to) == phase = from /\ phase' = to /\ UNCHANGED result

Return(outcome) == phase' = "returned" /\ result' = outcome

(* The peer connection, its two channels, the offer as local description. *)
Prepare ==
  /\ Goto("start", "described")
  /\ UNCHANGED <<signalVars, candidateVars, taskVars, libraryVars>>

Subscribe ==
  /\ Goto("described", "subscribed")
  /\ UNCHANGED <<signalVars, candidateVars, taskVars, libraryVars>>

(* signaling.signal(offer_signal) *)
SendOffer ==
  /\ Goto("subscribed", "offered")
  /\ UNCHANGED <<signalVars, candidateVars, taskVars, libraryVars>>

\* Mutant: candidates are added as they come.
AwaitAnswer_Adds ==
  /\ phase = "offered" /\ unread # <<>>
  /\ unread' = Tail(unread)
  /\ IF Head(unread) = "answer" THEN Goto("offered", "answered") ELSE UNCHANGED <<phase, result>>
  /\ applied' = IF Head(unread) \in Candidates THEN Append(applied, Head(unread)) ELSE applied
  /\ UNCHANGED <<published, lagged, ended, buffered, taskVars, libraryVars>>

\* Mutant: the loop is not left at the answer.
AwaitAnswer_GoesOn ==
  /\ phase = "offered" /\ unread # <<>>
  /\ unread' = Tail(unread)
  /\ buffered' = IF Head(unread) \in Candidates THEN Append(buffered, Head(unread)) ELSE buffered
  /\ UNCHANGED <<phase, result, published, lagged, ended, applied, taskVars, libraryVars>>

(* One turn of the loop that waits for the answer. *)
AwaitAnswer ==
  /\ phase = "offered" /\ unread # <<>>
  /\ unread' = Tail(unread)
  /\ IF Head(unread) = "answer" THEN Goto("offered", "answered") ELSE UNCHANGED <<phase, result>>
  /\ buffered' = IF Head(unread) \in Candidates THEN Append(buffered, Head(unread)) ELSE buffered
  /\ UNCHANGED <<published, lagged, ended, applied, taskVars, libraryVars>>

(* The stream of signals ends first. *)
NoMoreSignals ==
  /\ phase = "offered" /\ unread = <<>> /\ ended
  /\ Return("timeout")
  /\ UNCHANGED <<signalVars, candidateVars, taskVars, libraryVars>>

SetRemoteDescription ==
  /\ Goto("answered", "remote")
  /\ UNCHANGED <<signalVars, candidateVars, taskVars, libraryVars>>

(* The next buffered candidate; an error is logged. *)
AddBuffered ==
  /\ phase = "remote" /\ buffered # <<>>
  /\ applied' = Append(applied, Head(buffered))
  /\ buffered' = Tail(buffered)
  /\ UNCHANGED <<phase, result, signalVars, taskVars, libraryVars>>

\* Mutant: the task subscribes anew.
SpawnReader_Resubscribes ==
  /\ Goto("remote", "opening") /\ buffered = <<>>
  /\ reader' = "running" /\ unread' = <<>>
  /\ UNCHANGED <<published, lagged, ended, candidateVars, token, libraryVars>>

(* The candidate task; the session, and its two channels. *)
SpawnReader ==
  /\ Goto("remote", "opening") /\ buffered = <<>>
  /\ reader' = "running"
  /\ UNCHANGED <<signalVars, candidateVars, token, libraryVars>>

BothOpen ==
  /\ Goto("opening", "connecting")
  /\ opened = DataChannels
  /\ UNCHANGED <<signalVars, candidateVars, taskVars, libraryVars>>

\* Mutant: the wait for the channels has no timeout.
OpenTimeout_Never == FALSE /\ UNCHANGED connectVars

(* Ten seconds without both: the error returns past the token. *)
OpenTimeout ==
  /\ phase = "opening" /\ opened # DataChannels
  /\ Return("timeout")
  /\ UNCHANGED <<signalVars, candidateVars, taskVars, libraryVars>>

\* Mutant: the token is cancelled on errors only.
IcePolled_KeepsReader ==
  /\ phase = "connecting" /\ ice # "checking"
  /\ Return(IF ice = "connected" THEN "ok" ELSE "closed")
  /\ token' = (ice # "connected")
  /\ UNCHANGED <<signalVars, candidateVars, reader, libraryVars>>

(* The state is looked at every 100 ms ... *)
IcePolled ==
  /\ phase = "connecting" /\ ice # "checking"
  /\ Return(IF ice = "connected" THEN "ok" ELSE "closed")
  /\ token' = TRUE
  /\ UNCHANGED <<signalVars, candidateVars, reader, libraryVars>>

(* ... for ten seconds, which may be over between two looks. *)
IceTimeout ==
  /\ phase = "connecting"
  /\ Return("timeout")
  /\ token' = TRUE
  /\ UNCHANGED <<signalVars, candidateVars, reader, libraryVars>>

(* An error of the library, or of the signaller for the offer. *)
StepFails ==
  /\ StepsMayFail
  /\ phase \in {"start", "subscribed", "answered"}
  /\ Return("failed")
  /\ UNCHANGED <<signalVars, candidateVars, taskVars, libraryVars>>

(* The caller drops the future of connect at one of its awaits; a token that
   is dropped is not cancelled. *)
DropConnect ==
  /\ phase # "returned"
  /\ Return("dropped")
  /\ UNCHANGED <<signalVars, candidateVars, taskVars, libraryVars>>
-----------------------------------------------------------------------------
(* The candidate task: a signal ... *)
ReaderReads ==
  /\ reader = "running" /\ unread # <<>>
  /\ unread' = Tail(unread)
  /\ applied' = IF Head(unread) \in Candidates THEN Append(applied, Head(unread)) ELSE applied
  /\ UNCHANGED <<phase, result, published, lagged, ended, buffered, taskVars, libraryVars>>

(* ... or the cancellation, or the end of the stream. *)
ReaderEnds ==
  /\ reader = "running"
  /\ token \/ (ended /\ unread = <<>>)
  /\ reader' = "done"
  /\ UNCHANGED <<phase, result, signalVars, candidateVars, token, libraryVars>>
-----------------------------------------------------------------------------
(* The subscription is held by connect until the task has it. *)
Subscribed == phase \in {"subscribed", "offered", "answered", "remote"} \/ reader = "running"

\* Mutant: the channel has no capacity.
Publish_Unbounded(signal) ==
  /\ Subscribed /\ ~ended
  /\ Len(published) < IF signal = "answer" THEN MaxSignals ELSE MaxSignals - 1
  /\ published' = Append(published, signal) /\ unread' = Append(unread, signal)
  /\ UNCHANGED <<phase, result, lagged, ended, candidateVars, taskVars, libraryVars>>

(* A signal is broadcast (signaling/lan.rs); a full ring loses its oldest.
   The last place within MaxSignals is kept for an answer. *)
Publish(signal) ==
  /\ Subscribed /\ ~ended
  /\ Len(published) < IF signal = "answer" THEN MaxSignals ELSE MaxSignals - 1
  /\ published' = Append(published, signal)
  /\ unread' = Append(IF Len(unread) < RingCapacity THEN unread ELSE Tail(unread), signal)
  /\ lagged' = (lagged \/ Len(unread) = RingCapacity)
  /\ UNCHANGED <<phase, result, ended, candidateVars, taskVars, libraryVars>>

StreamEnds ==
  /\ SignalsMayEnd /\ ~ended
  /\ ended' = TRUE
  /\ UNCHANGED <<phase, result, unread, published, lagged, candidateVars, taskVars, libraryVars>>

RemoteSet == phase \in {"remote", "opening", "connecting"} \/ reader # "none"

(* The library: on_open of a channel, and the state of ICE (external). *)
OpenChannel(label) ==
  /\ RemoteSet /\ label \notin opened
  /\ opened' = opened \cup {label}
  /\ UNCHANGED <<phase, result, signalVars, candidateVars, taskVars, ice>>

IceChanges(state) ==
  /\ RemoteSet /\ ice # "failed" /\ ice # state
  /\ ice' = state
  /\ UNCHANGED <<phase, result, signalVars, candidateVars, taskVars, opened>>
-----------------------------------------------------------------------------
ConnectRuns ==
  \/ Prepare \/ Subscribe \/ AwaitAnswer
  \/ SetRemoteDescription \/ AddBuffered \/ SpawnReader
  \/ BothOpen \/ OpenTimeout \/ IcePolled \/ IceTimeout \/ StepFails

ConnectStep == ConnectRuns \/ SendOffer

ReaderStep == ReaderReads \/ ReaderEnds

Next == \/ ConnectStep \/ ReaderStep \/ DropConnect
        \/ \E signal \in Signals : Publish(signal)
        \/ \E label \in DataChannels : OpenChannel(label)
        \/ \E state \in {"connected", "failed"} : IceChanges(state)
        \/ StreamEnds \/ NoMoreSignals

Spec == Init /\ [][Next]_connectVars

(* connect and its task go on when they can, and timers run out.  What the
   network, the library and the caller do is up to them. *)
FairSpec == Spec /\ WF_connectVars(ConnectStep \/ NoMoreSignals) /\ WF_connectVars(ReaderStep)
-----------------------------------------------------------------------------
TypeOK ==
  /\ phase \in {"start", "described", "subscribed", "offered", "answered", "remote",
                "opening", "connecting", "returned"}
  /\ result \in {"none", "ok", "timeout", "closed", "failed", "dropped"}
  /\ result # "none" <=> phase = "returned"
  /\ unread \in Seq(Signals) /\ Len(unread) <= RingCapacity
  /\ published \in Seq(Signals)
  /\ lagged \in BOOLEAN /\ ended \in BOOLEAN /\ token \in BOOLEAN
  /\ buffered \in Seq(Candidates) /\ applied \in Seq(Candidates)
  /\ reader \in {"none", "running", "done"}
  /\ opened \subseteq DataChannels
  /\ ice \in {"checking", "connected", "failed"}

\* The candidates among the signals, in their order.
CandidatesIn(signals) ==
  LET among[k \in 0..Len(signals)] ==
        IF k = 0 THEN <<>>
        ELSE IF signals[k] \in Candidates THEN Append(among[k - 1], signals[k])
        ELSE among[k - 1]
  IN  among[Len(signals)]

(* From the subscription on, every candidate of the connection is given to
   the library once and in the order of the signals, or still on its way:
   none falls between the answer loop, the buffer and the candidate task
   (stream.rs:177, :195).  Unless the ring overflows. *)
NoneMissed ==
  ~lagged => CandidatesIn(published) = applied \o buffered \o CandidatesIn(unread)

(* stream.rs:195: candidates are buffered "until after set_remote_description". *)
AddedAfterRemote ==
  applied # <<>> => /\ phase \in {"remote", "opening", "connecting", "returned"}
                    /\ "answer" \in {published[k] : k \in 1..Len(published)}

(* stream.rs:68-71: connect "may return Timeout if signaling, channel opening,
   or ICE convergence does not complete within the allotted timeout".  Stated
   of the signalling: an offer that is never answered. *)
SignalingTimesOut == phase = "offered" ~> phase = "returned"

(* Once the answer has come, each wait has a timeout: connect returns, and if
   it saw the ICE state it leaves no task behind, whatever it returns
   (stream.rs:327). *)
AnsweredReturns ==
  phase = "answered" ~> (phase = "returned" /\ (result \in {"ok", "closed"} => reader = "done"))
=============================================================================
