------------------------------ MODULE Listener ------------------------------
(***************************************************************************)
(* Accepting sessions: src/src/transport/listener.rs.                      *)
(*                                                                         *)
(* One task takes the signals and runs handle_offer to its end before it   *)
(* takes the next.  Each offer starts a task for the candidates of its     *)
(* connection, and, once answered, a waiter that hands the session to      *)
(* accept.  They meet in two maps keyed by the connection_id, which the    *)
(* peer chooses: signal_dispatchers and candidate_notifiers.               *)
(*                                                                         *)
(* The offers of a behaviour are numbered; i owns the peer connection,     *)
(* channels and tasks that its handle_offer created.  What arrives and     *)
(* when is the network's choice: signals are lost, repeated and reordered  *)
(* by not being, or being, chosen.                                         *)
(***************************************************************************)
EXTENDS Naturals, Sequences, FiniteSets

CONSTANTS Connections,       (* the values of connection_id                       *)
          MaxOffers,         (* bound on the offers                               *)
          MaxCandidates,     (* bound on the candidates dispatched                *)
          Openers,           (* the offers whose peers open the data channels     *)
          OffersRepeat,      (* whether a connection_id may occur in two offers   *)
          OffersMayFail      (* whether a step of handle_offer may return an error *)

Offers == 1..MaxOffers

\* RELIABLE_CHANNEL and UNRELIABLE_CHANNEL.
BothChannels == {"reliable", "unreliable"}

ASSUME ListenerAssumption ==
  /\ MaxOffers \in Nat
  /\ MaxCandidates \in Nat
  /\ Openers \subseteq Offers
  /\ OffersRepeat \in BOOLEAN
  /\ OffersMayFail \in BOOLEAN

VARIABLES
  conn,         \* conn[i]: the connection_id of the i-th offer
  stage,        \* stage[i]: how far its handle_offer has come
  running,      \* the signal task is in its loop
  dispatched,   \* number of candidates dispatched
  dispatcher,   \* dispatcher[c]: the offer whose signal_tx is stored (0: none)
  notifier,     \* notifier[c]: the offer whose candidate_tx is stored (0: none)
  inbox,        \* inbox[i]: candidates in the channel to the task of i
  task,         \* task[i]: where that task is
  added,        \* added[i]: a candidate was added (first_candidate is false)
  peer,         \* peer[i]: "up", "ending" (its state handler is about to run), "down"
                \* (a loss has been reported, and maybe the connection is back)
  callback,     \* callback[i][label]: where the on_data_channel handler is
  channels,     \* channels[i]: the channels set on the session
  ready,        \* ready[i]: ready_tx has been used
  candidateRx,  \* candidateRx[i]: "pending", "sent" or "dropped" (the sender)
  waiter,       \* waiter[i]: "none", "candidate", "ready" or "done"
  incoming,     \* every session put into the queue of accept
  accepted,     \* how many of them accept returned
  dropped       \* the listener has been dropped

loopVars    == <<conn, stage, running, dispatched>>
maps        == <<dispatcher, notifier>>
taskVars    == <<inbox, task, added>>
channelVars == <<callback, channels, ready>>
waitVars    == <<candidateRx, waiter>>
acceptVars  == <<incoming, accepted, dropped>>
vars == <<loopVars, maps, taskVars, peer, channelVars, waitVars, acceptVars>>

Init == /\ conn = <<>>
        /\ stage = [i \in Offers |-> "none"]
        /\ running = TRUE
        /\ dispatched = 0
        /\ dispatcher = [c \in Connections |-> 0]
        /\ notifier = [c \in Connections |-> 0]
        /\ inbox = [i \in Offers |-> 0]
        /\ task = [i \in Offers |-> "none"]
        /\ added = [i \in Offers |-> FALSE]
        /\ peer = [i \in Offers |-> "up"]
        /\ callback = [i \in Offers |-> [label \in BothChannels |-> "none"]]
        /\ channels = [i \in Offers |-> {}]
        /\ ready = [i \in Offers |-> FALSE]
        /\ candidateRx = [i \in Offers |-> "pending"]
        /\ waiter = [i \in Offers |-> "none"]
        /\ incoming = <<>>
        /\ accepted = 0
        /\ dropped = FALSE
-----------------------------------------------------------------------------
Known == 1..Len(conn)

\* handle_offer is awaited in the loop: one at a time, and no dispatch meanwhile.
Handling(i) == i \in Known /\ stage[i] \notin {"done", "failed"}

\* Mutant: handle_offer is spawned and not awaited.
InLoop_Spawned == running

InLoop == running /\ \A i \in Known : ~Handling(i)

Proceed(i, from, to) ==
  /\ Handling(i) /\ stage[i] = from
  /\ stage' = [stage EXCEPT ![i] = to]
  /\ UNCHANGED <<conn, running, dispatched>>

\* The map of notifiers lets go of the sender it holds for c.
DropNotifier(c) ==
  candidateRx' = [i \in Offers |-> IF i = notifier[c] THEN "dropped" ELSE candidateRx[i]]

(* handle_offer, up to the insertion in candidate_notifiers: the sender of
   an earlier offer with the same connection_id is dropped. *)
TakeOffer(c) ==
  LET i == Len(conn) + 1
  IN  /\ InLoop
      /\ i \in Offers
      /\ OffersRepeat \/ \A k \in Known : conn[k] # c
      /\ conn' = Append(conn, c)
      /\ stage' = [stage EXCEPT ![i] = "notifier"]
      /\ notifier' = [notifier EXCEPT ![c] = i]
      /\ DropNotifier(c)
      /\ UNCHANGED <<running, dispatched, dispatcher, taskVars, peer, channelVars, waiter, acceptVars>>

(* ... the insertion in signal_dispatchers, and the task that reads the other
   end ... *)
InsertDispatcher(i) ==
  /\ Proceed(i, "notifier", "dispatcher")
  /\ dispatcher' = [dispatcher EXCEPT ![conn[i]] = i]
  /\ task' = [task EXCEPT ![i] = "receiving"]
  /\ UNCHANGED <<notifier, inbox, added, peer, channelVars, waitVars, acceptVars>>

(* ... set_remote_description ... *)
SetRemoteDescription(i) ==
  /\ Proceed(i, "dispatcher", "remote")
  /\ UNCHANGED <<maps, taskVars, peer, channelVars, waitVars, acceptVars>>

(* ... the answer is created, set and signalled ... *)
SignalAnswer(i) ==
  /\ Proceed(i, "remote", "answered")
  /\ UNCHANGED <<maps, taskVars, peer, channelVars, waitVars, acceptVars>>

(* ... and, without an await in between, both handlers and the waiter. *)
RegisterHandlers(i) ==
  /\ Proceed(i, "answered", "done")
  /\ waiter' = [waiter EXCEPT ![i] = "candidate"]
  /\ UNCHANGED <<maps, taskVars, peer, channelVars, candidateRx, acceptVars>>

(* A description that cannot be set, or an answer that cannot be sent: the
   error is logged and the entries stay.  The receiver of the notifier is
   dropped with the frame, but nobody is waiting on it. *)
OfferFails(i) ==
  /\ OffersMayFail
  /\ Proceed(i, "dispatcher", "failed") \/ Proceed(i, "remote", "failed")
  /\ UNCHANGED <<maps, taskVars, peer, channelVars, waitVars, acceptVars>>
-----------------------------------------------------------------------------
(* A candidate is passed to the task whose sender is stored; without one it
   is lost, which changes nothing. *)
Dispatch(c) ==
  LET i == dispatcher[c]
  IN  /\ InLoop
      /\ i # 0
      /\ dispatched < MaxCandidates
      /\ dispatched' = dispatched + 1
      /\ inbox' = [inbox EXCEPT ![i] = @ + 1]
      /\ UNCHANGED <<conn, stage, running, maps, task, added, peer, channelVars, waitVars, acceptVars>>

EndLoop ==
  /\ InLoop
  /\ running' = FALSE
  /\ UNCHANGED <<conn, stage, dispatched, maps, taskVars, peer, channelVars, waitVars, acceptVars>>

(* The stream of signals ends (external). *)
SignalsEnd == EndLoop

\* Mutant: the token is looked at before the first signal only.
Cancelled_Once == dropped /\ conn = <<>> /\ EndLoop

(* The cancellation of a dropped listener is seen between two signals. *)
Cancelled == dropped /\ EndLoop
-----------------------------------------------------------------------------
TaskAt(i, from, to) == task[i] = from /\ task' = [task EXCEPT ![i] = to]

Notify(c) ==
  /\ notifier' = [notifier EXCEPT ![c] = 0]
  /\ candidateRx' = [i \in Offers |-> IF i = notifier[c] THEN "sent" ELSE candidateRx[i]]

\* Mutant: the waiter is woken before the candidate is added.
TaskReceives_NotifiesFirst(i) ==
  /\ TaskAt(i, "receiving", "adding")
  /\ inbox[i] > 0
  /\ inbox' = [inbox EXCEPT ![i] = @ - 1]
  /\ Notify(conn[i])
  /\ UNCHANGED <<loopVars, dispatcher, added, peer, channelVars, waiter, acceptVars>>

(* The task of a connection: the next candidate ... *)
TaskReceives(i) ==
  /\ TaskAt(i, "receiving", "adding")
  /\ inbox[i] > 0
  /\ inbox' = [inbox EXCEPT ![i] = @ - 1]
  /\ UNCHANGED <<loopVars, maps, added, peer, channelVars, waitVars, acceptVars>>

RemoteSet(i) == stage[i] \in {"remote", "answered", "done"}

(* ... is added to the peer connection ... *)
TaskAdds(i) ==
  /\ TaskAt(i, "adding", IF added[i] THEN "receiving" ELSE "notifying")
  /\ RemoteSet(i)
  /\ added' = [added EXCEPT ![i] = TRUE]
  /\ UNCHANGED <<loopVars, maps, inbox, peer, channelVars, waitVars, acceptVars>>

(* ... which may refuse it (the library does without a remote description) ... *)
TaskSkips(i) ==
  /\ TaskAt(i, "adding", "receiving")
  /\ UNCHANGED <<loopVars, maps, inbox, added, peer, channelVars, waitVars, acceptVars>>

\* Mutant: the dispatcher is removed along with the notifier.
TaskNotifies_RemovesBoth(i) ==
  /\ TaskAt(i, "notifying", "receiving")
  /\ Notify(conn[i])
  /\ dispatcher' = [dispatcher EXCEPT ![conn[i]] = 0]
  /\ UNCHANGED <<loopVars, inbox, added, peer, channelVars, waiter, acceptVars>>

(* ... and the first one wakes whoever is registered for the connection. *)
TaskNotifies(i) ==
  /\ TaskAt(i, "notifying", "receiving")
  /\ Notify(conn[i])
  /\ UNCHANGED <<loopVars, dispatcher, inbox, added, peer, channelVars, waiter, acceptVars>>

(* The channel is closed and empty once the map has let go of its sender:
   the task removes the dispatcher of its connection ... *)
TaskEnds(i) ==
  /\ TaskAt(i, "receiving", "ending")
  /\ inbox[i] = 0
  /\ dispatcher[conn[i]] # i
  /\ dispatcher' = [dispatcher EXCEPT ![conn[i]] = 0]
  /\ UNCHANGED <<loopVars, notifier, inbox, added, peer, channelVars, waitVars, acceptVars>>

\* Mutant: the notifier is left to the waiter.
TaskCleansUp_KeepsNotifier(i) ==
  /\ TaskAt(i, "ending", "done")
  /\ UNCHANGED <<loopVars, maps, inbox, added, peer, channelVars, waitVars, acceptVars>>

(* ... and then the notifier. *)
TaskCleansUp(i) ==
  /\ TaskAt(i, "ending", "done")
  /\ notifier' = [notifier EXCEPT ![conn[i]] = 0]
  /\ DropNotifier(conn[i])
  /\ UNCHANGED <<loopVars, dispatcher, inbox, added, peer, channelVars, waiter, acceptVars>>
-----------------------------------------------------------------------------
(* The library reports that the connection is disconnected, failed or closed
   (external), without effect while there is no handler.  A connection that
   was disconnected may come back, which the handler ignores, and be lost
   again. *)
PeerGone(i) ==
  /\ stage[i] \in {"answered", "done"}
  /\ peer[i] # "ending"
  /\ peer' = [peer EXCEPT ![i] = IF stage[i] = "done" THEN "ending" ELSE "down"]
  /\ UNCHANGED <<loopVars, maps, taskVars, channelVars, waitVars, acceptVars>>

(* on_peer_connection_state_change *)
StateHandler(i) ==
  /\ peer[i] = "ending"
  /\ peer' = [peer EXCEPT ![i] = "down"]
  /\ dispatcher' = [dispatcher EXCEPT ![conn[i]] = 0]
  /\ UNCHANGED <<loopVars, notifier, taskVars, channelVars, waitVars, acceptVars>>

CallbackAt(i, label, from, to) ==
  /\ callback[i][label] = from
  /\ callback' = [callback EXCEPT ![i][label] = to]
  /\ UNCHANGED <<loopVars, maps, taskVars, peer, waitVars, acceptVars>>

(* The peer opens a data channel (external): once it knows the answer, and
   without effect while there is no handler. *)
OpenChannel(i, label) ==
  /\ i \in Openers
  /\ stage[i] \in {"answered", "done"}
  /\ CallbackAt(i, label, "none", IF stage[i] = "done" THEN "setting" ELSE "missed")
  /\ UNCHANGED <<channels, ready>>

(* on_data_channel: set the channel on the session ... *)
SetChannel(i, label) ==
  /\ CallbackAt(i, label, "setting", "first check")
  /\ channels' = [channels EXCEPT ![i] = @ \cup {label}]
  /\ UNCHANGED ready

\* Mutant: only the handler of the unreliable channel asks.
CheckReliable_OneSided(i, label) ==
  /\ CallbackAt(i, label, "first check",
                IF label = "unreliable" /\ "reliable" \in channels[i] THEN "second check" ELSE "done")
  /\ UNCHANGED <<channels, ready>>

(* ... is_fully_connected looks at the reliable channel ... *)
CheckReliable(i, label) ==
  /\ CallbackAt(i, label, "first check", IF "reliable" \in channels[i] THEN "second check" ELSE "done")
  /\ UNCHANGED <<channels, ready>>

(* ... then, under another lock, at the unreliable one, and the first to see
   both uses ready_tx. *)
CheckUnreliable(i, label) ==
  /\ CallbackAt(i, label, "second check", "done")
  /\ ready' = [ready EXCEPT ![i] = @ \/ "unreliable" \in channels[i]]
  /\ UNCHANGED channels
-----------------------------------------------------------------------------
WaiterAt(i, from, to) ==
  /\ waiter[i] = from
  /\ waiter' = [waiter EXCEPT ![i] = to]
  /\ UNCHANGED <<loopVars, maps, taskVars, peer, channelVars, candidateRx, accepted, dropped>>

\* incoming_tx.send: into the void when the listener is gone.
Push(i) == incoming' = IF dropped THEN incoming ELSE Append(incoming, i)

\* Mutant: a waiter whose sender was dropped gives the session up.
CandidateSeen_GivesUp(i) ==
  /\ WaiterAt(i, "candidate", IF candidateRx[i] = "sent" THEN "ready" ELSE "done")
  /\ candidateRx[i] # "pending"
  /\ UNCHANGED incoming

(* The waiter: a candidate has come, or none can come any more ... *)
CandidateSeen(i) ==
  /\ WaiterAt(i, "candidate", "ready")
  /\ candidateRx[i] # "pending"
  /\ UNCHANGED incoming

\* Mutant: the waiter goes on to wait for the data channels.
CandidateTimeout_GoesOn(i) ==
  /\ WaiterAt(i, "candidate", "ready")
  /\ candidateRx[i] = "pending"
  /\ Push(i)

(* ... or five seconds have passed: the session is handed over as it is ... *)
CandidateTimeout(i) ==
  /\ WaiterAt(i, "candidate", "done")
  /\ candidateRx[i] = "pending"
  /\ Push(i)

(* ... then the data channels, or five more seconds (the guard leaves open
   which), and the session is handed over in either case. *)
WaitEnds(i) == WaiterAt(i, "ready", "done") /\ Push(i)

\* Mutant: the queue is not looked at.
Accept_Overruns ==
  /\ ~dropped
  /\ accepted <= Len(incoming)
  /\ accepted' = accepted + 1
  /\ UNCHANGED <<loopVars, maps, taskVars, peer, channelVars, waitVars, incoming, dropped>>

(* accept, and poll_next of the Stream *)
Accept ==
  /\ ~dropped
  /\ accepted < Len(incoming)
  /\ accepted' = accepted + 1
  /\ UNCHANGED <<loopVars, maps, taskVars, peer, channelVars, waitVars, incoming, dropped>>

(* drop *)
DropListener ==
  /\ ~dropped
  /\ dropped' = TRUE
  /\ UNCHANGED <<loopVars, maps, taskVars, peer, channelVars, waitVars, incoming, accepted>>
-----------------------------------------------------------------------------
HandleOffer(i) ==
  InsertDispatcher(i) \/ SetRemoteDescription(i) \/ SignalAnswer(i) \/ RegisterHandlers(i) \/ OfferFails(i)

TaskStep(i) ==
  TaskReceives(i) \/ TaskAdds(i) \/ TaskSkips(i) \/ TaskNotifies(i) \/ TaskEnds(i) \/ TaskCleansUp(i)

ChannelStep(i, label) == SetChannel(i, label) \/ CheckReliable(i, label) \/ CheckUnreliable(i, label)

WaiterStep(i) == CandidateSeen(i) \/ CandidateTimeout(i) \/ WaitEnds(i)

Next == \/ \E c \in Connections : TakeOffer(c) \/ Dispatch(c)
        \/ SignalsEnd \/ Cancelled
        \/ \E i \in Offers : \/ HandleOffer(i) \/ TaskStep(i) \/ WaiterStep(i)
                             \/ PeerGone(i) \/ StateHandler(i)
                             \/ \E label \in BothChannels : OpenChannel(i, label) \/ ChannelStep(i, label)
        \/ Accept \/ DropListener

Spec == Init /\ [][Next]_vars

(* Fairness.  Tasks and callbacks that can run do, timers run out, and the
   application goes on calling accept.  Nothing is asked of the network, of
   the library's events or of the application's drop. *)
Fairness ==
  /\ \A i \in Offers : /\ WF_vars(HandleOffer(i))
                       /\ WF_vars(TaskStep(i))
                       /\ WF_vars(StateHandler(i))
                       /\ WF_vars(WaiterStep(i))
                       /\ \A label \in BothChannels : WF_vars(ChannelStep(i, label))
  /\ WF_vars(Cancelled)
  /\ WF_vars(Accept)

FairSpec == Spec /\ Fairness
-----------------------------------------------------------------------------
Stages == {"none", "notifier", "dispatcher", "remote", "answered", "done", "failed"}
Tasks == {"none", "receiving", "adding", "notifying", "ending", "done"}
Callbacks == {"none", "missed", "setting", "first check", "second check", "done"}

\* No later offer has taken over the connection_id.
Newest(i) == \A k \in Known : k > i => conn[k] # conn[i]

Accepted == {incoming[k] : k \in 1..accepted}

LoopTypeOK ==
  /\ conn \in Seq(Connections) /\ Len(conn) <= MaxOffers
  /\ stage \in [Offers -> Stages]
  /\ \A i \in Offers : stage[i] = "none" <=> i \notin Known
  /\ running \in BOOLEAN
  /\ dispatched \in 0..MaxCandidates

MapTypeOK ==
  /\ dispatcher \in [Connections -> 0..MaxOffers]
  /\ notifier \in [Connections -> 0..MaxOffers]
  /\ \A c \in Connections : \A i \in {dispatcher[c], notifier[c]} \ {0} : i \in Known /\ conn[i] = c

TaskTypeOK ==
  /\ inbox \in [Offers -> 0..dispatched]
  /\ task \in [Offers -> Tasks]
  /\ added \in [Offers -> BOOLEAN]
  /\ \A i \in Offers : task[i] = "none" <=> stage[i] \in {"none", "notifier"}

PeerTypeOK ==
  /\ peer \in [Offers -> {"up", "ending", "down"}]
  /\ \A i \in Offers : peer[i] # "up" => stage[i] \in {"answered", "done"}

ChannelTypeOK ==
  /\ callback \in [Offers -> [BothChannels -> Callbacks]]
  /\ channels \in [Offers -> SUBSET BothChannels]
  /\ ready \in [Offers -> BOOLEAN]

WaitTypeOK ==
  /\ candidateRx \in [Offers -> {"pending", "sent", "dropped"}]
  /\ waiter \in [Offers -> {"none", "candidate", "ready", "done"}]
  /\ \A i \in Offers : waiter[i] = "none" <=> stage[i] # "done"

AcceptTypeOK ==
  /\ incoming \in Seq(Offers)
  /\ accepted \in 0..Len(incoming)
  /\ dropped \in BOOLEAN

(* Types; which offers a map can hold (those of its key); and which of the
   tasks and waiters exist. *)
TypeOK ==
  /\ LoopTypeOK /\ MapTypeOK /\ TaskTypeOK /\ PeerTypeOK
  /\ ChannelTypeOK /\ WaitTypeOK /\ AcceptTypeOK

(* The task of a connection runs beside handle_offer, yet it is never given
   a candidate before the remote description is set: the loop that would
   dispatch it is busy with the offer. *)
CandidatesAreAddable == \A i \in Offers : task[i] = "adding" => RemoteSet(i)

(* listener.rs:169-170: the channel is registered so that "we can receive
   remote candidates as soon as they arrive".  As long as the connection is
   up, the newest offer of a connection_id keeps its dispatcher, and its
   notifier until the waiter has been woken. *)
KeepsRegistrations ==
  \A i \in Known :
    (stage[i] = "done" /\ peer[i] = "up" /\ Newest(i))
    => /\ dispatcher[conn[i]] = i
       /\ candidateRx[i] = "pending" => notifier[conn[i]] = i

(* listener.rs:208: "Notify waiting handler AFTER adding first candidate to
   peer connection": a waiter is woken by a candidate of its own connection. *)
WokenByOwnCandidate == \A i \in Offers : candidateRx[i] = "sent" => added[i]

(* The two callbacks of a session set one channel each and ask, in two steps,
   whether both are set: the session is reported ready when it is, never
   before, and not missed by both. *)
ReadyMeansConnected ==
  \A i \in Offers :
    /\ ready[i] => channels[i] = BothChannels
    /\ (\A label \in BothChannels : callback[i][label] = "done") => ready[i]

(* listener.rs:307: the session is added "to incoming queue" once, whichever of
   the candidate, the data channels and the two timeouts comes first: not
   before its waiter is done, and not at all only for a listener that has
   been dropped. *)
QueuedOnce ==
  /\ \A j, k \in DOMAIN incoming : incoming[j] = incoming[k] => j = k
  /\ \A k \in DOMAIN incoming : waiter[incoming[k]] = "done"
  /\ \A i \in Offers : waiter[i] = "done" => dropped \/ \E k \in DOMAIN incoming : incoming[k] = i

(* Every offer that was answered reaches accept, however its candidates and
   channels do: a lost candidate or a dropped sender never strands it. *)
AnsweredIsAccepted ==
  \A i \in Offers : stage[i] = "done" ~> (dropped \/ i \in Accepted)

(* When the state handler learns that a connection is over, its task ends and
   nothing of it stays in the maps, also when its connection_id has been used
   again. *)
GoneIsCleanedUp ==
  \A i \in Offers :
    peer[i] = "ending" ~> /\ task[i] = "done"
                          /\ i \notin {dispatcher[c] : c \in Connections}
                          /\ i \notin {notifier[c] : c \in Connections}

(* listener.rs:219, 225: "Clean up dispatcher when channel closes", "Clean up
   candidate notifier if it wasn't already removed".  Stated of an offer that
   handle_offer gave up after it had registered both. *)
FailedIsCleanedUp == \A i \in Offers : stage[i] = "failed" ~> task[i] = "done"

(* listener.rs:36: "dropping the listener cancels that task", also when it is
   in the middle of an offer. *)
DropEndsTheTask == dropped ~> ~running
=============================================================================
