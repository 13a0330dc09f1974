-------------------------- MODULE NethernetSystem --------------------------
(***************************************************************************)
(* A client that connects, the listener it connects to, and the signals    *)
(* between them.                                                           *)
(*                                                                         *)
(* The actions of Connect and Listener are taken as they are; this module  *)
(* ties to both ends what the two leave to the environment: which signals  *)
(* arrive, and when the library connects the peers.  Signals travel in UDP *)
(* datagrams: a network holds all that was ever sent, and each is received *)
(* never, once or repeatedly, in any order.  The stream of signals does not *)
(* end: connect itself keeps the LAN signaller alive.                      *)
(***************************************************************************)
EXTENDS Connect

CONSTANTS Connections, MaxOffers, MaxCandidates, Openers, OffersRepeat, OffersMayFail

VARIABLES conn, stage, running, dispatched, dispatcher, notifier, inbox, task, added,
          peer, callback, channels, ready, candidateRx, waiter, incoming, accepted, dropped

Server == INSTANCE Listener

ASSUME SystemAssumption == Server!ListenerAssumption

VARIABLES toServer,   \* the signals sent to the server: "offer", "candidate"
          toClient    \* those sent to the client: "answer" and Candidates

serverVars == <<conn, stage, running, dispatched, dispatcher, notifier, inbox, task, added,
                peer, callback, channels, ready, candidateRx, waiter, incoming, accepted, dropped>>
netVars == <<toServer, toClient>>
sysVars == <<connectVars, serverVars, netVars>>

SysInit == Init /\ Server!Init /\ toServer = {} /\ toClient = {}
-----------------------------------------------------------------------------
ClientSendsOffer ==
  /\ SendOffer
  /\ toServer' = toServer \cup {"offer"}
  /\ UNCHANGED <<serverVars, toClient>>

(* on_ice_candidate of the client.  It gathers from its local description
   on, which is before its offer is sent: a candidate may come first. *)
ClientGathers ==
  /\ phase \notin {"start", "returned"}
  /\ toServer' = toServer \cup {"candidate"}
  /\ UNCHANGED <<connectVars, serverVars, toClient>>

ClientRuns == (ConnectRuns \/ ReaderStep) /\ UNCHANGED <<serverVars, netVars>>

ClientStops == DropConnect /\ UNCHANGED <<serverVars, netVars>>

(* handle_offer sends its answer. *)
ServerAnswers(i) ==
  /\ Server!SignalAnswer(i)
  /\ toClient' = toClient \cup {"answer"}
  /\ UNCHANGED <<connectVars, toServer>>

(* on_ice_candidate of the server, which may overtake the answer. *)
ServerGathers(i, candidate) ==
  /\ stage[i] \in {"remote", "answered", "done"}
  /\ toClient' = toClient \cup {candidate}
  /\ UNCHANGED <<connectVars, serverVars, toServer>>

ServerRuns ==
  /\ \/ \E i \in Server!Offers :
          \/ Server!InsertDispatcher(i) \/ Server!SetRemoteDescription(i)
          \/ Server!RegisterHandlers(i) \/ Server!OfferFails(i)
          \/ Server!TaskStep(i) \/ Server!WaiterStep(i)
     \/ Server!Accept
  /\ UNCHANGED <<connectVars, netVars>>

(* The state handler of a connection, as often as it is lost. *)
ServerNotices(i) == Server!StateHandler(i) /\ UNCHANGED <<connectVars, netVars>>
-----------------------------------------------------------------------------
(* The listener's loop takes a signal.  A candidate that comes before its
   offer finds no dispatcher, and is lost. *)
DeliverOffer ==
  /\ "offer" \in toServer
  /\ \E c \in Connections : Server!TakeOffer(c)
  /\ UNCHANGED <<connectVars, netVars>>

DeliverCandidate ==
  /\ "candidate" \in toServer
  /\ \E c \in Connections : Server!Dispatch(c)
  /\ UNCHANGED <<connectVars, netVars>>

(* The client's signaller broadcasts what it receives. *)
DeliverToClient(signal) ==
  /\ signal \in toClient
  /\ Publish(signal)
  /\ UNCHANGED <<serverVars, netVars>>
-----------------------------------------------------------------------------
(* The library finds a way between the peers once each has the description
   of the other, and one of them a candidate of the other (external). *)
PeersConnect ==
  /\ \E i \in Server!Offers :
       /\ stage[i] \in {"answered", "done"}
       /\ applied # <<>> \/ added[i]
  /\ ice = "checking" /\ IceChanges("connected")
  /\ UNCHANGED <<serverVars, netVars>>

\* Over the connection, the data channels open.
ChannelOpens ==
  /\ ice = "connected"
  /\ \E label \in DataChannels : OpenChannel(label)
  /\ UNCHANGED <<serverVars, netVars>>

\* Either end may find that the connection has failed.
PeersLose ==
  /\ \/ IceChanges("failed") /\ UNCHANGED serverVars
     \/ \E i \in Server!Offers : Server!PeerGone(i) /\ UNCHANGED connectVars
  /\ UNCHANGED netVars
-----------------------------------------------------------------------------
SysNext ==
  \/ ClientSendsOffer \/ ClientGathers \/ ClientRuns \/ ClientStops
  \/ \E i \in Server!Offers : \/ ServerAnswers(i)
                              \/ \E candidate \in Candidates : ServerGathers(i, candidate)
                              \/ ServerNotices(i)
  \/ ServerRuns
  \/ DeliverOffer \/ DeliverCandidate
  \/ \E signal \in Signals : DeliverToClient(signal)
  \/ PeersConnect \/ ChannelOpens \/ PeersLose

SysSpec == SysInit /\ [][SysNext]_sysVars

(* Both ends run as in their modules; the state handlers of the listener, of
   which each loss of a connection is one more, may take for ever.  Nothing is
   asked of the network, the library or the callers. *)
SysFairness ==
  /\ WF_sysVars(ClientSendsOffer) /\ WF_sysVars(ClientRuns)
  /\ WF_sysVars(ServerRuns) /\ WF_sysVars(\E i \in Server!Offers : ServerAnswers(i))

SysFairSpec == SysSpec /\ SysFairness
-----------------------------------------------------------------------------
(* Types of both ends; an answer has been asked for. *)
SysTypeOK ==
  /\ TypeOK /\ Server!TypeOK
  /\ toServer \subseteq {"offer", "candidate"}
  /\ toClient \subseteq Candidates \cup {"answer"}
  /\ "answer" \in toClient => "offer" \in toServer

\* The answer of an offer is out, and as long as its connection is up the
\* candidates of the client are dispatched to its task.
Answered(i) == stage[i] \in {"answered", "done"}
Serves(i) == Answered(i) /\ (peer[i] = "up" => dispatcher[conn[i]] = i)

\* The peers can find each other: one has a candidate of the other.
Reachable(i) == applied # <<>> \/ added[i]

(* listener.rs:169: "receive remote candidates as soon as they arrive".  What
   a client takes for granted once it has the answer is there at the server,
   whatever has become of the signals, and Ok is returned only if the two
   could find each other. *)
AnswerIsServed ==
  /\ phase \in {"answered", "remote", "opening", "connecting"}
       => \E i \in Server!Offers : Serves(i)
  /\ result = "ok" => \E i \in Server!Offers : Serves(i) /\ Reachable(i)

(* A client whose connect returned Ok meets its server: the session reaches
   accept, whatever becomes of the signals that are still under way. *)
OkIsAccepted ==
  result = "ok" ~> \E i \in Server!Offers : i \in Server!Accepted

(* The answer loop of connect has no timeout.  It ends if the offer and the
   answer get through in the end, unless the server gave the offer up or the
   ring of signals has overflowed. *)
ReturnsUnlessLost ==
  (SF_sysVars(DeliverOffer) /\ SF_sysVars(DeliverToClient("answer")))
  => (phase = "offered" ~> \/ phase = "returned"
                           \/ lagged
                           \/ \E i \in Server!Offers : stage[i] = "failed")
=============================================================================
