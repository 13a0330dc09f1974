---------------------------- MODULE LanSignaling ----------------------------
(***************************************************************************)
(* LanSignaling of src/src/signaling/lan.rs: several nodes on one LAN.     *)
(*                                                                         *)
(* A node is one LanSignaling with its background task.  Its network id is *)
(* fresh: a program that starts again does so under another id, but maybe  *)
(* on the same host.  A datagram that is received stays on the network, so *)
(* that it may be received never, once or again, late and in any order.    *)
(* Those of the discovery may also be lost for good, as they are repeated. *)
(* Time is counted in seconds, and ages of addresses instead of moments.   *)
(***************************************************************************)
EXTENDS Formats, FiniteSets

CONSTANTS Nodes,
          HostOf,            (* the host each node is bound on                   *)
          Serving,           (* the nodes that set server data                   *)
          Callers,           (* the nodes that send signals                      *)
          Stopping,          (* the nodes that are shut down or dropped          *)
          Listening,         (* the nodes bound to LAN_DISCOVERY_PORT            *)
          Subscriber,        (* the node whose signals are read                  *)
          Signals,           (* the signals sent, each by the length of its text *)
          Pongs,             (* the server data set                              *)
          MaxCopies,         (* bound on how often one signal reaches a node     *)
          RingCapacity,      (* of the broadcast channel (100)                   *)
          ADDRESS_TIMEOUT,   (* in seconds (15)                                  *)
          BROADCAST_INTERVAL (* in seconds (2)                                   *)

NoPong == "none"   \* server_data, when it is None
Anyone == "all"    \* the broadcast address

ASSUME LanAssumption ==
  /\ Listening \subseteq Nodes /\ Subscriber \in Nodes
  /\ {Serving, Callers, Stopping} \subseteq SUBSET Nodes
  /\ Signals \subseteq Nat
  /\ NoPong \notin Pongs /\ Anyone \notin {HostOf[n] : n \in Nodes}
  /\ {MaxCopies, RingCapacity, ADDRESS_TIMEOUT, BROADCAST_INTERVAL} \subseteq Nat \ {0}

VARIABLES
  owner,       \* of each node: "none" yet, "up", "shutting" down, "shut", "dropped"
  task,        \* its background_task: "none", "running", "ended"
  addresses,   \* its addresses: a function of the ids it knows to [at, age]
  pong,        \* its server_data
  discovered,  \* its discovered_servers
  wait,        \* the seconds until its interval ticks
  sending,     \* the call of signal in progress, after it has looked up the address
  network,     \* the datagrams that may still arrive
  published,   \* the signals given to its broadcast channel (history)
  position,    \* of the Subscriber's receiver in its channel; 0: not subscribed
  read,        \* what its stream has yielded (history)
  over,        \* its stream has ended
  sent         \* <<from, to, signal>> for the signals sent (history)

tableVars  == <<addresses, pong, discovered>>
streamVars == <<position, read, over>>
nodeVars   == <<owner, task>>
vars == <<nodeVars, tableVars, wait, sending, network, published, streamVars, sent>>

None == [at |-> Anyone]

Init ==
  /\ owner = [n \in Nodes |-> "none"] /\ task = [n \in Nodes |-> "none"]
  /\ addresses = [n \in Nodes |-> <<>>] /\ discovered = [n \in Nodes |-> <<>>]
  /\ pong = [n \in Nodes |-> NoPong]
  /\ wait = [n \in Nodes |-> 0]
  /\ sending = [n \in Nodes |-> None]
  /\ network = {} /\ sent = {}
  /\ published = [n \in Nodes |-> <<>>]
  /\ position = 0 /\ read = <<>> /\ over = FALSE
-----------------------------------------------------------------------------
With(map, key, value) == [k \in DOMAIN map \cup {key} |-> IF k = key THEN value ELSE map[k]]

\* The socket is held by the LanSignaling and by its task.
Bound(n) == owner[n] \in {"up", "shutting"} \/ task[n] = "running"

(* new: the first tick of an interval is immediate. *)
Start(n) ==
  /\ owner[n] = "none"
  /\ \A m \in Nodes : Bound(m) => HostOf[m] # HostOf[n]
  /\ owner' = [owner EXCEPT ![n] = "up"]
  /\ task' = [task EXCEPT ![n] = "running"]
  /\ UNCHANGED <<tableVars, wait, sending, network, published, streamVars, sent>>

(* set_pong_data: what does not unmarshal clears it. *)
SetPongData(n, data) ==
  /\ n \in Serving /\ owner[n] = "up"
  /\ pong' = [pong EXCEPT ![n] = data]
  /\ UNCHANGED <<nodeVars, addresses, discovered, wait, sending, network, published, streamVars, sent>>

(* signal, up to the release of the lock.  An id that is not known is an error. *)
LookUp(n, m, signal) ==
  /\ n \in Callers /\ owner[n] = "up" /\ sending[n] = None
  /\ m \in DOMAIN addresses[n]
  /\ <<n, m, signal>> \notin sent
  /\ sending' = [sending EXCEPT ![n] = [at |-> addresses[n][m].at, recipient |-> m, text |-> signal]]
  /\ UNCHANGED <<nodeVars, tableVars, wait, network, published, streamVars, sent>>

(* The rest of signal: a text that marshal refuses, or a packet that is too
   long for a datagram, is an error. *)
SendSignal(n) ==
  /\ sending[n] # None
  /\ LET call == sending[n] IN
       IF CanSend(MessageLength(call.text))
       THEN /\ network' = network \cup
                 {[to |-> call.at, at |-> HostOf[n], sender |-> n, packet |-> "message",
                   recipient |-> call.recipient, text |-> call.text]}
            /\ sent' = sent \cup {<<n, call.recipient, call.text>>}
       ELSE UNCHANGED <<network, sent>>
  /\ sending' = [sending EXCEPT ![n] = None]
  /\ UNCHANGED <<nodeVars, tableVars, wait, published, streamVars>>

(* shutdown takes the LanSignaling: no call of it is in progress. *)
Shutdown(n) ==
  /\ n \in Stopping /\ owner[n] = "up" /\ sending[n] = None
  /\ owner' = [owner EXCEPT ![n] = "shutting"]
  /\ UNCHANGED <<task, tableVars, wait, sending, network, published, streamVars, sent>>

\* Mutant: shutdown does not wait for the task.
ShutdownReturns_Early(n) ==
  /\ owner[n] = "shutting"
  /\ owner' = [owner EXCEPT ![n] = "shut"]
  /\ UNCHANGED <<task, tableVars, wait, sending, network, published, streamVars, sent>>

ShutdownReturns(n) ==
  /\ owner[n] = "shutting" /\ task[n] = "ended"
  /\ owner' = [owner EXCEPT ![n] = "shut"]
  /\ UNCHANGED <<task, tableVars, wait, sending, network, published, streamVars, sent>>

(* drop, of the LanSignaling or of its shutdown. *)
Drop(n) ==
  /\ n \in Stopping /\ owner[n] \in {"up", "shutting"} /\ sending[n] = None
  /\ owner' = [owner EXCEPT ![n] = "dropped"]
  /\ UNCHANGED <<task, tableVars, wait, sending, network, published, streamVars, sent>>
-----------------------------------------------------------------------------
\* Mutant: the task does not look at the token.
TaskEnds_Aborted(n) ==
  /\ task[n] = "running" /\ owner[n] = "dropped"
  /\ task' = [task EXCEPT ![n] = "ended"]
  /\ addresses' = [addresses EXCEPT ![n] = <<>>]
  /\ discovered' = [discovered EXCEPT ![n] = <<>>]
  /\ wait' = [wait EXCEPT ![n] = 0]
  /\ UNCHANGED <<owner, pong, sending, network, published, streamVars, sent>>

(* The background task sees the token, or is aborted.  Until then select may
   choose another branch, or a packet is still being handled.  Nobody can look
   at the tables any more: the owner has given the LanSignaling away. *)
TaskEnds(n) ==
  /\ task[n] = "running" /\ owner[n] # "up"
  /\ task' = [task EXCEPT ![n] = "ended"]
  /\ addresses' = [addresses EXCEPT ![n] = <<>>]
  /\ discovered' = [discovered EXCEPT ![n] = <<>>]
  /\ wait' = [wait EXCEPT ![n] = 0]
  /\ UNCHANGED <<owner, pong, sending, network, published, streamVars, sent>>

\* Mutant: an address of just that age is kept.
Fresh_Late(entry) == entry.age <= ADDRESS_TIMEOUT

\* cleanup_addresses
Fresh(entry) == entry.age < ADDRESS_TIMEOUT

Cleaned(map) == [m \in {k \in DOMAIN map : Fresh(map[k])} |-> map[m]]

\* send_request, by a node that is not bound to the port of the servers.
Request(n) ==
  IF n \in Listening THEN {}
  ELSE {[to |-> Anyone, at |-> HostOf[n], sender |-> n, packet |-> "request"]}

\* Mutant: the interval is a second too long.
IntervalTick_Slow(n) ==
  /\ task[n] = "running" /\ wait[n] = 0
  /\ addresses' = [addresses EXCEPT ![n] = Cleaned(@)]
  /\ network' = network \cup Request(n)
  /\ wait' = [wait EXCEPT ![n] = BROADCAST_INTERVAL + 1]
  /\ UNCHANGED <<nodeVars, pong, discovered, sending, published, streamVars, sent>>

IntervalTick(n) ==
  /\ task[n] = "running" /\ wait[n] = 0
  /\ addresses' = [addresses EXCEPT ![n] = Cleaned(@)]
  /\ network' = network \cup Request(n)
  /\ wait' = [wait EXCEPT ![n] = BROADCAST_INTERVAL]
  /\ UNCHANGED <<nodeVars, pong, discovered, sending, published, streamVars, sent>>

Reaches(d, n) == d.to = HostOf[n] \/ (d.to = Anyone /\ n \in Listening)

\* What the receive buffer holds of a datagram can be unmarshalled.
Unmarshals(d) == d.packet = "message" => CanReceive(MessageLength(d.text))

\* Mutant: the recipient of a message is not looked at.
SignalsIn_Anyones(d, n) == IF d.packet = "message" THEN <<[from |-> d.sender, text |-> d.text]>> ELSE <<>>

(* The signal that a message for this node carries.  A "Ping" and a text that
   is no signal are ignored here. *)
SignalsIn(d, n) ==
  IF d.packet = "message" /\ d.recipient = n
  THEN <<[from |-> d.sender, text |-> d.text]>>
  ELSE <<>>

(* The response to a request; data that has been set can be marshalled. *)
Responses(d, n) ==
  IF d.packet = "request" /\ pong[n] # NoPong
  THEN {[to |-> d.at, at |-> HostOf[n], sender |-> n, packet |-> "response", data |-> pong[n]]}
  ELSE {}

Copies(n, signal) == Cardinality({k \in DOMAIN published[n] : published[n][k] = signal})

(* handle_packet *)
Receive(n, d) ==
  /\ task[n] = "running" /\ Reaches(d, n)
  /\ Unmarshals(d) /\ d.sender # n
  /\ \A k \in DOMAIN SignalsIn(d, n) : Copies(n, SignalsIn(d, n)[k]) < MaxCopies
  /\ addresses' = [addresses EXCEPT ![n] = With(@, d.sender, [at |-> d.at, age |-> 0])]
  /\ network' = network \cup Responses(d, n)
  /\ discovered' = IF d.packet = "response"
                   THEN [discovered EXCEPT ![n] = With(@, d.sender, d.data)] ELSE discovered
  /\ published' = [published EXCEPT ![n] = @ \o SignalsIn(d, n)]
  /\ UNCHANGED <<nodeVars, pong, wait, sending, streamVars, sent>>

(* The network loses a request or a response (external). *)
Lose(d) ==
  /\ d \in network /\ d.packet # "message"
  /\ network' = network \ {d}
  /\ UNCHANGED <<nodeVars, tableVars, wait, sending, published, streamVars, sent>>
-----------------------------------------------------------------------------
(* signals: the subscription sees what is published from now on. *)
Subscribe ==
  /\ owner[Subscriber] = "up" /\ position = 0
  /\ position' = Len(published[Subscriber]) + 1
  /\ UNCHANGED <<nodeVars, tableVars, wait, sending, network, published, read, over, sent>>

\* The oldest signal that the ring of the channel still holds.
Larger(a, b) == IF a > b THEN a ELSE b

Oldest == Larger(1, Len(published[Subscriber]) - RingCapacity + 1)

\* Mutant: what is overwritten is not noticed.
StreamNext_Stale ==
  /\ position # 0 /\ position <= Len(published[Subscriber]) /\ ~over
  /\ read' = Append(read, published[Subscriber][position])
  /\ position' = position + 1
  /\ UNCHANGED <<nodeVars, tableVars, wait, sending, network, published, over, sent>>

(* The stream yields a signal; what is Lagged is skipped. *)
StreamNext ==
  /\ position # 0 /\ position <= Len(published[Subscriber]) /\ ~over
  /\ LET k == Larger(position, Oldest) IN
       /\ read' = Append(read, published[Subscriber][k])
       /\ position' = k + 1
  /\ UNCHANGED <<nodeVars, tableVars, wait, sending, network, published, over, sent>>

\* The senders are the LanSignaling's and its task's.
Closed == owner[Subscriber] \in {"shut", "dropped"} /\ task[Subscriber] = "ended"

StreamEnds ==
  /\ position > Len(published[Subscriber]) /\ Closed
  /\ over' = TRUE
  /\ UNCHANGED <<nodeVars, tableVars, wait, sending, network, published, position, read, sent>>
-----------------------------------------------------------------------------
Older(map) == [m \in DOMAIN map |-> [at |-> map[m].at, age |-> map[m].age + 1]]

\* Mutant: the interval of a client ticks once.
TimePasses_Once ==
  /\ \A n \in Nodes : task[n] = "running" => wait[n] > 0
  /\ addresses' = [n \in Nodes |-> IF task[n] = "running" /\ n \in Listening
                                   THEN Older(addresses[n]) ELSE addresses[n]]
  /\ wait' = [n \in Nodes |-> IF task[n] = "running" /\ n \in Listening THEN wait[n] - 1 ELSE wait[n]]
  /\ UNCHANGED <<nodeVars, pong, discovered, sending, network, published, streamVars, sent>>

(* A second passes.  The tasks keep up with their intervals. *)
TimePasses ==
  /\ \A n \in Nodes : task[n] = "running" => wait[n] > 0
  /\ addresses' = [n \in Nodes |-> IF task[n] = "running" THEN Older(addresses[n]) ELSE addresses[n]]
  /\ wait' = [n \in Nodes |-> IF task[n] = "running" THEN wait[n] - 1 ELSE wait[n]]
  /\ UNCHANGED <<nodeVars, pong, discovered, sending, network, published, streamVars, sent>>

ReceiveAny(n, kind) == \E d \in network : d.packet = kind /\ Receive(n, d)

ReceiveFrom(n, m, kind) == \E d \in network : d.packet = kind /\ d.sender = m /\ Receive(n, d)

Next ==
  \/ \E n \in Nodes :
       \/ Start(n)
       \/ \E data \in Pongs \cup {NoPong} : SetPongData(n, data)
       \/ \E m \in Nodes, signal \in Signals : LookUp(n, m, signal)
       \/ SendSignal(n)
       \/ Shutdown(n) \/ ShutdownReturns(n) \/ Drop(n)
       \/ TaskEnds(n) \/ IntervalTick(n)
       \/ \E kind \in {"request", "response", "message"} : ReceiveAny(n, kind)
  \/ \E d \in network : Lose(d)
  \/ Subscribe \/ StreamNext \/ StreamEnds
  \/ TimePasses

Spec == Init /\ [][Next]_vars

(* The background tasks and the shutdowns go on, time passes, and the stream
   is read.  select takes one of the branches that are ready at random: the
   end of a task that is cancelled is among them from then on. *)
Fairness ==
  /\ \A n \in Nodes : /\ WF_vars(ShutdownReturns(n)) /\ WF_vars(TaskEnds(n))
                       /\ WF_vars(IntervalTick(n)) /\ WF_vars(SendSignal(n))
  /\ WF_vars(TimePasses) /\ WF_vars(StreamNext) /\ WF_vars(StreamEnds)

FairSpec == Spec /\ Fairness
-----------------------------------------------------------------------------
(* The tables are those of nodes that know each other from packets. *)
TypeOK ==
  /\ owner \in [Nodes -> {"none", "up", "shutting", "shut", "dropped"}]
  /\ task \in [Nodes -> {"none", "running", "ended"}]
  /\ \A n \in Nodes :
       /\ DOMAIN addresses[n] \subseteq Nodes \ {n}
       /\ \A m \in DOMAIN addresses[n] : addresses[n][m].at = HostOf[m] /\ addresses[n][m].age \in Nat
       /\ DOMAIN discovered[n] \subseteq Nodes \ {n}
       /\ \A m \in DOMAIN discovered[n] : discovered[n][m] \in Pongs
       /\ wait[n] \in 0..BROADCAST_INTERVAL
       /\ sending[n] # None => owner[n] = "up"
       /\ (owner[n] = "none") = (task[n] = "none")
  /\ pong \in [Nodes -> Pongs \cup {NoPong}]
  /\ position \in Nat /\ over \in BOOLEAN

(* lan.rs:350: an address is kept while it was "observed within the configured
   timeout window".  The table is cleaned once in an interval, so a node never
   sends to an address that is older than both together. *)
AddressesAreFresh ==
  \A n \in Nodes : task[n] = "running" =>
    \A m \in DOMAIN addresses[n] : addresses[n][m].age < ADDRESS_TIMEOUT + BROADCAST_INTERVAL

(* A signal comes out only where its sender meant it to (lan.rs:323): not at a
   node that has taken over the host of the recipient, and an address that has
   become stale between the look-up and the datagram does no harm. *)
SignalsAreMeant ==
  \A n \in Nodes : \A k \in DOMAIN published[n] :
    <<published[n][k].from, n, published[n][k].text>> \in sent

(* lan.rs:106: shutdown "ensures that all in-flight operations are finished and
   no packets will be processed after this method returns". *)
ShutdownIsFinal ==
  [][\A n \in Nodes : owner[n] = "shut" =>
       UNCHANGED <<addresses[n], discovered[n], published[n]>>]_vars

(* lan.rs:403: a subscriber "receives all future broadcasted signals. If [it]
   falls behind, missed signals are skipped; the stream ends if the
   broadcaster is closed". *)
Feed == INSTANCE SignalFeed WITH
  Capacity <- RingCapacity,
  Signals <- [from : Nodes, text : Signals],
  closed <- Closed,
  unread <- IF position = 0 THEN <<>>
            ELSE SubSeq(published[Subscriber], Larger(position, Oldest), Len(published[Subscriber]))

FeedSpec == Feed!Spec

(* Every subscriber is told of the end, by shutdown as by drop: the task holds
   a sender of its own. *)
SubscribersSeeTheEnd ==
  (position # 0 /\ owner[Subscriber] \in {"shutting", "shut", "dropped"}) ~> over

(* A node finds a server that keeps its data (lan.rs:182), though every request
   and response may be lost: if one that is sent again and again gets through
   in the end, the node has to go on asking and the server to go on answering. *)
Discovers ==
  \A n \in Nodes \ Listening, m \in Listening :
    (SF_vars(ReceiveFrom(m, n, "request")) /\ SF_vars(ReceiveFrom(n, m, "response")))
    => (<>[](owner[n] = "up" /\ owner[m] = "up" /\ pong[m] # NoPong) => <>(m \in DOMAIN discovered[n]))

(* signal answers Ok once the datagram is sent.  If datagrams get through to a
   node that stays up, it publishes every signal whose text is not longer than
   4031 bytes: the longer ones do not fit its buffer, and nobody is told. *)
Pending(m) == {s \in sent : /\ s[2] = m /\ s[3] <= 4031
                            /\ Copies(m, [from |-> s[1], text |-> s[3]]) = 0}

SignalsArrive ==
  \A m \in Nodes :
    SF_vars(ReceiveAny(m, "message")) => (<>[](owner[m] = "up") => []<>(Pending(m) = {}))
=============================================================================
