------------------------- MODULE LanSignalingProofs -------------------------
(***************************************************************************)
(* For any number of nodes and hosts, any clock settings and any network:  *)
(* the types of the tables, the age of addresses, where signals come out,  *)
(* what shutdown promises, and what a subscriber sees.                     *)
(***************************************************************************)
EXTENDS LanSignaling, SequenceTheorems, TLAPS

Ads == [from : Nodes, text : Signals]

\* The life of a node, and the call of signal in progress.
LifeInv ==
  /\ owner \in [Nodes -> {"none", "up", "shutting", "shut", "dropped"}]
  /\ task \in [Nodes -> {"none", "running", "ended"}]
  /\ DOMAIN sending = Nodes
  /\ \A n \in Nodes :
       /\ (owner[n] = "none") = (task[n] = "none")
       /\ owner[n] = "shut" => task[n] = "ended"
       /\ sending[n] # None => owner[n] = "up" /\ sending[n].text \in Signals

\* An address that is kept past a tick is younger than the timeout then.
AddressInv ==
  /\ DOMAIN addresses = Nodes
  /\ wait \in [Nodes -> 0..BROADCAST_INTERVAL]
  /\ \A n \in Nodes :
       /\ task[n] # "running" => DOMAIN addresses[n] = {}
       /\ DOMAIN addresses[n] \subseteq Nodes \ {n}
       /\ \A m \in DOMAIN addresses[n] :
            /\ addresses[n][m].at = HostOf[m]
            /\ addresses[n][m].age \in Nat
            /\ addresses[n][m].age + wait[n] < ADDRESS_TIMEOUT + BROADCAST_INTERVAL

DiscoveryInv ==
  /\ pong \in [Nodes -> Pongs \cup {NoPong}]
  /\ DOMAIN discovered = Nodes
  /\ \A n \in Nodes :
       /\ DOMAIN discovered[n] \subseteq Nodes \ {n}
       /\ \A m \in DOMAIN discovered[n] : discovered[n][m] \in Pongs

\* What a datagram says is true of its sender.
NetworkInv ==
  \A d \in network :
    /\ d.sender \in Nodes /\ d.at = HostOf[d.sender]
    /\ d.packet = "response" => d.data \in Pongs
    /\ d.packet = "message" => /\ d.text \in Signals
                               /\ <<d.sender, d.recipient, d.text>> \in sent

PublishedInv == published \in [Nodes -> Seq(Ads)]

StreamInv == position \in Nat /\ over \in BOOLEAN

LanInv ==
  /\ LifeInv /\ AddressInv /\ DiscoveryInv /\ NetworkInv /\ PublishedInv /\ StreamInv
  /\ SignalsAreMeant

LEMMA Positive ==
  /\ ADDRESS_TIMEOUT \in Nat \ {0} /\ BROADCAST_INTERVAL \in Nat \ {0}
  /\ RingCapacity \in Nat \ {0} /\ Subscriber \in Nodes /\ NoPong \notin Pongs
BY LanAssumption DEF LanAssumption

LEMMA InitInv == Init => LanInv
<1> SUFFICES ASSUME Init PROVE LanInv
  OBVIOUS
<1> USE DEF Init
<1>1. LifeInv
  BY DEF LifeInv
<1>2. DOMAIN <<>> = {} /\ Len(<<>>) = 0
  OBVIOUS
<1>3. AddressInv
  BY <1>2, Positive DEF AddressInv
<1>4. DiscoveryInv
  BY <1>2 DEF DiscoveryInv
<1>5. NetworkInv /\ StreamInv
  BY DEF NetworkInv, StreamInv
<1>6. PublishedInv
  <2>1. <<>> \in Seq(Ads)
    OBVIOUS
  <2> QED
    BY <2>1 DEF PublishedInv
<1>7. SignalsAreMeant
  BY <1>2 DEF SignalsAreMeant
<1> QED
  BY <1>1, <1>3, <1>4, <1>5, <1>6, <1>7 DEF LanInv

(* Each part stands still with its variables. *)
LEMMA PartStable ==
  ASSUME LanInv
  PROVE  /\ UNCHANGED <<nodeVars, sending>> => LifeInv'
         /\ UNCHANGED <<task, addresses, wait>> => AddressInv'
         /\ UNCHANGED <<pong, discovered>> => DiscoveryInv'
         /\ UNCHANGED <<network, sent>> => NetworkInv'
         /\ UNCHANGED published => PublishedInv'
         /\ UNCHANGED streamVars => StreamInv'
         /\ UNCHANGED <<published, sent>> => SignalsAreMeant'
<1> USE DEF LanInv
<1>1. UNCHANGED <<nodeVars, sending>> => LifeInv'
  BY DEF LifeInv, nodeVars, None
<1>2. UNCHANGED <<task, addresses, wait>> => AddressInv'
  BY DEF AddressInv
<1>3. UNCHANGED <<pong, discovered>> => DiscoveryInv'
  BY DEF DiscoveryInv
<1>4. UNCHANGED <<network, sent>> => NetworkInv'
  BY DEF NetworkInv
<1>5. UNCHANGED published => PublishedInv'
  BY DEF PublishedInv, Ads
<1>6. UNCHANGED streamVars => StreamInv'
  BY DEF StreamInv, streamVars
<1>7. UNCHANGED <<published, sent>> => SignalsAreMeant'
  BY DEF SignalsAreMeant
<1> QED
  BY <1>1, <1>2, <1>3, <1>4, <1>5, <1>6, <1>7
-----------------------------------------------------------------------------
(* Calls of the application *)

LEMMA OwnerInv ==
  ASSUME LanInv, NEW n \in Nodes,
         \/ Start(n) \/ Shutdown(n) \/ ShutdownReturns(n) \/ Drop(n)
  PROVE  LanInv'
<1>1. /\ UNCHANGED <<tableVars, wait, sending, network, published, streamVars, sent>>
      /\ owner' = [owner EXCEPT ![n] = owner'[n]] /\ task' = [task EXCEPT ![n] = task'[n]]
      /\ \/ owner[n] = "none" /\ owner'[n] = "up" /\ task'[n] = "running"
         \/ owner[n] = "up" /\ owner'[n] = "shutting" /\ sending[n] = None /\ task'[n] = task[n]
         \/ owner[n] = "shutting" /\ owner'[n] = "shut" /\ task[n] = "ended" /\ task'[n] = task[n]
         \/ /\ owner[n] \in {"up", "shutting"} /\ owner'[n] = "dropped" /\ sending[n] = None
            /\ task'[n] = task[n]
  BY DEF LanInv, LifeInv, Start, Shutdown, ShutdownReturns, Drop
<1>2. LifeInv'
  <2>1. owner[n] # "none" => task[n] # "none"
    BY DEF LanInv, LifeInv
  <2>2. /\ owner' \in [Nodes -> {"none", "up", "shutting", "shut", "dropped"}]
        /\ task' \in [Nodes -> {"none", "running", "ended"}]
        /\ sending' = sending
        /\ \A k \in Nodes \ {n} : owner'[k] = owner[k] /\ task'[k] = task[k]
    BY <1>1 DEF LanInv, LifeInv
  <2>3. /\ (owner'[n] = "none") = (task'[n] = "none")
        /\ owner'[n] = "shut" => task'[n] = "ended"
    BY <1>1, <2>1
  <2>4. sending[n] # None => owner'[n] = "up" /\ sending[n].text \in Signals
    BY <1>1 DEF LanInv, LifeInv
  <2>5. ASSUME NEW k \in Nodes
        PROVE  /\ (owner'[k] = "none") = (task'[k] = "none")
               /\ owner'[k] = "shut" => task'[k] = "ended"
               /\ sending[k] # None => owner'[k] = "up" /\ sending[k].text \in Signals
    <3>1. CASE k = n
      BY <2>3, <2>4, <3>1
    <3>2. CASE k # n
      BY <2>2, <3>2 DEF LanInv, LifeInv
    <3> QED
      BY <3>1, <3>2
  <2>6. DOMAIN sending' = Nodes
    BY <2>2 DEF LanInv, LifeInv
  <2> QED
    BY <2>2, <2>5, <2>6 DEF LifeInv, None
<1>3. AddressInv'
  BY <1>1 DEF LanInv, LifeInv, AddressInv, tableVars
<1> QED
  BY <1>1, <1>2, <1>3, PartStable DEF LanInv, tableVars

LEMMA PongInv ==
  ASSUME LanInv, NEW n \in Nodes, NEW data \in Pongs \cup {NoPong}, SetPongData(n, data)
  PROVE  LanInv'
<1>1. DiscoveryInv'
  BY DEF LanInv, DiscoveryInv, SetPongData
<1> QED
  BY <1>1, PartStable DEF LanInv, SetPongData, nodeVars

LEMMA LookUpInv ==
  ASSUME LanInv, NEW n \in Nodes, NEW m \in Nodes, NEW signal \in Signals, LookUp(n, m, signal)
  PROVE  LanInv'
<1>1. LifeInv'
  BY DEF LanInv, LifeInv, LookUp, None, nodeVars
<1> QED
  BY <1>1, PartStable DEF LanInv, LookUp, tableVars, nodeVars

LEMMA SendSignalInv ==
  ASSUME LanInv, NEW n \in Nodes, SendSignal(n)
  PROVE  LanInv'
<1>1. LifeInv'
  BY DEF LanInv, LifeInv, SendSignal, None, nodeVars
<1>2. /\ sent \subseteq sent'
      /\ \A d \in network' \ network :
           /\ d.sender = n /\ d.at = HostOf[n] /\ d.packet = "message"
           /\ d.text = sending[n].text /\ d.recipient = sending[n].recipient
           /\ <<n, sending[n].recipient, sending[n].text>> \in sent'
  BY DEF SendSignal
<1>3. sending[n].text \in Signals
  BY DEF SendSignal, LanInv, LifeInv
<1>4. NetworkInv'
  BY <1>2, <1>3 DEF LanInv, NetworkInv
<1>5. SignalsAreMeant'
  BY <1>2 DEF LanInv, SignalsAreMeant, SendSignal
<1> QED
  BY <1>1, <1>4, <1>5, PartStable DEF LanInv, SendSignal, tableVars, nodeVars
-----------------------------------------------------------------------------
(* The background task *)

LEMMA TaskEndsInv ==
  ASSUME LanInv, NEW n \in Nodes, TaskEnds(n)
  PROVE  LanInv'
<1>1. LifeInv'
  BY DEF LanInv, LifeInv, TaskEnds, None
<1>2. DOMAIN <<>> = {}
  OBVIOUS
<1>3. AddressInv'
  BY <1>2, Positive DEF LanInv, LifeInv, AddressInv, TaskEnds
<1>4. DiscoveryInv'
  BY <1>2 DEF LanInv, DiscoveryInv, TaskEnds
<1> QED
  BY <1>1, <1>3, <1>4, PartStable DEF LanInv, TaskEnds

LEMMA IntervalTickInv ==
  ASSUME LanInv, NEW n \in Nodes, IntervalTick(n)
  PROVE  LanInv'
<1>1. /\ DOMAIN Cleaned(addresses[n]) \subseteq DOMAIN addresses[n]
      /\ \A m \in DOMAIN Cleaned(addresses[n]) :
           /\ Cleaned(addresses[n])[m] = addresses[n][m]
           /\ addresses[n][m].age < ADDRESS_TIMEOUT
  BY DEF Cleaned, Fresh
<1>2. AddressInv'
  <2>1. /\ addresses' = [addresses EXCEPT ![n] = Cleaned(addresses[n])]
        /\ wait' = [wait EXCEPT ![n] = BROADCAST_INTERVAL]
        /\ task' = task
    BY DEF IntervalTick, nodeVars
  <2>2. /\ DOMAIN addresses' = Nodes
        /\ wait' \in [Nodes -> 0..BROADCAST_INTERVAL]
    BY <2>1, Positive DEF LanInv, AddressInv
  <2>3. ASSUME NEW k \in Nodes, NEW m \in DOMAIN addresses'[k]
        PROVE  /\ addresses'[k][m].at = HostOf[m]
               /\ addresses'[k][m].age \in Nat
               /\ addresses'[k][m].age + wait'[k] < ADDRESS_TIMEOUT + BROADCAST_INTERVAL
    <3>1. CASE k = n
      <4>1. m \in DOMAIN addresses[n] /\ addresses'[k][m] = addresses[n][m]
            /\ addresses[n][m].age < ADDRESS_TIMEOUT /\ wait'[k] = BROADCAST_INTERVAL
        BY <1>1, <2>1, <3>1 DEF LanInv, AddressInv
      <4>2. addresses[n][m].age \in Nat /\ addresses[n][m].at = HostOf[m]
        BY <4>1 DEF LanInv, AddressInv
      <4>3. \A a \in Nat : a < ADDRESS_TIMEOUT
                           => a + BROADCAST_INTERVAL < ADDRESS_TIMEOUT + BROADCAST_INTERVAL
        BY Positive
      <4> QED
        BY <4>1, <4>2, <4>3
    <3>2. CASE k # n
      BY <2>1, <3>2 DEF LanInv, AddressInv
    <3> QED
      BY <3>1, <3>2
  <2>4. \A k \in Nodes : /\ task'[k] # "running" => DOMAIN addresses'[k] = {}
                         /\ DOMAIN addresses'[k] \subseteq Nodes \ {k}
    BY <1>1, <2>1 DEF LanInv, AddressInv
  <2> QED
    BY <2>2, <2>3, <2>4 DEF AddressInv
<1>3. NetworkInv'
  <2>1. /\ sent' = sent
        /\ \A d \in network' \ network : d.sender = n /\ d.at = HostOf[n] /\ d.packet = "request"
    BY DEF IntervalTick, Request
  <2> QED
    BY <2>1 DEF LanInv, NetworkInv
<1> QED
  BY <1>2, <1>3, PartStable DEF LanInv, IntervalTick, nodeVars

\* A packet refreshes its sender's address.
LEMMA ReceiveAddress ==
  ASSUME LanInv, NEW n \in Nodes, NEW d \in network, Receive(n, d)
  PROVE  AddressInv'
<1> DEFINE entry == [at |-> d.at, age |-> 0]
           map   == With(addresses[n], d.sender, entry)
<1>1. /\ addresses' = [addresses EXCEPT ![n] = map]
      /\ wait' = wait /\ task' = task /\ task[n] = "running" /\ d.sender # n
  BY DEF Receive, nodeVars
<1>2. d.sender \in Nodes /\ d.at = HostOf[d.sender]
  BY DEF LanInv, NetworkInv
<1>3. /\ DOMAIN map = DOMAIN addresses[n] \cup {d.sender}
      /\ \A m \in DOMAIN map : map[m] = IF m = d.sender THEN entry ELSE addresses[n][m]
  BY DEF With
<1>4. entry.at = d.at /\ entry.age = 0
  OBVIOUS
<1> HIDE DEF map, entry
<1>5. ASSUME NEW k \in Nodes, NEW m \in DOMAIN addresses'[k]
      PROVE  /\ addresses'[k][m].at = HostOf[m]
             /\ addresses'[k][m].age \in Nat
             /\ addresses'[k][m].age + wait[k] < ADDRESS_TIMEOUT + BROADCAST_INTERVAL
  <2>1. CASE k = n /\ m = d.sender
    <3>1. addresses'[k][m] = entry
      BY <1>1, <1>3, <2>1 DEF LanInv, AddressInv
    <3>2. wait[k] \in 0..BROADCAST_INTERVAL
      BY DEF LanInv, AddressInv
    <3>3. 0 + wait[k] < ADDRESS_TIMEOUT + BROADCAST_INTERVAL
      BY <3>2, Positive
    <3> QED
      BY <1>2, <1>4, <2>1, <3>1, <3>3
  <2>2. CASE ~(k = n /\ m = d.sender)
    <3>1. m \in DOMAIN addresses[k] /\ addresses'[k][m] = addresses[k][m]
      BY <1>1, <1>3, <2>2 DEF LanInv, AddressInv
    <3> QED
      BY <3>1 DEF LanInv, AddressInv
  <2> QED
    BY <2>1, <2>2
<1>6. \A k \in Nodes : /\ task'[k] # "running" => DOMAIN addresses'[k] = {}
                       /\ DOMAIN addresses'[k] \subseteq Nodes \ {k}
  BY <1>1, <1>2, <1>3 DEF LanInv, AddressInv
<1> QED
  BY <1>1, <1>5, <1>6 DEF LanInv, AddressInv

\* A response brings data that its sender had set.
LEMMA ReceiveData ==
  ASSUME LanInv, NEW n \in Nodes, NEW d \in network, Receive(n, d)
  PROVE  DiscoveryInv'
<1> DEFINE map == With(discovered[n], d.sender, d.data)
<1>1. /\ discovered' = IF d.packet = "response" THEN [discovered EXCEPT ![n] = map] ELSE discovered
      /\ pong' = pong /\ d.sender # n
  BY DEF Receive
<1>2. d.sender \in Nodes /\ (d.packet = "response" => d.data \in Pongs)
  BY DEF LanInv, NetworkInv
<1>3. /\ DOMAIN map = DOMAIN discovered[n] \cup {d.sender}
      /\ \A m \in DOMAIN map : map[m] = IF m = d.sender THEN d.data ELSE discovered[n][m]
  BY DEF With
<1> HIDE DEF map
<1>4. CASE d.packet = "response"
  BY <1>1, <1>2, <1>3, <1>4 DEF LanInv, DiscoveryInv
<1>5. CASE d.packet # "response"
  BY <1>1, <1>5, PartStable DEF LanInv
<1> QED
  BY <1>4, <1>5

\* A message that is published was sent to this node.
LEMMA ReceiveSignal ==
  ASSUME LanInv, NEW n \in Nodes, NEW d \in network, Receive(n, d)
  PROVE  PublishedInv' /\ SignalsAreMeant'
<1> DEFINE ad == [from |-> d.sender, text |-> d.text]
<1>1. /\ sent' = sent
      /\ published' = [published EXCEPT ![n] = published[n] \o SignalsIn(d, n)]
  BY DEF Receive
<1>2. CASE d.packet = "message" /\ d.recipient = n
  <2>1. ad \in Ads /\ <<ad.from, n, ad.text>> \in sent
    BY <1>2 DEF LanInv, NetworkInv, Ads
  <2>2. SignalsIn(d, n) = <<ad>>
    BY <1>2 DEF SignalsIn
  <2> HIDE DEF ad
  <2>3. /\ published[n] \in Seq(Ads) /\ <<ad>> \in Seq(Ads)
        /\ published[n] \o <<ad>> \in Seq(Ads)
        /\ Len(published[n] \o <<ad>>) = Len(published[n]) + 1
    BY <2>1 DEF LanInv, PublishedInv
  <2>4. \A k \in DOMAIN (published[n] \o <<ad>>) :
          (published[n] \o <<ad>>)[k] = IF k \in DOMAIN published[n] THEN published[n][k] ELSE ad
    BY <2>1, <2>3
  <2>5. PublishedInv'
    BY <1>1, <2>2, <2>3 DEF LanInv, PublishedInv, Ads
  <2>6. \A m \in Nodes : published'[m] = IF m = n THEN published[n] \o <<ad>> ELSE published[m]
    BY <1>1, <2>2 DEF LanInv, PublishedInv
  <2>7. SignalsAreMeant'
    <3>1. ASSUME NEW m \in Nodes, NEW k \in DOMAIN published'[m]
          PROVE  <<published'[m][k].from, m, published'[m][k].text>> \in sent
      <4>1. CASE m # n
        BY <2>6, <4>1 DEF LanInv, SignalsAreMeant
      <4>2. CASE m = n /\ k \in DOMAIN published[n]
        BY <2>4, <2>6, <4>2 DEF LanInv, SignalsAreMeant
      <4>3. CASE m = n /\ k \notin DOMAIN published[n]
        BY <2>1, <2>4, <2>6, <4>3
      <4> QED
        BY <4>1, <4>2, <4>3
    <3> QED
      BY <1>1, <3>1 DEF SignalsAreMeant
  <2> QED
    BY <2>5, <2>7
<1>3. CASE ~(d.packet = "message" /\ d.recipient = n)
  <2>1. SignalsIn(d, n) = <<>>
    BY <1>3 DEF SignalsIn
  <2>2. published[n] \in Seq(Ads) /\ published[n] \o <<>> = published[n]
    BY DEF LanInv, PublishedInv
  <2>3. published' = published
    BY <1>1, <2>1, <2>2 DEF LanInv, PublishedInv
  <2> QED
    BY <1>1, <2>3, PartStable DEF LanInv
<1> QED
  BY <1>2, <1>3

LEMMA ReceiveInv ==
  ASSUME LanInv, NEW n \in Nodes, NEW d \in network, Receive(n, d)
  PROVE  LanInv'
<1>1. NetworkInv'
  <2>1. pong[n] # NoPong => pong[n] \in Pongs
    BY DEF LanInv, DiscoveryInv
  <2>2. /\ sent' = sent
        /\ \A x \in network' \ network :
             /\ x.sender = n /\ x.at = HostOf[n] /\ x.packet = "response"
             /\ x.data = pong[n] /\ pong[n] # NoPong
    BY DEF Receive, Responses
  <2> QED
    BY <2>1, <2>2 DEF LanInv, NetworkInv
<1> QED
  BY <1>1, ReceiveAddress, ReceiveData, ReceiveSignal, PartStable DEF LanInv, Receive

LEMMA LoseInv ==
  ASSUME LanInv, NEW d, Lose(d)
  PROVE  LanInv'
<1>1. network' \subseteq network /\ sent' = sent
  BY DEF Lose
<1>2. NetworkInv'
  BY <1>1 DEF LanInv, NetworkInv
<1> QED
  BY <1>2, PartStable DEF LanInv, Lose, nodeVars, tableVars
-----------------------------------------------------------------------------
(* Time, and the subscriber's stream *)

LEMMA StreamStepInv ==
  ASSUME LanInv, Subscribe \/ StreamNext \/ StreamEnds
  PROVE  LanInv'
<1>1. /\ UNCHANGED <<nodeVars, tableVars, wait, sending, network, published, sent>>
  BY DEF Subscribe, StreamNext, StreamEnds
<1>2. published[Subscriber] \in Seq(Ads)
  BY Positive DEF LanInv, PublishedInv
<1>3. Len(published[Subscriber]) \in Nat
  BY <1>2
<1>4. Oldest \in Nat /\ position \in Nat /\ Larger(position, Oldest) \in Nat
  BY <1>3, Positive DEF Oldest, Larger, LanInv, StreamInv
<1>5. StreamInv'
  <2>1. CASE Subscribe
    BY <1>3, <2>1 DEF Subscribe, LanInv, StreamInv
  <2>2. CASE StreamNext
    BY <1>4, <2>2 DEF StreamNext, LanInv, StreamInv
  <2>3. CASE StreamEnds
    BY <2>3 DEF StreamEnds, LanInv, StreamInv
  <2> QED
    BY <2>1, <2>2, <2>3
<1> QED
  BY <1>1, <1>5, PartStable DEF LanInv, nodeVars, tableVars

\* A second makes the addresses older and brings the tick nearer.
LEMMA TimePassesInv ==
  ASSUME LanInv, TimePasses
  PROVE  LanInv'
<1>1. ASSUME NEW n \in Nodes
      PROVE  /\ DOMAIN addresses'[n] = DOMAIN addresses[n]
             /\ task[n] = "running" => wait[n] > 0
             /\ wait'[n] = IF task[n] = "running" THEN wait[n] - 1 ELSE wait[n]
             /\ task[n] = "running" =>
                  \A m \in DOMAIN addresses[n] :
                    /\ addresses'[n][m].at = addresses[n][m].at
                    /\ addresses'[n][m].age = addresses[n][m].age + 1
             /\ task[n] # "running" => addresses'[n] = addresses[n]
  BY DEF TimePasses, Older
<1>2. DOMAIN addresses' = Nodes /\ DOMAIN wait' = Nodes /\ task' = task
  BY DEF TimePasses, nodeVars
<1>3. wait' \in [Nodes -> 0..BROADCAST_INTERVAL]
  <2>1. \A w \in 0..BROADCAST_INTERVAL : w > 0 => w - 1 \in 0..BROADCAST_INTERVAL
    BY Positive
  <2>2. \A n \in Nodes : wait'[n] \in 0..BROADCAST_INTERVAL
    BY <1>1, <2>1 DEF LanInv, AddressInv
  <2>3. wait' = [n \in Nodes |-> wait'[n]]
    BY DEF TimePasses
  <2> QED
    BY <2>2, <2>3
<1>4. ASSUME NEW n \in Nodes, NEW m \in DOMAIN addresses'[n]
      PROVE  /\ addresses'[n][m].at = HostOf[m]
             /\ addresses'[n][m].age \in Nat
             /\ addresses'[n][m].age + wait'[n] < ADDRESS_TIMEOUT + BROADCAST_INTERVAL
  <2>1. m \in DOMAIN addresses[n]
    BY <1>1
  <2>2. /\ addresses[n][m].at = HostOf[m]
        /\ addresses[n][m].age \in Nat
        /\ addresses[n][m].age + wait[n] < ADDRESS_TIMEOUT + BROADCAST_INTERVAL
    BY <2>1 DEF LanInv, AddressInv
  <2>3. task[n] = "running"
    BY <2>1 DEF LanInv, AddressInv
  <2>4. /\ addresses'[n][m].at = addresses[n][m].at
        /\ addresses'[n][m].age = addresses[n][m].age + 1
        /\ wait'[n] = wait[n] - 1
    BY <1>1, <2>1, <2>3
  <2>5. wait[n] \in Nat
    BY DEF LanInv, AddressInv
  <2>6. \A a, w \in Nat : a + 1 \in Nat /\ (a + 1) + (w - 1) = a + w
    OBVIOUS
  <2> QED
    BY <2>2, <2>4, <2>5, <2>6
<1>5. AddressInv'
  BY <1>1, <1>2, <1>3, <1>4 DEF LanInv, AddressInv
<1> QED
  BY <1>5, PartStable DEF LanInv, TimePasses, nodeVars
-----------------------------------------------------------------------------
(* Every step *)

LEMMA StutterInv ==
  ASSUME LanInv, UNCHANGED vars
  PROVE  LanInv'
BY PartStable DEF LanInv, vars, nodeVars, tableVars

LEMMA NextInv ==
  ASSUME LanInv, [Next]_vars
  PROVE  LanInv'
<1>1. ASSUME NEW n \in Nodes,
             Start(n) \/ Shutdown(n) \/ ShutdownReturns(n) \/ Drop(n)
      PROVE  LanInv'
  BY <1>1, OwnerInv
<1>2. ASSUME NEW n \in Nodes, NEW d \in network, Receive(n, d)
      PROVE  LanInv'
  BY <1>2, ReceiveInv
<1>3. CASE UNCHANGED vars
  BY <1>3, StutterInv
<1>4. CASE Next
  BY <1>1, <1>2, <1>4, PongInv, LookUpInv, SendSignalInv, TaskEndsInv, IntervalTickInv,
     LoseInv, StreamStepInv, TimePassesInv DEF Next, ReceiveAny
<1> QED
  BY <1>3, <1>4

LEMMA LanInvariant == Spec => []LanInv
<1> QED
  BY InitInv, NextInv, PTL DEF Spec

(* lan.rs: the tables hold nodes that packets have told of, never the node
   itself, and an entry of the addresses is always the host of its node. *)
THEOREM TypeCorrect == Spec => []TypeOK
<1>1. LanInv => TypeOK
  BY DEF LanInv, LifeInv, AddressInv, DiscoveryInv, StreamInv, TypeOK
<1> QED
  BY <1>1, LanInvariant, PTL

(* lan.rs:350: whatever the timeout and the interval are, no address that
   signal can read is older than both together. *)
THEOREM AddressesStayFresh == Spec => []AddressesAreFresh
<1>1. ASSUME LanInv, NEW n \in Nodes, NEW m \in DOMAIN addresses[n]
      PROVE  addresses[n][m].age < ADDRESS_TIMEOUT + BROADCAST_INTERVAL
  <2>1. /\ addresses[n][m].age \in Nat /\ wait[n] \in Nat
        /\ addresses[n][m].age + wait[n] < ADDRESS_TIMEOUT + BROADCAST_INTERVAL
    BY <1>1 DEF LanInv, AddressInv
  <2>2. \A a, w, b \in Nat : a + w < b => a < b
    OBVIOUS
  <2> QED
    BY <2>1, <2>2, Positive
<1>2. LanInv => AddressesAreFresh
  BY <1>1 DEF AddressesAreFresh
<1> QED
  BY <1>2, LanInvariant, PTL

(* lan.rs:323: a signal is published only by the node that its sender named,
   whoever receives the datagram, on whatever host, however late or often. *)
THEOREM SignalsComeOutAsMeant == Spec => []SignalsAreMeant
<1>1. LanInv => SignalsAreMeant
  BY DEF LanInv
<1> QED
  BY <1>1, LanInvariant, PTL

(* lan.rs:106: once shutdown has returned, the task is at its end and handles
   no packet. *)
THEOREM ShutdownEndsIt == Spec => ShutdownIsFinal
<1>1. ASSUME LanInv, [Next]_vars, NEW n \in Nodes, owner[n] = "shut"
      PROVE  UNCHANGED <<addresses[n], discovered[n], published[n]>>
  <2>1. task[n] = "ended"
    BY <1>1 DEF LanInv, LifeInv
  <2>2. CASE UNCHANGED vars
    BY <2>2 DEF vars, tableVars
  <2>3. ASSUME NEW k \in Nodes, Start(k) \/ Shutdown(k) \/ ShutdownReturns(k) \/ Drop(k)
        PROVE  UNCHANGED <<addresses[n], discovered[n], published[n]>>
    BY <2>3 DEF Start, Shutdown, ShutdownReturns, Drop, tableVars
  <2>4. ASSUME NEW k \in Nodes, NEW data, SetPongData(k, data)
        PROVE  UNCHANGED <<addresses[n], discovered[n], published[n]>>
    BY <2>4 DEF SetPongData
  <2>5. ASSUME NEW k \in Nodes, NEW m, NEW signal, LookUp(k, m, signal) \/ SendSignal(k)
        PROVE  UNCHANGED <<addresses[n], discovered[n], published[n]>>
    BY <2>5 DEF LookUp, SendSignal, tableVars
  <2>6. ASSUME NEW k \in Nodes, TaskEnds(k)
        PROVE  UNCHANGED <<addresses[n], discovered[n], published[n]>>
    BY <1>1, <2>1, <2>6 DEF TaskEnds, LanInv, AddressInv, DiscoveryInv
  <2>7. ASSUME NEW k \in Nodes, IntervalTick(k)
        PROVE  UNCHANGED <<addresses[n], discovered[n], published[n]>>
    BY <1>1, <2>1, <2>7 DEF IntervalTick, LanInv, AddressInv
  <2>8. ASSUME NEW k \in Nodes, NEW d, Receive(k, d)
        PROVE  UNCHANGED <<addresses[n], discovered[n], published[n]>>
    BY <1>1, <2>1, <2>8 DEF Receive, LanInv, AddressInv, DiscoveryInv, PublishedInv
  <2>9. CASE Subscribe \/ StreamNext \/ StreamEnds
    BY <2>9 DEF Subscribe, StreamNext, StreamEnds, tableVars
  <2>10. CASE TimePasses
    BY <1>1, <2>1, <2>10 DEF TimePasses
  <2>11. ASSUME NEW d, Lose(d)
         PROVE  UNCHANGED <<addresses[n], discovered[n], published[n]>>
    BY <2>11 DEF Lose, tableVars
  <2> QED
    BY <1>1, <2>2, <2>3, <2>4, <2>5, <2>6, <2>7, <2>8, <2>9, <2>10, <2>11 DEF Next, ReceiveAny
<1>2. LanInv /\ [Next]_vars => [\A n \in Nodes : owner[n] = "shut" =>
        UNCHANGED <<addresses[n], discovered[n], published[n]>>]_vars
  BY <1>1
<1> QED
  BY <1>2, LanInvariant, PTL DEF Spec, ShutdownIsFinal
-----------------------------------------------------------------------------
(* What a subscriber sees *)

All   == published[Subscriber]
Place == Larger(position, Oldest)
Unread == IF position = 0 THEN <<>> ELSE SubSeq(All, Place, Len(All))

\* The receiver is at most one ahead of what is published.
FeedInv == position \in 0..Len(All) + 1

LEMMA LastOfSubSeq ==
  ASSUME NEW S, NEW s \in Seq(S), NEW x \in S, NEW q \in 1..Len(s) + 1
  PROVE  SubSeq(s \o <<x>>, q, Len(s) + 1) = Append(SubSeq(s, q, Len(s)), x)
<1> DEFINE t == s \o <<x>>
<1>1. <<x>> \in Seq(S) /\ t \in Seq(S) /\ Len(s) \in Nat /\ Len(t) = Len(s) + 1
      /\ t[Len(s) + 1] = x
  OBVIOUS
<1>2. q \in 1..Len(t) /\ Len(s) + 1 \in q..Len(t)
  BY <1>1
<1>3. SubSeq(t, q, Len(s) + 1) = SubSeq(t, q, (Len(s) + 1) - 1) \o <<t[Len(s) + 1]>>
  BY <1>1, <1>2, SubSeqRecursiveSecond
<1>4. SubSeq(t, q, Len(s)) = SubSeq(s, q, Len(s))
  <2>1. CASE q <= Len(s)
    <3>1. q \in 1..Len(s) /\ Len(s) \in 1..Len(s)
      BY <1>1, <2>1
    <3> QED
      BY <1>1, <3>1, SubSeqOfConcat1
  <2>2. CASE q > Len(s)
    BY <1>1, <2>2, SubSeqEmpty
  <2> QED
    BY <1>1, <2>1, <2>2
<1>5. SubSeq(s, q, Len(s)) \in Seq(S)
  <2>1. q \in Int /\ Len(s) \in Int /\ \A i \in q..Len(s) : s[i] \in S
    BY <1>1
  <2> QED
    BY <2>1, SubSeqProperties
<1>6. (Len(s) + 1) - 1 = Len(s)
  BY <1>1
<1>7. Append(SubSeq(s, q, Len(s)), x) = SubSeq(s, q, Len(s)) \o <<x>>
  BY <1>5, AppendIsConcat
<1> QED
  BY <1>1, <1>3, <1>4, <1>6, <1>7

\* Where the receiver stands, and how much waits for it.
LEMMA PlaceFacts ==
  ASSUME LanInv, FeedInv, position # 0
  PROVE  /\ All \in Seq(Ads) /\ Len(All) \in Nat
         /\ Place \in 1..Len(All) + 1
         /\ Len(All) - Place + 1 <= RingCapacity
         /\ Unread = SubSeq(All, Place, Len(All)) /\ Unread \in Seq(Ads)
         /\ Len(Unread) = Len(All) - Place + 1
<1>1. All \in Seq(Ads) /\ Len(All) \in Nat
  BY Positive DEF LanInv, PublishedInv, All
<1>2. /\ Place \in 1..Len(All) + 1
      /\ Len(All) - Place + 1 <= RingCapacity
  BY <1>1, Positive DEF Place, Larger, Oldest, FeedInv, All
<1>3. /\ Place \in Int /\ Len(All) \in Int
      /\ \A i \in Place..Len(All) : All[i] \in Ads
  BY <1>1, <1>2
<1>4. /\ SubSeq(All, Place, Len(All)) \in Seq(Ads)
      /\ Len(SubSeq(All, Place, Len(All))) = IF Place <= Len(All) THEN Len(All) - Place + 1 ELSE 0
  BY <1>3, SubSeqProperties
<1>5. Unread = SubSeq(All, Place, Len(All))
  BY DEF Unread
<1> QED
  BY <1>1, <1>2, <1>4, <1>5

\* Published to the subscriber, a signal pushes the oldest out of a full ring.
LEMMA PublishStep ==
  ASSUME LanInv, FeedInv, position # 0, position' = position,
         NEW ad \in Ads, All' = All \o <<ad>>
  PROVE  Unread' = Append(IF Len(Unread) < RingCapacity THEN Unread ELSE Tail(Unread), ad)
<1> USE PlaceFacts
<1>1. All' \in Seq(Ads) /\ Len(All') = Len(All) + 1
  OBVIOUS
<1>2. Place' = IF Len(Unread) < RingCapacity THEN Place ELSE Place + 1
  <2>1. position \in Nat /\ position >= 1 /\ RingCapacity \in Nat \ {0}
    BY Positive DEF FeedInv
  <2>2. Place = Larger(position, Oldest) /\ Place' = Larger(position, Oldest')
    BY DEF Place, Larger
  <2>3. /\ Oldest = Larger(1, Len(All) - RingCapacity + 1)
        /\ Oldest' = Larger(1, Len(All') - RingCapacity + 1)
    BY DEF Oldest, All, Larger
  <2>4. \A L, R, k \in Nat :
          LET p == Larger(k, Larger(1, L - R + 1)) IN
            /\ k >= 1 /\ R >= 1
            => Larger(k, Larger(1, (L + 1) - R + 1)) = IF L - p + 1 < R THEN p ELSE p + 1
    BY DEF Larger
  <2>5. Place' = IF Len(All) - Place + 1 < RingCapacity THEN Place ELSE Place + 1
    <3>1. Place = Larger(position, Larger(1, Len(All) - RingCapacity + 1))
      BY <2>2, <2>3
    <3>2. Place' = Larger(position, Larger(1, (Len(All) + 1) - RingCapacity + 1))
      BY <1>1, <2>2, <2>3
    <3>3. Len(All) \in Nat /\ RingCapacity \in Nat /\ RingCapacity >= 1
      BY <2>1
    <3> QED
      BY <2>1, <2>4, <3>1, <3>2, <3>3
  <2> QED
    BY <2>5
<1>3. Unread' = SubSeq(All', Place', Len(All'))
  BY DEF Unread
<1>4. CASE Len(Unread) < RingCapacity
  <2>1. Unread' = SubSeq(All \o <<ad>>, Place, Len(All) + 1)
    BY <1>1, <1>2, <1>3, <1>4
  <2> QED
    BY <1>4, <2>1, LastOfSubSeq
<1>5. CASE ~(Len(Unread) < RingCapacity)
  <2>1. Place \in 1..Len(All) /\ Len(All) \in Place..Len(All) /\ Place + 1 \in 1..Len(All) + 1
    BY <1>5, Positive
  <2>2. Tail(Unread) = SubSeq(All, Place + 1, Len(All))
    BY <2>1, HeadTailOfSubSeq
  <2>3. Unread' = SubSeq(All \o <<ad>>, Place + 1, Len(All) + 1)
    BY <1>1, <1>2, <1>3, <1>5
  <2> QED
    BY <1>5, <2>1, <2>2, <2>3, LastOfSubSeq
<1> QED
  BY <1>4, <1>5

\* A step that touches neither the channel nor the receiver.
LEMMA QuietStep ==
  ASSUME UNCHANGED <<position, All>>
  PROVE  (FeedInv => FeedInv') /\ Unread' = Unread
BY DEF FeedInv, Unread, Place, Larger, Oldest, All

LEMMA ReadStep ==
  ASSUME LanInv, FeedInv, StreamNext
  PROVE  /\ FeedInv' /\ Unread # <<>>
         /\ Unread' = Tail(Unread) /\ read' = Append(read, Head(Unread))
<1>1. /\ position # 0 /\ position <= Len(All) /\ All' = All
      /\ read' = Append(read, All[Place]) /\ position' = Place + 1
  BY DEF StreamNext, All, Place
<1> USE <1>1, PlaceFacts
<1>2. Place \in 1..Len(All) /\ Len(All) \in Place..Len(All)
  BY Positive DEF Place, Larger, Oldest, FeedInv, All
<1>3. Head(Unread) = All[Place] /\ Tail(Unread) = SubSeq(All, Place + 1, Len(All))
  BY <1>2, HeadTailOfSubSeq
<1>4. Place' = Place + 1
  <2>1. position' = Place + 1 /\ Oldest' = Oldest /\ Place' = Larger(position', Oldest')
    BY DEF Place, Oldest, All
  <2>2. Oldest \in Nat /\ Oldest <= Place
    BY Positive DEF Place, Larger, Oldest, FeedInv, All
  <2> QED
    BY <2>1, <2>2, <1>2 DEF Larger
<1>5. Unread' = SubSeq(All, Place + 1, Len(All))
  BY <1>2, <1>4 DEF Unread
<1>6. Unread # <<>>
  BY <1>2
<1>7. FeedInv'
  <2>1. \A L \in Nat : \A p \in 1..L : p + 1 \in 0..L + 1
    OBVIOUS
  <2>2. position' \in 0..Len(All') + 1
    BY <1>2, <2>1
  <2> QED
    BY <2>2 DEF FeedInv
<1> QED
  BY <1>3, <1>5, <1>6, <1>7

LEMMA SubscribeStep ==
  ASSUME LanInv, FeedInv, Subscribe
  PROVE  FeedInv' /\ Unread = <<>> /\ Unread' = <<>>
<1>1. position = 0 /\ All' = All /\ position' = Len(All) + 1
  BY DEF Subscribe, All
<1>2. Len(All) \in Nat
  BY Positive DEF LanInv, PublishedInv, All
<1>3. Place' = Len(All) + 1
  <2>1. Place' = Larger(Len(All) + 1, Larger(1, Len(All) - RingCapacity + 1))
    BY <1>1 DEF Place, Oldest, All
  <2> QED
    BY <1>2, <2>1, Positive DEF Larger
<1>4. Unread' = SubSeq(All, Len(All) + 1, Len(All))
  BY <1>1, <1>2, <1>3 DEF Unread
<1>5. Unread' = <<>>
  BY <1>2, <1>4, SubSeqEmpty
<1>6. position' \in 0..Len(All') + 1
  BY <1>1, <1>2
<1> QED
  BY <1>1, <1>5, <1>6 DEF FeedInv, Unread

\* Nobody takes back the end of the channel.
LEMMA ClosedStep ==
  ASSUME LanInv, NEW n \in Nodes,
         Start(n) \/ Shutdown(n) \/ ShutdownReturns(n) \/ Drop(n) \/ TaskEnds(n)
  PROVE  /\ Closed => Closed'
         /\ UNCHANGED <<published, streamVars>>
<1>1. UNCHANGED <<published, streamVars>>
  BY DEF Start, Shutdown, ShutdownReturns, Drop, TaskEnds
<1>2. CASE n # Subscriber
  BY <1>2, Positive DEF LanInv, LifeInv, Closed, Start, Shutdown, ShutdownReturns, Drop, TaskEnds
<1>3. CASE n = Subscriber
  <2>1. CASE TaskEnds(n)
    BY <1>3, <2>1 DEF Closed, TaskEnds
  <2>2. CASE Start(n) \/ Shutdown(n) \/ ShutdownReturns(n) \/ Drop(n)
    BY <1>3, <2>2 DEF Closed, Start, Shutdown, ShutdownReturns, Drop
  <2> QED
    BY <2>1, <2>2
<1> QED
  BY <1>1, <1>2, <1>3

LEMMA ReceiveStep ==
  ASSUME LanInv, FeedInv, NEW n \in Nodes, NEW d \in network, Receive(n, d)
  PROVE  /\ FeedInv' /\ UNCHANGED <<read, Closed, over>>
         /\ \/ Unread' = Unread
            \/ /\ ~Closed
               /\ \E ad \in Ads :
                    Unread' = Append(IF Len(Unread) < RingCapacity THEN Unread ELSE Tail(Unread), ad)
<1> DEFINE ad == [from |-> d.sender, text |-> d.text]
<1>1. /\ UNCHANGED <<nodeVars, streamVars>> /\ task[n] = "running"
      /\ published' = [published EXCEPT ![n] = published[n] \o SignalsIn(d, n)]
  BY DEF Receive
<1>2. UNCHANGED <<read, Closed, over>>
  BY <1>1 DEF streamVars, nodeVars, Closed
<1>3. /\ DOMAIN published = Nodes /\ All \in Seq(Ads)
      /\ position' = position /\ position \in Nat
  BY <1>1, Positive DEF LanInv, PublishedInv, All, StreamInv, streamVars
<1>4. CASE n = Subscriber /\ d.packet = "message" /\ d.recipient = n
  <2>1. ad \in Ads
    BY <1>4 DEF LanInv, NetworkInv, Ads
  <2>2. SignalsIn(d, n) = <<ad>>
    BY <1>4 DEF SignalsIn
  <2> HIDE DEF ad
  <2>3. All' = All \o <<ad>>
    BY <1>1, <1>3, <1>4, <2>2 DEF All
  <2>4. FeedInv'
    <3>1. <<ad>> \in Seq(Ads) /\ Len(<<ad>>) = 1
      BY <2>1
    <3>2. Len(All') = Len(All) + 1 /\ Len(All) \in Nat
      BY <1>3, <2>3, <3>1
    <3>3. position' \in 0..Len(All') + 1
      BY <1>3, <3>2 DEF FeedInv
    <3> QED
      BY <3>3 DEF FeedInv
  <2>5. ~Closed
    BY <1>1, <1>4 DEF Closed
  <2>6. CASE position = 0
    BY <1>2, <1>3, <2>4, <2>6 DEF Unread
  <2>7. CASE position # 0
    <3>1. Unread' = Append(IF Len(Unread) < RingCapacity THEN Unread ELSE Tail(Unread), ad)
      BY <1>3, <2>1, <2>3, <2>7, PublishStep
    <3> QED
      BY <1>2, <2>1, <2>4, <2>5, <3>1
  <2> QED
    BY <2>6, <2>7
<1>5. CASE ~(n = Subscriber /\ d.packet = "message" /\ d.recipient = n)
  <2>1. All' = All
    <3>1. CASE n # Subscriber
      BY <1>1, <1>3, <3>1 DEF All
    <3>2. CASE n = Subscriber
      <4>1. SignalsIn(d, n) = <<>>
        BY <1>5, <3>2 DEF SignalsIn
      <4>2. All \o <<>> = All
        BY <1>3
      <4> QED
        BY <1>1, <1>3, <3>2, <4>1, <4>2, Positive DEF All
    <3> QED
      BY <3>1, <3>2
  <2>2. FeedInv' /\ Unread' = Unread
    BY <1>3, <2>1, QuietStep
  <2> QED
    BY <1>2, <2>2
<1> QED
  BY <1>4, <1>5

LEMMA FeedStep ==
  ASSUME LanInv, FeedInv, [Next]_vars
  PROVE  /\ FeedInv'
         /\ \/ /\ ~Closed
               /\ \E ad \in Ads :
                    Unread' = Append(IF Len(Unread) < RingCapacity THEN Unread ELSE Tail(Unread), ad)
               /\ UNCHANGED <<read, Closed, over>>
            \/ /\ Unread # <<>> /\ Unread' = Tail(Unread) /\ read' = Append(read, Head(Unread))
               /\ UNCHANGED <<Closed, over>>
            \/ Closed' /\ UNCHANGED <<Unread, read, over>>
            \/ Closed /\ Unread = <<>> /\ over' = TRUE /\ UNCHANGED <<Unread, read, Closed>>
            \/ UNCHANGED <<Unread, read, Closed, over>>
<1> DEFINE Quiet == UNCHANGED <<published, position, read, Closed, over>>
<1>1. Quiet => FeedInv' /\ UNCHANGED <<Unread, read, Closed, over>>
  BY QuietStep DEF All
<1>2. CASE UNCHANGED vars
  BY <1>1, <1>2 DEF vars, nodeVars, streamVars, Closed
<1>3. ASSUME NEW n \in Nodes,
             Start(n) \/ Shutdown(n) \/ ShutdownReturns(n) \/ Drop(n) \/ TaskEnds(n)
      PROVE  /\ FeedInv'
             /\ \/ Closed' /\ UNCHANGED <<Unread, read, over>>
                \/ UNCHANGED <<Unread, read, Closed, over>>
  <2>1. UNCHANGED <<position, All, read, over>> /\ (Closed => Closed')
    BY <1>3, ClosedStep DEF All, streamVars
  <2>2. FeedInv' /\ Unread' = Unread
    BY <2>1, QuietStep
  <2>3. Closed \in BOOLEAN /\ Closed' \in BOOLEAN
    BY DEF Closed
  <2> QED
    BY <2>1, <2>2, <2>3
<1>4. ASSUME NEW n \in Nodes,
             \/ \E data \in Pongs \cup {NoPong} : SetPongData(n, data)
             \/ \E m \in Nodes, signal \in Signals : LookUp(n, m, signal)
             \/ SendSignal(n) \/ IntervalTick(n)
      PROVE  Quiet
  BY <1>4 DEF SetPongData, LookUp, SendSignal, IntervalTick, nodeVars, streamVars, Closed
<1>5. CASE TimePasses \/ \E d \in network : Lose(d)
  BY <1>1, <1>5 DEF TimePasses, Lose, nodeVars, streamVars, Closed
<1>6. CASE Subscribe
  BY <1>6, SubscribeStep DEF Subscribe, nodeVars, Closed
<1>7. CASE StreamNext
  BY <1>7, ReadStep DEF StreamNext, nodeVars, Closed
<1>8. CASE StreamEnds
  <2>1. UNCHANGED <<position, All, read, Closed>> /\ Closed /\ over' = TRUE
    BY <1>8 DEF StreamEnds, All, nodeVars, Closed
  <2>2. position > Len(All) /\ position # 0
    <3>1. Len(All) \in Nat
      BY Positive DEF LanInv, PublishedInv, All
    <3> QED
      BY <1>8, <3>1 DEF StreamEnds, All, FeedInv
  <2>3. Unread = <<>>
    <3>1. Place >= position
      BY <2>2, PlaceFacts, Positive DEF Place, Larger, Oldest, All, FeedInv
    <3>2. Place > Len(All) /\ Place \in Int /\ Len(All) \in Int
      BY <2>2, <3>1, PlaceFacts DEF FeedInv
    <3> QED
      BY <2>2, <3>2, PlaceFacts, SubSeqEmpty
  <2>4. FeedInv' /\ Unread' = Unread
    BY <2>1, QuietStep
  <2> QED
    BY <2>1, <2>3, <2>4
<1> HIDE DEF Quiet
<1>9. CASE Next
  BY <1>1, <1>3, <1>4, <1>5, <1>6, <1>7, <1>8, <1>9, ReceiveStep DEF Next, ReceiveAny
<1> QED
  BY <1>2, <1>9

(* lan.rs:403: for every capacity of the channel, a subscriber reads what is
   published since it subscribed, in order and each once, but for the oldest
   that a full ring has overwritten; and it sees the end only after the last. *)
THEOREM SubscriberSeesAFeed == Spec => FeedSpec
<1>1. Init => FeedInv /\ Feed!Init
  <2>1. SUFFICES ASSUME Init PROVE FeedInv /\ Feed!Init
    OBVIOUS
  <2>2. position = 0 /\ read = <<>> /\ over = FALSE /\ All = <<>> /\ Closed = FALSE
    BY <2>1, Positive DEF Init, All, Closed
  <2>3. Len(All) = 0
    BY <2>2
  <2> QED
    BY <2>2, <2>3 DEF FeedInv, Feed!Init
<1>2. LanInv /\ FeedInv /\ [Next]_vars
      => FeedInv' /\ [Feed!Publish \/ Feed!Read \/ Feed!Close \/ Feed!End]_(Feed!feedVars)
  <2> SUFFICES ASSUME LanInv, FeedInv, [Next]_vars
               PROVE  /\ FeedInv'
                      /\ [Feed!Publish \/ Feed!Read \/ Feed!Close \/ Feed!End]_(Feed!feedVars)
    OBVIOUS
  <2>1. Closed \in BOOLEAN /\ Closed' \in BOOLEAN
    BY DEF Closed
  <2>4. ASSUME ~Closed, UNCHANGED <<read, Closed, over>>, NEW ad \in Ads,
               Unread' = Append(IF Len(Unread) < RingCapacity THEN Unread ELSE Tail(Unread), ad)
        PROVE  Feed!Publish
    BY <2>1, <2>4 DEF Feed!Publish, Unread, Place, All, Ads
  <2>5. ASSUME Unread # <<>>, Unread' = Tail(Unread), read' = Append(read, Head(Unread)),
               UNCHANGED <<Closed, over>>
        PROVE  Feed!Read
    BY <2>5 DEF Feed!Read, Unread, Place, All
  <2>6. ASSUME Closed', UNCHANGED <<Unread, read, over>>
        PROVE  Feed!Close
    BY <2>1, <2>6 DEF Feed!Close, Unread, Place, All
  <2>7. ASSUME Closed, Unread = <<>>, over' = TRUE, UNCHANGED <<Unread, read, Closed>>
        PROVE  Feed!End
    BY <2>7 DEF Feed!End, Unread, Place, All
  <2>8. ASSUME UNCHANGED <<Unread, read, Closed, over>>
        PROVE  UNCHANGED Feed!feedVars
    BY <2>8 DEF Feed!feedVars, Unread, Place, All
  <2> QED
    BY FeedStep, <2>4, <2>5, <2>6, <2>7, <2>8
<1> QED
  BY <1>1, <1>2, LanInvariant, PTL DEF Spec, FeedSpec, Feed!Spec
=============================================================================
