--------------------------- MODULE ListenerProofs ---------------------------
(***************************************************************************)
(* For any number of connections, offers and candidates: the types of the  *)
(* listener; the soundness and completeness of the readiness check; that   *)
(* each answered session is queued for accept once; and, when no           *)
(* connection_id is used twice, that each connection keeps its own entries *)
(* of the two maps and is woken by its own candidate.                      *)
(***************************************************************************)
EXTENDS Listener, TLAPS

-----------------------------------------------------------------------------
(* Types *)

LEMMA InitType == Init => TypeOK
<1> SUFFICES ASSUME Init PROVE TypeOK
  OBVIOUS
<1> USE DEF Init
<1>1. LoopTypeOK
  BY ListenerAssumption DEF LoopTypeOK, Known, Stages
<1>2. MapTypeOK
  BY ListenerAssumption DEF MapTypeOK
<1>3. TaskTypeOK /\ PeerTypeOK /\ WaitTypeOK /\ AcceptTypeOK
  <2>1. TaskTypeOK
    <3>1. dispatched = 0 /\ 0 \in 0..0
      OBVIOUS
    <3>2. inbox \in [Offers -> 0..dispatched]
      BY <3>1
    <3> QED
      BY <3>2 DEF TaskTypeOK, Tasks
  <2>2. PeerTypeOK /\ WaitTypeOK
    BY DEF PeerTypeOK, WaitTypeOK
  <2>3. AcceptTypeOK
    <3>1. incoming = <<>> /\ accepted = 0 /\ dropped = FALSE
      OBVIOUS
    <3>2. <<>> \in Seq(Offers) /\ Len(<<>>) = 0 /\ 0 \in 0..0
      OBVIOUS
    <3> QED
      BY <3>1, <3>2 DEF AcceptTypeOK
  <2> QED
    BY <2>1, <2>2, <2>3
<1>4. ChannelTypeOK
  BY DEF ChannelTypeOK, Callbacks
<1> QED
  BY <1>1, <1>2, <1>3, <1>4 DEF TypeOK

(* A group of variables keeps its types when it and the loop stand still. *)
LEMMA GroupStable ==
  ASSUME TypeOK, UNCHANGED loopVars
  PROVE  /\ LoopTypeOK'
         /\ UNCHANGED maps => MapTypeOK'
         /\ UNCHANGED taskVars => TaskTypeOK'
         /\ UNCHANGED peer => PeerTypeOK'
         /\ UNCHANGED channelVars => ChannelTypeOK'
         /\ UNCHANGED waitVars => WaitTypeOK'
         /\ UNCHANGED acceptVars => AcceptTypeOK'
BY SMTT(30) DEF TypeOK, LoopTypeOK, MapTypeOK, TaskTypeOK, PeerTypeOK, ChannelTypeOK, WaitTypeOK,
       AcceptTypeOK, loopVars, maps, taskVars, channelVars, waitVars, acceptVars, Known

(* handle_offer begins. *)
LEMMA TakeOfferType ==
  ASSUME TypeOK, NEW c \in Connections, TakeOffer(c)
  PROVE  TypeOK'
<1> DEFINE i == Len(conn) + 1
<1>1. Len(conn) \in Nat /\ i \in Offers /\ i \notin Known /\ conn' = Append(conn, c)
  BY DEF TypeOK, LoopTypeOK, TakeOffer, Known
<1>2. /\ conn' \in Seq(Connections) /\ Len(conn') = i /\ Known' = Known \cup {i} /\ i <= MaxOffers
      /\ conn'[i] = c /\ \A k \in Known : conn'[k] = conn[k]
  BY <1>1 DEF TypeOK, LoopTypeOK, Known, Offers
<1>3. stage' = [stage EXCEPT ![i] = "notifier"] /\ stage[i] = "none"
  BY <1>1 DEF TypeOK, LoopTypeOK, TakeOffer
<1>4. LoopTypeOK'
  BY <1>1, <1>2, <1>3 DEF TypeOK, LoopTypeOK, TakeOffer, Stages
<1>5. MapTypeOK'
  <2>1. notifier' = [notifier EXCEPT ![c] = i] /\ dispatcher' = dispatcher
    BY DEF TakeOffer
  <2>2. i \in 0..MaxOffers
    BY <1>1 DEF Offers
  <2> HIDE DEF i
  <2> QED
    BY <1>1, <1>2, <2>1, <2>2 DEF TypeOK, MapTypeOK
<1>6. TaskTypeOK' /\ PeerTypeOK' /\ ChannelTypeOK' /\ AcceptTypeOK'
  BY <1>1, <1>3 DEF TypeOK, TaskTypeOK, PeerTypeOK, ChannelTypeOK, AcceptTypeOK, TakeOffer, taskVars, channelVars,
            acceptVars
<1>7. WaitTypeOK'
  BY <1>1, <1>3 DEF TypeOK, WaitTypeOK, TakeOffer, DropNotifier
<1> QED
  BY <1>4, <1>5, <1>6, <1>7 DEF TypeOK

(* handle_offer goes on or fails. *)
LEMMA OfferType ==
  ASSUME TypeOK, NEW i \in Offers, HandleOffer(i)
  PROVE  TypeOK'
<1>1. PICK from \in Stages \ {"none", "done", "failed"}, to \in Stages \ {"none"} : Proceed(i, from, to)
  BY DEF HandleOffer, InsertDispatcher, SetRemoteDescription, SignalAnswer, RegisterHandlers,
         OfferFails, Stages
<1>2. /\ conn' = conn /\ Known' = Known /\ dispatched' = dispatched /\ i \in Known
      /\ stage' = [stage EXCEPT ![i] = to] /\ stage[i] = from
  BY <1>1 DEF Proceed, Handling, Known
<1>3. LoopTypeOK'
  BY <1>1, <1>2 DEF TypeOK, LoopTypeOK, Proceed
<1>4. ChannelTypeOK' /\ AcceptTypeOK'
  BY DEF HandleOffer, InsertDispatcher, SetRemoteDescription, SignalAnswer, RegisterHandlers,
         OfferFails, TypeOK, ChannelTypeOK, AcceptTypeOK, channelVars, acceptVars
<1>5. CASE InsertDispatcher(i)
  <2>1. conn[i] \in Connections /\ i \in 0..MaxOffers
    BY <1>2, ListenerAssumption DEF TypeOK, LoopTypeOK, Known, Offers
  <2>2. MapTypeOK'
    BY <1>2, <1>5, <2>1 DEF TypeOK, MapTypeOK, InsertDispatcher
  <2>3. stage[i] = "notifier" /\ stage' = [stage EXCEPT ![i] = "dispatcher"]
    BY <1>5 DEF InsertDispatcher, Proceed
  <2>4. TaskTypeOK' /\ PeerTypeOK' /\ WaitTypeOK'
    BY <1>2, <1>5, <2>3 DEF TypeOK, TaskTypeOK, PeerTypeOK, WaitTypeOK, InsertDispatcher, waitVars, Tasks,
       LoopTypeOK, Stages
  <2> QED
    BY <1>3, <1>4, <2>2, <2>4 DEF TypeOK
<1>6. CASE SetRemoteDescription(i) \/ SignalAnswer(i) \/ OfferFails(i)
  <2>1. /\ from \in {"dispatcher", "remote"} /\ to \in {"remote", "answered", "failed"}
        /\ UNCHANGED <<maps, taskVars, peer, waitVars>>
    <3>1. CASE SetRemoteDescription(i)
      BY <1>1, <1>2, <3>1 DEF SetRemoteDescription, Proceed, TypeOK, LoopTypeOK
    <3>2. CASE SignalAnswer(i)
      BY <1>1, <1>2, <3>2 DEF SignalAnswer, Proceed, TypeOK, LoopTypeOK
    <3>3. CASE OfferFails(i)
      BY <1>1, <1>2, <3>3 DEF OfferFails, Proceed, TypeOK, LoopTypeOK
    <3> QED
      BY <1>6, <3>1, <3>2, <3>3
  <2>2. MapTypeOK'
    BY <1>2, <2>1 DEF TypeOK, MapTypeOK, maps
  <2>3. TaskTypeOK'
    BY <1>2, <2>1 DEF TypeOK, TaskTypeOK, taskVars, LoopTypeOK
  <2>4. PeerTypeOK' /\ WaitTypeOK'
    BY <1>2, <2>1 DEF TypeOK, PeerTypeOK, WaitTypeOK, waitVars, LoopTypeOK
  <2> QED
    BY <1>3, <1>4, <2>2, <2>3, <2>4 DEF TypeOK
<1>7. CASE RegisterHandlers(i)
  <2>1. stage[i] = "answered" /\ stage' = [stage EXCEPT ![i] = "done"]
    BY <1>7 DEF RegisterHandlers, Proceed
  <2>2. MapTypeOK'
    BY <1>2, <1>7 DEF TypeOK, MapTypeOK, maps, RegisterHandlers
  <2>3. TaskTypeOK'
    BY <1>2, <1>7, <2>1 DEF TypeOK, TaskTypeOK, taskVars, RegisterHandlers, LoopTypeOK
  <2>4. PeerTypeOK' /\ WaitTypeOK'
    BY <1>2, <1>7, <2>1 DEF TypeOK, PeerTypeOK, WaitTypeOK, RegisterHandlers, LoopTypeOK
  <2> QED
    BY <1>3, <1>4, <2>2, <2>3, <2>4 DEF TypeOK
<1> QED
  BY <1>5, <1>6, <1>7 DEF HandleOffer

(* A candidate is dispatched, or the loop ends. *)
LEMMA LoopType ==
  ASSUME TypeOK, (\E c \in Connections : Dispatch(c)) \/ SignalsEnd \/ Cancelled
  PROVE  TypeOK'
<1>1. ASSUME NEW c \in Connections, Dispatch(c) PROVE TypeOK'
  <2> DEFINE i == dispatcher[c]
  <2>1. i \in Offers /\ dispatched \in Nat /\ dispatched < MaxCandidates /\ dispatched' = dispatched + 1
    BY <1>1, ListenerAssumption DEF Dispatch, TypeOK, LoopTypeOK, MapTypeOK, Offers
  <2>2. LoopTypeOK'
    BY <1>1, <2>1, ListenerAssumption DEF Dispatch, TypeOK, LoopTypeOK, Known
  <2>3. TaskTypeOK'
    <3>1. inbox' = [inbox EXCEPT ![i] = @ + 1] /\ UNCHANGED <<task, added, stage>>
      BY <1>1 DEF Dispatch
    <3> HIDE DEF i
    <3>2. inbox' \in [Offers -> 0..dispatched']
      BY <2>1, <3>1 DEF TypeOK, TaskTypeOK
    <3> QED
      BY <3>1, <3>2 DEF TypeOK, TaskTypeOK
  <2>4. MapTypeOK'
    BY <1>1 DEF Dispatch, TypeOK, MapTypeOK, maps, Known
  <2>5. PeerTypeOK' /\ ChannelTypeOK' /\ WaitTypeOK' /\ AcceptTypeOK'
    BY <1>1 DEF Dispatch, TypeOK, PeerTypeOK, ChannelTypeOK, WaitTypeOK, AcceptTypeOK, channelVars,
                waitVars, acceptVars
  <2> QED
    BY <2>2, <2>3, <2>4, <2>5 DEF TypeOK
<1>2. CASE EndLoop
  <2>1. LoopTypeOK'
    BY <1>2 DEF EndLoop, TypeOK, LoopTypeOK, Known
  <2>2. MapTypeOK' /\ TaskTypeOK'
    BY <1>2 DEF EndLoop, TypeOK, MapTypeOK, TaskTypeOK, maps, taskVars, Known
  <2>3. PeerTypeOK' /\ ChannelTypeOK'
    BY <1>2 DEF EndLoop, TypeOK, PeerTypeOK, ChannelTypeOK, channelVars
  <2>4. WaitTypeOK' /\ AcceptTypeOK'
    BY <1>2 DEF EndLoop, TypeOK, WaitTypeOK, AcceptTypeOK, waitVars, acceptVars
  <2> QED
    BY <2>1, <2>2, <2>3, <2>4 DEF TypeOK
<1> QED
  BY <1>1, <1>2 DEF SignalsEnd, Cancelled

(* The task of a connection. *)
LEMMA TaskType ==
  ASSUME TypeOK, NEW i \in Offers, TaskStep(i)
  PROVE  TypeOK'
<1>1. UNCHANGED <<loopVars, peer, channelVars, acceptVars>> /\ waiter' = waiter
  BY DEF TaskStep, TaskReceives, TaskAdds, TaskSkips, TaskNotifies, TaskEnds, TaskCleansUp, waitVars
<1>2. LoopTypeOK' /\ PeerTypeOK' /\ ChannelTypeOK' /\ AcceptTypeOK'
  BY <1>1, GroupStable
<1>3. conn' = conn /\ stage' = stage /\ dispatched' = dispatched /\ dispatched \in Nat
  BY <1>1 DEF loopVars, TypeOK, LoopTypeOK
<1>4. PICK from \in Tasks \ {"none"}, to \in Tasks \ {"none"} : TaskAt(i, from, to)
  BY DEF TaskStep, TaskReceives, TaskAdds, TaskSkips, TaskNotifies, TaskEnds, TaskCleansUp, Tasks
<1>5. task[i] = from /\ task' = [task EXCEPT ![i] = to]
  BY <1>4 DEF TaskAt
<1>6. added' \in [Offers -> BOOLEAN]
  BY DEF TaskStep, TaskReceives, TaskAdds, TaskSkips, TaskNotifies, TaskEnds, TaskCleansUp, TypeOK,
         TaskTypeOK
<1>7. inbox' \in [Offers -> 0..dispatched]
  <2>1. CASE TaskReceives(i)
    BY <1>3, <2>1 DEF TaskReceives, TypeOK, TaskTypeOK
  <2>2. CASE ~TaskReceives(i)
    BY <2>2 DEF TaskStep, TaskAdds, TaskSkips, TaskNotifies, TaskEnds, TaskCleansUp, TypeOK, TaskTypeOK
  <2> QED
    BY <2>1, <2>2
<1>8. TaskTypeOK'
  BY <1>3, <1>5, <1>6, <1>7 DEF TypeOK, TaskTypeOK
<1>9. MapTypeOK'
  <2>1. \A c \in Connections : /\ dispatcher'[c] \in {0, dispatcher[c]}
                               /\ notifier'[c] \in {0, notifier[c]}
    BY DEF TaskStep, TaskReceives, TaskAdds, TaskSkips, TaskNotifies, TaskEnds, TaskCleansUp, Notify,
           maps, TypeOK, MapTypeOK
  <2>2. 0 \in 0..MaxOffers
    BY ListenerAssumption
  <2>3. dispatcher' \in [Connections -> 0..MaxOffers] /\ notifier' \in [Connections -> 0..MaxOffers]
    BY <2>2 DEF TaskStep, TaskReceives, TaskAdds, TaskSkips, TaskNotifies, TaskEnds, TaskCleansUp,
                Notify, maps, TypeOK, MapTypeOK
  <2>4. ASSUME NEW c \in Connections, NEW k \in {dispatcher'[c], notifier'[c]} \ {0}
        PROVE  k \in Known' /\ conn'[k] = c
    <3>1. k \in {dispatcher[c], notifier[c]} \ {0}
      BY <2>1, <2>4
    <3> QED
      BY <1>3, <3>1 DEF TypeOK, MapTypeOK, Known
  <2> QED
    BY <2>3, <2>4 DEF MapTypeOK
<1>10. WaitTypeOK'
  <2>1. candidateRx' \in [Offers -> {"pending", "sent", "dropped"}]
    BY DEF TaskStep, TaskReceives, TaskAdds, TaskSkips, TaskNotifies, TaskEnds, TaskCleansUp, Notify,
           DropNotifier, waitVars, TypeOK, WaitTypeOK
  <2> QED
    BY <1>1, <1>3, <2>1 DEF TypeOK, WaitTypeOK
<1> QED
  BY <1>2, <1>8, <1>9, <1>10 DEF TypeOK

(* The library's events and the callbacks. *)
LEMMA PeerType ==
  ASSUME TypeOK, NEW i \in Offers, PeerGone(i) \/ StateHandler(i)
  PROVE  TypeOK'
<1>1. UNCHANGED <<loopVars, taskVars, channelVars, waitVars, acceptVars>>
  BY DEF PeerGone, StateHandler
<1>2. PeerTypeOK'
  BY <1>1 DEF PeerGone, StateHandler, TypeOK, PeerTypeOK, loopVars
<1>3. MapTypeOK'
  <2>1. CASE PeerGone(i)
    BY <1>1, <2>1, GroupStable DEF PeerGone
  <2>2. CASE StateHandler(i)
    <3>1. conn[i] \in Connections
      BY <2>2 DEF StateHandler, TypeOK, PeerTypeOK, LoopTypeOK, Known
    <3> QED
      BY <1>1, <2>2, <3>1, ListenerAssumption DEF StateHandler, TypeOK, MapTypeOK, loopVars, Known
  <2> QED
    BY <2>1, <2>2
<1> QED
  BY <1>1, <1>2, <1>3, GroupStable DEF TypeOK

LEMMA ChannelType ==
  ASSUME TypeOK, NEW i \in Offers, NEW label \in BothChannels,
         OpenChannel(i, label) \/ ChannelStep(i, label)
  PROVE  TypeOK'
<1>1. UNCHANGED <<loopVars, maps, taskVars, peer, waitVars, acceptVars>>
  BY DEF OpenChannel, ChannelStep, SetChannel, CheckReliable, CheckUnreliable, CallbackAt
<1>2. PICK to \in Callbacks : callback' = [callback EXCEPT ![i][label] = to]
  BY DEF OpenChannel, ChannelStep, SetChannel, CheckReliable, CheckUnreliable, CallbackAt, Callbacks
<1>3. callback' \in [Offers -> [BothChannels -> Callbacks]]
  BY <1>2 DEF TypeOK, ChannelTypeOK
<1>4. channels' \in [Offers -> SUBSET BothChannels]
  <2>1. channels \in [Offers -> SUBSET BothChannels]
    BY DEF TypeOK, ChannelTypeOK
  <2>2. channels' = channels \/ channels' = [channels EXCEPT ![i] = @ \cup {label}]
    BY DEF OpenChannel, ChannelStep, SetChannel, CheckReliable, CheckUnreliable
  <2> QED
    BY <2>1, <2>2
<1>5. ready' \in [Offers -> BOOLEAN]
  BY Zenon DEF OpenChannel, ChannelStep, SetChannel, CheckReliable, CheckUnreliable, TypeOK, ChannelTypeOK
<1> QED
  BY <1>1, <1>3, <1>4, <1>5, GroupStable DEF TypeOK, ChannelTypeOK

(* The waiter and the application. *)
LEMMA AcceptType ==
  ASSUME TypeOK, (\E i \in Offers : WaiterStep(i)) \/ Accept \/ DropListener
  PROVE  TypeOK'
<1>1. UNCHANGED <<loopVars, maps, taskVars, peer, channelVars>>
  BY DEF WaiterStep, CandidateSeen, CandidateTimeout, WaitEnds, WaiterAt, Accept, DropListener
<1>2. ASSUME NEW i \in Offers, WaiterStep(i) PROVE WaitTypeOK' /\ AcceptTypeOK'
  <2>1. PICK to \in {"ready", "done"}, from \in {"candidate", "ready"} :
             /\ waiter[i] = from /\ waiter' = [waiter EXCEPT ![i] = to]
             /\ candidateRx' = candidateRx /\ accepted' = accepted /\ dropped' = dropped
    BY <1>2 DEF WaiterStep, CandidateSeen, CandidateTimeout, WaitEnds, WaiterAt
  <2>2. WaitTypeOK'
    BY <1>1, <2>1 DEF TypeOK, WaitTypeOK, loopVars
  <2>3. incoming' = incoming \/ incoming' = Append(incoming, i)
    BY <1>2 DEF WaiterStep, CandidateSeen, CandidateTimeout, WaitEnds, Push
  <2>4. AcceptTypeOK'
    BY <2>1, <2>3 DEF TypeOK, AcceptTypeOK
  <2> QED
    BY <2>2, <2>4
<1>3. CASE Accept \/ DropListener
  <2>1. waitVars' = waitVars
    BY <1>3 DEF Accept, DropListener
  <2>2. AcceptTypeOK'
    <3>1. CASE Accept
      BY <3>1 DEF Accept, TypeOK, AcceptTypeOK
    <3>2. CASE DropListener
      BY <3>2 DEF DropListener, TypeOK, AcceptTypeOK
    <3> QED
      BY <1>3, <3>1, <3>2
  <2> QED
    BY <1>1, <2>1, <2>2, GroupStable DEF TypeOK
<1> QED
  BY <1>1, <1>2, <1>3, GroupStable DEF TypeOK

(* The maps hold offers of their keys, and tasks, waiters and callbacks are
   where the progress of handle_offer lets them be. *)
THEOREM TypeCorrect == Spec => []TypeOK
<1>1. TypeOK /\ [Next]_vars => TypeOK'
  <2> SUFFICES ASSUME TypeOK, [Next]_vars PROVE TypeOK'
    OBVIOUS
  <2>1. CASE UNCHANGED vars
    BY <2>1, GroupStable DEF vars, TypeOK
  <2>2. CASE Next
    BY <2>2, TakeOfferType, OfferType, LoopType, TaskType, PeerType, ChannelType, AcceptType DEF Next
  <2> QED
    BY <2>1, <2>2
<1> QED
  BY <1>1, InitType, PTL DEF Spec
-----------------------------------------------------------------------------
(* The readiness check *)

(* What is_fully_connected must be able to rely on: a callback asks after it
   has set its channel, and goes on to the second question only when the
   reliable channel is there. *)
AskInv ==
  \A i \in Offers, label \in BothChannels :
    /\ label \in channels[i] <=> callback[i][label] \in {"first check", "second check", "done"}
    /\ callback[i][label] = "second check" => "reliable" \in channels[i]

ReadyInv == AskInv /\ ReadyMeansConnected

(* The last callback to end has found both channels. *)
LEMMA LastAsks ==
  ASSUME TypeOK, AskInv, NEW i \in Offers, NEW label \in BothChannels,
         callback[i][label] = "first check", "reliable" \notin channels[i]
  PROVE  \E l \in BothChannels \ {label} : callback[i][l] # "done"
<1>1. label \in channels[i]
  BY DEF AskInv
<1>2. label # "reliable" /\ "reliable" \in BothChannels
  BY <1>1 DEF BothChannels
<1>3. callback[i]["reliable"] # "done"
  BY <1>2 DEF AskInv
<1> QED
  BY <1>2, <1>3

(* One step of one callback. *)
LEMMA ChannelReady ==
  ASSUME TypeOK, ReadyInv, NEW i \in Offers, NEW label \in BothChannels,
         OpenChannel(i, label) \/ ChannelStep(i, label)
  PROVE  ReadyInv'
<1>1. /\ callback \in [Offers -> [BothChannels -> Callbacks]]
      /\ channels \in [Offers -> SUBSET BothChannels] /\ ready \in [Offers -> BOOLEAN]
  BY DEF TypeOK, ChannelTypeOK
<1>2. AskInv /\ ReadyMeansConnected
  BY DEF ReadyInv
<1>3. PICK from, to \in Callbacks :
        /\ callback[i][label] = from /\ callback' = [callback EXCEPT ![i][label] = to]
        /\ OpenChannel(i, label) \/ SetChannel(i, label) => to # "done"
        /\ CheckReliable(i, label) => /\ from = "first check"
                                      /\ to = IF "reliable" \in channels[i] THEN "second check" ELSE "done"
        /\ CheckUnreliable(i, label) => from = "second check" /\ to = "done"
  BY DEF OpenChannel, ChannelStep, SetChannel, CheckReliable, CheckUnreliable, CallbackAt, Callbacks
<1>4. /\ \A l \in BothChannels : callback'[i][l] = IF l = label THEN to ELSE callback[i][l]
      /\ \A k \in Offers \ {i} : callback'[k] = callback[k]
  BY <1>1, <1>3
<1>5. to # "done" => ~ \A l \in BothChannels : callback'[i][l] = "done"
  <2>1. callback'[i][label] = to
    BY <1>4
  <2> QED
    BY <2>1
<1>6. AskInv'
  <2>1. CASE SetChannel(i, label)
    <3>1. /\ callback[i][label] = "setting" /\ to = "first check"
          /\ channels' = [channels EXCEPT ![i] = @ \cup {label}]
      BY <1>1, <1>4, <2>1 DEF SetChannel, CallbackAt
    <3>2. /\ \A l \in BothChannels : l \in channels'[i] <=> l \in channels[i] \/ l = label
          /\ \A k \in Offers \ {i} : channels'[k] = channels[k]
      BY <1>1, <3>1
    <3>3. "reliable" \in BothChannels
      BY DEF BothChannels
    <3>4. ASSUME NEW k \in Offers, NEW l \in BothChannels
          PROVE  /\ l \in channels'[k] <=> callback'[k][l] \in {"first check", "second check", "done"}
                 /\ callback'[k][l] = "second check" => "reliable" \in channels'[k]
      <4>1. /\ l \in channels[k] <=> callback[k][l] \in {"first check", "second check", "done"}
            /\ callback[k][l] = "second check" => "reliable" \in channels[k]
        BY <1>2 DEF AskInv
      <4>2. CASE k # i
        BY <1>4, <3>2, <4>1, <4>2
      <4>3. CASE k = i /\ l # label
        BY <1>4, <3>2, <3>3, <4>1, <4>3
      <4>4. CASE k = i /\ l = label
        BY <1>4, <3>1, <3>2, <4>4
      <4> QED
        BY <4>2, <4>3, <4>4
    <3> QED
      BY <3>4 DEF AskInv
  <2>2. CASE OpenChannel(i, label)
    BY <1>1, <1>2, <2>2 DEF OpenChannel, CallbackAt, AskInv
  <2>3. CASE CheckReliable(i, label)
    BY <1>1, <1>2, <2>3 DEF CheckReliable, CallbackAt, AskInv
  <2>4. CASE CheckUnreliable(i, label)
    BY <1>1, <1>2, <2>4 DEF CheckUnreliable, CallbackAt, AskInv
  <2> QED
    BY <2>1, <2>2, <2>3, <2>4 DEF ChannelStep
<1>7. ReadyMeansConnected'
  <2>1. CASE OpenChannel(i, label) \/ SetChannel(i, label)
    <3>1. ready' = ready /\ \A k \in Offers : channels[k] \subseteq channels'[k]
      BY <1>1, <2>1 DEF OpenChannel, SetChannel
    <3>2. channels'[i] \in SUBSET BothChannels /\ \A k \in Offers \ {i} : channels'[k] = channels[k]
      BY <1>1, <2>1 DEF OpenChannel, SetChannel
    <3>3. ~ \A l \in BothChannels : callback'[i][l] = "done"
      BY <1>3, <1>5, <2>1
    <3> QED
      BY <1>2, <1>4, <3>1, <3>2, <3>3, Zenon DEF ReadyMeansConnected
  <2>2. CASE CheckReliable(i, label)
    <3>1. ready' = ready /\ channels' = channels
      BY <2>2 DEF CheckReliable
    <3>2. ~ \A l \in BothChannels : callback'[i][l] = "done"
      <4>1. CASE "reliable" \in channels[i]
        BY <1>3, <1>5, <2>2, <4>1
      <4>2. CASE "reliable" \notin channels[i]
        <5>1. PICK l \in BothChannels \ {label} : callback[i][l] # "done"
          BY <1>2, <1>3, <2>2, <4>2, LastAsks
        <5>2. callback'[i][l] = callback[i][l]
          BY <1>4, <5>1
        <5> QED
          BY <5>1, <5>2
      <4> QED
        BY <4>1, <4>2
    <3> QED
      BY <1>2, <1>4, <3>1, <3>2, Zenon DEF ReadyMeansConnected
  <2>3. CASE CheckUnreliable(i, label)
    <3>1. channels' = channels /\ ready' = [ready EXCEPT ![i] = ready[i] \/ "unreliable" \in channels[i]]
      BY <2>3 DEF CheckUnreliable
    <3>2. ready'[i] <=> ready[i] \/ "unreliable" \in channels[i]
      BY <1>1, <3>1, Zenon
    <3>3. \A k \in Offers \ {i} : ready'[k] = ready[k]
      BY <1>1, <3>1, Zenon
    <3>4. "reliable" \in channels[i] /\ label \in channels[i]
      BY <1>2, <1>3, <2>3 DEF AskInv
    <3>5. "unreliable" \in channels[i] => channels[i] = BothChannels
      BY <1>1, <3>4 DEF BothChannels
    <3>6. (\A l \in BothChannels : callback'[i][l] = "done") => "unreliable" \in channels[i]
      <4>1. CASE label = "unreliable"
        BY <3>4, <4>1
      <4>2. CASE label # "unreliable"
        BY <1>2, <1>4, <4>2 DEF AskInv, BothChannels
      <4> QED
        BY <4>1, <4>2
    <3> QED
      BY <1>2, <1>4, <3>1, <3>2, <3>3, <3>5, <3>6, ZenonT(30) DEF ReadyMeansConnected
  <2> QED
    BY <2>1, <2>2, <2>3 DEF ChannelStep
<1> QED
  BY <1>6, <1>7 DEF ReadyInv

(* The two callbacks of a session, in any interleaving: readiness is never
   reported too early, and never missed by both. *)
THEOREM ReadyCorrect == Spec => []ReadyMeansConnected
<1>1. Init => ReadyInv
  BY DEF Init, ReadyInv, AskInv, ReadyMeansConnected, BothChannels
<1>2. TypeOK /\ ReadyInv /\ [Next]_vars => ReadyInv'
  <2> SUFFICES ASSUME TypeOK, ReadyInv, [Next]_vars PROVE ReadyInv'
    OBVIOUS
  <2>1. CASE \E i \in Offers, label \in BothChannels : OpenChannel(i, label) \/ ChannelStep(i, label)
    BY <2>1, ChannelReady
  <2>2. CASE UNCHANGED channelVars
    BY <2>2 DEF channelVars, ReadyInv, AskInv, ReadyMeansConnected
  <2>3. CASE \E i \in Offers : HandleOffer(i) \/ TaskStep(i) \/ WaiterStep(i) \/ PeerGone(i) \/ StateHandler(i)
    BY <2>2, <2>3 DEF HandleOffer, InsertDispatcher, SetRemoteDescription, SignalAnswer, RegisterHandlers,
       OfferFails, TaskStep, TaskReceives, TaskAdds, TaskSkips, TaskNotifies, TaskEnds, TaskCleansUp,
       WaiterStep, CandidateSeen, CandidateTimeout, WaitEnds, WaiterAt, PeerGone, StateHandler
  <2>4. CASE \/ \E c \in Connections : TakeOffer(c) \/ Dispatch(c)
             \/ SignalsEnd \/ Cancelled \/ Accept \/ DropListener
    BY <2>2, <2>4 DEF TakeOffer, Dispatch, SignalsEnd, Cancelled, EndLoop, Accept, DropListener
  <2> QED
    BY <2>1, <2>2, <2>3, <2>4 DEF Next, vars
<1>3. ReadyInv => ReadyMeansConnected
  BY DEF ReadyInv
<1> QED
  BY <1>1, <1>2, <1>3, TypeCorrect, PTL DEF Spec
-----------------------------------------------------------------------------
(* Candidates after the remote description *)

(* The task has candidates only for offers whose handling has ended. *)
AddInv ==
  \A i \in Offers : (inbox[i] > 0 \/ task[i] = "adding") => stage[i] \in {"done", "failed"}

NoFailure == \A i \in Offers : stage[i] # "failed"

(* If no step of handle_offer fails, a candidate is added to a peer connection
   only after its remote description was set, although the task runs beside
   handle_offer from the dispatcher on. *)
THEOREM AddableCorrect ==
  ASSUME ~OffersMayFail
  PROVE  Spec => []CandidatesAreAddable
<1>1. Init => AddInv /\ NoFailure
  BY DEF Init, AddInv, NoFailure
<1>2. TypeOK /\ AddInv /\ NoFailure /\ [Next]_vars => AddInv' /\ NoFailure'
  <2> SUFFICES ASSUME TypeOK, AddInv, NoFailure, [Next]_vars PROVE AddInv' /\ NoFailure'
    OBVIOUS
  <2> USE DEF TypeOK, LoopTypeOK, TaskTypeOK, AddInv, NoFailure
  <2>1. CASE UNCHANGED <<stage, inbox, task>>
    BY <2>1
  <2>2. ASSUME NEW c \in Connections, TakeOffer(c) PROVE AddInv' /\ NoFailure'
    <3> DEFINE i == Len(conn) + 1
    <3>1. i \in Offers /\ stage[i] = "none"
      BY <2>2 DEF TakeOffer, Known
    <3>2. stage' = [stage EXCEPT ![i] = "notifier"] /\ inbox' = inbox /\ task' = task
      BY <2>2 DEF TakeOffer, taskVars
    <3> HIDE DEF i
    <3> QED
      BY <3>1, <3>2
  <2>3. ASSUME NEW c \in Connections, Dispatch(c) PROVE AddInv' /\ NoFailure'
    <3>1. dispatcher[c] \in Known /\ dispatcher[c] \in Offers
      BY <2>3, ListenerAssumption DEF Dispatch, MapTypeOK, Known, Offers
    <3>2. stage[dispatcher[c]] \in {"done", "failed"}
      BY <2>3, <3>1 DEF Dispatch, InLoop, Handling
    <3> QED
      BY <2>3, <3>1, <3>2 DEF Dispatch
  <2>4. ASSUME NEW i \in Offers, HandleOffer(i) PROVE AddInv' /\ NoFailure'
    BY <2>4 DEF HandleOffer, InsertDispatcher, SetRemoteDescription, SignalAnswer, RegisterHandlers, OfferFails,
       Proceed, Handling, taskVars
  <2>5. ASSUME NEW i \in Offers, TaskStep(i) PROVE AddInv' /\ NoFailure'
    BY <2>5 DEF TaskStep, TaskReceives, TaskAdds, TaskSkips, TaskNotifies, TaskEnds, TaskCleansUp, TaskAt, loopVars
  <2>6. CASE \E i \in Offers : \/ WaiterStep(i) \/ PeerGone(i) \/ StateHandler(i)
                              \/ \E label \in BothChannels : OpenChannel(i, label) \/ ChannelStep(i, label)
    BY <2>1, <2>6 DEF WaiterStep, CandidateSeen, CandidateTimeout, WaitEnds, WaiterAt, PeerGone, StateHandler,
       OpenChannel, ChannelStep, SetChannel, CheckReliable, CheckUnreliable, CallbackAt, taskVars, loopVars
  <2>7. CASE SignalsEnd \/ Cancelled \/ Accept \/ DropListener
    BY <2>1, <2>7 DEF SignalsEnd, Cancelled, EndLoop, Accept, DropListener, taskVars, loopVars
  <2> QED
    BY <2>1, <2>2, <2>3, <2>4, <2>5, <2>6, <2>7 DEF Next, vars, taskVars, loopVars
<1>3. AddInv /\ NoFailure => CandidatesAreAddable
  BY DEF AddInv, NoFailure, CandidatesAreAddable, RemoteSet
<1> QED
  BY <1>1, <1>2, <1>3, TypeCorrect, PTL DEF Spec
-----------------------------------------------------------------------------
(* The two maps *)

(* With a connection_id in one offer only, an entry of a map can be taken by
   nobody else.  The dispatcher goes with the connection (its state handler),
   the task ends after the dispatcher, and the notifier goes with the first
   candidate or the end of the task. *)
OwnEntries(i) ==
  /\ peer[i] = "up" /\ stage[i] # "notifier" => dispatcher[conn[i]] = i
  /\ task[i] \in {"ending", "done"} => dispatcher[conn[i]] # i
  /\ candidateRx[i] = "pending" /\ task[i] # "done" => notifier[conn[i]] = i
  /\ notifier[conn[i]] = i => candidateRx[i] = "pending"

RegistrationInv ==
  /\ \A j, k \in Known : conn[j] = conn[k] => j = k
  /\ \A i \in Known : OwnEntries(i)
  /\ \A i \in Offers : /\ i \notin Known => candidateRx[i] = "pending"
                       /\ candidateRx[i] = "sent" => added[i]
                       /\ task[i] = "notifying" => added[i]

(* A step of another part of the listener disturbs none of it. *)
LEMMA RegistrationStable ==
  ASSUME TypeOK, RegistrationInv, UNCHANGED <<conn, maps, task, added, candidateRx>>,
         \A k \in Known : peer'[k] = "up" => peer[k] = "up",
         \A k \in Known : stage[k] = "notifier" => stage'[k] = "notifier"
  PROVE  RegistrationInv'
BY DEF RegistrationInv, OwnEntries, Known, maps

(* The next offer finds no entry of its connection_id. *)
LEMMA TakeOfferRegistration ==
  ASSUME ~OffersRepeat, TypeOK, RegistrationInv, NEW c \in Connections, TakeOffer(c)
  PROVE  RegistrationInv'
<1>1. PICK i \in Offers :
        /\ i = Len(conn) + 1 /\ Len(conn) \in Nat /\ i \notin Known /\ conn' = Append(conn, c)
        /\ \A k \in Known : conn[k] # c
  BY DEF TypeOK, LoopTypeOK, TakeOffer, Known
<1>2. /\ conn' \in Seq(Connections) /\ Len(conn') = i /\ Known' = Known \cup {i} /\ Known \subseteq Offers
      /\ conn'[i] = c /\ \A k \in Known : conn'[k] = conn[k]
  <2>1. conn \in Seq(Connections) /\ Len(conn) <= MaxOffers /\ MaxOffers \in Nat
    BY ListenerAssumption DEF TypeOK, LoopTypeOK
  <2>2. conn' \in Seq(Connections) /\ Len(conn') = i
    BY <1>1, <2>1
  <2>3. Known' = Known \cup {i} /\ Known \subseteq Offers
    BY <1>1, <2>1, <2>2 DEF Known, Offers
  <2>4. conn'[i] = c /\ \A k \in Known : conn'[k] = conn[k]
    BY <1>1, <2>1 DEF Known
  <2> QED
    BY <2>2, <2>3, <2>4
<1>3. /\ stage' = [stage EXCEPT ![i] = "notifier"] /\ stage[i] = "none" /\ task[i] = "none"
      /\ notifier' = [notifier EXCEPT ![c] = i]
      /\ UNCHANGED <<dispatcher, task, added, peer>>
  BY <1>1 DEF TypeOK, LoopTypeOK, TaskTypeOK, TakeOffer, taskVars
<1>4. notifier[c] \notin Offers
  BY <1>1, ListenerAssumption DEF TypeOK, MapTypeOK, Offers
<1>5. candidateRx' = candidateRx
  <2>1. candidateRx \in [Offers -> {"pending", "sent", "dropped"}]
    BY DEF TypeOK, WaitTypeOK
  <2>2. candidateRx' = [k \in Offers |-> candidateRx[k]]
    BY <1>4 DEF TakeOffer, DropNotifier
  <2> QED
    BY <2>1, <2>2
<1>6. notifier \in [Connections -> 0..MaxOffers] /\ conn \in Seq(Connections) /\ stage \in [Offers -> Stages]
  BY DEF TypeOK, MapTypeOK, LoopTypeOK
<1>7. notifier'[c] = i /\ \A d \in Connections \ {c} : notifier'[d] = notifier[d]
  BY <1>3, <1>6
<1>8. /\ stage'[i] = "notifier" /\ \A k \in Offers \ {i} : stage'[k] = stage[k]
  BY <1>1, <1>3, <1>6
<1>9. \A k \in Known : conn[k] \in Connections
  BY <1>6 DEF Known
<1>10. \A k \in Known : OwnEntries(k)'
  <2> SUFFICES ASSUME NEW k \in Known PROVE OwnEntries(k)'
    OBVIOUS
  <2>1. k \in Offers \ {i} /\ conn'[k] = conn[k] /\ conn[k] \in Connections \ {c}
    BY <1>1, <1>2, <1>9
  <2>2. stage'[k] = stage[k] /\ notifier'[conn[k]] = notifier[conn[k]]
    BY <1>7, <1>8, <2>1
  <2>3. OwnEntries(k)
    BY DEF RegistrationInv
  <2> QED
    BY <1>3, <1>5, <2>1, <2>2, <2>3 DEF OwnEntries
<1>11. OwnEntries(i)'
  BY <1>1, <1>2, <1>3, <1>5, <1>7, <1>8 DEF RegistrationInv, OwnEntries
<1>12. \A j, k \in Known' : conn'[j] = conn'[k] => j = k
  <2>1. \A k \in Known : conn'[k] # c
    BY <1>1, <1>2
  <2>2. \A j, k \in Known : conn'[j] = conn'[k] => j = k
    BY <1>2 DEF RegistrationInv
  <2>3. Known' = Known \cup {i} /\ conn'[i] = c
    BY <1>2
  <2> QED
    BY <2>1, <2>2, <2>3
<1>13. \A k \in Offers : /\ k \notin Known' => candidateRx'[k] = "pending"
                         /\ candidateRx'[k] = "sent" => added'[k]
                         /\ task'[k] = "notifying" => added'[k]
  BY <1>2, <1>3, <1>5 DEF RegistrationInv
<1>14. \A k \in Known' : OwnEntries(k)'
  BY <1>2, <1>10, <1>11
<1> QED
  BY <1>12, <1>13, <1>14 DEF RegistrationInv

(* The dispatcher is inserted. *)
LEMMA InsertRegistration ==
  ASSUME TypeOK, RegistrationInv, NEW i \in Offers, InsertDispatcher(i)
  PROVE  RegistrationInv'
<1>1. /\ i \in Known /\ Known \subseteq Offers /\ stage[i] = "notifier" /\ stage' = [stage EXCEPT ![i] = "dispatcher"]
      /\ dispatcher' = [dispatcher EXCEPT ![conn[i]] = i] /\ task' = [task EXCEPT ![i] = "receiving"]
      /\ UNCHANGED <<conn, notifier, added, peer, candidateRx>>
  BY ListenerAssumption DEF InsertDispatcher, Proceed, Handling, waitVars, TypeOK, LoopTypeOK, Known, Offers
<1>2. /\ dispatcher \in [Connections -> 0..MaxOffers] /\ stage \in [Offers -> Stages] /\ task \in [Offers -> Tasks]
      /\ \A k \in Known : conn[k] \in Connections
  BY DEF TypeOK, MapTypeOK, LoopTypeOK, TaskTypeOK, Known
<1>3. \A k \in Known \ {i} : conn[k] # conn[i]
  BY <1>1 DEF RegistrationInv
<1>4. /\ stage'[i] = "dispatcher" /\ task'[i] = "receiving" /\ dispatcher'[conn[i]] = i
      /\ \A k \in Known \ {i} : dispatcher'[conn[k]] = dispatcher[conn[k]]
      /\ \A k \in Offers \ {i} : stage'[k] = stage[k] /\ task'[k] = task[k]
  BY <1>1, <1>2, <1>3
<1>5. Known' = Known
  BY <1>1 DEF Known
<1>6. task[i] = "none"
  BY <1>1 DEF TypeOK, TaskTypeOK
<1> QED
  BY <1>1, <1>4, <1>5, <1>6 DEF RegistrationInv, OwnEntries

(* The first candidate wakes the waiter of its own connection. *)
LEMMA NotifiesRegistration ==
  ASSUME TypeOK, RegistrationInv, NEW i \in Offers, TaskNotifies(i)
  PROVE  RegistrationInv'
<1>1. /\ task[i] = "notifying" /\ task' = [task EXCEPT ![i] = "receiving"] /\ added[i]
      /\ notifier' = [notifier EXCEPT ![conn[i]] = 0]
      /\ candidateRx' = [k \in Offers |-> IF k = notifier[conn[i]] THEN "sent" ELSE candidateRx[k]]
      /\ UNCHANGED <<conn, stage, dispatcher, added, peer>>
  BY DEF TaskNotifies, TaskAt, Notify, loopVars, RegistrationInv
<1>2. /\ i \in Known /\ Known \subseteq Offers /\ Known' = Known
      /\ \A k \in Known : conn[k] \in Connections
  BY <1>1, ListenerAssumption DEF TypeOK, LoopTypeOK, TaskTypeOK, Known, Offers
<1>3. notifier[conn[i]] \in {0, i}
  BY <1>2 DEF TypeOK, MapTypeOK, RegistrationInv
<1>4. \A k \in Offers \ {i} : candidateRx'[k] = candidateRx[k] /\ task'[k] = task[k]
  BY <1>1, <1>3 DEF TypeOK, TaskTypeOK, Offers
<1>5. /\ candidateRx'[i] = IF notifier[conn[i]] = i THEN "sent" ELSE candidateRx[i]
      /\ task'[i] = "receiving"
  BY <1>1 DEF TypeOK, TaskTypeOK
<1>6. /\ notifier'[conn[i]] = 0 /\ 0 \notin Offers
      /\ \A k \in Known \ {i} : conn[k] # conn[i] /\ notifier'[conn[k]] = notifier[conn[k]]
  BY <1>1, <1>2 DEF TypeOK, MapTypeOK, RegistrationInv, Offers
<1>7. OwnEntries(i)'
  BY <1>1, <1>2, <1>3, <1>5, <1>6 DEF RegistrationInv, OwnEntries
<1>8. \A k \in Known \ {i} : OwnEntries(k)'
  BY <1>1, <1>2, <1>4, <1>6 DEF RegistrationInv, OwnEntries
<1> QED
  BY <1>1, <1>2, <1>4, <1>5, <1>7, <1>8 DEF RegistrationInv

(* The task ends after its dispatcher is gone, and takes only its own notifier
   with it. *)
LEMMA EndRegistration ==
  ASSUME TypeOK, RegistrationInv, NEW i \in Offers, TaskEnds(i) \/ TaskCleansUp(i)
  PROVE  RegistrationInv'
<1>1. /\ i \in Known /\ Known \subseteq Offers /\ Known' = Known
      /\ \A k \in Known : conn[k] \in Connections
      /\ UNCHANGED <<conn, stage, added, peer>>
  BY ListenerAssumption DEF TaskEnds, TaskCleansUp, TaskAt, TypeOK, LoopTypeOK, TaskTypeOK, Known, Offers, loopVars
<1>2. \A k \in Known \ {i} : conn[k] # conn[i]
  BY <1>1 DEF RegistrationInv
<1>3. CASE TaskEnds(i)
  <2>1. /\ dispatcher[conn[i]] # i /\ dispatcher' = [dispatcher EXCEPT ![conn[i]] = 0]
        /\ task[i] = "receiving" /\ task' = [task EXCEPT ![i] = "ending"] /\ UNCHANGED <<notifier, candidateRx>>
    BY <1>3 DEF TaskEnds, TaskAt, waitVars
  <2>2. /\ dispatcher'[conn[i]] = 0 /\ \A k \in Known \ {i} : dispatcher'[conn[k]] = dispatcher[conn[k]]
        /\ task'[i] = "ending" /\ \A k \in Offers \ {i} : task'[k] = task[k]
        /\ 0 \notin Offers
    BY <1>1, <1>2, <2>1 DEF TypeOK, MapTypeOK, TaskTypeOK, Offers
  <2> QED
    BY <1>1, <2>1, <2>2 DEF RegistrationInv, OwnEntries
<1>4. CASE TaskCleansUp(i)
  <2>1. /\ notifier' = [notifier EXCEPT ![conn[i]] = 0] /\ dispatcher' = dispatcher
        /\ candidateRx' = [k \in Offers |-> IF k = notifier[conn[i]] THEN "dropped" ELSE candidateRx[k]]
        /\ task[i] = "ending" /\ task' = [task EXCEPT ![i] = "done"]
    BY <1>4 DEF TaskCleansUp, TaskAt, DropNotifier
  <2>2. notifier[conn[i]] \in {0, i} /\ 0 \notin Offers
    BY <1>1 DEF TypeOK, MapTypeOK, RegistrationInv, Offers
  <2>3. /\ notifier'[conn[i]] = 0 /\ \A k \in Known \ {i} : notifier'[conn[k]] = notifier[conn[k]]
        /\ task'[i] = "done" /\ \A k \in Offers \ {i} : task'[k] = task[k]
        /\ \A k \in Offers \ {i} : candidateRx'[k] = candidateRx[k]
        /\ candidateRx'[i] \in {"dropped", candidateRx[i]}
    BY <1>1, <1>2, <2>1, <2>2 DEF TypeOK, MapTypeOK, TaskTypeOK
  <2> QED
    BY <1>1, <2>1, <2>2, <2>3 DEF RegistrationInv, OwnEntries
<1> QED
  BY <1>3, <1>4

(* The connection is over: its dispatcher goes. *)
LEMMA StateHandlerRegistration ==
  ASSUME TypeOK, RegistrationInv, NEW i \in Offers, StateHandler(i)
  PROVE  RegistrationInv'
<1>1. /\ i \in Known /\ Known \subseteq Offers /\ Known' = Known
      /\ \A k \in Known : conn[k] \in Connections
      /\ dispatcher' = [dispatcher EXCEPT ![conn[i]] = 0] /\ peer' = [peer EXCEPT ![i] = "down"]
      /\ UNCHANGED <<conn, stage, notifier, task, added, candidateRx>>
  BY ListenerAssumption DEF StateHandler, TypeOK, LoopTypeOK, PeerTypeOK, Known, Offers, loopVars, taskVars, waitVars
<1>2. \A k \in Known \ {i} : conn[k] # conn[i]
  BY <1>1 DEF RegistrationInv
<1>3. /\ dispatcher'[conn[i]] = 0 /\ \A k \in Known \ {i} : dispatcher'[conn[k]] = dispatcher[conn[k]]
      /\ peer'[i] = "down" /\ \A k \in Offers \ {i} : peer'[k] = peer[k]
      /\ 0 \notin Offers
  BY <1>1, <1>2 DEF TypeOK, MapTypeOK, PeerTypeOK, Offers
<1> QED
  BY <1>1, <1>3 DEF RegistrationInv, OwnEntries

(* The task works on a candidate. *)
LEMMA CandidateRegistration ==
  ASSUME TypeOK, RegistrationInv, NEW i \in Offers, TaskReceives(i) \/ TaskAdds(i) \/ TaskSkips(i)
  PROVE  RegistrationInv'
<1>1. PICK to \in Tasks :
        /\ task[i] \in {"receiving", "adding"} /\ task' = [task EXCEPT ![i] = to]
        /\ to \in {"adding", "receiving", "notifying"}
        /\ added' = added \/ added' = [added EXCEPT ![i] = TRUE]
        /\ to = "notifying" => added' = [added EXCEPT ![i] = TRUE]
        /\ UNCHANGED <<conn, stage, dispatcher, notifier, peer, candidateRx>>
  BY DEF TaskReceives, TaskAdds, TaskSkips, TaskAt, Tasks, loopVars, maps, waitVars
<1>2. /\ task'[i] = to /\ \A k \in Offers \ {i} : task'[k] = task[k]
      /\ \A k \in Offers : added[k] => added'[k]
      /\ to = "notifying" => added'[i]
  BY <1>1 DEF TypeOK, TaskTypeOK
<1>3. Known' = Known /\ Known \subseteq Offers
  BY <1>1, ListenerAssumption DEF TypeOK, LoopTypeOK, Known, Offers
<1>4. \A k \in Known : OwnEntries(k)'
  BY <1>1, <1>2, <1>3 DEF RegistrationInv, OwnEntries
<1>5. \A k \in Offers : /\ k \notin Known' => candidateRx'[k] = "pending"
                        /\ candidateRx'[k] = "sent" => added'[k]
                        /\ task'[k] = "notifying" => added'[k]
  BY <1>1, <1>2, <1>3 DEF RegistrationInv
<1> QED
  BY <1>1, <1>3, <1>4, <1>5 DEF RegistrationInv

LEMMA RegistrationInductive ==
  ASSUME ~OffersRepeat
  PROVE  TypeOK /\ RegistrationInv /\ [Next]_vars => RegistrationInv'
<1> SUFFICES ASSUME TypeOK, RegistrationInv, [Next]_vars PROVE RegistrationInv'
  OBVIOUS
<1>1. ASSUME NEW c \in Connections, TakeOffer(c) \/ Dispatch(c) PROVE RegistrationInv'
  <2>1. CASE Dispatch(c)
    BY <2>1, RegistrationStable DEF Dispatch, maps, waitVars
  <2> QED
    BY <1>1, <2>1, TakeOfferRegistration
<1>2. ASSUME NEW i \in Offers, HandleOffer(i) PROVE RegistrationInv'
  <2>1. CASE SetRemoteDescription(i) \/ SignalAnswer(i) \/ RegisterHandlers(i) \/ OfferFails(i)
    <3>1. PICK to \in Stages : stage[i] # "notifier" /\ stage' = [stage EXCEPT ![i] = to]
      BY <2>1 DEF SetRemoteDescription, SignalAnswer, RegisterHandlers, OfferFails, Proceed, Stages
    <3>2. UNCHANGED <<conn, maps, task, added, candidateRx, peer>>
      BY <2>1 DEF SetRemoteDescription, SignalAnswer, RegisterHandlers, OfferFails, Proceed, taskVars, waitVars
    <3>3. \A k \in Offers : stage[k] = "notifier" => stage'[k] = "notifier"
      BY <3>1 DEF TypeOK, LoopTypeOK
    <3>4. Known \subseteq Offers
      BY ListenerAssumption DEF TypeOK, LoopTypeOK, Known, Offers
    <3> QED
      BY <3>2, <3>3, <3>4, RegistrationStable
  <2> QED
    BY <1>2, <2>1, InsertRegistration DEF HandleOffer
<1>3. ASSUME NEW i \in Offers, TaskStep(i) PROVE RegistrationInv'
  BY <1>3, CandidateRegistration, NotifiesRegistration, EndRegistration DEF TaskStep
<1>4. ASSUME NEW i \in Offers, PeerGone(i) \/ StateHandler(i) PROVE RegistrationInv'
  <2>1. CASE PeerGone(i)
    <3>1. UNCHANGED <<conn, stage, maps, task, added, candidateRx>>
      BY <2>1 DEF PeerGone, loopVars, taskVars, waitVars
    <3>2. peer' \in {[peer EXCEPT ![i] = "ending"], [peer EXCEPT ![i] = "down"]}
      BY <2>1 DEF PeerGone
    <3>3. \A k \in Offers : peer'[k] = "up" => peer[k] = "up"
      BY <3>2 DEF TypeOK, PeerTypeOK
    <3>4. Known \subseteq Offers
      BY ListenerAssumption DEF TypeOK, LoopTypeOK, Known, Offers
    <3> QED
      BY <3>1, <3>3, <3>4, RegistrationStable
  <2> QED
    BY <1>4, <2>1, StateHandlerRegistration
<1>5. ASSUME UNCHANGED <<conn, stage, maps, task, added, candidateRx, peer>> PROVE RegistrationInv'
  BY <1>5, RegistrationStable
<1>6. CASE \E i \in Offers : \/ WaiterStep(i)
                            \/ \E label \in BothChannels : OpenChannel(i, label) \/ ChannelStep(i, label)
  BY <1>5, <1>6 DEF WaiterStep, CandidateSeen, CandidateTimeout, WaitEnds, WaiterAt, OpenChannel, ChannelStep,
     SetChannel, CheckReliable, CheckUnreliable, CallbackAt, taskVars, loopVars, waitVars
<1>7. CASE SignalsEnd \/ Cancelled \/ Accept \/ DropListener \/ UNCHANGED vars
  BY <1>5, <1>7 DEF SignalsEnd, Cancelled, EndLoop, Accept, DropListener, vars, taskVars, loopVars, waitVars
<1> QED
  BY <1>1, <1>2, <1>3, <1>4, <1>6, <1>7 DEF Next

LEMMA RegistrationInvariant ==
  ASSUME ~OffersRepeat
  PROVE  Spec => [](TypeOK /\ RegistrationInv)
<1>1. Init => RegistrationInv
  BY DEF Init, RegistrationInv, Known
<1> QED
  BY <1>1, TypeCorrect, RegistrationInductive, PTL DEF Spec

(* If no connection_id is used twice: every answered connection that is up
   keeps its dispatcher, and its notifier until the waiter has been woken. *)
THEOREM RegistrationsCorrect ==
  ASSUME ~OffersRepeat
  PROVE  Spec => []KeepsRegistrations
<1>1. TypeOK /\ RegistrationInv => KeepsRegistrations
  BY DEF RegistrationInv, OwnEntries, KeepsRegistrations
<1> QED
  BY <1>1, RegistrationInvariant, PTL

(* ... and a waiter is woken only when a candidate of its own connection was
   added. *)
THEOREM WokenCorrect ==
  ASSUME ~OffersRepeat
  PROVE  Spec => []WokenByOwnCandidate
<1>1. TypeOK /\ RegistrationInv => WokenByOwnCandidate
  BY DEF RegistrationInv, WokenByOwnCandidate
<1> QED
  BY <1>1, RegistrationInvariant, PTL
-----------------------------------------------------------------------------
(* The queue of accept *)

(* The waiter hands its session over as its last step. *)
LEMMA HandedOver ==
  ASSUME TypeOK, QueuedOnce, NEW i \in Offers, waiter[i] # "done",
         waiter' = [waiter EXCEPT ![i] = "done"], Push(i), dropped' = dropped
  PROVE  QueuedOnce'
<1>1. /\ incoming \in Seq(Offers) /\ waiter'[i] = "done"
      /\ \A k \in Offers \ {i} : waiter'[k] = waiter[k]
  BY DEF TypeOK, AcceptTypeOK, WaitTypeOK
<1>2. \A k \in DOMAIN incoming : incoming[k] \in Offers \ {i}
  BY <1>1 DEF QueuedOnce
<1>3. CASE dropped
  BY <1>1, <1>2, <1>3 DEF QueuedOnce, Push
<1>4. CASE ~dropped
  <2> DEFINE n == Len(incoming) + 1
  <2>1. /\ Len(incoming) \in Nat /\ DOMAIN incoming = 1..Len(incoming)
        /\ incoming' = Append(incoming, i)
    BY <1>1, <1>4 DEF Push
  <2>2. /\ DOMAIN incoming' = DOMAIN incoming \cup {n} /\ n \notin DOMAIN incoming /\ incoming'[n] = i
        /\ \A k \in DOMAIN incoming : incoming'[k] = incoming[k]
    BY <1>1, <2>1
  <2> HIDE DEF n
  <2>3. \A j, k \in DOMAIN incoming' : incoming'[j] = incoming'[k] => j = k
    BY <1>2, <2>2 DEF QueuedOnce
  <2>4. \A k \in DOMAIN incoming' : waiter'[incoming'[k]] = "done"
    BY <1>1, <1>2, <2>2 DEF QueuedOnce
  <2>5. \A j \in Offers : waiter'[j] = "done" => dropped' \/ \E k \in DOMAIN incoming' : incoming'[k] = j
    BY <1>1, <2>2 DEF QueuedOnce
  <2> QED
    BY <2>3, <2>4, <2>5 DEF QueuedOnce
<1> QED
  BY <1>3, <1>4

LEMMA QueuedInductive ==
  ASSUME TypeOK, QueuedOnce, [Next]_vars
  PROVE  QueuedOnce'
<1>1. ASSUME UNCHANGED <<waiter, incoming, dropped>> PROVE QueuedOnce'
  BY <1>1 DEF QueuedOnce
<1>2. CASE (\E c \in Connections : TakeOffer(c) \/ Dispatch(c)) \/ SignalsEnd \/ Cancelled \/ Accept \/ UNCHANGED vars
  BY <1>1, <1>2 DEF TakeOffer, Dispatch, SignalsEnd, Cancelled, EndLoop, Accept, vars, waitVars, acceptVars
<1>3. CASE DropListener
  BY <1>3 DEF DropListener, QueuedOnce, waitVars
<1>4. ASSUME NEW i \in Offers, HandleOffer(i) PROVE QueuedOnce'
  <2>1. CASE RegisterHandlers(i)
    <3>1. /\ waiter[i] = "none" /\ waiter' = [waiter EXCEPT ![i] = "candidate"]
          /\ UNCHANGED <<incoming, dropped>>
      BY <2>1 DEF RegisterHandlers, Proceed, acceptVars, TypeOK, WaitTypeOK
    <3>2. /\ \A k \in DOMAIN incoming : incoming[k] \in Offers
          /\ \A k \in Offers : waiter'[k] = "done" <=> waiter[k] = "done"
      BY <3>1 DEF TypeOK, WaitTypeOK, AcceptTypeOK
    <3> QED
      BY <3>1, <3>2 DEF QueuedOnce
  <2>2. CASE InsertDispatcher(i) \/ SetRemoteDescription(i) \/ SignalAnswer(i) \/ OfferFails(i)
    BY <1>1, <2>2 DEF InsertDispatcher, SetRemoteDescription, SignalAnswer, OfferFails, waitVars, acceptVars
  <2> QED
    BY <1>4, <2>1, <2>2 DEF HandleOffer
<1>5. ASSUME NEW i \in Offers, TaskStep(i) PROVE QueuedOnce'
  BY <1>1, <1>5 DEF TaskStep, TaskReceives, TaskAdds, TaskSkips, TaskNotifies, TaskEnds, TaskCleansUp,
     waitVars, acceptVars
<1>6. ASSUME NEW i \in Offers, WaiterStep(i) PROVE QueuedOnce'
  <2>1. CASE CandidateSeen(i)
    <3>1. /\ waiter[i] = "candidate" /\ waiter' = [waiter EXCEPT ![i] = "ready"]
          /\ UNCHANGED <<incoming, dropped>>
      BY <2>1 DEF CandidateSeen, WaiterAt
    <3>2. /\ \A k \in DOMAIN incoming : incoming[k] \in Offers
          /\ \A k \in Offers : waiter'[k] = "done" <=> waiter[k] = "done"
      BY <3>1 DEF TypeOK, WaitTypeOK, AcceptTypeOK
    <3> QED
      BY <3>1, <3>2 DEF QueuedOnce
  <2>2. CASE CandidateTimeout(i) \/ WaitEnds(i)
    BY <2>2, HandedOver DEF CandidateTimeout, WaitEnds, WaiterAt
  <2> QED
    BY <1>6, <2>1, <2>2 DEF WaiterStep
<1>7. CASE \E i \in Offers : \/ PeerGone(i) \/ StateHandler(i)
                            \/ \E label \in BothChannels : OpenChannel(i, label) \/ ChannelStep(i, label)
  BY <1>1, <1>7 DEF PeerGone, StateHandler, OpenChannel, ChannelStep, SetChannel, CheckReliable, CheckUnreliable,
     CallbackAt, waitVars, acceptVars
<1> QED
  BY <1>2, <1>3, <1>4, <1>5, <1>6, <1>7 DEF Next

(* listener.rs:307: an answered session is queued for accept once, whoever
   else uses its connection_id, and is left out only by a dropped listener. *)
THEOREM QueuedCorrect == Spec => []QueuedOnce
<1>1. Init => QueuedOnce
  BY DEF Init, QueuedOnce
<1> QED
  BY <1>1, QueuedInductive, TypeCorrect, PTL DEF Spec
-----------------------------------------------------------------------------
(* What lasts: an offer that was answered, and a candidate that was added. *)
LEMMA AnsweredStays ==
  ASSUME TypeOK, [Next]_vars, NEW i \in Offers, stage[i] \in {"answered", "done"}
  PROVE  stage'[i] \in {"answered", "done"} /\ (added[i] => added'[i])
<1> USE DEF TypeOK, LoopTypeOK, TaskTypeOK
<1>1. CASE UNCHANGED <<stage, added>>
  BY <1>1
<1>2. ASSUME NEW c \in Connections, TakeOffer(c)
      PROVE  stage'[i] = stage[i] /\ added' = added
  <2>1. stage[Len(conn) + 1] = "none" /\ Len(conn) + 1 \in Offers
    BY <1>2 DEF TakeOffer, Known
  <2>2. stage' = [stage EXCEPT ![Len(conn) + 1] = "notifier"] /\ added' = added
    BY <1>2 DEF TakeOffer, taskVars
  <2> QED
    BY <2>1, <2>2
<1>3. ASSUME NEW j \in Offers, HandleOffer(j)
      PROVE  stage'[i] \in {"answered", "done"} /\ added' = added
  BY <1>3 DEF HandleOffer, InsertDispatcher, SetRemoteDescription, SignalAnswer, RegisterHandlers,
              OfferFails, Proceed, taskVars
<1>4. ASSUME NEW j \in Offers, TaskStep(j)
      PROVE  stage' = stage /\ (added[i] => added'[i])
  BY <1>4 DEF TaskStep, TaskReceives, TaskAdds, TaskSkips, TaskNotifies, TaskEnds, TaskCleansUp,
              loopVars
<1>5. ASSUME NEW c \in Connections, Dispatch(c) PROVE UNCHANGED <<stage, added>>
  BY <1>5 DEF Dispatch
<1>6. CASE \E j \in Offers : \/ WaiterStep(j) \/ PeerGone(j) \/ StateHandler(j)
                             \/ \E label \in BothChannels : OpenChannel(j, label) \/ ChannelStep(j, label)
  BY <1>1, <1>6 DEF WaiterStep, CandidateSeen, CandidateTimeout, WaitEnds, WaiterAt, PeerGone,
     StateHandler, OpenChannel, ChannelStep, SetChannel, CheckReliable, CheckUnreliable,
     CallbackAt, taskVars, loopVars
<1>7. CASE SignalsEnd \/ Cancelled \/ Accept \/ DropListener
  BY <1>1, <1>7 DEF SignalsEnd, Cancelled, EndLoop, Accept, DropListener, taskVars, loopVars
<1> QED
  BY <1>1, <1>2, <1>3, <1>4, <1>5, <1>6, <1>7 DEF Next, vars, taskVars, loopVars
=============================================================================
