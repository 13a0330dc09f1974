# nethernet-rs in TLA+

`nethernet-rs` carries Minecraft's NetherNet protocol: a signalling layer (UDP
discovery on the LAN) exchanges offers, answers and candidates; a WebRTC peer
connection with two data channels comes out of them; a *session* splits payloads
into segments for the reliable channel and reassembles them at the other end.
This directory specifies the parts of the crate that have control worth
checking, model-checks them with TLC on small instances and proves the central
facts about them with TLAPS for all values of their constants. Paths below are
those of the repository (`src/session/mod.rs` of the crate is
`src/src/session/mod.rs` in `PROJECT.json`).

## Inventory

| component | state | operations | hard behaviour |
|---|---|---|---|
| message segments, `src/protocol/message.rs` | `Message { expected_segments: u8, data }` | `decode`, `split_into_segments`, `add_segment` | a torn or interleaved message; counter at 0 and 255; lengths at multiples of 10000 |
| session, `src/session/mod.rs` | two channels, `message_buffer`, bounded packet queue, `closed` flag | `set_reliable_channel` (+ `on_message`), `set_unreliable_channel`, `send`, `recv`, `close`, `is_fully_connected`, `wait_for_connection` | concurrent and cancelled `send`/`recv`, a full queue, close at any moment from either end |
| listener, `src/transport/listener.rs` | `signal_dispatchers`, `candidate_notifiers`, queue of accepted sessions, one task + one waiter per offer | `bind`, signal loop, `handle_offer`, `accept`, drop | tasks and callbacks meet in two maps keyed by a number the peer chooses; two 5 s timeouts; errors halfway |
| connecting client, `src/transport/stream.rs` `connect` | buffered candidates, one-shot channels, candidate task | offer, answer loop, two waits | candidates before the answer; no timeout in the answer loop; timeouts racing events |
| byte stream, `src/transport/stream.rs` `AsyncRead`/`AsyncWrite` | pending `recv`/`send`/`close` futures, read buffer | `poll_read`, `poll_write`, `poll_flush`, `poll_shutdown` | a write that reports success before it is sent; a future that holds a lock between polls |
| LAN signalling, `src/signaling/lan.rs` | address table, discovered servers, pong data, broadcast channel, background task | `new`, `discover`, `get_address`, `set_pong_data`, `signal`, `signals`, `shutdown`, drop, `handle_packet`, `cleanup_addresses` | lost, repeated, late datagrams; expiry; a lagging subscriber; shutdown under a packet |
| signal and negotiation formats, `src/protocol/signal.rs`, `src/protocol/webrtc/` | none | parse, format, error codes | two error tables that must agree |
| discovery packets, `src/protocol/packet/discovery/`, `src/protocol/types/` | none | encode, decode, encrypt | length fields and limits; a datagram longer than the receive buffer |
| MOTD builder, `NethernetError` | none | — | none |

Interactions: the LAN signaller publishes `Signal`s on a broadcast channel; the
listener's loop and `connect` subscribe to it. The listener creates one peer
connection, one task and one session per offer and passes the session to
`accept`; `connect` builds the client's session. Both hand the session its data
channels, the listener from callbacks of the WebRTC library. A session's
`on_message` handler feeds `Message::add_segment` and the packet queue; `recv`
takes from it; the byte stream wraps `send` and `recv`.

What makes each component correct: packets are payloads, whole and in order, and
damage is confined (segments, session); nobody waits for ever on something that
has gone (session, listener, client); a connection's entries in the maps are its
own and go when it goes (listener); an answered offer reaches `accept` exactly
when its waiter is done (listener); no candidate is lost inside the client, and
none is added too early; a client whose `connect` returned Ok is accepted (client
and listener); bytes come out of the stream in the order they went in, and a flush
means sent (byte stream); a node that has fallen silent is forgotten, and a signal
comes out only where it was meant to go (LAN); what is formatted is understood
(formats).

## Modules

| module | models | source |
|---|---|---|
| `Message` | the pure functions of segments | `src/protocol/message.rs` |
| `MessageFeed` | one accumulator fed any sequence of counters by a peer | `add_segment` |
| `MessageChannel` | abstract: a FIFO of whole payloads | what `send`/`recv` promise |
| `Session` | one direction of a session between two ends | `src/session/mod.rs` |
| `Listener` | offers, tasks, maps, callbacks, waiters, accept, drop | `src/transport/listener.rs` |
| `ByteStream` | abstract: a FIFO of bytes with flush | what `AsyncRead` and `AsyncWrite` promise together |
| `StreamIo` | the poll functions of a stream, on top of `Session` | `src/transport/stream.rs` |
| `Connect` | one call of `connect` with its candidate task | `src/transport/stream.rs` |
| `NethernetSystem` | `Connect` and `Listener` composed over a network of signals | both, and the way of a signal through `src/signaling/lan.rs` |
| `SignalFeed` | abstract: what one subscriber of a signaller sees | the doc of `signals` |
| `Formats` | texts, error tables, server data, lengths of packets (no state) | `src/protocol/`, `src/error/mod.rs` |
| `LanSignaling` | several nodes with their background tasks on one LAN | `src/signaling/lan.rs` |
| `ErrorExchange` | an error reported by one end and read by the other | `signal.rs`, `negotiation.rs` |
| `MCMessageFeed`, `MCListener`, `MCLanSignaling` | counter sets, symmetry, hosts for TLC | |
| `MessageProofs`, `MessageFeedProofs`, `SessionProofs`, `ListenerProofs`, `FormatsProofs`, `LanSignalingProofs`, `NethernetSystemProofs`, `StreamIoProofs` | theorems | |

**Message.** A payload is a sequence of bytes, a byte any value; a segment is its
counter and data. `AddSegment` returns the accumulator that `add_segment` leaves
and the packet it completes, as a sequence of none or one. The counter byte
wraps at `U8MAX` (a release build has no overflow check; a debug build panics
there instead). `TooLarge` is the `MessageTooLarge` error. `reserve` and the
pre-allocations are left out.

**Session.** `BeginSend` is `send` up to its first await on the channel,
`SendSegment` one turn of its loop, `SendFails` the error of `channel.send`,
`CancelSend` the drop of its future there. `OnMessage` is a call of the handler
up to `tx.send(..).await`, `Enqueue` the end of that await; the library calls the
handler for one message at a time, so `OnMessage` waits for `Enqueue`. `recv` is
`RecvEnter` (the flag), `RecvLock` (the mutex), `RecvPacket` (the queue), with
`CancelRecv` for its dropped future. `close` is `CloseFlag` and
`CloseTransport`; the library tells the other end by `PeerCloses`. Early returns
that change nothing (a closed session, no channel, a payload too large) are the
absence of a step. Payload bytes are tagged with message and position, so that
two bytes are never equal by accident. Queues are logs with a read index:
`wired`/`handled`, `packets`/`taken`. The unreliable channel carries nothing in
this crate and is absent here.

**Listener.** The offers of a behaviour are numbered and each owns its peer
connection, task, one-shot channels and session; the maps hold offer numbers.
`handle_offer` is `TakeOffer`, `InsertDispatcher`, `SetRemoteDescription`,
`SignalAnswer`, `RegisterHandlers` or `OfferFails`: the awaits between which
another task can run. The loop awaits `handle_offer`, which is `InLoop`. The
signals that arrive are the network's choice, so loss, repetition and reordering
are all present. Replacing or removing a sender in a map closes the channel of
the offer that waits at the other end. Timeouts may fire whenever what they wait
for has not happened. A connection may be lost again and again (`PeerGone`,
`StateHandler`): listener.rs:255-257 treats Disconnected, from which the library may
recover, like the final states, and takes no notice of a recovery. Answers and errors that reach a task are ignored by it and
left out; `on_ice_candidate`, which only sends, is `ServerGathers` of
`NethernetSystem`.

**StreamIo** extends `Session`: the stream at `snd` is written, the one at `rcv`
read, and the `send` and `recv` futures that a stream keeps are the tasks `Writer`
and `Reader` of `Session`, whose steps are taken only inside a poll function. `op` is
the poll function at work on the writing stream, `rop` on the reading one. A call
polls the stored `send_future` (`SendBegins`, `SendProceeds`, `SendErr`), may return
Pending at each of its awaits (`PollPending`), and then does its own part:
`WriteStarts` and `WriteReturns`, `FlushReturns`, `ShutdownBegins` (the flag of
`close`) and `ShutdownReturns` (the channels). `poll_read` reads from the chunk of the
`StreamReader`, or polls the `recv` future (`ReadProceeds`, `ReadReceives`); the caller's
buffer may be smaller than the chunk. The handler, the queue and both ends closing
go on beside it (`SessionRuns`).

**Connect** is one call. `phase` is the await it has come to. The two places that read
the subscription are `AwaitAnswer` (the loop) and `ReaderReads` (the task spawned
later); `unread` is the subscription, a ring that loses its oldest signal. JSON and
SDP are left out; a candidate that cannot be parsed is passed on as it is, like any
other. Errors of the library or of `signal` are `StepFails`, and the future may be
dropped at any await (`DropConnect`). What the library reports (`OpenChannel`,
`IceChanges`) and what arrives (`Publish`) is free here.

**NethernetSystem** takes the actions of `Connect` and, by `INSTANCE`, of `Listener`, and
binds the free parts together. `toServer` and `toClient` hold every signal ever sent;
a delivery takes one and leaves it, so each may arrive never, once or again, in any
order. In the run `system` the one exception is the offer, which reaches the listener
at most once (`MaxOffers = 1`, `OffersRepeat = FALSE`); the theorems speak of any number
of offers, and what a repeated offer does to the listener is checked there
(`listener_live`, `listener_repeat`). `ServerNotices` is the state handler of the listener, as
often as the library calls it. The client's candidates may be sent before its offer (stream.rs:154 is
registered before :183). The library connects the peers once each has the
description of the other and a candidate has been added at either end.

**LanSignaling** is one LAN. A node is one `LanSignaling`: `owner` is what its application
has done with it, `task` its background task. `Receive` is `handle_packet` as one step:
its awaits are locks, each held for one operation, and a send of UDP; what other tasks
could see between them is that the address is known before the data of a response
is, and no property is about both. `LookUp` and `SendSignal` are the two halves of
`signal`, between which the address may go stale; `send_to` fails for a packet above
the 65507 bytes of a datagram (`CanSend`). A datagram may stay on its way for ever and
arrive again; a request or a response may also be lost for good (`Lose`), so that who
needs an answer has to ask again. `TaskEnds` is the branch of the
token, or the abort of `drop`; until it is taken, packets are still handled.
`Start` asks that nobody is bound on the host. Ids are fresh, as every
program chooses its own at random. A datagram whose sender is no node, and the text
`Ping`, change only the address table, as any other packet does, and are left out;
so are I/O errors of the socket, which are lost datagrams. Time is in seconds.

**Formats** describes a text as the sequence of its words and a packet by its length.
A word is a number: the numeral of a `u64` is itself, other words are negative. The
27 errors are numbered in the order in which both enumerations list them, which is
the correspondence that the two `From` implementations of webrtc/error.rs spell out.

## Runs

The sizes are `MAX_MESSAGE_SIZE = 2` and `U8MAX = 3`: a message of at most three
segments, with lengths 1 (less than a segment), 3 (two segments, the last one
short), 5 (three, the largest number). The proofs cover the other sizes.

| run | what it shows | size |
|---|---|---|
| `feed_honest` | packets are unbroken runs; a fresh run is always delivered; the accumulator is the open run | all sequences of 6 counters 0..2 |
| `session_serial` | FIFO of whole messages; nothing lost after the wire; implements `MessageChannel`; what was sent with Ok is returned by `recv` unless somebody closes; a send in progress ends | 1 sender, 2 receivers of which one may be cancelled, queue of 1, 3 messages of lengths 2 and 5, both ends may close |
| `session_cancel` | a dropped send damages at most the message after it | 4 messages, queue of 1 |
| `listener_pair` | own entries of the maps, candidates only after the remote description, waiters woken by their own candidate, each session queued for `accept` once, the two-step readiness check | 2 connections, 2 candidates, data channels on one of them, losses of either one but not of both |
| `listener_live` | answered offers reach `accept`, ended ones are cleaned up, a drop ends the task | 2 offers with one connection_id, each may fail |
| `stream` | the poll functions implement `ByteStream`; a flush means sent, a shutdown flushes, and what was flushed is read | 3 messages of lengths 0 and 3, queue of 1, every buffer size, both ends may close, the stream may be dropped |
| `system` | candidates each added once, in order, after the answer; the offer of an answer that was read is served, and Ok means that the peers could find each other and that the session is accepted; `connect` returns if offer and answer get through; its waits end and leave no task | one client and its listener, one offer, one candidate each way, a ring of 2, 3 signals |
| `lan` | addresses fresh, signals only where they were meant, discovery, delivery, shutdown, the end of the stream; implements `SignalFeed` | a client, a server, and its successor on the same host; texts of 4031 and 4032 bytes, received twice at most; expiry 2 s, interval 1 s; a ring of 1 |

A queue of one is full after one packet, which is when the handler starts to
wait; two receivers are enough for one to hold the lock the other wants; three
messages let one be damaged, one follow it and one follow that (`session_cancel`
has four, so that the second follower is also preceded by a good one). Two
offers are enough for two connections to meet in the maps, or for one to be
replaced. In `listener_pair` a constraint (`OneStaysUp`) stops at states in which
both connections are lost: what is required of the maps is required of a connection
that is up, and nothing else that is checked there speaks of losses. In `stream` a write
of 0 bytes is there because its segment is refused by
the peer (see Facts): a stream of bytes does not mind. In `system` three signals
overflow the ring of two. In `lan` the ratio of 2 s to 1 s lets an address survive a
tick and not the next, as 15 s to 2 s does; a ring of one lags at the second signal (the first, received again);
4031 and 4032 bytes lie on both sides of the receive buffer. `MaxCopies` bounds how
often one signal reaches a node.

`CHECK_DEADLOCK FALSE` is used because the models stop when their bounded inputs
(`MaxFeeds`, `MaxMessages`, `MaxOffers`, `MaxCandidates`, `MaxSignals`) are used up, or
when what may end has ended.

Runs that find a violation, each the disagreement of the code with a sentence in
the repository (`findings` in `PROJECT.json`):

| run | the code | the sentence |
|---|---|---|
| `session_concurrent` | concurrent sends interleave their segments | session/mod.rs:136 |
| `listener_repeat` | the cleanup of a replaced offer removes the entries of the one that replaced it | listener.rs:169 |
| `connect_noanswer` | the loop that waits for the answer has no timeout | stream.rs:68 |
| `error_codes` | `Signal::error` and `NegotiationMessage::parse` number the errors differently from 20 on | webrtc/error.rs:3 |

webrtc/error.rs:3 says that the codes of `ConnectError` "are sent in CONNECTERROR
messages", and `Signal::error` sends others. That the tables differ is known: "Note:
[`ConnectError`] and [`crate::error::SignalErrorCode`] represent the same logical error
conditions but use different wire formats (u8 vs u32) and have different discriminant
values. ConnectError has a gap at 0x14 in its discriminant sequence." (:5-7). What the
run adds is that one end writes the one and the other end reads the other.

### Facts

More facts of the same kind need only another constant or property, and are the
reason for an assumption elsewhere:

* With `PeerCounts = 0..U8MAX` the largest counter wraps to an expected count of 0 and
  `PacketIsARun` fails (message.rs:79 against :75).
* With 0 in `Lengths` an empty payload is sent with Ok, refused by `decode`, and
  `HandledIsDelivered` fails (message.rs:37 against :115).
* `Session!RecvReturnsOnceClosed` fails with `Closers = {"rcv"}`: a `recv` that waits when
  its own session is closed never returns (session/mod.rs:137), since the session
  owns a `packet_tx`; with `Closers = {"snd"}` one that waits when the *peer* closes
  does not either (examples/server.rs:72 expects `None`).
* `Listener!FailedIsCleanedUp` fails with `OffersMayFail`: an offer that fails after it has
  registered its dispatcher leaves its entries and its task behind (listener.rs:219,
  :225).
* With `OffersRepeat` a replaced offer's candidate wakes the waiter of the one that
  replaced it, so that `WokenByOwnCandidate` fails (listener.rs:213 against :208).
* A `recv` future that a stream keeps may hold the lock of the packet queue while nobody
  polls the stream (stream.rs:36); a `recv` called on the session then waits, with
  packets in the queue. The run `stream` has one reader.
* `AnsweredReturns` without its condition on the result fails: when the channels do not
  open in time, `?` returns past `cancel_token` (stream.rs:301) and the candidate task
  stays, with the peer connection, until the signals end. A dropped `connect` leaves it
  too.

### Fairness

`Session!Fairness`: the channel accepts and delivers segments while it is open,
the handler is resumed when the queue has room, an application that received
calls `recv` again, a `close` in progress and the library's report of a closed
peer come to an end (weak fairness: each is a task that stays runnable). The lock
of `packet_rx` is strong fairness, since tokio's mutex queues its waiters.
Sending, cancelling and closing are nobody's duty. `Listener!Fairness`: every
task, callback and timer that can run does, and the application calls `accept`;
signals, peers and drops are free. Each `StateHandler` is fair by itself: a loss that is
reported is handled.

`StreamIo!IoFairness`: the reading application polls again and again, and the session
at work beside it goes on. The steps of a future are strongly fair: a call may return
Pending before them and the future is polled again when it is woken. Nothing is
asked of the writing application, so `FlushedArrives` speaks of what it did flush.
`Connect!FairSpec`: `connect` and its task go on when they can, timers run out.
`NethernetSystem!SysFairness`: both ends run as in their modules, but for the state
handlers of the listener, of which nothing is asked (`ServerNotices` is no part of
`ServerRuns`: with losses without bound it could run for ever in place of the others);
nothing is asked of the network, the library or the callers. Where a property needs the network it says
so (`ReturnsUnlessLost` assumes that the offer and the answer get through if they
could again and again). `LanSignaling!Fairness`: tasks, shutdowns and the started
`signal` go on, the subscriber reads, time passes, and never past a tick that is due
(`TimePasses`: the tasks keep up). `select!` polls its branches in random order, so the
token, once cancelled, is seen. `Discovers` and `SignalsArrive` assume in the property
itself that datagrams of the kind they need get through again and again: for `Discovers`
a request of the client to the server and a response of the server to the client, if
they are sent again and again (`ReceiveFrom`). As both may be lost, a client that asked
once would not discover.

## Proofs

TLAPS proves, for every segment size, counter width, number of tasks, queue
capacity and bound:

* `MessageProofs!Reassembly`: when the accumulator holds the first i-1 chunks of
  a payload, the i-th segment of `SplitIntoSegments` makes it the first i, and
  the last one completes the payload and resets it. This is the step of two
  inductions: that of the session's steps, and `RoundTrip`, which is about all
  segments of a payload: no packet but with the last, and then the payload.
  It rests on `SplitShape` (the segments partition the payload) and `CountFits`
  (the count fits the counter byte).
* `MessageFeedProofs!TypeCorrect`, for any peer: also a counter that wraps stays in
  its byte. `RunsInvariant` and its corollaries `PacketsAreRuns`, `HoldsTheOpenRun`
  and `DamageEndsWithTheMessage`, for a peer that never uses the largest counter
  (hypothesis `HonestPeer`; without it the wrapped counter breaks them). `OpenRun` says
  what the accumulator holds; `HoldsWholeRun`, which the invariant adds, says that it
  holds no less than it could.
* `SessionProofs!TypeCorrect`, without assumptions: types, and the bound of the
  packet queue.
* `SessionProofs!PacketsInOrder`, `NothingLost` and `SessionIsAChannel` (the
  refinement of `MessageChannel`), under `Serialised`: one task sends at a time,
  sends are not dropped, payloads are not empty. The run `session_concurrent`
  shows what happens without the first part, `session_cancel` what remains true
  without the second; without the third `HandledIsDelivered` fails.
* `SessionProofs!DamageStaysConfined`, under `OneSender`, which is `Serialised` without
  its second part: sends may be dropped at any await, and two sends in a row that
  succeed make the second one arrive.
* `ListenerProofs!TypeCorrect`, `ReadyCorrect` and `QueuedCorrect`, without assumptions; the
  first includes that a map holds only offers of its key, the last holds however often
  a connection_id is used.
* `ListenerProofs!AddableCorrect`, assuming that no step of `handle_offer` fails
  (`~OffersMayFail`): after a failed `set_remote_description` the dispatcher stays
  and candidates do reach a peer connection that has no description.
* `ListenerProofs!RegistrationsCorrect` and `WokenCorrect`, assuming that no
  `connection_id` is used twice (`~OffersRepeat`); the run `listener_repeat` shows
  what happens otherwise.

`Fifo` is not inductive: it does not say what is on the wire or in the
accumulator. `IInv` adds `WireInv` (each segment on the wire is the successor of
the one before it, `After`), `SenderInv` (while its channel is open, the sender is
at the successor of the last one) and `ReceiveInv` (the accumulator is the part of
the message that `After(handled)` belongs to, and all messages before it have been
completed). `OnMessageInv` is the heart: by `WireInv` the next segment is
`After(handled)`, by `ReceiveInv` the accumulator waits for exactly that one, and
`Reassembly` says what becomes of it. A send that fails leaves a gap, which is
why `SenderInv` holds only while the channel is open.

When sends may be dropped the wire has gaps, `After` is of no use, and
`ConfinedInv` looks back instead of ahead. `OrderInv`: whatever segment is on the
wire, those of its message before it are the ones just before it, so a torn message
lacks only its end. `SendingInv` and `OkInv`: a send in progress has put what it says
on the wire, one that returned Ok all of it. `HeldInv`: when the accumulator was
empty at the first segment of a message it has held the message since, and a
message that was held in full was delivered. A message that was sent with Ok ends
with the counter 0, which empties the accumulator, so the next one begins well.

The listener's invariants need strengthening of the same kind. `AskInv` says that a
callback asks after it has set its channel, so the last of the two to ask finds
both (`LastAsks`). `AddInv` says that only an offer whose handling has ended has
candidates, because the loop that dispatches them is the one that handles offers.
`RegistrationInv` adds to `KeepsRegistrations` the order in which entries go: the
dispatcher with the connection, the task after its dispatcher, the notifier with
the first candidate or the end of the task. Since no two offers share a key, what
an entry loses is always its own doing.

* `FormatsProofs`, without assumptions, for every text, every server data and every
  length: signals, negotiation messages and server data come out of their encoding as
  they went in (`SignalRoundTrip`, `NegotiationRoundTrip`, `ServerDataRoundTrip`); each error
  table is inverted by its own reader and the two agree up to 19 only (`ErrorTables`);
  what `set_pong_data` accepts can always be answered with (`PongIsAnswered`), so the `?`
  of lan.rs:279 never fires; a signal is received if its text has at most 4031 bytes,
  fits a datagram up to 65439 and is marshalled up to 65503 (`MessageReach`), so the
  texts between the first two are lost without an error.
* `LanSignalingProofs`, without assumptions, for any number of nodes and hosts, any
  network that loses and repeats, and every timeout, interval and channel capacity: `TypeCorrect`, `AddressesStayFresh`,
  `SignalsComeOutAsMeant`, `ShutdownEndsIt`, and `SubscriberSeesAFeed`, the
  refinement of `SignalFeed`. `AddressesAreFresh` is not inductive: an address may
  be as old as the timeout just before a tick. `AddressInv` says that age and
  remaining wait together stay below the sum of both. `NetworkInv` says what a
  datagram tells of its sender: where it is bound, that a message was sent. Hence a
  signal that comes out was meant, whoever receives the datagram. `FeedInv` keeps
  the receiver at most one position ahead of the channel; with it a publication
  in a full ring is the loss of the oldest unread signal (`PublishStep`), and a read
  takes the head (`ReadStep`).
* `StreamIoProofs`, without assumptions: `StreamUsesSession` (whatever is polled, the
  session below sees only sends, recvs and closes of tasks, so
  `SessionProofs!TypeCorrect` carries over), `IoTypeCorrect`, `ShutdownComesAfter`,
  `FlushCovers`, and `StreamIsBytewise`, the refinement of `ByteStream`: the bytes that
  `poll_read` gives out are those that `poll_write` took. The invariant `PollInv` ties the stored future to the send of the
  session, and the closed flag to a stream without a send; `WrittenInv` splits
  what is written at `Kept`: the bytes before it are in messages that were sent,
  those after it are held by the pending future, and a flush never reaches past it.
  For the refinement `BytesInv` follows a byte through the session. A byte carries the
  number of its send and its place in it (`SentInv`), and so says where it is from.
  `LinkInv` is the session's argument under a stream, whose one future is never
  abandoned while the channel is open but by dropping the stream; `PackedInv` says
  that the packets are the sent payloads in order, the empty ones left out;
  `PlacedInv` that what is written is these payloads one after the other; `GotInv`
  that what has been received is the beginning of what is written and ends where a
  message ends. When `recv` returns a packet, the order of the messages in the
  packets and in what is written makes it the continuation of the latter.
* `NethernetSystemProofs`, of `connect` alone and without assumptions:
  `ConnectTypeCorrect`, `CandidatesComeAfterRemote` (`AnswerInv`: who has reached the
  remote description has read an answer, and the candidate task runs only after
  that) and `EveryCandidateIsPassedOn`. `MissInv` adds to `NoneMissed` that the
  buffer is empty once the candidate task runs: otherwise what the task reads would
  overtake what is buffered. What `CandidatesIn` does with one signal more or less
  is proved by induction on the length of the sequence.
* `NethernetSystemProofs`, of the composition: each end still follows its own module
  (`ClientIsConnect`, `ServerIsListener`), by which `SystemAddsAfterRemote` and
  `SystemPassesCandidatesOn` carry over, and the theorems of `ListenerProofs`, which
  are taken in as `ServerFacts` (`SameSpec`). `SystemTypeCorrect` adds that no answer
  comes unasked: `AskedInv` says so of the offers that reach `handle_offer`.
  `SystemServesAnswers`, under `~OffersRepeat`, needs both ends: by `AnswerInv` a
  client past its answer loop has read an answer, by `ReplyInv` an answer on the
  network is that of an offer that is answered for good, and by `RegistrationInv` of
  the listener such an offer has its dispatcher while its connection is up.

The assumptions on the constants (`SizesAssumption`, `ListenerAssumption`,
`ConnectAssumption`, `SystemAssumption` and so on) only say what kind of value each
is, and TLC evaluates them on the instances of the runs.

The induction theorems of the library take an operator and cannot be used with the
provers at hand. Induction is done over sets instead: `NatSetInduction` and
`InductionUpTo` derive it from the least element of a set of numbers
(`WFMin`, `NatLessThanWellFounded`). For that `CandidatesIn` is a recursive function.

Only model-checked: liveness under fairness, which is out of the prover's reach.
These are `OkSendsArrive` and `SendsEnd` of the session, `AnsweredIsAccepted`,
`GoneIsCleanedUp` and `DropEndsTheTask` of the listener, `FlushedArrives` of the
stream, `AnsweredReturns`, `OkIsAccepted` and `ReturnsUnlessLost` of `system`, and
`Discovers`, `SignalsArrive` and `SubscribersSeeTheEnd` of `lan`. Every other property
of a passing run is a theorem, those of the session, the listener, the accumulator
and `AnswerIsServed` under the hypotheses named above.

## Not modelled

Encryption and checksums (AES-ECB and HMAC of external crates; only their lengths
are in `Formats`); the parsing of bytes that no sender of this crate writes; the MOTD
builder and the messages of `NethernetError` (no control); logging;
`Session::wait_for_connection`, which changes nothing and is called by nothing in the
crate (`connect` has a wait of its own, `IcePolled` and `IceTimeout`); SDP and the JSON of
candidates. Of the WebRTC library only what the crate relies on: the reliable channel
is ordered and calls its handler for one message at a time, either end may close
it, the events of a peer connection arrive at any time, and two peers with each
other's descriptions and a candidate may find each other.
