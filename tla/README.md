# A TLA+ verification of just-webrtc

This directory specifies and verifies the three layers of the repository. The
largest is the signalling protocol of `just-webrtc-signalling`: the gRPC server that
lets WebRTC peers find each other and exchange offers and answers, and the client
that runs a full mesh of signalling chains over it. Below it is the peer connection
of `just-webrtc`, under the two programs that use one: the crate's test and the
echo task of the example. Above it is the example peer, which hands its connections
from callback to callback. File and line references are to `src/`; `server.rs` and `client.rs` stand for
`crates/just-webrtc-signalling/src/...`, `native.rs` and `wasm.rs` for
`crates/just-webrtc/src/platform/...`, `data_channels.rs` for
`crates/just-webrtc/tests/data_channels.rs`, `main.rs` for
`examples/signalling-peer/src/main.rs`.

## 1. The system

| Component | Source | State | Operations |
|---|---|---|---|
| Signalling server | `server.rs` | `GENERATOR` (atomic u64), `peers` (`RwLock<HashMap<u64, Listeners>>`), two `OnceLock`ed senders per peer, one broadcast channel of capacity 16, two bounded channels of capacity 16 per peer | `advertise`, `teardown`, `peer_discover`, `open_peer_listener`, `open_offer_listener`, `open_answer_listener`, `signal_offer`, `signal_answer`, and `handle_teardown` behind the last two |
| Signalling client | `client.rs` | `RtcSignallingPeer`: `local_id`, `discovered_peers`, `first_discovery`, the queue of futures (`unordered_futs`), the three listener streams | `start_peer`, `step` (eight arms), `close` |
| Client and callback builders | `client.rs` | configuration, boxed callbacks | setters |
| Protocol | `proto/main.proto`, `lib.rs` | - | messages |
| Peer connection | `crates/just-webrtc/src/platform/{native,wasm}.rs` | an `AsyncCell` holding the latest connection state, an unbounded queue of channels, one of ICE candidates ended by `None`, per channel a ready `AsyncCell` and a queue | `state_change`, `receive_channel`, `collect_ice_candidates`, `wait_ready`, `receive`, callbacks of the WebRTC engine |
| Builders, simple peers | `crates/just-webrtc/src/lib.rs` | configuration | `build`, `new` |
| Types | `crates/just-webrtc/src/types.rs` | none | field-by-field conversions |
| Example peer | `examples/signalling-peer` | `PeerConnectionMap`, the connections its callbacks hold, the state of `peer_echo_task` | `run_peer`, the five callbacks, a `select` loop |
| Test and README program | `data_channels.rs` | the line it is at | one await after another, over both ends |
| Example server | `examples/signalling-server` | none | runs `serve` and `serve_web` |

How they interact. A peer's `start_peer` makes four calls in turn: `advertise`
(it gets an identifier), `open_peer_listener`, `open_offer_listener`,
`open_answer_listener`. The peer listener yields a snapshot of the directory and
then the broadcast changes. For every peer of its *first* message a peer runs a
*local chain*: `create_offer` (callback), `signal_offer`, and later
`receive_answer` and `local_sig_cplt` (callbacks) when the answer listener yields
the answer. The other peer runs a *remote chain*: the offer listener yields the
offer, `receive_offer` (callback), `signal_answer`, `remote_sig_cplt` (callback).
The server forwards an offer or an answer into the bounded channel of the
target; when that channel's receiver is gone, it tears the target down.

What is hard about it:

* *Interleaving.* Handlers run in parallel tasks. None of them awaits, but each
  crosses several locks, atomics and channels, and releases a lock before the
  step that depends on it: the snapshot and the creation of the broadcast
  receiver (`server.rs:153-161`), insertion and announcement (93-106),
  announcement and removal (52-57), the look-up of a signal's target and its
  teardown (198-222).
* *Two sources of truth.* A peer's `discovered_peers` is built from a snapshot,
  from changes, and from `peer_discover`, which replaces it (`client.rs:343-369`).
* *Failure.* A peer may crash, lose its connection, or run into the deadline of
  a call the server executes all the same; the server notices a dead peer only
  when a signal is sent to it.
* *Limits.* The channels hold 16 messages, the broadcast channel overflows, the
  identifier counter wraps.
* *Waiting.* While `step` waits for a call, no other future of the peer is
  polled.
* *Sharing.* The callbacks of the two chains a pair of peers may run share one
  entry of the example's map, and hold what they took from it while they wait
  (`main.rs:220-267`).

What makes each component correct:

* server: nobody leaves the directory unannounced and nobody enters it for good
  unannounced; a live peer is never removed; a listener is never replaced; an
  identifier is used once; an accepted signal reaches its target; changes are
  broadcast in an order that makes sense, and their loss is reported;
* client: of any two peers at least one makes an offer and no offer is made
  twice; chains only advance on what the remote peer did; acknowledged offers
  are answered; resynchronising loses no peer;
* peer connection: nobody waits for a state, a candidate, a channel or a ready signal
  that is there, or has been and is still true;
* example peer: a callback finds the connection its own chain has made, both ends
  of a connection run the echo and take different sides, its loop never waits for
  a channel that does not come.

## 2. The modules

| Module | Extends | What it is |
|---|---|---|
| `PeerDirectory` | | the abstract directory: identifiers join at most once, are announced before they leave, never come back |
| `SignallingServer` | | `server.rs`: state, one action per step of each handler, the general callers and readers the server faces, the server's properties, and the refinement mapping to `PeerDirectory` |
| `SignallingClient` | `SignallingServer` | `client.rs` composed with the server: the program of each peer, crashes and closes, fairness, the properties of the two together |
| `SignallingChain` | | the abstract handshake of each pair of peers: offered at most once, answered at most once and only when offered, lost only when its target stops listening |
| `ExamplePeers` | `SignallingClient` | `run_peer`, `PeerConnectionMap` and the five callbacks of `main.rs` |
| `PeerConnection` | | `native.rs` and `wasm.rs`: the connection at both ends, its cells, queues and handlers, and the WebRTC engine that calls them |
| `EchoPeers` | `PeerConnection` | `peer_echo_task` and `channel_echo_task` of `main.rs`, run at both ends |
| `ChannelTest` | `PeerConnection` | the program of `data_channels.rs` |
| `MCServer`, `MCSignalling`, `MCExample` | | bounds and scenarios for TLC |
| `SignallingServerProofs` | `SignallingServer`, `TLAPS` | types, listeners, announcements, and the refinement of `PeerDirectory` |
| `SignallingPeerProofs` | `SignallingClient`, `SignallingServerProofs` | peers are callers of the server; types of the two together |
| `SignallingMeshProofs` | `SignallingPeerProofs` | a peer's program, identifiers, live peers stay registered |
| `SignallingViewProofs` | `SignallingMeshProofs` | the history of changes, snapshots, what peers discover |
| `SignallingChainProofs` | `SignallingViewProofs` | signals: why they are sent, that they arrive, once |
| `SignallingHandshakeProofs` | `SignallingChainProofs` | the refinement of `SignallingChain` |
| `ExamplePeersProofs` | `ExamplePeers`, `SignallingHandshakeProofs` | the example's map, what its callbacks find in it, and what they inherit of the peers |
| `PeerConnectionProofs` | `EchoPeers`, `ChannelTest`, `TLAPS` | the connection under both of its programs |

### Server

`generator`, `peers`, `listener_tx`, `changes` are the `GENERATOR`, the keys of
the map, the `OnceLock`s of its entries and all that was ever sent to the
broadcast channel (its receivers only read what the last `BroadcastCapacity`
sends left). A stream is named by the client that opened it, so `listener_tx`
holds the client whose channel the sender feeds; `queue` and `rx` are that
channel and its receiving half. `call[c]` is the call client `c` has with the
server, with the stage its handler has reached.

One action is the code between two points where another handler can get in
between: a lock taken or released, the atomic `fetch_add`, a broadcast.
`advertise` is `FetchAdd`, `AdvertiseInsert` (or `AdvertiseDuplicate`),
`AdvertiseBroadcast`; `handle_teardown` is `TeardownBroadcast`,
`TeardownRemove`; `open_peer_listener` is `PeerListenerSnapshot`,
`PeerListenerSubscribe`; the remaining handlers do all they do under one lock and
are one action, with one definition per outcome. `signal_offer` and
`signal_answer`, and the two `open_*_listener`, differ only in the kind, which is
a parameter. A signal stands for who sent it; SDP and ICE content is passed
through by the code and left out.

The empty message a listener starts with (`None` in `queue`), the order in which
`try_send` looks for a dropped receiver and for room, and the
`failed_precondition` a caller gets after it tore its target down are kept.

### Client

`pc[c]` is where the program of peer `c` is: in `start_peer` (`starting`), between
steps (`running`), inside a step that waits for `peer_discover` (`syncing`) or for
a signal (`stepping`), in `close` (`closing`), or ended (`gone`). `pending[c]` are the callbacks
among its queued futures; the three listener futures are always queued while the
peer runs and are not listed. `chain[c]` is a history variable of what its chains
have done; no action reads it. Each arm of `step` is an action `Step...`, and what
follows the call it makes, if any, is another.

`Abandon(c)` stands for every way a peer may stop at any point: a crash, a lost
connection, a deadline, an error of a callback. A call it was waiting for may
still reach the server, run, or be lost; the server drops the peer's streams
later, one by one, or never.

`Handshake(a, b)` is the refinement mapping to `SignallingChain`: it reads off where
the chain from `a` to `b` has got to from the queues and the history of the two, and
`deaf` are the peers whose receiver is dropped. Nothing of
calls, replies and identifiers is left in it; the mapping has to decide for each of
them whether a signal counts as sent, which is when the server has queued it, not
when the reply arrives.

### Example peers

`connections[c]` is the `PeerConnectionMap`: `absent`, `taken` (the key is there, its
`Option` is `None`) or the role of the connection that is there. `held[c]` are the
connections that callbacks have taken and keep in their own hands. `OfferCreated`
and `OfferReceived` are the two callbacks that insert; `Take` is the first part of
the other three, up to their first wait; `AnswerReceived` and `EchoReturned` are
their second parts, and together with these the step of `SignallingClient` in which the
future leaves the queue. `CallbackFails` is every `Err` of the map's three
methods: it goes through `step` and ends `run_peer`. The map is never cleaned:
`EchoReturned` leaves its key.

A callback is polled only while its peer waits in `step`, but in any order with the
others of the same peer. `PeerConnection` is not composed with this module: a
connection is what it is to the map, who made it and who holds it.

### Peer connection, echo task and test

`peer_connection_state`, `candidate_rx`, `channels_rx`, `ready_state` and `rx` are the
fields of `PeerConnection` and `Channel`, per end of one connection with one
channel. An `AsyncCell` holds one value until `take`; `set` overwrites it. `state`,
`gathering`, `data_channel` and `wire` belong to the WebRTC engine, which is not part
of the repository. `types.rs:240-268` describes each state by those of the transports
and says nothing of their order, and the handler passes on whatever it is given
(`native.rs:245-255`, `native.rs:459-466`), `New` too. So `StateChange` lets any state
follow any other at each end, except that `failed` is final; `MaxStateChanges` bounds the
changes of both ends together. `Closed` is left out: it is reported to an end that closed
its connection itself, for which just-webrtc has no call. The data channel opens
while connected, may close when the connection has failed, its transports are closed
(`new` again) or the other end is gone, and is reliable and ordered, as
`DataChannelOptions::default` asks. Each engine action does what the handler that `build` registered for it does.
`wasm.rs` has the same handlers, on one thread: its behaviours are among those of
the model.

`stage` is where the application is: `build`, `collect_ice_candidates`, the exchange
of descriptions, then `peer_echo_task`. The task is a `select!` over four
futures, and every arm is an action that is enabled at `stage = "select"`:
`TaskRecovered` ... `TaskIgnores` for a state change, `TaskReady`, the echo itself, and
`TaskTimeout`. `receive_channel` is awaited inside the arm of `Connected`; meanwhile
(`stage = "receive_channel"`) no other arm is taken. `NoMoreChannels` is the error of a
queue whose sender is gone: the offerer's is dropped when `build` returns
(`native.rs:293-328`: only the handler of incoming channels keeps it). Two history
variables record what an end was told: `reported` is the last state of the two kinds that
the task acts on, up (`New`, `Connected`) or `Disconnected`; `odd` collects what no text of
the example expects of a sequence of states: one that was overwritten before it was taken
(`missed`), an up state that follows another without an interruption (`again`), an
interruption before the first up state (`early`).

`ChannelTest` runs another program over the same connection: one task that holds
both ends and takes one thing after another from them, in the order of `Program`. While
it waits at one end, the other goes on, and what is set there is overwritten or
kept until the task comes. It returns at the first error of `send`.

Definitions marked "variant" are plausible mistakes in the definition that
follows each of them. They are used by no action: each property was tried
against such a mistake and does find it.

## 3. What TLC checks

| Run | Setting | Shows |
|---|---|---|
| `server_any` | the server alone, two callers sending any call in any order | `RemovalAnnounced`, `AdditionAnnounced`, `ListenerKept`; the server implements `PeerDirectory` (`DirectorySpec`) |
| `server_wrap` | the same, with an identifier counter of 2 that wraps, and peer listeners | the types, and that an identifier met again while in use does not disturb its owner's listeners |
| `ends_2` | two peers that may close, one may also fail anywhere; capacities of 1 | `TypeOK`, `LivePeersStayRegistered`, `DiscoveryCoverage`, `NoSignalLost`, `ChainCausality`, `NeverSelf`, `ChangesInOrder`, `NoDuplicateSignal`, with full listeners, lagging peer listeners and teardowns of the same peer that race |
| `mesh_3` | two peers join a third, together; the third is there or has died unnoticed | three chains in every interleaving, glare included; both find the dead one disconnected and tear it down, resynchronise, or lag behind a broadcast channel of 1: `LivePeersStayRegistered`, `ChangesInOrder`, `AnnouncedPeersAreDiscovered`, `DiscoveryCoverage`, `NoDuplicateSignal`, `ChainCausality` |
| `live_2` | two peers, any start, one may close, fairness | `StartReturns`, `OffersAnswered`; signalling implements `SignallingChain` (`ChainSpec`) |
| `example` | two example peers, one may fail anywhere, fairness | `ExampleTypeOK`, `CallbacksFindTheirs`, `OnlyGlareFails`, `EchoSidesDiffer`, `OffersEcho`, `SignalRemovesTheDead` |
| `channels` | the test over a connection that may be interrupted and fail, fairness | `TestTypeOK`, `NoLostWakeup`, `TestCompletes` |
| `echo` | both ends of a connection that may be interrupted, recover and fail, fairness | `EchoTypeOK`, `EchoAlternates`, `TimeoutFollows`, `UnwrapExplained`, `EchoStarts`, `FailureEnds` |
| `full_mesh` | two peers, no failure, real capacities | a violation, below |
| `view_converges` | two peers, one of which may close, real capacities | a violation, below |
| `glare` | two example peers, no failure, real capacities | a violation, below |
| `echo_unwrap` | the setting of `echo`, three state changes | a violation, below |

**Bounds.** Peers start once and make at most one offer to each peer they find,
so the composed system is finite without a bound on its variables. Two callers
are enough for every race between two handlers; three peers are needed for a
third party's teardown, for two peers that disagree about a third, and for
changes that are broadcast while a peer resynchronises. `server_any` and
`server_wrap` cap the number of broadcast changes (`MaxChanges`) and choose the
calls that are made (`CalledOps`, `CalledIds`, `CalledKinds`). Capacities of 1 to 3
in place of 16 make full listeners and lagging peer listeners happen within a few
steps; the code does not look at the number. `IdModulus` is one more than the
identifiers that are taken; `Wraps = FALSE` says that no behaviour takes 2^64
identifiers and comes round, so an identifier is not handed out again;
`server_wrap` is the run without that assumption.

The capacity of the broadcast channel is 1 in `ends_2`, `mesh_3` and `example`, so
that a peer lags after two changes; the listeners of `mesh_3` hold 3, so that an
error of a full one does not end the peers before the interesting part (`ends_2` has
full ones).

`echo` takes four state changes, at the two ends together: both come up and are interrupted
or fail, or one is interrupted, comes back and is interrupted again while the other
waits for it. `channels` takes six, so that one end is interrupted twice while the test waits
for the other. Both take one candidate: the candidates only delay the `None` that ends
them. The proofs hold for any number of changes.

**Scenarios.** With three peers, all interleavings of all starts are out of reach.
In `mesh_3` the peers of `Late` start when the others have settled, and those others
fail or close only when they are idle, before a late one starts (an error of a call
or of the peer listener ends them at any time). The late peers are alike, so
`mesh_3` is symmetric in them. `PromptSpec` (`ends_2`, `mesh_3`, `live_2`, and in the form
of `PromptExampleSpec` `example`) takes at once the steps that only one peer can
see: the next call after a reply, an empty message skipped, a callback that
returns (in `example` the callbacks are in every order). Such a step reads and
writes nothing that others write before the peer's next visible step. `CanCall` and
`CanCallback` say when there is one; on all states of `ends_2` they were compared with
`ENABLED` of the steps. `full_mesh`, `view_converges` and `glare` use the unreduced
specification, which has the same actions.

**Fairness.** `Fairness` is weak fairness of each handler (tokio polls a task
that is ready) and of each peer (the application calls `step` in a loop, as the
README, the tests and the examples do, and its callbacks return). Nothing is
assumed of `Close`, `Abandon`, lost requests or dropped streams: they need not
happen. `PromptFairSpec` has the same fairness. `ExampleFairness` (`example`) is weaker where the
example is: a callback that makes a connection or applies an answer returns, but an
echo task may run for good, so `EchoReturned` is not among the fair steps.
In `echo`, each application is polled (weak fairness of `Application`) and the engine
finishes what it began (`Completes`: gathering, opening a channel, delivering a
message); no state change and no timeout is assumed to happen. `channels` assumes the same of
its one task and the engine; `TestCompletes` takes it as a premise that both ends are
connected in the end.
Deadlock is not checked: a mesh with nothing left to signal rests, and so does a
connection whose task returned.

**What was found.**

* `FullMesh`: two peers that start together may never connect. A peer opens its
  peer listener before its offer listener (`client.rs:773-774`). Of two peers
  that start at the same time, one finds the other in its snapshot and offers
  while that one's offer listener is not open; it gets `failed_precondition`, which
  `step` logs and forgets (`client.rs:398-405`). The other peer did not have it in
  its snapshot and offers nothing. The example's README
  (`examples/signalling-peer/README.md:9`) says "You should see them all
  communicating with each-other!".
* `ViewConverges`: a peer may never hear of another. The snapshot is taken under
  a read lock that is released before the broadcast receiver is created
  (`server.rs:153-161`), so a change in between is in neither; no
  "peer changes have been lost" (`server.rs:170`) is reported.
  `DiscoveryCoverage` still holds: the peer that came later has the earlier
  one in its snapshot. This is the shortest way to the violation, and not the only one:
  `handle_teardown` broadcasts a removal before it takes the entry out
  (`server.rs:52-60`), so a peer that reads the directory in between, in its snapshot or when
  it resynchronises (`client.rs:363-365`), has one whose removal it does not
  receive any more, and keeps it. With `discovered[c] \subseteq peers` in place of the
  equality, TLC finds that one.
* `CallbacksSucceed`: two example peers may end each other. When they start together,
  each may find the other in its first message, and each makes an offer
  (`client.rs:370-384`). The map has one entry for a remote peer, so the second of
  `create_offer_fn` and `receive_offer_fn` fails with "pre-existing peer ID!"
  (`main.rs:174-179`), which ends `run_peer` and every connection of that peer
  (`main.rs:281-283`). `OnlyGlareFails` shows that the map refuses a callback for no other
  reason, `CallbacksFindTheirs` that it refuses none but an insert, and `EchoSidesDiffer`
  that the check, hard as it is, keeps the two echo tasks from both waiting for a
  request. What is said of the map is not said of the engine's calls and of the echo:
  their errors are returns like any other end of a peer (`Abandon`).
* `UnwrapSucceeds`: the example's echo task may panic. When an interruption comes and
  goes before the task is polled (it is a future among those of `step`, which
  polls none of them while it waits for a call), `Disconnected` is overwritten in the
  cell (`native.rs:254`). The task sees `Connected` twice, with no timeout armed, takes
  the second for the first (`main.rs:78-83`) and asks for a channel again; at the
  offerer `receive_channel` fails and is unwrapped.

Some passing properties name the one case in which the code does not do what one would
expect. Each exception is needed: without it, TLC finds the property violated.

* `UnwrapExplained`: besides a missed state, an end that is reported up again makes the task
  panic, though every state was seen. `New` is treated like `Connected` (`main.rs:75-76`),
  and a second such state without an interruption in between like the first.
* `EchoStarts`: a `Disconnected` that comes before the first `Connected` is seen arms the
  timeout; the `Connected` is then logged as "peer connection recovered!"
  (`main.rs:78-80`), the channel stays in its queue, and no echo starts at that end.
* `FailureEnds`: at the answerer `receive_channel` waits for a channel as long as it takes, and
  the `select!` that is "concurrently monitoring peer connection state" (`main.rs:67-69`)
  is not polled meanwhile: if no channel comes, the failure of the connection goes unseen.
* `TestCompletes`: the ready signal is one cell, which a close overwrites
  (`native.rs:188-196`). A channel that opened and closed before `wait_ready` is called was
  open, and `wait_ready` never returns, not even with an error. Nothing else is lost in
  that cell (`NoLostWakeup`).

## 4. What is proved

TLAPS checks the following for every set of clients, every capacity and every
size of the counter, and for any number of state changes and candidates of a
connection. The assumptions on constants are `ServerAssumption`, `PeerAssumption`
and `ConnectionAssumption`. A theorem whose row says so has the hypothesis `~Wraps`.

| Property | Theorem | `~Wraps` | Invariant |
|---|---|---|---|
| `ServerTypeOK` | `TypeCorrect` | | `TypeInv` |
| `ListenerKept` | `ListenersKept` | | `TypeInv` |
| `RemovalAnnounced`, `AdditionAnnounced` | `RemovalsAreAnnounced`, `AdditionsAreAnnounced` | yes | `DirectoryInv` |
| `DirectorySpec` | `ServerImplementsDirectory`, `PeersSeeADirectory` | yes | `DirectoryInv` |
| `TypeOK` | `PeerTypeCorrect` | | `PeerTypeInv` |
| `ServerSpec` | `PeersAreCallers` | | `PeerTypeInv` |
| `LivePeersStayRegistered` | `LivePeersRegistered` | yes | `MeshInv` |
| `ChangesInOrder` | `HistoryInOrder` | yes | `ViewInv` |
| `DiscoveryCoverage` | `OneFindsTheOther` | yes | `ViewInv` |
| `NeverSelf` | `NobodyFindsItself` | yes | `ViewInv` |
| `AnnouncedPeersAreDiscovered` | `AnnouncedAreDiscovered` | yes | `ViewInv` |
| `NoDuplicateSignal` | `SignalsArriveOnce` | yes | `MeshInv`, `ChainInv` |
| `NoSignalLost` | `AcknowledgedIsNotLost` | yes | `MeshInv`, `ChainInv` |
| `ChainCausality` | `ChainsAreCausal` | yes | `MeshInv`, `ChainInv` |
| `ChainSpec` | `SignallingImplementsChain` | yes | `HandshakeInv` |
| `ExampleTypeOK` | `ExampleTypeCorrect` | | `PeerTypeInv`, `MapTypeOK` |
| `CallbacksFindTheirs` | `CallbacksFind` | yes | `MapInv` |
| `OnlyGlareFails` | `GlareAloneFails` | yes | `FailedInv` |
| `EchoSidesDiffer` | `EchoesDiffer` | yes | `MapInv` |
| `DirectorySpec`, `ChainSpec` and the properties of peers above, from `LivePeersStayRegistered` to `ChainCausality`, of the example | `ExampleSignals` | yes | as above |
| `EchoTypeOK` | `EchoTypeCorrect` | | `EchoInv` |
| `TimeoutFollows` | `TimeoutIsRight` | | `EchoInv`, and itself |
| `EchoAlternates` | `EchoTakesTurns` | | `EchoInv`, and itself |
| `UnwrapExplained` | `UnwrapIsExplained` | | `UnwrapInv` |
| `TestTypeOK` | `TestTypeCorrect` | | `TestInv` |
| `NoLostWakeup` | `NoWakeupIsLost` | | `TestInv` |

`~Wraps` says that nobody comes round the 2^64 identifiers. It is needed: with a
counter that does, an identifier is admitted again after it left, which
`PeerDirectory` forbids, and two peers may have the same one. Types, listeners and
`PeersAreCallers` are proved without it.

### The server

* Types. The types of the call record are not inductive: handlers insert and
  broadcast the identifier their call names, so `TypeInv` adds that every call that
  has started names one (`Named`).
* `ListenerKept` follows from the types. Every action but `AdvertiseInsert`,
  `TeardownRemove` and `ListenerOpened` leaves `listener_tx` alone, and the guards of
  these three exclude the entry of a peer that stays.
* The directory. Neither announcement property is inductive, because the announcement
  and the update of the map are apart. `DirectoryInv` adds: identifiers in the map
  were handed out (`HandedOut`); one that is taken but not inserted is not in the
  map and has one holder (`InsertFresh`, `InsertAlone`); whoever is about to remove
  has announced it (`RemovePending`). `StepKinds` splits the steps of the server into
  the six that concern the directory and those that leave it and the handlers' hold
  on it alone (`Uninvolved`); each of the six is a lemma that shows both that the
  invariant is kept and which step of `PeerDirectory` it is: `AdvertiseInsert`
  joins, `TeardownBroadcast` announces, `TeardownRemove` leaves (or does nothing,
  when somebody else was first), the others stutter. `AdvertiseDuplicate` is shown
  to be unreachable.

### Peers and server

* `PeersAreCallers` is `Spec => ServerSpec`: every step of `client.rs` is one that the
  callers and readers of `SignallingServer` may take. It needs `Identified`: a peer
  that got past its `advertise` has an identifier, so the calls it makes are among
  `Requests`. All that is proved of the server carries over.
* Which peers may stop at any point is a choice of the setting (`Unreliable`), and in the
  example a callback may end any. So the invariants are proved of `StepsSpec`, where every
  peer may stop at any point (`Stops`). `Spec` implies it (`SpecSteps`), and so does
  `ExampleSpec`. A lemma `...OfSteps` is the theorem of that name, of `StepsSpec`.
* A step is one of peer `c` or of the server for the call of `c` (`StepOf(c)`), and leaves
  the program of every other peer alone (`KeptPeer`). Each of the invariants below is
  shown once for `c` and once, with a lemma `...Kept`, for the others.
* Registration (`MeshInv`). That a live peer is in the directory with its listeners
  depends on where its program is, on the call it has out and on the teardowns under
  way. `ProgramInv` says that a peer is sequential: its location tells its call, in
  whose name it is made and which streams are open. `ReachedInv` says that nothing, a
  queue, a change, a reply, names an identifier the counter has not reached, so the one
  a new peer takes is nobody else's (`OwnAlone`). With these, `RegisteredInv`: a sender
  in the directory belongs to the peer that has this identifier (`ListenerOwners`);
  a live peer has its entry, and in it the listeners it opened so far (`Registered`);
  no handler is about to remove it (`NoThreat`). The last is the heart of it: a
  signal tears its target down only when it found the target's receiver dropped,
  and by `ListenerOwners` that is the receiver of the peer it removes, which has ended.
* What peers see (`ViewInv`). Changes in order needs that whoever may be torn down was
  announced, and that an identifier whose advertise is not announced appears in no
  change (`HistoryInv`). For `DiscoveryCoverage`, `SnapshotsMeet` says of any two peers that
  have read the directory, one in the call it has not received the reply of perhaps,
  that one read the other: the second to read finds the first by `Registered`.
  `NeverSelf` rests on `OwnAddRead`: the addition of a peer is older than its broadcast
  receiver, and every change it receives is newer (`Reading`). A resynchronisation
  replaces the set of discovered peers by what `peer_discover` found; `DiscoveredInv`
  says of the reply what it says of the set, that it has everyone whose addition
  was read and whose removal is not announced, by `AdditionAnnounced` and
  `RemovalAnnounced` of the directory.
* Signals (`ChainInv`). `FreshInv`: the first message of a listener is read once, so
  offers are queued once. `ReasonsInv`: a peer makes an offer to whom it found in its first
  message, an answer to whom it has an offer from, and does not queue again what
  it is signalling or has signalled. From it, a signal is in its target's queue or history once
  (`ArrivesOnce`), and what arrived was sent by the peer of that name
  (`ArrivedWasSent`), even if the call that carried it has not returned. What was
  acknowledged is there unless the target dropped its receiver (`AcknowledgedArrives`).
  `ChainOrderInv` is the order of the callbacks of one chain.
* `SignallingChain`. `Handshake` counts occurrences in queues; `Stage` reads the same
  state off from membership, and `StageIs` shows the two equal. `SignalAccepted` is
  an offer or an answer of the handshake, hearing it a receipt, `StepLocalSigCplt`
  completes, a dropped stream deafens; every other step leaves the handshakes where they
  are (`Rests`). `Silent` says that nobody signals before its streams are open.

While this was proved, a definition of the model was corrected: the cases
of `Handshake` overlap (whoever completed a chain has got the answer before), and of
a `CASE` whose conditions overlap nothing can be proved but that it is one of the
values; TLC takes the first. They are `IF`s now.

### Example peers

* The peers are signalling peers. A part of a callback that only touches the map changes
  nothing that `SignallingClient` sees, the part that returns is the arm of `step` for it, and
  an error is a peer that stops (`ExampleIsStep`, `ExampleSteps`). Hence `ExampleSignals`, and
  `MeshInv` and `ChainInv` may be used below.
* What a step does to the chains of peer `c` with one remote peer is `ChainMoves`: a
  callback is queued only by the event that `step` queues it for, returns at most once,
  and a signal is acknowledged only after it was being sent. The history only grows.
* `EntryInv` relates the entry of a remote peer to the chains with it. `MadeOnce`: the chain
  that signalled made the connection, unless somebody has it out; a chain whose maker is still
  queued did not make it; only one of the two chains gets as far as signalling.
  `TakenOnce`: who holds a connection is a callback that is due, of the chain that made
  it, and left the place empty; an empty place has a holder or a chain that is
  complete. `OneAtATime`: the callbacks of one chain that take the connection are not
  due together.
* The steps on an entry are of five kinds (`EntrySteps`): it rests (`AtRest`), a callback makes
  its connection, takes it, puts it back, or ends its echo; a lemma for each
  (`EntryRests`, `EntryMade`, `EntryTaken`, `EntryPutBack`, `EntryEchoed`) shows that
  `EntryInv` is kept.
* `CallbacksFindTheirs`: a callback that takes is due, so its chain has signalled, so the
  connection is its chain's or out; it is not out, since another holder would be due
  as well and a completed chain has nothing due.
* `OnlyGlareFails`: by this, the map refuses only an insert, and it finds a connection of the other chain
  (`MakersGlare`). A remote chain is allowed only on an offer that arrived, which its peer sent
  because it found this one in its first message; that this one is a local chain says
  the same of it. Both facts are for good (`GlareStays`).
* `EchoSidesDiffer`: if both ends take the same side, both are at the same stage of chains of the
  same kind. Whoever completed a local chain has an answer, which by `ArrivedWasSent` the
  other sent, and identifiers are one peer's alone (`LocalIdAlone`): the other has
  signalled in both chains, which `MadeOnce` excludes. In the same way from the offer, if both
  have completed remote ones.

### The connection

* `ConnectionInv`: the types of `ConnectionTypeOK` do not exclude that a channel is queued
  twice; `ChannelOnce` does. `EchoInv` adds that a channel is waited for, made ready and used
  once (`ChannelInUse`), and the part each end has (`EchoParts`).
* `EchoAlternates` is inductive with `EchoInv`: what each action does to the number of
  messages under way follows from the part its end has.
* `TimeoutFollows` is inductive together with `LastStateSeen`, which is part of `EchoInv`:
  a state that waits in the cell of an end is the one its connection is in. What a task
  takes last is therefore the state of its connection, and the arms of the task set the
  timeout by it.
* `UnwrapExplained`. While no state was missed and none reported up a second time
  (`Regular`), `Prepared` relates the state that waits in the offerer's cell, the last one
  reported and the timeout: until the connection is reported up the channel is in its queue
  or the timeout is armed, or is about to be; when the state taken is an up one, either
  holds; and while the channel is awaited it is there and no other up state waits. A second
  up state and an overwritten one are what breaks this, and both go into `odd`. The
  answerer's wait has no error to unwrap.
* `NoLostWakeup`: as long as the test has not come to the line where it takes a state, the
  cell is not empty while the connection is up; the same of the channel and its ready cell
  (`TestInv`).

### Checked by TLC only

* `StartReturns`, `OffersAnswered`, `OffersEcho`, `SignalRemovesTheDead`, `TestCompletes`,
  `EchoStarts`, `FailureEnds`: liveness under fairness is out of the prover's reach, as
  is the comparison of `CanCall` and `CanCallback` with `ENABLED`.
* The reduced specifications `PromptSpec`, `PromptFairSpec`, `PromptExampleSpec`: what is proved
  is proved of `Spec` and `ExampleSpec`, which have all of their behaviours.
* Recursion and induction over data: nothing that is modelled needs them.

## 5. What is not modelled, and the plan

Not modelled:

* the builders, the simple peers and `types.rs`: values stored or converted field
  by field, no behaviour over time;
* tonic and HTTP/2 beyond what `SignallingServer` and `SignallingClient` say of calls
  and streams, and TLS;
* the contents of offers and answers;
* connections with several channels (every program of the repository opens one) and
  errors of the WebRTC engine's calls, which come out of `build` before there is a
  connection;
* a restart of the server: nothing is persisted, and a peer that loses the server
  ends with an error;
* an application that drops a `step` in the middle: none in the repository does;
* a peer that lives on while the server has given its connection up: a stream is dropped
  only of a peer that is gone, which is what the server can tell of either;
* a second `collect_ice_candidates` or `wait_ready`, which would wait for what the first has
  taken (`native.rs:115`, `native.rs:72`): no program of the repository calls them twice;
* the connection below `ExamplePeers`: the failure of a connection is there any return
  of the echo task, and `EchoPeers` has what leads to it.

An entry whose owner failed inside `start_peer` has no listeners; a signal to it is
rejected without a teardown (`server.rs:198-210`), so nothing removes it. The model
has these entries (`Abandon` while `starting`); no property excludes them, and
`SignalRemovesTheDead` speaks of peers that did listen.

Every safety property that the runs check is proved. What is left: a composition of
`ExamplePeers` with `PeerConnection`, in which the failure of a connection and the return
of the echo task are those of `EchoPeers`.
