-------------------------- MODULE SignallingServer --------------------------
(***************************************************************************)
(* The signalling server (crates/just-webrtc-signalling/src/server.rs): a  *)
(* gRPC service that hands out peer identifiers, keeps the directory of    *)
(* advertised peers, broadcasts its changes to peer listeners and forwards *)
(* offers and answers to the listeners of the peer they are for.           *)
(*                                                                         *)
(* tonic runs every call in a task of its own on a multi-threaded runtime. *)
(* No handler awaits anything, so one that has started runs to its end,    *)
(* but handlers of different callers interleave at each lock, atomic and   *)
(* channel operation: one action is the code between two of those points.  *)
(* A caller sends one call at a time and owns at most one stream of each   *)
(* kind; a stream is named by the client that opened it.  What the HTTP/2  *)
(* transport buffers is counted as still being in the stream's channel.    *)
(*                                                                         *)
(* A definition marked "variant" is no part of the model: it is a mistake  *)
(* one could make in the definition after it, for the properties to find.  *)
(***************************************************************************)
EXTENDS Integers, Sequences, FiniteSets

CONSTANTS
    Clients,            \* the programs that call the server
    IdModulus,          \* the u64 identifier counter wraps here
    Wraps,              \* FALSE: no behaviour comes round the whole counter
    BroadcastCapacity,  \* async_broadcast::broadcast(16)
    ListenerCapacity    \* flume::bounded(16)

ASSUME ServerAssumption ==
    /\ IdModulus \in Nat \ {0}
    /\ Wraps \in BOOLEAN
    /\ BroadcastCapacity \in Nat \ {0}
    /\ ListenerCapacity \in Nat \ {0}

Id == 0 .. IdModulus - 1
None == -1              \* an absent identifier; in a queue, the empty message
Kinds == {"offer", "answer"}

VARIABLES
    generator,      \* GENERATOR
    peers,          \* the keys of the peers map
    listener_tx,    \* [kind][id]: the OnceLock of the entry, {} until it is set
    queue,          \* [kind][client]: the channel behind the client's stream
    rx,             \* [kind][client]: that channel's receiving half
    changes,        \* every change broadcast so far, the overwritten ones too
    peer_listener,  \* [client]: the client's peer listener stream
    call            \* [client]: the client's current call

serverVars ==
    <<generator, peers, listener_tx, queue, rx, changes, peer_listener, call>>

-----------------------------------------------------------------------------
(* The messages.                                                           *)

Ops == {"none", "advertise", "teardown", "peer_discover", "open_peer_listener",
        "open_listener", "signal"}

\* "sent" is on its way to the server, "replied" is back with its caller; the
\* others say which step the handler takes next.
Stages == {"idle", "sent", "insert", "announce", "subscribe",
           "teardown", "remove", "replied"}

Statuses == {"ok", "failed_precondition", "aborted", "internal"}

Call == [op : Ops, at : Stages, id : Id \cup {None}, kind : Kinds,
         from : Id \cup {None}, status : Statuses, found : SUBSET Id]

NoCall == [op |-> "none", at |-> "idle", id |-> None, kind |-> "offer",
           from |-> None, status |-> "ok", found |-> {}]

AdvertiseReq         == [NoCall EXCEPT !.op = "advertise", !.at = "sent"]
TeardownReq(id)      == [NoCall EXCEPT !.op = "teardown", !.at = "sent",
                                       !.id = id]
PeerDiscoverReq(id)  == [NoCall EXCEPT !.op = "peer_discover", !.at = "sent",
                                       !.id = id]
PeerListenerReq(id)  == [NoCall EXCEPT !.op = "open_peer_listener",
                                       !.at = "sent", !.id = id]
ListenerReq(kind, id) ==
    [NoCall EXCEPT !.op = "open_listener", !.at = "sent", !.id = id,
                   !.kind = kind]
SignalReq(kind, from, to) ==
    [NoCall EXCEPT !.op = "signal", !.at = "sent", !.id = to, !.kind = kind,
                   !.from = from]

\* variant: the protobuf default of the enum
RemoveAsAdd(id) == [change |-> "add", id |-> id]

Add(id) == [change |-> "add", id |-> id]
Remove(id) == [change |-> "remove", id |-> id]
Change == [change : {"add", "remove"}, id : Id]

Broadcasts(change) == \E i \in DOMAIN changes : changes[i] = change

\* The position before the oldest change the broadcast channel still holds.
Overwritten == IF Len(changes) > BroadcastCapacity
                 THEN Len(changes) - BroadcastCapacity
                 ELSE 0

\* "first" until the initial snapshot is read; "since" and "pos" are positions
\* in changes: where the receiver was created and what it has read up to.
PeerListener == [state : {"none", "open", "dropped"}, first : BOOLEAN,
                 initial : SUBSET Id, since : Nat, pos : Nat]

NoPeerListener == [state |-> "none", first |-> TRUE, initial |-> {},
                   since |-> 0, pos |-> 0]

\* At most one sender in each entry: the OnceLock.
ListenerSlot == {s \in SUBSET Clients : \A d, e \in s : d = e}

ServerTypeOK ==
    /\ generator \in Id
    /\ peers \subseteq Id
    /\ listener_tx \in [Kinds -> [Id -> ListenerSlot]]
    /\ queue \in [Kinds -> [Clients -> Seq(Id \cup {None})]]
    /\ rx \in [Kinds -> [Clients -> {"none", "open", "dropped"}]]
    /\ changes \in Seq(Change)
    /\ peer_listener \in [Clients -> PeerListener]
    /\ call \in [Clients -> Call]

ServerInit ==
    /\ generator = 0
    /\ peers = {}
    /\ listener_tx = [kind \in Kinds |-> [id \in Id |-> {}]]
    /\ queue = [kind \in Kinds |-> [c \in Clients |-> <<>>]]
    /\ rx = [kind \in Kinds |-> [c \in Clients |-> "none"]]
    /\ changes = <<>>
    /\ peer_listener = [c \in Clients |-> NoPeerListener]
    /\ call = [c \in Clients |-> NoCall]

-----------------------------------------------------------------------------
(* The handlers.                                                           *)

At(c, op, stage) == call[c].op = op /\ call[c].at = stage

GoTo(c, stage) == call' = [call EXCEPT ![c].at = stage]

Reply(c, status) ==
    call' = [call EXCEPT ![c].at = "replied", ![c].status = status]

ReplyFound(c, ids) ==
    call' = [call EXCEPT ![c].at = "replied", ![c].found = ids]

\* variant: nobody is told
NoBroadcast(change) == UNCHANGED changes

Broadcast(change) == changes' = Append(changes, change)

\* variant: load and store where fetch_add belongs
NextIdStuck == generator

\* variant: a counter that does not wrap
NextIdUnbounded == generator + 1

NextId == IF generator = IdModulus - 1 THEN 0 ELSE generator + 1

\* advertise: take the next identifier, before the lock.
FetchAdd(c) ==
    /\ At(c, "advertise", "sent")
    /\ Wraps \/ generator < IdModulus - 1
    /\ generator' = NextId
    /\ call' = [call EXCEPT ![c].at = "insert", ![c].id = generator]
    /\ UNCHANGED <<peers, listener_tx, queue, rx, changes, peer_listener>>

\* variant: the entry is inserted without looking
NeverDuplicate(id) == FALSE

Duplicate(id) == id \in peers

\* advertise: under the write lock, a new entry with no listeners yet.
AdvertiseInsert(c) ==
    /\ At(c, "advertise", "insert")
    /\ ~Duplicate(call[c].id)
    /\ peers' = peers \cup {call[c].id}
    /\ listener_tx' = [kind \in Kinds |->
                         [listener_tx[kind] EXCEPT ![call[c].id] = {}]]
    /\ GoTo(c, "announce")
    /\ UNCHANGED <<generator, queue, rx, changes, peer_listener>>

AdvertiseDuplicate(c) ==
    /\ At(c, "advertise", "insert")
    /\ Duplicate(call[c].id)
    /\ Reply(c, "internal")
    /\ UNCHANGED <<generator, peers, listener_tx, queue, rx, changes,
                   peer_listener>>

\* advertise: the lock is released, the addition is broadcast, the id returned.
AdvertiseBroadcast(c) ==
    /\ At(c, "advertise", "announce")
    /\ Broadcast(Add(call[c].id))
    /\ Reply(c, "ok")
    /\ UNCHANGED <<generator, peers, listener_tx, queue, rx, peer_listener>>

\* variant: signal_offer and signal_answer drop the caller, not the target
TornDownCaller(c) == IF call[c].op = "teardown" THEN call[c].id ELSE call[c].from

\* The peer handle_teardown is called for.
TornDown(c) == call[c].id

\* handle_teardown, first half: the removal is broadcast whether or not the
\* peer is advertised.  Runs for a teardown call and for a signal whose target
\* was found disconnected.
TeardownBroadcast(c) ==
    /\ At(c, "teardown", "sent") \/ call[c].at = "teardown"
    /\ Broadcast(Remove(TornDown(c)))
    /\ GoTo(c, "remove")
    /\ UNCHANGED <<generator, peers, listener_tx, queue, rx, peer_listener>>

\* handle_teardown, second half: the entry and its senders are dropped.  The
\* caller of a signal gets failed_precondition whatever this finds.
TeardownRemove(c) ==
    /\ call[c].at = "remove"
    /\ peers' = peers \ {TornDown(c)}
    /\ listener_tx' = [kind \in Kinds |->
                         [listener_tx[kind] EXCEPT ![TornDown(c)] = {}]]
    /\ Reply(c, IF call[c].op = "teardown" /\ TornDown(c) \in peers
                  THEN "ok" ELSE "failed_precondition")
    /\ UNCHANGED <<generator, queue, rx, changes, peer_listener>>

\* variant: peers that do not listen for offers yet are left out
ListeningOthers(id) == {i \in peers \ {id} : listener_tx["offer"][i] # {}}

\* variant: the caller is told of itself
Everyone(id) == peers

Others(id) == peers \ {id}

PeerDiscover(c) ==
    /\ At(c, "peer_discover", "sent")
    /\ ReplyFound(c, Others(call[c].id))
    /\ UNCHANGED <<generator, peers, listener_tx, queue, rx, changes,
                   peer_listener>>

\* open_peer_listener: the snapshot, under a read lock that is then released.
PeerListenerSnapshot(c) ==
    /\ At(c, "open_peer_listener", "sent")
    /\ call' = [call EXCEPT ![c].at = "subscribe",
                            ![c].found = Others(call[c].id)]
    /\ UNCHANGED <<generator, peers, listener_tx, queue, rx, changes,
                   peer_listener>>

\* open_peer_listener: new_receiver() starts after everything broadcast so far.
PeerListenerSubscribe(c) ==
    /\ At(c, "open_peer_listener", "subscribe")
    /\ peer_listener' = [peer_listener EXCEPT ![c] =
                           [state |-> "open", first |-> TRUE,
                            initial |-> call[c].found,
                            since |-> Len(changes), pos |-> Len(changes)]]
    /\ Reply(c, "ok")
    /\ UNCHANGED <<generator, peers, listener_tx, queue, rx, changes>>

\* variant: a second listener takes the place of the first
AlwaysUnset(kind, id) == TRUE

\* OnceLock::set succeeds.
Unset(kind, id) == listener_tx[kind][id] = {}

\* open_offer_listener and open_answer_listener, all of it under a read lock:
\* a channel that already holds an empty message becomes the entry's listener.
ListenerOpened(c) ==
    /\ At(c, "open_listener", "sent")
    /\ call[c].id \in peers
    /\ Unset(call[c].kind, call[c].id)
    /\ listener_tx' = [listener_tx EXCEPT ![call[c].kind][call[c].id] = {c}]
    /\ queue' = [queue EXCEPT ![call[c].kind][c] = <<None>>]
    /\ rx' = [rx EXCEPT ![call[c].kind][c] = "open"]
    /\ Reply(c, "ok")
    /\ UNCHANGED <<generator, peers, changes, peer_listener>>

ListenerRefused(c) ==
    /\ At(c, "open_listener", "sent")
    /\ \/ call[c].id \notin peers
       \/ ~Unset(call[c].kind, call[c].id)
    /\ Reply(c, "failed_precondition")
    /\ UNCHANGED <<generator, peers, listener_tx, queue, rx, changes,
                   peer_listener>>

\* variant: the two errors of try_send are taken for one
DisconnectedOrFull(kind, d) ==
    rx[kind][d] = "dropped" \/ Len(queue[kind][d]) >= ListenerCapacity

\* flume's try_send looks for a dropped receiver before it looks for room.
Disconnected(kind, d) == rx[kind][d] = "dropped"

Full(kind, d) ==
    rx[kind][d] = "open" /\ Len(queue[kind][d]) >= ListenerCapacity

\* variant: the target's identifier in place of the sender's
ForwardedToItself(c) == call[c].id

\* What reaches the listener: who sent the offer or the answer.
Forwarded(c) == call[c].from

\* signal_offer and signal_answer: the target is looked up and try_send called
\* under one read lock.
Target(c) == IF call[c].id \in peers
               THEN listener_tx[call[c].kind][call[c].id] ELSE {}

SignalRejected(c) ==
    /\ At(c, "signal", "sent")
    /\ Target(c) = {}
    /\ Reply(c, "failed_precondition")
    /\ UNCHANGED <<generator, peers, listener_tx, queue, rx, changes,
                   peer_listener>>

SignalAccepted(c) ==
    /\ At(c, "signal", "sent")
    /\ \E d \in Target(c) :
         /\ ~Disconnected(call[c].kind, d) /\ ~Full(call[c].kind, d)
         /\ queue' = [queue EXCEPT ![call[c].kind][d] =
                                      Append(@, Forwarded(c))]
    /\ Reply(c, "ok")
    /\ UNCHANGED <<generator, peers, listener_tx, rx, changes, peer_listener>>

SignalFull(c) ==
    /\ At(c, "signal", "sent")
    /\ \E d \in Target(c) : Full(call[c].kind, d)
    /\ Reply(c, "aborted")
    /\ UNCHANGED <<generator, peers, listener_tx, queue, rx, changes,
                   peer_listener>>

\* The lock is released here: handle_teardown takes it again.
SignalDisconnected(c) ==
    /\ At(c, "signal", "sent")
    /\ \E d \in Target(c) : Disconnected(call[c].kind, d)
    /\ GoTo(c, "teardown")
    /\ UNCHANGED <<generator, peers, listener_tx, queue, rx, changes,
                   peer_listener>>

Advertise(c) == \/ FetchAdd(c)
                \/ AdvertiseInsert(c)
                \/ AdvertiseDuplicate(c)
                \/ AdvertiseBroadcast(c)

HandleTeardown(c) == TeardownBroadcast(c) \/ TeardownRemove(c)

\* variant: nothing is returned before the broadcast channel has something new
OpenPeerListenerWaits(c) ==
    \/ PeerListenerSnapshot(c)
    \/ Len(changes) > 2 /\ PeerListenerSubscribe(c)

OpenPeerListener(c) == PeerListenerSnapshot(c) \/ PeerListenerSubscribe(c)

OpenListener(c) == ListenerOpened(c) \/ ListenerRefused(c)

Signal(c) == \/ SignalRejected(c)
             \/ SignalAccepted(c)
             \/ SignalFull(c)
             \/ SignalDisconnected(c)

Handler(c) == \/ Advertise(c)
              \/ HandleTeardown(c)
              \/ PeerDiscover(c)
              \/ OpenPeerListener(c)
              \/ OpenListener(c)
              \/ Signal(c)

-----------------------------------------------------------------------------
(* What callers and their streams do.  A composed module gives the callers *)
(* their program; on its own, the server faces callers that send anything. *)

directoryVars == <<generator, peers, listener_tx, changes>>

\* One stream of each kind is enough for a caller, whatever its identifier.
Unopened(c, r) ==
    /\ r.op = "open_peer_listener" => peer_listener[c].state = "none"
    /\ r.op = "open_listener" => rx[r.kind][c] = "none"

Request(c, r) ==
    /\ call[c].at \in {"idle", "replied"}
    /\ Unopened(c, r)
    /\ call' = [call EXCEPT ![c] = r]

TakeReply(c) == call[c].at = "replied" /\ call' = [call EXCEPT ![c] = NoCall]

\* The request never reaches the server.
RequestLost(c) == call[c].at = "sent" /\ call' = [call EXCEPT ![c] = NoCall]

\* The first message of a peer listener is its snapshot...
ReceiveInitial(c) ==
    /\ peer_listener[c].state = "open"
    /\ peer_listener[c].first
    /\ peer_listener' = [peer_listener EXCEPT ![c].first = FALSE]

\* ... then come the changes broadcast since, while they are still held...
ReceiveChange(c) ==
    /\ peer_listener[c].state = "open"
    /\ ~peer_listener[c].first
    /\ peer_listener[c].pos < Len(changes)
    /\ peer_listener[c].pos >= Overwritten
    /\ peer_listener' = [peer_listener EXCEPT ![c].pos = @ + 1]

\* ... and data_loss, which ends the stream, once one was overwritten unread.
ReceiveLagged(c) ==
    /\ peer_listener[c].state = "open"
    /\ ~peer_listener[c].first
    /\ peer_listener[c].pos < Overwritten
    /\ peer_listener' = [peer_listener EXCEPT ![c].state = "dropped"]

DropPeerListener(c) ==
    /\ peer_listener[c].state = "open"
    /\ peer_listener' = [peer_listener EXCEPT ![c].state = "dropped"]

ReceiveSignal(c, kind) ==
    /\ rx[kind][c] = "open"
    /\ queue[kind][c] # <<>>
    /\ queue' = [queue EXCEPT ![kind][c] = Tail(@)]
    /\ UNCHANGED rx

DropListener(c, kind) ==
    /\ rx[kind][c] = "open"
    /\ rx' = [rx EXCEPT ![kind][c] = "dropped"]
    /\ queue' = [queue EXCEPT ![kind][c] = <<>>]

Requests ==
    {AdvertiseReq} \cup
    {TeardownReq(id) : id \in Id} \cup
    {PeerDiscoverReq(id) : id \in Id} \cup
    {PeerListenerReq(id) : id \in Id} \cup
    {ListenerReq(kind, id) : kind \in Kinds, id \in Id} \cup
    {SignalReq(kind, from, to) : kind \in Kinds, from \in Id, to \in Id}

Caller(c) ==
    /\ \/ \E r \in Requests : Request(c, r)
       \/ TakeReply(c)
       \/ RequestLost(c)
    /\ UNCHANGED <<directoryVars, queue, rx, peer_listener>>

PeerListenerReader(c) ==
    /\ \/ ReceiveInitial(c)
       \/ ReceiveChange(c)
       \/ ReceiveLagged(c)
       \/ DropPeerListener(c)
    /\ UNCHANGED <<directoryVars, queue, rx, call>>

\* A change makes its reader call the server at once.
PeerListenerReaction(c) ==
    /\ ReceiveChange(c)
    /\ \E r \in Requests : Request(c, r)
    /\ UNCHANGED <<directoryVars, queue, rx>>

SignalReader(c) ==
    /\ \E kind \in Kinds : ReceiveSignal(c, kind) \/ DropListener(c, kind)
    /\ UNCHANGED <<directoryVars, peer_listener, call>>

ServerNext ==
    \E c \in Clients : \/ Handler(c)
                       \/ Caller(c)
                       \/ PeerListenerReader(c)
                       \/ PeerListenerReaction(c)
                       \/ SignalReader(c)

ServerSpec == ServerInit /\ [][ServerNext]_serverVars

-----------------------------------------------------------------------------
(* What the server keeps true whatever its callers send, as long as the    *)
(* identifier counter does not come round.                                 *)

Inserting(id) == \E c \in Clients : At(c, "advertise", "insert") /\ call[c].id = id

Announcing(id) ==
    \E c \in Clients : At(c, "advertise", "announce") /\ call[c].id = id

\* The identifiers that were handed out and are no longer in the directory.
Departed == {id \in 0 .. generator - 1 : id \notin peers /\ ~Inserting(id)}

\* No peer disappears from the directory without a Remove on the broadcast
\* channel: whoever was subscribed hears of it (or is told it lagged).
\* handle_teardown broadcasts before it takes the lock, from several callers at
\* once (server.rs:48-62).
RemovalAnnounced == \A id \in Departed : Broadcasts(Remove(id))

\* Every peer in the directory was announced, or its advertise call is still
\* about to: the broadcast is outside the lock (server.rs:91-106).
AdditionAnnounced ==
    \A id \in peers : Broadcasts(Add(id)) \/ Announcing(id)

\* While a peer stays in the directory, the listener it opened first is never
\* replaced or taken away: not by a second open of that listener, not by another
\* advertise, not by the removal of another peer (server.rs:94-97, 251-253).
ListenerKept ==
    [][\A kind \in Kinds : \A id \in peers \cap peers' :
         listener_tx[kind][id] # {} =>
           listener_tx'[kind][id] = listener_tx[kind][id]]_serverVars

\* The directory the callers see behaves as PeerDirectory: an identifier is
\* admitted once, its departure is announced first, and it never comes back.
Directory == INSTANCE PeerDirectory WITH
    Ids <- Id,
    live <- peers,
    leaving <- {id \in Id : Broadcasts(Remove(id))},
    gone <- Departed

DirectorySpec == Directory!Spec
=============================================================================
