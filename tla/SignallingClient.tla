-------------------------- MODULE SignallingClient --------------------------
(***************************************************************************)
(* Signalling peers (crates/just-webrtc-signalling/src/client.rs) running  *)
(* against the server of SignallingServer.                                 *)
(*                                                                         *)
(* An application starts a peer with start_peer and then calls step in a   *)
(* loop; each step takes one of the queued futures that has completed and  *)
(* handles it.  While a step waits for a call to return, no other future   *)
(* of that peer is polled, so a peer is one process: one action is a step, *)
(* cut where it waits for the server.  As in the README, the tests and the *)
(* example, the first error a step returns ends the peer.                  *)
(***************************************************************************)
EXTENDS SignallingServer

CONSTANTS
    Unreliable,     \* peers that may fail: crash, lose the connection, run into
                    \* the deadline of a call, get an error from a callback
    MayClose        \* peers whose application may call close

ASSUME PeerAssumption == Unreliable \subseteq Clients /\ MayClose \subseteq Clients

VARIABLES
    pc,                 \* [client]: where its program is
    local_id,           \* [client]: RtcSignallingPeer.local_id
    discovered,         \* [client]: discovered_peers
    first_discovery,    \* [client]: first_discovery
    pending,            \* [client]: the callbacks among unordered_futs
    chain               \* [client]: history of its signalling chains

peerVars == <<pc, local_id, discovered, first_discovery, pending, chain>>
vars == <<serverVars, peerVars>>

-----------------------------------------------------------------------------

\* "syncing" and "stepping" are inside a step that waits for the server.
Locations == {"new", "starting", "running", "syncing", "stepping", "closing",
              "gone"}

Tasks == {"create_offer", "receive_answer", "local_sig_cplt",
          "receive_offer", "remote_sig_cplt"}

\* Local chain: offered, got_answer, local_cplt; remote chain: the others.
Events == {"offered", "got_answer", "local_cplt",
           "got_offer", "answered", "remote_cplt"}

PeerTypeOK ==
    /\ pc \in [Clients -> Locations]
    /\ local_id \in [Clients -> Id \cup {None}]
    /\ discovered \in [Clients -> SUBSET Id]
    /\ first_discovery \in [Clients -> BOOLEAN]
    /\ pending \in [Clients -> SUBSET (Tasks \X Id)]
    /\ chain \in [Clients -> SUBSET (Events \X Id)]

TypeOK == ServerTypeOK /\ PeerTypeOK

PeerInit ==
    /\ pc = [c \in Clients |-> "new"]
    /\ local_id = [c \in Clients |-> None]
    /\ discovered = [c \in Clients |-> {}]
    /\ first_discovery = [c \in Clients |-> TRUE]
    /\ pending = [c \in Clients |-> {}]
    /\ chain = [c \in Clients |-> {}]

Init == ServerInit /\ PeerInit

-----------------------------------------------------------------------------
(* What the actions are made of.                                           *)

channelVars == <<queue, rx>>

MoveTo(c, location) == pc' = [pc EXCEPT ![c] = location]

Returned(c, op, status) ==
    call[c].op = op /\ call[c].at = "replied" /\ call[c].status = status

Record(c, event, remote) ==
    chain' = [chain EXCEPT ![c] = @ \cup {<<event, remote>>}]

Finish(c, task, remote) ==
    /\ pc[c] = "running"
    /\ <<task, remote>> \in pending[c]

\* variant: a callback that returned is called again
StillQueued(c, task, remote) == pending[c]

Dequeued(c, task, remote) == pending[c] \ {<<task, remote>>}

\* The peer is dropped, and its queued futures with it; what it did is history.
DropPeer(c) ==
    /\ MoveTo(c, "gone")
    /\ discovered' = [discovered EXCEPT ![c] = {}]
    /\ pending' = [pending EXCEPT ![c] = {}]
    /\ UNCHANGED <<local_id, first_discovery, chain>>

-----------------------------------------------------------------------------
(* start_peer: four calls, one after the other.                            *)

StartPeer(c) ==
    /\ pc[c] = "new"
    /\ Request(c, AdvertiseReq)
    /\ MoveTo(c, "starting")
    /\ UNCHANGED <<local_id, discovered, first_discovery, pending, chain>>
    /\ UNCHANGED <<directoryVars, channelVars, peer_listener>>

Advertised(c) ==
    /\ pc[c] = "starting"
    /\ Returned(c, "advertise", "ok")
    /\ local_id' = [local_id EXCEPT ![c] = call[c].id]
    /\ Request(c, PeerListenerReq(call[c].id))
    /\ UNCHANGED <<pc, discovered, first_discovery, pending, chain>>
    /\ UNCHANGED <<directoryVars, channelVars, peer_listener>>

PeerListenerOpened(c) ==
    /\ pc[c] = "starting"
    /\ Returned(c, "open_peer_listener", "ok")
    /\ Request(c, ListenerReq("offer", local_id[c]))
    /\ UNCHANGED <<peerVars, directoryVars, channelVars, peer_listener>>

OfferListenerOpened(c) ==
    /\ pc[c] = "starting"
    /\ Returned(c, "open_listener", "ok") /\ call[c].kind = "offer"
    /\ Request(c, ListenerReq("answer", local_id[c]))
    /\ UNCHANGED <<peerVars, directoryVars, channelVars, peer_listener>>

AnswerListenerOpened(c) ==
    /\ pc[c] = "starting"
    /\ Returned(c, "open_listener", "ok") /\ call[c].kind = "answer"
    /\ TakeReply(c)
    /\ MoveTo(c, "running")
    /\ UNCHANGED <<local_id, discovered, first_discovery, pending, chain>>
    /\ UNCHANGED <<directoryVars, channelVars, peer_listener>>

Start(c) == \/ StartPeer(c)
            \/ Advertised(c)
            \/ PeerListenerOpened(c)
            \/ OfferListenerOpened(c)
            \/ AnswerListenerOpened(c)

-----------------------------------------------------------------------------
(* step: the peer listener.                                                *)

\* variant: first_discovery is forgotten
EveryOffer(c, ids) == {"create_offer"} \X ids

\* An offer is created for every peer of the first message, and only of that.
FirstOffers(c, ids) ==
    IF first_discovery[c] THEN {"create_offer"} \X ids ELSE {}

StepInitialPeers(c) ==
    /\ pc[c] = "running"
    /\ ReceiveInitial(c)
    /\ discovered' = [discovered EXCEPT ![c] = @ \cup peer_listener[c].initial]
    /\ first_discovery' = [first_discovery EXCEPT ![c] = FALSE]
    /\ pending' = [pending EXCEPT ![c] =
                     @ \cup FirstOffers(c, peer_listener[c].initial)]
    /\ UNCHANGED <<pc, local_id, chain, directoryVars, channelVars, call>>

NextChange(c) == changes[peer_listener[c].pos + 1]

StepPeerAdded(c) ==
    /\ pc[c] = "running"
    /\ ReceiveChange(c)
    /\ NextChange(c).change = "add"
    /\ NextChange(c).id \notin discovered[c]
    /\ discovered' = [discovered EXCEPT ![c] = @ \cup {NextChange(c).id}]
    /\ first_discovery' = [first_discovery EXCEPT ![c] = FALSE]
    /\ pending' = [pending EXCEPT ![c] =
                     @ \cup FirstOffers(c, {NextChange(c).id})]
    /\ UNCHANGED <<pc, local_id, chain, directoryVars, channelVars, call>>

StepPeerRemoved(c) ==
    /\ pc[c] = "running"
    /\ ReceiveChange(c)
    /\ NextChange(c).change = "remove"
    /\ NextChange(c).id \in discovered[c]
    /\ discovered' = [discovered EXCEPT ![c] = @ \ {NextChange(c).id}]
    /\ UNCHANGED <<pc, local_id, first_discovery, pending, chain,
                   directoryVars, channelVars, call>>

\* An addition of a known peer, or the removal of an unknown one.
Unexpected(c) ==
    NextChange(c).change = "add" <=> NextChange(c).id \in discovered[c]

StepSynchronise(c) ==
    /\ pc[c] = "running"
    /\ ReceiveChange(c)
    /\ Unexpected(c)
    /\ Request(c, PeerDiscoverReq(local_id[c]))
    /\ MoveTo(c, "syncing")
    /\ UNCHANGED <<local_id, discovered, first_discovery, pending, chain,
                   directoryVars, channelVars>>

Synchronised(c) ==
    /\ pc[c] = "syncing"
    /\ Returned(c, "peer_discover", "ok")
    /\ TakeReply(c)
    /\ discovered' = [discovered EXCEPT ![c] = call[c].found]
    /\ MoveTo(c, "running")
    /\ UNCHANGED <<local_id, first_discovery, pending, chain,
                   directoryVars, channelVars, peer_listener>>

StepPeerListener(c) == \/ StepInitialPeers(c)
                       \/ StepPeerAdded(c)
                       \/ StepPeerRemoved(c)
                       \/ StepSynchronise(c)
                       \/ Synchronised(c)

-----------------------------------------------------------------------------
(* step: the signalling chains.                                            *)

\* variant: every message is taken for an empty one
IsAlwaysEmpty(message) == TRUE

\* variant: no message is
IsNeverEmpty(message) == FALSE

IsEmpty(message) == message = None

\* The listener tasks loop over the empty message a listener opens with.
SkipEmpty(c, kind) ==
    /\ pc[c] = "running"
    /\ ReceiveSignal(c, kind)
    /\ IsEmpty(Head(queue[kind][c]))
    /\ UNCHANGED <<peerVars, directoryVars, peer_listener, call>>

\* A listener yields a signal: its callback is queued, with the listener.
StepListener(c, kind, task, event) ==
    /\ pc[c] = "running"
    /\ ReceiveSignal(c, kind)
    /\ LET remote == Head(queue[kind][c])
       IN  /\ ~IsEmpty(remote)
           /\ pending' = [pending EXCEPT ![c] = @ \cup {<<task, remote>>}]
           /\ Record(c, event, remote)
    /\ UNCHANGED <<pc, local_id, discovered, first_discovery>>
    /\ UNCHANGED <<directoryVars, peer_listener, call>>

StepOfferListener(c) == StepListener(c, "offer", "receive_offer", "got_offer")

\* variant: the answer listener is not queued again
AnswerListenerNotQueued(c) == FALSE

StepAnswerListener(c) ==
    StepListener(c, "answer", "receive_answer", "got_answer")

\* A callback returned an offer or an answer, which is sent to the remote peer.
SendSignal(c, task, kind, remote) ==
    /\ Finish(c, task, remote)
    /\ pending' = [pending EXCEPT ![c] = Dequeued(c, task, remote)]
    /\ Request(c, SignalReq(kind, local_id[c], remote))
    /\ MoveTo(c, "stepping")
    /\ UNCHANGED <<local_id, discovered, first_discovery, chain>>
    /\ UNCHANGED <<directoryVars, channelVars, peer_listener>>

StepCreateOffer(c, remote) == SendSignal(c, "create_offer", "offer", remote)

StepReceiveOffer(c, remote) == SendSignal(c, "receive_offer", "answer", remote)

OfferSignalled(c) ==
    /\ pc[c] = "stepping"
    /\ Returned(c, "signal", "ok") /\ call[c].kind = "offer"
    /\ TakeReply(c)
    /\ Record(c, "offered", call[c].id)
    /\ MoveTo(c, "running")
    /\ UNCHANGED <<local_id, discovered, first_discovery, pending>>
    /\ UNCHANGED <<directoryVars, channelVars, peer_listener>>

AnswerSignalled(c) ==
    /\ pc[c] = "stepping"
    /\ Returned(c, "signal", "ok") /\ call[c].kind = "answer"
    /\ TakeReply(c)
    /\ Record(c, "answered", call[c].id)
    /\ pending' = [pending EXCEPT ![c] =
                     @ \cup {<<"remote_sig_cplt", call[c].id>>}]
    /\ MoveTo(c, "running")
    /\ UNCHANGED <<local_id, discovered, first_discovery>>
    /\ UNCHANGED <<directoryVars, channelVars, peer_listener>>

\* FailedPrecondition is only logged: the signal is not sent again.
SignalDropped(c) ==
    /\ pc[c] = "stepping"
    /\ Returned(c, "signal", "failed_precondition")
    /\ TakeReply(c)
    /\ MoveTo(c, "running")
    /\ UNCHANGED <<local_id, discovered, first_discovery, pending, chain>>
    /\ UNCHANGED <<directoryVars, channelVars, peer_listener>>

StepReceiveAnswer(c, remote) ==
    /\ Finish(c, "receive_answer", remote)
    /\ pending' = [pending EXCEPT ![c] =
                     Dequeued(c, "receive_answer", remote)
                       \cup {<<"local_sig_cplt", remote>>}]
    /\ UNCHANGED <<pc, local_id, discovered, first_discovery, chain>>
    /\ UNCHANGED serverVars

\* Either chain's last callback returned.
StepCplt(c, task, event, remote) ==
    /\ Finish(c, task, remote)
    /\ pending' = [pending EXCEPT ![c] = Dequeued(c, task, remote)]
    /\ Record(c, event, remote)
    /\ UNCHANGED <<pc, local_id, discovered, first_discovery>>
    /\ UNCHANGED serverVars

StepLocalSigCplt(c, remote) ==
    StepCplt(c, "local_sig_cplt", "local_cplt", remote)

StepRemoteSigCplt(c, remote) ==
    StepCplt(c, "remote_sig_cplt", "remote_cplt", remote)

\* A listener yields, or the server answers what a step has signalled.
StepSignal(c) ==
    \/ \E kind \in Kinds : SkipEmpty(c, kind)
    \/ StepOfferListener(c)
    \/ StepAnswerListener(c)
    \/ OfferSignalled(c)
    \/ AnswerSignalled(c)
    \/ SignalDropped(c)

\* A callback returns.
StepCallback(c, remote) ==
    \/ StepCreateOffer(c, remote)
    \/ StepReceiveOffer(c, remote)
    \/ StepReceiveAnswer(c, remote)
    \/ StepLocalSigCplt(c, remote)
    \/ StepRemoteSigCplt(c, remote)

StepChain(c) == StepSignal(c) \/ \E remote \in Id : StepCallback(c, remote)

-----------------------------------------------------------------------------
(* The ends of a peer.                                                     *)

\* close consumes the peer: its streams live until the call returns.
Close(c) ==
    /\ c \in MayClose
    /\ pc[c] = "running"
    /\ Request(c, TeardownReq(local_id[c]))
    /\ MoveTo(c, "closing")
    /\ UNCHANGED <<local_id, discovered, first_discovery, pending, chain>>
    /\ UNCHANGED <<directoryVars, channelVars, peer_listener>>

Closed(c) ==
    /\ pc[c] = "closing"
    /\ Returned(c, "teardown", "ok")
    /\ TakeReply(c)
    /\ DropPeer(c)
    /\ UNCHANGED <<directoryVars, channelVars, peer_listener>>

\* Every other status is an error that start_peer, step or close returns.
Handled(c) ==
    \/ call[c].status = "ok"
    \/ pc[c] = "stepping" /\ call[c].status = "failed_precondition"

CallFailed(c) ==
    /\ pc[c] \in {"starting", "syncing", "stepping", "closing"}
    /\ call[c].at = "replied" /\ ~Handled(c)
    /\ TakeReply(c)
    /\ DropPeer(c)
    /\ UNCHANGED <<directoryVars, channelVars, peer_listener>>

\* variant: the overflow of the receiver is not reported
StepSkipsLost(c) ==
    /\ pc[c] = "running"
    /\ peer_listener[c].state = "open" /\ ~peer_listener[c].first
    /\ peer_listener[c].pos < Overwritten
    /\ peer_listener' = [peer_listener EXCEPT ![c].pos = Overwritten]
    /\ UNCHANGED <<peerVars, directoryVars, channelVars, call>>

StepLagged(c) ==
    /\ pc[c] = "running"
    /\ ReceiveLagged(c)
    /\ DropPeer(c)
    /\ UNCHANGED <<directoryVars, channelVars, call>>

\* Anything else that ends a peer.  A call it was waiting for runs on.
Abandon(c) ==
    /\ c \in Unreliable
    /\ pc[c] \notin {"new", "gone"}
    /\ DropPeer(c)
    /\ UNCHANGED serverVars

AbandonedCallReturns(c) ==
    /\ pc[c] = "gone"
    /\ TakeReply(c)
    /\ UNCHANGED <<peerVars, directoryVars, channelVars, peer_listener>>

AbandonedCallLost(c) ==
    /\ pc[c] = "gone"
    /\ RequestLost(c)
    /\ UNCHANGED <<peerVars, directoryVars, channelVars, peer_listener>>

\* The server drops the streams of a peer that is gone, in any order, and only
\* when the transport tells it: a dead connection may go unnoticed.
StreamDropped(c) ==
    /\ pc[c] = "gone"
    /\ \/ DropPeerListener(c) /\ UNCHANGED channelVars
       \/ \E kind \in Kinds : DropListener(c, kind) /\ UNCHANGED peer_listener
    /\ UNCHANGED <<peerVars, directoryVars, call>>

End(c) == \/ Closed(c)
          \/ CallFailed(c)
          \/ StepLagged(c)

Aftermath(c) == \/ AbandonedCallReturns(c)
                \/ AbandonedCallLost(c)
                \/ StreamDropped(c)

-----------------------------------------------------------------------------

Serve(c) == Handler(c) /\ UNCHANGED peerVars

\* What a peer does by itself once it was started.
Peer(c) == Start(c) \/ StepPeerListener(c) \/ StepChain(c) \/ End(c)

Next == \E c \in Clients : \/ Serve(c)
                           \/ Peer(c)
                           \/ Close(c)
                           \/ Abandon(c)
                           \/ Aftermath(c)

Spec == Init /\ [][Next]_vars

\* The server's runtime polls every handler that can run.  An application starts
\* its peer, keeps calling step, and its callbacks return; nothing obliges it to
\* close, and nothing that fails need fail.
Fairness == \A c \in Clients : WF_vars(Serve(c)) /\ WF_vars(Peer(c))

FairSpec == Spec /\ Fairness

-----------------------------------------------------------------------------
(* What the two sides keep true together.                                  *)

\* The peers that start_peer returned and nothing has ended yet.
Subscribed(c) == pc[c] \in {"running", "syncing", "stepping"}

\* The server never drops a peer that is still there: its entry holds both of
\* the listeners the peer opened, and their streams are open.  Several other
\* callers may be in handle_teardown at that time (server.rs:216-222), and
\* the peer's own step never sees ListenerClosed (client.rs:66, 94, 122).
LivePeersStayRegistered ==
    \A c \in Clients : Subscribed(c) =>
        /\ local_id[c] \in peers
        /\ \A kind \in Kinds : /\ listener_tx[kind][local_id[c]] = {c}
                               /\ rx[kind][c] = "open"
        /\ peer_listener[c].state = "open"

\* Of two peers that are both there, at least one found the other in the snapshot
\* its peer listener began with, so one of them makes an offer; each advertises
\* before it opens that listener (client.rs:772-773, server.rs:153-159).
DiscoveryCoverage ==
    \A a, b \in Clients :
        Subscribed(a) /\ Subscribed(b) /\ a # b =>
            \/ local_id[a] \in peer_listener[b].initial
            \/ local_id[b] \in peer_listener[a].initial

\* A peer learns of every other peer that was announced after it subscribed and
\* not removed: once it has read all changes, resynchronisation has lost none of
\* them, though it replaces the whole set (client.rs:343-369).
AnnouncedPeersAreDiscovered ==
    \A c \in Clients :
        pc[c] = "running" /\ ~first_discovery[c]
        /\ peer_listener[c].pos = Len(changes) =>
            \A i \in peer_listener[c].since + 1 .. Len(changes) :
                changes[i].change = "add" /\ ~Broadcasts(Remove(changes[i].id))
                  => changes[i].id \in discovered[c]

\* The broadcast changes tell a history that makes sense: an identifier is
\* added once, and is not removed before it was added.  It may be removed more
\* than once (two callers find the same peer disconnected).
ChangesInOrder ==
    \A i \in DOMAIN changes :
        IF changes[i].change = "add"
          THEN \A j \in 1 .. i - 1 : changes[j].id # changes[i].id
          ELSE \E j \in 1 .. i - 1 : changes[j] = Add(changes[i].id)

Occurrences(kind, c, remote) ==
    Cardinality({i \in DOMAIN queue[kind][c] : queue[kind][c][i] = remote})

Has(c, event, remote) == <<event, remote>> \in chain[c]

\* No signal is delivered twice: each peer gets one offer and one answer at most
\* from each remote peer, and none is on its way any more once it has got it.
NoDuplicateSignal ==
    \A c \in Clients : \A remote \in Id :
        /\ Occurrences("offer", c, remote)
             <= (IF Has(c, "got_offer", remote) THEN 0 ELSE 1)
        /\ Occurrences("answer", c, remote)
             <= (IF Has(c, "got_answer", remote) THEN 0 ELSE 1)

\* A signal the server acknowledged is not lost while its target is there: it is
\* in the target's stream, or was taken from it.
NoSignalLost ==
    \A a, b \in Clients : Subscribed(b) =>
        /\ Has(a, "offered", local_id[b]) =>
             \/ Has(b, "got_offer", local_id[a])
             \/ Occurrences("offer", b, local_id[a]) > 0
        /\ Has(a, "answered", local_id[b]) =>
             \/ Has(b, "got_answer", local_id[a])
             \/ Occurrences("answer", b, local_id[a]) > 0

\* A local chain advances only on what its remote peer did: an answer comes from
\* a peer that got this peer's offer, after the offer was acknowledged, and the
\* chain completes after the answer; an offer comes from a peer that found this
\* one in its first message.  Although the offer may reach the remote peer, and
\* be answered, before the call that carried it has returned.
ChainCausality ==
    \A a \in Clients : \A remote \in Id :
        /\ Has(a, "local_cplt", remote) => Has(a, "got_answer", remote)
        /\ Has(a, "got_answer", remote) =>
             /\ Has(a, "offered", remote)
             /\ \E b \in Clients : /\ local_id[b] = remote
                                   /\ Has(b, "got_offer", local_id[a])
        /\ Has(a, "remote_cplt", remote) => Has(a, "answered", remote)
        /\ Has(a, "answered", remote) => Has(a, "got_offer", remote)
        /\ Has(a, "got_offer", remote) =>
             \E b \in Clients : /\ local_id[b] = remote
                               /\ local_id[a] \in peer_listener[b].initial

\* What a signal under way, or the history of the two chains, says of the offer
\* of one peer to another.
Handshake(a, b) ==
    IF None \in {local_id[a], local_id[b]} THEN "none"
    ELSE IF Occurrences("offer", b, local_id[a]) > 0 THEN "offer"
    ELSE IF Occurrences("answer", a, local_id[b]) > 0 THEN "answer"
    ELSE IF Has(a, "local_cplt", local_id[b]) THEN "complete"
    ELSE IF Has(a, "got_answer", local_id[b]) THEN "answered"
    ELSE IF Has(b, "got_offer", local_id[a]) THEN "offered"
    ELSE "none"

\* Every pair of peers sees the handshake of SignallingChain, although each of
\* its steps is a call that goes through the server, two handlers and a queue.
Chain == INSTANCE SignallingChain WITH
    Peers <- Clients,
    handshake <- [a \in Clients |-> [b \in Clients |-> Handshake(a, b)]],
    deaf <- [kind \in Kinds |-> {c \in Clients : rx[kind][c] = "dropped"}]

ChainSpec == Chain!Spec

\* A peer never discovers itself, so it never makes itself an offer.
NeverSelf ==
    \A c \in Clients : local_id[c] # None =>
        /\ local_id[c] \notin discovered[c]
        /\ <<"create_offer", local_id[c]>> \notin pending[c]

\* start_peer returns, with a peer or an error.
StartReturns ==
    \A c \in Clients : pc[c] = "starting" ~> pc[c] \in {"running", "gone"}

\* An offer the server acknowledged is answered, the answer arrives and the local
\* chain completes, unless one of the two peers ends first.
OffersAnswered ==
    \A a, b \in Clients :
        a # b /\ local_id[b] # None /\ Has(a, "offered", local_id[b]) ~>
            \/ Has(a, "local_cplt", local_id[b])
            \/ pc[a] = "gone" \/ pc[b] \in {"closing", "gone"}

\* A peer that is gone without a teardown stays in the directory until the first
\* signal to it: that removes it, once the server has seen its stream end and if
\* the caller lives to have the signal served (server.rs:216-222, 48-62).
SignalRemovesTheDead ==
    \A c, d \in Clients :
        /\ At(c, "signal", "sent")
        /\ call[c].id = local_id[d] /\ Disconnected(call[c].kind, d)
        ~> local_id[d] \notin peers \/ pc[c] = "gone"

-----------------------------------------------------------------------------
(* What the documentation leads one to expect, and the code does not keep. *)

\* It is in its loop with nothing left to do but wait for a message.
Waits(c) ==
    /\ pc[c] = "running" /\ pending[c] = {}
    /\ ~peer_listener[c].first /\ peer_listener[c].pos = Len(changes)
    /\ \A kind \in Kinds : queue[kind][c] = <<>>

Connected(a, b) == \/ Has(a, "local_cplt", local_id[b])
                   \/ Has(a, "remote_cplt", local_id[b])

\* "You should see them all communicating with each-other!"
FullMesh ==
    (\A c \in Clients : Waits(c)) =>
        \A a, b \in Clients : a # b => Connected(a, b)

\* When every peer waits or has closed, and no call is under way, the view each has
\* of the mesh is the directory, unless it was told that changes have been lost:
\* it has all who are there and nobody who is gone.
ViewConverges ==
    (\A c \in Clients : call[c].at = "idle" /\ (Waits(c) \/ pc[c] = "gone")) =>
        \A c \in Clients : Waits(c) => discovered[c] = peers \ {local_id[c]}
=============================================================================
