------------------------- MODULE SignallingMeshProofs -------------------------
(***************************************************************************)
(* The mesh of peers, for any number of them and any capacities, as long   *)
(* as the identifier counter does not come round: where each program is,   *)
(* whose identifiers are whose, and that live peers stay registered.       *)
(***************************************************************************)
EXTENDS SignallingPeerProofs

-----------------------------------------------------------------------------
(* A step of one peer leaves the programs of the others alone.             *)

\* What a step leaves of peer d; signals may reach its queues.
KeptPeer(d) ==
    /\ pc'[d] = pc[d]
    /\ local_id'[d] = local_id[d]
    /\ discovered'[d] = discovered[d]
    /\ first_discovery'[d] = first_discovery[d]
    /\ pending'[d] = pending[d]
    /\ chain'[d] = chain[d]
    /\ call'[d] = call[d]
    /\ peer_listener'[d] = peer_listener[d]
    /\ \A kind \in Kinds : rx'[kind][d] = rx[kind][d]

\* The server, serving the call of one peer, keeps every other peer.
LEMMA ServeKeepsOthers ==
  ASSUME PeerTypeInv, NEW c \in Clients, Serve(c), NEW d \in Clients \ {c}
  PROVE  KeptPeer(d)
<1>1. UNCHANGED peerVars /\ call'[d] = call[d]
  BY HandlerEffect DEF Serve, HandlerKeeps, PeerTypeInv, TypeInv
<1>2. /\ peer_listener'[d] = peer_listener[d]
      /\ \A kind \in Kinds : rx'[kind][d] = rx[kind][d]
  <2>1. CASE PeerListenerSubscribe(c)
    BY <2>1 DEF PeerListenerSubscribe, PeerTypeInv, TypeInv, ServerTypeOK
  <2>2. CASE ListenerOpened(c)
    BY <2>2 DEF ListenerOpened, PeerTypeInv, TypeInv, ServerTypeOK
  <2>3. CASE ~PeerListenerSubscribe(c) /\ ~ListenerOpened(c)
    BY <2>3
    DEF Serve, Handler, Advertise, FetchAdd, AdvertiseInsert,
        AdvertiseDuplicate, AdvertiseBroadcast, HandleTeardown,
        TeardownBroadcast, TeardownRemove, PeerDiscover, OpenPeerListener,
        PeerListenerSnapshot, OpenListener, ListenerRefused, Signal,
        SignalRejected, SignalAccepted, SignalFull, SignalDisconnected
  <2> QED BY <2>1, <2>2, <2>3
<1> QED BY <1>1, <1>2 DEF KeptPeer, peerVars

\* A peer that starts keeps every other peer.
LEMMA StartKeepsOthers ==
  ASSUME PeerTypeInv, NEW c \in Clients, Start(c), NEW d \in Clients \ {c}
  PROVE  KeptPeer(d)
<1> USE DEF KeptPeer, PeerTypeInv, PeerTypeOK, TypeInv, ServerTypeOK, Request,
            TakeReply, MoveTo, peerVars, channelVars
<1>1. CASE StartPeer(c) \/ Advertised(c)
  BY <1>1 DEF StartPeer, Advertised
<1>2. CASE PeerListenerOpened(c) \/ OfferListenerOpened(c)
  BY <1>2 DEF PeerListenerOpened, OfferListenerOpened
<1>3. CASE AnswerListenerOpened(c)
  BY <1>3 DEF AnswerListenerOpened
<1> QED BY <1>1, <1>2, <1>3 DEF Start

\* So does one that takes a step.
LEMMA StepKeepsOthers ==
  ASSUME PeerTypeInv, NEW c \in Clients, StepPeerListener(c) \/ StepChain(c),
         NEW d \in Clients \ {c}
  PROVE  KeptPeer(d)
<1> USE DEF KeptPeer, PeerTypeInv, PeerTypeOK, TypeInv, ServerTypeOK, Request,
            TakeReply, MoveTo, peerVars, channelVars
<1>1. CASE StepInitialPeers(c)
  BY <1>1 DEF StepInitialPeers, ReceiveInitial
<1>2. CASE StepPeerAdded(c) \/ StepPeerRemoved(c)
  BY <1>2 DEF StepPeerAdded, StepPeerRemoved, ReceiveChange
<1>3. CASE StepSynchronise(c) \/ Synchronised(c)
  BY <1>3 DEF StepSynchronise, Synchronised, ReceiveChange
<1>4. CASE \/ \E kind \in Kinds : SkipEmpty(c, kind)
           \/ StepOfferListener(c) \/ StepAnswerListener(c)
  BY <1>4
  DEF SkipEmpty, StepOfferListener, StepAnswerListener, StepListener,
      ReceiveSignal, Record
<1>5. CASE OfferSignalled(c) \/ AnswerSignalled(c) \/ SignalDropped(c)
  BY <1>5 DEF OfferSignalled, AnswerSignalled, SignalDropped, Record
<1>6. ASSUME NEW remote \in Id, StepCallback(c, remote) PROVE KeptPeer(d)
  <2>1. CASE StepCreateOffer(c, remote) \/ StepReceiveOffer(c, remote)
    BY <2>1 DEF StepCreateOffer, StepReceiveOffer, SendSignal
  <2>2. CASE StepReceiveAnswer(c, remote)
    BY <2>2 DEF StepReceiveAnswer, serverVars
  <2>3. CASE StepLocalSigCplt(c, remote) \/ StepRemoteSigCplt(c, remote)
    BY <2>3
    DEF StepLocalSigCplt, StepRemoteSigCplt, StepCplt, Record, serverVars
  <2> QED BY <1>6, <2>1, <2>2, <2>3 DEF StepCallback
<1> QED
  BY <1>1, <1>2, <1>3, <1>4, <1>5, <1>6
  DEF StepPeerListener, StepChain, StepSignal

\* And one that ends.
LEMMA EndKeepsOthers ==
  ASSUME PeerTypeInv, NEW c \in Clients,
         End(c) \/ Close(c) \/ Stops(c) \/ Aftermath(c),
         NEW d \in Clients \ {c}
  PROVE  KeptPeer(d)
<1> USE DEF KeptPeer, PeerTypeInv, PeerTypeOK, TypeInv, ServerTypeOK, Request,
            TakeReply, RequestLost, MoveTo, DropPeer, peerVars, channelVars
<1>1. CASE Closed(c) \/ CallFailed(c)
  BY <1>1 DEF Closed, CallFailed
<1>2. CASE StepLagged(c)
  BY <1>2 DEF StepLagged, ReceiveLagged
<1>3. CASE Close(c)
  BY <1>3 DEF Close
<1>4. CASE Stops(c)
  BY <1>4 DEF Stops, serverVars
<1>5. CASE AbandonedCallReturns(c) \/ AbandonedCallLost(c)
  BY <1>5 DEF AbandonedCallReturns, AbandonedCallLost
<1>6. CASE StreamDropped(c)
  BY <1>6 DEF StreamDropped, DropPeerListener, DropListener
<1> QED BY <1>1, <1>2, <1>3, <1>4, <1>5, <1>6 DEF End, Aftermath

\* A step touches one peer only, apart from the signals that reach its queues.
LEMMA OthersKept ==
  ASSUME PeerTypeInv, NEW c \in Clients, StepOf(c), NEW d \in Clients \ {c}
  PROVE  KeptPeer(d)
  BY ServeKeepsOthers, StartKeepsOthers, StepKeepsOthers, EndKeepsOthers
  DEF StepOf, Peer

\* Only the server touches the directory.
LEMMA OnlyServerWrites ==
  ASSUME NEW c \in Clients,
         Peer(c) \/ Close(c) \/ Stops(c) \/ Aftermath(c)
  PROVE  UNCHANGED directoryVars
<1>1. CASE Start(c)
  BY <1>1
  DEF Start, StartPeer, Advertised, PeerListenerOpened, OfferListenerOpened,
      AnswerListenerOpened
<1>2. CASE StepPeerListener(c)
  BY <1>2
  DEF StepPeerListener, StepInitialPeers, StepPeerAdded, StepPeerRemoved,
      StepSynchronise, Synchronised
<1>3. CASE StepSignal(c)
  BY <1>3
  DEF StepSignal, SkipEmpty, StepOfferListener, StepAnswerListener,
      StepListener, OfferSignalled, AnswerSignalled, SignalDropped
<1>4. CASE \E remote \in Id : StepCallback(c, remote)
  BY <1>4
  DEF StepCallback, StepCreateOffer, StepReceiveOffer, SendSignal,
      StepReceiveAnswer, StepLocalSigCplt, StepRemoteSigCplt, StepCplt,
      serverVars, directoryVars
<1>5. CASE End(c) \/ Close(c) \/ Stops(c) \/ Aftermath(c)
  BY <1>5
  DEF End, Closed, CallFailed, StepLagged, Close, Stops, Aftermath,
      AbandonedCallReturns, AbandonedCallLost, StreamDropped, serverVars,
      directoryVars
<1> QED BY <1>1, <1>2, <1>3, <1>4, <1>5 DEF Peer, StepChain

\* Only five kinds of steps touch a queue.
LEMMA QueueSteps ==
  ASSUME NEW c \in Clients, StepOf(c)
  PROVE  \/ SignalAccepted(c)
         \/ ListenerOpened(c)
         \/ \E kind \in Kinds : ReceiveSignal(c, kind)
         \/ \E kind \in Kinds : DropListener(c, kind)
         \/ UNCHANGED queue
<1>1. CASE Serve(c)
  BY <1>1
  DEF Serve, Handler, Advertise, FetchAdd, AdvertiseInsert,
      AdvertiseDuplicate, AdvertiseBroadcast, HandleTeardown,
      TeardownBroadcast, TeardownRemove, PeerDiscover, OpenPeerListener,
      PeerListenerSnapshot, PeerListenerSubscribe, OpenListener,
      ListenerRefused, Signal, SignalRejected, SignalFull, SignalDisconnected
<1>2. CASE Start(c)
  BY <1>2
  DEF Start, StartPeer, Advertised, PeerListenerOpened, OfferListenerOpened,
      AnswerListenerOpened, channelVars
<1>3. CASE StepPeerListener(c)
  BY <1>3
  DEF StepPeerListener, StepInitialPeers, StepPeerAdded, StepPeerRemoved,
      StepSynchronise, Synchronised, channelVars
<1>4. CASE StepSignal(c)
  BY <1>4
  DEF StepSignal, SkipEmpty, StepOfferListener, StepAnswerListener,
      StepListener, OfferSignalled, AnswerSignalled, SignalDropped,
      channelVars, Kinds
<1>5. CASE \E remote \in Id : StepCallback(c, remote)
  BY <1>5
  DEF StepCallback, StepCreateOffer, StepReceiveOffer, SendSignal,
      StepReceiveAnswer, StepLocalSigCplt, StepRemoteSigCplt, StepCplt,
      serverVars, channelVars
<1>6. CASE End(c) \/ Close(c) \/ Stops(c) \/ Aftermath(c)
  BY <1>6
  DEF End, Closed, CallFailed, StepLagged, Close, Stops, Aftermath,
      AbandonedCallReturns, AbandonedCallLost, StreamDropped, serverVars,
      channelVars
<1> QED BY <1>1, <1>2, <1>3, <1>4, <1>5, <1>6 DEF StepOf, Peer, StepChain

\* Only two append a change, and three touch the directory's entries.
LEMMA DirectorySteps ==
  ASSUME NEW c \in Clients, StepOf(c)
  PROVE  /\ AdvertiseBroadcast(c) \/ TeardownBroadcast(c) \/ UNCHANGED changes
         /\ \/ AdvertiseInsert(c)
            \/ TeardownRemove(c)
            \/ UNCHANGED peers
         /\ \/ AdvertiseInsert(c)
            \/ TeardownRemove(c)
            \/ ListenerOpened(c)
            \/ UNCHANGED listener_tx
<1>1. CASE Serve(c)
  BY <1>1
  DEF Serve, Handler, Advertise, FetchAdd, AdvertiseDuplicate, HandleTeardown,
      PeerDiscover, OpenPeerListener, PeerListenerSnapshot,
      PeerListenerSubscribe, OpenListener, ListenerRefused, Signal,
      SignalRejected, SignalAccepted, SignalFull, SignalDisconnected,
      AdvertiseInsert, AdvertiseBroadcast, TeardownBroadcast, TeardownRemove,
      ListenerOpened
<1>2. CASE ~Serve(c)
  BY <1>2, OnlyServerWrites DEF StepOf, directoryVars
<1> QED BY <1>1, <1>2

\* An append adds one change after the others.
LEMMA Appended ==
  ASSUME PeerTypeInv, NEW change, Broadcast(change)
  PROVE  /\ Len(changes) \in Nat
         /\ Len(changes') = Len(changes) + 1
         /\ DOMAIN changes = 1 .. Len(changes)
         /\ DOMAIN changes' = 1 .. Len(changes) + 1
         /\ \A i \in DOMAIN changes : changes'[i] = changes[i]
         /\ changes'[Len(changes) + 1] = change
  BY DEF Broadcast, PeerTypeInv, TypeInv, ServerTypeOK

-----------------------------------------------------------------------------
(* A peer is a sequential program: where it is tells which call it has out,  *)
(* for whom, and which of its streams are open.                             *)

\* The stage a handler is in tells what it was called for.
StageFits(c) ==
    /\ call[c].at = "idle" <=> call[c].op = "none"
    /\ call[c].at \in {"insert", "announce"} => call[c].op = "advertise"
    /\ call[c].at = "subscribe" => call[c].op = "open_peer_listener"
    /\ call[c].at = "teardown" => call[c].op = "signal"
    /\ call[c].at = "remove" => call[c].op \in {"teardown", "signal"}

\* So does the place its caller is at.
CallFits(c) ==
    /\ pc[c] = "new" => call[c].op = "none" /\ local_id[c] = None
    /\ pc[c] = "starting" =>
         call[c].op \in {"advertise", "open_peer_listener", "open_listener"}
    /\ pc[c] = "running" => call[c].op = "none"
    /\ pc[c] = "syncing" => call[c].op = "peer_discover"
    /\ pc[c] = "stepping" => call[c].op = "signal"
    /\ pc[c] = "closing" => call[c].op = "teardown"

\* A peer calls in its own name.
OwnName(c) ==
    /\ call[c].op = "advertise" => local_id[c] = None
    /\ call[c].op \in {"open_peer_listener", "open_listener", "peer_discover",
                       "teardown"}
         => local_id[c] \in Id /\ call[c].id = local_id[c]
    /\ call[c].op = "signal" => local_id[c] \in Id /\ call[c].from = local_id[c]

\* The streams open one after the other.
StreamsFit(c) ==
    /\ local_id[c] = None =>
         /\ peer_listener[c].state = "none"
         /\ \A kind \in Kinds : rx[kind][c] = "none"
    /\ pc[c] = "starting" /\ call[c].op = "open_peer_listener" =>
         /\ peer_listener[c].state =
              IF call[c].at = "replied" THEN "open" ELSE "none"
         /\ \A kind \in Kinds : rx[kind][c] = "none"
    /\ pc[c] = "starting" /\ call[c].op = "open_listener" =>
         /\ peer_listener[c].state = "open"
         /\ call[c].kind = "offer" => rx["answer"][c] = "none"
         /\ call[c].kind = "answer" => rx["offer"][c] = "open"
         /\ rx[call[c].kind][c] =
              IF call[c].at = "replied" /\ call[c].status = "ok"
                THEN "open" ELSE "none"
    /\ pc[c] \in {"running", "syncing", "stepping", "closing"} =>
         /\ peer_listener[c].state = "open"
         /\ \A kind \in Kinds : rx[kind][c] = "open"

ProgramInv ==
    \A c \in Clients :
      StageFits(c) /\ CallFits(c) /\ OwnName(c) /\ StreamsFit(c)

\* What a peer that was not started and has no call satisfies.
LEMMA ProgramInit == Init => ProgramInv
  BY DEF Init, ServerInit, PeerInit, NoCall, NoPeerListener, ProgramInv,
         StageFits, CallFits, OwnName, StreamsFit

ProgramOf(c) == StageFits(c) /\ CallFits(c) /\ OwnName(c) /\ StreamsFit(c)

\* A peer's program goes on like this when another one takes a step.
LEMMA ProgramKept ==
  ASSUME PeerTypeInv, NEW d \in Clients, KeptPeer(d), ProgramOf(d)
  PROVE  ProgramOf(d)'
<1>1. call[d].kind \in Kinds
  BY DEF PeerTypeInv, TypeInv, ServerTypeOK, Call
<1>2. StageFits(d)' /\ CallFits(d)' /\ OwnName(d)'
  BY DEF KeptPeer, ProgramOf, StageFits, CallFits, OwnName
<1>3. StreamsFit(d)'
  BY <1>1 DEF KeptPeer, ProgramOf, StreamsFit, Kinds
<1> QED BY <1>2, <1>3 DEF ProgramOf

\* The server answers it.
LEMMA ProgramServe ==
  ASSUME PeerTypeInv, ProgramInv, NEW c \in Clients, Serve(c)
  PROVE  ProgramOf(c)'
<1> USE DEF ProgramInv, StageFits, At
<1>1. /\ HandlerTakes(c) /\ HandlerKeeps(c)
      /\ pc'[c] = pc[c] /\ local_id'[c] = local_id[c]
  BY HandlerEffect DEF Serve, PeerTypeInv, TypeInv, peerVars
<1>2. call[c].op # "advertise" => call'[c].id = call[c].id
  BY <1>1 DEF HandlerKeeps, FetchAdd
<1>3. CallFits(c)' /\ OwnName(c)'
  BY <1>1, <1>2 DEF HandlerKeeps, CallFits, OwnName
<1>4. StageFits(c)'
  BY <1>1
  DEF HandlerKeeps, HandlerTakes, FetchAdd, AdvertiseInsert,
      AdvertiseDuplicate, AdvertiseBroadcast, TeardownBroadcast,
      TeardownRemove, PeerDiscover, PeerListenerSnapshot,
      PeerListenerSubscribe, ListenerOpened, ListenerRefused, SignalRejected,
      SignalAccepted, SignalFull, SignalDisconnected
<1>5. StreamsFit(c)'
  <2> USE DEF StreamsFit, CallFits, OwnName, HandlerKeeps, Kinds
  <2>1. CASE PeerListenerSubscribe(c)
    BY <1>1, <2>1
    DEF PeerListenerSubscribe, Reply, PeerTypeInv, TypeInv, ServerTypeOK, Id,
        None
  <2>2. CASE ListenerOpened(c)
    <3> DEFINE kind == call[c].kind
    <3>1. /\ kind \in Kinds /\ call'[c].kind = kind
          /\ call'[c].at = "replied" /\ call'[c].status = "ok"
      BY <1>1, <2>2
      DEF ListenerOpened, Reply, PeerTypeInv, TypeInv, ServerTypeOK, Call
    <3>2. /\ rx'[kind][c] = "open"
          /\ \A other \in Kinds \ {kind} : rx'[other][c] = rx[other][c]
          /\ peer_listener' = peer_listener
      BY <2>2, <3>1 DEF ListenerOpened, PeerTypeInv, TypeInv, ServerTypeOK
    <3>3. /\ call[c].op = "open_listener" /\ call'[c].op = "open_listener"
          /\ local_id[c] # None
          /\ pc[c] \in {"starting", "gone"}
      BY <1>1, <2>2
      DEF ListenerOpened, Id, None, PeerTypeInv, PeerTypeOK, Locations
    <3> QED BY <1>1, <3>1, <3>2, <3>3
  <2>3. CASE ListenerRefused(c)
    BY <1>1, <2>3
    DEF ListenerRefused, Reply, PeerTypeInv, TypeInv, ServerTypeOK
  <2>4. CASE ~PeerListenerSubscribe(c) /\ ~ListenerOpened(c)
             /\ ~ListenerRefused(c)
    <3>1. /\ UNCHANGED <<rx, peer_listener>>
          /\ \/ call[c].op \in {"advertise", "teardown", "peer_discover", "signal"}
             \/ PeerListenerSnapshot(c) /\ call'[c].at = "subscribe"
      BY <1>1, <2>4
      DEF HandlerTakes, FetchAdd, AdvertiseInsert,
          AdvertiseDuplicate, AdvertiseBroadcast, TeardownBroadcast,
          TeardownRemove, PeerDiscover, PeerListenerSnapshot, SignalRejected,
          SignalAccepted, SignalFull, SignalDisconnected
    <3>2. StreamsFit(c)
      OBVIOUS
    <3>3. CASE call[c].op \in {"advertise", "teardown", "peer_discover", "signal"}
      BY <1>1, <3>1, <3>2, <3>3
    <3>4. CASE PeerListenerSnapshot(c) /\ call'[c].at = "subscribe"
      BY <1>1, <3>1, <3>2, <3>4 DEF PeerListenerSnapshot
    <3> QED BY <3>1, <3>3, <3>4
  <2> QED BY <2>1, <2>2, <2>3, <2>4
<1> QED BY <1>3, <1>4, <1>5 DEF ProgramOf

\* It starts.
LEMMA ProgramStart ==
  ASSUME PeerTypeInv, ProgramInv, NEW c \in Clients, Start(c)
  PROVE  ProgramOf(c)'
<1> USE DEF PeerTypeInv, PeerTypeOK, TypeInv, ServerTypeOK, ProgramInv,
            ProgramOf, StageFits, CallFits, OwnName, StreamsFit, Request,
            TakeReply, MoveTo, NoCall, channelVars, Kinds, Id, None
<1>1. CASE StartPeer(c)
  BY <1>1 DEF StartPeer, AdvertiseReq
<1>2. CASE Advertised(c)
  <2>1. call[c].id \in Id
    BY <1>2 DEF Advertised, Returned, Named, At
  <2> QED BY <1>2, <2>1 DEF Advertised, Returned, PeerListenerReq
<1>3. CASE PeerListenerOpened(c)
  BY <1>3 DEF PeerListenerOpened, Returned, ListenerReq, peerVars
<1>4. CASE OfferListenerOpened(c)
  BY <1>4 DEF OfferListenerOpened, Returned, ListenerReq, peerVars
<1>5. CASE AnswerListenerOpened(c)
  BY <1>5 DEF AnswerListenerOpened, Returned
<1> QED BY <1>1, <1>2, <1>3, <1>4, <1>5 DEF Start

\* It takes a step.
LEMMA ProgramStep ==
  ASSUME PeerTypeInv, ProgramInv, NEW c \in Clients,
         StepPeerListener(c) \/ StepChain(c)
  PROVE  ProgramOf(c)'
<1> USE DEF PeerTypeInv, PeerTypeOK, TypeInv, ServerTypeOK, ProgramInv,
            ProgramOf, StageFits, CallFits, OwnName, StreamsFit, Request,
            TakeReply, MoveTo, NoCall, channelVars, Kinds, Id, None
<1>1. CASE StepInitialPeers(c)
  BY <1>1 DEF StepInitialPeers, ReceiveInitial, PeerListener
<1>2. CASE StepPeerAdded(c) \/ StepPeerRemoved(c)
  BY <1>2 DEF StepPeerAdded, StepPeerRemoved, ReceiveChange, PeerListener
<1>3. CASE StepSynchronise(c)
  BY <1>3 DEF StepSynchronise, ReceiveChange, PeerDiscoverReq, PeerListener
<1>4. CASE Synchronised(c)
  BY <1>4 DEF Synchronised
<1>5. CASE \/ \E kind \in Kinds : SkipEmpty(c, kind)
           \/ StepOfferListener(c) \/ StepAnswerListener(c)
  BY <1>5
  DEF SkipEmpty, StepOfferListener, StepAnswerListener, StepListener,
      ReceiveSignal, peerVars
<1>6. CASE OfferSignalled(c) \/ AnswerSignalled(c) \/ SignalDropped(c)
  BY <1>6 DEF OfferSignalled, AnswerSignalled, SignalDropped
<1>7. ASSUME NEW remote \in Id, StepCallback(c, remote) PROVE ProgramOf(c)'
  <2>1. ASSUME NEW task, NEW kind \in Kinds, SendSignal(c, task, kind, remote)
        PROVE  ProgramOf(c)'
    <3> HIDE DEF TypeInv, StageFits, CallFits, OwnName, StreamsFit
    <3>1. /\ pc[c] = "running" /\ pc'[c] = "stepping"
          /\ call'[c] = SignalReq(kind, local_id[c], remote)
          /\ UNCHANGED <<local_id, peer_listener, rx>>
      BY <2>1 DEF SendSignal, Finish, TypeInv
    <3>2. /\ call'[c].op = "signal" /\ call'[c].at = "sent"
          /\ call'[c].from = local_id[c]
      BY <3>1 DEF SignalReq
    <3>3. local_id[c] \in Id
      BY <3>1 DEF Identified
    <3>4. StageFits(c)' /\ CallFits(c)' /\ OwnName(c)'
      BY <3>1, <3>2, <3>3 DEF StageFits, CallFits, OwnName
    <3>5. StreamsFit(c)'
      BY <3>1, <3>2, <3>3 DEF StreamsFit
    <3> QED BY <3>4, <3>5
  <2>3. CASE StepCreateOffer(c, remote) \/ StepReceiveOffer(c, remote)
    BY <2>1, <2>3 DEF StepCreateOffer, StepReceiveOffer
  <2>2. CASE \/ StepReceiveAnswer(c, remote)
             \/ StepLocalSigCplt(c, remote) \/ StepRemoteSigCplt(c, remote)
    BY <2>2
    DEF StepReceiveAnswer, StepLocalSigCplt, StepRemoteSigCplt, StepCplt,
        serverVars
  <2> QED BY <1>7, <2>2, <2>3 DEF StepCallback
<1> QED
  BY <1>1, <1>2, <1>3, <1>4, <1>5, <1>6, <1>7
  DEF StepPeerListener, StepChain, StepSignal

\* It ends.
LEMMA ProgramEnd ==
  ASSUME PeerTypeInv, ProgramInv, NEW c \in Clients,
         End(c) \/ Close(c) \/ Stops(c) \/ Aftermath(c)
  PROVE  ProgramOf(c)'
<1> USE DEF PeerTypeInv, PeerTypeOK, TypeInv, ServerTypeOK, ProgramInv,
            ProgramOf, StageFits, CallFits, OwnName, StreamsFit, Request,
            TakeReply, RequestLost, MoveTo, DropPeer, NoCall, channelVars,
            Kinds, Id, None
<1>1. CASE Closed(c) \/ CallFailed(c)
  BY <1>1 DEF Closed, CallFailed
<1>2. CASE StepLagged(c)
  BY <1>2 DEF StepLagged, ReceiveLagged, PeerListener
<1>3. CASE Close(c)
  BY <1>3 DEF Close, TeardownReq
<1>4. CASE Stops(c)
  BY <1>4 DEF Stops, serverVars
<1>5. CASE AbandonedCallReturns(c) \/ AbandonedCallLost(c)
  BY <1>5 DEF AbandonedCallReturns, AbandonedCallLost, peerVars
<1>6. CASE StreamDropped(c)
  BY <1>6
  DEF StreamDropped, DropPeerListener, DropListener, peerVars, PeerListener
<1> QED BY <1>1, <1>2, <1>3, <1>4, <1>5, <1>6 DEF End, Aftermath

\* So the program of every peer is always as described.
LEMMA ProgramNext ==
  ASSUME PeerTypeInv, ProgramInv, [Steps]_vars
  PROVE  ProgramInv'
<1>1. CASE UNCHANGED vars
  BY <1>1
  DEF vars, serverVars, peerVars, ProgramInv, StageFits, CallFits, OwnName,
      StreamsFit
<1>2. ASSUME NEW c \in Clients, StepOf(c) PROVE ProgramInv'
  <2>1. ProgramOf(c)'
    BY <1>2, ProgramServe, ProgramStart, ProgramStep, ProgramEnd
    DEF StepOf, Peer
  <2>2. \A d \in Clients \ {c} : ProgramOf(d)'
    BY <1>2, OthersKept, ProgramKept DEF ProgramInv, ProgramOf
  <2> QED BY <2>1, <2>2 DEF ProgramInv, ProgramOf
<1> QED BY <1>1, <1>2 DEF Steps

-----------------------------------------------------------------------------
(* Identifiers.  Nothing mentions one the counter has not reached, so the   *)
(* one that advertise takes is nobody else's.                               *)

\* The identifiers handed out so far, and the absent one.
Reached == -1 .. generator - 1

ReachedBy(c) ==
    /\ call[c].id \in Reached
    /\ call[c].found \subseteq Reached
    /\ local_id[c] \in Reached
    /\ peer_listener[c].initial \subseteq Reached
    /\ pending[c] \subseteq Tasks \X Reached

QueuesReached ==
    \A kind \in Kinds : \A c \in Clients : queue[kind][c] \in Seq(Reached)

ChangesReached == \A i \in DOMAIN changes : changes[i].id \in Reached

ReachedInv ==
    /\ \A c \in Clients : ReachedBy(c)
    /\ QueuesReached
    /\ ChangesReached

\* The counter only grows, and what is reached stays so.
LEMMA ReachedGrows ==
  ASSUME PeerTypeInv, ~Wraps, NEW c \in Clients, StepOf(c)
  PROVE  /\ generator \in Nat /\ generator' \in Nat
         /\ generator \in Id /\ generator' \in Id
         /\ IF FetchAdd(c) THEN generator' = generator + 1
                           ELSE generator' = generator
         /\ Reached \subseteq Reached'
<1>1. generator \in Id /\ Id \subseteq Nat
  BY ServerAssumption
  DEF PeerTypeInv, TypeInv, ServerTypeOK, Id, ServerAssumption
<1>2. IF FetchAdd(c) THEN generator' = generator + 1
                     ELSE generator' = generator
  <2>1. CASE FetchAdd(c)
    BY <1>1, <2>1 DEF FetchAdd, NextId
  <2>2. CASE Serve(c) /\ ~FetchAdd(c)
    BY <2>2
    DEF Serve, Handler, Advertise, AdvertiseInsert, AdvertiseDuplicate,
        AdvertiseBroadcast, HandleTeardown, TeardownBroadcast, TeardownRemove,
        PeerDiscover, OpenPeerListener, PeerListenerSnapshot,
        PeerListenerSubscribe, OpenListener, ListenerOpened, ListenerRefused,
        Signal, SignalRejected, SignalAccepted, SignalFull, SignalDisconnected
  <2>3. CASE ~Serve(c) /\ ~FetchAdd(c)
    BY <2>3, OnlyServerWrites DEF StepOf, directoryVars
  <2> QED BY <2>1, <2>2, <2>3
<1>3. generator' \in Id
  BY <1>1, <1>2, ServerAssumption
  DEF FetchAdd, Id, ServerAssumption
<1>4. Reached \subseteq Reached'
  BY <1>1, <1>2 DEF Reached
<1> QED BY <1>1, <1>2, <1>3, <1>4

\* A sequence over a set is one over a larger set.
LEMMA SeqGrows ==
  ASSUME NEW S, NEW T, S \subseteq T, NEW s \in Seq(S)
  PROVE  s \in Seq(T)
<1>1. \A i \in 1 .. Len(s) : s[i] \in T
  OBVIOUS
<1>2. /\ Len(s) \in Nat
      /\ s = [i \in 1 .. Len(s) |-> s[i]]
  OBVIOUS
<1> QED BY <1>1, <1>2

\* What becomes of a queue keeps its elements in the set they were in.
LEMMA SeqSteps ==
  ASSUME NEW S, NEW s \in Seq(S), NEW e \in S
  PROVE  /\ Append(s, e) \in Seq(S)
         /\ <<e>> \in Seq(S)
         /\ <<>> \in Seq(S)
         /\ s # <<>> => Tail(s) \in Seq(S) /\ Head(s) \in S
  OBVIOUS

\* Nothing was handed out at first, and nothing mentions anyone.
LEMMA ReachedInit == Init => ReachedInv
<1> SUFFICES ASSUME Init PROVE ReachedInv
  OBVIOUS
<1>1. \A c \in Clients : ReachedBy(c)
  BY DEF Init, ServerInit, PeerInit, NoCall, NoPeerListener, ReachedBy,
         Reached, None
<1>2. QueuesReached
  BY DEF Init, ServerInit, QueuesReached
<1>3. ChangesReached
  BY DEF Init, ServerInit, ChangesReached
<1> QED BY <1>1, <1>2, <1>3 DEF ReachedInv

\* A peer mentions what it did when another one takes a step.
LEMMA ReachedKept ==
  ASSUME NEW d \in Clients, KeptPeer(d), ReachedBy(d), Reached \subseteq Reached'
  PROVE  ReachedBy(d)'
  BY DEF KeptPeer, ReachedBy

\* The server tells a peer of those in the directory.
LEMMA ReachedServe ==
  ASSUME PeerTypeInv, DirectoryInv, ReachedInv, ~Wraps,
         NEW c \in Clients, Serve(c)
  PROVE  ReachedBy(c)'
<1>1. /\ HandlerTakes(c) /\ HandlerKeeps(c)
      /\ UNCHANGED <<local_id, pending>>
  BY HandlerEffect DEF Serve, PeerTypeInv, TypeInv, peerVars
<1>2. /\ Reached \subseteq Reached' /\ generator \in Nat
      /\ FetchAdd(c) => generator' = generator + 1
  BY ReachedGrows DEF StepOf
<1>3. ReachedBy(c)
  BY DEF ReachedInv
<1>4. call'[c].id \in Reached'
  <2>1. CASE FetchAdd(c)
    <3>1. call'[c].id = generator
      BY <2>1 DEF FetchAdd, PeerTypeInv, TypeInv, ServerTypeOK, Call
    <3> QED BY <1>2, <2>1, <3>1 DEF Reached
  <2>2. CASE ~FetchAdd(c)
    BY <1>1, <1>2, <1>3, <2>2 DEF HandlerKeeps, ReachedBy
  <2> QED BY <2>1, <2>2
<1>5. call'[c].found \subseteq Reached'
  <2>1. Others(call[c].id) \subseteq Reached
    <3>1. peers \subseteq Nat
      BY ModulusPositive DEF PeerTypeInv, TypeInv, ServerTypeOK, Id
    <3>2. \A id \in peers : id < generator
      BY DEF DirectoryInv, HandedOut
    <3>3. generator \in Nat
      BY <1>2
    <3>4. \A id \in peers : id \in Reached
      BY <3>1, <3>2, <3>3 DEF Reached
    <3> QED BY <3>4 DEF Others
  <2>2. \/ call'[c].found = call[c].found
        \/ call'[c].found = Others(call[c].id)
    <3>1. CASE PeerDiscover(c) \/ PeerListenerSnapshot(c)
      BY <3>1
      DEF PeerDiscover, ReplyFound, PeerListenerSnapshot, PeerTypeInv, TypeInv,
          ServerTypeOK, Call
    <3> QED BY <1>1, <3>1 DEF HandlerKeeps
  <2> QED BY <1>2, <1>3, <2>1, <2>2 DEF ReachedBy
<1>6. peer_listener'[c].initial \subseteq Reached'
  <2>1. CASE PeerListenerSubscribe(c)
    BY <1>2, <1>3, <2>1
    DEF PeerListenerSubscribe, ReachedBy, PeerTypeInv, TypeInv, ServerTypeOK
  <2>2. CASE ~PeerListenerSubscribe(c)
    BY <1>2, <1>3, <2>2
    DEF Serve, Handler, Advertise, FetchAdd, AdvertiseInsert,
        AdvertiseDuplicate, AdvertiseBroadcast, HandleTeardown,
        TeardownBroadcast, TeardownRemove, PeerDiscover, OpenPeerListener,
        PeerListenerSnapshot, OpenListener, ListenerOpened, ListenerRefused,
        Signal, SignalRejected, SignalAccepted, SignalFull,
        SignalDisconnected, ReachedBy
  <2> QED BY <2>1, <2>2
<1> QED BY <1>1, <1>2, <1>3, <1>4, <1>5, <1>6 DEF ReachedBy

\* A peer calls for those it was told of.
LEMMA ReachedPeer ==
  ASSUME PeerTypeInv, ReachedInv, NEW c \in Clients,
         Peer(c) \/ Close(c) \/ Stops(c) \/ Aftermath(c),
         generator \in Nat
  PROVE  ReachedBy(c)' /\ Reached' = Reached
<1> USE DEF PeerTypeInv, PeerTypeOK, TypeInv, ServerTypeOK, Request, TakeReply,
            RequestLost, MoveTo, peerVars, channelVars
<1>1. ReachedBy(c) /\ Reached' = Reached
  BY OnlyServerWrites DEF ReachedInv, Reached, directoryVars
<1>2. NoCall.id \in Reached /\ NoCall.found = {}
  BY DEF NoCall, Reached, None
<1>3. CASE Start(c)
  <2>1. CASE StartPeer(c)
    <3>1. call'[c] = AdvertiseReq
      BY <2>1 DEF StartPeer
    <3> QED
      BY <1>1, <1>2, <2>1, <3>1 DEF StartPeer, AdvertiseReq, NoCall, ReachedBy
  <2>2. CASE Advertised(c)
    <3>1. /\ call'[c] = PeerListenerReq(call[c].id)
          /\ local_id'[c] = call[c].id
      BY <2>2 DEF Advertised
    <3> QED
      BY <1>1, <2>2, <3>1 DEF Advertised, PeerListenerReq, NoCall, ReachedBy
  <2>4. CASE PeerListenerOpened(c) \/ OfferListenerOpened(c)
    <3>1. \E kind \in Kinds : call'[c] = ListenerReq(kind, local_id[c])
      BY <2>4 DEF PeerListenerOpened, OfferListenerOpened, Kinds
    <3>2. call'[c].id = local_id[c] /\ call'[c].found = {}
      BY <3>1 DEF ListenerReq, NoCall
    <3> QED
      BY <1>1, <2>4, <3>2
      DEF PeerListenerOpened, OfferListenerOpened, ReachedBy
  <2>3. CASE AnswerListenerOpened(c)
    BY <1>1, <1>2, <2>3 DEF AnswerListenerOpened, ReachedBy
  <2> QED BY <1>3, <2>1, <2>2, <2>3, <2>4 DEF Start
<1>4. CASE StepPeerListener(c)
  <2>1. \A ids : ids \subseteq Reached =>
                   FirstOffers(c, ids) \subseteq Tasks \X Reached
    BY DEF FirstOffers, Tasks
  <2>2. CASE StepInitialPeers(c)
    BY <1>1, <2>1, <2>2
    DEF StepInitialPeers, ReceiveInitial, ReachedBy, PeerListener
  <2>3. CASE StepPeerAdded(c) \/ StepPeerRemoved(c)
    <3>1. NextChange(c).id \in Reached
      BY <2>3, NextChangeType
      DEF StepPeerAdded, StepPeerRemoved, NextChange, ReachedInv, ChangesReached
    <3>2. FirstOffers(c, {NextChange(c).id}) \subseteq Tasks \X Reached
      BY <2>1, <3>1
    <3>3. \/ pending'[c] = pending[c]
          \/ pending'[c] = pending[c] \cup FirstOffers(c, {NextChange(c).id})
      BY <2>3 DEF StepPeerAdded, StepPeerRemoved
    <3>4. peer_listener'[c].initial = peer_listener[c].initial
      BY <2>3
      DEF StepPeerAdded, StepPeerRemoved, ReceiveChange, PeerListener
    <3> QED
      BY <1>1, <2>3, <3>2, <3>3, <3>4
      DEF StepPeerAdded, StepPeerRemoved, ReachedBy
  <2>4. CASE StepSynchronise(c)
    BY <1>1, <2>4
    DEF StepSynchronise, ReceiveChange, PeerDiscoverReq, NoCall, ReachedBy,
        PeerListener
  <2>5. CASE Synchronised(c)
    BY <1>1, <1>2, <2>5 DEF Synchronised, ReachedBy
  <2> QED BY <1>4, <2>2, <2>3, <2>4, <2>5 DEF StepPeerListener
<1>5. CASE StepSignal(c)
  <2>1. CASE \E kind \in Kinds : SkipEmpty(c, kind)
    BY <1>1, <2>1 DEF SkipEmpty, ReceiveSignal, ReachedBy
  <2>2. ASSUME NEW kind \in Kinds, NEW task \in Tasks, NEW event \in Events,
               StepListener(c, kind, task, event)
        PROVE  ReachedBy(c)'
    <3>1. Head(queue[kind][c]) \in Reached
      <4>1. queue[kind][c] \in Seq(Reached) /\ queue[kind][c] # <<>>
        BY <2>2
        DEF StepListener, ReceiveSignal, ReachedInv, QueuesReached
      <4> QED BY <4>1
    <3>2. pending'[c] =
            pending[c] \cup {<<task, Head(queue[kind][c])>>}
      BY <2>2 DEF StepListener
    <3> QED
      BY <1>1, <2>2, <3>1, <3>2 DEF StepListener, ReachedBy
  <2>3. CASE StepOfferListener(c) \/ StepAnswerListener(c)
    <3>2. /\ "offer" \in Kinds /\ "answer" \in Kinds
          /\ "receive_offer" \in Tasks /\ "receive_answer" \in Tasks
          /\ "got_offer" \in Events /\ "got_answer" \in Events
      BY DEF Kinds, Tasks, Events
    <3>3. CASE StepOfferListener(c)
      BY <1>1, <2>2, <3>2, <3>3 DEF StepOfferListener
    <3>4. CASE StepAnswerListener(c)
      BY <1>1, <2>2, <3>2, <3>4 DEF StepAnswerListener
    <3> QED BY <2>3, <3>3, <3>4
  <2>4. CASE OfferSignalled(c) \/ AnswerSignalled(c) \/ SignalDropped(c)
    BY <1>1, <1>2, <2>4
    DEF OfferSignalled, AnswerSignalled, SignalDropped, Tasks, ReachedBy
  <2> QED BY <1>5, <2>1, <2>3, <2>4 DEF StepSignal
<1>6. ASSUME NEW remote \in Id, StepCallback(c, remote) PROVE ReachedBy(c)'
  <2>1. \A task : Finish(c, task, remote) => remote \in Reached
    BY <1>1 DEF Finish, ReachedBy
  <2>2. ASSUME NEW task, NEW kind, SendSignal(c, task, kind, remote)
        PROVE  ReachedBy(c)'
    <3>1. call'[c] = SignalReq(kind, local_id[c], remote)
      BY <2>2 DEF SendSignal
    <3>2. call'[c].id = remote /\ call'[c].found = {}
      BY <3>1 DEF SignalReq, NoCall
    <3>3. remote \in Reached
      BY <2>1, <2>2 DEF SendSignal
    <3> QED
      BY <1>1, <2>2, <3>2, <3>3 DEF SendSignal, Dequeued, ReachedBy
  <2>3. CASE \/ StepReceiveAnswer(c, remote)
             \/ StepLocalSigCplt(c, remote) \/ StepRemoteSigCplt(c, remote)
    BY <1>1, <2>1, <2>3
    DEF StepReceiveAnswer, StepLocalSigCplt, StepRemoteSigCplt, StepCplt,
        Dequeued, serverVars, Tasks, ReachedBy
  <2> QED
    BY <1>6, <2>2, <2>3 DEF StepCallback, StepCreateOffer, StepReceiveOffer
<1>7. CASE End(c) \/ Close(c) \/ Stops(c) \/ Aftermath(c)
  <2> USE DEF DropPeer, ReachedBy
  <2>1. CASE Closed(c) \/ CallFailed(c)
    BY <1>1, <1>2, <2>1 DEF Closed, CallFailed
  <2>2. CASE StepLagged(c)
    BY <1>1, <2>2 DEF StepLagged, ReceiveLagged, PeerListener
  <2>3. CASE Close(c)
    BY <1>1, <2>3 DEF Close, TeardownReq, NoCall
  <2>4. CASE Stops(c)
    BY <1>1, <2>4 DEF Stops, serverVars
  <2>5. CASE AbandonedCallReturns(c) \/ AbandonedCallLost(c)
    BY <1>1, <1>2, <2>5 DEF AbandonedCallReturns, AbandonedCallLost
  <2>6. CASE StreamDropped(c)
    <3>1. /\ peer_listener'[c].initial = peer_listener[c].initial
          /\ UNCHANGED <<generator, call, local_id, pending>>
      <4>1. peer_listener \in [Clients -> PeerListener]
        BY DEF PeerTypeInv, TypeInv, ServerTypeOK
      <4> HIDE DEF ReachedBy
      <4> QED
        BY <2>6, <4>1
        DEF StreamDropped, DropPeerListener, PeerListener, peerVars, directoryVars
    <3> QED BY <1>1, <3>1 DEF Reached
  <2> QED
    BY <1>7, <2>1, <2>2, <2>3, <2>4, <2>5, <2>6 DEF End, Aftermath
<1> QED BY <1>1, <1>3, <1>4, <1>5, <1>6, <1>7 DEF Peer, StepChain

\* What is forwarded is the sender's identifier, or the empty message.
LEMMA ReachedQueues ==
  ASSUME PeerTypeInv, ProgramInv, ReachedInv, NEW c \in Clients, StepOf(c),
         Reached \subseteq Reached', generator \in Nat
  PROVE  QueuesReached'
<1>1. ASSUME NEW kind \in Kinds, NEW d \in Clients
      PROVE  queue'[kind][d] \in Seq(Reached)
  <2> DEFINE s == queue[kind][d]
  <2>1. s \in Seq(Reached)
    BY DEF ReachedInv, QueuesReached
  <2>2. queue \in [Kinds -> [Clients -> Seq(Id \cup {None})]]
    BY DEF PeerTypeInv, TypeInv, ServerTypeOK
  <2>3. call[c].op = "signal" => call[c].from \in Reached
    BY DEF ProgramInv, OwnName, ReachedInv, ReachedBy
  <2>4. None \in Reached
    BY DEF None, Reached
  <2>5. CASE queue'[kind][d] = s
    BY <2>1, <2>5
  <2>6. CASE SignalAccepted(c)
    <3>1. \/ queue'[kind][d] = s
          \/ queue'[kind][d] = Append(s, call[c].from)
      BY <2>2, <2>6 DEF SignalAccepted, Forwarded
    <3>2. call[c].from \in Reached
      BY <2>3, <2>6 DEF SignalAccepted, At
    <3> QED BY <2>1, <3>1, <3>2, SeqSteps
  <2>7. CASE ListenerOpened(c)
    <3>1. queue'[kind][d] = s \/ queue'[kind][d] = <<None>>
      BY <2>2, <2>7 DEF ListenerOpened
    <3> QED BY <2>1, <2>4, <3>1, SeqSteps
  <2>8. ASSUME NEW other \in Kinds, ReceiveSignal(c, other)
        PROVE  queue'[kind][d] \in Seq(Reached)
    <3>1. \/ queue'[kind][d] = s
          \/ queue'[kind][d] = Tail(s) /\ s # <<>>
      BY <2>2, <2>8 DEF ReceiveSignal
    <3> QED BY <2>1, <2>4, <3>1, SeqSteps
  <2>9. ASSUME NEW other \in Kinds, DropListener(c, other)
        PROVE  queue'[kind][d] \in Seq(Reached)
    <3>1. queue'[kind][d] = s \/ queue'[kind][d] = <<>>
      BY <2>2, <2>9 DEF DropListener
    <3> QED BY <2>1, <2>4, <3>1, SeqSteps
  <2> QED BY <2>5, <2>6, <2>7, <2>8, <2>9, QueueSteps
<1> QED BY <1>1, SeqGrows DEF QueuesReached

\* A change is about a peer the caller named.
LEMMA ReachedChanges ==
  ASSUME PeerTypeInv, ReachedInv, NEW c \in Clients, StepOf(c),
         Reached \subseteq Reached'
  PROVE  ChangesReached'
<1>1. ChangesReached /\ call[c].id \in Reached
  BY DEF ReachedInv, ReachedBy
<1>2. CASE \E change : Broadcast(change) /\ change.id = call[c].id
  BY <1>1, <1>2, Appended DEF ChangesReached
<1>3. CASE UNCHANGED changes
  BY <1>1, <1>3 DEF ChangesReached
<1>4. AdvertiseBroadcast(c) \/ TeardownBroadcast(c)
        => \E change : Broadcast(change) /\ change.id = call[c].id
  BY DEF AdvertiseBroadcast, TeardownBroadcast, TornDown, Add, Remove
<1> QED BY <1>2, <1>3, <1>4, DirectorySteps

\* So every step keeps it.
LEMMA ReachedNext ==
  ASSUME ~Wraps, PeerTypeInv, ProgramInv, DirectoryInv, ReachedInv, [Steps]_vars
  PROVE  ReachedInv'
<1>1. CASE UNCHANGED vars
  BY <1>1
  DEF vars, serverVars, peerVars, ReachedInv, ReachedBy, Reached,
      QueuesReached, ChangesReached
<1>2. ASSUME NEW c \in Clients, StepOf(c) PROVE ReachedInv'
  <2>1. Reached \subseteq Reached' /\ generator \in Nat
    BY <1>2, ReachedGrows
  <2>2. ReachedBy(c)'
    BY <1>2, <2>1, ReachedServe, ReachedPeer DEF StepOf
  <2>3. \A d \in Clients \ {c} : ReachedBy(d)'
    BY <1>2, <2>1, OthersKept, ReachedKept DEF ReachedInv
  <2>4. QueuesReached' /\ ChangesReached'
    BY <1>2, <2>1, ReachedQueues, ReachedChanges
  <2> QED BY <2>2, <2>3, <2>4 DEF ReachedInv
<1> QED BY <1>1, <1>2 DEF Steps

-----------------------------------------------------------------------------
(* The identifier of a peer is its own.                                    *)

\* The identifier a peer has, or is about to be told.
Own(c) == IF call[c].op = "advertise" THEN call[c].id ELSE local_id[c]

OwnAlone ==
    \A c, d \in Clients : Own(c) # None /\ Own(c) = Own(d) => c = d

\* Nobody has an identifier at first.
LEMMA OwnInit == Init => OwnAlone
  BY DEF Init, ServerInit, PeerInit, NoCall, OwnAlone, Own

\* A peer has what the counter gave it, until it gives up asking.
LEMMA OwnStep ==
  ASSUME PeerTypeInv, ProgramInv, NEW c \in Clients, StepOf(c)
  PROVE  \/ Own(c)' = Own(c)
         \/ Own(c)' = None
         \/ FetchAdd(c) /\ Own(c)' = generator
<1> USE DEF Own, ProgramInv, StageFits, CallFits, OwnName
<1>1. CASE Serve(c)
  <2>1. HandlerKeeps(c) /\ UNCHANGED local_id
    BY <1>1, HandlerEffect DEF Serve, PeerTypeInv, TypeInv, peerVars
  <2>2. CASE FetchAdd(c)
    <3>1. call'[c].id = generator /\ call[c].op = "advertise"
      BY <2>2 DEF FetchAdd, At, PeerTypeInv, TypeInv, ServerTypeOK, Call
    <3> QED BY <2>1, <2>2, <3>1 DEF HandlerKeeps
  <2>3. CASE ~FetchAdd(c)
    BY <2>1, <2>3 DEF HandlerKeeps
  <2> QED BY <2>2, <2>3
<1> USE DEF PeerTypeInv, PeerTypeOK, TypeInv, ServerTypeOK, Request, TakeReply,
            RequestLost, NoCall, peerVars, channelVars
<1>2. CASE Start(c)
  <2>1. CASE StartPeer(c)
    BY <2>1 DEF StartPeer, AdvertiseReq
  <2>2. CASE Advertised(c)
    BY <2>2 DEF Advertised, Returned, PeerListenerReq
  <2>3. CASE PeerListenerOpened(c) \/ OfferListenerOpened(c)
    <3>1. /\ \E kind : call'[c] = ListenerReq(kind, local_id[c])
          /\ UNCHANGED local_id
          /\ call[c].op # "advertise"
      BY <2>3 DEF PeerListenerOpened, OfferListenerOpened, Returned
    <3>2. call'[c].op = "open_listener"
      BY <3>1 DEF ListenerReq
    <3> QED BY <3>1, <3>2
  <2>4. CASE AnswerListenerOpened(c)
    BY <2>4 DEF AnswerListenerOpened, Returned
  <2> QED BY <1>2, <2>1, <2>2, <2>3, <2>4 DEF Start
<1>3. CASE StepPeerListener(c)
  <2>1. CASE StepInitialPeers(c) \/ StepPeerAdded(c) \/ StepPeerRemoved(c)
    BY <2>1 DEF StepInitialPeers, StepPeerAdded, StepPeerRemoved
  <2>2. CASE StepSynchronise(c)
    BY <2>2 DEF StepSynchronise, PeerDiscoverReq
  <2>3. CASE Synchronised(c)
    BY <2>3 DEF Synchronised
  <2> QED BY <1>3, <2>1, <2>2, <2>3 DEF StepPeerListener
<1>4. CASE StepSignal(c)
  BY <1>4
  DEF StepSignal, SkipEmpty, StepOfferListener, StepAnswerListener,
      StepListener, OfferSignalled, AnswerSignalled, SignalDropped
<1>5. ASSUME NEW remote \in Id, StepCallback(c, remote)
      PROVE  Own(c)' = Own(c)
  <2>1. ASSUME NEW task, NEW kind, SendSignal(c, task, kind, remote)
        PROVE  Own(c)' = Own(c)
    <3>1. call'[c].op = "signal" /\ UNCHANGED local_id /\ pc[c] = "running"
      BY <2>1 DEF SendSignal, Finish, SignalReq
    <3> QED BY <3>1
  <2>2. CASE \/ StepReceiveAnswer(c, remote)
             \/ StepLocalSigCplt(c, remote) \/ StepRemoteSigCplt(c, remote)
    BY <2>2
    DEF StepReceiveAnswer, StepLocalSigCplt, StepRemoteSigCplt, StepCplt,
        serverVars
  <2> QED
    BY <1>5, <2>1, <2>2 DEF StepCallback, StepCreateOffer, StepReceiveOffer
<1>6. CASE End(c) \/ Close(c) \/ Stops(c) \/ Aftermath(c)
  <2> USE DEF DropPeer
  <2>1. CASE Closed(c) \/ CallFailed(c)
    BY <2>1 DEF Closed, CallFailed
  <2>2. CASE Close(c)
    BY <2>2 DEF Close, TeardownReq
  <2>3. CASE StepLagged(c) \/ Stops(c) \/ Aftermath(c)
    BY <2>3
    DEF StepLagged, Stops, Aftermath, AbandonedCallReturns,
        AbandonedCallLost, StreamDropped, serverVars
  <2> QED BY <1>6, <2>1, <2>2, <2>3 DEF End
<1> QED
  BY <1>1, <1>2, <1>3, <1>4, <1>5, <1>6 DEF StepOf, Peer, StepChain

\* The counter gives an identifier once.
LEMMA OwnNext ==
  ASSUME ~Wraps, PeerTypeInv, ProgramInv, ReachedInv, OwnAlone, [Steps]_vars
  PROVE  OwnAlone'
<1>1. CASE UNCHANGED vars
  BY <1>1 DEF vars, serverVars, peerVars, OwnAlone, Own
<1>2. ASSUME NEW c \in Clients, StepOf(c) PROVE OwnAlone'
  <2>1. \A d \in Clients \ {c} : Own(d)' = Own(d)
    BY <1>2, OthersKept DEF KeptPeer, Own
  <2>2. \A d \in Clients : Own(d) # generator
    <3>1. \A d \in Clients : Own(d) \in Reached
      BY DEF ReachedInv, ReachedBy, Own
    <3>2. generator \in Nat
      BY <1>2, ReachedGrows
    <3>3. generator \notin Reached
      BY <3>2 DEF Reached
    <3> QED BY <3>1, <3>3
  <2>3. \/ Own(c)' = Own(c) \/ Own(c)' = None
        \/ Own(c)' = generator
    BY <1>2, OwnStep
  <2> QED BY <2>1, <2>2, <2>3 DEF OwnAlone
<1> QED BY <1>1, <1>2 DEF Steps

-----------------------------------------------------------------------------
(* Live peers stay registered.                                             *)

\* The peers that nothing has ended yet, those that close excepted.
Alive(c) == pc[c] \in {"starting", "running", "syncing", "stepping"}

\* advertise has inserted c, or is past it.
Inserted(c) ==
    call[c].op = "advertise" => call[c].at \in {"announce", "replied"}

\* A listener listens for the peer that opened it.
ListenerOwners ==
    \A kind \in Kinds : \A id \in Id : \A c \in listener_tx[kind][id] :
      local_id[c] = id

\* A live peer is in the directory, with the listeners it has opened so far.
Registered ==
    \A c \in Clients : Alive(c) /\ Inserted(c) =>
      /\ Own(c) \in peers
      /\ \A kind \in Kinds :
           listener_tx[kind][Own(c)] = IF rx[kind][c] = "open" THEN {c} ELSE {}

\* A handler tears a peer down for c, or is about to.
Threatens(c) == \/ At(c, "teardown", "sent")
                \/ call[c].at \in {"teardown", "remove"}

\* Nobody tears down a live peer.
NoThreat ==
    \A c, d \in Clients :
      Alive(c) /\ Own(c) # None /\ Threatens(d) => call[d].id # Own(c)

RegisteredInv == ListenerOwners /\ Registered /\ NoThreat

\* Nobody is alive at first.
LEMMA RegisteredInit == Init => RegisteredInv
  BY DEF Init, ServerInit, PeerInit, RegisteredInv, ListenerOwners, Registered,
         NoThreat, Alive

\* Only a peer that is gone has had a listener dropped.
LEMMA DroppedIsGone ==
  ASSUME PeerTypeInv, ProgramInv, NEW c \in Clients, NEW kind \in Kinds,
         rx[kind][c] = "dropped"
  PROVE  pc[c] = "gone"
<1>1. pc[c] \in Locations /\ call[c].kind \in Kinds
  BY DEF PeerTypeInv, PeerTypeOK, TypeInv, ServerTypeOK, Call
<1>2. local_id[c] # None /\ pc[c] # "new"
  BY DEF ProgramInv, StreamsFit, CallFits
<1>3. pc[c] \notin {"running", "syncing", "stepping", "closing"}
  BY DEF ProgramInv, StreamsFit
<1>4. ASSUME pc[c] = "starting" PROVE FALSE
  <2>1. call[c].op = "open_listener"
    BY <1>2, <1>4 DEF ProgramInv, StreamsFit, CallFits, OwnName
  <2>2. rx[call[c].kind][c] # "dropped"
    BY <1>4, <2>1 DEF ProgramInv, StreamsFit
  <2>3. kind # call[c].kind
    BY <2>2
  <2> QED BY <1>1, <1>4, <2>1, <2>3 DEF ProgramInv, StreamsFit, Kinds
<1> QED BY <1>1, <1>2, <1>3, <1>4 DEF Locations

\* A peer comes to life by starting, without an identifier; while it lives it
\* keeps its streams.
LEMMA AliveStep ==
  ASSUME PeerTypeInv, ProgramInv, NEW c \in Clients, StepOf(c), ~Serve(c),
         Alive(c)'
  PROVE  \/ At(c, "advertise", "sent")' /\ call'[c].id = None
         \/ /\ Alive(c) /\ Inserted(c)
            /\ call'[c].op # "advertise"
            /\ \A kind \in Kinds : rx'[kind][c] = rx[kind][c]
<1> USE DEF Alive, Inserted, ProgramInv, CallFits, PeerTypeInv, PeerTypeOK,
            TypeInv, ServerTypeOK, Request, TakeReply, RequestLost, MoveTo,
            NoCall, peerVars, channelVars
<1>1. CASE Start(c)
  <2>1. CASE StartPeer(c)
    BY <2>1 DEF StartPeer, AdvertiseReq, At
  <2>2. CASE Advertised(c)
    <3>1. call'[c] = PeerListenerReq(call[c].id) /\ call[c].at = "replied"
      BY <2>2 DEF Advertised, Returned
    <3>2. call'[c].op = "open_peer_listener"
      BY <3>1 DEF PeerListenerReq
    <3> QED BY <2>2, <3>1, <3>2 DEF Advertised
  <2>3. CASE PeerListenerOpened(c) \/ OfferListenerOpened(c)
    <3>1. /\ \E kind : call'[c] = ListenerReq(kind, local_id[c])
          /\ pc[c] = "starting"
          /\ call[c].op # "advertise"
          /\ UNCHANGED rx
      BY <2>3 DEF PeerListenerOpened, OfferListenerOpened, Returned
    <3>2. call'[c].op = "open_listener"
      BY <3>1 DEF ListenerReq
    <3> QED BY <3>1, <3>2
  <2>4. CASE AnswerListenerOpened(c)
    BY <2>4 DEF AnswerListenerOpened, Returned
  <2> QED BY <1>1, <2>1, <2>2, <2>3, <2>4 DEF Start
<1>2. CASE StepPeerListener(c)
  <2>1. CASE StepInitialPeers(c) \/ StepPeerAdded(c) \/ StepPeerRemoved(c)
    BY <2>1 DEF StepInitialPeers, StepPeerAdded, StepPeerRemoved
  <2>2. CASE StepSynchronise(c)
    BY <2>2 DEF StepSynchronise, PeerDiscoverReq
  <2>3. CASE Synchronised(c)
    BY <2>3 DEF Synchronised
  <2> QED BY <1>2, <2>1, <2>2, <2>3 DEF StepPeerListener
<1>3. CASE StepSignal(c)
  BY <1>3
  DEF StepSignal, SkipEmpty, StepOfferListener, StepAnswerListener,
      StepListener, ReceiveSignal, OfferSignalled, AnswerSignalled,
      SignalDropped
<1>4. ASSUME NEW remote \in Id, StepCallback(c, remote)
      PROVE  /\ Alive(c) /\ Inserted(c)
             /\ call'[c].op # "advertise"
             /\ \A kind \in Kinds : rx'[kind][c] = rx[kind][c]
  <2>1. ASSUME NEW task, NEW kind, SendSignal(c, task, kind, remote)
        PROVE  /\ pc[c] = "running" /\ call'[c].op # "advertise"
               /\ UNCHANGED rx
    BY <2>1 DEF SendSignal, Finish, SignalReq
  <2>2. CASE \/ StepReceiveAnswer(c, remote)
             \/ StepLocalSigCplt(c, remote) \/ StepRemoteSigCplt(c, remote)
    BY <2>2
    DEF StepReceiveAnswer, StepLocalSigCplt, StepRemoteSigCplt, StepCplt,
        Finish, serverVars
  <2> QED
    BY <1>4, <2>1, <2>2 DEF StepCallback, StepCreateOffer, StepReceiveOffer
<1>5. CASE End(c) \/ Close(c) \/ Stops(c) \/ Aftermath(c)
  <2>1. pc'[c] \notin {"starting", "running", "syncing", "stepping"}
    BY <1>5
    DEF End, Closed, CallFailed, StepLagged, DropPeer, Close, Stops,
        Aftermath, AbandonedCallReturns, AbandonedCallLost, StreamDropped
  <2> QED BY <2>1
<1> QED BY <1>1, <1>2, <1>3, <1>4, <1>5 DEF StepOf, Peer, StepChain

\* The server inserts it once, and opens its listeners.
LEMMA AliveServe ==
  ASSUME PeerTypeInv, ProgramInv, DirectoryInv, NEW c \in Clients, Serve(c)
  PROVE  /\ pc'[c] = pc[c] /\ local_id'[c] = local_id[c]
         /\ ~FetchAdd(c) => Own(c)' = Own(c)
         /\ Inserted(c)' /\ ~AdvertiseInsert(c) => Inserted(c) /\ ~FetchAdd(c)
         /\ ~ListenerOpened(c) =>
              \A kind \in Kinds : rx'[kind][c] = rx[kind][c]
<1>1. HandlerTakes(c) /\ HandlerKeeps(c) /\ UNCHANGED <<pc, local_id>>
  BY HandlerEffect DEF Serve, PeerTypeInv, TypeInv, peerVars
<1>2. ~FetchAdd(c) => Own(c)' = Own(c)
  BY <1>1 DEF HandlerKeeps, Own
<1>3. Inserted(c)' /\ ~AdvertiseInsert(c) => Inserted(c) /\ ~FetchAdd(c)
  <2>1. CASE FetchAdd(c)
    <3>1. call'[c].at = "insert" /\ call[c].op = "advertise"
      BY <2>1 DEF FetchAdd, At, PeerTypeInv, TypeInv, ServerTypeOK, Call
    <3> QED BY <1>1, <3>1 DEF HandlerKeeps, Inserted
  <2>2. CASE ~FetchAdd(c) /\ ~AdvertiseInsert(c)
    <3>1. ~AdvertiseDuplicate(c)
      BY NoDuplicateStep
    <3> QED
      BY <1>1, <2>2, <3>1
      DEF HandlerTakes, HandlerKeeps, Inserted, At, ProgramInv, StageFits,
          AdvertiseBroadcast, TeardownBroadcast, TeardownRemove, PeerDiscover,
          PeerListenerSnapshot, PeerListenerSubscribe, ListenerOpened,
          ListenerRefused, SignalRejected, SignalAccepted, SignalFull,
          SignalDisconnected
  <2> QED BY <2>1, <2>2
<1>4. ~ListenerOpened(c) => UNCHANGED rx
  BY <1>1
  DEF HandlerTakes, FetchAdd, AdvertiseInsert, AdvertiseDuplicate,
      AdvertiseBroadcast, TeardownBroadcast, TeardownRemove, PeerDiscover,
      PeerListenerSnapshot, PeerListenerSubscribe, ListenerRefused,
      SignalRejected, SignalAccepted, SignalFull, SignalDisconnected
<1> QED BY <1>1, <1>2, <1>3, <1>4

\* A peer gets its identifier once.
LEMMA LocalIdStep ==
  ASSUME PeerTypeInv, ProgramInv, NEW c \in Clients, StepOf(c),
         NEW d \in Clients
  PROVE  local_id'[d] = local_id[d] \/ local_id[d] = None
<1>1. CASE Advertised(c)
  BY <1>1
  DEF Advertised, Returned, ProgramInv, OwnName, PeerTypeInv, PeerTypeOK
<1>2. CASE UNCHANGED local_id
  BY <1>2
<1>3. Advertised(c) \/ UNCHANGED local_id
  BY DEF StepOf, Serve, Peer, Start, StartPeer, PeerListenerOpened,
         OfferListenerOpened, AnswerListenerOpened, StepPeerListener,
         StepInitialPeers, StepPeerAdded, StepPeerRemoved, StepSynchronise,
         Synchronised, StepChain, StepSignal, SkipEmpty, StepOfferListener,
         StepAnswerListener, StepListener, OfferSignalled, AnswerSignalled,
         SignalDropped, StepCallback, StepCreateOffer, StepReceiveOffer,
         SendSignal, StepReceiveAnswer, StepLocalSigCplt, StepRemoteSigCplt,
         StepCplt, End, Closed, CallFailed, StepLagged, DropPeer, Close,
         Stops, Aftermath, AbandonedCallReturns, AbandonedCallLost,
         StreamDropped, peerVars
<1> QED BY <1>1, <1>2, <1>3

\* A step leaves the entries of other peers alone...
LEMMA EntryKept ==
  ASSUME PeerTypeInv, NEW c \in Clients,
         AdvertiseInsert(c) \/ TeardownRemove(c) \/ ListenerOpened(c),
         NEW kind \in Kinds, NEW id \in Id, id # call[c].id
  PROVE  listener_tx'[kind][id] = listener_tx[kind][id]
<1>1. listener_tx \in [Kinds -> [Id -> ListenerSlot]]
  BY DEF PeerTypeInv, TypeInv, ServerTypeOK
<1>2. CASE AdvertiseInsert(c)
  BY <1>1, <1>2 DEF AdvertiseInsert
<1>3. CASE TeardownRemove(c)
  BY <1>1, <1>3 DEF TeardownRemove, TornDown
<1>4. CASE ListenerOpened(c)
  BY <1>1, <1>4 DEF ListenerOpened
<1> QED BY <1>2, <1>3, <1>4

\* ... and makes this one's an empty one...
LEMMA EntryEmptied ==
  ASSUME PeerTypeInv, NEW c \in Clients, AdvertiseInsert(c) \/ TeardownRemove(c),
         NEW kind \in Kinds, NEW id \in Id, id = call[c].id
  PROVE  listener_tx'[kind][id] = {}
  BY DEF AdvertiseInsert, TeardownRemove, TornDown, PeerTypeInv, TypeInv,
         ServerTypeOK

\* ... or one of the caller's.
LEMMA EntryOpened ==
  ASSUME PeerTypeInv, NEW c \in Clients, ListenerOpened(c),
         NEW kind \in Kinds, NEW id \in Id, id = call[c].id
  PROVE  \/ kind = call[c].kind /\ listener_tx'[kind][id] = {c}
         \/ kind # call[c].kind
            /\ listener_tx'[kind][id] = listener_tx[kind][id]
<1>1. listener_tx \in [Kinds -> [Id -> ListenerSlot]]
  BY DEF PeerTypeInv, TypeInv, ServerTypeOK
<1>2. listener_tx' = [listener_tx EXCEPT ![call[c].kind][call[c].id] = {c}]
  BY DEF ListenerOpened
<1>3. CASE kind = call[c].kind
  BY <1>1, <1>2, <1>3
<1>4. CASE kind # call[c].kind
  BY <1>1, <1>2, <1>4
<1> QED BY <1>3, <1>4

\* A listener's owner keeps its identifier, and opens it in its own name.
LEMMA ListenerOwnersStep ==
  ASSUME PeerTypeInv, ProgramInv, ListenerOwners, NEW c \in Clients, StepOf(c)
  PROVE  ListenerOwners'
<1> SUFFICES ASSUME NEW kind \in Kinds, NEW id \in Id,
                    NEW d \in listener_tx'[kind][id]
             PROVE  local_id'[d] = id
  BY DEF ListenerOwners
<1>1. ASSUME d \in listener_tx[kind][id]
      PROVE  local_id'[d] = id
  <2>1. d \in Clients /\ local_id[d] = id
    BY <1>1
    DEF ListenerOwners, ListenerSlot, PeerTypeInv, TypeInv, ServerTypeOK
  <2>2. id # None
    BY ModulusPositive DEF Id, None
  <2> QED BY <2>1, <2>2, LocalIdStep
<1>2. CASE ListenerOpened(c)
  <2>1. \/ d \in listener_tx[kind][id]
        \/ d = c /\ id = call[c].id
    BY <1>2, EntryKept, EntryOpened
  <2>2. d = c /\ id = call[c].id => local_id[c] = id /\ id # None
    BY <1>2, ModulusPositive
    DEF ListenerOpened, At, ProgramInv, OwnName, Id, None
  <2> QED BY <1>1, <2>1, <2>2, LocalIdStep
<1>3. CASE AdvertiseInsert(c) \/ TeardownRemove(c)
  <2>1. d \in listener_tx[kind][id]
    <3>1. listener_tx'[kind][id] # {}
      OBVIOUS
    <3>2. id # call[c].id
      BY <1>3, <3>1, EntryEmptied
    <3> QED BY <1>3, <3>2, EntryKept
  <2> QED BY <1>1, <2>1
<1>4. CASE UNCHANGED listener_tx
  BY <1>1, <1>4
<1> QED BY <1>2, <1>3, <1>4, DirectorySteps

\* An identifier that someone has is a real one, and its entry only theirs.
LEMMA OwnApart ==
  ASSUME PeerTypeInv, OwnAlone, NEW c \in Clients, NEW d \in Clients \ {c},
         Own(c) \in Id
  PROVE  Own(d) # Own(c)
  BY ModulusPositive DEF OwnAlone, Id, None

\* The peer whose call is served stays registered.
LEMMA RegisteredServe ==
  ASSUME PeerTypeInv, ProgramInv, DirectoryInv, RegisteredInv,
         NEW c \in Clients, Serve(c), Alive(c)', Inserted(c)'
  PROVE  /\ Own(c)' \in peers'
         /\ \A kind \in Kinds :
              listener_tx'[kind][Own(c)'] =
                IF rx'[kind][c] = "open" THEN {c} ELSE {}
<1> USE DEF PeerTypeInv, TypeInv, ServerTypeOK
<1>1. Alive(c)
  BY AliveServe DEF Alive
<1>2. CASE AdvertiseInsert(c)
  <2>1. /\ call[c].id \in Id /\ call[c].op = "advertise"
        /\ Own(c)' = call[c].id
    <3>1. ~FetchAdd(c) /\ call[c].op = "advertise"
      BY <1>2 DEF AdvertiseInsert, FetchAdd, At
    <3> QED
      BY <1>2, <3>1, AliveServe
      DEF DirectoryInv, InsertFresh, AdvertiseInsert, Own
  <2>2. \A kind \in Kinds : rx'[kind][c] = "none"
    BY <1>2, <2>1 DEF AdvertiseInsert, ProgramInv, StreamsFit, OwnName
  <2>3. \A kind \in Kinds : listener_tx'[kind][call[c].id] = {}
    BY <1>2, <2>1 DEF AdvertiseInsert
  <2> QED BY <1>2, <2>1, <2>2, <2>3 DEF AdvertiseInsert
<1>3. CASE ~AdvertiseInsert(c)
  <2>1. /\ Inserted(c) /\ Own(c)' = Own(c)
        /\ Own(c) \in peers /\ Own(c) \in Id
    BY <1>1, <1>3, AliveServe DEF RegisteredInv, Registered
  <2>2. CASE ListenerOpened(c)
    <3>1. call[c].id = Own(c) /\ call[c].kind \in Kinds
      BY <2>2 DEF ListenerOpened, At, ProgramInv, OwnName, Own, Call
    <3>2. /\ peers' = peers
          /\ listener_tx' = [listener_tx EXCEPT ![call[c].kind][Own(c)] = {c}]
          /\ rx' = [rx EXCEPT ![call[c].kind][c] = "open"]
      BY <2>2, <3>1 DEF ListenerOpened
    <3>3. ASSUME NEW kind \in Kinds
          PROVE  listener_tx'[kind][Own(c)] =
                   IF rx'[kind][c] = "open" THEN {c} ELSE {}
      <4>1. CASE kind = call[c].kind
        BY <2>1, <3>1, <3>2, <4>1
      <4>2. CASE kind # call[c].kind
        BY <1>1, <2>1, <3>1, <3>2, <4>2 DEF RegisteredInv, Registered
      <4> QED BY <4>1, <4>2
    <3> QED BY <2>1, <3>2, <3>3
  <2>3. CASE TeardownRemove(c)
    <3>1. TornDown(c) # Own(c)
      BY <1>1, <2>1, <2>3, ModulusPositive
      DEF RegisteredInv, NoThreat, Threatens, TeardownRemove, TornDown, Id,
          None
    <3> QED
      BY <1>1, <2>1, <2>3, <3>1
      DEF TeardownRemove, RegisteredInv, Registered
  <2>4. CASE ~ListenerOpened(c) /\ ~TeardownRemove(c)
    <3>1. UNCHANGED <<peers, listener_tx>>
      BY <1>3, <2>4, DirectorySteps DEF StepOf
    <3>2. \A kind \in Kinds : rx'[kind][c] = rx[kind][c]
      BY <2>4, AliveServe
    <3> QED
      BY <1>1, <2>1, <3>1, <3>2 DEF RegisteredInv, Registered
  <2> QED BY <2>2, <2>3, <2>4
<1> QED BY <1>2, <1>3

\* So does one that moves on by itself.
LEMMA RegisteredPeer ==
  ASSUME ~Wraps, PeerTypeInv, ProgramInv, RegisteredInv, NEW c \in Clients,
         StepOf(c), ~Serve(c), Alive(c)', Inserted(c)'
  PROVE  /\ Own(c)' \in peers'
         /\ \A kind \in Kinds :
              listener_tx'[kind][Own(c)'] =
                IF rx'[kind][c] = "open" THEN {c} ELSE {}
<1>1. UNCHANGED <<peers, listener_tx>> /\ ~FetchAdd(c)
  <2>1. UNCHANGED <<peers, listener_tx, generator>>
    BY OnlyServerWrites DEF StepOf, directoryVars
  <2>2. ~FetchAdd(c)
    BY <2>1, ReachedGrows
  <2> QED BY <2>1, <2>2
<1>2. /\ Alive(c) /\ Inserted(c)
      /\ call'[c].op # "advertise"
      /\ \A kind \in Kinds : rx'[kind][c] = rx[kind][c]
  BY AliveStep DEF Inserted, At
<1>3. Own(c) \in peers /\ Own(c) \in Id
  BY <1>2 DEF RegisteredInv, Registered, PeerTypeInv, TypeInv, ServerTypeOK
<1>4. Own(c)' = Own(c)
  <2>1. local_id'[c] \in Id
    <3>1. Identified'
      BY PeerTypeNext DEF Steps, PeerTypeInv
    <3> QED BY <1>2, <3>1 DEF Identified, Alive
  <2>2. Own(c)' # None
    BY <1>2, <2>1, ModulusPositive DEF Own, Id, None
  <2> QED BY <1>1, <2>2, OwnStep
<1> QED BY <1>1, <1>2, <1>3, <1>4 DEF RegisteredInv, Registered

\* And one that another peer's step leaves alone.
LEMMA RegisteredOthers ==
  ASSUME PeerTypeInv, ProgramInv, DirectoryInv, OwnAlone, RegisteredInv,
         NEW c \in Clients, StepOf(c), NEW d \in Clients \ {c},
         Alive(d)', Inserted(d)'
  PROVE  /\ Own(d)' \in peers'
         /\ \A kind \in Kinds :
              listener_tx'[kind][Own(d)'] =
                IF rx'[kind][d] = "open" THEN {d} ELSE {}
<1>0. peers \subseteq Id
  BY DEF PeerTypeInv, TypeInv, ServerTypeOK
<1>1. /\ Alive(d) /\ Inserted(d) /\ Own(d)' = Own(d)
      /\ \A kind \in Kinds : rx'[kind][d] = rx[kind][d]
  BY OthersKept DEF KeptPeer, Alive, Inserted, Own
<1>2. /\ Own(d) \in peers /\ Own(d) \in Id
      /\ \A kind \in Kinds :
           listener_tx[kind][Own(d)] = IF rx[kind][d] = "open" THEN {d} ELSE {}
  BY <1>0, <1>1 DEF RegisteredInv, Registered
<1>3. CASE AdvertiseInsert(c)
  <2>1. call[c].id # Own(d)
    BY <1>2, <1>3 DEF AdvertiseInsert, Duplicate
  <2>2. \A kind \in Kinds :
          listener_tx'[kind][Own(d)] = listener_tx[kind][Own(d)]
    BY <1>2, <1>3, <2>1, EntryKept
  <2> QED BY <1>1, <1>2, <1>3, <2>2 DEF AdvertiseInsert
<1>4. CASE TeardownRemove(c)
  <2>1. TornDown(c) # Own(d)
    BY <1>1, <1>2, <1>4, ModulusPositive
    DEF RegisteredInv, NoThreat, Threatens, TeardownRemove, TornDown, Id, None
  <2>2. \A kind \in Kinds :
          listener_tx'[kind][Own(d)] = listener_tx[kind][Own(d)]
    BY <1>2, <1>4, <2>1, EntryKept DEF TornDown
  <2> QED BY <1>1, <1>2, <1>4, <2>1, <2>2 DEF TeardownRemove
<1>5. CASE ListenerOpened(c)
  <2>1. call[c].id = Own(c)
    BY <1>5 DEF ListenerOpened, At, ProgramInv, OwnName, Own
  <2>2. call[c].id # Own(d)
    BY <1>2, <2>1, OwnApart
  <2>3. \A kind \in Kinds :
          listener_tx'[kind][Own(d)] = listener_tx[kind][Own(d)]
    BY <1>2, <1>5, <2>2, EntryKept
  <2> QED BY <1>1, <1>2, <1>5, <2>3 DEF ListenerOpened
<1>6. CASE UNCHANGED <<peers, listener_tx>>
  BY <1>1, <1>2, <1>6
<1>7. ListenerOpened(c) => UNCHANGED peers
  BY DEF ListenerOpened
<1> QED BY <1>3, <1>4, <1>5, <1>6, <1>7, DirectorySteps

\* A teardown is asked for by the peer itself, by a caller that found it
\* disconnected, or it was under way.
LEMMA ThreatStep ==
  ASSUME PeerTypeInv, ProgramInv, NEW c \in Clients, StepOf(c), Threatens(c)'
  PROVE  \/ Threatens(c) /\ call'[c].id = call[c].id
         \/ SignalDisconnected(c) /\ call'[c].id = call[c].id
         \/ Close(c) /\ call'[c].id = local_id[c]
<1> USE DEF Threatens, At
<1>1. CASE Serve(c)
  <2>1. HandlerTakes(c) /\ HandlerKeeps(c)
    BY <1>1, HandlerEffect DEF Serve, PeerTypeInv, TypeInv
  <2>2. CASE FetchAdd(c)
    <3>1. call'[c].at = "insert" /\ call'[c].op = "advertise"
      BY <2>1, <2>2
      DEF FetchAdd, HandlerKeeps, PeerTypeInv, TypeInv, ServerTypeOK, Call
    <3> QED BY <3>1
  <2>3. CASE SignalDisconnected(c)
    BY <2>1, <2>3 DEF HandlerKeeps, SignalDisconnected, FetchAdd
  <2>4. CASE ~FetchAdd(c) /\ ~SignalDisconnected(c)
    BY <2>1, <2>4
    DEF HandlerKeeps, HandlerTakes, AdvertiseInsert, AdvertiseDuplicate,
        AdvertiseBroadcast, TeardownBroadcast, TeardownRemove, PeerDiscover,
        PeerListenerSnapshot, PeerListenerSubscribe, ListenerOpened,
        ListenerRefused, SignalRejected, SignalAccepted, SignalFull
  <2> QED BY <2>2, <2>3, <2>4
<1> USE DEF PeerTypeInv, PeerTypeOK, TypeInv, ServerTypeOK, Request, TakeReply,
            RequestLost, NoCall, peerVars, channelVars
<1>2. CASE Start(c)
  <2>1. CASE StartPeer(c) \/ Advertised(c)
    <3>1. call'[c] = AdvertiseReq \/ call'[c] = PeerListenerReq(call[c].id)
      BY <2>1 DEF StartPeer, Advertised
    <3>2. /\ call'[c].op \in {"advertise", "open_peer_listener"}
          /\ call'[c].at = "sent"
      BY <3>1 DEF AdvertiseReq, PeerListenerReq
    <3> QED BY <3>2
  <2>2. CASE PeerListenerOpened(c) \/ OfferListenerOpened(c)
    <3>1. \E kind : call'[c] = ListenerReq(kind, local_id[c])
      BY <2>2 DEF PeerListenerOpened, OfferListenerOpened
    <3>2. call'[c].op = "open_listener" /\ call'[c].at = "sent"
      BY <3>1 DEF ListenerReq
    <3> QED BY <3>2
  <2>3. CASE AnswerListenerOpened(c)
    BY <2>3 DEF AnswerListenerOpened
  <2> QED BY <1>2, <2>1, <2>2, <2>3 DEF Start
<1>3. CASE StepPeerListener(c)
  <2>1. CASE StepInitialPeers(c) \/ StepPeerAdded(c) \/ StepPeerRemoved(c)
    BY <2>1 DEF StepInitialPeers, StepPeerAdded, StepPeerRemoved
  <2>2. CASE StepSynchronise(c) \/ Synchronised(c)
    <3>1. call'[c] = PeerDiscoverReq(local_id[c]) \/ call'[c] = NoCall
      BY <2>2 DEF StepSynchronise, Synchronised
    <3>2. CASE call'[c] = PeerDiscoverReq(local_id[c])
      <4>1. call'[c].op = "peer_discover" /\ call'[c].at = "sent"
        BY <3>2 DEF PeerDiscoverReq
      <4> QED BY <4>1
    <3>3. CASE call'[c] = NoCall
      <4>1. call'[c].at = "idle"
        BY <3>3
      <4> QED BY <4>1
    <3> QED BY <3>1, <3>2, <3>3
  <2> QED BY <1>3, <2>1, <2>2 DEF StepPeerListener
<1>4. CASE StepSignal(c)
  BY <1>4
  DEF StepSignal, SkipEmpty, StepOfferListener, StepAnswerListener,
      StepListener, OfferSignalled, AnswerSignalled, SignalDropped
<1>5. ASSUME NEW remote \in Id, StepCallback(c, remote)
      PROVE  Threatens(c) /\ call'[c].id = call[c].id
  <2>1. ASSUME NEW task, NEW kind, SendSignal(c, task, kind, remote)
        PROVE  FALSE
    <3>1. call'[c].op = "signal" /\ call'[c].at = "sent"
      BY <2>1 DEF SendSignal, SignalReq
    <3> QED BY <3>1
  <2>2. CASE \/ StepReceiveAnswer(c, remote)
             \/ StepLocalSigCplt(c, remote) \/ StepRemoteSigCplt(c, remote)
    BY <2>2
    DEF StepReceiveAnswer, StepLocalSigCplt, StepRemoteSigCplt, StepCplt,
        serverVars
  <2> QED
    BY <1>5, <2>1, <2>2 DEF StepCallback, StepCreateOffer, StepReceiveOffer
<1>6. CASE Close(c)
  BY <1>6 DEF Close, TeardownReq
<1>7. CASE End(c) \/ Stops(c) \/ Aftermath(c)
  BY <1>7
  DEF End, Closed, CallFailed, StepLagged, DropPeer, Stops, Aftermath,
      AbandonedCallReturns, AbandonedCallLost, StreamDropped, serverVars
<1> QED
  BY <1>1, <1>2, <1>3, <1>4, <1>5, <1>6, <1>7 DEF StepOf, Peer, StepChain

\* A peer is alive as long as it was, with the identifier it was given.
LEMMA AliveKept ==
  ASSUME PeerTypeInv, ProgramInv, DirectoryInv, NEW c \in Clients, StepOf(c),
         NEW d \in Clients, Alive(d)', Own(d)' # None
  PROVE  /\ Alive(d)
         /\ \/ Own(d)' = Own(d)
            \/ d = c /\ FetchAdd(c) /\ Own(d)' = generator
<1>1. CASE d # c
  BY <1>1, OthersKept DEF KeptPeer, Alive, Own
<1>2. CASE d = c
  <2>1. CASE Serve(c)
    BY <1>2, <2>1, AliveServe, OwnStep DEF Alive
  <2>2. CASE ~Serve(c)
    <3>1. ~(At(c, "advertise", "sent")' /\ call'[c].id = None)
      BY <1>2 DEF Own, At
    <3> QED BY <1>2, <2>2, <3>1, AliveStep, OwnStep
  <2> QED BY <2>1, <2>2
<1> QED BY <1>1, <1>2

\* The one who is found disconnected is gone.
LEMMA DisconnectedIsGone ==
  ASSUME PeerTypeInv, ProgramInv, OwnAlone, ListenerOwners, NEW c \in Clients,
         SignalDisconnected(c), NEW d \in Clients, Alive(d)
  PROVE  call[c].id # Own(d)
<1>1. call[c].kind \in Kinds /\ call[c].id \in Id
  BY DEF SignalDisconnected, At, PeerTypeInv, TypeInv, Named, ServerTypeOK, Call
<1>2. PICK e \in Target(c) : rx[call[c].kind][e] = "dropped"
  BY DEF SignalDisconnected, Disconnected
<1>3. /\ e \in listener_tx[call[c].kind][call[c].id]
      /\ e \in Clients
  BY <1>1, <1>2 DEF Target, PeerTypeInv, TypeInv, ServerTypeOK, ListenerSlot
<1>4. local_id[e] = call[c].id /\ pc[e] = "gone"
  BY <1>1, <1>2, <1>3, DroppedIsGone DEF ListenerOwners
<1>5. Own(e) = call[c].id
  <2>1. local_id[e] # None
    BY <1>1, <1>4, ModulusPositive DEF Id, None
  <2>2. call[e].op # "advertise"
    BY <1>3, <2>1 DEF ProgramInv, OwnName
  <2> QED BY <1>4, <2>2 DEF Own
<1>6. e # d
  BY <1>4 DEF Alive
<1> QED BY <1>1, <1>3, <1>5, <1>6, OwnApart

\* So nobody comes to tear a live peer down.
LEMMA NoThreatStep ==
  ASSUME ~Wraps, PeerTypeInv, ProgramInv, DirectoryInv, ReachedInv, OwnAlone,
         RegisteredInv, NEW c \in Clients, StepOf(c)
  PROVE  NoThreat'
<1> SUFFICES ASSUME NEW d \in Clients, NEW e \in Clients,
                    Alive(d)', Own(d)' # None, Threatens(e)'
             PROVE  call'[e].id # Own(d)'
  BY DEF NoThreat
<1>1. /\ Alive(d)
      /\ \/ Own(d)' = Own(d)
         \/ d = c /\ FetchAdd(c) /\ Own(d)' = generator
  BY AliveKept
<1>2. CASE d = c /\ FetchAdd(c) /\ Own(d)' = generator
  <2>1. e # c
    <3>1. call'[c].at = "insert" /\ call'[c].op = "advertise"
      BY <1>2
      DEF FetchAdd, At, PeerTypeInv, TypeInv, ServerTypeOK, Call
    <3> QED BY <3>1 DEF Threatens, At
  <2>2. call'[e].id = call[e].id
    BY <2>1, OthersKept DEF KeptPeer
  <2>3. call[e].id \in Reached /\ generator \notin Reached
    BY ReachedGrows DEF ReachedInv, ReachedBy, Reached
  <2> QED BY <1>2, <2>2, <2>3
<1>3. CASE Own(d)' = Own(d)
  <2>1. CASE Threatens(e) /\ call'[e].id = call[e].id
    BY <1>1, <1>3, <2>1 DEF RegisteredInv, NoThreat
  <2>2. CASE e = c /\ SignalDisconnected(c) /\ call'[c].id = call[c].id
    BY <1>1, <1>3, <2>2, DisconnectedIsGone DEF RegisteredInv
  <2>3. CASE e = c /\ Close(c) /\ call'[c].id = local_id[c]
    <3>1. c # d
      BY <2>3 DEF Close, MoveTo, PeerTypeInv, PeerTypeOK, Alive
    <3>2. Own(c) = local_id[c] /\ local_id[c] \in Id
      BY <2>3
      DEF Close, ProgramInv, CallFits, Own, PeerTypeInv, Identified
    <3> QED BY <1>3, <2>3, <3>1, <3>2, OwnApart
  <2>4. CASE e # c
    BY <2>1, <2>4, OthersKept DEF KeptPeer, Threatens, At
  <2> QED BY <2>1, <2>2, <2>3, <2>4, ThreatStep
<1> QED BY <1>1, <1>2, <1>3

\* Every step keeps live peers registered.
LEMMA RegisteredNext ==
  ASSUME ~Wraps, PeerTypeInv, ProgramInv, DirectoryInv, ReachedInv, OwnAlone,
         RegisteredInv, [Steps]_vars
  PROVE  RegisteredInv'
<1>1. CASE UNCHANGED vars
  BY <1>1
  DEF vars, serverVars, peerVars, RegisteredInv, ListenerOwners, Registered,
      NoThreat, Alive, Inserted, Own, Threatens, At
<1>2. ASSUME NEW c \in Clients, StepOf(c) PROVE RegisteredInv'
  <2>1. ListenerOwners'
    BY <1>2, ListenerOwnersStep DEF RegisteredInv
  <2>2. ASSUME NEW d \in Clients, Alive(d)', Inserted(d)'
        PROVE  /\ Own(d)' \in peers'
               /\ \A kind \in Kinds :
                    listener_tx'[kind][Own(d)'] =
                      IF rx'[kind][d] = "open" THEN {d} ELSE {}
    BY <1>2, <2>2, RegisteredServe, RegisteredPeer, RegisteredOthers
  <2>3. NoThreat'
    BY <1>2, NoThreatStep
  <2> QED BY <2>1, <2>2, <2>3 DEF RegisteredInv, Registered
<1> QED BY <1>1, <1>2 DEF Steps


-----------------------------------------------------------------------------
(* Together.                                                               *)

MeshInv ==
    /\ PeerTypeInv
    /\ ProgramInv
    /\ DirectoryInv
    /\ ReachedInv
    /\ OwnAlone
    /\ RegisteredInv

\* Before any peer was started.
LEMMA MeshInit == Init => MeshInv
<1>1. Init => ServerInit
  BY DEF Init
<1> QED
  BY <1>1, PeerTypeInit, ProgramInit, DirectoryInit, ReachedInit, OwnInit,
     RegisteredInit
  DEF MeshInv

\* And from step to step.
LEMMA MeshNext ==
  ASSUME ~Wraps, MeshInv, [Steps]_vars
  PROVE  MeshInv'
<1>1. /\ PeerTypeInv /\ ProgramInv /\ DirectoryInv
      /\ ReachedInv /\ OwnAlone /\ RegisteredInv
  BY DEF MeshInv
<1>2. PeerTypeInv' /\ ProgramInv'
  BY <1>1, PeerTypeNext, ProgramNext
<1>3. DirectoryInv'
  BY <1>1, StepIsServerStep, DirectoryNext DEF PeerTypeInv
<1>4. ReachedInv' /\ OwnAlone'
  BY <1>1, ReachedNext, OwnNext
<1>5. RegisteredInv'
  BY <1>1, RegisteredNext
<1> QED BY <1>2, <1>3, <1>4, <1>5 DEF MeshInv

\* The invariant of peers and server.
LEMMA MeshInvariant ==
  ASSUME ~Wraps
  PROVE  StepsSpec => []MeshInv
<1>1. MeshInv /\ [Steps]_vars => MeshInv'
  BY MeshNext
<1> QED BY <1>1, MeshInit, PTL DEF StepsSpec

\* As the next theorem, of peers that may stop at any point.
LEMMA LivePeersRegisteredOfSteps ==
  ASSUME ~Wraps
  PROVE  StepsSpec => []LivePeersStayRegistered
<1>1. MeshInv => LivePeersStayRegistered
  <2> SUFFICES ASSUME MeshInv, NEW c \in Clients, Subscribed(c)
               PROVE  /\ local_id[c] \in peers
                      /\ \A kind \in Kinds :
                           /\ listener_tx[kind][local_id[c]] = {c}
                           /\ rx[kind][c] = "open"
                      /\ peer_listener[c].state = "open"
    BY DEF LivePeersStayRegistered
  <2>1. /\ peer_listener[c].state = "open"
        /\ \A kind \in Kinds : rx[kind][c] = "open"
    BY DEF MeshInv, ProgramInv, StreamsFit, Subscribed
  <2>2. call[c].op # "advertise"
    BY DEF MeshInv, ProgramInv, CallFits, Subscribed
  <2>3. Alive(c) /\ Inserted(c) /\ Own(c) = local_id[c]
    BY <2>2 DEF Subscribed, Alive, Inserted, Own
  <2> QED BY <2>1, <2>3 DEF MeshInv, RegisteredInv, Registered
<1> QED BY <1>1, MeshInvariant, PTL

\* A peer that start_peer returned and nothing has ended is in the directory,
\* with both listeners, however many callers are in handle_teardown at the time.
THEOREM LivePeersRegistered ==
  ASSUME ~Wraps
  PROVE  Spec => []LivePeersStayRegistered
  BY SpecSteps, LivePeersRegisteredOfSteps, PTL
=============================================================================
