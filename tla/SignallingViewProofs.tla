------------------------- MODULE SignallingViewProofs -------------------------
(***************************************************************************)
(* What the peers of the mesh see of each other, for any number of them    *)
(* and any capacities, as long as the identifier counter does not come     *)
(* round: the changes that are broadcast tell a history that makes sense,  *)
(* of two peers one finds the other, nobody finds itself, and who is       *)
(* announced is discovered.                                                *)
(***************************************************************************)
EXTENDS SignallingMeshProofs

-----------------------------------------------------------------------------
(* What a step does to a call, a peer listener and the broadcast channel.  *)

\* A request begins with nothing found.
LEMMA RequestFindsNothing ==
  ASSUME NEW r \in Requests
  PROVE  r.at = "sent" /\ r.found = {}
<1> USE DEF NoCall
<1>1. CASE r = AdvertiseReq
  BY <1>1 DEF AdvertiseReq
<1>2. ASSUME NEW id \in Id,
             r \in {TeardownReq(id), PeerDiscoverReq(id), PeerListenerReq(id)}
      PROVE  r.at = "sent" /\ r.found = {}
  BY <1>2 DEF TeardownReq, PeerDiscoverReq, PeerListenerReq
<1>3. ASSUME NEW kind \in Kinds, NEW id \in Id, r = ListenerReq(kind, id)
      PROVE  r.at = "sent" /\ r.found = {}
  BY <1>3 DEF ListenerReq
<1>4. ASSUME NEW kind \in Kinds, NEW from \in Id, NEW to \in Id,
             r = SignalReq(kind, from, to)
      PROVE  r.at = "sent" /\ r.found = {}
  BY <1>4 DEF SignalReq
<1> QED BY <1>1, <1>2, <1>3, <1>4 DEF Requests

\* What a peer does by itself is a caller's or a reader's doing.
LEMMA UnservedStep ==
  ASSUME PeerTypeInv, NEW c \in Clients, StepOf(c), ~Serve(c)
  PROVE  \/ Caller(c)
         \/ PeerListenerReader(c)
         \/ PeerListenerReaction(c)
         \/ SignalReader(c)
         \/ UNCHANGED serverVars
<1>1. CASE Start(c)
  BY <1>1, StartIsCaller
<1>2. CASE StepPeerListener(c)
  BY <1>2, StepPeerListenerIsCaller
<1>3. CASE StepSignal(c)
  BY <1>3, StepSignalIsCaller
<1>4. CASE \E remote \in Id : StepCallback(c, remote)
  BY <1>4, StepCallbackIsCaller
<1>5. CASE End(c) \/ Close(c) \/ Stops(c) \/ Aftermath(c)
  BY <1>5, EndIsCaller
<1> QED BY <1>1, <1>2, <1>3, <1>4, <1>5 DEF StepOf, Peer, StepChain

\* It leaves the peer's call alone, replaces it or ends it.
LEMMA UnservedCall ==
  ASSUME PeerTypeInv, NEW c \in Clients, StepOf(c), ~Serve(c)
  PROVE  \/ call'[c] = call[c]
         \/ call'[c].at \in {"sent", "idle"} /\ call'[c].found = {}
<1>1. call \in [Clients -> Call]
  BY DEF PeerTypeInv, TypeInv, ServerTypeOK
<1>2. ASSUME NEW r \in Requests, Request(c, r)
      PROVE  call'[c].at = "sent" /\ call'[c].found = {}
  <2>1. call'[c] = r
    BY <1>1, <1>2 DEF Request
  <2> QED BY <2>1, RequestFindsNothing
<1>3. ASSUME TakeReply(c) \/ RequestLost(c)
      PROVE  call'[c].at = "idle" /\ call'[c].found = {}
  <2>1. call'[c] = NoCall
    BY <1>1, <1>3 DEF TakeReply, RequestLost
  <2> QED BY <2>1 DEF NoCall
<1>4. CASE Caller(c)
  BY <1>2, <1>3, <1>4 DEF Caller
<1>5. CASE PeerListenerReaction(c)
  BY <1>2, <1>5 DEF PeerListenerReaction
<1>6. CASE PeerListenerReader(c) \/ SignalReader(c) \/ UNCHANGED serverVars
  BY <1>6 DEF PeerListenerReader, SignalReader, serverVars
<1> QED BY <1>4, <1>5, <1>6, UnservedStep

\* Only these touch a peer listener.
LEMMA PeerListenerSteps ==
  ASSUME PeerTypeInv, NEW c \in Clients, StepOf(c)
  PROVE  \/ Serve(c) /\ PeerListenerSubscribe(c)
         \/ ReceiveInitial(c)
         \/ ReceiveChange(c)
         \/ ReceiveLagged(c)
         \/ DropPeerListener(c)
         \/ UNCHANGED peer_listener
<1>1. CASE Serve(c)
  BY <1>1
  DEF Serve, Handler, Advertise, FetchAdd, AdvertiseInsert,
      AdvertiseDuplicate, AdvertiseBroadcast, HandleTeardown,
      TeardownBroadcast, TeardownRemove, PeerDiscover, OpenPeerListener,
      PeerListenerSnapshot, OpenListener, ListenerOpened, ListenerRefused,
      Signal, SignalRejected, SignalAccepted, SignalFull, SignalDisconnected
<1>2. CASE ~Serve(c)
  BY <1>2, UnservedStep
  DEF Caller, PeerListenerReader, PeerListenerReaction, SignalReader, serverVars
<1> QED BY <1>1, <1>2

\* Only the reply to advertise gives a peer an identifier.
LEMMA LocalIdSteps ==
  ASSUME NEW c \in Clients, StepOf(c)
  PROVE  Advertised(c) \/ UNCHANGED local_id
<1>1. CASE Serve(c) \/ Close(c) \/ Stops(c) \/ Aftermath(c) \/ End(c)
  BY <1>1
  DEF Serve, Close, Stops, Aftermath, AbandonedCallReturns,
      AbandonedCallLost, StreamDropped, End, Closed, CallFailed, StepLagged,
      DropPeer, peerVars
<1>2. CASE Start(c)
  BY <1>2
  DEF Start, StartPeer, PeerListenerOpened, OfferListenerOpened,
      AnswerListenerOpened, peerVars
<1>3. CASE StepPeerListener(c)
  BY <1>3
  DEF StepPeerListener, StepInitialPeers, StepPeerAdded, StepPeerRemoved,
      StepSynchronise, Synchronised
<1>4. CASE StepChain(c)
  BY <1>4
  DEF StepChain, StepSignal, SkipEmpty, StepOfferListener, StepAnswerListener,
      StepListener, OfferSignalled, AnswerSignalled, SignalDropped,
      StepCallback, StepCreateOffer, StepReceiveOffer, SendSignal,
      StepReceiveAnswer, StepLocalSigCplt, StepRemoteSigCplt, StepCplt, peerVars
<1> QED BY <1>1, <1>2, <1>3, <1>4 DEF StepOf, Peer

\* What was broadcast stays, and at most one change is new.
LEMMA ChangesStep ==
  ASSUME PeerTypeInv, NEW c \in Clients, StepOf(c)
  PROVE  /\ Len(changes) \in Nat /\ Len(changes') \in Nat
         /\ Len(changes) <= Len(changes')
         /\ DOMAIN changes = 1 .. Len(changes)
         /\ DOMAIN changes' = 1 .. Len(changes')
         /\ \A i \in DOMAIN changes : i \in DOMAIN changes' /\ changes'[i] = changes[i]
         /\ \A change : Broadcasts(change) => Broadcasts(change)'
<1>1. changes \in Seq(Change)
  BY DEF PeerTypeInv, TypeInv, ServerTypeOK
<1>2. CASE UNCHANGED changes
  BY <1>1, <1>2 DEF Broadcasts
<1>3. ASSUME NEW change, Broadcast(change)
      PROVE  /\ Len(changes) \in Nat /\ Len(changes') = Len(changes) + 1
             /\ DOMAIN changes = 1 .. Len(changes)
             /\ DOMAIN changes' = 1 .. Len(changes')
             /\ \A i \in DOMAIN changes :
                  i \in DOMAIN changes' /\ changes'[i] = changes[i]
  BY <1>3, Appended
<1>4. CASE \E change : Broadcast(change)
  BY <1>3, <1>4 DEF Broadcasts
<1> QED
  BY <1>2, <1>4, DirectorySteps DEF AdvertiseBroadcast, TeardownBroadcast

-----------------------------------------------------------------------------
(* The history of the changes.                                             *)

\* Everyone a teardown may be for was announced.
AnnouncedOf(c) ==
    /\ local_id[c] # None => Broadcasts(Add(local_id[c]))
    /\ At(c, "advertise", "replied") => Broadcasts(Add(call[c].id))
    /\ call[c].at = "teardown" => Broadcasts(Add(call[c].id))

OwnAnnounced == \A c \in Clients : AnnouncedOf(c)

\* Nobody has heard of a peer that is not announced yet.
Unheard(c) ==
    call[c].op = "advertise" /\ call[c].at \in {"insert", "announce"}
      => \A i \in DOMAIN changes : changes[i].id # call[c].id

Unannounced == \A c \in Clients : Unheard(c)

HistoryInv == OwnAnnounced /\ Unannounced /\ ChangesInOrder

\* There is no history at first.
LEMMA HistoryInit == Init => HistoryInv
  BY DEF Init, ServerInit, PeerInit, NoCall, HistoryInv, OwnAnnounced,
         AnnouncedOf, Unannounced, Unheard, ChangesInOrder, At

\* What the server owes the peer whose call it serves.
LEMMA AnnouncedServe ==
  ASSUME MeshInv, OwnAnnounced, NEW c \in Clients, Serve(c)
  PROVE  AnnouncedOf(c)'
<1> USE DEF At
<1>1. /\ HandlerTakes(c) /\ HandlerKeeps(c) /\ local_id'[c] = local_id[c]
      /\ StageFits(c)
      /\ ~AdvertiseDuplicate(c)
  BY HandlerEffect, NoDuplicateStep
  DEF Serve, MeshInv, PeerTypeInv, TypeInv, peerVars, ProgramInv
<1>2. /\ local_id[c] # None => Broadcasts(Add(local_id[c]))
      /\ \A change : Broadcasts(change) => Broadcasts(change)'
  BY ChangesStep DEF OwnAnnounced, AnnouncedOf, StepOf, MeshInv
<1>3. CASE AdvertiseBroadcast(c)
  <2>1. /\ call'[c].id = call[c].id /\ call'[c].at = "replied"
        /\ changes \in Seq(Change) /\ Broadcast(Add(call[c].id))
    BY <1>1, <1>3
    DEF AdvertiseBroadcast, HandlerKeeps, HandlerTakes, Reply, FetchAdd,
        MeshInv, PeerTypeInv, TypeInv, ServerTypeOK
  <2>2. Broadcasts(Add(call[c].id))'
    BY <2>1, BroadcastAdds
  <2> QED BY <1>1, <1>2, <2>1, <2>2 DEF AnnouncedOf
<1>4. CASE SignalDisconnected(c)
  <2>1. call'[c].id = call[c].id /\ call'[c].at = "teardown"
    BY <1>1, <1>4
    DEF SignalDisconnected, HandlerKeeps, HandlerTakes, GoTo, FetchAdd,
        MeshInv, PeerTypeInv, TypeInv, ServerTypeOK, Call
  <2>2. call[c].kind \in Kinds /\ call[c].id \in Id
    BY <1>4
    DEF SignalDisconnected, MeshInv, PeerTypeInv, TypeInv, Named,
        ServerTypeOK, Call
  <2>3. PICK d \in Target(c) : Disconnected(call[c].kind, d)
    BY <1>4 DEF SignalDisconnected
  <2>4. d \in listener_tx[call[c].kind][call[c].id] /\ d \in Clients
    BY <2>2, <2>3
    DEF Target, MeshInv, PeerTypeInv, TypeInv, ServerTypeOK, ListenerSlot
  <2>5. local_id[d] = call[c].id
    BY <2>2, <2>4 DEF MeshInv, RegisteredInv, ListenerOwners
  <2>6. Broadcasts(Add(call[c].id))
    BY <2>2, <2>4, <2>5, ModulusPositive
    DEF OwnAnnounced, AnnouncedOf, Id, None
  <2> QED BY <1>1, <1>2, <2>1, <2>6 DEF AnnouncedOf
<1>5. CASE ~AdvertiseBroadcast(c) /\ ~SignalDisconnected(c)
  <2>1. ~(call'[c].op = "advertise" /\ call'[c].at = "replied")
    BY <1>1, <1>5
    DEF HandlerKeeps, HandlerTakes, StageFits, FetchAdd, AdvertiseInsert,
        TeardownBroadcast, TeardownRemove, PeerDiscover, PeerListenerSnapshot,
        PeerListenerSubscribe, ListenerOpened, ListenerRefused,
        SignalRejected, SignalAccepted, SignalFull
  <2>2. call'[c].at # "teardown"
    BY <1>1, <1>5 DEF HandlerTakes
  <2> QED BY <1>1, <1>2, <2>1, <2>2 DEF AnnouncedOf
<1> QED BY <1>3, <1>4, <1>5

\* What it owes a peer that takes a step.
LEMMA AnnouncedPeer ==
  ASSUME MeshInv, OwnAnnounced, NEW c \in Clients, StepOf(c), ~Serve(c)
  PROVE  AnnouncedOf(c)'
<1>1. \A change : Broadcasts(change) => Broadcasts(change)'
  BY ChangesStep DEF MeshInv
<1>2. local_id'[c] # None => Broadcasts(Add(local_id'[c]))
  <2>1. CASE Advertised(c)
    BY <2>1
    DEF Advertised, Returned, OwnAnnounced, AnnouncedOf, At, MeshInv,
        PeerTypeInv, PeerTypeOK
  <2>2. CASE UNCHANGED local_id
    BY <2>2 DEF OwnAnnounced, AnnouncedOf
  <2> QED BY <2>1, <2>2, LocalIdSteps
<1>3. \/ call'[c] = call[c]
      \/ call'[c].at \in {"sent", "idle"}
  BY UnservedCall DEF MeshInv
<1> QED BY <1>1, <1>2, <1>3 DEF OwnAnnounced, AnnouncedOf, At

\* What is torn down was announced.
LEMMA TornDownAnnounced ==
  ASSUME MeshInv, OwnAnnounced, NEW c \in Clients, TeardownBroadcast(c)
  PROVE  Broadcasts(Add(call[c].id))
<1>1. CASE At(c, "teardown", "sent")
  <2>1. call[c].id = local_id[c] /\ local_id[c] \in Id
    BY <1>1 DEF MeshInv, ProgramInv, OwnName, At
  <2> QED BY <2>1, ModulusPositive DEF OwnAnnounced, AnnouncedOf, Id, None
<1>2. CASE call[c].at = "teardown"
  BY <1>2 DEF OwnAnnounced, AnnouncedOf
<1> QED BY <1>1, <1>2 DEF TeardownBroadcast

\* A new change is not about a peer that is to be announced yet.
LEMMA UnheardStep ==
  ASSUME ~Wraps, MeshInv, HistoryInv, NEW c \in Clients, StepOf(c),
         NEW d \in Clients
  PROVE  Unheard(d)'
<1> SUFFICES ASSUME call'[d].op = "advertise",
                    call'[d].at \in {"insert", "announce"},
                    NEW i \in DOMAIN changes'
             PROVE  changes'[i].id # call'[d].id
  BY DEF Unheard
<1>1. /\ PeerTypeInv /\ OwnAlone /\ generator \in Nat
      /\ ChangesReached
  BY ReachedGrows DEF MeshInv, ReachedInv
<1>2. CASE d = c /\ FetchAdd(c)
  <2>1. call'[d].id = generator /\ UNCHANGED changes
    BY <1>1, <1>2
    DEF FetchAdd, At, PeerTypeInv, TypeInv, ServerTypeOK, Call
  <2> QED BY <1>1, <2>1 DEF ChangesReached, Reached
<1>3. CASE ~(d = c /\ FetchAdd(c))
  <2>1. /\ call[d].op = "advertise" /\ call[d].at \in {"insert", "announce"}
        /\ call'[d].id = call[d].id
    <3>1. CASE d # c
      BY <1>1, <3>1, OthersKept DEF KeptPeer
    <3>2. CASE d = c /\ Serve(c)
      <4>1. HandlerTakes(c) /\ HandlerKeeps(c) /\ StageFits(c)
        BY <1>1, <3>2, HandlerEffect
        DEF Serve, PeerTypeInv, TypeInv, MeshInv, ProgramInv
      <4>2. AdvertiseInsert(c)
        BY <1>3, <3>2, <4>1
        DEF HandlerTakes
      <4> QED BY <3>2, <4>1, <4>2 DEF AdvertiseInsert, HandlerKeeps, At, FetchAdd
    <3>3. CASE d = c /\ ~Serve(c)
      <4>1. call'[c] = call[c]
        BY <1>1, <3>3, UnservedCall
      <4> QED BY <3>3, <4>1
    <3> QED BY <3>1, <3>2, <3>3
  <2>2. \A j \in DOMAIN changes : changes[j].id # call[d].id
    BY <2>1 DEF HistoryInv, Unannounced, Unheard
  <2>3. CASE UNCHANGED changes
    BY <2>1, <2>2, <2>3
  <2>4. CASE AdvertiseBroadcast(c)
    <3>1. c # d
      BY <1>1, <2>4
      DEF AdvertiseBroadcast, Reply, PeerTypeInv, TypeInv, ServerTypeOK, Call
    <3>2. Own(c) = call[c].id /\ Own(d) = call[d].id /\ call[d].id \in Id
      BY <1>1, <2>1, <2>4
      DEF AdvertiseBroadcast, At, Own, PeerTypeInv, TypeInv, Named
    <3>3. call[c].id # call[d].id
      BY <1>1, <3>1, <3>2, OwnApart
    <3>4. Broadcast(Add(call[c].id))
      BY <2>4 DEF AdvertiseBroadcast
    <3> QED BY <1>1, <2>1, <2>2, <3>3, <3>4, Appended DEF Add
  <2>5. CASE TeardownBroadcast(c)
    <3>1. call[c].id # call[d].id
      <4>1. PICK j \in DOMAIN changes : changes[j] = Add(call[c].id)
        BY <2>5, TornDownAnnounced DEF HistoryInv, Broadcasts
      <4> QED BY <2>2, <4>1 DEF Add
    <3>2. Broadcast(Remove(call[c].id))
      BY <2>5 DEF TeardownBroadcast, TornDown
    <3> QED BY <1>1, <2>1, <2>2, <3>1, <3>2, Appended DEF Remove
  <2> QED BY <2>3, <2>4, <2>5, DirectorySteps
<1> QED BY <1>2, <1>3

\* A new change makes sense after those before it.
LEMMA ChangesInOrderStep ==
  ASSUME ~Wraps, MeshInv, HistoryInv, NEW c \in Clients, StepOf(c)
  PROVE  ChangesInOrder'
<1>1. ChangesInOrder /\ PeerTypeInv
  BY DEF HistoryInv, MeshInv
<1>2. CASE UNCHANGED changes
  BY <1>1, <1>2 DEF ChangesInOrder
<1>3. ASSUME NEW change, Broadcast(change),
             IF change.change = "add"
               THEN \A j \in DOMAIN changes : changes[j].id # change.id
               ELSE Broadcasts(Add(change.id))
      PROVE  ChangesInOrder'
  <2>1. /\ Len(changes) \in Nat
        /\ DOMAIN changes = 1 .. Len(changes)
        /\ DOMAIN changes' = 1 .. Len(changes) + 1
        /\ \A i \in DOMAIN changes : changes'[i] = changes[i]
        /\ changes'[Len(changes) + 1] = change
    BY <1>1, <1>3, Appended
  <2> SUFFICES ASSUME NEW i \in DOMAIN changes'
               PROVE  IF changes'[i].change = "add"
                        THEN \A j \in 1 .. i - 1 : changes'[j].id # changes'[i].id
                        ELSE \E j \in 1 .. i - 1 :
                               changes'[j] = Add(changes'[i].id)
    BY DEF ChangesInOrder, Add
  <2>2. CASE i \in DOMAIN changes
    <3>1. /\ changes'[i] = changes[i]
          /\ \A j \in 1 .. i - 1 : changes'[j] = changes[j]
      BY <2>1, <2>2
    <3> QED BY <1>1, <2>2, <3>1 DEF ChangesInOrder
  <2>3. CASE i = Len(changes) + 1
    <3>1. changes'[i] = change /\ 1 .. i - 1 = DOMAIN changes
      BY <2>1, <2>3
    <3> QED BY <1>3, <2>1, <3>1 DEF Broadcasts
  <2> QED BY <2>1, <2>2, <2>3
<1>4. CASE AdvertiseBroadcast(c)
  <2>1. \A j \in DOMAIN changes : changes[j].id # call[c].id
    BY <1>4 DEF AdvertiseBroadcast, At, HistoryInv, Unannounced, Unheard
  <2>2. Broadcast(Add(call[c].id))
    BY <1>4 DEF AdvertiseBroadcast
  <2> QED BY <1>3, <2>1, <2>2 DEF Add
<1>5. CASE TeardownBroadcast(c)
  <2>1. Broadcasts(Add(call[c].id))
    BY <1>5, TornDownAnnounced DEF HistoryInv
  <2>2. Broadcast(Remove(call[c].id))
    BY <1>5 DEF TeardownBroadcast, TornDown
  <2> QED BY <1>3, <2>1, <2>2 DEF Remove
<1> QED BY <1>2, <1>4, <1>5, DirectorySteps

\* So every step keeps the history in order.
LEMMA HistoryNext ==
  ASSUME ~Wraps, MeshInv, HistoryInv, [Steps]_vars
  PROVE  HistoryInv'
<1>1. CASE UNCHANGED vars
  BY <1>1
  DEF vars, serverVars, peerVars, HistoryInv, OwnAnnounced, AnnouncedOf, At,
      Broadcasts, Unannounced, Unheard, ChangesInOrder
<1>2. ASSUME NEW c \in Clients, StepOf(c) PROVE HistoryInv'
  <2>1. AnnouncedOf(c)'
    BY <1>2, AnnouncedServe, AnnouncedPeer DEF HistoryInv
  <2>2. ASSUME NEW d \in Clients \ {c} PROVE AnnouncedOf(d)'
    <3>1. /\ KeptPeer(d)
          /\ \A change : Broadcasts(change) => Broadcasts(change)'
      BY <1>2, OthersKept, ChangesStep DEF MeshInv
    <3> QED BY <3>1 DEF KeptPeer, HistoryInv, OwnAnnounced, AnnouncedOf, At
  <2>3. OwnAnnounced'
    BY <2>1, <2>2 DEF OwnAnnounced
  <2>4. Unannounced' /\ ChangesInOrder'
    BY <1>2, UnheardStep, ChangesInOrderStep DEF Unannounced
  <2> QED BY <2>3, <2>4 DEF HistoryInv
<1> QED BY <1>1, <1>2 DEF Steps

-----------------------------------------------------------------------------
(* What a peer listener has read.                                          *)

\* It lies between where the listener began and the newest change; nothing is
\* read before start_peer has returned.
ReadingOf(c) ==
    /\ peer_listener[c].since <= peer_listener[c].pos
    /\ peer_listener[c].pos <= Len(changes)
    /\ peer_listener[c].first => peer_listener[c].pos = peer_listener[c].since
    /\ pc[c] \in {"new", "starting"} => peer_listener[c].first

Reading == \A c \in Clients : ReadingOf(c)

\* Nothing was read at first.
LEMMA ReadingInit == Init => Reading
  BY DEF Init, ServerInit, PeerInit, NoPeerListener, Reading, ReadingOf

\* A peer that is starting does not read.
LEMMA StartingStep ==
  ASSUME PeerTypeInv, NEW c \in Clients, StepOf(c),
         pc'[c] \in {"new", "starting"}
  PROVE  /\ pc[c] \in {"new", "starting"}
         /\ Serve(c) \/ UNCHANGED peer_listener
<1> USE DEF PeerTypeInv, PeerTypeOK, MoveTo
<1>1. CASE Serve(c)
  BY <1>1 DEF Serve, peerVars
<1>2. CASE Start(c)
  BY <1>2
  DEF Start, StartPeer, Advertised, PeerListenerOpened, OfferListenerOpened,
      AnswerListenerOpened, peerVars
<1>3. CASE StepPeerListener(c)
  BY <1>3
  DEF StepPeerListener, StepInitialPeers, StepPeerAdded, StepPeerRemoved,
      StepSynchronise, Synchronised
<1>4. CASE StepSignal(c)
  BY <1>4
  DEF StepSignal, SkipEmpty, StepOfferListener, StepAnswerListener,
      StepListener, OfferSignalled, AnswerSignalled, SignalDropped, peerVars
<1>5. CASE \E remote \in Id : StepCallback(c, remote)
  BY <1>5
  DEF StepCallback, StepCreateOffer, StepReceiveOffer, SendSignal, Finish,
      StepReceiveAnswer, StepLocalSigCplt, StepRemoteSigCplt, StepCplt
<1>6. CASE End(c) \/ Close(c) \/ Stops(c) \/ Aftermath(c)
  BY <1>6
  DEF End, Closed, CallFailed, StepLagged, DropPeer, Close, Stops,
      Aftermath, AbandonedCallReturns, AbandonedCallLost, StreamDropped,
      peerVars
<1> QED BY <1>1, <1>2, <1>3, <1>4, <1>5, <1>6 DEF StepOf, Peer, StepChain

\* A step moves the position of one listener, forward.
LEMMA ReadingNext ==
  ASSUME PeerTypeInv, Reading, [Steps]_vars
  PROVE  Reading'
<1>1. CASE UNCHANGED vars
  BY <1>1 DEF vars, serverVars, peerVars, Reading, ReadingOf
<1>2. ASSUME NEW c \in Clients, StepOf(c) PROVE Reading'
  <2> DEFINE stream == peer_listener[c]
  <2>1. /\ Len(changes) \in Nat /\ Len(changes') \in Nat
        /\ Len(changes) <= Len(changes')
    BY <1>2, ChangesStep
  <2>2. \A d \in Clients : peer_listener[d].pos \in Nat
    BY DEF PeerTypeInv, TypeInv, ServerTypeOK, PeerListener
  <2>3. ASSUME NEW d \in Clients \ {c} PROVE ReadingOf(d)'
    <3>1. KeptPeer(d) /\ ReadingOf(d)
      BY <1>2, OthersKept DEF Reading
    <3> QED BY <2>1, <2>2, <3>1 DEF KeptPeer, ReadingOf
  <2>4. ReadingOf(c)'
    <3> USE DEF ReadingOf
    <3>1. /\ peer_listener \in [Clients -> PeerListener]
          /\ stream \in PeerListener
          /\ ReadingOf(c)
      BY DEF PeerTypeInv, TypeInv, ServerTypeOK, Reading
    <3>2. pc'[c] \in {"new", "starting"} =>
            /\ stream.first
            /\ Serve(c) \/ UNCHANGED peer_listener
      BY <1>2, <3>1, StartingStep
    <3>3. CASE Serve(c) /\ PeerListenerSubscribe(c)
      <4>1. /\ peer_listener'[c].first = TRUE
            /\ peer_listener'[c].since = Len(changes)
            /\ peer_listener'[c].pos = Len(changes)
            /\ UNCHANGED changes
        BY <3>1, <3>3 DEF PeerListenerSubscribe
      <4> QED BY <2>1, <4>1
    <3>4. CASE UNCHANGED peer_listener
      BY <2>1, <2>2, <3>1, <3>2, <3>4
    <3>5. ASSUME pc'[c] \in {"new", "starting"}
          PROVE  \/ Serve(c) /\ PeerListenerSubscribe(c)
                 \/ UNCHANGED peer_listener
      BY <1>2, <3>2, <3>5, PeerListenerSteps
      DEF Serve, Handler, Advertise, FetchAdd, AdvertiseInsert,
          AdvertiseDuplicate, AdvertiseBroadcast, HandleTeardown,
          TeardownBroadcast, TeardownRemove, PeerDiscover, OpenPeerListener,
          PeerListenerSnapshot, OpenListener, ListenerOpened,
          ListenerRefused, Signal, SignalRejected, SignalAccepted, SignalFull,
          SignalDisconnected
    <3>6. CASE ReceiveInitial(c)
      <4>1. /\ peer_listener'[c].first = FALSE
            /\ peer_listener'[c].since = stream.since
            /\ peer_listener'[c].pos = stream.pos
        BY <3>1, <3>6 DEF ReceiveInitial, PeerListener
      <4> QED BY <2>1, <2>2, <3>1, <3>3, <3>4, <3>5, <4>1
    <3>7. CASE ReceiveChange(c)
      <4>1. /\ peer_listener'[c].first = FALSE
            /\ peer_listener'[c].since = stream.since
            /\ peer_listener'[c].pos = stream.pos + 1
            /\ stream.pos < Len(changes)
            /\ stream.since \in Nat /\ stream.pos \in Nat
        BY <3>1, <3>7 DEF ReceiveChange, PeerListener
      <4> QED BY <2>1, <3>1, <3>3, <3>4, <3>5, <4>1
    <3>8. CASE ReceiveLagged(c) \/ DropPeerListener(c)
      <4>1. /\ peer_listener'[c].first = stream.first
            /\ peer_listener'[c].since = stream.since
            /\ peer_listener'[c].pos = stream.pos
        BY <3>1, <3>8 DEF ReceiveLagged, DropPeerListener, PeerListener
      <4> QED BY <2>1, <2>2, <3>1, <3>2, <4>1
    <3> QED BY <1>2, <3>3, <3>4, <3>6, <3>7, <3>8, PeerListenerSteps
  <2> QED BY <2>3, <2>4 DEF Reading
<1> QED BY <1>1, <1>2 DEF Steps

-----------------------------------------------------------------------------
(* Nobody finds itself.                                                    *)

\* Not in what a call finds, nor in what it has discovered.
SelfFree(c) ==
    /\ call[c].op \in {"open_peer_listener", "peer_discover"}
         => local_id[c] \notin call[c].found
    /\ local_id[c] # None =>
         /\ local_id[c] \notin peer_listener[c].initial
         /\ local_id[c] \notin discovered[c]
         /\ <<"create_offer", local_id[c]>> \notin pending[c]
    /\ local_id[c] = None =>
         /\ peer_listener[c].initial = {}
         /\ discovered[c] = {}
         /\ pending[c] = {}

\* A peer's own addition is older than its peer listener.
OwnAddRead(c) ==
    peer_listener[c].state # "none" =>
      \A i \in DOMAIN changes :
        changes[i] = Add(local_id[c]) => i <= peer_listener[c].since

SelfInv == \A c \in Clients : SelfFree(c) /\ OwnAddRead(c)

\* Nobody has found anyone at first.
LEMMA SelfInit == Init => SelfInv
  BY DEF Init, ServerInit, PeerInit, NoCall, NoPeerListener, SelfInv, SelfFree,
         OwnAddRead

\* The steps that discover, and what the others leave.
LEMMA DiscoverySteps ==
  ASSUME PeerTypeInv, NEW c \in Clients, StepOf(c)
  PROVE  \/ StepInitialPeers(c)
         \/ StepPeerAdded(c)
         \/ StepPeerRemoved(c)
         \/ Synchronised(c)
         \/ /\ pc'[c] = "gone"
            /\ discovered'[c] = {} /\ pending'[c] = {}
         \/ /\ discovered'[c] = discovered[c]
            /\ \/ pending'[c] = pending[c]
               \/ /\ pc[c] \in {"running", "stepping"}
                  /\ \A remote : <<"create_offer", remote>> \in pending'[c]
                                   => <<"create_offer", remote>> \in pending[c]
<1> USE DEF PeerTypeInv, PeerTypeOK, peerVars
<1>1. CASE Serve(c) \/ Close(c) \/ Aftermath(c)
  BY <1>1
  DEF Serve, Close, Aftermath, AbandonedCallReturns, AbandonedCallLost,
      StreamDropped
<1>2. CASE Start(c)
  BY <1>2
  DEF Start, StartPeer, Advertised, PeerListenerOpened, OfferListenerOpened,
      AnswerListenerOpened
<1>3. CASE End(c) \/ Stops(c)
  BY <1>3
  DEF End, Closed, CallFailed, StepLagged, Stops, DropPeer, MoveTo
<1>4. CASE StepSynchronise(c)
  BY <1>4 DEF StepSynchronise
<1>5. CASE StepSignal(c)
  <2>1. CASE \/ \E kind \in Kinds : SkipEmpty(c, kind)
             \/ OfferSignalled(c) \/ SignalDropped(c)
    BY <2>1 DEF SkipEmpty, OfferSignalled, SignalDropped
  <2>2. CASE AnswerSignalled(c)
    BY <2>2 DEF AnswerSignalled
  <2>3. CASE StepOfferListener(c) \/ StepAnswerListener(c)
    BY <2>3 DEF StepOfferListener, StepAnswerListener, StepListener
  <2> QED BY <1>5, <2>1, <2>2, <2>3 DEF StepSignal
<1>6. ASSUME NEW remote \in Id, StepCallback(c, remote)
      PROVE  /\ discovered'[c] = discovered[c]
             /\ pc[c] = "running"
             /\ \A other : <<"create_offer", other>> \in pending'[c]
                             => <<"create_offer", other>> \in pending[c]
  BY <1>6
  DEF StepCallback, StepCreateOffer, StepReceiveOffer, SendSignal,
      StepReceiveAnswer, StepLocalSigCplt, StepRemoteSigCplt, StepCplt, Finish,
      Dequeued
<1> QED
  BY <1>1, <1>2, <1>3, <1>4, <1>5, <1>6
  DEF StepOf, Peer, StepPeerListener, StepChain

\* The server never tells a peer of itself.
LEMMA SelfFreeServe ==
  ASSUME MeshInv, SelfInv, NEW c \in Clients, Serve(c)
  PROVE  SelfFree(c)'
<1>1. /\ HandlerTakes(c) /\ HandlerKeeps(c) /\ UNCHANGED peerVars
      /\ SelfFree(c) /\ PeerTypeInv
      /\ OwnName(c)
  BY HandlerEffect DEF Serve, MeshInv, PeerTypeInv, TypeInv, SelfInv, ProgramInv
<1>2. call'[c].op \in {"open_peer_listener", "peer_discover"}
        => local_id[c] \notin call'[c].found
  <2>1. CASE PeerDiscover(c) \/ PeerListenerSnapshot(c)
    <3>1. call'[c].found = Others(call[c].id)
      BY <1>1, <2>1
      DEF PeerDiscover, PeerListenerSnapshot, ReplyFound, PeerTypeInv,
          TypeInv, ServerTypeOK, Call
    <3>2. call[c].id = local_id[c]
      BY <1>1, <2>1 DEF PeerDiscover, PeerListenerSnapshot, OwnName, At
    <3> QED BY <3>1, <3>2 DEF Others
  <2>2. CASE ~(PeerDiscover(c) \/ PeerListenerSnapshot(c))
    BY <1>1, <2>2 DEF HandlerKeeps, SelfFree
  <2> QED BY <2>1, <2>2
<1>3. CASE PeerListenerSubscribe(c)
  <2>1. /\ call[c].op = "open_peer_listener"
        /\ peer_listener'[c].initial = call[c].found
    BY <1>1, <1>3
    DEF PeerListenerSubscribe, At, PeerTypeInv, TypeInv, ServerTypeOK
  <2>2. local_id[c] # None /\ local_id[c] \notin call[c].found
    BY <1>1, <2>1, ModulusPositive DEF SelfFree, OwnName, Id, None
  <2> QED BY <1>1, <1>2, <2>1, <2>2 DEF SelfFree, peerVars
<1>4. CASE ~PeerListenerSubscribe(c)
  <2>1. UNCHANGED peer_listener
    BY <1>4
    DEF Serve, Handler, Advertise, FetchAdd, AdvertiseInsert,
        AdvertiseDuplicate, AdvertiseBroadcast, HandleTeardown,
        TeardownBroadcast, TeardownRemove, PeerDiscover, OpenPeerListener,
        PeerListenerSnapshot, OpenListener, ListenerOpened, ListenerRefused,
        Signal, SignalRejected, SignalAccepted, SignalFull, SignalDisconnected
  <2> QED BY <1>1, <1>2, <2>1 DEF SelfFree, peerVars
<1> QED BY <1>3, <1>4

\* So a peer does not discover itself.
LEMMA SelfFreePeer ==
  ASSUME MeshInv, Reading, SelfInv, NEW c \in Clients, StepOf(c), ~Serve(c)
  PROVE  SelfFree(c)'
<1> DEFINE stream == peer_listener[c]
<1>1. /\ PeerTypeInv /\ SelfFree(c) /\ OwnAddRead(c)
      /\ CallFits(c) /\ StreamsFit(c) /\ OwnName(c)
  BY DEF MeshInv, SelfInv, ProgramInv
<1>2. peer_listener'[c].initial = stream.initial
  <2>1. peer_listener \in [Clients -> PeerListener]
    BY <1>1 DEF PeerTypeInv, TypeInv, ServerTypeOK
  <2>2. CASE ReceiveInitial(c) \/ DropPeerListener(c)
    BY <2>1, <2>2 DEF ReceiveInitial, DropPeerListener, PeerListener
  <2>3. CASE ReceiveChange(c) \/ ReceiveLagged(c)
    BY <2>1, <2>3 DEF ReceiveChange, ReceiveLagged, PeerListener
  <2>4. CASE UNCHANGED peer_listener
    BY <2>4
  <2> QED BY <1>1, <2>2, <2>3, <2>4, PeerListenerSteps
<1>3. CASE Advertised(c)
  <2>1. call'[c] = PeerListenerReq(call[c].id) /\ local_id'[c] = call[c].id
        /\ UNCHANGED <<discovered, pending, peer_listener>>
        /\ call[c].op = "advertise"
    BY <1>1, <1>3
    DEF Advertised, Returned, Request, PeerTypeInv, TypeInv, ServerTypeOK,
        PeerTypeOK
  <2>2. call'[c].found = {}
    BY <2>1 DEF PeerListenerReq, NoCall
  <2>3. local_id[c] = None
    BY <1>1, <2>1 DEF OwnName
  <2> QED BY <1>1, <2>1, <2>2, <2>3 DEF SelfFree
<1>4. CASE UNCHANGED local_id
  <2>1. call'[c].op \in {"open_peer_listener", "peer_discover"}
          => local_id[c] \notin call'[c].found
    BY <1>1, UnservedCall DEF SelfFree
  <2>2. pc[c] \in {"running", "stepping", "syncing"} => local_id[c] # None
    BY <1>1, ModulusPositive DEF PeerTypeInv, Identified, Id, None
  <2>3. CASE StepInitialPeers(c)
    <3>1. /\ discovered'[c] = discovered[c] \cup stream.initial
          /\ pending'[c] = pending[c] \cup FirstOffers(c, stream.initial)
          /\ pc[c] = "running"
      BY <1>1, <2>3 DEF StepInitialPeers, PeerTypeInv, PeerTypeOK
    <3> QED
      BY <1>1, <1>2, <1>4, <2>1, <2>2, <3>1 DEF SelfFree, FirstOffers
  <2>4. CASE StepPeerAdded(c)
    <3>1. /\ discovered'[c] = discovered[c] \cup {NextChange(c).id}
          /\ pending'[c] = pending[c] \cup FirstOffers(c, {NextChange(c).id})
          /\ pc[c] = "running"
          /\ ReceiveChange(c) /\ NextChange(c).change = "add"
      BY <1>1, <2>4 DEF StepPeerAdded, PeerTypeInv, PeerTypeOK
    <3>2. NextChange(c).id # local_id[c]
      <4>1. /\ stream.pos + 1 \in DOMAIN changes
            /\ NextChange(c) \in Change
        BY <1>1, <3>1, NextChangeType DEF PeerTypeInv
      <4>2. /\ stream.pos \in Nat /\ stream.since \in Nat
            /\ stream.since <= stream.pos
            /\ stream.state = "open"
        BY <1>1, <3>1
        DEF Reading, ReadingOf, ReceiveChange, PeerTypeInv, TypeInv,
            ServerTypeOK, PeerListener
      <4>3. NextChange(c) # Add(local_id[c])
        BY <1>1, <4>1, <4>2 DEF OwnAddRead, NextChange
      <4> QED BY <3>1, <4>1, <4>3 DEF Change, Add
    <3> QED
      BY <1>1, <1>2, <1>4, <2>1, <2>2, <3>1, <3>2 DEF SelfFree, FirstOffers
  <2>5. CASE StepPeerRemoved(c)
    <3>1. /\ discovered'[c] = discovered[c] \ {NextChange(c).id}
          /\ pending'[c] = pending[c]
      BY <1>1, <2>5 DEF StepPeerRemoved, PeerTypeInv, PeerTypeOK
    <3> QED BY <1>1, <1>2, <1>4, <2>1, <3>1 DEF SelfFree
  <2>6. CASE Synchronised(c)
    <3>1. /\ discovered'[c] = call[c].found
          /\ pending'[c] = pending[c]
          /\ pc[c] = "syncing" /\ call[c].op = "peer_discover"
      BY <1>1, <2>6 DEF Synchronised, Returned, PeerTypeInv, PeerTypeOK
    <3> QED BY <1>1, <1>2, <1>4, <2>1, <2>2, <3>1 DEF SelfFree
  <2>7. CASE pc'[c] = "gone" /\ discovered'[c] = {} /\ pending'[c] = {}
    BY <1>1, <1>2, <1>4, <2>1, <2>7 DEF SelfFree
  <2>8. CASE /\ discovered'[c] = discovered[c]
             /\ \/ pending'[c] = pending[c]
                \/ /\ pc[c] \in {"running", "stepping"}
                   /\ \A remote : <<"create_offer", remote>> \in pending'[c]
                                    => <<"create_offer", remote>> \in pending[c]
    BY <1>1, <1>2, <1>4, <2>1, <2>2, <2>8 DEF SelfFree
  <2> QED
    BY <1>1, <2>3, <2>4, <2>5, <2>6, <2>7, <2>8, DiscoverySteps
<1> QED BY <1>3, <1>4, LocalIdSteps

\* Nobody who listens already is announced.
LEMMA NewAddition ==
  ASSUME MeshInv, NEW c \in Clients, AdvertiseBroadcast(c), NEW d \in Clients,
         peer_listener[d].state # "none"
  PROVE  call[c].id # local_id[d]
<1>1. /\ call[c].op = "advertise" /\ call[c].id \in Id
      /\ local_id[c] = None
  BY DEF AdvertiseBroadcast, At, MeshInv, PeerTypeInv, TypeInv, Named,
         ProgramInv, OwnName
<1>2. local_id[d] # None
  BY DEF MeshInv, ProgramInv, StreamsFit
<1>3. call[d].op # "advertise" /\ c # d
  BY <1>1, <1>2 DEF MeshInv, ProgramInv, OwnName
<1>4. Own(c) = call[c].id /\ Own(d) = local_id[d]
  BY <1>1, <1>3 DEF Own
<1> QED BY <1>1, <1>3, <1>4, OwnApart DEF MeshInv

\* Whoever begins to listen was announced before.
LEMMA OwnAddReadStep ==
  ASSUME MeshInv, SelfInv, NEW c \in Clients, StepOf(c), NEW d \in Clients
  PROVE  OwnAddRead(d)'
<1> SUFFICES ASSUME peer_listener'[d].state # "none",
                    NEW i \in DOMAIN changes', changes'[i] = Add(local_id'[d])
             PROVE  i <= peer_listener'[d].since
  BY DEF OwnAddRead
<1>1. /\ PeerTypeInv /\ OwnAddRead(d) /\ OwnName(d) /\ StreamsFit(d)
      /\ peer_listener \in [Clients -> PeerListener]
      /\ peer_listener[d] \in PeerListener
  BY DEF MeshInv, PeerTypeInv, TypeInv, ServerTypeOK, SelfInv, ProgramInv
<1>2. /\ DOMAIN changes = 1 .. Len(changes) /\ Len(changes) \in Nat
      /\ DOMAIN changes' = 1 .. Len(changes')
      /\ \A j \in DOMAIN changes : changes'[j] = changes[j]
  BY <1>1, ChangesStep
<1>3. CASE d = c /\ Serve(c) /\ PeerListenerSubscribe(c)
  <2>1. peer_listener'[d].since = Len(changes) /\ UNCHANGED changes
    BY <1>1, <1>3 DEF PeerListenerSubscribe
  <2> QED BY <1>2, <2>1
<1>4. CASE ~(d = c /\ Serve(c) /\ PeerListenerSubscribe(c))
  <2>1. /\ peer_listener'[d].since = peer_listener[d].since
        /\ peer_listener[d].state # "none"
    <3>1. CASE d # c
      BY <1>1, <3>1, OthersKept DEF KeptPeer
    <3>2. CASE d = c
      BY <1>1, <1>4, <3>2, PeerListenerSteps
      DEF ReceiveInitial, ReceiveChange, ReceiveLagged, DropPeerListener,
          PeerListener
    <3> QED BY <3>1, <3>2
  <2>2. local_id'[d] = local_id[d]
    <3>1. local_id[d] # None
      BY <1>1, <2>1 DEF StreamsFit
    <3> QED BY <3>1, LocalIdStep DEF MeshInv
  <2>3. i \in DOMAIN changes
    <3>1. CASE UNCHANGED changes
      BY <3>1
    <3>2. CASE AdvertiseBroadcast(c)
      <4>1. /\ call[c].id # local_id[d]
            /\ Broadcast(Add(call[c].id))
        BY <2>1, <3>2, NewAddition DEF AdvertiseBroadcast
      <4>2. /\ DOMAIN changes' = 1 .. Len(changes) + 1
            /\ changes'[Len(changes) + 1] = Add(call[c].id)
        BY <1>1, <4>1, Appended
      <4>3. Add(call[c].id).id # Add(local_id[d]).id
        BY <4>1 DEF Add
      <4> QED BY <1>2, <2>2, <4>2, <4>3
    <3>3. CASE TeardownBroadcast(c)
      <4>1. Broadcast(Remove(call[c].id))
        BY <3>3 DEF TeardownBroadcast, TornDown
      <4>2. /\ DOMAIN changes' = 1 .. Len(changes) + 1
            /\ changes'[Len(changes) + 1] = Remove(call[c].id)
        BY <1>1, <4>1, Appended
      <4>3. Remove(call[c].id).change # Add(local_id'[d]).change
        BY DEF Add, Remove
      <4> QED BY <1>2, <4>2, <4>3
    <3> QED BY <3>1, <3>2, <3>3, DirectorySteps
  <2> QED BY <1>1, <1>2, <2>1, <2>2, <2>3 DEF OwnAddRead
<1> QED BY <1>3, <1>4

\* No step makes a peer find itself.
LEMMA SelfNext ==
  ASSUME MeshInv, Reading, SelfInv, [Steps]_vars
  PROVE  SelfInv'
<1>1. CASE UNCHANGED vars
  BY <1>1 DEF vars, serverVars, peerVars, SelfInv, SelfFree, OwnAddRead
<1>2. ASSUME NEW c \in Clients, StepOf(c) PROVE SelfInv'
  <2>1. SelfFree(c)'
    BY <1>2, SelfFreeServe, SelfFreePeer
  <2>2. ASSUME NEW d \in Clients \ {c} PROVE SelfFree(d)'
    <3>1. KeptPeer(d) /\ SelfFree(d)
      BY <1>2, OthersKept DEF MeshInv, SelfInv
    <3> QED BY <3>1 DEF KeptPeer, SelfFree
  <2>3. \A d \in Clients : OwnAddRead(d)'
    BY <1>2, OwnAddReadStep
  <2> QED BY <2>1, <2>2, <2>3 DEF SelfInv
<1> QED BY <1>1, <1>2 DEF Steps

-----------------------------------------------------------------------------
(* Of two peers, one finds the other.                                      *)

\* c has taken the snapshot its peer listener begins with.
Snapped(c) == /\ Alive(c)
              /\ \/ At(c, "open_peer_listener", "subscribe")
                 \/ peer_listener[c].state = "open"

Snapshot(c) == IF peer_listener[c].state = "open" THEN peer_listener[c].initial
                                                  ELSE call[c].found

Meet(a, b) == local_id[a] \in Snapshot(b) \/ local_id[b] \in Snapshot(a)

SnapshotsMeet ==
    \A a, b \in Clients : Snapped(a) /\ Snapped(b) /\ a # b => Meet(a, b)

\* Nobody has taken one at first.
LEMMA SnapshotsInit == Init => SnapshotsMeet
  BY DEF Init, PeerInit, SnapshotsMeet, Snapped, Alive

\* A live peer that listens is registered under its own identifier.
LEMMA SnappedRegistered ==
  ASSUME MeshInv, NEW c \in Clients, Snapped(c)
  PROVE  local_id[c] \in peers /\ local_id[c] \in Id /\ Own(c) = local_id[c]
<1>1. /\ StreamsFit(c) /\ OwnName(c) /\ peers \subseteq Id
  BY DEF MeshInv, ProgramInv, PeerTypeInv, TypeInv, ServerTypeOK
<1>2. call[c].op # "advertise"
  BY <1>1 DEF Snapped, At, OwnName, StreamsFit
<1>3. Alive(c) /\ Inserted(c) /\ Own(c) = local_id[c]
  BY <1>2 DEF Snapped, Inserted, Own
<1> QED BY <1>1, <1>3 DEF MeshInv, RegisteredInv, Registered

\* A snapshot is taken once, and holds everyone else in the directory.
LEMMA SnappedServe ==
  ASSUME MeshInv, NEW c \in Clients, Serve(c), Snapped(c)'
  PROVE  \/ /\ Snapshot(c)' = Others(local_id[c])
            /\ Own(c) = local_id[c] /\ local_id[c] \in Id
         \/ Snapped(c) /\ Snapshot(c)' = Snapshot(c)
<1>1. /\ PeerTypeInv /\ StreamsFit(c) /\ CallFits(c) /\ OwnName(c) /\ StageFits(c)
      /\ HandlerTakes(c) /\ HandlerKeeps(c) /\ UNCHANGED peerVars
  BY HandlerEffect DEF MeshInv, ProgramInv, PeerTypeInv, TypeInv, Serve
<1>2. Alive(c)
  BY <1>1 DEF Snapped, Alive, peerVars
<1>3. CASE PeerListenerSnapshot(c)
  <2>1. /\ call'[c].found = Others(call[c].id)
        /\ UNCHANGED peer_listener
        /\ call[c].op = "open_peer_listener" /\ call[c].at = "sent"
    BY <1>1, <1>3
    DEF PeerListenerSnapshot, At, PeerTypeInv, TypeInv, ServerTypeOK, Call
  <2>2. /\ call[c].id = local_id[c] /\ peer_listener[c].state = "none"
        /\ Own(c) = local_id[c] /\ local_id[c] \in Id
    BY <1>1, <1>2, <2>1 DEF OwnName, StreamsFit, CallFits, Alive, Own
  <2> QED BY <2>1, <2>2 DEF Snapshot
<1>4. CASE PeerListenerSubscribe(c)
  <2>1. /\ peer_listener'[c].initial = call[c].found
        /\ peer_listener'[c].state = "open"
        /\ call[c].op = "open_peer_listener" /\ call[c].at = "subscribe"
    BY <1>1, <1>4
    DEF PeerListenerSubscribe, At, PeerTypeInv, TypeInv, ServerTypeOK
  <2>2. peer_listener[c].state = "none"
    BY <1>1, <1>2, <2>1 DEF StreamsFit, CallFits, Alive
  <2> QED BY <1>2, <2>1, <2>2 DEF Snapshot, Snapped, At
<1>5. CASE ~PeerListenerSnapshot(c) /\ ~PeerListenerSubscribe(c)
  <2>1. UNCHANGED peer_listener
    BY <1>5
    DEF Serve, Handler, Advertise, FetchAdd, AdvertiseInsert,
        AdvertiseDuplicate, AdvertiseBroadcast, HandleTeardown,
        TeardownBroadcast, TeardownRemove, PeerDiscover, OpenPeerListener,
        OpenListener, ListenerOpened, ListenerRefused,
        Signal, SignalRejected, SignalAccepted, SignalFull, SignalDisconnected
  <2>2. call'[c].at # "subscribe"
    BY <1>1, <1>5 DEF HandlerTakes
  <2>3. peer_listener[c].state = "open"
    BY <2>1, <2>2 DEF Snapped, At
  <2> QED BY <1>2, <2>1, <2>3 DEF Snapped, Snapshot
<1> QED BY <1>3, <1>4, <1>5

\* What a peer does by itself leaves its snapshot alone.
LEMMA SnappedPeer ==
  ASSUME MeshInv, MeshInv', NEW c \in Clients, StepOf(c), ~Serve(c), Snapped(c)'
  PROVE  Snapped(c) /\ Snapshot(c)' = Snapshot(c)
<1>1. /\ PeerTypeInv /\ StreamsFit(c)' /\ OwnName(c)' /\ ProgramInv
      /\ peer_listener \in [Clients -> PeerListener]
      /\ peer_listener[c] \in PeerListener
  BY DEF MeshInv, ProgramInv, PeerTypeInv, TypeInv, ServerTypeOK
<1>2. call'[c].op # "advertise"
  BY <1>1 DEF Snapped, At, OwnName, StreamsFit
<1>3. Alive(c)
  BY <1>1, <1>2, AliveStep DEF Snapped, At
<1>4. /\ peer_listener'[c].initial = peer_listener[c].initial
      /\ \/ peer_listener'[c].state = peer_listener[c].state
         \/ peer_listener'[c].state = "dropped" /\ peer_listener[c].state = "open"
  BY <1>1, PeerListenerSteps
  DEF ReceiveInitial, ReceiveChange, ReceiveLagged, DropPeerListener,
      PeerListener
<1>5. CASE peer_listener'[c].state = "open"
  BY <1>3, <1>4, <1>5 DEF Snapped, Snapshot
<1>6. CASE peer_listener'[c].state # "open"
  <2>1. call'[c] = call[c] /\ At(c, "open_peer_listener", "subscribe")
    BY <1>1, <1>6, UnservedCall DEF Snapped, At
  <2>2. pc[c] = "starting"
    BY <1>1, <1>3, <2>1 DEF ProgramInv, CallFits, Alive, At
  <2>3. peer_listener[c].state = "none"
    BY <1>1, <2>1, <2>2 DEF ProgramInv, StreamsFit, At
  <2> QED BY <1>3, <1>4, <2>1, <2>3 DEF Snapped, Snapshot
<1> QED BY <1>5, <1>6

\* The later of two snapshots holds the peer that took the earlier one.
LEMMA SnapshotsNext ==
  ASSUME ~Wraps, MeshInv, SnapshotsMeet, [Steps]_vars
  PROVE  SnapshotsMeet'
<1>1. CASE UNCHANGED vars
  BY <1>1
  DEF vars, serverVars, peerVars, SnapshotsMeet, Snapped, Snapshot, Meet,
      Alive, At
<1>2. ASSUME NEW c \in Clients, StepOf(c), MeshInv' PROVE SnapshotsMeet'
  <2>1. ASSUME NEW d \in Clients \ {c}
        PROVE  /\ Snapped(d)' <=> Snapped(d)
               /\ Snapshot(d)' = Snapshot(d)
               /\ local_id'[d] = local_id[d]
    BY <1>2, OthersKept
    DEF MeshInv, KeptPeer, Snapped, Snapshot, Alive, At
  <2>2. ASSUME NEW d \in Clients \ {c}, Snapped(c)', Snapped(d)'
        PROVE  Meet(c, d)'
    <3>1. CASE Snapped(c) /\ Snapshot(c)' = Snapshot(c)
      <4>1. local_id'[c] = local_id[c]
        BY <1>2, <3>1, SnappedRegistered, LocalIdStep, ModulusPositive
        DEF MeshInv, Id, None
      <4> QED BY <2>1, <2>2, <3>1, <4>1 DEF SnapshotsMeet, Meet
    <3>2. CASE /\ Serve(c) /\ Snapshot(c)' = Others(local_id[c])
               /\ Own(c) = local_id[c] /\ local_id[c] \in Id
      <4>1. local_id[d] \in peers /\ local_id[d] \in Id
            /\ Own(d) = local_id[d]
        BY <2>1, <2>2, SnappedRegistered
      <4>2. local_id[c] # local_id[d]
        BY <3>2, <4>1, OwnApart DEF MeshInv
      <4> QED BY <2>1, <3>2, <4>1, <4>2 DEF Meet, Others
    <3> QED BY <1>2, <2>2, <3>1, <3>2, SnappedServe, SnappedPeer
  <2>3. ASSUME NEW a \in Clients, NEW b \in Clients, a # b,
               Snapped(a)', Snapped(b)'
        PROVE  Meet(a, b)'
    <3>1. CASE a # c /\ b # c
      BY <2>1, <2>3, <3>1 DEF SnapshotsMeet, Meet
    <3>2. CASE a = c \/ b = c
      BY <2>2, <2>3, <3>2 DEF Meet
    <3> QED BY <3>1, <3>2
  <2> QED BY <2>3 DEF SnapshotsMeet
<1> QED BY <1>1, <1>2, MeshNext DEF Steps

-----------------------------------------------------------------------------
(* Who is announced is discovered.                                         *)

RemovedIds == {id \in Id : Broadcasts(Remove(id))}

\* Everyone whose addition c has read and whose removal is not announced is in
\* ids.
Covers(c, ids) ==
    \A i \in peer_listener[c].since + 1 .. peer_listener[c].pos :
      changes[i].change = "add" => changes[i].id \in ids \cup RemovedIds

DiscoveredOf(c) ==
    /\ pc[c] \in {"running", "stepping"} => Covers(c, discovered[c])
    /\ pc[c] = "syncing" /\ call[c].at = "replied" => Covers(c, call[c].found)

DiscoveredInv == \A c \in Clients : DiscoveredOf(c)

\* Nobody runs at first.
LEMMA DiscoveredInit == Init => DiscoveredInv
  BY DEF Init, PeerInit, DiscoveredInv, DiscoveredOf

\* Whoever was added is in the directory, or its removal was announced.
LEMMA AddedStays ==
  ASSUME MeshInv, HistoryInv, NEW i \in DOMAIN changes,
         changes[i].change = "add"
  PROVE  changes[i].id \in peers \cup RemovedIds
<1> DEFINE id == changes[i].id
<1>1. changes[i] \in Change /\ id \in Id
  <2>1. changes \in Seq(Change)
    BY DEF MeshInv, PeerTypeInv, TypeInv, ServerTypeOK
  <2>2. changes[i] \in Change
    BY <2>1
  <2> QED BY <2>2 DEF Change
<1>2. generator \in Nat
  BY ModulusPositive DEF MeshInv, PeerTypeInv, TypeInv, ServerTypeOK, Id
<1>3. id \in 0 .. generator - 1
  <2>1. id \in Reached
    BY DEF MeshInv, ReachedInv, ChangesReached
  <2>2. id \in Nat
    BY <1>1, ModulusPositive DEF Id
  <2> QED BY <1>2, <2>1, <2>2 DEF Reached
<1>4. ~Inserting(id)
  BY DEF Inserting, At, HistoryInv, Unannounced, Unheard
<1>5. CASE id \notin peers
  <2>1. id \in Departed
    BY <1>3, <1>4, <1>5 DEF Departed
  <2>2. Broadcasts(Remove(id))
    BY <2>1 DEF MeshInv, DirectoryInv, RemovalAnnounced
  <2> QED BY <1>1, <2>2 DEF RemovedIds
<1> QED BY <1>5

\* A listener that does not move keeps what it has covered.
LEMMA CoversKept ==
  ASSUME PeerTypeInv, Reading, NEW e \in Clients, StepOf(e), NEW c \in Clients,
         peer_listener'[c].since = peer_listener[c].since,
         peer_listener'[c].pos = peer_listener[c].pos,
         NEW ids, NEW more, ids \subseteq more, Covers(c, ids)
  PROVE  \A i \in peer_listener'[c].since + 1 .. peer_listener'[c].pos :
           changes'[i].change = "add" => changes'[i].id \in more \cup RemovedIds'
<1>1. RemovedIds \subseteq RemovedIds'
  BY ChangesStep DEF RemovedIds
<1>2. /\ peer_listener[c].pos \in Nat /\ peer_listener[c].since \in Nat
      /\ peer_listener[c].pos <= Len(changes)
  BY DEF PeerTypeInv, TypeInv, ServerTypeOK, PeerListener, Reading, ReadingOf
<1>3. \A i \in 1 .. Len(changes) : changes'[i] = changes[i]
  BY ChangesStep
<1>4. Len(changes) \in Nat
  BY ChangesStep
<1> SUFFICES ASSUME NEW i \in peer_listener[c].since + 1 .. peer_listener[c].pos,
                    changes'[i].change = "add"
             PROVE  changes'[i].id \in more \cup RemovedIds'
  OBVIOUS
<1>5. changes'[i] = changes[i]
  BY <1>2, <1>3, <1>4
<1>6. changes[i].id \in ids \cup RemovedIds
  BY <1>5 DEF Covers
<1> QED BY <1>1, <1>5, <1>6

\* What a peer in its loop does with what it has discovered.
LEMMA WorkingStep ==
  ASSUME PeerTypeInv, NEW c \in Clients, StepOf(c), ~Serve(c),
         pc'[c] \in {"running", "stepping", "syncing"}
  PROVE  \/ StepPeerListener(c)
         \/ AnswerListenerOpened(c)
         \/ /\ UNCHANGED <<peer_listener, discovered>>
            /\ pc[c] \in {"running", "stepping"}
            /\ pc'[c] \in {"running", "stepping"}
<1> USE DEF PeerTypeInv, PeerTypeOK, MoveTo
<1>1. CASE Start(c)
  BY <1>1
  DEF Start, StartPeer, Advertised, PeerListenerOpened, OfferListenerOpened,
      Returned, peerVars
<1>2. CASE StepSignal(c)
  BY <1>2
  DEF StepSignal, SkipEmpty, StepOfferListener, StepAnswerListener,
      StepListener, OfferSignalled, AnswerSignalled, SignalDropped, peerVars
<1>3. CASE \E remote \in Id : StepCallback(c, remote)
  BY <1>3
  DEF StepCallback, StepCreateOffer, StepReceiveOffer, SendSignal, Finish,
      StepReceiveAnswer, StepLocalSigCplt, StepRemoteSigCplt, StepCplt,
      serverVars
<1>4. CASE End(c) \/ Close(c) \/ Stops(c) \/ Aftermath(c)
  BY <1>4
  DEF End, Closed, CallFailed, StepLagged, DropPeer, Close, Stops,
      Aftermath, AbandonedCallReturns, AbandonedCallLost, StreamDropped,
      peerVars
<1> QED BY <1>1, <1>2, <1>3, <1>4 DEF StepOf, Peer, StepChain

\* The directory covers everyone that was announced.
LEMMA DirectoryCovers ==
  ASSUME MeshInv, HistoryInv, Reading, SelfInv, NEW c \in Clients,
         peer_listener[c].state = "open"
  PROVE  Covers(c, Others(local_id[c]))
<1> SUFFICES ASSUME NEW i \in peer_listener[c].since + 1 .. peer_listener[c].pos,
                    changes[i].change = "add"
             PROVE  changes[i].id \in Others(local_id[c]) \cup RemovedIds
  BY DEF Covers
<1>1. /\ peer_listener[c].pos \in Nat /\ peer_listener[c].since \in Nat
      /\ peer_listener[c].pos <= Len(changes)
      /\ changes \in Seq(Change)
  BY DEF MeshInv, PeerTypeInv, TypeInv, ServerTypeOK, PeerListener, Reading,
         ReadingOf
<1>2. i \in DOMAIN changes /\ changes[i] \in Change /\ ~(i <= peer_listener[c].since)
  BY <1>1
<1>3. changes[i].id \in peers \cup RemovedIds
  BY <1>2, AddedStays
<1>4. changes[i].id # local_id[c]
  <2>1. changes[i] # Add(local_id[c])
    BY <1>2 DEF SelfInv, OwnAddRead
  <2> QED BY <1>2, <2>1 DEF Change, Add
<1> QED BY <1>3, <1>4 DEF Others

\* The server gives a peer that has lost track the directory.
LEMMA DiscoveredServe ==
  ASSUME MeshInv, HistoryInv, Reading, SelfInv, DiscoveredInv,
         NEW c \in Clients, Serve(c)
  PROVE  DiscoveredOf(c)'
<1>1. /\ PeerTypeInv /\ DiscoveredOf(c) /\ StepOf(c)
      /\ StreamsFit(c) /\ CallFits(c) /\ OwnName(c) /\ StageFits(c)
      /\ HandlerTakes(c) /\ HandlerKeeps(c) /\ UNCHANGED peerVars
  BY HandlerEffect
  DEF MeshInv, ProgramInv, PeerTypeInv, TypeInv, Serve, StepOf, DiscoveredInv
<1>2. CASE pc[c] \in {"running", "stepping", "syncing"}
  <2>1. ~PeerListenerSubscribe(c)
    BY <1>1, <1>2 DEF PeerListenerSubscribe, At, CallFits
  <2>2. UNCHANGED peer_listener
    BY <2>1
    DEF Serve, Handler, Advertise, FetchAdd, AdvertiseInsert,
        AdvertiseDuplicate, AdvertiseBroadcast, HandleTeardown,
        TeardownBroadcast, TeardownRemove, PeerDiscover, OpenPeerListener,
        PeerListenerSnapshot, OpenListener, ListenerOpened, ListenerRefused,
        Signal, SignalRejected, SignalAccepted, SignalFull, SignalDisconnected
  <2>3. CASE pc[c] \in {"running", "stepping"}
    <3>1. Covers(c, discovered[c])
      BY <1>1, <2>3 DEF DiscoveredOf
    <3>2. \A i \in peer_listener'[c].since + 1 .. peer_listener'[c].pos :
            changes'[i].change = "add"
              => changes'[i].id \in discovered[c] \cup RemovedIds'
      BY <1>1, <2>2, <3>1, CoversKept
    <3> QED BY <1>1, <2>3, <3>2 DEF DiscoveredOf, Covers, peerVars
  <2>4. CASE pc[c] = "syncing"
    <3>1. PeerDiscover(c)
      BY <1>1, <2>4
      DEF HandlerTakes, CallFits, StageFits, At, FetchAdd, AdvertiseInsert,
          AdvertiseDuplicate, AdvertiseBroadcast, TeardownBroadcast,
          TeardownRemove, PeerListenerSnapshot, PeerListenerSubscribe,
          ListenerOpened, ListenerRefused, SignalRejected, SignalAccepted,
          SignalFull, SignalDisconnected
    <3>2. call'[c].found = Others(local_id[c])
      <4>1. call'[c].found = Others(call[c].id)
        BY <1>1, <3>1
        DEF PeerDiscover, ReplyFound, PeerTypeInv, TypeInv, ServerTypeOK, Call
      <4>2. call[c].id = local_id[c]
        BY <1>1, <2>4 DEF CallFits, OwnName
      <4> QED BY <4>1, <4>2
    <3>3. Covers(c, Others(local_id[c]))
      BY <1>1, <2>4, DirectoryCovers DEF StreamsFit
    <3>4. \A i \in peer_listener'[c].since + 1 .. peer_listener'[c].pos :
            changes'[i].change = "add"
              => changes'[i].id \in Others(local_id[c]) \cup RemovedIds'
      BY <1>1, <2>2, <3>3, CoversKept
    <3> QED BY <1>1, <2>4, <3>2, <3>4 DEF DiscoveredOf, Covers, peerVars
  <2> QED BY <1>2, <2>3, <2>4
<1>3. CASE pc[c] \notin {"running", "stepping", "syncing"}
  BY <1>1, <1>3 DEF DiscoveredOf, peerVars
<1> QED BY <1>2, <1>3

\* A change that is read is taken into account.
LEMMA DiscoveredChange ==
  ASSUME MeshInv, Reading, NEW c \in Clients,
         StepPeerAdded(c) \/ StepPeerRemoved(c), Covers(c, discovered[c])
  PROVE  Covers(c, discovered[c])'
<1> DEFINE stream == peer_listener[c]
           next   == stream.pos + 1
<1>1. /\ PeerTypeInv /\ ReceiveChange(c) /\ UNCHANGED changes
      /\ peer_listener \in [Clients -> PeerListener]
      /\ stream \in PeerListener /\ stream.pos \in Nat /\ stream.since \in Nat
      /\ discovered \in [Clients -> SUBSET Id]
  BY DEF StepPeerAdded, StepPeerRemoved, directoryVars, MeshInv, PeerTypeInv,
         TypeInv, ServerTypeOK, PeerListener, PeerTypeOK
<1>2. peer_listener'[c].since = stream.since /\ peer_listener'[c].pos = next
  BY <1>1 DEF ReceiveChange, PeerListener
<1>3. /\ next \in DOMAIN changes /\ changes[next] = NextChange(c)
      /\ changes[next] \in Change
  BY <1>1, NextChangeType DEF PeerTypeInv, NextChange
<1>4. RemovedIds' = RemovedIds
  BY <1>1 DEF RemovedIds, Broadcasts
<1>5. discovered[c] \subseteq discovered'[c] \cup RemovedIds
  <2>1. CASE StepPeerAdded(c)
    BY <1>1, <2>1 DEF StepPeerAdded
  <2>2. CASE StepPeerRemoved(c)
    <3>1. /\ changes[next].change = "remove"
          /\ discovered'[c] = discovered[c] \ {changes[next].id}
      BY <1>1, <1>3, <2>2 DEF StepPeerRemoved
    <3>2. changes[next] = Remove(changes[next].id) /\ changes[next].id \in Id
      BY <1>3, <3>1 DEF Change, Remove
    <3>3. changes[next].id \in RemovedIds
      BY <1>3, <3>2 DEF RemovedIds, Broadcasts
    <3> QED BY <3>1, <3>3
  <2> QED BY <2>1, <2>2
<1>6. changes[next].change = "add" => changes[next].id \in discovered'[c]
  <2>1. CASE StepPeerAdded(c)
    BY <1>1, <1>3, <2>1 DEF StepPeerAdded
  <2>2. CASE StepPeerRemoved(c)
    BY <1>3, <2>2 DEF StepPeerRemoved
  <2> QED BY <2>1, <2>2
<1> SUFFICES ASSUME NEW i \in stream.since + 1 .. next, changes[i].change = "add"
             PROVE  changes[i].id \in discovered'[c] \cup RemovedIds
  BY <1>1, <1>2, <1>4 DEF Covers
<1>7. CASE i = next
  BY <1>6, <1>7
<1>8. CASE i # next
  <2>1. i \in stream.since + 1 .. stream.pos
    BY <1>1, <1>8
  <2>2. changes[i].id \in discovered[c] \cup RemovedIds
    BY <2>1 DEF Covers
  <2> QED BY <1>5, <2>2
<1> QED BY <1>7, <1>8

\* A peer loses nobody of what it was told.
LEMMA DiscoveredPeer ==
  ASSUME MeshInv, HistoryInv, Reading, SelfInv, DiscoveredInv,
         NEW c \in Clients, StepOf(c), ~Serve(c)
  PROVE  DiscoveredOf(c)'
<1> DEFINE stream == peer_listener[c]
           Kept(ids) ==
             \A i \in peer_listener'[c].since + 1 .. peer_listener'[c].pos :
               changes'[i].change = "add" => changes'[i].id \in ids \cup RemovedIds'
<1> USE DEF MoveTo
<1>1. /\ PeerTypeInv /\ DiscoveredOf(c) /\ ReadingOf(c)
      /\ peer_listener \in [Clients -> PeerListener] /\ stream \in PeerListener
      /\ pc \in [Clients -> Locations] /\ discovered \in [Clients -> SUBSET Id]
      /\ call \in [Clients -> Call]
  BY DEF MeshInv, PeerTypeInv, TypeInv, ServerTypeOK, PeerTypeOK, DiscoveredInv,
         Reading
<1>2. CASE StepInitialPeers(c)
  <2>1. /\ peer_listener'[c].since = stream.since
        /\ peer_listener'[c].pos = stream.pos
        /\ pc[c] = "running" /\ pc'[c] = "running"
        /\ discovered[c] \subseteq discovered'[c]
    BY <1>1, <1>2 DEF StepInitialPeers, ReceiveInitial, PeerListener
  <2>2. Covers(c, discovered[c])
    BY <1>1, <2>1 DEF DiscoveredOf
  <2>3. Kept(discovered'[c])
    BY <1>1, <2>1, <2>2, CoversKept
  <2> QED BY <2>1, <2>3 DEF DiscoveredOf, Covers
<1>3. CASE StepPeerAdded(c) \/ StepPeerRemoved(c)
  <2>1. pc[c] = "running" /\ pc'[c] = "running"
    BY <1>3 DEF StepPeerAdded, StepPeerRemoved
  <2>2. Covers(c, discovered[c])
    BY <1>1, <2>1 DEF DiscoveredOf
  <2>3. Covers(c, discovered[c])'
    BY <1>3, <2>2, DiscoveredChange
  <2> QED BY <2>1, <2>3 DEF DiscoveredOf
<1>4. CASE StepSynchronise(c)
  <2>1. call'[c] = PeerDiscoverReq(local_id[c]) /\ pc'[c] = "syncing"
    BY <1>1, <1>4 DEF StepSynchronise, Request
  <2>2. call'[c].at = "sent"
    BY <2>1 DEF PeerDiscoverReq, NoCall
  <2> QED BY <2>1, <2>2 DEF DiscoveredOf
<1>5. CASE Synchronised(c)
  <2>1. /\ UNCHANGED peer_listener
        /\ pc[c] = "syncing" /\ pc'[c] = "running"
        /\ call[c].at = "replied" /\ discovered'[c] = call[c].found
    BY <1>1, <1>5 DEF Synchronised, Returned
  <2>2. Covers(c, call[c].found)
    BY <1>1, <2>1 DEF DiscoveredOf
  <2>3. Kept(call[c].found)
    BY <1>1, <2>1, <2>2, CoversKept
  <2> QED BY <2>1, <2>3 DEF DiscoveredOf, Covers
<1>6. CASE AnswerListenerOpened(c)
  <2>1. /\ UNCHANGED peer_listener
        /\ pc[c] = "starting" /\ pc'[c] = "running"
    BY <1>1, <1>6 DEF AnswerListenerOpened
  <2>2. stream.pos = stream.since /\ stream.since \in Nat
    BY <1>1, <2>1 DEF ReadingOf, PeerListener
  <2>3. peer_listener'[c].since + 1 .. peer_listener'[c].pos = {}
    BY <2>1, <2>2
  <2> QED BY <2>1, <2>3 DEF DiscoveredOf, Covers
<1>7. CASE /\ UNCHANGED <<peer_listener, discovered>>
           /\ pc[c] \in {"running", "stepping"}
           /\ pc'[c] \in {"running", "stepping"}
  <2>1. Covers(c, discovered[c])
    BY <1>1, <1>7 DEF DiscoveredOf
  <2>2. Kept(discovered[c])
    BY <1>1, <1>7, <2>1, CoversKept
  <2> QED BY <1>7, <2>2 DEF DiscoveredOf, Covers
<1>8. CASE pc'[c] \notin {"running", "stepping", "syncing"}
  BY <1>8 DEF DiscoveredOf
<1> QED
  BY <1>1, <1>2, <1>3, <1>4, <1>5, <1>6, <1>7, <1>8, WorkingStep
  DEF StepPeerListener

\* Nor by what others do.
LEMMA DiscoveredNext ==
  ASSUME MeshInv, HistoryInv, Reading, SelfInv, DiscoveredInv, [Steps]_vars
  PROVE  DiscoveredInv'
<1>1. CASE UNCHANGED vars
  BY <1>1
  DEF vars, serverVars, peerVars, DiscoveredInv, DiscoveredOf, Covers,
      RemovedIds, Broadcasts
<1>2. ASSUME NEW c \in Clients, StepOf(c) PROVE DiscoveredInv'
  <2>1. DiscoveredOf(c)'
    BY <1>2, DiscoveredServe, DiscoveredPeer
  <2>2. ASSUME NEW d \in Clients \ {c} PROVE DiscoveredOf(d)'
    <3>1. KeptPeer(d) /\ DiscoveredOf(d) /\ PeerTypeInv
      BY <1>2, OthersKept DEF MeshInv, DiscoveredInv
    <3>2. ASSUME NEW ids, Covers(d, ids)
          PROVE  \A i \in peer_listener'[d].since + 1 .. peer_listener'[d].pos :
                   changes'[i].change = "add"
                     => changes'[i].id \in ids \cup RemovedIds'
      BY <1>2, <3>1, <3>2, CoversKept DEF KeptPeer
    <3>3. pc'[d] \in {"running", "stepping"} => Covers(d, discovered[d])'
      BY <3>1, <3>2 DEF KeptPeer, DiscoveredOf, Covers
    <3>4. pc'[d] = "syncing" /\ call'[d].at = "replied"
            => Covers(d, call[d].found)'
      BY <3>1, <3>2 DEF KeptPeer, DiscoveredOf, Covers
    <3> QED BY <3>3, <3>4 DEF DiscoveredOf
  <2> QED BY <2>1, <2>2 DEF DiscoveredInv
<1> QED BY <1>1, <1>2 DEF Steps

-----------------------------------------------------------------------------
(* Together.                                                               *)

ViewInv ==
    /\ MeshInv
    /\ HistoryInv
    /\ Reading
    /\ SelfInv
    /\ SnapshotsMeet
    /\ DiscoveredInv

\* The invariant of what peers see.
LEMMA ViewInvariant ==
  ASSUME ~Wraps
  PROVE  StepsSpec => []ViewInv
<1>1. Init => ViewInv
  BY MeshInit, HistoryInit, ReadingInit, SelfInit, SnapshotsInit,
     DiscoveredInit
  DEF ViewInv
<1>2. ViewInv /\ [Steps]_vars => ViewInv'
  <2> SUFFICES ASSUME ViewInv, [Steps]_vars PROVE ViewInv'
    OBVIOUS
  <2>1. /\ MeshInv /\ HistoryInv /\ Reading /\ SelfInv
        /\ SnapshotsMeet /\ DiscoveredInv
    BY DEF ViewInv
  <2>2. MeshInv' /\ HistoryInv'
    BY <2>1, MeshNext, HistoryNext
  <2>3. Reading' /\ SelfInv'
    BY <2>1, ReadingNext, SelfNext DEF MeshInv
  <2>4. SnapshotsMeet' /\ DiscoveredInv'
    BY <2>1, SnapshotsNext, DiscoveredNext
  <2> QED BY <2>2, <2>3, <2>4 DEF ViewInv
<1> QED BY <1>1, <1>2, PTL DEF StepsSpec

\* As the next theorem, of peers that may stop at any point.
LEMMA HistoryInOrderOfSteps ==
  ASSUME ~Wraps
  PROVE  StepsSpec => []ChangesInOrder
<1>1. ViewInv => ChangesInOrder
  BY DEF ViewInv, HistoryInv
<1> QED BY <1>1, ViewInvariant, PTL

\* The broadcast changes make sense to whoever reads them: an identifier is added
\* once, and removed only after it was added, whoever tears it down and when.
THEOREM HistoryInOrder ==
  ASSUME ~Wraps
  PROVE  Spec => []ChangesInOrder
  BY SpecSteps, HistoryInOrderOfSteps, PTL

\* As the next theorem, of peers that may stop at any point.
LEMMA OneFindsTheOtherOfSteps ==
  ASSUME ~Wraps
  PROVE  StepsSpec => []DiscoveryCoverage
<1>1. ViewInv => DiscoveryCoverage
  <2> SUFFICES ASSUME ViewInv, NEW a \in Clients, NEW b \in Clients,
                      Subscribed(a), Subscribed(b), a # b
               PROVE  \/ local_id[a] \in peer_listener[b].initial
                      \/ local_id[b] \in peer_listener[a].initial
    BY DEF DiscoveryCoverage
  <2>1. ASSUME NEW c \in Clients, Subscribed(c)
        PROVE  Snapped(c) /\ Snapshot(c) = peer_listener[c].initial
    <3>1. peer_listener[c].state = "open"
      BY <2>1 DEF ViewInv, MeshInv, ProgramInv, StreamsFit, Subscribed
    <3> QED BY <2>1, <3>1 DEF Subscribed, Snapped, Alive, Snapshot
  <2> QED BY <2>1 DEF ViewInv, SnapshotsMeet, Meet
<1> QED BY <1>1, ViewInvariant, PTL

\* Of two peers that are both there, one found the other in the first message of
\* its peer listener, so one of them makes an offer: neither slips between the
\* other's advertise and its open_peer_listener.
THEOREM OneFindsTheOther ==
  ASSUME ~Wraps
  PROVE  Spec => []DiscoveryCoverage
  BY SpecSteps, OneFindsTheOtherOfSteps, PTL

\* As the next theorem, of peers that may stop at any point.
LEMMA NobodyFindsItselfOfSteps ==
  ASSUME ~Wraps
  PROVE  StepsSpec => []NeverSelf
<1>1. ViewInv => NeverSelf
  BY DEF ViewInv, SelfInv, SelfFree, NeverSelf
<1> QED BY <1>1, ViewInvariant, PTL

\* A peer never discovers itself and never makes itself an offer, although the
\* whole directory is sent to it and its own addition is broadcast.
THEOREM NobodyFindsItself ==
  ASSUME ~Wraps
  PROVE  Spec => []NeverSelf
  BY SpecSteps, NobodyFindsItselfOfSteps, PTL

\* As the next theorem, of peers that may stop at any point.
LEMMA AnnouncedAreDiscoveredOfSteps ==
  ASSUME ~Wraps
  PROVE  StepsSpec => []AnnouncedPeersAreDiscovered
<1>1. ViewInv => AnnouncedPeersAreDiscovered
  <2> SUFFICES ASSUME ViewInv, NEW c \in Clients, pc[c] = "running",
                      peer_listener[c].pos = Len(changes),
                      NEW i \in peer_listener[c].since + 1 .. Len(changes),
                      changes[i].change = "add",
                      ~Broadcasts(Remove(changes[i].id))
               PROVE  changes[i].id \in discovered[c]
    BY DEF AnnouncedPeersAreDiscovered
  <2>1. Covers(c, discovered[c])
    BY DEF ViewInv, DiscoveredInv, DiscoveredOf
  <2>2. changes[i].id \in discovered[c] \cup RemovedIds
    BY <2>1 DEF Covers
  <2> QED BY <2>2 DEF RemovedIds
<1> QED BY <1>1, ViewInvariant, PTL

\* A peer that has read all changes knows every peer that was announced since it
\* subscribed and not removed, resynchronised with the directory or not.
THEOREM AnnouncedAreDiscovered ==
  ASSUME ~Wraps
  PROVE  Spec => []AnnouncedPeersAreDiscovered
  BY SpecSteps, AnnouncedAreDiscoveredOfSteps, PTL
=============================================================================
