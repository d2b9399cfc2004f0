------------------------- MODULE SignallingChainProofs -------------------------
(***************************************************************************)
(* The signalling chains, for any number of peers and any capacities, as   *)
(* long as the identifier counter does not come round: no signal is lost   *)
(* or delivered twice, and a chain advances only on what its remote peer   *)
(* did.                                                                    *)
(***************************************************************************)
EXTENDS SignallingViewProofs, FiniteSetTheorems

-----------------------------------------------------------------------------
(* Queues.                                                                 *)

In(q, x) == \E i \in DOMAIN q : q[i] = x

\* No signal is in q twice.
Once(q) == \A i, j \in DOMAIN q : q[i] = q[j] /\ q[i] # None => i = j

\* A signal is appended.
LEMMA InAppend ==
  ASSUME NEW S, NEW q \in Seq(S), NEW e \in S
  PROVE  /\ \A x : In(Append(q, e), x) <=> In(q, x) \/ x = e
         /\ Once(q) /\ ~In(q, e) => Once(Append(q, e))
<1> DEFINE p == Append(q, e)
<1>1. /\ Len(q) \in Nat
      /\ DOMAIN q = 1 .. Len(q)
      /\ DOMAIN p = 1 .. Len(q) + 1
      /\ \A i \in DOMAIN q : p[i] = q[i]
      /\ p[Len(q) + 1] = e
  OBVIOUS
<1> HIDE DEF p
<1>2. ASSUME NEW x PROVE In(p, x) <=> In(q, x) \/ x = e
  <2>1. ASSUME In(q, x) PROVE In(p, x)
    BY <1>1, <2>1 DEF In
  <2>2. ASSUME x = e PROVE In(p, x)
    BY <1>1, <2>2 DEF In
  <2>3. ASSUME In(p, x) PROVE In(q, x) \/ x = e
    BY <1>1, <2>3 DEF In
  <2> QED BY <2>1, <2>2, <2>3
<1>3. ASSUME Once(q), ~In(q, e) PROVE Once(p)
  <2> SUFFICES ASSUME NEW i \in DOMAIN p, NEW j \in DOMAIN p,
                      p[i] = p[j], p[i] # None
               PROVE  i = j
    BY DEF Once
  <2>1. CASE i \in DOMAIN q /\ j \in DOMAIN q
    BY <1>1, <1>3, <2>1 DEF Once
  <2>2. CASE i = Len(q) + 1 \/ j = Len(q) + 1
    BY <1>1, <1>3, <2>2 DEF In
  <2> QED BY <1>1, <2>1, <2>2
<1> QED BY <1>2, <1>3 DEF p

\* A signal is taken from the front.
LEMMA InTail ==
  ASSUME NEW S, NEW q \in Seq(S), q # <<>>
  PROVE  /\ \A x : In(q, x) <=> In(Tail(q), x) \/ x = Head(q)
         /\ Once(q) => Once(Tail(q))
         /\ Once(q) /\ Head(q) # None => ~In(Tail(q), Head(q))
<1> DEFINE p == Tail(q)
<1>1. /\ Len(q) \in Nat /\ Len(q) > 0
      /\ DOMAIN q = 1 .. Len(q)
      /\ DOMAIN p = 1 .. Len(q) - 1
      /\ \A i \in DOMAIN p : p[i] = q[i + 1]
      /\ Head(q) = q[1]
  OBVIOUS
<1> HIDE DEF p
<1>2. ASSUME NEW x PROVE In(q, x) <=> In(p, x) \/ x = Head(q)
  <2>1. ASSUME In(p, x) PROVE In(q, x)
    <3>1. PICK i \in DOMAIN p : p[i] = x
      BY <2>1 DEF In
    <3>2. i + 1 \in DOMAIN q /\ q[i + 1] = x
      BY <1>1, <3>1
    <3> QED BY <3>2 DEF In
  <2>2. ASSUME x = Head(q) PROVE In(q, x)
    BY <1>1, <2>2 DEF In
  <2>3. ASSUME In(q, x), x # Head(q) PROVE In(p, x)
    <3>1. PICK i \in DOMAIN q : q[i] = x
      BY <2>3 DEF In
    <3>2. i - 1 \in DOMAIN p /\ (i - 1) + 1 = i
      BY <1>1, <2>3, <3>1
    <3> QED BY <1>1, <3>1, <3>2 DEF In
  <2> QED BY <2>1, <2>2, <2>3
<1>3. ASSUME Once(q) PROVE Once(p)
  <2> SUFFICES ASSUME NEW i \in DOMAIN p, NEW j \in DOMAIN p,
                      p[i] = p[j], p[i] # None
               PROVE  i = j
    BY DEF Once
  <2>1. i + 1 = j + 1
    BY <1>1, <1>3 DEF Once
  <2> QED BY <1>1, <2>1
<1>4. ASSUME Once(q), Head(q) # None, In(p, Head(q)) PROVE FALSE
  <2>1. PICK i \in DOMAIN p : p[i] = Head(q)
    BY <1>4 DEF In
  <2>2. i + 1 \in DOMAIN q /\ 1 \in DOMAIN q /\ q[i + 1] = q[1] /\ i + 1 # 1
    BY <1>1, <2>1
  <2> QED BY <1>1, <1>4, <2>2 DEF Once
<1> QED BY <1>2, <1>3, <1>4 DEF p

\* A queue that was just opened or dropped holds no signal.
LEMMA InNew ==
  /\ \A x : ~In(<<>>, x) /\ (In(<<None>>, x) => x = None)
  /\ Once(<<>>) /\ Once(<<None>>)
  BY DEF In, Once

-----------------------------------------------------------------------------
(* What a peer asks of the server.                                         *)

\* The callback whose return is signalled, ...
Task(kind) == IF kind = "offer" THEN "create_offer" ELSE "receive_offer"

\* ... the one a signal is passed to, ...
HeardTask(kind) == IF kind = "offer" THEN "receive_offer" ELSE "receive_answer"

\* ... and what is recorded when the signal was acknowledged and when it is heard.
SentEvent(kind) == IF kind = "offer" THEN "offered" ELSE "answered"
GotEvent(kind) == IF kind = "offer" THEN "got_offer" ELSE "got_answer"

\* A peer keeps its call or ends it, it starts, it signals, or asks of itself.
LEMMA RequestStep ==
  ASSUME PeerTypeInv, NEW c \in Clients, StepOf(c), ~Serve(c)
  PROVE  \/ call'[c] = call[c] \/ call'[c].op = "none"
         \/ Start(c) /\ call'[c].op # "signal"
         \/ \E kind \in Kinds : \E remote \in Id :
              SendSignal(c, Task(kind), kind, remote)
         \/ /\ pc[c] = "running" /\ pc'[c] \in {"syncing", "closing"}
            /\ call'[c].op \in {"peer_discover", "teardown"}
<1>1. call \in [Clients -> Call] /\ pc \in [Clients -> Locations]
  BY DEF PeerTypeInv, TypeInv, ServerTypeOK, PeerTypeOK
<1>2. ASSUME TakeReply(c) \/ RequestLost(c) PROVE call'[c].op = "none"
  <2>1. call'[c] = NoCall
    BY <1>1, <1>2 DEF TakeReply, RequestLost
  <2> QED BY <2>1 DEF NoCall
<1>3. ASSUME NEW r, Request(c, r) PROVE call'[c] = r
  BY <1>1, <1>3 DEF Request
<1>4. /\ AdvertiseReq.op = "advertise"
      /\ \A id : /\ PeerListenerReq(id).op = "open_peer_listener"
                 /\ PeerDiscoverReq(id).op = "peer_discover"
                 /\ TeardownReq(id).op = "teardown"
      /\ \A kind, id : ListenerReq(kind, id).op = "open_listener"
  BY DEF AdvertiseReq, PeerListenerReq, PeerDiscoverReq, TeardownReq,
         ListenerReq, NoCall
<1>5. CASE Start(c)
  <2>1. CASE StartPeer(c)
    BY <1>3, <1>4, <1>5, <2>1 DEF StartPeer
  <2>2. CASE Advertised(c)
    BY <1>3, <1>4, <1>5, <2>2 DEF Advertised
  <2>3. CASE PeerListenerOpened(c) \/ OfferListenerOpened(c)
    BY <1>3, <1>4, <1>5, <2>3 DEF PeerListenerOpened, OfferListenerOpened
  <2>4. CASE AnswerListenerOpened(c)
    BY <1>2, <2>4 DEF AnswerListenerOpened
  <2> QED BY <1>5, <2>1, <2>2, <2>3, <2>4 DEF Start
<1>6. CASE StepPeerListener(c)
  <2>1. CASE StepSynchronise(c)
    BY <1>1, <1>3, <1>4, <2>1 DEF StepSynchronise, MoveTo
  <2>2. CASE Synchronised(c)
    BY <1>2, <2>2 DEF Synchronised
  <2>3. CASE StepInitialPeers(c) \/ StepPeerAdded(c) \/ StepPeerRemoved(c)
    BY <2>3 DEF StepInitialPeers, StepPeerAdded, StepPeerRemoved
  <2> QED BY <1>6, <2>1, <2>2, <2>3 DEF StepPeerListener
<1>7. CASE StepSignal(c)
  <2>1. CASE OfferSignalled(c) \/ AnswerSignalled(c) \/ SignalDropped(c)
    BY <1>2, <2>1 DEF OfferSignalled, AnswerSignalled, SignalDropped
  <2>2. CASE \/ \E kind \in Kinds : SkipEmpty(c, kind)
             \/ StepOfferListener(c) \/ StepAnswerListener(c)
    BY <2>2
    DEF SkipEmpty, StepOfferListener, StepAnswerListener, StepListener
  <2> QED BY <1>7, <2>1, <2>2 DEF StepSignal
<1>8. CASE \E remote \in Id : StepCallback(c, remote)
  BY <1>8
  DEF StepCallback, StepCreateOffer, StepReceiveOffer, Task, Kinds,
      StepReceiveAnswer, StepLocalSigCplt, StepRemoteSigCplt, StepCplt,
      serverVars
<1>9. CASE Close(c)
  BY <1>1, <1>3, <1>4, <1>9 DEF Close, MoveTo
<1>10. CASE End(c) \/ Stops(c) \/ Aftermath(c)
  BY <1>2, <1>10
  DEF End, Closed, CallFailed, StepLagged, Stops, Aftermath,
      AbandonedCallReturns, AbandonedCallLost, StreamDropped, serverVars
<1> QED
  BY <1>5, <1>6, <1>7, <1>8, <1>9, <1>10 DEF StepOf, Peer, StepChain

-----------------------------------------------------------------------------
(* A listener is opened once, and the first message is read once.          *)

ListenedTo ==
    \A kind \in Kinds : \A id \in Id : \A c \in listener_tx[kind][id] :
      rx[kind][c] # "none"

Fresh(c) ==
    /\ At(c, "open_listener", "sent") => rx[call[c].kind][c] = "none"
    /\ pc[c] \in {"new", "starting"} \/ call[c].op = "open_peer_listener"
         => first_discovery[c]
    /\ first_discovery[c] => peer_listener[c].first

FreshInv == ListenedTo /\ \A c \in Clients : Fresh(c)

\* Nothing is open at first.
LEMMA FreshInit == Init => FreshInv
  BY DEF Init, ServerInit, PeerInit, NoCall, NoPeerListener, FreshInv, ListenedTo,
         Fresh, At

\* How the receiving half of a listener changes: it opens, and it is dropped.
LEMMA ListenerSteps ==
  ASSUME PeerTypeInv, NEW c \in Clients, StepOf(c)
  PROVE  \/ Serve(c) /\ ListenerOpened(c)
         \/ \E kind \in Kinds : DropListener(c, kind)
         \/ UNCHANGED rx
<1>1. CASE Serve(c)
  BY <1>1
  DEF Serve, Handler, Advertise, FetchAdd, AdvertiseInsert,
      AdvertiseDuplicate, AdvertiseBroadcast, HandleTeardown,
      TeardownBroadcast, TeardownRemove, PeerDiscover, OpenPeerListener,
      PeerListenerSnapshot, PeerListenerSubscribe, OpenListener,
      ListenerRefused, Signal, SignalRejected, SignalAccepted, SignalFull,
      SignalDisconnected
<1>2. CASE ~Serve(c)
  BY <1>2, UnservedStep
  DEF Caller, PeerListenerReader, PeerListenerReaction, SignalReader,
      ReceiveSignal, serverVars
<1> QED BY <1>1, <1>2

\* No listener is ever closed again as if it had never been open.
LEMMA ListenerStays ==
  ASSUME MeshInv, NEW c \in Clients, StepOf(c), NEW d \in Clients,
         NEW kind \in Kinds
  PROVE  /\ rx[kind][d] # "none" => rx'[kind][d] # "none"
         /\ rx[kind][d] = "dropped" /\ FreshInv => rx'[kind][d] = "dropped"
<1>1. PeerTypeInv /\ rx \in [Kinds -> [Clients -> {"none", "open", "dropped"}]]
  BY DEF MeshInv, PeerTypeInv, TypeInv, ServerTypeOK
<1>2. CASE ListenerOpened(c)
  <2>1. call[c].kind \in Kinds
    BY <1>1 DEF PeerTypeInv, TypeInv, ServerTypeOK, Call
  <2>2. At(c, "open_listener", "sent")
    BY <1>2 DEF ListenerOpened
  <2>3. rx'[kind][d] = IF d = c /\ kind = call[c].kind THEN "open" ELSE rx[kind][d]
    BY <1>1, <1>2, <2>1 DEF ListenerOpened
  <2> QED BY <2>2, <2>3 DEF FreshInv, Fresh
<1>3. CASE \E k \in Kinds : DropListener(c, k)
  BY <1>1, <1>3 DEF DropListener
<1>4. CASE UNCHANGED rx
  BY <1>4
<1> QED BY <1>1, <1>2, <1>3, <1>4, ListenerSteps

\* The entry of a listener is made when its channel is.
LEMMA ListenedToStep ==
  ASSUME MeshInv, FreshInv, NEW c \in Clients, StepOf(c)
  PROVE  ListenedTo'
<1> SUFFICES ASSUME NEW kind \in Kinds, NEW id \in Id,
                    NEW d \in listener_tx'[kind][id]
             PROVE  rx'[kind][d] # "none"
  BY DEF ListenedTo
<1>1. /\ PeerTypeInv
      /\ listener_tx \in [Kinds -> [Id -> ListenerSlot]]
      /\ rx \in [Kinds -> [Clients -> {"none", "open", "dropped"}]]
      /\ call[c].kind \in Kinds
  BY DEF MeshInv, PeerTypeInv, TypeInv, ServerTypeOK, Call
<1>2. ASSUME d \in listener_tx[kind][id] PROVE rx'[kind][d] # "none"
  <2>1. d \in Clients
    BY <1>1, <1>2 DEF ListenerSlot
  <2> QED BY <1>2, <2>1, ListenerStays DEF FreshInv, ListenedTo
<1>3. CASE AdvertiseInsert(c) \/ TeardownRemove(c)
  <2>1. id = call[c].id => listener_tx'[kind][id] = {}
    BY <1>1, <1>3, EntryEmptied
  <2>2. id # call[c].id => listener_tx'[kind][id] = listener_tx[kind][id]
    BY <1>1, <1>3, EntryKept
  <2> QED BY <1>2, <2>1, <2>2
<1>4. CASE ListenerOpened(c)
  <2>1. CASE d \in listener_tx[kind][id]
    BY <1>2, <2>1
  <2>2. CASE d \notin listener_tx[kind][id]
    <3>1. id = call[c].id
      BY <1>1, <1>4, <2>2, EntryKept
    <3>2. d = c /\ kind = call[c].kind
      <4>1. \/ kind = call[c].kind /\ listener_tx'[kind][id] = {c}
            \/ listener_tx'[kind][id] = listener_tx[kind][id]
        <5>1. PeerTypeInv /\ call[c].id \in Id
          BY <1>1, <3>1
        <5> QED BY <1>4, <3>1, <5>1, EntryOpened
      <4> QED BY <2>2, <4>1
    <3>3. rx'[kind][d] = "open"
      BY <1>1, <1>4, <3>2 DEF ListenerOpened
    <3> QED BY <3>3
  <2> QED BY <2>1, <2>2
<1>5. CASE UNCHANGED listener_tx
  BY <1>2, <1>5
<1> QED BY <1>3, <1>4, <1>5, DirectorySteps

\* A peer forgets that nothing was discovered yet when it reads a message, and the
\* first message is not read again.
LEMMA FirstStep ==
  ASSUME PeerTypeInv, NEW c \in Clients, StepOf(c)
  PROVE  \/ StepInitialPeers(c)
         \/ StepPeerAdded(c)
         \/ /\ UNCHANGED first_discovery
            /\ peer_listener[c].first => peer_listener'[c].first
<1>1. /\ peer_listener \in [Clients -> PeerListener]
      /\ peer_listener[c] \in PeerListener
  BY DEF PeerTypeInv, TypeInv, ServerTypeOK
<1>2. CASE Serve(c)
  <2>1. UNCHANGED first_discovery
    BY <1>2 DEF Serve, peerVars
  <2>2. CASE PeerListenerSubscribe(c)
    BY <1>1, <2>1, <2>2 DEF PeerListenerSubscribe
  <2>3. CASE UNCHANGED peer_listener
    BY <2>1, <2>3
  <2> QED
    BY <1>2, <2>2, <2>3
    DEF Serve, Handler, Advertise, FetchAdd, AdvertiseInsert,
        AdvertiseDuplicate, AdvertiseBroadcast, HandleTeardown,
        TeardownBroadcast, TeardownRemove, PeerDiscover, OpenPeerListener,
        PeerListenerSnapshot, OpenListener, ListenerOpened, ListenerRefused,
        Signal, SignalRejected, SignalAccepted, SignalFull, SignalDisconnected
<1>3. CASE Start(c)
  BY <1>3
  DEF Start, StartPeer, Advertised, PeerListenerOpened, OfferListenerOpened,
      AnswerListenerOpened, peerVars
<1>4. CASE StepPeerListener(c)
  BY <1>4
  DEF StepPeerListener, StepPeerRemoved, StepSynchronise, Synchronised,
      ReceiveChange
<1>5. CASE StepSignal(c)
  BY <1>5
  DEF StepSignal, SkipEmpty, StepOfferListener, StepAnswerListener,
      StepListener, OfferSignalled, AnswerSignalled, SignalDropped, peerVars
<1>6. CASE \E remote \in Id : StepCallback(c, remote)
  BY <1>6
  DEF StepCallback, StepCreateOffer, StepReceiveOffer, SendSignal,
      StepReceiveAnswer, StepLocalSigCplt, StepRemoteSigCplt, StepCplt,
      serverVars
<1>7. CASE End(c) \/ Close(c) \/ Stops(c) \/ Aftermath(c)
  <2>1. UNCHANGED first_discovery
    BY <1>7
    DEF End, Closed, CallFailed, StepLagged, DropPeer, Close, Stops,
        Aftermath, AbandonedCallReturns, AbandonedCallLost, StreamDropped,
        peerVars
  <2>2. \/ ReceiveLagged(c) \/ DropPeerListener(c)
        \/ UNCHANGED peer_listener
    BY <1>7
    DEF End, Closed, CallFailed, StepLagged, Close, Stops, Aftermath,
        AbandonedCallReturns, AbandonedCallLost, StreamDropped, serverVars
  <2>3. peer_listener[c].first => peer_listener'[c].first
    BY <1>1, <2>2 DEF ReceiveLagged, DropPeerListener, PeerListener
  <2> QED BY <2>1, <2>3
<1> QED
  BY <1>2, <1>3, <1>4, <1>5, <1>6, <1>7 DEF StepOf, Peer, StepChain

\* A peer opens its streams while it starts, and each of them once.
LEMMA OpeningStep ==
  ASSUME PeerTypeInv, NEW c \in Clients, StepOf(c)
  PROVE  /\ At(c, "open_listener", "sent")' =>
              \/ At(c, "open_listener", "sent") /\ call'[c].kind = call[c].kind
              \/ rx[call'[c].kind][c] = "none" /\ UNCHANGED rx
         /\ call'[c].op = "open_peer_listener" =>
              call[c].op = "open_peer_listener" \/ pc[c] = "starting"
<1>1. call \in [Clients -> Call] /\ call[c] \in Call
  BY DEF PeerTypeInv, TypeInv, ServerTypeOK
<1>2. CASE Serve(c)
  <2>1. HandlerTakes(c) /\ HandlerKeeps(c)
    BY <1>2, HandlerEffect DEF Serve, PeerTypeInv, TypeInv
  <2> QED BY <2>1 DEF HandlerTakes, HandlerKeeps, At
<1>3. CASE ~Serve(c)
  <2>1. ASSUME NEW r, Request(c, r), UNCHANGED rx
        PROVE  /\ call'[c] = r
               /\ r.op = "open_listener" => rx[r.kind][c] = "none"
    BY <1>1, <2>1 DEF Request, Unopened
  <2>2. ASSUME TakeReply(c) \/ RequestLost(c) PROVE call'[c].op = "none"
    <3>1. call'[c] = NoCall
      BY <1>1, <2>2 DEF TakeReply, RequestLost
    <3> QED BY <3>1 DEF NoCall
  <2>3. ASSUME At(c, "open_listener", "sent")', call'[c] # call[c]
        PROVE  rx[call'[c].kind][c] = "none" /\ UNCHANGED rx
    <3>1. ~TakeReply(c) /\ ~RequestLost(c)
      BY <2>2, <2>3 DEF At
    <3>2. PICK r \in Requests : Request(c, r) /\ UNCHANGED rx
      BY <1>3, <2>3, <3>1, UnservedStep
      DEF Caller, PeerListenerReader, PeerListenerReaction, SignalReader,
          serverVars
    <3> QED BY <2>1, <2>3, <3>2 DEF At
  <2>4. ASSUME call'[c].op = "open_peer_listener"
        PROVE  call[c].op = "open_peer_listener" \/ pc[c] = "starting"
    <3>1. CASE Start(c)
      <4>1. StartPeer(c) => call'[c] = AdvertiseReq
        BY <1>1 DEF StartPeer, Request
      <4>2. ~StartPeer(c)
        BY <2>4, <4>1 DEF AdvertiseReq, NoCall
      <4> QED
        BY <3>1, <4>2
        DEF Start, Advertised, PeerListenerOpened, OfferListenerOpened,
            AnswerListenerOpened
    <3>2. ASSUME NEW kind \in Kinds, NEW remote \in Id,
                 SendSignal(c, Task(kind), kind, remote)
          PROVE  FALSE
      <4>1. call'[c] = SignalReq(kind, local_id[c], remote)
        BY <1>1, <3>2 DEF SendSignal, Request
      <4> QED BY <2>4, <4>1 DEF SignalReq, NoCall
    <3> QED BY <1>3, <2>4, <3>1, <3>2, RequestStep
  <2> QED BY <2>3, <2>4 DEF At
<1> QED BY <1>2, <1>3

\* The peer that takes a step.
LEMMA FreshStep ==
  ASSUME MeshInv, FreshInv, NEW c \in Clients, StepOf(c)
  PROVE  Fresh(c)'
<1>1. PeerTypeInv /\ ProgramInv /\ Fresh(c)
  BY DEF MeshInv, FreshInv
<1>2. At(c, "open_listener", "sent")' => rx'[call'[c].kind][c] = "none"
  <2>1. SUFFICES ASSUME At(c, "open_listener", "sent")',
                        At(c, "open_listener", "sent"),
                        call'[c].kind = call[c].kind
                 PROVE  rx'[call[c].kind][c] = "none"
    BY <1>1, OpeningStep
  <2>2. rx[call[c].kind][c] = "none"
    BY <1>1, <2>1 DEF Fresh
  <2>3. CASE Serve(c)
    BY <1>1, <2>1, <2>3, HandlerEffect
    DEF Serve, HandlerTakes, At, PeerTypeInv, TypeInv
  <2>4. CASE \E kind \in Kinds : DropListener(c, kind)
    <3>1. PICK kind \in Kinds : DropListener(c, kind)
      BY <2>4
    <3>2. kind # call[c].kind
      BY <2>2, <3>1 DEF DropListener
    <3>3. rx \in [Kinds -> [Clients -> {"none", "open", "dropped"}]]
      BY <1>1 DEF PeerTypeInv, TypeInv, ServerTypeOK
    <3>4. call[c].kind \in Kinds
      BY <1>1 DEF PeerTypeInv, TypeInv, ServerTypeOK, Call
    <3> QED BY <2>2, <3>1, <3>2, <3>3, <3>4 DEF DropListener
  <2> QED BY <1>1, <2>2, <2>3, <2>4, ListenerSteps
<1>3. first_discovery \in [Clients -> BOOLEAN]
  BY <1>1 DEF PeerTypeInv, PeerTypeOK
<1>4. pc'[c] \in {"new", "starting"} \/ call'[c].op = "open_peer_listener"
        => first_discovery'[c]
  <2>1. SUFFICES ASSUME \/ pc'[c] \in {"new", "starting"}
                        \/ call'[c].op = "open_peer_listener"
                 PROVE  first_discovery'[c]
    OBVIOUS
  <2>2. \/ pc[c] \in {"new", "starting"}
        \/ call[c].op = "open_peer_listener"
    BY <1>1, <2>1, StartingStep, OpeningStep
  <2>3. pc[c] # "running" /\ first_discovery[c]
    BY <1>1, <2>2 DEF Fresh, ProgramInv, CallFits
  <2> QED
    BY <1>1, <2>3, FirstStep DEF StepInitialPeers, StepPeerAdded
<1>5. first_discovery'[c] => peer_listener'[c].first
  <2>1. CASE StepInitialPeers(c) \/ StepPeerAdded(c)
    BY <1>3, <2>1 DEF StepInitialPeers, StepPeerAdded
  <2> QED BY <1>1, <2>1, FirstStep DEF Fresh
<1> QED BY <1>2, <1>4, <1>5 DEF Fresh

\* Every step keeps them in order.
LEMMA FreshNext ==
  ASSUME MeshInv, FreshInv, NEW c \in Clients, StepOf(c)
  PROVE  FreshInv'
<1>1. ASSUME NEW d \in Clients \ {c} PROVE Fresh(d)'
  <2>1. KeptPeer(d) /\ Fresh(d)
    BY OthersKept DEF MeshInv, FreshInv
  <2>2. call[d].kind \in Kinds
    BY DEF MeshInv, PeerTypeInv, TypeInv, ServerTypeOK, Call
  <2> QED BY <2>1, <2>2 DEF KeptPeer, Fresh, At
<1> QED BY <1>1, FreshStep, ListenedToStep DEF FreshInv

-----------------------------------------------------------------------------
(* The steps of the chains, and what a step leaves of any peer.            *)

\* What a step does to the queued callbacks and to the history.
LEMMA ChainSteps ==
  ASSUME PeerTypeInv, FreshInv, NEW c \in Clients, StepOf(c)
  PROVE  \/ StepInitialPeers(c)
         \/ \E kind \in Kinds :
              StepListener(c, kind, HeardTask(kind), GotEvent(kind))
         \/ \E kind \in Kinds : \E remote \in Id :
              SendSignal(c, Task(kind), kind, remote)
         \/ OfferSignalled(c) \/ AnswerSignalled(c)
         \/ \E remote \in Id : \/ StepReceiveAnswer(c, remote)
                               \/ StepLocalSigCplt(c, remote)
                               \/ StepRemoteSigCplt(c, remote)
         \/ pending'[c] \subseteq pending[c] /\ UNCHANGED chain
<1>1. pending \in [Clients -> SUBSET (Tasks \X Id)]
  BY DEF PeerTypeInv, PeerTypeOK
<1>2. CASE Serve(c)
  BY <1>2 DEF Serve, peerVars
<1>3. CASE Start(c)
  BY <1>3
  DEF Start, StartPeer, Advertised, PeerListenerOpened, OfferListenerOpened,
      AnswerListenerOpened, peerVars
<1>4. CASE StepPeerListener(c)
  <2>1. CASE StepPeerAdded(c)
    <3>1. ~first_discovery[c]
      BY <2>1 DEF StepPeerAdded, ReceiveChange, FreshInv, Fresh
    <3> QED BY <1>1, <2>1, <3>1 DEF StepPeerAdded, FirstOffers
  <2> QED
    BY <1>4, <2>1
    DEF StepPeerListener, StepPeerRemoved, StepSynchronise, Synchronised
<1>5. CASE StepSignal(c)
  <2>1. CASE StepOfferListener(c) \/ StepAnswerListener(c)
    BY <2>1
    DEF StepOfferListener, StepAnswerListener, Kinds, HeardTask, GotEvent
  <2>2. CASE (\E kind \in Kinds : SkipEmpty(c, kind)) \/ SignalDropped(c)
    BY <2>2 DEF SkipEmpty, SignalDropped, peerVars
  <2> QED BY <1>5, <2>1, <2>2 DEF StepSignal
<1>6. CASE \E remote \in Id : StepCallback(c, remote)
  BY <1>6 DEF StepCallback, StepCreateOffer, StepReceiveOffer, Task, Kinds
<1>7. CASE End(c) \/ Close(c) \/ Stops(c) \/ Aftermath(c)
  BY <1>1, <1>7
  DEF End, Closed, CallFailed, StepLagged, DropPeer, Close, Stops,
      Aftermath, AbandonedCallReturns, AbandonedCallLost, StreamDropped,
      peerVars
<1> QED
  BY <1>2, <1>3, <1>4, <1>5, <1>6, <1>7 DEF StepOf, Peer, StepChain

Grows(d) ==
    /\ chain[d] \subseteq chain'[d]
    /\ first_discovery'[d] => first_discovery[d]
    /\ ~first_discovery[d] => peer_listener'[d].initial = peer_listener[d].initial
    /\ pc[d] = "gone" => pc'[d] = "gone"
    /\ local_id[d] # None => local_id'[d] = local_id[d]

\* What a peer has done stays done, and what it is to go by stays.
LEMMA Growing ==
  ASSUME MeshInv, FreshInv, NEW c \in Clients, StepOf(c), NEW d \in Clients
  PROVE  Grows(d)
<1>1. PeerTypeInv /\ ProgramInv
  BY DEF MeshInv
<1>2. local_id[d] # None => local_id'[d] = local_id[d]
  BY <1>1, LocalIdStep
<1>3. CASE d # c
  BY <1>1, <1>2, <1>3, OthersKept DEF KeptPeer, Grows
<1>4. CASE d = c
  <2>1. chain[c] \subseteq chain'[c]
    <3>1. chain \in [Clients -> SUBSET (Events \X Id)]
      BY <1>1 DEF PeerTypeInv, PeerTypeOK
    <3> QED
      BY <1>1, <3>1, ChainSteps
      DEF StepInitialPeers, StepListener, SendSignal, OfferSignalled,
          AnswerSignalled, StepReceiveAnswer, StepLocalSigCplt,
          StepRemoteSigCplt, StepCplt, Record
  <2>2. first_discovery'[c] => first_discovery[c]
    <3>1. first_discovery \in [Clients -> BOOLEAN]
      BY <1>1 DEF PeerTypeInv, PeerTypeOK
    <3> QED BY <1>1, <3>1, FirstStep DEF StepInitialPeers, StepPeerAdded
  <2>3. ~first_discovery[c] =>
          peer_listener'[c].initial = peer_listener[c].initial
    <3>1. /\ peer_listener \in [Clients -> PeerListener]
          /\ peer_listener[c] \in PeerListener
      BY <1>1 DEF PeerTypeInv, TypeInv, ServerTypeOK
    <3>2. CASE PeerListenerSubscribe(c)
      BY <3>2 DEF PeerListenerSubscribe, At, FreshInv, Fresh
    <3>3. CASE \/ ReceiveInitial(c) \/ ReceiveChange(c)
               \/ ReceiveLagged(c) \/ DropPeerListener(c)
      BY <3>1, <3>3
      DEF ReceiveInitial, ReceiveChange, ReceiveLagged, DropPeerListener,
          PeerListener
    <3> QED BY <1>1, <3>2, <3>3, PeerListenerSteps
  <2>4. pc[c] = "gone" => pc'[c] = "gone"
    <3>1. SUFFICES ASSUME pc[c] = "gone" PROVE pc'[c] = "gone"
      OBVIOUS
    <3>2. Serve(c) \/ Aftermath(c)
      BY <3>1
      DEF StepOf, Peer, Start, StartPeer, Advertised, PeerListenerOpened,
          OfferListenerOpened, AnswerListenerOpened, StepPeerListener,
          StepInitialPeers, StepPeerAdded, StepPeerRemoved, StepSynchronise,
          Synchronised, StepChain, StepSignal, SkipEmpty, StepOfferListener,
          StepAnswerListener, StepListener, OfferSignalled, AnswerSignalled,
          SignalDropped, StepCallback, StepCreateOffer, StepReceiveOffer,
          SendSignal, StepReceiveAnswer, StepLocalSigCplt, StepRemoteSigCplt,
          StepCplt, Finish, End, Closed, CallFailed, StepLagged, Close,
          Stops
    <3> QED
      BY <3>1, <3>2
      DEF Serve, Aftermath, AbandonedCallReturns, AbandonedCallLost,
          StreamDropped, peerVars
  <2> QED BY <1>2, <1>4, <2>1, <2>2, <2>3, <2>4 DEF Grows
<1> QED BY <1>3, <1>4

-----------------------------------------------------------------------------
(* A signal on its way from c to a remote peer: its callback is queued, the *)
(* server is asked to forward it, or has replied that it did.              *)

Queued(c, kind, remote) == <<Task(kind), remote>> \in pending[c]

Signalling(c, kind, remote) ==
    call[c].op = "signal" /\ call[c].kind = kind /\ call[c].id = remote

Sending(c, kind, remote) ==
    Signalling(c, kind, remote) /\ call[c].at = "sent"

Acked(c, kind, remote) ==
    /\ Signalling(c, kind, remote)
    /\ call[c].at = "replied" /\ call[c].status = "ok"

Acknowledged(c, kind, remote) ==
    Acked(c, kind, remote) \/ Has(c, SentEvent(kind), remote)

\* What becomes of the call that carries a signal.
LEMMA SignalCall ==
  ASSUME MeshInv, NEW c \in Clients, StepOf(c), NEW kind \in Kinds,
         NEW remote \in Id
  PROVE  /\ Signalling(c, kind, remote)' =>
              \/ Signalling(c, kind, remote)
              \/ SendSignal(c, Task(kind), kind, remote)
         /\ Sending(c, kind, remote)' =>
              \/ Sending(c, kind, remote) /\ ~SignalAccepted(c)
              \/ SendSignal(c, Task(kind), kind, remote)
         /\ Acked(c, kind, remote)' =>
              \/ Acked(c, kind, remote)
              \/ SignalAccepted(c) /\ Sending(c, kind, remote)
         /\ SignalAccepted(c) /\ Sending(c, kind, remote)
              => Acked(c, kind, remote)'
<1>1. PeerTypeInv /\ ProgramInv
  BY DEF MeshInv
<1>2. CASE Handler(c)
  <2>1. HandlerTakes(c) /\ HandlerKeeps(c)
    BY <1>1, <1>2, HandlerEffect DEF PeerTypeInv, TypeInv
  <2>2. FetchAdd(c) => call[c].op = "advertise"
    BY DEF FetchAdd, At
  <2>3. /\ Signalling(c, kind, remote)' => Signalling(c, kind, remote)
        /\ call'[c].at # "sent"
    BY <2>1, <2>2 DEF HandlerKeeps, HandlerTakes, Signalling
  <2>4. Acked(c, kind, remote)' =>
          SignalAccepted(c) /\ Sending(c, kind, remote)
    <3>1. SUFFICES ASSUME Acked(c, kind, remote)'
                   PROVE  SignalAccepted(c) /\ Sending(c, kind, remote)
      OBVIOUS
    <3>2. Signalling(c, kind, remote)
      BY <2>3, <3>1 DEF Acked
    <3>3. SignalAccepted(c)
      <4>1. call[c].op = "signal" /\ call'[c].at = "replied"
            /\ call'[c].status = "ok"
        BY <3>1, <3>2 DEF Acked, Signalling
      <4>2. TeardownRemove(c) => call'[c].status = "failed_precondition"
        <5>1. call \in [Clients -> Call] /\ call[c] \in Call
          BY <1>1 DEF PeerTypeInv, TypeInv, ServerTypeOK
        <5>2. TeardownRemove(c) => Reply(c, "failed_precondition")
          BY <4>1 DEF TeardownRemove
        <5> QED BY <5>1, <5>2 DEF Reply, Call
      <4> QED
        BY <2>1, <4>1, <4>2
        DEF HandlerTakes, AdvertiseBroadcast, PeerDiscover,
            PeerListenerSubscribe, ListenerOpened, At
    <3> QED BY <3>2, <3>3 DEF SignalAccepted, Sending, At
  <2>5. SignalAccepted(c) /\ Sending(c, kind, remote)
          => Acked(c, kind, remote)'
    <3>1. SUFFICES ASSUME SignalAccepted(c), Sending(c, kind, remote)
                   PROVE  Acked(c, kind, remote)'
      OBVIOUS
    <3>2. call \in [Clients -> Call] /\ call[c] \in Call
      BY <1>1 DEF PeerTypeInv, TypeInv, ServerTypeOK
    <3>3. call'[c] = [call[c] EXCEPT !.at = "replied", !.status = "ok"]
      BY <3>1, <3>2 DEF SignalAccepted, Reply
    <3> QED BY <3>1, <3>2, <3>3 DEF Acked, Sending, Signalling, Call
  <2> QED BY <2>3, <2>4, <2>5 DEF Sending
<1>3. CASE ~Handler(c)
  <2>1. ~Serve(c) /\ ~SignalAccepted(c)
    BY <1>3 DEF Serve, Handler, Signal
  <2>2. ASSUME call'[c].op # "signal" \/ call'[c] = call[c]
        PROVE  /\ Signalling(c, kind, remote)' => Signalling(c, kind, remote)
               /\ Sending(c, kind, remote)' => Sending(c, kind, remote)
               /\ Acked(c, kind, remote)' => Acked(c, kind, remote)
    BY <2>2 DEF Sending, Acked, Signalling
  <2>3. ASSUME NEW k \in Kinds, NEW r \in Id, SendSignal(c, Task(k), k, r),
               Signalling(c, kind, remote)'
        PROVE  k = kind /\ r = remote /\ ~Acked(c, kind, remote)'
    <3>1. call'[c] = SignalReq(k, local_id[c], r)
      BY <1>1, <2>3
      DEF SendSignal, Request, PeerTypeInv, TypeInv, ServerTypeOK
    <3> QED BY <2>3, <3>1 DEF SignalReq, NoCall, Signalling, Acked
  <2> QED
    BY <1>1, <2>1, <2>2, <2>3, RequestStep DEF Sending, Acked
<1> QED BY <1>2, <1>3

\* The reply to a signal waits for the step that takes it, or its peer ends.
LEMMA AckedStep ==
  ASSUME MeshInv, NEW c \in Clients, StepOf(c), NEW kind \in Kinds,
         NEW remote \in Id, Acked(c, kind, remote)
  PROVE  \/ Acked(c, kind, remote)'
         \/ pc'[c] = "gone"
         \/ OfferSignalled(c) /\ kind = "offer"
         \/ AnswerSignalled(c) /\ kind = "answer"
<1>1. PeerTypeInv /\ ProgramInv
  BY DEF MeshInv
<1>2. /\ call[c].op = "signal" /\ call[c].at = "replied"
      /\ call[c].status = "ok" /\ call[c].kind = kind
  BY DEF Acked, Signalling
<1>3. pc[c] \in {"stepping", "gone"}
  BY <1>1, <1>2
  DEF ProgramInv, CallFits, PeerTypeInv, PeerTypeOK, Locations
<1>4. pc \in [Clients -> Locations]
  BY <1>1 DEF PeerTypeInv, PeerTypeOK
<1>5. ~Serve(c)
  BY <1>2
  DEF Serve, Handler, Advertise, FetchAdd, AdvertiseInsert,
      AdvertiseDuplicate, AdvertiseBroadcast, HandleTeardown,
      TeardownBroadcast, TeardownRemove, PeerDiscover, OpenPeerListener,
      PeerListenerSnapshot, PeerListenerSubscribe, OpenListener,
      ListenerOpened, ListenerRefused, Signal, SignalRejected,
      SignalAccepted, SignalFull, SignalDisconnected, At
<1>6. ~Start(c) /\ ~StepPeerListener(c) /\ ~Close(c)
  BY <1>3
  DEF Start, StartPeer, Advertised, PeerListenerOpened, OfferListenerOpened,
      AnswerListenerOpened, StepPeerListener, StepInitialPeers,
      StepPeerAdded, StepPeerRemoved, StepSynchronise, Synchronised, Close
<1>7. CASE StepChain(c)
  BY <1>2, <1>3, <1>7
  DEF StepChain, StepSignal, SkipEmpty, StepOfferListener,
      StepAnswerListener, StepListener, OfferSignalled, AnswerSignalled,
      SignalDropped, Returned, StepCallback, StepCreateOffer,
      StepReceiveOffer, SendSignal, StepReceiveAnswer, StepLocalSigCplt,
      StepRemoteSigCplt, StepCplt, Finish
<1>8. CASE End(c) \/ Stops(c)
  BY <1>4, <1>8
  DEF End, Closed, CallFailed, StepLagged, Stops, DropPeer, MoveTo
<1>9. CASE Aftermath(c)
  BY <1>9
  DEF Aftermath, AbandonedCallReturns, AbandonedCallLost, StreamDropped,
      peerVars
<1> QED BY <1>5, <1>6, <1>7, <1>8, <1>9 DEF StepOf, Peer

-----------------------------------------------------------------------------
(* What a step does to a queue.                                            *)

Heard(c, kind) == StepListener(c, kind, HeardTask(kind), GotEvent(kind))

\* Only these touch a queue.
LEMMA SignalSteps ==
  ASSUME NEW c \in Clients, StepOf(c)
  PROVE  \/ SignalAccepted(c)
         \/ ListenerOpened(c)
         \/ \E kind \in Kinds : SkipEmpty(c, kind) \/ Heard(c, kind)
         \/ \E kind \in Kinds : DropListener(c, kind)
         \/ UNCHANGED queue
<1>1. CASE Serve(c)
  BY <1>1
  DEF Serve, Handler, Advertise, FetchAdd, AdvertiseInsert,
      AdvertiseDuplicate, AdvertiseBroadcast, HandleTeardown,
      TeardownBroadcast, TeardownRemove, PeerDiscover, OpenPeerListener,
      PeerListenerSnapshot, PeerListenerSubscribe, OpenListener,
      ListenerRefused, Signal, SignalRejected, SignalFull, SignalDisconnected
<1>2. CASE Start(c)
  BY <1>2
  DEF Start, StartPeer, Advertised, PeerListenerOpened, OfferListenerOpened,
      AnswerListenerOpened, channelVars
<1>3. CASE StepPeerListener(c)
  BY <1>3
  DEF StepPeerListener, StepInitialPeers, StepPeerAdded, StepPeerRemoved,
      StepSynchronise, Synchronised, channelVars
<1>4. CASE StepSignal(c)
  <2>1. CASE StepOfferListener(c) \/ StepAnswerListener(c)
    BY <2>1
    DEF StepOfferListener, StepAnswerListener, Heard, HeardTask, GotEvent, Kinds
  <2> QED
    BY <1>4, <2>1
    DEF StepSignal, OfferSignalled, AnswerSignalled, SignalDropped, channelVars
<1>5. CASE \E remote \in Id : StepCallback(c, remote)
  BY <1>5
  DEF StepCallback, StepCreateOffer, StepReceiveOffer, SendSignal,
      StepReceiveAnswer, StepLocalSigCplt, StepRemoteSigCplt, StepCplt,
      serverVars, channelVars
<1>6. CASE End(c) \/ Close(c) \/ Stops(c) \/ Aftermath(c)
  BY <1>6
  DEF End, Closed, CallFailed, StepLagged, Close, Stops, Aftermath,
      AbandonedCallReturns, AbandonedCallLost, StreamDropped, serverVars,
      channelVars
<1> QED
  BY <1>1, <1>2, <1>3, <1>4, <1>5, <1>6 DEF StepOf, Peer, StepChain

\* What the types say of the queues.
LEMMA QueueTypes ==
  ASSUME PeerTypeInv, NEW kind \in Kinds, NEW d \in Clients
  PROVE  /\ queue \in [Kinds -> [Clients -> Seq(Id \cup {None})]]
         /\ queue[kind][d] \in Seq(Id \cup {None})
         /\ rx \in [Kinds -> [Clients -> {"none", "open", "dropped"}]]
         /\ call[d].kind \in Kinds
  BY DEF PeerTypeInv, TypeInv, ServerTypeOK, Call

\* A forwarded signal goes to the peer it names, from the one that sent it.
Delivered(c, kind, d) ==
    /\ SignalAccepted(c)
    /\ Sending(c, kind, local_id[d])
    /\ local_id[c] \in Id /\ local_id[d] \in Id
    /\ rx[kind][d] = "open"
    /\ queue'[kind][d] = Append(queue[kind][d], local_id[c])

Taken(c, kind, d) ==
    /\ d = c
    /\ queue[kind][d] # <<>>
    /\ queue'[kind][d] = Tail(queue[kind][d])
    /\ \/ Head(queue[kind][d]) = None /\ SkipEmpty(c, kind)
       \/ Head(queue[kind][d]) # None /\ Heard(c, kind)

\* The server accepts a signal for the one listener of its target.
LEMMA AcceptedDelivers ==
  ASSUME MeshInv, FreshInv, NEW c \in Clients, SignalAccepted(c)
  PROVE  \E d \in Clients :
           /\ Delivered(c, call[c].kind, d)
           /\ \A kind \in Kinds : \A e \in Clients :
                kind # call[c].kind \/ e # d => queue'[kind][e] = queue[kind][e]
<1>1. PeerTypeInv /\ ProgramInv /\ ListenerOwners /\ ListenedTo
  BY DEF MeshInv, RegisteredInv, FreshInv
<1>2. /\ listener_tx \in [Kinds -> [Id -> ListenerSlot]]
      /\ peers \subseteq Id
      /\ call[c].kind \in Kinds
  BY <1>1 DEF PeerTypeInv, TypeInv, ServerTypeOK, Call
<1>3. PICK d \in Target(c) :
        /\ ~Disconnected(call[c].kind, d)
        /\ queue' = [queue EXCEPT ![call[c].kind][d] = Append(@, Forwarded(c))]
  BY DEF SignalAccepted
<1>4. call[c].id \in Id /\ d \in listener_tx[call[c].kind][call[c].id]
  BY <1>2, <1>3 DEF Target
<1>5. d \in Clients
  BY <1>2, <1>4 DEF ListenerSlot
<1>6. local_id[d] = call[c].id
  BY <1>1, <1>2, <1>4, <1>5 DEF ListenerOwners
<1>7. rx[call[c].kind][d] = "open"
  <2>1. rx[call[c].kind][d] \in {"none", "open", "dropped"}
    BY <1>1, <1>2, <1>5, QueueTypes
  <2> QED
    BY <1>1, <1>2, <1>3, <1>4, <1>5, <2>1 DEF ListenedTo, Disconnected
<1>8. call[c].from = local_id[c] /\ local_id[c] \in Id
  BY <1>1 DEF SignalAccepted, At, ProgramInv, OwnName
<1>9. queue \in [Kinds -> [Clients -> Seq(Id \cup {None})]]
  BY <1>1, <1>2, <1>5, QueueTypes
<1>10. queue'[call[c].kind][d] = Append(queue[call[c].kind][d], local_id[c])
  BY <1>2, <1>3, <1>5, <1>8, <1>9 DEF Forwarded
<1>11. \A kind \in Kinds : \A e \in Clients :
         kind # call[c].kind \/ e # d => queue'[kind][e] = queue[kind][e]
  BY <1>2, <1>3, <1>5, <1>9
<1>12. Sending(c, call[c].kind, local_id[d])
  BY <1>6 DEF SignalAccepted, At, Sending, Signalling
<1> QED
  BY <1>4, <1>5, <1>6, <1>7, <1>8, <1>10, <1>11, <1>12 DEF Delivered

\* What a step does to the queues: a signal is delivered, or taken.
LEMMA QueueStep ==
  ASSUME MeshInv, FreshInv, NEW c \in Clients, StepOf(c), NEW kind \in Kinds,
         NEW d \in Clients
  PROVE  \/ queue'[kind][d] = queue[kind][d]
         \/ Delivered(c, kind, d)
         \/ /\ rx[kind][d] = "none" /\ rx'[kind][d] = "open"
            /\ queue'[kind][d] = <<None>>
         \/ rx'[kind][d] = "dropped" /\ queue'[kind][d] = <<>>
         \/ Taken(c, kind, d)
<1>1. /\ queue \in [Kinds -> [Clients -> Seq(Id \cup {None})]]
      /\ rx \in [Kinds -> [Clients -> {"none", "open", "dropped"}]]
      /\ call[c].kind \in Kinds
  BY QueueTypes DEF MeshInv
<1>2. CASE SignalAccepted(c)
  BY <1>2, AcceptedDelivers
<1>3. CASE ListenerOpened(c)
  <2>1. rx[call[c].kind][c] = "none"
    BY <1>3 DEF ListenerOpened, FreshInv, Fresh
  <2> QED BY <1>1, <1>3, <2>1 DEF ListenerOpened
<1>4. CASE \E k \in Kinds : SkipEmpty(c, k) \/ Heard(c, k)
  <2>1. PICK k \in Kinds : SkipEmpty(c, k) \/ Heard(c, k)
    BY <1>4
  <2>2. ReceiveSignal(c, k)
    BY <2>1 DEF SkipEmpty, Heard, StepListener
  <2>3. CASE k = kind /\ d = c
    <3>1. queue[kind][d] # <<>> /\ queue'[kind][d] = Tail(queue[kind][d])
      BY <1>1, <2>2, <2>3 DEF ReceiveSignal
    <3>2. \/ Head(queue[kind][d]) = None /\ SkipEmpty(c, kind)
          \/ Head(queue[kind][d]) # None /\ Heard(c, kind)
      BY <2>1, <2>3 DEF SkipEmpty, Heard, StepListener, IsEmpty
    <3> QED BY <2>3, <3>1, <3>2 DEF Taken
  <2>4. CASE k # kind \/ d # c
    BY <1>1, <2>2, <2>4 DEF ReceiveSignal
  <2> QED BY <2>3, <2>4
<1>5. CASE \E k \in Kinds : DropListener(c, k)
  BY <1>1, <1>5 DEF DropListener
<1> QED BY <1>2, <1>3, <1>4, <1>5, SignalSteps

-----------------------------------------------------------------------------
(* What a step adds to a peer's history and to its callbacks.              *)

\* Why an event was added to the history.
LEMMA NewEvent ==
  ASSUME MeshInv, FreshInv, NEW c \in Clients, StepOf(c), NEW d \in Clients,
         NEW event, NEW remote,
         Has(d, event, remote)', ~Has(d, event, remote)
  PROVE  /\ d = c
         /\ \/ \E kind \in Kinds : /\ Heard(c, kind) /\ event = GotEvent(kind)
                                   /\ remote = Head(queue[kind][c])
            \/ OfferSignalled(c) /\ event = "offered" /\ remote = call[c].id
            \/ AnswerSignalled(c) /\ event = "answered" /\ remote = call[c].id
            \/ StepLocalSigCplt(c, remote) /\ event = "local_cplt"
            \/ StepRemoteSigCplt(c, remote) /\ event = "remote_cplt"
<1>1. PeerTypeInv /\ chain \in [Clients -> SUBSET (Events \X Id)]
  BY DEF MeshInv, PeerTypeInv, PeerTypeOK
<1>2. d = c
  BY <1>1, OthersKept DEF KeptPeer, Has
<1>3. ASSUME NEW e, NEW r, Record(c, e, r) PROVE event = e /\ remote = r
  <2>1. chain'[c] = chain[c] \cup {<<e, r>>}
    BY <1>1, <1>3 DEF Record
  <2> QED BY <1>2, <2>1 DEF Has
<1>4. CASE \E kind \in Kinds : Heard(c, kind)
  <2>1. PICK kind \in Kinds : Heard(c, kind)
    BY <1>4
  <2>2. Record(c, GotEvent(kind), Head(queue[kind][c]))
    BY <2>1 DEF Heard, StepListener
  <2> QED BY <1>2, <1>3, <2>1, <2>2
<1>5. CASE OfferSignalled(c) \/ AnswerSignalled(c)
  BY <1>2, <1>3, <1>5 DEF OfferSignalled, AnswerSignalled
<1>6. CASE \E r \in Id : StepLocalSigCplt(c, r) \/ StepRemoteSigCplt(c, r)
  BY <1>2, <1>3, <1>6 DEF StepLocalSigCplt, StepRemoteSigCplt, StepCplt
<1>7. UNCHANGED chain => FALSE
  BY DEF Has
<1> QED
  BY <1>1, <1>4, <1>5, <1>6, <1>7, ChainSteps
  DEF Heard, StepInitialPeers, SendSignal, StepReceiveAnswer

\* Why a callback was queued.
LEMMA NewTask ==
  ASSUME MeshInv, FreshInv, NEW c \in Clients, StepOf(c), NEW d \in Clients,
         NEW task, NEW remote,
         <<task, remote>> \in pending'[d], <<task, remote>> \notin pending[d]
  PROVE  /\ d = c
         /\ \/ /\ StepInitialPeers(c) /\ first_discovery[c]
               /\ task = "create_offer" /\ remote \in peer_listener[c].initial
            \/ \E kind \in Kinds : /\ Heard(c, kind) /\ task = HeardTask(kind)
                                   /\ remote = Head(queue[kind][c])
            \/ /\ AnswerSignalled(c)
               /\ task = "remote_sig_cplt" /\ remote = call[c].id
            \/ StepReceiveAnswer(c, remote) /\ task = "local_sig_cplt"
<1>1. PeerTypeInv /\ pending \in [Clients -> SUBSET (Tasks \X Id)]
  BY DEF MeshInv, PeerTypeInv, PeerTypeOK
<1>2. d = c
  BY <1>1, OthersKept DEF KeptPeer
<1>3. CASE StepInitialPeers(c)
  <2>1. pending'[c] =
          pending[c] \cup FirstOffers(c, peer_listener[c].initial)
    BY <1>1, <1>3 DEF StepInitialPeers
  <2> QED BY <1>2, <1>3, <2>1 DEF FirstOffers
<1>4. CASE \E kind \in Kinds : Heard(c, kind)
  <2>1. PICK kind \in Kinds : Heard(c, kind)
    BY <1>4
  <2>2. pending'[c] =
          pending[c] \cup {<<HeardTask(kind), Head(queue[kind][c])>>}
    BY <1>1, <2>1 DEF Heard, StepListener
  <2> QED BY <1>2, <2>1, <2>2
<1>5. CASE AnswerSignalled(c)
  <2>1. pending'[c] = pending[c] \cup {<<"remote_sig_cplt", call[c].id>>}
    BY <1>1, <1>5 DEF AnswerSignalled
  <2> QED BY <1>2, <1>5, <2>1
<1>6. CASE \E r \in Id : StepReceiveAnswer(c, r)
  <2>1. PICK r \in Id : StepReceiveAnswer(c, r)
    BY <1>6
  <2>2. pending'[c] = (pending[c] \ {<<"receive_answer", r>>})
                        \cup {<<"local_sig_cplt", r>>}
    BY <1>1, <2>1 DEF StepReceiveAnswer, Dequeued
  <2> QED BY <1>2, <2>1, <2>2
<1>7. pending'[c] \subseteq pending[c] => FALSE
  BY <1>2
<1>8. CASE \/ \E kind \in Kinds : \E r \in Id : SendSignal(c, Task(kind), kind, r)
           \/ \E r \in Id : StepLocalSigCplt(c, r) \/ StepRemoteSigCplt(c, r)
  BY <1>1, <1>7, <1>8
  DEF SendSignal, StepLocalSigCplt, StepRemoteSigCplt, StepCplt, Dequeued
<1>9. CASE OfferSignalled(c)
  BY <1>7, <1>9 DEF OfferSignalled
<1> QED
  BY <1>1, <1>3, <1>4, <1>5, <1>6, <1>7, <1>8, <1>9, ChainSteps DEF Heard

\* A peer that signals hears nothing until it has the reply.
LEMMA SignallingWaits ==
  ASSUME MeshInv, NEW c \in Clients, pc[c] = "running",
         NEW kind, NEW remote
  PROVE  ~Signalling(c, kind, remote)
  BY DEF MeshInv, ProgramInv, CallFits, Signalling

-----------------------------------------------------------------------------
(* A peer signals what it has a reason for: an offer, to a peer it found in *)
(* its first message; an answer, to a peer it has an offer from.           *)

Allowed(c, kind, remote) ==
    IF kind = "offer"
      THEN ~first_discovery[c] /\ remote \in peer_listener[c].initial
      ELSE Has(c, "got_offer", remote)

Signals(c, kind, remote) ==
    \/ Queued(c, kind, remote)
    \/ Signalling(c, kind, remote)
    \/ Has(c, SentEvent(kind), remote)

ReasonFor(c, kind, remote) ==
    /\ Signals(c, kind, remote) => Allowed(c, kind, remote)
    /\ Signalling(c, kind, remote) => ~Queued(c, kind, remote)

ReasonsInv ==
    \A c \in Clients : \A kind \in Kinds : \A remote \in Id :
      ReasonFor(c, kind, remote)

\* There is nothing yet to have a reason for.
LEMMA ReasonsInit == Init => ReasonsInv
  BY DEF Init, ServerInit, PeerInit, NoCall, ReasonsInv, ReasonFor, Signals,
         Queued, Signalling, Has

\* A reason remains one.
LEMMA AllowedStays ==
  ASSUME NEW c, Grows(c), NEW kind, NEW remote, Allowed(c, kind, remote)
  PROVE  Allowed(c, kind, remote)'
  BY DEF Grows, Allowed, Has

\* Whatever a step queues or records has its reason.
LEMMA ReasonsStep ==
  ASSUME MeshInv, FreshInv, ReasonsInv, NEW c \in Clients, StepOf(c),
         NEW d \in Clients, NEW kind \in Kinds, NEW remote \in Id
  PROVE  ReasonFor(d, kind, remote)'
<1>1. Grows(d) /\ ReasonFor(d, kind, remote)
  BY Growing DEF ReasonsInv
<1>2. Allowed(d, kind, remote) => Allowed(d, kind, remote)'
  BY <1>1, AllowedStays
<1>3. Kinds = {"offer", "answer"} /\ PeerTypeInv
  BY DEF Kinds, MeshInv
<1>4. ASSUME Queued(d, kind, remote)', ~Queued(d, kind, remote)
      PROVE  Allowed(d, kind, remote)' /\ d = c /\ pc[c] = "running" /\ UNCHANGED call
  <2>1. d = c
    BY <1>4, NewTask DEF Queued
  <2>2. CASE /\ StepInitialPeers(c) /\ first_discovery[c]
             /\ Task(kind) = "create_offer"
             /\ remote \in peer_listener[c].initial
    <3>1. kind = "offer"
      BY <1>3, <2>2 DEF Task
    <3>2. first_discovery'[c] = FALSE
      BY <1>3, <2>2 DEF StepInitialPeers, PeerTypeInv, PeerTypeOK
    <3>3. peer_listener'[c].initial = peer_listener[c].initial
      <4>1. /\ peer_listener \in [Clients -> PeerListener]
            /\ peer_listener[c] \in PeerListener
        BY <1>3 DEF PeerTypeInv, TypeInv, ServerTypeOK
      <4> QED
        BY <2>2, <4>1 DEF StepInitialPeers, ReceiveInitial, PeerListener
    <3> QED BY <2>1, <2>2, <3>1, <3>2, <3>3 DEF Allowed, StepInitialPeers
  <2>3. ASSUME NEW k \in Kinds, Heard(c, k), Task(kind) = HeardTask(k),
               remote = Head(queue[k][c])
        PROVE  Allowed(d, kind, remote)' /\ pc[c] = "running" /\ UNCHANGED call
    <3>1. kind = "answer" /\ k = "offer"
      BY <1>3, <2>3 DEF Task, HeardTask
    <3>2. chain'[c] = chain[c] \cup {<<"got_offer", remote>>}
      BY <1>3, <2>3, <3>1
      DEF Heard, StepListener, Record, GotEvent, PeerTypeInv, PeerTypeOK
    <3> QED BY <2>1, <2>3, <3>1, <3>2 DEF Allowed, Has, Heard, StepListener
  <2>4. Task(kind) \notin {"remote_sig_cplt", "local_sig_cplt"}
    BY DEF Task
  <2> QED BY <1>4, <2>1, <2>2, <2>3, <2>4, NewTask DEF Queued
<1>5. ASSUME Signalling(d, kind, remote)', ~Signalling(d, kind, remote)
      PROVE  Queued(d, kind, remote) /\ ~Queued(d, kind, remote)'
  <2>1. d = c
    BY <1>3, <1>5, OthersKept DEF KeptPeer, Signalling
  <2>2. SendSignal(c, Task(kind), kind, remote)
    BY <1>5, <2>1, SignalCall
  <2> QED
    BY <1>3, <2>1, <2>2
    DEF SendSignal, Finish, Dequeued, Queued, PeerTypeInv, PeerTypeOK
<1>6. ASSUME Has(d, SentEvent(kind), remote)', ~Has(d, SentEvent(kind), remote)
      PROVE  Signalling(d, kind, remote)
  <2>1. SentEvent(kind) \notin {"local_cplt", "remote_cplt"}
        /\ \A k \in Kinds : SentEvent(kind) # GotEvent(k)
    BY <1>3 DEF SentEvent, GotEvent
  <2>2. /\ d = c
        /\ \/ OfferSignalled(c) /\ SentEvent(kind) = "offered"
              /\ remote = call[c].id
           \/ AnswerSignalled(c) /\ SentEvent(kind) = "answered"
              /\ remote = call[c].id
    BY <1>6, <2>1, NewEvent
  <2> QED
    BY <1>3, <2>2
    DEF OfferSignalled, AnswerSignalled, SentEvent, Returned, Signalling
<1>7. Signalling(d, kind, remote)' => ~Queued(d, kind, remote)'
  <2>1. SUFFICES ASSUME Signalling(d, kind, remote)', Queued(d, kind, remote)'
                 PROVE  FALSE
    OBVIOUS
  <2>2. Signalling(d, kind, remote) /\ ~Queued(d, kind, remote)
    BY <1>1, <1>5, <2>1 DEF ReasonFor
  <2> QED BY <1>4, <2>1, <2>2, SignallingWaits
<1>8. Signals(d, kind, remote)' => Allowed(d, kind, remote)'
  BY <1>1, <1>2, <1>4, <1>5, <1>6 DEF ReasonFor, Signals
<1> QED BY <1>7, <1>8 DEF ReasonFor

-----------------------------------------------------------------------------
(* What has arrived at a peer: it is in the queue of its listener, or heard. *)

Arrived(kind, c, remote) ==
    In(queue[kind][c], remote) \/ Has(c, GotEvent(kind), remote)

\* A peer is known by its identifier.
LEMMA LocalIdAlone ==
  ASSUME MeshInv, NEW a \in Clients, NEW b \in Clients,
         local_id[a] \in Id, local_id[a] = local_id[b]
  PROVE  a = b
<1>1. Own(a) = local_id[a] /\ Own(b) = local_id[b] /\ local_id[a] # None
  BY ModulusPositive DEF MeshInv, ProgramInv, OwnName, Own, Id, None
<1> QED BY <1>1 DEF MeshInv, OwnAlone

\* Signals arrive one by one, and what arrived is heard or still there.
LEMMA ArrivedStep ==
  ASSUME MeshInv, FreshInv, NEW c \in Clients, StepOf(c), NEW kind \in Kinds,
         NEW d \in Clients, NEW remote \in Id
  PROVE  /\ Arrived(kind, d, remote)' =>
              \/ Arrived(kind, d, remote)
              \/ Delivered(c, kind, d) /\ remote = local_id[c]
         /\ Arrived(kind, d, remote)
              /\ rx[kind][d] = "open" /\ rx'[kind][d] = "open"
              => Arrived(kind, d, remote)'
         /\ Delivered(c, kind, d) => Arrived(kind, d, local_id[c])'
<1> DEFINE q == queue[kind][d]
<1>1. PeerTypeInv /\ q \in Seq(Id \cup {None}) /\ remote # None
  BY QueueTypes, ModulusPositive DEF MeshInv, Id, None
<1>2. Has(d, GotEvent(kind), remote) => Has(d, GotEvent(kind), remote)'
  BY Growing DEF Grows, Has
<1>3. ASSUME Has(d, GotEvent(kind), remote)', ~Has(d, GotEvent(kind), remote)
      PROVE  In(q, remote)
  <2>1. GotEvent(kind) \notin {"offered", "answered", "local_cplt", "remote_cplt"}
        /\ \A k \in Kinds : GotEvent(k) = GotEvent(kind) => k = kind
    BY DEF GotEvent, Kinds
  <2>2. d = c /\ Heard(c, kind) /\ remote = Head(q)
    BY <1>3, <2>1, NewEvent
  <2>3. q # <<>>
    BY <2>2 DEF Heard, StepListener, ReceiveSignal
  <2> QED BY <1>1, <2>2, <2>3, InTail
<1>4. CASE queue'[kind][d] = q
  BY <1>2, <1>3, <1>4 DEF Arrived, Delivered
<1>5. CASE Delivered(c, kind, d)
  <2>1. /\ queue'[kind][d] = Append(q, local_id[c])
        /\ local_id[c] \in Id \cup {None}
    BY <1>5 DEF Delivered
  <2>2. \A x : In(queue'[kind][d], x) <=> In(q, x) \/ x = local_id[c]
    BY <1>1, <2>1, InAppend
  <2>3. local_id'[c] = local_id[c]
    BY <1>5, Growing, ModulusPositive DEF Grows, Delivered, Id, None
  <2> QED BY <1>2, <1>3, <1>5, <2>2, <2>3 DEF Arrived
<1>6. CASE rx[kind][d] = "none" /\ queue'[kind][d] = <<None>>
  <2>1. ~In(queue'[kind][d], remote)
    BY <1>1, <1>6, InNew
  <2> QED BY <1>3, <1>5, <1>6, <2>1 DEF Arrived
<1>7. CASE rx'[kind][d] = "dropped" /\ queue'[kind][d] = <<>>
  <2>1. ~In(queue'[kind][d], remote)
    BY <1>7, InNew
  <2> QED BY <1>3, <1>5, <1>7, <2>1 DEF Arrived
<1>8. CASE Taken(c, kind, d)
  <2>1. /\ d = c /\ q # <<>> /\ queue'[kind][d] = Tail(q)
        /\ Head(q) = None \/ Heard(c, kind)
    BY <1>8 DEF Taken
  <2>2. \A x : In(q, x) <=> In(queue'[kind][d], x) \/ x = Head(q)
    BY <1>1, <2>1, InTail
  <2>3. remote = Head(q) => Has(d, GotEvent(kind), remote)'
    <3>1. SUFFICES ASSUME remote = Head(q), Heard(c, kind)
                   PROVE  Has(c, GotEvent(kind), remote)'
      BY <1>1, <2>1
    <3>2. chain'[c] = chain[c] \cup {<<GotEvent(kind), remote>>}
      BY <1>1, <2>1, <3>1
      DEF Heard, StepListener, Record, PeerTypeInv, PeerTypeOK
    <3> QED BY <3>2 DEF Has
  <2> QED BY <1>2, <1>3, <1>5, <2>2, <2>3 DEF Arrived
<1> QED BY <1>4, <1>5, <1>6, <1>7, <1>8, QueueStep

-----------------------------------------------------------------------------
(* The invariants.                                                         *)

ToSend(c, kind, remote) == Queued(c, kind, remote) \/ Sending(c, kind, remote)

ArrivesOnceAt(kind, c) ==
    /\ Once(queue[kind][c])
    /\ \A remote \in Id :
         In(queue[kind][c], remote) => ~Has(c, GotEvent(kind), remote)

ArrivesOnce ==
    \A kind \in Kinds : \A c \in Clients : ArrivesOnceAt(kind, c)

\* a sent b a signal, and will not send it again.
Sent(a, kind, b) ==
    /\ ~ToSend(a, kind, local_id[b])
    /\ Allowed(a, kind, local_id[b])
    /\ Acknowledged(a, kind, local_id[b]) \/ pc[a] = "gone"

CameFrom(kind, b, remote) ==
    /\ local_id[b] \in Id
    /\ \E a \in Clients : local_id[a] = remote /\ Sent(a, kind, b)

ArrivedWasSent ==
    \A kind \in Kinds : \A b \in Clients : \A remote \in Id :
      Arrived(kind, b, remote) => CameFrom(kind, b, remote)

\* Only a peer that drops its listener misses what was acknowledged.
Reaches(a, kind, b) ==
    /\ rx[kind][b] # "none"
    /\ rx[kind][b] = "open" => Arrived(kind, b, local_id[a])

WentTo(a, kind, remote) ==
    /\ local_id[a] \in Id
    /\ \E b \in Clients : local_id[b] = remote /\ Reaches(a, kind, b)

AcknowledgedArrives ==
    \A a \in Clients : \A kind \in Kinds : \A remote \in Id :
      Acknowledged(a, kind, remote) => WentTo(a, kind, remote)

\* What a peer does for a remote peer comes in this order.
InOrder(c, remote) ==
    /\ (\/ <<"receive_answer", remote>> \in pending[c]
        \/ <<"local_sig_cplt", remote>> \in pending[c]
        \/ Has(c, "local_cplt", remote))
         => Has(c, "got_answer", remote)
    /\ Has(c, "got_answer", remote) => Has(c, "offered", remote)
    /\ (\/ <<"remote_sig_cplt", remote>> \in pending[c]
        \/ Has(c, "remote_cplt", remote))
         => Has(c, "answered", remote)

ChainOrderInv == \A c \in Clients : \A remote \in Id : InOrder(c, remote)

ChainInv ==
    /\ FreshInv
    /\ ReasonsInv
    /\ ArrivesOnce
    /\ ArrivedWasSent
    /\ AcknowledgedArrives
    /\ ChainOrderInv

\* Nothing was sent at first.
LEMMA ChainInit == Init => ChainInv
<1> SUFFICES ASSUME Init PROVE ChainInv
  OBVIOUS
<1>1. FreshInv /\ ReasonsInv
  BY FreshInit, ReasonsInit
<1>2. /\ \A kind \in Kinds : \A c \in Clients : queue[kind][c] = <<>>
      /\ \A c \in Clients : chain[c] = {} /\ pending[c] = {} /\ call[c] = NoCall
  BY DEF Init, ServerInit, PeerInit
<1>3. \A c \in Clients : \A event, remote : ~Has(c, event, remote)
  BY <1>2 DEF Has
<1>4. \A kind \in Kinds : \A c \in Clients : \A remote :
        ~Arrived(kind, c, remote) /\ ArrivesOnceAt(kind, c)
  BY <1>2, <1>3, InNew DEF Arrived, ArrivesOnceAt
<1>5. \A kind \in Kinds : \A c \in Clients : \A remote :
        ~Acknowledged(c, kind, remote)
  BY <1>2, <1>3 DEF Acknowledged, Acked, Signalling, NoCall
<1>6. ChainOrderInv
  BY <1>2, <1>3 DEF ChainOrderInv, InOrder
<1> QED
  BY <1>1, <1>4, <1>5, <1>6
  DEF ChainInv, ArrivesOnce, ArrivedWasSent, AcknowledgedArrives

-----------------------------------------------------------------------------
(* Each step keeps them.                                                   *)

\* A peer that heard something new took it from the front of its queue.
LEMMA HeardStep ==
  ASSUME MeshInv, FreshInv, NEW c \in Clients, StepOf(c), NEW kind \in Kinds,
         NEW d \in Clients, NEW remote,
         Has(d, GotEvent(kind), remote)', ~Has(d, GotEvent(kind), remote)
  PROVE  /\ d = c /\ Heard(c, kind) /\ pc[c] = "running"
         /\ queue[kind][d] # <<>> /\ remote = Head(queue[kind][d])
         /\ queue'[kind][d] = Tail(queue[kind][d])
<1>1. GotEvent(kind) \notin {"offered", "answered", "local_cplt", "remote_cplt"}
      /\ \A k \in Kinds : GotEvent(k) = GotEvent(kind) => k = kind
  BY DEF GotEvent, Kinds
<1>2. d = c /\ Heard(c, kind) /\ remote = Head(queue[kind][d])
  BY <1>1, NewEvent
<1>3. ReceiveSignal(c, kind) /\ pc[c] = "running"
  BY <1>2 DEF Heard, StepListener
<1>4. queue \in [Kinds -> [Clients -> Seq(Id \cup {None})]]
  BY QueueTypes DEF MeshInv
<1> QED BY <1>2, <1>3, <1>4 DEF ReceiveSignal

\* What is being delivered has not arrived yet.
LEMMA DeliveredOnce ==
  ASSUME MeshInv, ArrivedWasSent, NEW c \in Clients, NEW kind \in Kinds,
         NEW d \in Clients, Delivered(c, kind, d)
  PROVE  ~Arrived(kind, d, local_id[c])
<1> SUFFICES ASSUME Arrived(kind, d, local_id[c]) PROVE FALSE
  OBVIOUS
<1>1. local_id[c] \in Id /\ Sending(c, kind, local_id[d])
  BY DEF Delivered
<1>2. PICK a \in Clients : local_id[a] = local_id[c] /\ Sent(a, kind, d)
  BY <1>1 DEF ArrivedWasSent, CameFrom
<1>3. a = c
  BY <1>1, <1>2, LocalIdAlone
<1> QED BY <1>1, <1>2, <1>3 DEF Sent, ToSend

\* No step delivers a signal again.
LEMMA ArrivesOnceStep ==
  ASSUME MeshInv, ChainInv, NEW c \in Clients, StepOf(c), NEW kind \in Kinds,
         NEW d \in Clients
  PROVE  ArrivesOnceAt(kind, d)'
<1> DEFINE q == queue[kind][d]
<1>1. /\ FreshInv /\ ArrivedWasSent /\ ArrivesOnceAt(kind, d)
      /\ q \in Seq(Id \cup {None})
  BY QueueTypes DEF ChainInv, ArrivesOnce, MeshInv
<1>2. CASE queue'[kind][d] = q
  <2>1. ASSUME NEW remote \in Id, In(q, remote), Has(d, GotEvent(kind), remote)'
        PROVE  FALSE
    <3>1. ~Has(d, GotEvent(kind), remote)
      BY <1>1, <2>1 DEF ArrivesOnceAt
    <3>2. q # <<>> /\ remote = Head(q) /\ q = Tail(q)
      BY <1>1, <1>2, <2>1, <3>1, HeardStep
    <3>3. Head(q) # None
      BY <3>2, ModulusPositive DEF Id, None
    <3>4. ~In(Tail(q), Head(q))
      BY <1>1, <3>2, <3>3, InTail DEF ArrivesOnceAt
    <3> QED BY <2>1, <3>2, <3>4
  <2> QED BY <1>1, <1>2, <2>1 DEF ArrivesOnceAt
<1>3. CASE Delivered(c, kind, d)
  <2>1. /\ queue'[kind][d] = Append(q, local_id[c])
        /\ local_id[c] \in Id /\ Sending(c, kind, local_id[d])
    BY <1>3 DEF Delivered
  <2>2. ~In(q, local_id[c]) /\ ~Has(d, GotEvent(kind), local_id[c])
    BY <1>1, <1>3, DeliveredOnce DEF Arrived
  <2>3. /\ \A x : In(queue'[kind][d], x) <=> In(q, x) \/ x = local_id[c]
        /\ Once(queue'[kind][d])
    BY <1>1, <2>1, <2>2, InAppend DEF ArrivesOnceAt
  <2>4. \A remote : Has(d, GotEvent(kind), remote)'
                      => Has(d, GotEvent(kind), remote)
    BY <1>1, <2>1, HeardStep, SignallingWaits DEF Sending
  <2> QED BY <1>1, <2>2, <2>3, <2>4 DEF ArrivesOnceAt
<1>4. CASE queue'[kind][d] \in {<<None>>, <<>>}
  <2>1. \A remote \in Id : ~In(queue'[kind][d], remote)
    BY <1>4, InNew, ModulusPositive DEF Id, None
  <2>2. Once(queue'[kind][d])
    BY <1>4, InNew
  <2> QED BY <2>1, <2>2 DEF ArrivesOnceAt
<1>5. CASE Taken(c, kind, d)
  <2>1. q # <<>> /\ queue'[kind][d] = Tail(q)
    BY <1>5 DEF Taken
  <2>2. /\ \A x : In(q, x) <=> In(queue'[kind][d], x) \/ x = Head(q)
        /\ Once(queue'[kind][d])
        /\ Head(q) # None => ~In(queue'[kind][d], Head(q))
    BY <1>1, <2>1, InTail DEF ArrivesOnceAt
  <2>3. ASSUME NEW remote \in Id, In(queue'[kind][d], remote),
               Has(d, GotEvent(kind), remote)'
        PROVE  FALSE
    <3>1. ~Has(d, GotEvent(kind), remote)
      BY <1>1, <2>2, <2>3 DEF ArrivesOnceAt
    <3>2. remote = Head(q)
      BY <1>1, <2>3, <3>1, HeardStep
    <3> QED BY <2>2, <2>3, <3>2, ModulusPositive DEF Id, None
  <2> QED BY <2>2, <2>3 DEF ArrivesOnceAt
<1> QED BY <1>1, <1>2, <1>3, <1>4, <1>5, QueueStep

\* An acknowledged signal stays so, unless its sender ends before it knows.
LEMMA AcknowledgedStays ==
  ASSUME MeshInv, FreshInv, NEW c \in Clients, StepOf(c), NEW a \in Clients,
         NEW kind \in Kinds, NEW remote \in Id, Acknowledged(a, kind, remote)
  PROVE  Acknowledged(a, kind, remote)' \/ pc'[a] = "gone"
<1>1. PeerTypeInv /\ chain \in [Clients -> SUBSET (Events \X Id)]
  BY DEF MeshInv, PeerTypeInv, PeerTypeOK
<1>2. CASE Has(a, SentEvent(kind), remote)
  BY <1>2, Growing DEF Grows, Has, Acknowledged
<1>3. CASE Acked(a, kind, remote) /\ a # c
  BY <1>1, <1>3, OthersKept DEF KeptPeer, Acked, Signalling, Acknowledged
<1>4. CASE Acked(a, kind, remote) /\ a = c
  <2>1. CASE OfferSignalled(c) /\ kind = "offer"
    <3>1. chain'[c] = chain[c] \cup {<<"offered", remote>>}
      BY <1>1, <1>4, <2>1 DEF OfferSignalled, Record, Acked, Signalling
    <3> QED BY <1>4, <2>1, <3>1 DEF Has, SentEvent, Acknowledged
  <2>2. CASE AnswerSignalled(c) /\ kind = "answer"
    <3>1. chain'[c] = chain[c] \cup {<<"answered", remote>>}
      BY <1>1, <1>4, <2>2 DEF AnswerSignalled, Record, Acked, Signalling
    <3> QED BY <1>4, <2>2, <3>1 DEF Has, SentEvent, Acknowledged
  <2> QED BY <1>4, <2>1, <2>2, AckedStep DEF Acknowledged
<1> QED BY <1>2, <1>3, <1>4 DEF Acknowledged

\* A signal is acknowledged when it is delivered.
LEMMA AcknowledgedStep ==
  ASSUME MeshInv, FreshInv, NEW c \in Clients, StepOf(c), NEW a \in Clients,
         NEW kind \in Kinds, NEW remote \in Id, Acknowledged(a, kind, remote)'
  PROVE  \/ Acknowledged(a, kind, remote)
         \/ a = c /\ SignalAccepted(c) /\ Sending(c, kind, remote)
<1>1. PeerTypeInv /\ Kinds = {"offer", "answer"}
  BY DEF MeshInv, Kinds
<1>2. CASE Acked(a, kind, remote)'
  <2>1. CASE a = c
    BY <1>2, <2>1, SignalCall DEF Acknowledged
  <2>2. CASE a # c
    BY <1>1, <1>2, <2>2, OthersKept
    DEF KeptPeer, Acked, Signalling, Acknowledged
  <2> QED BY <2>1, <2>2
<1>3. ASSUME Has(a, SentEvent(kind), remote)', ~Has(a, SentEvent(kind), remote)
      PROVE  Acked(a, kind, remote)
  <2>1. SentEvent(kind) \notin {"local_cplt", "remote_cplt"}
        /\ \A k \in Kinds : SentEvent(kind) # GotEvent(k)
    BY <1>1 DEF SentEvent, GotEvent
  <2>2. /\ a = c
        /\ \/ OfferSignalled(c) /\ SentEvent(kind) = "offered"
              /\ remote = call[c].id
           \/ AnswerSignalled(c) /\ SentEvent(kind) = "answered"
              /\ remote = call[c].id
    BY <1>3, <2>1, NewEvent
  <2> QED
    BY <1>1, <2>2
    DEF OfferSignalled, AnswerSignalled, SentEvent, Returned, Signalling, Acked
<1> QED BY <1>2, <1>3 DEF Acknowledged

\* What was sent is not sent again.
LEMMA SentStays ==
  ASSUME MeshInv, ChainInv, NEW c \in Clients, StepOf(c), NEW a \in Clients,
         NEW kind \in Kinds, NEW b \in Clients, local_id[b] \in Id,
         Sent(a, kind, b)
  PROVE  Sent(a, kind, b)'
<1> DEFINE remote == local_id[b]
<1>1. FreshInv /\ PeerTypeInv /\ Kinds = {"offer", "answer"}
  BY DEF ChainInv, MeshInv, Kinds
<1>2. Grows(a) /\ Grows(b)
  BY <1>1, Growing
<1>3. local_id'[b] = remote
  BY <1>2, ModulusPositive DEF Grows, Id, None
<1>4. /\ ~Queued(a, kind, remote) /\ ~Sending(a, kind, remote)
      /\ Allowed(a, kind, remote)
      /\ Acknowledged(a, kind, remote) \/ pc[a] = "gone"
  BY DEF Sent, ToSend
<1>5. ~Queued(a, kind, remote)'
  <2>1. SUFFICES ASSUME <<Task(kind), remote>> \in pending'[a] PROVE FALSE
    BY <1>3 DEF Queued
  <2>2. /\ a = c
        /\ \/ /\ StepInitialPeers(c) /\ first_discovery[c]
              /\ Task(kind) = "create_offer"
           \/ \E k \in Kinds : /\ Heard(c, k) /\ Task(kind) = HeardTask(k)
                               /\ remote = Head(queue[k][c])
    <3>1. Task(kind) \notin {"remote_sig_cplt", "local_sig_cplt"}
      BY DEF Task
    <3> QED BY <1>1, <1>4, <2>1, <3>1, NewTask DEF Queued
  <2>3. CASE first_discovery[c] /\ Task(kind) = "create_offer"
    BY <1>1, <1>4, <2>2, <2>3 DEF Task, Allowed
  <2>4. CASE \E k \in Kinds : /\ Heard(c, k) /\ Task(kind) = HeardTask(k)
                              /\ remote = Head(queue[k][c])
    <3>1. PICK k \in Kinds : /\ Heard(c, k) /\ Task(kind) = HeardTask(k)
                             /\ remote = Head(queue[k][c])
      BY <2>4
    <3>2. k = "offer" /\ kind = "answer"
      BY <1>1, <3>1 DEF Task, HeardTask
    <3>3. queue[k][c] # <<>> /\ queue[k][c] \in Seq(Id \cup {None})
      BY <1>1, <3>1, QueueTypes DEF Heard, StepListener, ReceiveSignal
    <3>4. In(queue[k][c], remote)
      BY <3>1, <3>3, InTail
    <3>5. ~Has(c, "got_offer", remote)
      BY <3>2, <3>4 DEF ChainInv, ArrivesOnce, ArrivesOnceAt, GotEvent
    <3> QED BY <1>4, <2>2, <3>2, <3>5 DEF Allowed
  <2> QED BY <2>2, <2>3, <2>4
<1>6. ~Sending(a, kind, remote)'
  <2>1. CASE a = c
    <3>1. SendSignal(c, Task(kind), kind, remote) => Queued(c, kind, remote)
      BY DEF SendSignal, Finish, Queued
    <3>2. call'[c].op = "signal" /\ call'[c].kind = kind
          /\ call'[c].id = remote /\ call'[c].at = "sent" => FALSE
      BY <1>4, <2>1, <3>1, SignalCall DEF Sending, Signalling
    <3> QED BY <1>3, <2>1, <3>2 DEF Sending, Signalling
  <2>2. CASE a # c
    BY <1>1, <1>3, <1>4, <2>2, OthersKept DEF KeptPeer, Sending, Signalling
  <2> QED BY <2>1, <2>2
<1>7. Allowed(a, kind, remote)'
  BY <1>2, <1>3, <1>4 DEF Grows, Allowed, Has
<1>8. Acknowledged(a, kind, remote)' \/ pc'[a] = "gone"
  <2>1. CASE pc[a] = "gone"
    BY <1>2, <2>1 DEF Grows
  <2>2. ASSUME NEW r \in Id, r = remote, Acknowledged(a, kind, r)
        PROVE  Acknowledged(a, kind, r)' \/ pc'[a] = "gone"
    BY <1>1, <2>2, AcknowledgedStays
  <2>3. CASE Acknowledged(a, kind, remote)
    BY <1>3, <2>2, <2>3 DEF Acknowledged, Acked, Signalling, Has
  <2> QED BY <1>4, <2>1, <2>3
<1> QED BY <1>3, <1>5, <1>6, <1>7, <1>8 DEF Sent, ToSend

\* What a step delivers was sent.
LEMMA ArrivedWasSentStep ==
  ASSUME MeshInv, ChainInv, NEW c \in Clients, StepOf(c), NEW kind \in Kinds,
         NEW b \in Clients, NEW remote \in Id, Arrived(kind, b, remote)'
  PROVE  CameFrom(kind, b, remote)'
<1>1. FreshInv /\ None \notin Id
  BY ModulusPositive DEF ChainInv, Id, None
<1>2. \A d \in Clients : local_id[d] \in Id => local_id'[d] = local_id[d]
  BY <1>1, Growing DEF Grows
<1>3. CASE Arrived(kind, b, remote)
  <2>1. CameFrom(kind, b, remote)
    BY <1>3 DEF ChainInv, ArrivedWasSent
  <2>2. PICK a \in Clients : local_id[a] = remote /\ Sent(a, kind, b)
    BY <2>1 DEF CameFrom
  <2>3. Sent(a, kind, b)' /\ local_id[b] \in Id
    BY <2>1, <2>2, SentStays DEF CameFrom
  <2> QED BY <1>2, <2>2, <2>3 DEF CameFrom
<1>4. CASE Delivered(c, kind, b) /\ remote = local_id[c]
  <2>1. /\ SignalAccepted(c) /\ Sending(c, kind, local_id[b])
        /\ local_id[c] \in Id /\ local_id[b] \in Id
        /\ local_id'[c] = local_id[c] /\ local_id'[b] = local_id[b]
    BY <1>2, <1>4 DEF Delivered
  <2>2. ASSUME NEW r \in Id, Sending(c, kind, r)
        PROVE  /\ ~Queued(c, kind, r)' /\ ~Sending(c, kind, r)'
               /\ Allowed(c, kind, r)' /\ Acknowledged(c, kind, r)'
    <3>1. Acked(c, kind, r)'
      BY <2>1, <2>2, SignalCall
    <3>2. Signalling(c, kind, r)' /\ ~Sending(c, kind, r)'
      BY <3>1 DEF Acked, Sending
    <3>3. ReasonFor(c, kind, r)'
      BY <1>1, ReasonsStep DEF ChainInv
    <3> QED BY <3>1, <3>2, <3>3 DEF ReasonFor, Signals, Acknowledged
  <2>3. /\ ~Queued(c, kind, local_id[b])' /\ ~Sending(c, kind, local_id[b])'
        /\ Allowed(c, kind, local_id[b])' /\ Acknowledged(c, kind, local_id[b])'
    <3>1. PICK r \in Id : r = local_id[b]
      BY <2>1
    <3>2. /\ ~Queued(c, kind, r)' /\ ~Sending(c, kind, r)'
          /\ Allowed(c, kind, r)' /\ Acknowledged(c, kind, r)'
      BY <2>1, <2>2, <3>1
    <3> QED
      BY <2>1, <3>1, <3>2
      DEF Queued, Sending, Signalling, Allowed, Acknowledged, Acked, Has
  <2>4. Sent(c, kind, b)'
    BY <2>3 DEF Sent, ToSend
  <2> QED BY <1>4, <2>1, <2>4 DEF CameFrom
<1> QED BY <1>1, <1>3, <1>4, ArrivedStep

\* What a step acknowledges was delivered, and stays so.
LEMMA AcknowledgedArrivesStep ==
  ASSUME MeshInv, ChainInv, NEW c \in Clients, StepOf(c), NEW a \in Clients,
         NEW kind \in Kinds, NEW remote \in Id, Acknowledged(a, kind, remote)'
  PROVE  WentTo(a, kind, remote)'
<1>1. FreshInv /\ None \notin Id
  BY ModulusPositive DEF ChainInv, Id, None
<1>2. \A d \in Clients : local_id[d] \in Id => local_id'[d] = local_id[d]
  BY <1>1, Growing DEF Grows
<1>3. CASE Acknowledged(a, kind, remote)
  <2>1. WentTo(a, kind, remote)
    BY <1>3 DEF ChainInv, AcknowledgedArrives
  <2>2. PICK b \in Clients : local_id[b] = remote /\ Reaches(a, kind, b)
    BY <2>1 DEF WentTo
  <2>3. local_id[a] \in Id /\ local_id'[a] = local_id[a]
    BY <1>2, <2>1 DEF WentTo
  <2>4. rx'[kind][b] # "none"
    BY <2>2, ListenerStays DEF Reaches
  <2>5. ASSUME rx'[kind][b] = "open" PROVE Arrived(kind, b, local_id[a])'
    <3>1. rx[kind][b] = "open"
      <4>1. rx[kind][b] \in {"none", "open", "dropped"}
        BY QueueTypes DEF MeshInv
      <4> QED BY <1>1, <2>2, <2>5, <4>1, ListenerStays DEF Reaches
    <3>2. PICK r \in Id : r = local_id[a]
      BY <2>3
    <3>3. Arrived(kind, b, r)'
      BY <1>1, <2>2, <2>5, <3>1, <3>2, ArrivedStep DEF Reaches
    <3> QED BY <2>3, <3>2, <3>3 DEF Arrived, Has
  <2>6. Reaches(a, kind, b)'
    BY <2>4, <2>5 DEF Reaches
  <2> QED BY <1>2, <2>2, <2>3, <2>6 DEF WentTo
<1>4. CASE a = c /\ SignalAccepted(c) /\ Sending(c, kind, remote)
  <2>1. PICK b \in Clients : Delivered(c, call[c].kind, b)
    BY <1>1, <1>4, AcceptedDelivers
  <2>2. call[c].kind = kind /\ local_id[b] = remote
    BY <1>4, <2>1 DEF Delivered, Sending, Signalling
  <2>3. Delivered(c, kind, b) /\ local_id[c] \in Id /\ rx[kind][b] = "open"
    BY <2>1, <2>2 DEF Delivered
  <2>4. Arrived(kind, b, local_id[c])'
    BY <1>1, <2>2, <2>3, ArrivedStep
  <2>5. rx'[kind][b] # "none"
    BY <2>3, ListenerStays
  <2>6. Reaches(c, kind, b)'
    BY <2>4, <2>5 DEF Reaches
  <2> QED BY <1>2, <1>4, <2>2, <2>3, <2>6 DEF WentTo
<1> QED BY <1>1, <1>3, <1>4, AcknowledgedStep

\* An answer comes from the peer that was offered, once the offer's sender is
\* back in its loop.
LEMMA AnswerWasOffered ==
  ASSUME MeshInv, ChainInv, NEW c \in Clients, NEW remote \in Id,
         Arrived("answer", c, remote), pc[c] = "running"
  PROVE  Has(c, "offered", remote)
<1>1. "answer" \in Kinds /\ "offer" \in Kinds
  BY DEF Kinds
<1>2. CameFrom("answer", c, remote)
  BY <1>1 DEF ChainInv, ArrivedWasSent
<1>3. PICK a \in Clients : local_id[a] = remote /\ Sent(a, "answer", c)
  BY <1>2 DEF CameFrom
<1>4. local_id[c] \in Id /\ Arrived("offer", a, local_id[c])
  BY <1>2, <1>3 DEF CameFrom, Sent, Allowed, Arrived, GotEvent
<1>5. CameFrom("offer", a, local_id[c])
  BY <1>1, <1>4 DEF ChainInv, ArrivedWasSent
<1>6. PICK b \in Clients : local_id[b] = local_id[c] /\ Sent(b, "offer", a)
  BY <1>5 DEF CameFrom
<1>7. b = c
  BY <1>4, <1>6, LocalIdAlone
<1>8. ~Acked(c, "offer", remote)
  BY SignallingWaits DEF Acked
<1> QED
  BY <1>3, <1>6, <1>7, <1>8 DEF Sent, Acknowledged, SentEvent

\* A chain advances in its order.
LEMMA ChainOrderStep ==
  ASSUME MeshInv, ChainInv, NEW c \in Clients, StepOf(c), NEW d \in Clients,
         NEW remote \in Id
  PROVE  InOrder(d, remote)'
<1>1. FreshInv /\ InOrder(d, remote) /\ PeerTypeInv /\ Kinds = {"offer", "answer"}
  BY DEF ChainInv, ChainOrderInv, MeshInv, Kinds
<1>2. \A event : Has(d, event, remote) => Has(d, event, remote)'
  BY <1>1, Growing DEF Grows, Has
<1>3. chain \in [Clients -> SUBSET (Events \X Id)]
  BY <1>1 DEF PeerTypeInv, PeerTypeOK
<1>4. ASSUME Has(d, "got_answer", remote)', ~Has(d, "got_answer", remote)
      PROVE  Has(d, "offered", remote)
  <2>1. /\ d = c /\ pc[c] = "running"
        /\ queue["answer"][d] # <<>> /\ remote = Head(queue["answer"][d])
    BY <1>1, <1>4, HeardStep DEF GotEvent
  <2>2. queue["answer"][d] \in Seq(Id \cup {None})
    BY <1>1, QueueTypes
  <2>3. In(queue["answer"][d], remote)
    BY <2>1, <2>2, InTail
  <2> QED BY <2>1, <2>3, AnswerWasOffered DEF Arrived
<1>5. ASSUME <<"receive_answer", remote>> \in pending'[d],
             <<"receive_answer", remote>> \notin pending[d]
      PROVE  Has(d, "got_answer", remote)'
  <2>1. PICK kind \in Kinds : /\ d = c /\ Heard(c, kind)
                              /\ "receive_answer" = HeardTask(kind)
                              /\ remote = Head(queue[kind][c])
    BY <1>1, <1>5, NewTask
  <2>2. kind = "answer"
    BY <1>1, <2>1 DEF HeardTask
  <2>3. chain'[c] = chain[c] \cup {<<"got_answer", remote>>}
    BY <1>3, <2>1, <2>2 DEF Heard, StepListener, Record, GotEvent
  <2> QED BY <2>1, <2>3 DEF Has
<1>6. ASSUME <<"local_sig_cplt", remote>> \in pending'[d],
             <<"local_sig_cplt", remote>> \notin pending[d]
      PROVE  Has(d, "got_answer", remote)
  <2>1. d = c /\ StepReceiveAnswer(c, remote)
    BY <1>1, <1>6, NewTask DEF HeardTask
  <2> QED BY <1>1, <2>1 DEF StepReceiveAnswer, Finish, InOrder
<1>7. ASSUME Has(d, "local_cplt", remote)', ~Has(d, "local_cplt", remote)
      PROVE  Has(d, "got_answer", remote)
  <2>1. d = c /\ StepLocalSigCplt(c, remote)
    BY <1>1, <1>7, NewEvent DEF GotEvent
  <2> QED BY <1>1, <2>1 DEF StepLocalSigCplt, StepCplt, Finish, InOrder
<1>8. ASSUME <<"remote_sig_cplt", remote>> \in pending'[d],
             <<"remote_sig_cplt", remote>> \notin pending[d]
      PROVE  Has(d, "answered", remote)'
  <2>1. d = c /\ AnswerSignalled(c) /\ remote = call[c].id
    BY <1>1, <1>8, NewTask DEF HeardTask
  <2>2. chain'[c] = chain[c] \cup {<<"answered", remote>>}
    BY <1>3, <2>1 DEF AnswerSignalled, Record
  <2> QED BY <2>1, <2>2 DEF Has
<1>9. ASSUME Has(d, "remote_cplt", remote)', ~Has(d, "remote_cplt", remote)
      PROVE  Has(d, "answered", remote)
  <2>1. d = c /\ StepRemoteSigCplt(c, remote)
    BY <1>1, <1>9, NewEvent DEF GotEvent
  <2> QED BY <1>1, <2>1 DEF StepRemoteSigCplt, StepCplt, Finish, InOrder
<1> QED
  BY <1>1, <1>2, <1>4, <1>5, <1>6, <1>7, <1>8, <1>9 DEF InOrder

\* Every step keeps the chains in order.
LEMMA ChainNext ==
  ASSUME MeshInv, ChainInv, [Steps]_vars
  PROVE  ChainInv'
<1>1. CASE UNCHANGED vars
  <2>1. /\ UNCHANGED <<listener_tx, queue, rx, peer_listener, call>>
        /\ UNCHANGED <<pc, local_id, first_discovery, pending, chain>>
    BY <1>1 DEF vars, serverVars, peerVars
  <2>2. FreshInv'
    BY <2>1 DEF ChainInv, FreshInv, ListenedTo, Fresh, At
  <2>3. ReasonsInv'
    <3> SUFFICES ASSUME NEW c \in Clients, NEW kind \in Kinds, NEW remote \in Id
                 PROVE  ReasonFor(c, kind, remote)'
      BY DEF ReasonsInv
    <3>1. /\ Signals(c, kind, remote)' <=> Signals(c, kind, remote)
          /\ Queued(c, kind, remote)' <=> Queued(c, kind, remote)
          /\ Signalling(c, kind, remote)' <=> Signalling(c, kind, remote)
      BY <2>1 DEF Signals, Queued, Signalling, Has
    <3>2. Allowed(c, kind, remote)' <=> Allowed(c, kind, remote)
      BY <2>1 DEF Allowed, Has
    <3> QED BY <3>1, <3>2 DEF ChainInv, ReasonsInv, ReasonFor
  <2>4. ArrivesOnce'
    BY <2>1 DEF ChainInv, ArrivesOnce, ArrivesOnceAt, Has
  <2>5. ASSUME NEW kind \in Kinds, NEW c \in Clients, NEW remote \in Id
        PROVE  /\ Arrived(kind, c, remote)' = Arrived(kind, c, remote)
               /\ Acknowledged(c, kind, remote)' = Acknowledged(c, kind, remote)
               /\ CameFrom(kind, c, remote)' = CameFrom(kind, c, remote)
               /\ WentTo(c, kind, remote)' = WentTo(c, kind, remote)
    BY <2>1
    DEF Arrived, Has, Acknowledged, Acked, Signalling, CameFrom, Sent, ToSend,
        Queued, Sending, Allowed, WentTo, Reaches
  <2>6. ArrivedWasSent' /\ AcknowledgedArrives'
    BY <2>5 DEF ChainInv, ArrivedWasSent, AcknowledgedArrives
  <2>7. ChainOrderInv'
    BY <2>1 DEF ChainInv, ChainOrderInv, InOrder, Has
  <2> QED BY <2>2, <2>3, <2>4, <2>6, <2>7 DEF ChainInv
<1>2. ASSUME NEW c \in Clients, StepOf(c) PROVE ChainInv'
  <2>1. FreshInv' /\ FreshInv
    BY <1>2, FreshNext DEF ChainInv
  <2>2. ReasonsInv'
    BY <1>2, <2>1, ReasonsStep DEF ReasonsInv, ChainInv
  <2>3. ArrivesOnce'
    BY <1>2, ArrivesOnceStep DEF ArrivesOnce
  <2>4. ArrivedWasSent'
    BY <1>2, ArrivedWasSentStep DEF ArrivedWasSent
  <2>5. AcknowledgedArrives'
    BY <1>2, AcknowledgedArrivesStep DEF AcknowledgedArrives
  <2>6. ChainOrderInv'
    BY <1>2, ChainOrderStep DEF ChainOrderInv
  <2> QED BY <2>1, <2>2, <2>3, <2>4, <2>5, <2>6 DEF ChainInv
<1> QED BY <1>1, <1>2 DEF Steps

\* The invariant of the chains.
LEMMA ChainInvariant ==
  ASSUME ~Wraps
  PROVE  StepsSpec => [](MeshInv /\ ChainInv)
<1>1. Init => MeshInv /\ ChainInv
  BY MeshInit, ChainInit
<1>2. MeshInv /\ ChainInv /\ [Steps]_vars => MeshInv' /\ ChainInv'
  BY MeshNext, ChainNext
<1> QED BY <1>1, <1>2, PTL DEF StepsSpec

-----------------------------------------------------------------------------
(* What follows.                                                           *)

\* How often a signal is in a queue.
LEMMA HowOften ==
  ASSUME NEW q \in Seq(Id \cup {None}), NEW remote \in Id
  PROVE  LET n == Cardinality({i \in DOMAIN q : q[i] = remote})
         IN  /\ n \in Nat
             /\ In(q, remote) <=> n > 0
             /\ Once(q) => n <= 1
<1> DEFINE places == {i \in DOMAIN q : q[i] = remote}
<1>1. Len(q) \in Nat /\ DOMAIN q = 1 .. Len(q)
  OBVIOUS
<1>2. IsFiniteSet(places) /\ Cardinality(places) \in Nat
  <2>1. IsFiniteSet(1 .. Len(q))
    BY <1>1, FS_Interval
  <2>2. places \subseteq 1 .. Len(q)
    BY <1>1
  <2> QED BY <2>1, <2>2, FS_Subset, FS_CardinalityType
<1>3. In(q, remote) <=> places # {}
  BY DEF In
<1>4. places = {} <=> Cardinality(places) = 0
  BY <1>2, FS_EmptySet
<1>5. ASSUME Once(q) PROVE Cardinality(places) <= 1
  <2>1. CASE places = {}
    BY <1>4, <2>1
  <2>2. CASE places # {}
    <3>1. PICK i \in places : TRUE
      BY <2>2
    <3>2. places = {i}
      BY <1>5, <3>1, ModulusPositive DEF Once, Id, None
    <3> HIDE DEF places
    <3>3. Cardinality(places) = 1
      BY <1>2, <3>2, FS_Singleton
    <3> QED BY <3>3
  <2> QED BY <2>1, <2>2
<1> QED BY <1>2, <1>3, <1>4, <1>5

\* The same of the queues of the server.
LEMMA OccurrencesIn ==
  ASSUME NEW kind \in Kinds, NEW c \in Clients, NEW remote \in Id,
         queue[kind][c] \in Seq(Id \cup {None})
  PROVE  /\ Occurrences(kind, c, remote) \in Nat
         /\ In(queue[kind][c], remote) <=> Occurrences(kind, c, remote) > 0
         /\ Once(queue[kind][c]) => Occurrences(kind, c, remote) <= 1
  BY HowOften DEF Occurrences

\* As the next theorem, of peers that may stop at any point.
LEMMA SignalsArriveOnceOfSteps ==
  ASSUME ~Wraps
  PROVE  StepsSpec => []NoDuplicateSignal
<1>1. MeshInv /\ ChainInv => NoDuplicateSignal
  <2> SUFFICES ASSUME MeshInv, ChainInv, NEW c \in Clients, NEW remote \in Id
               PROVE  \A kind \in Kinds :
                        Occurrences(kind, c, remote)
                          <= (IF Has(c, GotEvent(kind), remote) THEN 0 ELSE 1)
    BY DEF NoDuplicateSignal, GotEvent, Kinds
  <2> SUFFICES ASSUME NEW kind \in Kinds
               PROVE  Occurrences(kind, c, remote)
                        <= (IF Has(c, GotEvent(kind), remote) THEN 0 ELSE 1)
    OBVIOUS
  <2>1. ArrivesOnceAt(kind, c) /\ queue[kind][c] \in Seq(Id \cup {None})
    BY QueueTypes DEF ChainInv, ArrivesOnce, MeshInv
  <2>2. /\ Occurrences(kind, c, remote) \in Nat
        /\ In(queue[kind][c], remote) <=> Occurrences(kind, c, remote) > 0
        /\ Occurrences(kind, c, remote) <= 1
    BY <2>1, OccurrencesIn DEF ArrivesOnceAt
  <2> QED BY <2>1, <2>2 DEF ArrivesOnceAt
<1> QED BY <1>1, ChainInvariant, PTL

\* No signal is delivered twice, however its call, the handlers of both peers and
\* their listeners interleave.
THEOREM SignalsArriveOnce ==
  ASSUME ~Wraps
  PROVE  Spec => []NoDuplicateSignal
  BY SpecSteps, SignalsArriveOnceOfSteps, PTL

\* As the next theorem, of peers that may stop at any point.
LEMMA AcknowledgedIsNotLostOfSteps ==
  ASSUME ~Wraps
  PROVE  StepsSpec => []NoSignalLost
<1>1. MeshInv /\ ChainInv => NoSignalLost
  <2> SUFFICES ASSUME MeshInv, ChainInv, NEW a \in Clients, NEW b \in Clients,
                      Subscribed(b)
               PROVE  \A kind \in Kinds :
                        Has(a, SentEvent(kind), local_id[b]) =>
                          \/ Has(b, GotEvent(kind), local_id[a])
                          \/ Occurrences(kind, b, local_id[a]) > 0
    BY DEF NoSignalLost, SentEvent, GotEvent, Kinds
  <2> SUFFICES ASSUME NEW kind \in Kinds, Has(a, SentEvent(kind), local_id[b])
               PROVE  \/ Has(b, GotEvent(kind), local_id[a])
                      \/ Occurrences(kind, b, local_id[a]) > 0
    OBVIOUS
  <2>1. local_id[b] \in Id /\ rx[kind][b] = "open"
    BY DEF MeshInv, PeerTypeInv, Identified, ProgramInv, StreamsFit, Subscribed
  <2>2. WentTo(a, kind, local_id[b])
    BY <2>1 DEF ChainInv, AcknowledgedArrives, Acknowledged
  <2>3. PICK d \in Clients : local_id[d] = local_id[b] /\ Reaches(a, kind, d)
    BY <2>2 DEF WentTo
  <2>4. d = b
    BY <2>1, <2>3, LocalIdAlone
  <2>5. Arrived(kind, b, local_id[a]) /\ local_id[a] \in Id
    BY <2>1, <2>2, <2>3, <2>4 DEF Reaches, WentTo
  <2>6. queue[kind][b] \in Seq(Id \cup {None})
    BY QueueTypes DEF MeshInv
  <2> QED BY <2>5, <2>6, OccurrencesIn DEF Arrived
<1> QED BY <1>1, ChainInvariant, PTL

\* A signal the server acknowledged reaches its target as long as that is there:
\* the entry found under the read lock is the target's, and its queue is open.
THEOREM AcknowledgedIsNotLost ==
  ASSUME ~Wraps
  PROVE  Spec => []NoSignalLost
  BY SpecSteps, AcknowledgedIsNotLostOfSteps, PTL

\* As the next theorem, of peers that may stop at any point.
LEMMA ChainsAreCausalOfSteps ==
  ASSUME ~Wraps
  PROVE  StepsSpec => []ChainCausality
<1>1. MeshInv /\ ChainInv => ChainCausality
  <2> SUFFICES ASSUME MeshInv, ChainInv, NEW a \in Clients, NEW remote \in Id
               PROVE  /\ Has(a, "local_cplt", remote) => Has(a, "got_answer", remote)
                      /\ Has(a, "got_answer", remote) =>
                           /\ Has(a, "offered", remote)
                           /\ \E b \in Clients :
                                /\ local_id[b] = remote
                                /\ Has(b, "got_offer", local_id[a])
                      /\ Has(a, "remote_cplt", remote) => Has(a, "answered", remote)
                      /\ Has(a, "answered", remote) => Has(a, "got_offer", remote)
                      /\ Has(a, "got_offer", remote) =>
                           \E b \in Clients :
                             /\ local_id[b] = remote
                             /\ local_id[a] \in peer_listener[b].initial
    BY DEF ChainCausality
  <2>1. InOrder(a, remote) /\ "answer" \in Kinds /\ "offer" \in Kinds
    BY DEF ChainInv, ChainOrderInv, Kinds
  <2>2. ASSUME NEW kind \in Kinds, Has(a, GotEvent(kind), remote)
        PROVE  \E b \in Clients :
                 local_id[b] = remote /\ Allowed(b, kind, local_id[a])
    BY <2>2 DEF ChainInv, ArrivedWasSent, Arrived, CameFrom, Sent
  <2>3. Has(a, "got_answer", remote) =>
          \E b \in Clients :
            local_id[b] = remote /\ Has(b, "got_offer", local_id[a])
    BY <2>1, <2>2 DEF GotEvent, Allowed
  <2>4. Has(a, "got_offer", remote) =>
          \E b \in Clients :
            local_id[b] = remote /\ local_id[a] \in peer_listener[b].initial
    BY <2>1, <2>2 DEF GotEvent, Allowed
  <2>5. Has(a, "answered", remote) => Has(a, "got_offer", remote)
    BY <2>1
    DEF ChainInv, ReasonsInv, ReasonFor, Signals, SentEvent, Allowed
  <2> QED BY <2>1, <2>3, <2>4, <2>5 DEF InOrder
<1> QED BY <1>1, ChainInvariant, PTL

\* A local chain advances only on what its remote peer did, although the answer
\* may be on its way before the call that carried the offer has returned.
THEOREM ChainsAreCausal ==
  ASSUME ~Wraps
  PROVE  Spec => []ChainCausality
  BY SpecSteps, ChainsAreCausalOfSteps, PTL
=============================================================================
