------------------------- MODULE SignallingPeerProofs -------------------------
(***************************************************************************)
(* Peers and server together, for any number of peers: the types, and that *)
(* the peers are callers the server's specification allows, so that what   *)
(* is proved of the server under any callers holds here.                   *)
(***************************************************************************)
EXTENDS SignallingClient, SignallingServerProofs

-----------------------------------------------------------------------------
(* A step is one peer's, or the server's for that peer's call.             *)

\* A peer stops at any point, whether it is among the unreliable ones or not:
\* the example's end with an error of a callback.
Stops(c) == /\ pc[c] \notin {"new", "gone"}
            /\ DropPeer(c)
            /\ UNCHANGED serverVars

StepOf(c) == Serve(c) \/ Peer(c) \/ Close(c) \/ Stops(c) \/ Aftermath(c)

Steps == \E c \in Clients : StepOf(c)

StepsSpec == Init /\ [][Steps]_vars

\* The peers of SignallingClient take such steps.
LEMMA SpecSteps == Spec => StepsSpec
<1>1. [Next]_vars => [Steps]_vars
  BY DEF Next, Steps, StepOf, Abandon, Stops
<1> QED BY <1>1, PTL DEF Spec, StepsSpec

-----------------------------------------------------------------------------
(* A peer names itself in its calls, so the type of local_id is not enough: *)
(* once start_peer has the reply to its advertise, it has an identifier.    *)

Identified ==
    \A c \in Clients :
      \/ pc[c] \in {"running", "syncing", "stepping", "closing"}
      \/ pc[c] = "starting" /\ call[c].op # "advertise"
      => local_id[c] \in Id

PeerTypeInv == TypeInv /\ PeerTypeOK /\ Identified

\* A peer that was not started has no identifier, but the types and the rest.
LEMMA PeerTypeInit == Init => PeerTypeInv
<1> SUFFICES ASSUME Init PROVE PeerTypeInv
  OBVIOUS
<1>1. TypeInv
  BY TypeInit DEF Init
<1>2. PeerTypeOK /\ Identified
  BY DEF Init, PeerInit, PeerTypeOK, Identified, Locations
<1> QED BY <1>1, <1>2 DEF PeerTypeInv

-----------------------------------------------------------------------------
(* Every step of a peer is one that a caller of the server may take.       *)

\* The four calls of start_peer.
LEMMA StartIsCaller ==
  ASSUME PeerTypeInv, NEW c \in Clients, Start(c)
  PROVE  Caller(c)
<1>1. CASE StartPeer(c)
  BY <1>1 DEF StartPeer, Caller, Requests, channelVars
<1>2. CASE Advertised(c)
  <2>1. call[c].id \in Id
    BY <1>2 DEF Advertised, Returned, PeerTypeInv, TypeInv, Named, At
  <2> QED BY <1>2, <2>1 DEF Advertised, Caller, Requests, channelVars
<1>3. CASE PeerListenerOpened(c)
  <2>1. local_id[c] \in Id
    BY <1>3 DEF PeerListenerOpened, Returned, PeerTypeInv, Identified
  <2> QED
    BY <1>3, <2>1 DEF PeerListenerOpened, Caller, Requests, Kinds, channelVars
<1>4. CASE OfferListenerOpened(c)
  <2>1. local_id[c] \in Id
    BY <1>4 DEF OfferListenerOpened, Returned, PeerTypeInv, Identified
  <2> QED
    BY <1>4, <2>1 DEF OfferListenerOpened, Caller, Requests, Kinds, channelVars
<1>5. CASE AnswerListenerOpened(c)
  BY <1>5 DEF AnswerListenerOpened, Caller, channelVars
<1> QED BY <1>1, <1>2, <1>3, <1>4, <1>5 DEF Start

\* What step does with the peer listener.
LEMMA StepPeerListenerIsCaller ==
  ASSUME PeerTypeInv, NEW c \in Clients, StepPeerListener(c)
  PROVE  Caller(c) \/ PeerListenerReader(c) \/ PeerListenerReaction(c)
<1>1. CASE StepInitialPeers(c)
  BY <1>1 DEF StepInitialPeers, PeerListenerReader, channelVars
<1>2. CASE StepPeerAdded(c)
  BY <1>2 DEF StepPeerAdded, PeerListenerReader, channelVars
<1>3. CASE StepPeerRemoved(c)
  BY <1>3 DEF StepPeerRemoved, PeerListenerReader, channelVars
<1>4. CASE StepSynchronise(c)
  <2>1. local_id[c] \in Id
    BY <1>4 DEF StepSynchronise, PeerTypeInv, Identified
  <2> QED
    BY <1>4, <2>1
    DEF StepSynchronise, PeerListenerReaction, Requests, channelVars
<1>5. CASE Synchronised(c)
  BY <1>5 DEF Synchronised, Caller, channelVars
<1> QED BY <1>1, <1>2, <1>3, <1>4, <1>5 DEF StepPeerListener

\* What it does with the listeners, and with what a call of its own returned.
LEMMA StepSignalIsCaller ==
  ASSUME NEW c \in Clients, StepSignal(c)
  PROVE  Caller(c) \/ SignalReader(c)
<1>1. CASE \E kind \in Kinds : SkipEmpty(c, kind)
  BY <1>1 DEF SkipEmpty, SignalReader
<1>2. CASE StepOfferListener(c) \/ StepAnswerListener(c)
  BY <1>2
  DEF StepOfferListener, StepAnswerListener, StepListener, SignalReader, Kinds
<1>3. CASE OfferSignalled(c) \/ AnswerSignalled(c) \/ SignalDropped(c)
  BY <1>3 DEF OfferSignalled, AnswerSignalled, SignalDropped, Caller, channelVars
<1> QED BY <1>1, <1>2, <1>3 DEF StepSignal

\* A callback that made an offer or an answer sends it, the others make no call.
LEMMA StepCallbackIsCaller ==
  ASSUME PeerTypeInv, NEW c \in Clients, NEW remote \in Id,
         StepCallback(c, remote)
  PROVE  Caller(c) \/ UNCHANGED serverVars
<1>1. ASSUME NEW task, NEW kind \in Kinds, SendSignal(c, task, kind, remote)
      PROVE  Caller(c)
  <2>1. local_id[c] \in Id
    BY <1>1 DEF SendSignal, Finish, PeerTypeInv, Identified
  <2> QED BY <1>1, <2>1 DEF SendSignal, Caller, Requests, channelVars
<1>2. CASE StepCreateOffer(c, remote) \/ StepReceiveOffer(c, remote)
  BY <1>1, <1>2 DEF StepCreateOffer, StepReceiveOffer, Kinds
<1>3. CASE \/ StepReceiveAnswer(c, remote)
           \/ StepLocalSigCplt(c, remote)
           \/ StepRemoteSigCplt(c, remote)
  BY <1>3
  DEF StepReceiveAnswer, StepLocalSigCplt, StepRemoteSigCplt, StepCplt
<1> QED BY <1>2, <1>3 DEF StepCallback

\* The ends of a peer, and what the server and the transport do after them.
LEMMA EndIsCaller ==
  ASSUME PeerTypeInv, NEW c \in Clients,
         End(c) \/ Close(c) \/ Stops(c) \/ Aftermath(c)
  PROVE  \/ Caller(c) \/ PeerListenerReader(c) \/ SignalReader(c)
         \/ UNCHANGED serverVars
<1>1. CASE Closed(c) \/ CallFailed(c)
  BY <1>1 DEF Closed, CallFailed, Caller, channelVars
<1>2. CASE StepLagged(c)
  BY <1>2 DEF StepLagged, PeerListenerReader, channelVars
<1>3. CASE Close(c)
  <2>1. local_id[c] \in Id
    BY <1>3 DEF Close, PeerTypeInv, Identified
  <2> QED BY <1>3, <2>1 DEF Close, Caller, Requests, channelVars
<1>4. CASE Stops(c)
  BY <1>4 DEF Stops
<1>5. CASE AbandonedCallReturns(c) \/ AbandonedCallLost(c)
  BY <1>5 DEF AbandonedCallReturns, AbandonedCallLost, Caller, channelVars
<1>6. CASE StreamDropped(c)
  BY <1>6 DEF StreamDropped, PeerListenerReader, SignalReader, channelVars
<1> QED BY <1>1, <1>2, <1>3, <1>4, <1>5, <1>6 DEF End, Aftermath

\* So every step of the two together is a step of the server and its callers.
LEMMA StepIsServerStep ==
  ASSUME PeerTypeInv, [Steps]_vars
  PROVE  [ServerNext]_serverVars
<1>1. CASE UNCHANGED vars
  BY <1>1 DEF vars
<1>2. ASSUME NEW c \in Clients, Serve(c) PROVE ServerNext
  BY <1>2 DEF Serve, ServerNext
<1>3. ASSUME NEW c \in Clients, Peer(c) PROVE [ServerNext]_serverVars
  <2>1. CASE Start(c)
    BY <2>1, StartIsCaller DEF ServerNext
  <2>2. CASE StepPeerListener(c)
    BY <2>2, StepPeerListenerIsCaller DEF ServerNext
  <2>3. CASE StepSignal(c)
    BY <2>3, StepSignalIsCaller DEF ServerNext
  <2>4. CASE \E remote \in Id : StepCallback(c, remote)
    BY <2>4, StepCallbackIsCaller DEF ServerNext
  <2>5. CASE End(c)
    BY <2>5, EndIsCaller DEF ServerNext
  <2> QED BY <1>3, <2>1, <2>2, <2>3, <2>4, <2>5 DEF Peer, StepChain
<1>4. ASSUME NEW c \in Clients, Close(c) \/ Stops(c) \/ Aftermath(c)
      PROVE  [ServerNext]_serverVars
  BY <1>4, EndIsCaller DEF ServerNext
<1> QED BY <1>1, <1>2, <1>3, <1>4 DEF Steps, StepOf

-----------------------------------------------------------------------------
(* Types.                                                                  *)

\* What a handler does to the call it serves: it goes to the handler's next step,
\* and keeps what the caller asked for.
HandlerTakes(c) ==
    \/ FetchAdd(c) /\ call'[c].at = "insert" /\ call'[c].id = generator
    \/ AdvertiseInsert(c) /\ call'[c].at = "announce"
    \/ AdvertiseDuplicate(c) /\ call'[c].at = "replied" /\ call'[c].status = "internal"
    \/ AdvertiseBroadcast(c) /\ call'[c].at = "replied" /\ call'[c].status = "ok"
    \/ TeardownBroadcast(c) /\ call'[c].at = "remove"
    \/ TeardownRemove(c) /\ call'[c].at = "replied"
    \/ PeerDiscover(c) /\ call'[c].at = "replied"
         /\ call'[c].found = Others(call[c].id)
    \/ PeerListenerSnapshot(c) /\ call'[c].at = "subscribe"
         /\ call'[c].found = Others(call[c].id)
    \/ PeerListenerSubscribe(c) /\ call'[c].at = "replied" /\ call'[c].status = "ok"
    \/ ListenerOpened(c) /\ call'[c].at = "replied" /\ call'[c].status = "ok"
    \/ ListenerRefused(c) /\ call'[c].at = "replied"
         /\ call'[c].status = "failed_precondition"
    \/ SignalRejected(c) /\ call'[c].at = "replied"
         /\ call'[c].status = "failed_precondition"
    \/ SignalAccepted(c) /\ call'[c].at = "replied" /\ call'[c].status = "ok"
    \/ SignalFull(c) /\ call'[c].at = "replied" /\ call'[c].status = "aborted"
    \/ SignalDisconnected(c) /\ call'[c].at = "teardown"

HandlerKeeps(c) ==
    /\ call'[c].op = call[c].op
    /\ call'[c].kind = call[c].kind
    /\ call'[c].from = call[c].from
    /\ FetchAdd(c) \/ call'[c].id = call[c].id
    /\ PeerDiscover(c) \/ PeerListenerSnapshot(c) \/ call'[c].found = call[c].found
    /\ \A d \in Clients \ {c} : call'[d] = call[d]

\* What a handler does to the call it serves, and to no other.
LEMMA HandlerEffect ==
  ASSUME ServerTypeOK, NEW c \in Clients, Handler(c)
  PROVE  HandlerTakes(c) /\ HandlerKeeps(c)
<1>1. call \in [Clients -> Call] /\ call[c] \in Call
  BY DEF ServerTypeOK
<1> DEFINE Becomes(r) == call' = [call EXCEPT ![c] = r]
<1>2. ASSUME NEW stage, GoTo(c, stage)
      PROVE  /\ Becomes([call[c] EXCEPT !.at = stage])
             /\ call'[c].at = stage /\ HandlerKeeps(c)
  <2>1. Becomes([call[c] EXCEPT !.at = stage])
    BY <1>1, <1>2 DEF GoTo
  <2> QED BY <1>1, <2>1 DEF HandlerKeeps, Call
<1>3. ASSUME NEW status, Reply(c, status)
      PROVE  /\ call'[c].at = "replied" /\ call'[c].status = status
             /\ HandlerKeeps(c)
  <2>1. Becomes([call[c] EXCEPT !.at = "replied", !.status = status])
    BY <1>1, <1>3 DEF Reply
  <2> QED BY <1>1, <2>1 DEF HandlerKeeps, Call
<1>4. CASE FetchAdd(c)
  <2>1. Becomes([call[c] EXCEPT !.at = "insert", !.id = generator])
    BY <1>1, <1>4 DEF FetchAdd
  <2> QED BY <1>1, <1>4, <2>1 DEF HandlerKeeps, HandlerTakes, Call
<1>5. CASE AdvertiseInsert(c) \/ AdvertiseDuplicate(c) \/ AdvertiseBroadcast(c)
  BY <1>2, <1>3, <1>5
  DEF HandlerTakes, AdvertiseInsert, AdvertiseDuplicate, AdvertiseBroadcast
<1>6. CASE TeardownBroadcast(c) \/ TeardownRemove(c)
  BY <1>2, <1>3, <1>6 DEF HandlerTakes, TeardownBroadcast, TeardownRemove
<1>7. CASE PeerDiscover(c)
  <2>1. Becomes([call[c] EXCEPT !.at = "replied", !.found = Others(call[c].id)])
    BY <1>1, <1>7 DEF PeerDiscover, ReplyFound
  <2> QED BY <1>1, <1>7, <2>1 DEF HandlerKeeps, HandlerTakes, Call
<1>8. CASE PeerListenerSnapshot(c)
  <2>1. Becomes([call[c] EXCEPT !.at = "subscribe", !.found = Others(call[c].id)])
    BY <1>1, <1>8 DEF PeerListenerSnapshot
  <2> QED BY <1>1, <1>8, <2>1 DEF HandlerKeeps, HandlerTakes, Call
<1>9. CASE PeerListenerSubscribe(c) \/ ListenerOpened(c) \/ ListenerRefused(c)
  BY <1>3, <1>9
  DEF HandlerTakes, PeerListenerSubscribe, ListenerOpened, ListenerRefused
<1>10. CASE \/ SignalRejected(c) \/ SignalAccepted(c)
            \/ SignalFull(c) \/ SignalDisconnected(c)
  BY <1>2, <1>3, <1>10
  DEF HandlerTakes, SignalRejected, SignalAccepted, SignalFull,
      SignalDisconnected
<1> QED
  BY <1>4, <1>5, <1>6, <1>7, <1>8, <1>9, <1>10
  DEF Handler, Advertise, HandleTeardown, OpenPeerListener, OpenListener, Signal

\* The server serves, and moves no peer.
LEMMA PeerTypeServe ==
  ASSUME PeerTypeInv, NEW c \in Clients, Serve(c)
  PROVE  PeerTypeOK' /\ Identified'
<1>1. UNCHANGED peerVars /\ HandlerKeeps(c)
  BY HandlerEffect DEF Serve, PeerTypeInv, TypeInv
<1>2. PeerTypeOK'
  BY <1>1 DEF PeerTypeInv, PeerTypeOK, peerVars
<1>3. Identified'
  BY <1>1 DEF PeerTypeInv, Identified, peerVars, HandlerKeeps
<1> QED BY <1>2, <1>3
\* A peer starts.
LEMMA PeerTypeStart ==
  ASSUME PeerTypeInv, NEW c \in Clients, Start(c)
  PROVE  PeerTypeOK' /\ Identified'
<1> USE DEF PeerTypeInv
<1>1. CASE StartPeer(c)
  BY <1>1
  DEF StartPeer, Request, MoveTo, PeerTypeOK, Identified, Locations, AdvertiseReq,
      NoCall, TypeInv, ServerTypeOK
<1>2. CASE Advertised(c)
  <2>1. call[c].id \in Id
    BY <1>2 DEF Advertised, Returned, TypeInv, Named, At
  <2> QED
    BY <1>2, <2>1
    DEF Advertised, Request, PeerTypeOK, Identified, TypeInv, ServerTypeOK
<1>3. CASE PeerListenerOpened(c) \/ OfferListenerOpened(c)
  <2>1. local_id[c] \in Id
    BY <1>3 DEF PeerListenerOpened, OfferListenerOpened, Returned, Identified
  <2> QED
    BY <1>3, <2>1
    DEF PeerListenerOpened, OfferListenerOpened, peerVars, Request, PeerTypeOK,
        Identified, TypeInv, ServerTypeOK
<1>4. CASE AnswerListenerOpened(c)
  <2>1. local_id[c] \in Id
    BY <1>4 DEF AnswerListenerOpened, Returned, Identified
  <2> QED
    BY <1>4, <2>1
    DEF AnswerListenerOpened, TakeReply, MoveTo, PeerTypeOK, Identified,
        Locations, TypeInv, ServerTypeOK
<1> QED BY <1>1, <1>2, <1>3, <1>4 DEF Start

\* The change a peer listener yields is one of those broadcast.
LEMMA NextChangeType ==
  ASSUME TypeInv, NEW c \in Clients, ReceiveChange(c)
  PROVE  /\ peer_listener[c].pos + 1 \in DOMAIN changes
         /\ NextChange(c) \in Change
<1>1. /\ peer_listener[c].pos \in Nat /\ peer_listener[c].pos < Len(changes)
      /\ changes \in Seq(Change)
  BY DEF ReceiveChange, TypeInv, ServerTypeOK, PeerListener
<1> QED BY <1>1 DEF NextChange

\* A step takes a message of its peer listener.
LEMMA PeerTypeStepPeerListener ==
  ASSUME PeerTypeInv, NEW c \in Clients, StepPeerListener(c)
  PROVE  PeerTypeOK' /\ Identified'
<1> USE DEF PeerTypeInv
<1>1. \A ids : FirstOffers(c, ids) \subseteq {"create_offer"} \X ids
  BY DEF FirstOffers
<1>2. CASE StepInitialPeers(c)
  <2>1. peer_listener[c].initial \subseteq Id
    BY DEF TypeInv, ServerTypeOK, PeerListener
  <2>2. FirstOffers(c, peer_listener[c].initial) \subseteq Tasks \X Id
    BY <1>1, <2>1 DEF Tasks
  <2> QED
    BY <1>2, <2>1, <2>2 DEF StepInitialPeers, PeerTypeOK, Identified
<1>3. CASE StepPeerAdded(c)
  <2>1. NextChange(c).id \in Id
    BY <1>3, NextChangeType DEF StepPeerAdded, Change
  <2>2. FirstOffers(c, {NextChange(c).id}) \subseteq Tasks \X Id
    BY <1>1, <2>1 DEF Tasks
  <2> QED
    BY <1>3, <2>1, <2>2 DEF StepPeerAdded, PeerTypeOK, Identified
<1>4. CASE StepPeerRemoved(c)
  BY <1>4 DEF StepPeerRemoved, PeerTypeOK, Identified
<1>5. CASE StepSynchronise(c)
  <2>1. local_id[c] \in Id
    BY <1>5 DEF StepSynchronise, Identified
  <2> QED
    BY <1>5, <2>1
    DEF StepSynchronise, Request, MoveTo, PeerTypeOK, Identified, Locations,
        TypeInv, ServerTypeOK
<1>6. CASE Synchronised(c)
  <2>1. call[c].found \subseteq Id /\ local_id[c] \in Id
    BY <1>6 DEF Synchronised, Identified, TypeInv, ServerTypeOK, Call
  <2> QED
    BY <1>6, <2>1
    DEF Synchronised, TakeReply, MoveTo, PeerTypeOK, Identified, Locations,
        TypeInv, ServerTypeOK
<1> QED BY <1>2, <1>3, <1>4, <1>5, <1>6 DEF StepPeerListener

\* What history records is of a peer with an identifier.
LEMMA RecordType ==
  ASSUME PeerTypeOK, NEW c \in Clients, NEW event \in Events, NEW remote \in Id,
         Record(c, event, remote)
  PROVE  chain' \in [Clients -> SUBSET (Events \X Id)]
  BY DEF PeerTypeOK, Record

\* A step takes a signal, or the reply to one.
LEMMA PeerTypeStepSignal ==
  ASSUME PeerTypeInv, NEW c \in Clients, StepSignal(c)
  PROVE  PeerTypeOK' /\ Identified'
<1> USE DEF PeerTypeInv
<1>1. CASE \E kind \in Kinds : SkipEmpty(c, kind)
  BY <1>1 DEF SkipEmpty, peerVars, PeerTypeOK, Identified
<1>2. ASSUME NEW kind \in Kinds, NEW task \in Tasks, NEW event \in Events,
             StepListener(c, kind, task, event)
      PROVE  PeerTypeOK' /\ Identified'
  <2> DEFINE remote == Head(queue[kind][c])
  <2>1. remote \in Id
    <3>1. queue[kind][c] \in Seq(Id \cup {None}) /\ queue[kind][c] # <<>>
      BY <1>2 DEF StepListener, ReceiveSignal, TypeInv, ServerTypeOK
    <3> QED BY <1>2, <3>1 DEF StepListener, IsEmpty
  <2>2. chain' \in [Clients -> SUBSET (Events \X Id)]
    BY <1>2, <2>1, RecordType DEF StepListener
  <2>3. pending' \in [Clients -> SUBSET (Tasks \X Id)]
    BY <1>2, <2>1 DEF StepListener, PeerTypeOK
  <2>4. UNCHANGED <<pc, local_id, discovered, first_discovery, call>>
    BY <1>2 DEF StepListener
  <2> QED BY <2>2, <2>3, <2>4 DEF PeerTypeOK, Identified
<1>3. CASE StepOfferListener(c) \/ StepAnswerListener(c)
  BY <1>2, <1>3
  DEF StepOfferListener, StepAnswerListener, Kinds, Tasks, Events
<1>4. CASE OfferSignalled(c) \/ AnswerSignalled(c) \/ SignalDropped(c)
  <2>1. call[c].id \in Id /\ local_id[c] \in Id
    BY <1>4
    DEF OfferSignalled, AnswerSignalled, SignalDropped, Returned, Identified,
        TypeInv, Named, At
  <2>2. chain' \in [Clients -> SUBSET (Events \X Id)]
    BY <1>4, <2>1, RecordType
    DEF OfferSignalled, AnswerSignalled, SignalDropped, Events, PeerTypeOK
  <2>3. pending' \in [Clients -> SUBSET (Tasks \X Id)]
    BY <1>4, <2>1
    DEF OfferSignalled, AnswerSignalled, SignalDropped, Tasks, PeerTypeOK
  <2> QED
    BY <1>4, <2>1, <2>2, <2>3
    DEF OfferSignalled, AnswerSignalled, SignalDropped, TakeReply, MoveTo,
        PeerTypeOK, Identified, Locations, TypeInv, ServerTypeOK
<1> QED BY <1>1, <1>3, <1>4 DEF StepSignal

\* A callback returns.
LEMMA PeerTypeStepCallback ==
  ASSUME PeerTypeInv, NEW c \in Clients, NEW remote \in Id,
         StepCallback(c, remote)
  PROVE  PeerTypeOK' /\ Identified'
<1> USE DEF PeerTypeInv
<1>1. local_id[c] \in Id
  BY DEF StepCallback, StepCreateOffer, StepReceiveOffer, SendSignal,
         StepReceiveAnswer, StepLocalSigCplt, StepRemoteSigCplt, StepCplt, Finish,
         Identified
<1>2. ASSUME NEW task \in Tasks, NEW kind \in Kinds,
             SendSignal(c, task, kind, remote)
      PROVE  PeerTypeOK' /\ Identified'
  <2>1. pending' \in [Clients -> SUBSET (Tasks \X Id)]
    BY <1>2 DEF SendSignal, Dequeued, PeerTypeOK
  <2>2. pc' \in [Clients -> Locations]
    BY <1>2 DEF SendSignal, MoveTo, PeerTypeOK, Locations
  <2>3. UNCHANGED <<local_id, discovered, first_discovery, chain>>
    BY <1>2 DEF SendSignal
  <2>4. \A d \in Clients \ {c} : pc'[d] = pc[d] /\ call'[d] = call[d]
    BY <1>2
    DEF SendSignal, MoveTo, Request, PeerTypeOK, TypeInv, ServerTypeOK
  <2> QED BY <1>1, <2>1, <2>2, <2>3, <2>4 DEF PeerTypeOK, Identified
<1>5. CASE StepCreateOffer(c, remote) \/ StepReceiveOffer(c, remote)
  BY <1>2, <1>5 DEF StepCreateOffer, StepReceiveOffer, Tasks, Kinds
<1>3. CASE StepReceiveAnswer(c, remote)
  BY <1>3
  DEF StepReceiveAnswer, Dequeued, PeerTypeOK, Identified, Tasks, serverVars
<1>4. CASE StepLocalSigCplt(c, remote) \/ StepRemoteSigCplt(c, remote)
  <2>1. chain' \in [Clients -> SUBSET (Events \X Id)]
    BY <1>4, RecordType
    DEF StepLocalSigCplt, StepRemoteSigCplt, StepCplt, Events
  <2> QED
    BY <1>4, <2>1
    DEF StepLocalSigCplt, StepRemoteSigCplt, StepCplt, Dequeued, PeerTypeOK,
        Identified, serverVars
<1> QED BY <1>3, <1>4, <1>5 DEF StepCallback

\* A peer ends, or did.
LEMMA PeerTypeEnd ==
  ASSUME PeerTypeInv, NEW c \in Clients,
         End(c) \/ Close(c) \/ Stops(c) \/ Aftermath(c)
  PROVE  PeerTypeOK' /\ Identified'
<1> USE DEF PeerTypeInv
<1>1. DropPeer(c) => PeerTypeOK'
  BY DEF DropPeer, MoveTo, PeerTypeOK, Locations
<1>2. CASE DropPeer(c)
  <2>1. \A d \in Clients \ {c} :
          /\ pc'[d] = pc[d] /\ local_id'[d] = local_id[d]
          /\ call'[d] = call[d]
    BY <1>2
    DEF DropPeer, MoveTo, End, Closed, CallFailed, StepLagged, Close, Stops,
        Aftermath, AbandonedCallReturns, AbandonedCallLost, StreamDropped,
        Request, TakeReply, RequestLost, serverVars, PeerTypeOK, TypeInv,
        ServerTypeOK
  <2>2. pc'[c] = "gone"
    BY <1>2 DEF DropPeer, MoveTo, PeerTypeOK
  <2>3. Identified'
    BY <2>1, <2>2 DEF Identified
  <2> QED BY <1>1, <1>2, <2>3
<1>3. CASE Close(c)
  <2>1. local_id[c] \in Id
    BY <1>3 DEF Close, Identified
  <2> QED
    BY <1>3, <2>1
    DEF Close, Request, MoveTo, PeerTypeOK, Identified, Locations, TypeInv,
        ServerTypeOK
<1>4. CASE Aftermath(c)
  BY <1>4
  DEF Aftermath, AbandonedCallReturns, AbandonedCallLost, StreamDropped,
      TakeReply, RequestLost, peerVars, PeerTypeOK, Identified, TypeInv,
      ServerTypeOK
<1> QED
  BY <1>2, <1>3, <1>4 DEF End, Closed, CallFailed, StepLagged, Stops

\* Every step keeps the types.
LEMMA PeerTypeNext == PeerTypeInv /\ [Steps]_vars => PeerTypeInv'
<1> SUFFICES ASSUME PeerTypeInv, [Steps]_vars PROVE PeerTypeInv'
  OBVIOUS
<1>1. TypeInv'
  BY StepIsServerStep, TypeNext DEF PeerTypeInv
<1>2. ASSUME UNCHANGED vars PROVE PeerTypeOK' /\ Identified'
  BY <1>2
  DEF vars, serverVars, peerVars, PeerTypeInv, PeerTypeOK, Identified
<1>3. ASSUME Steps PROVE PeerTypeOK' /\ Identified'
  BY <1>3, PeerTypeServe, PeerTypeStart, PeerTypeStepPeerListener,
     PeerTypeStepSignal, PeerTypeStepCallback, PeerTypeEnd
  DEF Steps, StepOf, Peer, StepChain
<1> QED BY <1>1, <1>2, <1>3 DEF PeerTypeInv

\* So they always hold.
LEMMA PeerTypeInvariant == StepsSpec => []PeerTypeInv
  BY PeerTypeInit, PeerTypeNext, PTL DEF StepsSpec

\* Peers and server always have their types: every identifier a peer discovers,
\* queues a callback for or records is one the counter may hand out, never the
\* empty message of a listener that was just opened.
THEOREM PeerTypeCorrect == Spec => []TypeOK
<1>1. PeerTypeInv => TypeOK
  BY DEF PeerTypeInv, TypeInv, TypeOK
<1> QED BY <1>1, SpecSteps, PeerTypeInvariant, PTL

\* As the next theorem, of peers that may stop at any point.
LEMMA PeersAreCallersOfSteps == StepsSpec => ServerSpec
<1>1. Init => ServerInit
  BY DEF Init
<1>2. PeerTypeInv /\ [Steps]_vars => [ServerNext]_serverVars
  BY StepIsServerStep
<1> QED
  BY <1>1, <1>2, PeerTypeInvariant, PTL DEF StepsSpec, ServerSpec

\* The peers of client.rs are callers the server's specification allows: each
\* names a peer in every call, has one call at a time and opens each stream once.
THEOREM PeersAreCallers == Spec => ServerSpec
  BY SpecSteps, PeersAreCallersOfSteps, PTL

\* What is proved of the server therefore holds under its own peers.
THEOREM PeersSeeADirectory ==
  ASSUME ~Wraps
  PROVE  Spec => DirectorySpec /\ []RemovalAnnounced /\ []AdditionAnnounced
  BY PeersAreCallers, ServerImplementsDirectory, RemovalsAreAnnounced,
     AdditionsAreAnnounced, PTL
=============================================================================
