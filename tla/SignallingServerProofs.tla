----------------------- MODULE SignallingServerProofs -----------------------
(***************************************************************************)
(* The server, for any number of callers, any capacities and any size of   *)
(* the identifier counter: its types and its listeners; and, as long as    *)
(* the counter does not come round, that additions and removals are        *)
(* announced, and that the server implements PeerDirectory.                *)
(***************************************************************************)
EXTENDS SignallingServer, TLAPS

-----------------------------------------------------------------------------
(* Types.  The handlers append and insert the identifier their call names, *)
(* so the type of the call record is not enough: every call that has       *)
(* started names one.                                                      *)

Named == \A c \in Clients :
           call[c].at # "idle" /\ ~At(c, "advertise", "sent") => call[c].id \in Id

TypeInv == ServerTypeOK /\ Named

\* There is an identifier.
LEMMA ModulusPositive == IdModulus \in Nat \ {0} /\ 0 \in Id
  BY ServerAssumption DEF ServerAssumption, Id

\* The empty call has the type of a call.
LEMMA NoCallType == NoCall \in Call
  BY DEF NoCall, Call, Ops, Stages, Statuses, Kinds

\* A request is a call on its way, which names a peer unless it is an advertise.
LEMMA RequestType ==
  ASSUME NEW r \in Requests
  PROVE  /\ r \in Call
         /\ r.at = "sent"
         /\ r.op # "advertise" => r.id \in Id
<1> USE NoCallType DEF Call, Ops, Stages, Statuses, Kinds
<1>1. CASE r = AdvertiseReq
  BY <1>1 DEF AdvertiseReq, NoCall
<1>2. ASSUME NEW id \in Id, r = TeardownReq(id)
      PROVE  r \in Call /\ r.at = "sent" /\ r.id \in Id
  BY <1>2 DEF TeardownReq, NoCall
<1>3. ASSUME NEW id \in Id, r = PeerDiscoverReq(id)
      PROVE  r \in Call /\ r.at = "sent" /\ r.id \in Id
  BY <1>3 DEF PeerDiscoverReq, NoCall
<1>4. ASSUME NEW id \in Id, r = PeerListenerReq(id)
      PROVE  r \in Call /\ r.at = "sent" /\ r.id \in Id
  BY <1>4 DEF PeerListenerReq, NoCall
<1>5. ASSUME NEW kind \in Kinds, NEW id \in Id, r = ListenerReq(kind, id)
      PROVE  r \in Call /\ r.at = "sent" /\ r.id \in Id
  BY <1>5 DEF ListenerReq, NoCall
<1>6. ASSUME NEW kind \in Kinds, NEW from \in Id, NEW id \in Id,
             r = SignalReq(kind, from, id)
      PROVE  r \in Call /\ r.at = "sent" /\ r.id \in Id
  BY <1>6 DEF SignalReq, NoCall
<1> HIDE DEF Call
<1> QED
  BY <1>1, <1>2, <1>3, <1>4, <1>5, <1>6 DEF Requests, AdvertiseReq, NoCall

\* The server starts with its types.
LEMMA TypeInit == ServerInit => TypeInv
<1> SUFFICES ASSUME ServerInit PROVE TypeInv
  OBVIOUS
<1>1. ServerTypeOK
  BY ModulusPositive, NoCallType
  DEF ServerInit, ServerTypeOK, NoPeerListener, PeerListener, ListenerSlot
<1>2. Named
  BY DEF ServerInit, Named, NoCall
<1> QED BY <1>1, <1>2 DEF TypeInv

\* A call that moves on keeps its type.
LEMMA CallStep ==
  ASSUME TypeInv, NEW c \in Clients, NEW r \in Call,
         call' = [call EXCEPT ![c] = r],
         r.at # "idle" /\ ~(r.op = "advertise" /\ r.at = "sent") => r.id \in Id
  PROVE  call' \in [Clients -> Call] /\ Named'
  BY DEF TypeInv, ServerTypeOK, Named, At

\* The ways a handler moves its call on.
LEMMA HandlerStep ==
  ASSUME TypeInv, NEW c \in Clients, call[c].at # "idle",
         call[c].id \in Id,
         \/ \E stage \in Stages \ {"idle", "sent"} : GoTo(c, stage)
         \/ \E status \in Statuses : Reply(c, status)
         \/ \E ids \in SUBSET Id : ReplyFound(c, ids)
  PROVE  call' \in [Clients -> Call] /\ Named'
<1>1. CASE \E stage \in Stages \ {"idle", "sent"} : GoTo(c, stage)
  <2> PICK stage \in Stages \ {"idle", "sent"} : GoTo(c, stage)
    BY <1>1
  <2> DEFINE r == [call[c] EXCEPT !.at = stage]
  <2>1. call[c] \in Call
    BY DEF TypeInv, ServerTypeOK
  <2>2. r \in Call /\ r.id \in Id /\ r.at \notin {"idle", "sent"}
    BY <2>1 DEF Call, Stages
  <2>3. call' = [call EXCEPT ![c] = r]
    BY <2>1 DEF GoTo, TypeInv, ServerTypeOK
  <2> QED BY <2>2, <2>3, CallStep
<1>2. CASE \E status \in Statuses : Reply(c, status)
  <2> PICK status \in Statuses : Reply(c, status)
    BY <1>2
  <2> DEFINE r == [call[c] EXCEPT !.at = "replied", !.status = status]
  <2>1. call[c] \in Call
    BY DEF TypeInv, ServerTypeOK
  <2>2. r \in Call /\ r.id \in Id /\ r.at \notin {"idle", "sent"}
    BY <2>1 DEF Call, Stages
  <2>3. call' = [call EXCEPT ![c] = r]
    BY <2>1 DEF Reply, TypeInv, ServerTypeOK
  <2> QED BY <2>2, <2>3, CallStep
<1>3. CASE \E ids \in SUBSET Id : ReplyFound(c, ids)
  <2> PICK ids \in SUBSET Id : ReplyFound(c, ids)
    BY <1>3
  <2> DEFINE r == [call[c] EXCEPT !.at = "replied", !.found = ids]
  <2>1. call[c] \in Call
    BY DEF TypeInv, ServerTypeOK
  <2>2. r \in Call /\ r.id \in Id /\ r.at \notin {"idle", "sent"}
    BY <2>1 DEF Call, Stages
  <2>3. call' = [call EXCEPT ![c] = r]
    BY <2>1 DEF ReplyFound, TypeInv, ServerTypeOK
  <2> QED BY <2>2, <2>3, CallStep
<1> QED BY <1>1, <1>2, <1>3

\* A step of the handler of an advertise or a teardown keeps the types.
LEMMA TypeDirectory ==
  ASSUME TypeInv, NEW c \in Clients, Advertise(c) \/ HandleTeardown(c)
  PROVE  TypeInv'
<1> USE DEF TypeInv
<1>1. CASE FetchAdd(c)
  <2> DEFINE r == [call[c] EXCEPT !.at = "insert", !.id = generator]
  <2>1. r \in Call /\ r.id \in Id
    BY DEF ServerTypeOK, Call, Stages
  <2>4. call' = [call EXCEPT ![c] = r]
    BY <1>1 DEF ServerTypeOK, FetchAdd, Call
  <2>2. call' \in [Clients -> Call] /\ Named'
    BY <2>1, <2>4, CallStep
  <2>3. NextId \in Id
    BY ModulusPositive DEF ServerTypeOK, NextId, Id
  <2> QED BY <1>1, <2>2, <2>3 DEF FetchAdd, ServerTypeOK
<1>2. ASSUME call[c].at # "idle", ~At(c, "advertise", "sent")
      PROVE  call[c].id \in Id
  BY <1>2 DEF Named
<1>3. CASE AdvertiseInsert(c)
  <2>1. call[c].id \in Id /\ call[c].at # "idle"
    BY <1>2, <1>3 DEF AdvertiseInsert, At
  <2>2. call' \in [Clients -> Call] /\ Named'
    BY <1>3, <2>1, HandlerStep DEF AdvertiseInsert, Stages
  <2>3. listener_tx' \in [Kinds -> [Id -> ListenerSlot]]
    BY <1>3, <2>1 DEF AdvertiseInsert, ServerTypeOK, ListenerSlot
  <2> QED BY <1>3, <2>1, <2>2, <2>3 DEF AdvertiseInsert, ServerTypeOK
<1>4. CASE AdvertiseDuplicate(c)
  <2>1. call[c].id \in Id /\ call[c].at # "idle"
    BY <1>2, <1>4 DEF AdvertiseDuplicate, At
  <2>2. call' \in [Clients -> Call] /\ Named'
    BY <1>4, <2>1, HandlerStep DEF AdvertiseDuplicate, Statuses
  <2> QED BY <1>4, <2>2 DEF AdvertiseDuplicate, ServerTypeOK
<1>5. CASE AdvertiseBroadcast(c)
  <2>1. call[c].id \in Id /\ call[c].at # "idle"
    BY <1>2, <1>5 DEF AdvertiseBroadcast, At
  <2>2. call' \in [Clients -> Call] /\ Named'
    BY <1>5, <2>1, HandlerStep DEF AdvertiseBroadcast, Statuses
  <2>3. changes' \in Seq(Change)
    BY <1>5, <2>1 DEF AdvertiseBroadcast, ServerTypeOK, Broadcast, Add, Change
  <2> QED BY <1>5, <2>2, <2>3 DEF AdvertiseBroadcast, ServerTypeOK
<1>6. CASE TeardownBroadcast(c)
  <2>1. call[c].id \in Id /\ call[c].at # "idle"
    BY <1>2, <1>6 DEF TeardownBroadcast, At
  <2>2. call' \in [Clients -> Call] /\ Named'
    BY <1>6, <2>1, HandlerStep DEF TeardownBroadcast, Stages
  <2>3. changes' \in Seq(Change)
    BY <1>6, <2>1
    DEF TeardownBroadcast, TornDown, ServerTypeOK, Broadcast, Remove, Change
  <2> QED BY <1>6, <2>2, <2>3 DEF TeardownBroadcast, ServerTypeOK
<1>7. CASE TeardownRemove(c)
  <2>1. call[c].id \in Id /\ call[c].at # "idle"
    BY <1>2, <1>7 DEF TeardownRemove, At
  <2>2. call' \in [Clients -> Call] /\ Named'
    BY <1>7, <2>1, HandlerStep DEF TeardownRemove, Statuses
  <2>3. listener_tx' \in [Kinds -> [Id -> ListenerSlot]]
    BY <1>7, <2>1 DEF TeardownRemove, ServerTypeOK, ListenerSlot
  <2> QED BY <1>7, <2>2, <2>3 DEF TeardownRemove, ServerTypeOK
<1> QED
  BY <1>1, <1>3, <1>4, <1>5, <1>6, <1>7 DEF Advertise, HandleTeardown

\* A step of any other handler does.
LEMMA TypeOtherHandlers ==
  ASSUME TypeInv, NEW c \in Clients,
         \/ PeerDiscover(c) \/ OpenPeerListener(c)
         \/ OpenListener(c) \/ Signal(c)
  PROVE  TypeInv'
<1> USE DEF TypeInv
<1>1. ASSUME call[c].at # "idle", ~At(c, "advertise", "sent")
      PROVE  call[c].id \in Id
  BY <1>1 DEF Named
<1>2. call[c] \in Call /\ Others(call[c].id) \subseteq Id
  BY DEF ServerTypeOK, Others
<1>3. CASE PeerDiscover(c)
  <2>1. call' \in [Clients -> Call] /\ Named'
    BY <1>1, <1>2, <1>3, HandlerStep DEF PeerDiscover, At
  <2> QED BY <1>3, <2>1 DEF PeerDiscover, ServerTypeOK
<1>4. CASE PeerListenerSnapshot(c)
  <2> DEFINE r == [call[c] EXCEPT !.at = "subscribe",
                                  !.found = Others(call[c].id)]
  <2>1. r \in Call /\ r.id \in Id
    BY <1>1, <1>2, <1>4 DEF PeerListenerSnapshot, At, Call, Stages
  <2>2. call' = [call EXCEPT ![c] = r]
    BY <1>4 DEF PeerListenerSnapshot, ServerTypeOK
  <2>3. call' \in [Clients -> Call] /\ Named'
    BY <2>1, <2>2, CallStep
  <2> QED BY <1>4, <2>3 DEF PeerListenerSnapshot, ServerTypeOK
<1>5. CASE PeerListenerSubscribe(c)
  <2>1. call' \in [Clients -> Call] /\ Named'
    BY <1>1, <1>5, HandlerStep DEF PeerListenerSubscribe, At, Statuses
  <2>2. peer_listener' \in [Clients -> PeerListener]
    <3>1. Len(changes) \in Nat /\ call[c].found \subseteq Id
      BY <1>2 DEF ServerTypeOK, Call
    <3> QED
      BY <1>5, <3>1 DEF PeerListenerSubscribe, ServerTypeOK, PeerListener
  <2> QED BY <1>5, <2>1, <2>2 DEF PeerListenerSubscribe, ServerTypeOK
<1>6. CASE ListenerOpened(c)
  <2>1. call[c].id \in Id /\ call[c].kind \in Kinds
    BY <1>1, <1>2, <1>6 DEF ListenerOpened, At, Call
  <2>2. call' \in [Clients -> Call] /\ Named'
    BY <1>6, <2>1, HandlerStep DEF ListenerOpened, At, Statuses
  <2>3. listener_tx' \in [Kinds -> [Id -> ListenerSlot]]
    <3>1. {c} \in ListenerSlot
      BY DEF ListenerSlot
    <3> QED BY <1>6, <2>1, <3>1 DEF ListenerOpened, ServerTypeOK
  <2>4. queue' \in [Kinds -> [Clients -> Seq(Id \cup {None})]]
    <3>1. <<None>> \in Seq(Id \cup {None})
      OBVIOUS
    <3> QED BY <1>6, <2>1, <3>1 DEF ListenerOpened, ServerTypeOK
  <2>5. rx' \in [Kinds -> [Clients -> {"none", "open", "dropped"}]]
    BY <1>6, <2>1 DEF ListenerOpened, ServerTypeOK
  <2> QED BY <1>6, <2>2, <2>3, <2>4, <2>5 DEF ListenerOpened, ServerTypeOK
<1>7. CASE ListenerRefused(c)
  <2>1. call' \in [Clients -> Call] /\ Named'
    BY <1>1, <1>7, HandlerStep DEF ListenerRefused, At, Statuses
  <2> QED BY <1>7, <2>1 DEF ListenerRefused, ServerTypeOK
<1>8. CASE SignalRejected(c)
  <2>1. call' \in [Clients -> Call] /\ Named'
    BY <1>1, <1>8, HandlerStep DEF SignalRejected, At, Statuses
  <2> QED BY <1>8, <2>1 DEF SignalRejected, ServerTypeOK
<1>9. CASE SignalAccepted(c)
  <2>1. call' \in [Clients -> Call] /\ Named'
    BY <1>1, <1>9, HandlerStep DEF SignalAccepted, At, Statuses
  <2>2. call[c].kind \in Kinds /\ Forwarded(c) \in Id \cup {None}
    BY <1>2 DEF Call, Forwarded
  <2>3. queue' \in [Kinds -> [Clients -> Seq(Id \cup {None})]]
    <3> DEFINE kind == call[c].kind
    <3>1. PICK d : /\ d \in Target(c)
                   /\ queue' = [queue EXCEPT ![kind][d] =
                                               Append(@, Forwarded(c))]
      BY <1>9 DEF SignalAccepted
    <3>2. CASE d \in Clients
      <4>1. queue[kind][d] \in Seq(Id \cup {None})
        BY <2>2, <3>2 DEF ServerTypeOK
      <4>2. Append(queue[kind][d], Forwarded(c)) \in Seq(Id \cup {None})
        BY <2>2, <4>1
      <4> QED BY <2>2, <3>1, <3>2, <4>2 DEF ServerTypeOK
    <3>3. d \in Clients
      <4>1. call[c].id \in Id
        BY <1>1, <1>9 DEF SignalAccepted, At
      <4> QED BY <2>2, <3>1, <4>1 DEF Target, ServerTypeOK, ListenerSlot
    <3> QED BY <3>2, <3>3
  <2> QED BY <1>9, <2>1, <2>3 DEF SignalAccepted, ServerTypeOK
<1>10. CASE SignalFull(c)
  <2>1. call' \in [Clients -> Call] /\ Named'
    BY <1>1, <1>10, HandlerStep DEF SignalFull, At, Statuses
  <2> QED BY <1>10, <2>1 DEF SignalFull, ServerTypeOK
<1>11. CASE SignalDisconnected(c)
  <2>1. call' \in [Clients -> Call] /\ Named'
    BY <1>1, <1>11, HandlerStep DEF SignalDisconnected, At, Stages
  <2> QED BY <1>11, <2>1 DEF SignalDisconnected, ServerTypeOK
<1> QED
  BY <1>3, <1>4, <1>5, <1>6, <1>7, <1>8, <1>9, <1>10, <1>11
  DEF OpenPeerListener, OpenListener, Signal

\* A caller keeps the type of its call.
LEMMA CallerType ==
  ASSUME TypeInv, NEW c \in Clients,
         \/ \E r \in Requests : Request(c, r)
         \/ TakeReply(c)
         \/ RequestLost(c)
  PROVE  call' \in [Clients -> Call] /\ Named'
<1>1. CASE \E r \in Requests : Request(c, r)
  BY <1>1, RequestType, CallStep DEF Request
<1>2. CASE TakeReply(c) \/ RequestLost(c)
  <2>1. NoCall \in Call /\ NoCall.at = "idle"
    BY NoCallType DEF NoCall
  <2>2. call' = [call EXCEPT ![c] = NoCall]
    BY <1>2 DEF TakeReply, RequestLost
  <2> QED BY <2>1, <2>2, CallStep
<1> QED BY <1>1, <1>2

\* The reader of a peer listener keeps the type of its stream.
LEMMA PeerListenerType ==
  ASSUME TypeInv, NEW c \in Clients,
         \/ ReceiveInitial(c) \/ ReceiveChange(c)
         \/ ReceiveLagged(c) \/ DropPeerListener(c)
  PROVE  peer_listener' \in [Clients -> PeerListener]
<1> DEFINE stream == peer_listener[c]
           pos    == stream.pos + 1
<1>1. /\ peer_listener \in [Clients -> PeerListener]
      /\ stream \in PeerListener
  BY DEF TypeInv, ServerTypeOK
<1>2. CASE ReceiveInitial(c)
  <2>1. [stream EXCEPT !.first = FALSE] \in PeerListener
    BY <1>1 DEF PeerListener
  <2>2. peer_listener' =
          [peer_listener EXCEPT ![c] = [stream EXCEPT !.first = FALSE]]
    BY <1>1, <1>2 DEF ReceiveInitial
  <2> QED BY <1>1, <2>1, <2>2
<1>3. CASE ReceiveChange(c)
  <2>1. [stream EXCEPT !.pos = pos] \in PeerListener
    BY <1>1 DEF PeerListener
  <2>2. peer_listener' =
          [peer_listener EXCEPT ![c] = [stream EXCEPT !.pos = pos]]
    BY <1>1, <1>3 DEF ReceiveChange
  <2> HIDE DEF pos
  <2> QED BY <1>1, <2>1, <2>2
<1>4. CASE ReceiveLagged(c) \/ DropPeerListener(c)
  <2>1. [stream EXCEPT !.state = "dropped"] \in PeerListener
    BY <1>1 DEF PeerListener
  <2>2. peer_listener' =
          [peer_listener EXCEPT ![c] = [stream EXCEPT !.state = "dropped"]]
    BY <1>1, <1>4 DEF ReceiveLagged, DropPeerListener
  <2> QED BY <1>1, <2>1, <2>2
<1> QED BY <1>2, <1>3, <1>4

\* So does the reader of a listener.
LEMMA SignalStreamType ==
  ASSUME TypeInv, NEW c \in Clients, NEW kind \in Kinds,
         ReceiveSignal(c, kind) \/ DropListener(c, kind)
  PROVE  /\ queue' \in [Kinds -> [Clients -> Seq(Id \cup {None})]]
         /\ rx' \in [Kinds -> [Clients -> {"none", "open", "dropped"}]]
<1>1. queue[kind][c] \in Seq(Id \cup {None})
  BY DEF TypeInv, ServerTypeOK
<1>2. CASE ReceiveSignal(c, kind)
  <2>1. Tail(queue[kind][c]) \in Seq(Id \cup {None})
    BY <1>1, <1>2 DEF ReceiveSignal
  <2> QED BY <1>2, <2>1 DEF ReceiveSignal, TypeInv, ServerTypeOK
<1>3. CASE DropListener(c, kind)
  <2>1. << >> \in Seq(Id \cup {None})
    OBVIOUS
  <2> QED BY <1>3, <2>1 DEF DropListener, TypeInv, ServerTypeOK
<1> QED BY <1>2, <1>3

\* Every step keeps the types.
LEMMA TypeNext == TypeInv /\ [ServerNext]_serverVars => TypeInv'
<1> SUFFICES ASSUME TypeInv, [ServerNext]_serverVars PROVE TypeInv'
  OBVIOUS
<1>1. CASE UNCHANGED serverVars
  BY <1>1 DEF serverVars, TypeInv, ServerTypeOK, Named, At
<1>2. ASSUME NEW c \in Clients, Handler(c) PROVE TypeInv'
  BY <1>2, TypeDirectory, TypeOtherHandlers DEF Handler
<1>3. ASSUME NEW c \in Clients, Caller(c) PROVE TypeInv'
  <2>1. call' \in [Clients -> Call] /\ Named'
    BY <1>3, CallerType DEF Caller
  <2> QED BY <1>3, <2>1 DEF Caller, directoryVars, TypeInv, ServerTypeOK
<1>4. ASSUME NEW c \in Clients, PeerListenerReader(c) PROVE TypeInv'
  <2>1. peer_listener' \in [Clients -> PeerListener]
    BY <1>4, PeerListenerType DEF PeerListenerReader
  <2> QED
    BY <1>4, <2>1
    DEF PeerListenerReader, directoryVars, TypeInv, ServerTypeOK, Named, At
<1>5. ASSUME NEW c \in Clients, PeerListenerReaction(c) PROVE TypeInv'
  <2>1. /\ peer_listener' \in [Clients -> PeerListener]
        /\ call' \in [Clients -> Call] /\ Named'
    BY <1>5, PeerListenerType, CallerType DEF PeerListenerReaction
  <2> QED
    BY <1>5, <2>1 DEF PeerListenerReaction, directoryVars, TypeInv, ServerTypeOK
<1>6. ASSUME NEW c \in Clients, SignalReader(c) PROVE TypeInv'
  <2>1. /\ queue' \in [Kinds -> [Clients -> Seq(Id \cup {None})]]
        /\ rx' \in [Kinds -> [Clients -> {"none", "open", "dropped"}]]
    BY <1>6, SignalStreamType DEF SignalReader
  <2> QED
    BY <1>6, <2>1
    DEF SignalReader, directoryVars, TypeInv, ServerTypeOK, Named, At
<1> QED
  BY <1>1, <1>2, <1>3, <1>4, <1>5, <1>6 DEF ServerNext

\* The types are an invariant, and so is that every started call names a peer.
LEMMA ServerTypeInvariant == ServerSpec => []TypeInv
  BY TypeInit, TypeNext, PTL DEF ServerSpec

\* The state of the server always has its type: every identifier in the map, in
\* a channel, in a broadcast change or in a reply is one the counter may hand
\* out, and no entry has two listeners of a kind, wrapping counter or not.
THEOREM TypeCorrect == ServerSpec => []ServerTypeOK
<1>1. TypeInv => ServerTypeOK
  BY DEF TypeInv
<1> QED BY <1>1, ServerTypeInvariant, PTL

-----------------------------------------------------------------------------
(* Listeners.                                                              *)

\* No handler takes the listener of a peer that stays, or replaces it.
LEMMA HandlerKeepsListeners ==
  ASSUME ServerTypeOK, NEW c \in Clients, Handler(c),
         NEW kind \in Kinds, NEW id \in peers \cap peers',
         listener_tx[kind][id] # {}
  PROVE  listener_tx'[kind][id] = listener_tx[kind][id]
<1> USE DEF ServerTypeOK
<1>1. CASE AdvertiseInsert(c)
  <2>1. id # call[c].id /\ id \in Id
    BY <1>1 DEF AdvertiseInsert, Duplicate
  <2> QED BY <1>1, <2>1 DEF AdvertiseInsert
<1>2. CASE TeardownRemove(c)
  <2>1. id # TornDown(c) /\ id \in Id
    BY <1>2 DEF TeardownRemove
  <2> QED BY <1>2, <2>1 DEF TeardownRemove
<1>3. CASE ListenerOpened(c)
  <2>1. ~(kind = call[c].kind /\ id = call[c].id) /\ id \in Id
    BY <1>3 DEF ListenerOpened, Unset
  <2> QED BY <1>3, <2>1 DEF ListenerOpened
<1>4. CASE ~(AdvertiseInsert(c) \/ TeardownRemove(c) \/ ListenerOpened(c))
  <2>1. UNCHANGED listener_tx
    BY <1>4
    DEF Handler, Advertise, FetchAdd, AdvertiseDuplicate, AdvertiseBroadcast,
        HandleTeardown, TeardownBroadcast, PeerDiscover, OpenPeerListener,
        PeerListenerSnapshot, PeerListenerSubscribe, OpenListener,
        ListenerRefused, Signal, SignalRejected, SignalAccepted, SignalFull,
        SignalDisconnected
  <2> QED BY <2>1
<1> QED BY <1>1, <1>2, <1>3, <1>4

\* A listener stays its peer's listener for as long as the peer is advertised,
\* whatever else is advertised, opened or torn down meanwhile.
THEOREM ListenersKept == ServerSpec => ListenerKept
<1> DEFINE Kept == \A kind \in Kinds : \A id \in peers \cap peers' :
                     listener_tx[kind][id] # {} =>
                       listener_tx'[kind][id] = listener_tx[kind][id]
<1>1. TypeInv /\ [ServerNext]_serverVars => [Kept]_serverVars
  <2> SUFFICES ASSUME TypeInv, ServerNext PROVE Kept
    OBVIOUS
  <2>1. PICK c \in Clients : \/ Handler(c)
                             \/ Caller(c)
                             \/ PeerListenerReader(c)
                             \/ PeerListenerReaction(c)
                             \/ SignalReader(c)
    BY DEF ServerNext
  <2>2. CASE Handler(c)
    BY <2>2, HandlerKeepsListeners DEF TypeInv
  <2>3. CASE ~Handler(c)
    BY <2>1, <2>3
    DEF Caller, PeerListenerReader, PeerListenerReaction, SignalReader,
        directoryVars
  <2> QED BY <2>2, <2>3
<1> QED BY <1>1, ServerTypeInvariant, PTL DEF ServerSpec, ListenerKept

-----------------------------------------------------------------------------
(* The inductive invariant.  What is announced can only be kept true with   *)
(* what the handlers have in hand between two of their steps: an identifier *)
(* taken from the counter and not inserted yet is held by one caller and is *)
(* not in the directory, and whoever is about to remove has announced it.   *)

HandedOut == \A id \in peers : id < generator

InsertFresh ==
    \A c \in Clients :
      At(c, "advertise", "insert") =>
        /\ call[c].id \in Id
        /\ call[c].id < generator
        /\ call[c].id \notin peers

InsertAlone ==
    \A c, d \in Clients :
      /\ At(c, "advertise", "insert")
      /\ At(d, "advertise", "insert")
      /\ call[c].id = call[d].id
      => c = d

RemovePending ==
    \A c \in Clients :
      call[c].at = "remove" => Broadcasts(Remove(call[c].id))

DirectoryInv ==
    /\ HandedOut
    /\ InsertFresh
    /\ InsertAlone
    /\ RemovePending
    /\ RemovalAnnounced
    /\ AdditionAnnounced

\* What a step does to the abstract directory.
DirectoryStep == [Directory!Next]_(Directory!vars)

-----------------------------------------------------------------------------
(* What a step does to the calls and to the broadcast channel.             *)

\* c's call goes to another stage, about the same peer; no other call moves.
Moves(c, stage) ==
    /\ call'[c].at = stage
    /\ call'[c].op = call[c].op
    /\ call'[c].id = call[c].id
    /\ \A d \in Clients \ {c} : call'[d] = call[d]

\* The stages in which a handler holds something of the directory.
Critical == {"insert", "announce", "remove"}

\* A step that neither concerns the directory nor what handlers hold of it.
Uninvolved(c) ==
    /\ UNCHANGED <<generator, peers, changes>>
    /\ call[c].at \notin Critical
    /\ call'[c].at \notin Critical
    /\ \A d \in Clients \ {c} : call'[d] = call[d]

Advances(c) == \/ FetchAdd(c)
               \/ AdvertiseInsert(c)
               \/ AdvertiseDuplicate(c)
               \/ AdvertiseBroadcast(c)
               \/ TeardownBroadcast(c)
               \/ TeardownRemove(c)

\* The ways a handler goes on are moves.
LEMMA HandlerMoves ==
  ASSUME ServerTypeOK, NEW c \in Clients, NEW stage,
         \/ GoTo(c, stage)
         \/ stage = "replied" /\ \E status : Reply(c, status)
         \/ stage = "replied" /\ \E ids : ReplyFound(c, ids)
  PROVE  Moves(c, stage)
<1>1. call \in [Clients -> Call] /\ call[c] \in Call
  BY DEF ServerTypeOK
<1>2. CASE GoTo(c, stage)
  <2>1. call' = [call EXCEPT ![c] = [call[c] EXCEPT !.at = stage]]
    BY <1>1, <1>2 DEF GoTo
  <2> QED BY <1>1, <2>1 DEF Moves, Call
<1>3. CASE stage = "replied" /\ \E status : Reply(c, status)
  <2> PICK status : Reply(c, status)
    BY <1>3
  <2>1. call' = [call EXCEPT ![c] =
                   [call[c] EXCEPT !.at = "replied", !.status = status]]
    BY <1>1 DEF Reply
  <2> QED BY <1>1, <1>3, <2>1 DEF Moves, Call
<1>4. CASE stage = "replied" /\ \E ids : ReplyFound(c, ids)
  <2> PICK ids : ReplyFound(c, ids)
    BY <1>4
  <2>1. call' = [call EXCEPT ![c] =
                   [call[c] EXCEPT !.at = "replied", !.found = ids]]
    BY <1>1 DEF ReplyFound
  <2> QED BY <1>1, <1>4, <2>1 DEF Moves, Call
<1> QED BY <1>2, <1>3, <1>4

\* After an append, exactly one more change has been broadcast.
LEMMA BroadcastAdds ==
  ASSUME changes \in Seq(Change), NEW change, Broadcast(change), NEW other
  PROVE  Broadcasts(other)' <=> Broadcasts(other) \/ other = change
<1>1. /\ changes' = Append(changes, change)
      /\ Len(changes) \in Nat
      /\ DOMAIN changes = 1 .. Len(changes)
      /\ DOMAIN changes' = 1 .. Len(changes) + 1
      /\ \A i \in 1 .. Len(changes) : changes'[i] = changes[i]
      /\ changes'[Len(changes) + 1] = change
  BY DEF Broadcast
<1>2. ASSUME Broadcasts(other)' PROVE Broadcasts(other) \/ other = change
  BY <1>1, <1>2 DEF Broadcasts
<1>3. ASSUME Broadcasts(other) PROVE Broadcasts(other)'
  BY <1>1, <1>3 DEF Broadcasts
<1>4. ASSUME other = change PROVE Broadcasts(other)'
  <2>1. Len(changes) + 1 \in DOMAIN changes'
    BY <1>1
  <2> QED BY <1>1, <1>4, <2>1 DEF Broadcasts
<1> QED BY <1>2, <1>3, <1>4

\* The steps of the other handlers do not involve it.
LEMMA OtherHandlersUninvolved ==
  ASSUME ServerTypeOK, NEW c \in Clients,
         \/ PeerDiscover(c) \/ OpenPeerListener(c)
         \/ OpenListener(c) \/ Signal(c)
  PROVE  Uninvolved(c)
<1> USE DEF Uninvolved, Critical, At
<1>1. CASE PeerDiscover(c)
  <2>1. Moves(c, "replied")
    BY <1>1, HandlerMoves DEF PeerDiscover
  <2> QED BY <1>1, <2>1 DEF PeerDiscover, Moves
<1>2. CASE PeerListenerSnapshot(c)
  <2>1. call[c] \in Call /\ call \in [Clients -> Call]
    BY DEF ServerTypeOK
  <2>2. call' = [call EXCEPT ![c] =
                   [call[c] EXCEPT !.at = "subscribe",
                                   !.found = Others(call[c].id)]]
    BY <1>2, <2>1 DEF PeerListenerSnapshot
  <2> QED BY <1>2, <2>1, <2>2 DEF PeerListenerSnapshot, Call
<1>3. CASE PeerListenerSubscribe(c)
  <2>1. Moves(c, "replied")
    BY <1>3, HandlerMoves DEF PeerListenerSubscribe
  <2> QED BY <1>3, <2>1 DEF PeerListenerSubscribe, Moves
<1>4. CASE OpenListener(c)
  <2>1. Moves(c, "replied")
    BY <1>4, HandlerMoves DEF OpenListener, ListenerOpened, ListenerRefused
  <2> QED
    BY <1>4, <2>1 DEF OpenListener, ListenerOpened, ListenerRefused, Moves
<1>5. CASE SignalRejected(c) \/ SignalAccepted(c) \/ SignalFull(c)
  <2>1. Moves(c, "replied")
    BY <1>5, HandlerMoves DEF SignalRejected, SignalAccepted, SignalFull
  <2> QED
    BY <1>5, <2>1 DEF SignalRejected, SignalAccepted, SignalFull, Moves
<1>6. CASE SignalDisconnected(c)
  <2>1. Moves(c, "teardown")
    BY <1>6, HandlerMoves DEF SignalDisconnected
  <2> QED BY <1>6, <2>1 DEF SignalDisconnected, Moves
<1> QED
  BY <1>1, <1>2, <1>3, <1>4, <1>5, <1>6 DEF OpenPeerListener, Signal

\* So are those of a caller.
LEMMA CallerUninvolved ==
  ASSUME ServerTypeOK, NEW c \in Clients,
         \/ \E r \in Requests : Request(c, r)
         \/ TakeReply(c)
         \/ RequestLost(c),
         UNCHANGED <<generator, peers, changes>>
  PROVE  Uninvolved(c)
<1>1. call \in [Clients -> Call]
  BY DEF ServerTypeOK
<1>2. CASE \E r \in Requests : Request(c, r)
  <2> PICK r \in Requests : Request(c, r)
    BY <1>2
  <2>1. r.at = "sent"
    BY RequestType
  <2> QED BY <1>1, <2>1 DEF Request, Uninvolved, Critical
<1>3. CASE TakeReply(c) \/ RequestLost(c)
  <2>1. NoCall.at = "idle"
    BY DEF NoCall
  <2> QED BY <1>1, <1>3, <2>1 DEF TakeReply, RequestLost, Uninvolved, Critical
<1> QED BY <1>2, <1>3

\* Every step of the server is one of six that concern the directory, or does
\* not involve it, or moves no call at all.
LEMMA StepKinds ==
  ASSUME ServerTypeOK, [ServerNext]_serverVars
  PROVE  \/ UNCHANGED <<generator, peers, changes, call>>
         \/ \E c \in Clients : Advances(c) \/ Uninvolved(c)
<1>1. CASE UNCHANGED serverVars
  BY <1>1 DEF serverVars
<1>2. ASSUME NEW c \in Clients, Handler(c) PROVE Advances(c) \/ Uninvolved(c)
  BY <1>2, OtherHandlersUninvolved DEF Handler, Advertise, HandleTeardown, Advances
<1>3. ASSUME NEW c \in Clients, Caller(c) PROVE Uninvolved(c)
  BY <1>3, CallerUninvolved DEF Caller, directoryVars
<1>4. ASSUME NEW c \in Clients, PeerListenerReader(c) \/ SignalReader(c)
      PROVE  UNCHANGED <<generator, peers, changes, call>>
  BY <1>4 DEF PeerListenerReader, SignalReader, directoryVars
<1>5. ASSUME NEW c \in Clients, PeerListenerReaction(c) PROVE Uninvolved(c)
  BY <1>5, CallerUninvolved DEF PeerListenerReaction, directoryVars
<1> QED BY <1>1, <1>2, <1>3, <1>4, <1>5 DEF ServerNext

-----------------------------------------------------------------------------
(* Each kind of step keeps the invariant, and does to the abstract         *)
(* directory what one step of PeerDirectory may do, or nothing.            *)

USE DEF DirectoryInv

\* A step that concerns neither the directory nor a handler's hold on it changes
\* nothing the invariant or the abstraction looks at.
LEMMA UninvolvedStep ==
  ASSUME ServerTypeOK, DirectoryInv,
         \/ UNCHANGED <<generator, peers, changes, call>>
         \/ \E c \in Clients : Uninvolved(c)
  PROVE  DirectoryInv' /\ DirectoryStep
<1>1. UNCHANGED <<generator, peers, changes>>
  BY DEF Uninvolved
<1>2. \A c \in Clients : \A stage \in Critical :
        \/ call'[c] = call[c]
        \/ call'[c].at # stage /\ call[c].at # stage
  BY DEF Uninvolved
<1>3. \A id : /\ Broadcasts(Remove(id))' <=> Broadcasts(Remove(id))
              /\ Broadcasts(Add(id))' <=> Broadcasts(Add(id))
  BY <1>1 DEF Broadcasts, Add, Remove
<1>4. \A c \in Clients :
        /\ At(c, "advertise", "insert")' <=> At(c, "advertise", "insert")
        /\ At(c, "advertise", "announce")' <=> At(c, "advertise", "announce")
        /\ call'[c].at = "remove" <=> call[c].at = "remove"
        /\ call[c].at \in Critical => call'[c].id = call[c].id
  BY <1>2 DEF At, Critical
<1>5. \A id : (Inserting(id)' <=> Inserting(id))
              /\ (Announcing(id)' <=> Announcing(id))
  BY <1>4 DEF Inserting, Announcing, At, Critical
<1>6. Departed' = Departed
  BY <1>1, <1>5 DEF Departed
<1>7. HandedOut' /\ InsertFresh' /\ InsertAlone'
  BY <1>1, <1>4 DEF HandedOut, InsertFresh, InsertAlone, At, Critical
<1>8. RemovePending'
  BY <1>3, <1>4 DEF RemovePending, Critical
<1>9. RemovalAnnounced' /\ AdditionAnnounced'
  BY <1>1, <1>3, <1>5, <1>6 DEF RemovalAnnounced, AdditionAnnounced
<1>10. UNCHANGED Directory!vars
  BY <1>1, <1>3, <1>6 DEF Directory!vars
<1> QED BY <1>7, <1>8, <1>9, <1>10 DEF DirectoryStep

\* advertise takes an identifier nobody holds.
LEMMA FetchAddStep ==
  ASSUME TypeInv, DirectoryInv, ~Wraps, NEW c \in Clients, FetchAdd(c)
  PROVE  DirectoryInv' /\ DirectoryStep
<1> DEFINE r == [call[c] EXCEPT !.at = "insert", !.id = generator]
<1>1. /\ generator \in Nat /\ generator' = generator + 1 /\ generator \in Id
      /\ UNCHANGED <<peers, changes>>
      /\ peers \subseteq Int
  BY ServerAssumption
  DEF FetchAdd, NextId, TypeInv, ServerTypeOK, Id, ServerAssumption
<1>2. /\ call' = [call EXCEPT ![c] = r]
      /\ call \in [Clients -> Call] /\ call[c] \in Call
  BY DEF FetchAdd, TypeInv, ServerTypeOK
<1>3. /\ call'[c].at = "insert" /\ call'[c].op = "advertise"
      /\ call'[c].id = generator
      /\ ~At(c, "advertise", "insert") /\ ~At(c, "advertise", "announce")
      /\ \A d \in Clients \ {c} : call'[d] = call[d]
  BY <1>2 DEF Call, FetchAdd, At
<1> HIDE DEF r
<1>4. \A id : /\ Broadcasts(Remove(id))' <=> Broadcasts(Remove(id))
              /\ Broadcasts(Add(id))' <=> Broadcasts(Add(id))
  BY <1>1 DEF Broadcasts, Add, Remove
<1>5. \A id : /\ Inserting(id)' <=> Inserting(id) \/ id = generator
              /\ Announcing(id)' <=> Announcing(id)
  BY <1>3 DEF Inserting, Announcing, At
<1>6. Departed' = Departed
  BY <1>1, <1>5 DEF Departed
<1>7. HandedOut'
  BY <1>1 DEF HandedOut
<1>8. InsertFresh'
  BY <1>1, <1>3 DEF InsertFresh, HandedOut, At, Id
<1>9. InsertAlone'
  BY <1>1, <1>3 DEF InsertAlone, InsertFresh, At, Id
<1>10. RemovePending'
  BY <1>3, <1>4 DEF RemovePending
<1>11. RemovalAnnounced' /\ AdditionAnnounced'
  BY <1>1, <1>4, <1>5, <1>6 DEF RemovalAnnounced, AdditionAnnounced
<1>12. UNCHANGED Directory!vars
  BY <1>1, <1>4, <1>6 DEF Directory!vars
<1> QED BY <1>7, <1>8, <1>9, <1>10, <1>11, <1>12 DEF DirectoryStep

\* advertise inserts it: it joins the directory, and c is to announce it.
LEMMA AdvertiseInsertStep ==
  ASSUME TypeInv, DirectoryInv, NEW c \in Clients, AdvertiseInsert(c)
  PROVE  DirectoryInv' /\ DirectoryStep
<1> DEFINE new == call[c].id
<1>1. /\ UNCHANGED <<generator, changes>>
      /\ peers' = peers \cup {new}
      /\ new \in Id /\ new < generator /\ new \notin peers
      /\ generator \in Nat /\ peers \subseteq Id
  BY DEF AdvertiseInsert, InsertFresh, TypeInv, ServerTypeOK, Id
<1>2. Moves(c, "announce") /\ At(c, "advertise", "insert")
  BY HandlerMoves DEF AdvertiseInsert, TypeInv
<1>3. \A id : /\ Broadcasts(Remove(id))' <=> Broadcasts(Remove(id))
              /\ Broadcasts(Add(id))' <=> Broadcasts(Add(id))
  BY <1>1 DEF Broadcasts, Add, Remove
<1>4. \A id : /\ Inserting(id)' <=> Inserting(id) /\ id # new
              /\ Announcing(id)' <=> Announcing(id) \/ id = new
  BY <1>2 DEF Inserting, Announcing, InsertAlone, Moves, At
<1>5. Departed' = Departed /\ new \notin Departed
  BY <1>1, <1>2, <1>4 DEF Departed, Inserting
<1>6. HandedOut'
  BY <1>1 DEF HandedOut
<1>7. InsertFresh' /\ InsertAlone'
  BY <1>1, <1>2 DEF InsertFresh, InsertAlone, Moves, At
<1>8. RemovePending'
  BY <1>2, <1>3 DEF RemovePending, Moves
<1>9. RemovalAnnounced' /\ AdditionAnnounced'
  BY <1>1, <1>3, <1>4, <1>5 DEF RemovalAnnounced, AdditionAnnounced
<1>10. Directory!Join(new)
  BY <1>1, <1>3, <1>5 DEF Directory!Join
<1> QED
  BY <1>1, <1>6, <1>7, <1>8, <1>9, <1>10 DEF DirectoryStep, Directory!Next

\* Nobody's identifier is a duplicate: that error path is never taken.
LEMMA NoDuplicateStep ==
  ASSUME DirectoryInv, NEW c \in Clients
  PROVE  ~AdvertiseDuplicate(c)
  BY DEF InsertFresh, AdvertiseDuplicate, Duplicate

\* advertise announces it.
LEMMA AdvertiseBroadcastStep ==
  ASSUME TypeInv, DirectoryInv, NEW c \in Clients, AdvertiseBroadcast(c)
  PROVE  DirectoryInv' /\ DirectoryStep
<1> DEFINE new == call[c].id
<1>1. UNCHANGED <<generator, peers>> /\ Broadcast(Add(new))
  BY DEF AdvertiseBroadcast
<1>2. Moves(c, "replied") /\ At(c, "advertise", "announce")
  BY HandlerMoves DEF AdvertiseBroadcast, TypeInv
<1>3. \A id : /\ Broadcasts(Remove(id))' <=> Broadcasts(Remove(id))
              /\ Broadcasts(Add(id))' <=> Broadcasts(Add(id)) \/ id = new
  <2>1. changes \in Seq(Change)
    BY DEF TypeInv, ServerTypeOK
  <2>2. \A id : Remove(id) # Add(new) /\ (Add(id) = Add(new) <=> id = new)
    BY DEF Add, Remove
  <2>3. \A change : Broadcasts(change)' <=>
                      Broadcasts(change) \/ change = Add(new)
    BY <1>1, <2>1, BroadcastAdds
  <2> QED BY <2>2, <2>3
<1>4. \A id : /\ Inserting(id)' <=> Inserting(id)
              /\ Announcing(id) => Announcing(id)' \/ id = new
  BY <1>2 DEF Inserting, Announcing, Moves, At
<1>5. Departed' = Departed
  BY <1>1, <1>4 DEF Departed
<1>6. HandedOut' /\ InsertFresh' /\ InsertAlone'
  BY <1>1, <1>2 DEF HandedOut, InsertFresh, InsertAlone, Moves, At
<1>7. RemovePending'
  BY <1>2, <1>3 DEF RemovePending, Moves
<1>8. RemovalAnnounced' /\ AdditionAnnounced'
  BY <1>1, <1>3, <1>4, <1>5 DEF RemovalAnnounced, AdditionAnnounced
<1>9. UNCHANGED Directory!vars
  BY <1>1, <1>3, <1>5 DEF Directory!vars
<1> QED BY <1>6, <1>7, <1>8, <1>9 DEF DirectoryStep

\* handle_teardown announces that the peer leaves.
LEMMA TeardownBroadcastStep ==
  ASSUME TypeInv, DirectoryInv, NEW c \in Clients, TeardownBroadcast(c)
  PROVE  DirectoryInv' /\ DirectoryStep
<1> DEFINE old == call[c].id
<1>1. UNCHANGED <<generator, peers>> /\ Broadcast(Remove(old))
  BY DEF TeardownBroadcast, TornDown
<1>2. Moves(c, "remove") /\ call[c].at \in {"sent", "teardown"}
  BY HandlerMoves DEF TeardownBroadcast, TypeInv, At
<1>3. old \in Id
  BY DEF TypeInv, Named, TeardownBroadcast, At
<1>4. \A id : /\ Broadcasts(Remove(id))' <=> Broadcasts(Remove(id)) \/ id = old
              /\ Broadcasts(Add(id))' <=> Broadcasts(Add(id))
  <2>1. changes \in Seq(Change)
    BY DEF TypeInv, ServerTypeOK
  <2>2. \A id : Add(id) # Remove(old) /\ (Remove(id) = Remove(old) <=> id = old)
    BY DEF Add, Remove
  <2>3. \A change : Broadcasts(change)' <=>
                      Broadcasts(change) \/ change = Remove(old)
    BY <1>1, <2>1, BroadcastAdds
  <2> QED BY <2>2, <2>3
<1>5. \A id : /\ Inserting(id)' <=> Inserting(id)
              /\ Announcing(id)' <=> Announcing(id)
  BY <1>2 DEF Inserting, Announcing, Moves, At
<1>6. Departed' = Departed
  BY <1>1, <1>5 DEF Departed
<1>7. HandedOut' /\ InsertFresh' /\ InsertAlone'
  BY <1>1, <1>2 DEF HandedOut, InsertFresh, InsertAlone, Moves, At
<1>8. RemovePending'
  BY <1>2, <1>4 DEF RemovePending, Moves
<1>9. RemovalAnnounced' /\ AdditionAnnounced'
  BY <1>1, <1>4, <1>5, <1>6 DEF RemovalAnnounced, AdditionAnnounced
<1>10. Directory!Announce(old)
  BY <1>1, <1>3, <1>4, <1>6 DEF Directory!Announce
<1> QED
  BY <1>3, <1>7, <1>8, <1>9, <1>10 DEF DirectoryStep, Directory!Next

\* handle_teardown removes the peer, if it was advertised.
LEMMA TeardownRemoveStep ==
  ASSUME TypeInv, DirectoryInv, NEW c \in Clients, TeardownRemove(c)
  PROVE  DirectoryInv' /\ DirectoryStep
<1> DEFINE old == call[c].id
<1>1. /\ UNCHANGED <<generator, changes>>
      /\ peers' = peers \ {old}
      /\ call[c].at = "remove"
      /\ Broadcasts(Remove(old))
  BY DEF TeardownRemove, TornDown, RemovePending
<1>2. Moves(c, "replied")
  BY HandlerMoves DEF TeardownRemove, TypeInv
<1>3. old \in Id /\ generator \in Nat /\ peers \subseteq Id
  <2>1. old \in Id
    BY <1>1 DEF TypeInv, Named, At
  <2>2. generator \in Id /\ peers \subseteq Id
    BY DEF TypeInv, ServerTypeOK
  <2> QED BY <2>1, <2>2 DEF Id
<1>4. \A id : /\ Broadcasts(Remove(id))' <=> Broadcasts(Remove(id))
              /\ Broadcasts(Add(id))' <=> Broadcasts(Add(id))
  BY <1>1 DEF Broadcasts, Add, Remove
<1>5. \A id : /\ Inserting(id)' <=> Inserting(id)
              /\ Announcing(id)' <=> Announcing(id)
  BY <1>1, <1>2 DEF Inserting, Announcing, Moves, At
<1>6. old \in peers => ~Inserting(old) /\ old \in 0 .. generator - 1
  BY <1>3 DEF Inserting, InsertFresh, HandedOut, Id
<1>7. Departed' = IF old \in peers THEN Departed \cup {old} ELSE Departed
  BY <1>1, <1>5, <1>6 DEF Departed
<1>8. HandedOut' /\ InsertFresh' /\ InsertAlone'
  BY <1>1, <1>2 DEF HandedOut, InsertFresh, InsertAlone, Moves, At
<1>9. RemovePending'
  BY <1>2, <1>4 DEF RemovePending, Moves
<1>10. RemovalAnnounced' /\ AdditionAnnounced'
  BY <1>1, <1>4, <1>5, <1>7 DEF RemovalAnnounced, AdditionAnnounced
<1>11. CASE old \in peers
  <2>1. Directory!Leave(old)
    BY <1>1, <1>3, <1>4, <1>7, <1>11 DEF Directory!Leave
  <2> QED
    BY <1>3, <1>8, <1>9, <1>10, <2>1 DEF DirectoryStep, Directory!Next
<1>12. CASE old \notin peers
  <2>1. UNCHANGED Directory!vars
    BY <1>1, <1>4, <1>7, <1>12 DEF Directory!vars
  <2> QED BY <1>8, <1>9, <1>10, <2>1 DEF DirectoryStep
<1> QED BY <1>11, <1>12

-----------------------------------------------------------------------------
(* The theorems.                                                           *)

\* Nothing is in the directory, announced or handed out at first.
LEMMA DirectoryInit == ServerInit => DirectoryInv /\ Directory!Init
<1> SUFFICES ASSUME ServerInit PROVE DirectoryInv /\ Directory!Init
  OBVIOUS
<1>1. /\ generator = 0 /\ peers = {} /\ changes = <<>>
      /\ \A c \in Clients : call[c].at = "idle"
  BY DEF ServerInit, NoCall
<1>2. \A change : ~Broadcasts(change)
  BY <1>1 DEF Broadcasts
<1>3. Departed = {}
  BY <1>1 DEF Departed
<1>4. HandedOut /\ InsertFresh /\ InsertAlone /\ RemovePending
  BY <1>1 DEF HandedOut, InsertFresh, InsertAlone, RemovePending, At
<1>5. RemovalAnnounced /\ AdditionAnnounced
  BY <1>1, <1>3 DEF RemovalAnnounced, AdditionAnnounced
<1>6. Directory!Init
  BY <1>1, <1>2, <1>3 DEF Directory!Init
<1> QED BY <1>4, <1>5, <1>6

\* Every step keeps the invariant and is one of PeerDirectory.
LEMMA DirectoryNext ==
  ASSUME ~Wraps, TypeInv, DirectoryInv, [ServerNext]_serverVars
  PROVE  DirectoryInv' /\ DirectoryStep
<1>1. ServerTypeOK
  BY DEF TypeInv
<1>2. CASE UNCHANGED <<generator, peers, changes, call>>
  BY <1>1, <1>2, UninvolvedStep
<1>3. ASSUME NEW c \in Clients, Uninvolved(c)
      PROVE  DirectoryInv' /\ DirectoryStep
  BY <1>1, <1>3, UninvolvedStep
<1>4. ASSUME NEW c \in Clients, Advances(c)
      PROVE  DirectoryInv' /\ DirectoryStep
  BY <1>4, FetchAddStep, AdvertiseInsertStep, NoDuplicateStep,
     AdvertiseBroadcastStep, TeardownBroadcastStep, TeardownRemoveStep
  DEF Advances
<1> QED BY <1>1, <1>2, <1>3, <1>4, StepKinds

\* The invariant holds in every state.
LEMMA DirectoryInvariant ==
  ASSUME ~Wraps
  PROVE  ServerSpec => [](TypeInv /\ DirectoryInv)
<1>1. ServerInit => TypeInv /\ DirectoryInv
  BY TypeInit, DirectoryInit
<1>2. TypeInv /\ DirectoryInv /\ [ServerNext]_serverVars
        => (TypeInv /\ DirectoryInv)'
  BY TypeNext, DirectoryNext
<1> QED BY <1>1, <1>2, PTL DEF ServerSpec

\* No identifier leaves the directory unannounced, however many callers tear it
\* down at once and whatever else they do meanwhile.
THEOREM RemovalsAreAnnounced ==
  ASSUME ~Wraps
  PROVE  ServerSpec => []RemovalAnnounced
<1>1. DirectoryInv => RemovalAnnounced
  OBVIOUS
<1> QED BY <1>1, DirectoryInvariant, PTL

\* No identifier is in the directory without having been announced, except
\* while its own advertise call is about to.
THEOREM AdditionsAreAnnounced ==
  ASSUME ~Wraps
  PROVE  ServerSpec => []AdditionAnnounced
<1>1. DirectoryInv => AdditionAnnounced
  OBVIOUS
<1> QED BY <1>1, DirectoryInvariant, PTL

\* The server implements the abstract directory: an identifier joins once,
\* leaves only after its departure was announced, and never comes back.
THEOREM ServerImplementsDirectory ==
  ASSUME ~Wraps
  PROVE  ServerSpec => DirectorySpec
<1>1. ServerInit => Directory!Init
  BY DirectoryInit
<1>2. TypeInv /\ DirectoryInv /\ [ServerNext]_serverVars
        => [Directory!Next]_(Directory!vars)
  BY DirectoryNext DEF DirectoryStep
<1> QED
  BY <1>1, <1>2, DirectoryInvariant, PTL
  DEF ServerSpec, DirectorySpec, Directory!Spec
=============================================================================
