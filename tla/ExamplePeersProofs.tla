--------------------------- MODULE ExamplePeersProofs ---------------------------
(***************************************************************************)
(* The example peers, for any number of them and any capacities.  What is  *)
(* proved of signalling peers holds of them, whose callbacks may stop them *)
(* at any time; and as long as the identifier counter does not come round, *)
(* the callbacks hand the connections to each other as they should.        *)
(***************************************************************************)
EXTENDS ExamplePeers, SignallingHandshakeProofs

-----------------------------------------------------------------------------
(* The example's steps are steps of signalling peers.                      *)

ExampleStepOf(c) ==
    \/ Serve(c) /\ UNCHANGED exampleVars
    \/ RunPeer(c)
    \/ \E remote \in Id : EchoReturned(c, remote)
    \/ Abandon(c) /\ DropConnections(c) /\ UNCHANGED failed
    \/ Aftermath(c) /\ UNCHANGED exampleVars

\* A callback that fails stops its peer, and one that takes a connection does
\* nothing yet that the signalling peer sees.
LEMMA ExampleIsStep ==
  ASSUME NEW c \in Clients, ExampleStepOf(c)
  PROVE  StepOf(c) \/ UNCHANGED vars
<1>1. CASE RunPeer(c)
  <2>1. CASE \E remote \in Id : Callback(c, remote)
    BY <2>1
    DEF Callback, OfferCreated, OfferReceived, Take, AnswerReceived, StepOf,
        Peer, StepChain, StepCallback
  <2>2. CASE CallbackFails(c)
    BY <2>2 DEF CallbackFails, Finish, StepOf, Stops
  <2> QED BY <1>1, <2>1, <2>2 DEF RunPeer, StepOf, Peer, StepChain
<1>2. CASE \E remote \in Id : EchoReturned(c, remote)
  BY <1>2 DEF EchoReturned, StepOf, Peer, StepChain, StepCallback
<1>3. CASE Serve(c) \/ Abandon(c) \/ Aftermath(c)
  BY <1>3 DEF StepOf, Abandon, Stops
<1> QED BY <1>1, <1>2, <1>3 DEF ExampleStepOf

\* So the example is made of them.
LEMMA ExampleSteps == ExampleSpec => StepsSpec
<1>1. ExampleInit => Init
  BY DEF ExampleInit
<1>2. [ExampleNext]_allVars => [Steps]_vars
  BY ExampleIsStep DEF ExampleNext, ExampleStepOf, Steps, allVars
<1> QED BY <1>1, <1>2, PTL DEF ExampleSpec, StepsSpec

-----------------------------------------------------------------------------
(* Types.                                                                  *)

MapTypeOK ==
    /\ connections \in [Clients -> [Id -> Roles \cup {"absent", "taken"}]]
    /\ held \in [Clients -> SUBSET (Takers \X Roles \X Id)]
    /\ failed \in [Clients -> SUBSET (Tasks \X Id)]

\* Every step of the example keeps the types of its maps.
LEMMA MapTypeNext ==
  ASSUME MapTypeOK, [ExampleNext]_allVars
  PROVE  MapTypeOK'
<1>1. UNCHANGED exampleVars => MapTypeOK'
  BY DEF MapTypeOK, exampleVars
<1>2. ASSUME NEW c \in Clients, NEW remote \in Id,
             NEW entry \in Roles \cup {"absent", "taken"}, Put(c, remote, entry)
      PROVE  connections' \in [Clients -> [Id -> Roles \cup {"absent", "taken"}]]
  BY <1>2 DEF MapTypeOK, Put
<1>3. ASSUME NEW c \in Clients, DropConnections(c)
      PROVE  /\ connections' \in [Clients -> [Id -> Roles \cup {"absent", "taken"}]]
             /\ held' \in [Clients -> SUBSET (Takers \X Roles \X Id)]
  BY <1>3 DEF MapTypeOK, DropConnections, NoConnections
<1>4. ASSUME NEW c \in Clients, NEW remote \in Id,
             OfferCreated(c, remote) \/ OfferReceived(c, remote)
      PROVE  MapTypeOK'
  BY <1>2, <1>4 DEF OfferCreated, OfferReceived, MapTypeOK, Roles
<1>5. ASSUME NEW c \in Clients, NEW remote \in Id, NEW task \in Takers,
             Take(c, task, remote)
      PROVE  MapTypeOK'
  <2>1. connections[c][remote] \in Roles
    BY <1>5 DEF Take, Takeable
  <2>2. held' \in [Clients -> SUBSET (Takers \X Roles \X Id)]
    BY <1>5, <2>1 DEF Take, MapTypeOK
  <2> QED BY <1>2, <1>5, <2>2 DEF Take, TakenFrom, MapTypeOK
<1>6. ASSUME NEW c \in Clients, NEW remote \in Id, AnswerReceived(c, remote)
      PROVE  MapTypeOK'
  <2>1. held' \in [Clients -> SUBSET (Takers \X Roles \X Id)]
    BY <1>6 DEF AnswerReceived, MapTypeOK
  <2> QED BY <1>2, <1>6, <2>1 DEF AnswerReceived, MapTypeOK
<1>7. ASSUME NEW c \in Clients, NEW remote \in Id, EchoReturned(c, remote)
      PROVE  MapTypeOK'
  BY <1>7 DEF EchoReturned, MapTypeOK
<1>8. ASSUME NEW c \in Clients, CallbackFails(c) PROVE MapTypeOK'
  BY <1>3, <1>8 DEF CallbackFails, MapTypeOK
<1>9. ASSUME NEW c \in Clients, DropConnections(c), UNCHANGED failed
      PROVE  MapTypeOK'
  BY <1>3, <1>9 DEF MapTypeOK
<1> QED
  BY <1>1, <1>4, <1>5, <1>6, <1>7, <1>8, <1>9
  DEF ExampleNext, RunPeer, Callback, allVars

\* The example's maps, and the peers and the server below them, always have their
\* types: no callback takes out of the map what is not a connection.
THEOREM ExampleTypeCorrect == ExampleSpec => []ExampleTypeOK
<1>1. ExampleInit => MapTypeOK
  BY DEF ExampleInit, MapTypeOK, NoConnections
<1>2. MapTypeOK /\ [ExampleNext]_allVars => MapTypeOK'
  BY MapTypeNext
<1>3. PeerTypeInv /\ MapTypeOK => ExampleTypeOK
  BY DEF PeerTypeInv, TypeInv, TypeOK, MapTypeOK, ExampleTypeOK
<1> QED
  BY <1>1, <1>2, <1>3, ExampleSteps, PeerTypeInvariant, PTL DEF ExampleSpec

-----------------------------------------------------------------------------
(* What a step of the signalling peers does to the two chains of one remote *)
(* peer.                                                                   *)

Due(c, task, remote) == <<task, remote>> \in pending[c]

Returns(c, task, remote) == Due(c, task, remote) /\ ~Due(c, task, remote)'

\* The signal was passed to the server, which happens once its callback returned.
Signalled(c, kind, remote) ==
    Signalling(c, kind, remote) \/ Has(c, SentEvent(kind), remote)

SignalMoves(c, kind, remote) ==
    /\ Signalled(c, kind, remote)' =>
         Signalled(c, kind, remote) \/ Returns(c, Task(kind), remote)
    /\ Signalling(c, kind, remote)' /\ Has(c, SentEvent(kind), remote)' =>
         /\ Has(c, SentEvent(kind), remote)
         /\ Signalling(c, kind, remote) \/ Returns(c, Task(kind), remote)
    /\ Queued(c, kind, remote)' =>
         Queued(c, kind, remote) \/ ~Allowed(c, kind, remote)
    /\ Allowed(c, kind, remote) => Allowed(c, kind, remote)'

TaskMoves(c, remote) ==
    /\ Due(c, "receive_answer", remote)' =>
         Due(c, "receive_answer", remote) \/ ~Has(c, "got_answer", remote)
    /\ Due(c, "local_sig_cplt", remote)' =>
         Due(c, "local_sig_cplt", remote) \/ Returns(c, "receive_answer", remote)
    /\ Due(c, "remote_sig_cplt", remote)' =>
         Due(c, "remote_sig_cplt", remote) \/ Signalling(c, "answer", remote)
    /\ Has(c, "local_cplt", remote)' =>
         Has(c, "local_cplt", remote) \/ Returns(c, "local_sig_cplt", remote)
    /\ Has(c, "remote_cplt", remote)' =>
         Has(c, "remote_cplt", remote) \/ Returns(c, "remote_sig_cplt", remote)
    /\ Has(c, "local_cplt", remote) => Has(c, "local_cplt", remote)'
    /\ Has(c, "remote_cplt", remote) => Has(c, "remote_cplt", remote)'

ChainMoves(c, remote) ==
    TaskMoves(c, remote) /\ \A kind \in Kinds : SignalMoves(c, kind, remote)

\* A callback that returns to send its signal, or for good, is not queued again.
LEMMA Dequeues ==
  ASSUME PeerTypeInv, NEW c \in Clients, NEW task, NEW remote
  PROVE  /\ \A kind : SendSignal(c, task, kind, remote) => Returns(c, task, remote)
         /\ \A event : StepCplt(c, task, event, remote) => Returns(c, task, remote)
         /\ StepReceiveAnswer(c, remote) => Returns(c, "receive_answer", remote)
<1>1. pending \in [Clients -> SUBSET (Tasks \X Id)]
  BY DEF PeerTypeInv, PeerTypeOK
<1>2. ASSUME NEW kind, SendSignal(c, task, kind, remote)
      PROVE  Returns(c, task, remote)
  BY <1>1, <1>2 DEF SendSignal, Finish, Dequeued, Returns, Due
<1>3. ASSUME NEW event, StepCplt(c, task, event, remote)
      PROVE  Returns(c, task, remote)
  BY <1>1, <1>3 DEF StepCplt, Finish, Dequeued, Returns, Due
<1>4. ASSUME StepReceiveAnswer(c, remote)
      PROVE  Returns(c, "receive_answer", remote)
  BY <1>1, <1>4 DEF StepReceiveAnswer, Finish, Dequeued, Returns, Due
<1> QED BY <1>2, <1>3, <1>4

\* What is heard was not heard before.
LEMMA HeardIsNew ==
  ASSUME MeshInv, ChainInv, NEW c \in Clients, NEW kind \in Kinds, Heard(c, kind),
         NEW remote \in Id, remote = Head(queue[kind][c])
  PROVE  ~Has(c, GotEvent(kind), remote)
<1>1. queue[kind][c] \in Seq(Id \cup {None}) /\ queue[kind][c] # <<>>
  BY QueueTypes DEF MeshInv, Heard, StepListener, ReceiveSignal
<1>2. In(queue[kind][c], remote)
  BY <1>1, InTail
<1> QED BY <1>2 DEF ChainInv, ArrivesOnce, ArrivesOnceAt

\* How a signal is passed on.
LEMMA SignalMove ==
  ASSUME MeshInv, ChainInv, NEW c \in Clients, StepOf(c), NEW kind \in Kinds,
         NEW remote \in Id
  PROVE  SignalMoves(c, kind, remote)
<1>1. FreshInv /\ PeerTypeInv /\ Grows(c) /\ Kinds = {"offer", "answer"}
  BY Growing DEF ChainInv, MeshInv, Kinds
<1>2. Allowed(c, kind, remote) => Allowed(c, kind, remote)'
  BY <1>1, AllowedStays
<1>3. Signalling(c, kind, remote)' =>
        Signalling(c, kind, remote) \/ Returns(c, Task(kind), remote)
  BY <1>1, SignalCall, Dequeues
<1>4. ASSUME Has(c, SentEvent(kind), remote)', ~Has(c, SentEvent(kind), remote)
      PROVE  Signalling(c, kind, remote) /\ ~Signalling(c, kind, remote)'
  <2>1. SentEvent(kind) \notin {"local_cplt", "remote_cplt"}
        /\ \A k \in Kinds : SentEvent(kind) # GotEvent(k)
    BY <1>1 DEF SentEvent, GotEvent
  <2>2. \/ OfferSignalled(c) /\ SentEvent(kind) = "offered"
           /\ remote = call[c].id
        \/ AnswerSignalled(c) /\ SentEvent(kind) = "answered"
           /\ remote = call[c].id
    BY <1>1, <1>4, <2>1, NewEvent
  <2>3. Signalling(c, kind, remote)
    BY <1>1, <2>2
    DEF OfferSignalled, AnswerSignalled, SentEvent, Returned, Signalling
  <2>4. call'[c] = NoCall
    BY <1>1, <2>2
    DEF OfferSignalled, AnswerSignalled, TakeReply, PeerTypeInv, TypeInv,
        ServerTypeOK
  <2> QED BY <2>3, <2>4 DEF Signalling, NoCall
<1>5. ASSUME Queued(c, kind, remote)', ~Queued(c, kind, remote)
      PROVE  ~Allowed(c, kind, remote)
  <2>1. CASE first_discovery[c] /\ Task(kind) = "create_offer"
    BY <1>1, <2>1 DEF Task, Allowed
  <2>2. ASSUME NEW k \in Kinds, Heard(c, k), Task(kind) = HeardTask(k),
               remote = Head(queue[k][c])
        PROVE  ~Allowed(c, kind, remote)
    <3>1. kind = "answer" /\ k = "offer"
      BY <1>1, <2>2 DEF Task, HeardTask
    <3>2. ~Has(c, "got_offer", remote)
      BY <2>2, <3>1, HeardIsNew DEF GotEvent
    <3> QED BY <3>1, <3>2 DEF Allowed
  <2>3. Task(kind) \notin {"remote_sig_cplt", "local_sig_cplt"}
    BY DEF Task
  <2> QED BY <1>1, <1>5, <2>1, <2>2, <2>3, NewTask DEF Queued
<1> QED BY <1>2, <1>3, <1>4, <1>5 DEF SignalMoves, Signalled

\* How the other callbacks follow each other.
LEMMA TaskMove ==
  ASSUME MeshInv, ChainInv, NEW c \in Clients, StepOf(c), NEW remote \in Id
  PROVE  TaskMoves(c, remote)
<1>1. FreshInv /\ PeerTypeInv /\ Grows(c) /\ Kinds = {"offer", "answer"}
  BY Growing DEF ChainInv, MeshInv, Kinds
<1>2. \A event : Has(c, event, remote) => Has(c, event, remote)'
  BY <1>1 DEF Grows, Has
<1>3. ASSUME Due(c, "receive_answer", remote)', ~Due(c, "receive_answer", remote)
      PROVE  ~Has(c, "got_answer", remote)
  <2>1. PICK kind \in Kinds : /\ Heard(c, kind)
                              /\ HeardTask(kind) = "receive_answer"
                              /\ remote = Head(queue[kind][c])
    BY <1>1, <1>3, NewTask DEF Due
  <2>2. kind = "answer"
    BY <1>1, <2>1 DEF HeardTask
  <2> QED BY <2>1, <2>2, HeardIsNew DEF GotEvent
<1>4. ASSUME Due(c, "local_sig_cplt", remote)', ~Due(c, "local_sig_cplt", remote)
      PROVE  Returns(c, "receive_answer", remote)
  <2>1. \A kind \in Kinds : HeardTask(kind) # "local_sig_cplt"
    BY DEF HeardTask
  <2>2. StepReceiveAnswer(c, remote)
    BY <1>1, <1>4, <2>1, NewTask DEF Due
  <2> QED BY <1>1, <2>2, Dequeues
<1>5. ASSUME Due(c, "remote_sig_cplt", remote)', ~Due(c, "remote_sig_cplt", remote)
      PROVE  Signalling(c, "answer", remote)
  <2>1. \A kind \in Kinds : HeardTask(kind) # "remote_sig_cplt"
    BY DEF HeardTask
  <2>2. AnswerSignalled(c) /\ remote = call[c].id
    BY <1>1, <1>5, <2>1, NewTask DEF Due
  <2> QED BY <2>2 DEF AnswerSignalled, Returned, Signalling
<1>6. \A kind \in Kinds : GotEvent(kind) \notin {"local_cplt", "remote_cplt"}
  BY DEF GotEvent
<1>7. ASSUME Has(c, "local_cplt", remote)', ~Has(c, "local_cplt", remote)
      PROVE  Returns(c, "local_sig_cplt", remote)
  <2>1. StepLocalSigCplt(c, remote)
    BY <1>1, <1>6, <1>7, NewEvent
  <2> QED BY <1>1, <2>1, Dequeues DEF StepLocalSigCplt
<1>8. ASSUME Has(c, "remote_cplt", remote)', ~Has(c, "remote_cplt", remote)
      PROVE  Returns(c, "remote_sig_cplt", remote)
  <2>1. StepRemoteSigCplt(c, remote)
    BY <1>1, <1>6, <1>8, NewEvent
  <2> QED BY <1>1, <2>1, Dequeues DEF StepRemoteSigCplt
<1> QED BY <1>2, <1>3, <1>4, <1>5, <1>7, <1>8 DEF TaskMoves

\* What the signalling peers do not see, or another peer does, moves nothing.
LEMMA NothingMoves ==
  ASSUME NEW d, NEW remote,
         pending'[d] = pending[d], chain'[d] = chain[d], call'[d] = call[d],
         first_discovery'[d] = first_discovery[d],
         peer_listener'[d] = peer_listener[d]
  PROVE  ChainMoves(d, remote)
  BY DEF ChainMoves, TaskMoves, SignalMoves, Signalled, Signalling, Queued, Allowed,
         Due, Has

\* So this is how the chains of any peer move.
LEMMA ChainsMove ==
  ASSUME MeshInv, ChainInv, NEW c \in Clients, ExampleStepOf(c),
         NEW d \in Clients, NEW remote \in Id
  PROVE  ChainMoves(d, remote)
<1>1. CASE UNCHANGED vars
  BY <1>1, NothingMoves DEF vars, serverVars, peerVars
<1>2. CASE StepOf(c) /\ d = c
  BY <1>2, SignalMove, TaskMove DEF ChainMoves
<1>3. CASE StepOf(c) /\ d # c
  BY <1>3, OthersKept, NothingMoves DEF MeshInv, KeptPeer
<1> QED BY <1>1, <1>2, <1>3, ExampleIsStep

-----------------------------------------------------------------------------
(* The entry of a remote peer in the map of connections.                   *)

RoleOf(kind) == IF kind = "offer" THEN "local" ELSE "remote"

\* The chain a callback belongs to, among those that take a connection.
KindOf(task) == IF task = "remote_sig_cplt" THEN "answer" ELSE "offer"

IsHeld(c, task, role, remote) == <<task, role, remote>> \in held[c]

\* A chain that has signalled made the connection, and one that will has not: it
\* cannot, once the other chain has made its own.
MadeOnce(c, remote) ==
    /\ \A kind \in Kinds :
         /\ Signalled(c, kind, remote) =>
              connections[c][remote] \in {RoleOf(kind), "taken"}
         /\ Queued(c, kind, remote) =>
              /\ connections[c][remote] # RoleOf(kind)
              /\ ~Signalled(c, kind, remote)
         /\ connections[c][remote] = RoleOf(kind) => Allowed(c, kind, remote)
         /\ Signalling(c, kind, remote) => ~Has(c, SentEvent(kind), remote)
    /\ ~(Signalled(c, "offer", remote) /\ Signalled(c, "answer", remote))

\* A callback that holds a connection took its own chain's, and the place stays
\* empty for it; a place that is empty was emptied by a callback.
TakenOnce(c, remote) ==
    /\ \A task, role : IsHeld(c, task, role, remote) =>
         /\ Due(c, task, remote)
         /\ role = RoleOf(KindOf(task))
         /\ connections[c][remote] = "taken"
    /\ connections[c][remote] = "taken" =>
         \/ \E task \in Takers : Holds(c, task, remote)
         \/ Has(c, "local_cplt", remote)
         \/ Has(c, "remote_cplt", remote)

\* One callback of a chain at a time, and none once the chain is complete.
OneAtATime(c, remote) ==
    /\ ~(Due(c, "receive_answer", remote) /\ Due(c, "local_sig_cplt", remote))
    /\ Has(c, "local_cplt", remote) =>
         /\ ~Due(c, "receive_answer", remote)
         /\ ~Due(c, "local_sig_cplt", remote)
    /\ Has(c, "remote_cplt", remote) => ~Due(c, "remote_sig_cplt", remote)

EntryInv(c, remote) ==
    MadeOnce(c, remote) /\ TakenOnce(c, remote) /\ OneAtATime(c, remote)

\* A peer that is gone has dropped its callbacks, and the connections they hold.
MapInv ==
    /\ MapTypeOK
    /\ \A c \in Clients :
         IF pc[c] = "gone" THEN pending[c] = {} /\ held[c] = {}
                           ELSE \A remote \in Id : EntryInv(c, remote)

\* Nothing was made or taken at first.
LEMMA MapInit == ExampleInit => MapInv
<1> SUFFICES ASSUME ExampleInit PROVE MapInv
  OBVIOUS
<1>1. MapTypeOK
  BY DEF ExampleInit, MapTypeOK, NoConnections
<1>2. ASSUME NEW c \in Clients, NEW remote \in Id
      PROVE  EntryInv(c, remote)
  <2>1. /\ pc[c] = "new" /\ pending[c] = {} /\ chain[c] = {} /\ held[c] = {}
        /\ call[c] = NoCall /\ connections[c][remote] = "absent"
    BY <1>2 DEF ExampleInit, Init, ServerInit, PeerInit, NoConnections
  <2>2. \A kind : /\ ~Signalled(c, kind, remote) /\ ~Queued(c, kind, remote)
                  /\ RoleOf(kind) # "absent"
    BY <2>1 DEF Signalled, Signalling, NoCall, Queued, Has, RoleOf
  <2>3. MadeOnce(c, remote)
    BY <2>1, <2>2 DEF MadeOnce, Signalled
  <2>4. TakenOnce(c, remote) /\ OneAtATime(c, remote)
    BY <2>1 DEF TakenOnce, IsHeld, OneAtATime, Has, Due
  <2> QED BY <2>1, <2>3, <2>4 DEF EntryInv
<1>3. \A c \in Clients : pc[c] # "gone"
  BY DEF ExampleInit, Init, PeerInit
<1> QED BY <1>1, <1>2, <1>3 DEF MapInv

\* The callbacks that take a connection belong to a chain that has signalled.
LEMMA TakersSignalled ==
  ASSUME ChainInv, NEW c \in Clients, NEW remote \in Id
  PROVE  /\ \/ Due(c, "receive_answer", remote)
            \/ Due(c, "local_sig_cplt", remote)
            \/ Has(c, "local_cplt", remote)
            => Has(c, "got_answer", remote) /\ Signalled(c, "offer", remote)
         /\ \/ Due(c, "remote_sig_cplt", remote)
            \/ Has(c, "remote_cplt", remote)
            => Has(c, "answered", remote) /\ Signalled(c, "answer", remote)
         /\ \A task \in Takers :
              Due(c, task, remote) => Signalled(c, KindOf(task), remote)
         /\ \A kind \in Kinds :
              Signalled(c, kind, remote) \/ Queued(c, kind, remote)
                => Allowed(c, kind, remote)
<1>1. InOrder(c, remote) /\ \A kind \in Kinds : ReasonFor(c, kind, remote)
  BY DEF ChainInv, ChainOrderInv, ReasonsInv
<1>2. /\ \/ Due(c, "receive_answer", remote)
         \/ Due(c, "local_sig_cplt", remote)
         \/ Has(c, "local_cplt", remote)
         => Has(c, "got_answer", remote) /\ Signalled(c, "offer", remote)
      /\ \/ Due(c, "remote_sig_cplt", remote)
         \/ Has(c, "remote_cplt", remote)
         => Has(c, "answered", remote) /\ Signalled(c, "answer", remote)
  BY <1>1 DEF InOrder, Due, Signalled, SentEvent
<1>3. \A task \in Takers :
        Due(c, task, remote) => Signalled(c, KindOf(task), remote)
  BY <1>2 DEF Takers, EchoTasks, KindOf
<1>4. \A kind \in Kinds : Signalled(c, kind, remote) \/ Queued(c, kind, remote)
                            => Allowed(c, kind, remote)
  BY <1>1 DEF ReasonFor, Signals, Signalled
<1> QED BY <1>2, <1>3, <1>4

\* A callback that takes a connection finds the one its chain made, or has it.
LEMMA TakersFind ==
  ASSUME ChainInv, NEW c \in Clients, NEW remote \in Id, EntryInv(c, remote),
         NEW task \in Takers, Due(c, task, remote)
  PROVE  IF Holds(c, task, remote)
           THEN /\ IsHeld(c, task, RoleOf(KindOf(task)), remote)
                /\ connections[c][remote] = "taken"
           ELSE connections[c][remote] = RoleOf(KindOf(task))
<1>1. CASE Holds(c, task, remote)
  BY <1>1 DEF Holds, IsHeld, EntryInv, TakenOnce
<1>2. ASSUME ~Holds(c, task, remote), connections[c][remote] = "taken"
      PROVE  FALSE
  <2>1. ASSUME NEW other \in Takers, Holds(c, other, remote) PROVE FALSE
    <3>1. other # task /\ Due(c, other, remote)
      BY <1>2, <2>1 DEF Holds, IsHeld, EntryInv, TakenOnce
    <3>2. /\ Signalled(c, KindOf(task), remote)
          /\ Signalled(c, KindOf(other), remote)
      BY <3>1, TakersSignalled
    <3>3. KindOf(task) = KindOf(other)
      BY <3>2 DEF EntryInv, MadeOnce, KindOf
    <3>4. {task, other} = {"receive_answer", "local_sig_cplt"}
      BY <3>1, <3>3 DEF KindOf, Takers, EchoTasks
    <3> QED BY <3>1, <3>4 DEF EntryInv, OneAtATime
  <2>2. ASSUME Has(c, "local_cplt", remote) PROVE FALSE
    <3>1. task = "remote_sig_cplt"
      BY <2>2 DEF EntryInv, OneAtATime, Takers, EchoTasks
    <3> QED BY <2>2, <3>1, TakersSignalled DEF EntryInv, MadeOnce
  <2>3. ASSUME Has(c, "remote_cplt", remote) PROVE FALSE
    <3>1. task # "remote_sig_cplt"
      BY <2>3 DEF EntryInv, OneAtATime
    <3> QED
      BY <2>3, <3>1, TakersSignalled
      DEF EntryInv, MadeOnce, Takers, EchoTasks
  <2> QED BY <1>2, <2>1, <2>2, <2>3 DEF EntryInv, TakenOnce
<1>3. connections[c][remote] \in {RoleOf(KindOf(task)), "taken"}
  <2>1. KindOf(task) \in Kinds
    BY DEF KindOf, Kinds
  <2> QED BY <2>1, TakersSignalled DEF EntryInv, MadeOnce
<1> QED BY <1>1, <1>2, <1>3

-----------------------------------------------------------------------------
(* What a step of the example does to an entry.                            *)

OnlyReturns(c, task, remote) ==
    \A other : Returns(c, other, remote) <=> other = task

NoneReturns(c, remote) == \A task : ~Returns(c, task, remote)

KeepsHeld(c, remote) ==
    \A task, role : IsHeld(c, task, role, remote)' <=> IsHeld(c, task, role, remote)

GivesBack(c, task, role, remote) ==
    /\ IsHeld(c, task, role, remote)
    /\ \A t, r : IsHeld(c, t, r, remote)' <=>
                   IsHeld(c, t, r, remote) /\ ~(t = task /\ r = role)

AtRest(c, remote) ==
    /\ NoneReturns(c, remote)
    /\ KeepsHeld(c, remote)
    /\ connections'[c][remote] = connections[c][remote]

Makes(c, kind, remote) ==
    /\ OnlyReturns(c, Task(kind), remote)
    /\ KeepsHeld(c, remote)
    /\ connections[c][remote] = "absent"
    /\ connections'[c][remote] = RoleOf(kind)

Takes(c, task, remote) ==
    /\ UNCHANGED vars
    /\ Due(c, task, remote) /\ ~Holds(c, task, remote)
    /\ connections[c][remote] \in Roles
    /\ connections'[c][remote] = "taken"
    /\ \A t, r : IsHeld(c, t, r, remote)' <=>
         \/ IsHeld(c, t, r, remote)
         \/ t = task /\ r = connections[c][remote]

PutsBack(c, remote) ==
    /\ OnlyReturns(c, "receive_answer", remote)
    /\ GivesBack(c, "receive_answer", connections'[c][remote], remote)

Echoes(c, task, remote) ==
    /\ OnlyReturns(c, task, remote)
    /\ \E role : GivesBack(c, task, role, remote)
    /\ connections'[c][remote] = connections[c][remote]
    /\ IF task = "local_sig_cplt" THEN Has(c, "local_cplt", remote)'
                                  ELSE Has(c, "remote_cplt", remote)'

\* A callback that returns is the only one that does.
LEMMA ReturnsAlone ==
  ASSUME PeerTypeInv, NEW c \in Clients, NEW task, NEW own,
         \/ \E kind : SendSignal(c, task, kind, own)
         \/ task = "receive_answer" /\ StepReceiveAnswer(c, own)
         \/ \E event : StepCplt(c, task, event, own)
  PROVE  \A other, remote :
           Returns(c, other, remote) <=> other = task /\ remote = own
<1>1. pending \in [Clients -> SUBSET (Tasks \X Id)]
  BY DEF PeerTypeInv, PeerTypeOK
<1>2. <<task, own>> \in pending[c]
  BY DEF SendSignal, StepReceiveAnswer, StepCplt, Finish
<1>3. \/ pending'[c] = pending[c] \ {<<task, own>>}
      \/ /\ pending'[c] = (pending[c] \ {<<task, own>>})
                            \cup {<<"local_sig_cplt", own>>}
         /\ task = "receive_answer"
  BY <1>1 DEF SendSignal, StepReceiveAnswer, StepCplt, Dequeued
<1> QED BY <1>2, <1>3 DEF Returns, Due

\* The other steps of a peer make no callback return, but they may end it.
LEMMA QuietSteps ==
  ASSUME PeerTypeInv, NEW c \in Clients,
         \/ Serve(c) \/ Start(c) \/ StepPeerListener(c)
         \/ StepSignal(c) \/ Aftermath(c)
  PROVE  /\ \A remote : NoneReturns(c, remote)
         /\ pc'[c] = "gone" => pc[c] = "gone" /\ pending'[c] = pending[c]
<1>1. /\ pending \in [Clients -> SUBSET (Tasks \X Id)]
      /\ pc \in [Clients -> Locations]
  BY DEF PeerTypeInv, PeerTypeOK
<1>2. SUFFICES /\ pending[c] \subseteq pending'[c]
               /\ pc'[c] = "gone" => pc[c] = "gone" /\ pending'[c] = pending[c]
  BY DEF NoneReturns, Returns, Due
<1>3. CASE Serve(c) \/ Aftermath(c)
  BY <1>3
  DEF Serve, Aftermath, AbandonedCallReturns, AbandonedCallLost, StreamDropped,
      peerVars
<1>4. CASE Start(c)
  BY <1>1, <1>4
  DEF Start, StartPeer, Advertised, PeerListenerOpened, OfferListenerOpened,
      AnswerListenerOpened, MoveTo, peerVars
<1>5. CASE StepPeerListener(c)
  BY <1>1, <1>5
  DEF StepPeerListener, StepInitialPeers, StepPeerAdded, StepPeerRemoved,
      StepSynchronise, Synchronised, MoveTo
<1>6. CASE StepSignal(c)
  BY <1>1, <1>6
  DEF StepSignal, SkipEmpty, StepOfferListener, StepAnswerListener, StepListener,
      OfferSignalled, AnswerSignalled, SignalDropped, MoveTo, peerVars
<1> QED BY <1>3, <1>4, <1>5, <1>6

\* A peer that ends drops its callbacks and its connections.
LEMMA EndSteps ==
  ASSUME PeerTypeInv, MapTypeOK, NEW c \in Clients, DropPeer(c), DropConnections(c)
  PROVE  pc'[c] = "gone" /\ pending'[c] = {} /\ held'[c] = {}
  BY DEF PeerTypeInv, PeerTypeOK, MapTypeOK, DropPeer, MoveTo, DropConnections

\* create_offer_fn and receive_offer_fn.
LEMMA MakerStep ==
  ASSUME PeerTypeInv, MapTypeOK, NEW c \in Clients, NEW own \in Id,
         OfferCreated(c, own) \/ OfferReceived(c, own), NEW remote \in Id
  PROVE  AtRest(c, remote) \/ \E kind \in Kinds : Makes(c, kind, remote)
<1>1. PICK kind \in Kinds : /\ SendSignal(c, Task(kind), kind, own)
                            /\ Insertable(c, own)
                            /\ Put(c, own, RoleOf(kind))
                            /\ UNCHANGED held
  BY DEF OfferCreated, OfferReceived, StepCreateOffer, StepReceiveOffer, Task,
         RoleOf, Kinds
<1>2. \A other : Returns(c, other, remote) <=> other = Task(kind) /\ remote = own
  BY <1>1, ReturnsAlone
<1>3. connections'[c][remote] =
        IF remote = own THEN RoleOf(kind) ELSE connections[c][remote]
  BY <1>1 DEF Put, MapTypeOK
<1>4. KeepsHeld(c, remote)
  BY <1>1 DEF KeepsHeld, IsHeld
<1> QED
  BY <1>1, <1>2, <1>3, <1>4
  DEF AtRest, Makes, NoneReturns, OnlyReturns, Insertable

\* The others take a connection.
LEMMA TakerStep ==
  ASSUME MapTypeOK, NEW c \in Clients, NEW own \in Id, NEW task \in Takers,
         Take(c, task, own), NEW remote \in Id
  PROVE  AtRest(c, remote) \/ Takes(c, task, remote)
<1>1. NoneReturns(c, remote)
  BY DEF Take, NoneReturns, Returns, Due, vars, peerVars
<1>2. connections'[c][remote] =
        IF remote = own THEN "taken" ELSE connections[c][remote]
  BY DEF Take, TakenFrom, Put, MapTypeOK
<1>3. held'[c] = held[c] \cup {<<task, connections[c][own], own>>}
  BY DEF Take, MapTypeOK
<1>4. CASE remote # own
  <2>1. KeepsHeld(c, remote)
    BY <1>3, <1>4 DEF KeepsHeld, IsHeld
  <2> QED BY <1>1, <1>2, <1>4, <2>1 DEF AtRest
<1>5. CASE remote = own
  <2>1. \A t, r : IsHeld(c, t, r, remote)' <=>
          \/ IsHeld(c, t, r, remote)
          \/ t = task /\ r = connections[c][remote]
    BY <1>3, <1>5 DEF IsHeld
  <2> QED
    BY <1>1, <1>2, <1>5, <2>1 DEF Takes, Take, Finish, Due, Takeable
<1> QED BY <1>4, <1>5

\* receive_answer_fn places the connection back, the echo task drops it.
LEMMA GiverStep ==
  ASSUME PeerTypeInv, MapTypeOK, NEW c \in Clients, NEW own \in Id,
         AnswerReceived(c, own) \/ EchoReturned(c, own), NEW remote \in Id
  PROVE  \/ AtRest(c, remote)
         \/ PutsBack(c, remote)
         \/ \E task \in EchoTasks : Echoes(c, task, remote)
<1>1. /\ held \in [Clients -> SUBSET (Takers \X Roles \X Id)]
      /\ chain \in [Clients -> SUBSET (Events \X Id)]
  BY DEF MapTypeOK, PeerTypeInv, PeerTypeOK
<1>2. ASSUME NEW task, NEW role, <<task, role, own>> \in held[c],
             held' = [held EXCEPT ![c] = @ \ {<<task, role, own>>}]
      PROVE  IF remote = own THEN GivesBack(c, task, role, remote)
                             ELSE KeepsHeld(c, remote)
  BY <1>1, <1>2 DEF GivesBack, KeepsHeld, IsHeld
<1>3. CASE AnswerReceived(c, own)
  <2>1. PICK role \in Roles :
          /\ <<"receive_answer", role, own>> \in held[c]
          /\ held' = [held EXCEPT ![c] = @ \ {<<"receive_answer", role, own>>}]
          /\ Put(c, own, role)
    BY <1>3 DEF AnswerReceived
  <2>2. \A other : Returns(c, other, remote)
                     <=> other = "receive_answer" /\ remote = own
    BY <1>3, ReturnsAlone DEF AnswerReceived
  <2>3. connections'[c][remote] =
          IF remote = own THEN role ELSE connections[c][remote]
    BY <2>1 DEF Put, MapTypeOK
  <2> QED
    BY <1>2, <2>1, <2>2, <2>3 DEF AtRest, PutsBack, NoneReturns, OnlyReturns
<1>4. CASE EchoReturned(c, own)
  <2>1. PICK task \in EchoTasks, role \in Roles :
          /\ <<task, role, own>> \in held[c]
          /\ held' = [held EXCEPT ![c] = @ \ {<<task, role, own>>}]
          /\ IF task = "local_sig_cplt" THEN StepLocalSigCplt(c, own)
                                        ELSE StepRemoteSigCplt(c, own)
    BY <1>4 DEF EchoReturned
  <2>2. PICK event \in {"local_cplt", "remote_cplt"} :
          /\ StepCplt(c, task, event, own)
          /\ event = IF task = "local_sig_cplt" THEN "local_cplt"
                                                ELSE "remote_cplt"
    BY <2>1 DEF StepLocalSigCplt, StepRemoteSigCplt, EchoTasks
  <2>3. \A other : Returns(c, other, remote) <=> other = task /\ remote = own
    BY <2>2, ReturnsAlone
  <2>4. Has(c, event, own)'
    BY <1>1, <2>2 DEF StepCplt, Record, Has
  <2>5. connections' = connections
    BY <1>4 DEF EchoReturned
  <2> QED
    BY <1>2, <2>1, <2>2, <2>3, <2>4, <2>5
    DEF AtRest, Echoes, NoneReturns, OnlyReturns
<1> QED BY <1>3, <1>4

\* So this is what becomes of an entry, unless its peer ends.
LEMMA EntrySteps ==
  ASSUME MeshInv, MapTypeOK, NEW c \in Clients, ExampleStepOf(c),
         NEW d \in Clients, NEW remote \in Id
  PROVE  \/ pc'[d] = "gone"
         \/ AtRest(d, remote)
         \/ \E kind \in Kinds : Makes(d, kind, remote)
         \/ \E task \in Takers : Takes(d, task, remote)
         \/ PutsBack(d, remote)
         \/ \E task \in EchoTasks : Echoes(d, task, remote)
<1>1. PeerTypeInv
  BY DEF MeshInv
<1>2. CASE d # c
  <2>1. pending'[d] = pending[d]
    BY <1>1, <1>2, ExampleIsStep, OthersKept DEF KeptPeer, vars, peerVars
  <2>2. connections'[d] = connections[d] /\ held'[d] = held[d]
    BY <1>2
    DEF ExampleStepOf, RunPeer, Callback, OfferCreated, OfferReceived, Take,
        TakenFrom, AnswerReceived, CallbackFails, EchoReturned, Put,
        DropConnections, exampleVars, MapTypeOK
  <2> QED
    BY <2>1, <2>2 DEF AtRest, NoneReturns, Returns, Due, KeepsHeld, IsHeld
<1>3. CASE d = c
  <2>1. ASSUME \/ Serve(c) \/ Start(c) \/ StepPeerListener(c)
               \/ StepSignal(c) \/ Aftermath(c),
               UNCHANGED exampleVars
        PROVE  AtRest(c, remote)
    BY <1>1, <2>1, QuietSteps DEF AtRest, KeepsHeld, IsHeld, exampleVars
  <2>2. ASSUME DropPeer(c), DropConnections(c) PROVE pc'[c] = "gone"
    BY <1>1, <2>2, EndSteps
  <2>3. CASE \E own \in Id : Callback(c, own)
    BY <1>1, <1>3, <2>3, MakerStep, TakerStep, GiverStep DEF Callback
  <2>4. CASE \E own \in Id : EchoReturned(c, own)
    BY <1>1, <1>3, <2>4, GiverStep
  <2>5. CASE \/ CallbackFails(c)
             \/ (End(c) \/ Abandon(c)) /\ DropConnections(c)
    BY <1>3, <2>2, <2>5
    DEF CallbackFails, End, Closed, CallFailed, StepLagged, Abandon
  <2> QED BY <1>3, <2>1, <2>3, <2>4, <2>5 DEF ExampleStepOf, RunPeer
<1> QED BY <1>2, <1>3

\* And a peer that is gone has dropped everything.
LEMMA GoneSteps ==
  ASSUME MeshInv, MapInv, NEW c \in Clients, ExampleStepOf(c),
         NEW d \in Clients, pc'[d] = "gone"
  PROVE  pending'[d] = {} /\ held'[d] = {}
<1>1. PeerTypeInv /\ MapTypeOK
  BY DEF MeshInv, MapInv
<1>2. ASSUME pc[d] = "gone", pending'[d] = pending[d], held'[d] = held[d]
      PROVE  pending'[d] = {} /\ held'[d] = {}
  BY <1>2 DEF MapInv
<1>3. CASE d # c
  <2>1. pending'[d] = pending[d] /\ pc'[d] = pc[d]
    BY <1>1, <1>3, ExampleIsStep, OthersKept DEF KeptPeer, vars, peerVars
  <2>2. held'[d] = held[d]
    BY <1>1, <1>3
    DEF ExampleStepOf, RunPeer, Callback, OfferCreated, OfferReceived, Take,
        AnswerReceived, CallbackFails, EchoReturned, DropConnections,
        exampleVars, MapTypeOK
  <2> QED BY <1>2, <2>1, <2>2
<1>4. CASE d = c
  <2>1. ASSUME \/ Serve(c) \/ Start(c) \/ StepPeerListener(c)
               \/ StepSignal(c) \/ Aftermath(c),
               UNCHANGED exampleVars
        PROVE  pending'[d] = {} /\ held'[d] = {}
    BY <1>1, <1>2, <1>4, <2>1, QuietSteps DEF exampleVars
  <2>2. ASSUME DropPeer(c), DropConnections(c)
        PROVE  pending'[d] = {} /\ held'[d] = {}
    BY <1>1, <1>4, <2>2, EndSteps
  <2>3. CASE \E own \in Id : Callback(c, own) \/ EchoReturned(c, own)
    <3>1. pc \in [Clients -> Locations] /\ pc[c] = "running"
      BY <1>1, <2>3
      DEF PeerTypeInv, PeerTypeOK, Callback, OfferCreated, StepCreateOffer,
          OfferReceived, StepReceiveOffer, SendSignal, Take, AnswerReceived,
          StepReceiveAnswer, EchoReturned, StepLocalSigCplt, StepRemoteSigCplt,
          StepCplt, Finish
    <3>2. pc'[c] \in {"running", "stepping"}
      BY <2>3, <3>1
      DEF Callback, OfferCreated, StepCreateOffer, OfferReceived,
          StepReceiveOffer, SendSignal, MoveTo, Take, AnswerReceived,
          StepReceiveAnswer, EchoReturned, StepLocalSigCplt, StepRemoteSigCplt,
          StepCplt, vars, peerVars
    <3> QED BY <1>4, <3>2
  <2>4. CASE \/ CallbackFails(c)
             \/ (End(c) \/ Abandon(c)) /\ DropConnections(c)
    BY <2>2, <2>4
    DEF CallbackFails, End, Closed, CallFailed, StepLagged, Abandon
  <2> QED BY <2>1, <2>3, <2>4 DEF ExampleStepOf, RunPeer
<1> QED BY <1>3, <1>4

-----------------------------------------------------------------------------
(* Each of them keeps what is true of the entry.                           *)

\* Nothing returns, and nothing is made or taken.
LEMMA EntryRests ==
  ASSUME ChainInv, NEW c \in Clients, NEW remote \in Id,
         EntryInv(c, remote), ChainMoves(c, remote), AtRest(c, remote)
  PROVE  EntryInv(c, remote)'
<1>1. /\ \A task : Due(c, task, remote) => Due(c, task, remote)'
      /\ \A kind \in Kinds : ~Returns(c, Task(kind), remote)
      /\ \A task : Holds(c, task, remote)' <=> Holds(c, task, remote)
  BY DEF AtRest, NoneReturns, Returns, KeepsHeld, IsHeld, Holds
<1>2. ASSUME NEW kind \in Kinds
      PROVE  /\ Signalled(c, kind, remote)' => Signalled(c, kind, remote)
             /\ Queued(c, kind, remote)' =>
                  /\ ~Signalled(c, kind, remote)
                  /\ connections[c][remote] # RoleOf(kind)
             /\ Allowed(c, kind, remote) => Allowed(c, kind, remote)'
             /\ Signalling(c, kind, remote)' => ~Has(c, SentEvent(kind), remote)'
  BY <1>1, TakersSignalled
  DEF ChainMoves, SignalMoves, EntryInv, MadeOnce
<1>3. MadeOnce(c, remote)'
  <2>1. "offer" \in Kinds /\ "answer" \in Kinds
    BY DEF Kinds
  <2> QED BY <1>2, <2>1 DEF EntryInv, MadeOnce, AtRest
<1>4. TakenOnce(c, remote)'
  BY <1>1
  DEF EntryInv, TakenOnce, AtRest, KeepsHeld, ChainMoves, TaskMoves
<1>5. OneAtATime(c, remote)'
  <2>1. /\ Has(c, "local_cplt", remote)' => Has(c, "local_cplt", remote)
        /\ Has(c, "remote_cplt", remote)' => Has(c, "remote_cplt", remote)
        /\ Due(c, "local_sig_cplt", remote)' => Due(c, "local_sig_cplt", remote)
    BY DEF ChainMoves, TaskMoves, AtRest, NoneReturns
  <2>2. ASSUME Due(c, "receive_answer", remote)'
        PROVE  /\ ~Due(c, "local_sig_cplt", remote)
               /\ ~Has(c, "local_cplt", remote)
    BY <2>2, TakersSignalled
    DEF ChainMoves, TaskMoves, EntryInv, OneAtATime
  <2>3. ASSUME Has(c, "remote_cplt", remote)
        PROVE  ~Due(c, "remote_sig_cplt", remote)'
    <3>1. ~Signalling(c, "answer", remote)
      BY <2>3, TakersSignalled DEF EntryInv, MadeOnce, SentEvent, Kinds
    <3> QED BY <2>3, <3>1 DEF ChainMoves, TaskMoves, EntryInv, OneAtATime
  <2> QED BY <2>1, <2>2, <2>3 DEF EntryInv, OneAtATime
<1> QED BY <1>3, <1>4, <1>5 DEF EntryInv

\* A connection is made: no chain had signalled, and no callback held it.
LEMMA EntryMade ==
  ASSUME ChainInv, NEW c \in Clients, NEW remote \in Id, NEW kind \in Kinds,
         EntryInv(c, remote), ChainMoves(c, remote), Makes(c, kind, remote)
  PROVE  EntryInv(c, remote)'
<1>1. Kinds = {"offer", "answer"}
  BY DEF Kinds
<1>2. /\ \A k \in Kinds : RoleOf(k) \notin {"absent", "taken"}
      /\ \A k, l \in Kinds : RoleOf(k) = RoleOf(l) => k = l
      /\ \A k, l \in Kinds : Task(k) = Task(l) => k = l
      /\ \A k \in Kinds : Task(k) \notin Takers
  BY <1>1 DEF RoleOf, Task, Takers, EchoTasks
<1>3. /\ Queued(c, kind, remote) /\ ~Queued(c, kind, remote)'
      /\ \A k \in Kinds : Returns(c, Task(k), remote) => k = kind
      /\ \A task \in Takers : ~Returns(c, task, remote)
  BY <1>2 DEF Makes, OnlyReturns, Returns, Queued, Due
<1>4. \A k \in Kinds : ~Signalled(c, k, remote)
  BY <1>2 DEF Makes, EntryInv, MadeOnce
<1>5. /\ \A task \in Takers : ~Due(c, task, remote)
      /\ ~Has(c, "local_cplt", remote) /\ ~Has(c, "remote_cplt", remote)
  BY <1>1, <1>4, TakersSignalled DEF KindOf
<1>6. MadeOnce(c, remote)'
  <2>1. \A k \in Kinds : Signalled(c, k, remote)' => k = kind
    BY <1>3, <1>4 DEF ChainMoves, SignalMoves
  <2>2. \A k \in Kinds : Signalling(c, k, remote)' => ~Has(c, SentEvent(k), remote)'
    BY <1>4 DEF ChainMoves, SignalMoves, Signalled
  <2>3. Allowed(c, kind, remote)'
    BY <1>3, TakersSignalled DEF ChainMoves, SignalMoves
  <2> QED BY <1>1, <1>2, <1>3, <2>1, <2>2, <2>3 DEF MadeOnce, Makes
<1>7. TakenOnce(c, remote)'
  BY <1>2 DEF EntryInv, TakenOnce, Makes, KeepsHeld
<1>8. OneAtATime(c, remote)'
  BY <1>3, <1>5 DEF OneAtATime, ChainMoves, TaskMoves, Takers, EchoTasks
<1> QED BY <1>6, <1>7, <1>8 DEF EntryInv

\* A connection is taken, by a callback of the chain that made it.
LEMMA EntryTaken ==
  ASSUME ChainInv, NEW c \in Clients, NEW remote \in Id, NEW task \in Takers,
         EntryInv(c, remote), ChainMoves(c, remote), Takes(c, task, remote)
  PROVE  EntryInv(c, remote)'
<1>1. /\ \A t : Due(c, t, remote)' <=> Due(c, t, remote)
      /\ \A event : Has(c, event, remote)' <=> Has(c, event, remote)
      /\ \A kind : /\ Signalled(c, kind, remote)' <=> Signalled(c, kind, remote)
                   /\ Signalling(c, kind, remote)' <=> Signalling(c, kind, remote)
                   /\ Queued(c, kind, remote)' <=> Queued(c, kind, remote)
  BY DEF Takes, vars, serverVars, peerVars, Due, Has, Signalled, Signalling, Queued
<1>2. \A kind : RoleOf(kind) # "taken"
  BY DEF RoleOf
<1>3. MadeOnce(c, remote)'
  BY <1>1, <1>2 DEF EntryInv, MadeOnce, Takes
<1>4. connections[c][remote] = RoleOf(KindOf(task))
  BY TakersFind DEF Takes
<1>5. Holds(c, task, remote)'
  BY DEF Takes, Holds, IsHeld
<1>6. TakenOnce(c, remote)'
  BY <1>1, <1>2, <1>4, <1>5 DEF EntryInv, TakenOnce, Takes
<1>7. OneAtATime(c, remote)'
  BY <1>1 DEF EntryInv, OneAtATime
<1> QED BY <1>3, <1>6, <1>7 DEF EntryInv

\* receive_answer_fn places it back: it was the only one to hold a connection.
LEMMA EntryPutBack ==
  ASSUME ChainInv, MapTypeOK, NEW c \in Clients, NEW remote \in Id,
         EntryInv(c, remote), ChainMoves(c, remote), PutsBack(c, remote)
  PROVE  EntryInv(c, remote)'
<1>1. Kinds = {"offer", "answer"} /\ RoleOf("offer") = "local"
      /\ RoleOf("answer") = "remote"
  BY DEF Kinds, RoleOf
<1>2. /\ Due(c, "receive_answer", remote) /\ ~Due(c, "receive_answer", remote)'
      /\ \A task : Returns(c, task, remote) => task = "receive_answer"
      /\ \A kind \in Kinds : ~Returns(c, Task(kind), remote)
  BY DEF PutsBack, OnlyReturns, Returns, Task
<1>3. connections'[c][remote] = "local"
  BY DEF PutsBack, GivesBack, EntryInv, TakenOnce, RoleOf, KindOf
<1>4. Signalled(c, "offer", remote) /\ ~Signalled(c, "answer", remote)
      /\ Allowed(c, "offer", remote)
  BY <1>1, <1>2, TakersSignalled DEF EntryInv, MadeOnce
<1>5. /\ ~Due(c, "local_sig_cplt", remote) /\ ~Due(c, "remote_sig_cplt", remote)
      /\ ~Has(c, "local_cplt", remote) /\ ~Has(c, "remote_cplt", remote)
  BY <1>2, <1>4, TakersSignalled DEF EntryInv, OneAtATime
<1>6. MadeOnce(c, remote)'
  <2>1. \A kind \in Kinds : Signalled(c, kind, remote)' => Signalled(c, kind, remote)
    BY <1>2 DEF ChainMoves, SignalMoves
  <2>2. ~Queued(c, "offer", remote)'
    BY <1>1, <1>4 DEF ChainMoves, SignalMoves, EntryInv, MadeOnce
  <2>3. Allowed(c, "offer", remote)'
    BY <1>1, <1>4 DEF ChainMoves, SignalMoves
  <2>4. \A kind \in Kinds :
          Signalling(c, kind, remote)' => ~Has(c, SentEvent(kind), remote)'
    BY <1>2 DEF ChainMoves, SignalMoves, EntryInv, MadeOnce
  <2> QED BY <1>1, <1>3, <1>4, <2>1, <2>2, <2>3, <2>4 DEF MadeOnce
<1>7. TakenOnce(c, remote)'
  <2>1. ASSUME NEW task, NEW role, IsHeld(c, task, role, remote)' PROVE FALSE
    <3>1. IsHeld(c, task, role, remote)
          /\ ~(task = "receive_answer" /\ role = "local")
      BY <1>3, <2>1 DEF PutsBack, GivesBack
    <3>2. Due(c, task, remote) /\ role = RoleOf(KindOf(task))
      BY <3>1 DEF EntryInv, TakenOnce
    <3>3. task # "receive_answer"
      BY <3>1, <3>2 DEF RoleOf, KindOf
    <3>4. task \in Takers
      BY <3>1 DEF IsHeld, MapTypeOK
    <3> QED BY <1>5, <3>2, <3>3, <3>4 DEF Takers, EchoTasks
  <2> QED BY <1>3, <2>1 DEF TakenOnce
<1>8. OneAtATime(c, remote)'
  BY <1>2, <1>5 DEF OneAtATime, ChainMoves, TaskMoves
<1> QED BY <1>6, <1>7, <1>8 DEF EntryInv

\* The echo task drops it, and its chain is complete.
LEMMA EntryEchoed ==
  ASSUME ChainInv, NEW c \in Clients, NEW remote \in Id, NEW task \in EchoTasks,
         EntryInv(c, remote), ChainMoves(c, remote), Echoes(c, task, remote)
  PROVE  EntryInv(c, remote)'
<1>1. Kinds = {"offer", "answer"}
  BY DEF Kinds
<1>2. /\ Due(c, task, remote) /\ ~Due(c, task, remote)'
      /\ \A other : Returns(c, other, remote) => other = task
      /\ \A kind \in Kinds : ~Returns(c, Task(kind), remote)
  BY DEF Echoes, OnlyReturns, Returns, Task, EchoTasks
<1>3. PICK role : GivesBack(c, task, role, remote)
  BY DEF Echoes
<1>4. /\ role = RoleOf(KindOf(task))
      /\ connections[c][remote] = "taken" /\ connections'[c][remote] = "taken"
  BY <1>3 DEF Echoes, GivesBack, EntryInv, TakenOnce
<1>5. MadeOnce(c, remote)'
  <2>1. \A kind \in Kinds : Signalled(c, kind, remote)' => Signalled(c, kind, remote)
    BY <1>2 DEF ChainMoves, SignalMoves
  <2>2. \A kind \in Kinds : Queued(c, kind, remote)' => ~Signalled(c, kind, remote)
    BY TakersSignalled DEF ChainMoves, SignalMoves, EntryInv, MadeOnce
  <2>3. \A kind \in Kinds :
          Signalling(c, kind, remote)' => ~Has(c, SentEvent(kind), remote)'
    BY <1>2 DEF ChainMoves, SignalMoves, EntryInv, MadeOnce
  <2>4. \A kind : RoleOf(kind) # "taken"
    BY DEF RoleOf
  <2> QED BY <1>1, <1>4, <2>1, <2>2, <2>3, <2>4 DEF MadeOnce, EntryInv
<1>6. TakenOnce(c, remote)'
  <2>1. ASSUME NEW t, NEW r, IsHeld(c, t, r, remote)'
        PROVE  Due(c, t, remote)' /\ r = RoleOf(KindOf(t))
    <3>1. IsHeld(c, t, r, remote) /\ ~(t = task /\ r = role)
      BY <1>3, <2>1 DEF GivesBack
    <3>2. Due(c, t, remote) /\ r = RoleOf(KindOf(t))
      BY <3>1 DEF EntryInv, TakenOnce
    <3>3. t # task
      BY <1>4, <3>1, <3>2
    <3> QED BY <1>2, <3>2, <3>3 DEF Returns
  <2>2. Has(c, "local_cplt", remote)' \/ Has(c, "remote_cplt", remote)'
    BY DEF Echoes
  <2> QED BY <1>4, <2>1, <2>2 DEF TakenOnce
<1>7. OneAtATime(c, remote)'
  <2>1. CASE task = "local_sig_cplt"
    <3>1. /\ ~Has(c, "remote_cplt", remote)
          /\ ~Due(c, "receive_answer", remote)
          /\ Has(c, "got_answer", remote)
      BY <1>2, <2>1, TakersSignalled DEF EntryInv, OneAtATime, MadeOnce
    <3> QED BY <1>2, <2>1, <3>1 DEF OneAtATime, ChainMoves, TaskMoves
  <2>2. CASE task = "remote_sig_cplt"
    <3>1. /\ ~Has(c, "local_cplt", remote)
          /\ ~Due(c, "receive_answer", remote)
          /\ ~Due(c, "local_sig_cplt", remote)
      BY <1>2, <2>2, TakersSignalled DEF EntryInv, MadeOnce
    <3> QED BY <1>2, <2>2, <3>1 DEF OneAtATime, ChainMoves, TaskMoves
  <2> QED BY <2>1, <2>2 DEF EchoTasks
<1> QED BY <1>5, <1>6, <1>7 DEF EntryInv

\* So every step keeps the entries of every peer.
LEMMA MapNext ==
  ASSUME MeshInv, ChainInv, MapInv, [ExampleNext]_allVars
  PROVE  MapInv'
<1>1. MapTypeOK'
  BY MapTypeNext DEF MapInv
<1>2. CASE UNCHANGED allVars
  <2>1. /\ UNCHANGED <<pc, pending, held>>
        /\ \A c, remote : NoneReturns(c, remote) /\ KeepsHeld(c, remote)
        /\ connections' = connections
    BY <1>2
    DEF allVars, exampleVars, vars, peerVars, NoneReturns, Returns, Due,
        KeepsHeld, IsHeld
  <2>2. \A c, remote : ChainMoves(c, remote)
    BY <1>2, NothingMoves DEF allVars, vars, serverVars, peerVars
  <2>3. \A c \in Clients : \A remote \in Id :
          EntryInv(c, remote) => EntryInv(c, remote)'
    BY <2>1, <2>2, EntryRests DEF AtRest
  <2> QED BY <1>1, <2>1, <2>3 DEF MapInv
<1>3. ASSUME NEW c \in Clients, ExampleStepOf(c) PROVE MapInv'
  <2>1. ASSUME NEW d \in Clients, pc'[d] # "gone", NEW remote \in Id
        PROVE  EntryInv(d, remote)'
    <3>1. pc[d] # "gone"
      BY <1>3, <2>1, ExampleIsStep, Growing DEF ChainInv, Grows, vars, peerVars
    <3>2. EntryInv(d, remote) /\ ChainMoves(d, remote) /\ MapTypeOK
      BY <1>3, <3>1, ChainsMove DEF MapInv
    <3> QED
      BY <1>3, <2>1, <3>2, EntrySteps, EntryRests, EntryMade, EntryTaken,
         EntryPutBack, EntryEchoed
  <2>2. \A d \in Clients : pc'[d] = "gone" => pending'[d] = {} /\ held'[d] = {}
    BY <1>3, GoneSteps
  <2> QED BY <1>1, <2>1, <2>2 DEF MapInv
<1> QED BY <1>2, <1>3 DEF ExampleNext, ExampleStepOf

-----------------------------------------------------------------------------
(* The error of a callback.                                                *)

\* Two peers each found the other in its first message.
Glare(c, remote) ==
    /\ Allowed(c, "offer", remote)
    /\ local_id[c] \in Id
    /\ \E d \in Clients : /\ local_id[d] = remote
                          /\ Allowed(d, "offer", local_id[c])

FailedInv ==
    \A c \in Clients : \A task \in Tasks : \A remote \in Id :
      <<task, remote>> \in failed[c] => task \in Makers /\ Glare(c, remote)

\* Found in the first message once, found for good.
LEMMA GlareStays ==
  ASSUME MeshInv, ChainInv, [Steps]_vars, NEW c \in Clients, NEW remote \in Id,
         Glare(c, remote)
  PROVE  Glare(c, remote)'
<1>1. CASE UNCHANGED vars
  BY <1>1 DEF vars, serverVars, peerVars, Glare, Allowed
<1>2. CASE Steps
  <2>1. PICK d \in Clients : local_id[d] = remote /\ Allowed(d, "offer", local_id[c])
    BY DEF Glare
  <2>2. Grows(c) /\ Grows(d)
    BY <1>2, Growing DEF Steps, ChainInv
  <2>3. local_id'[c] = local_id[c] /\ local_id'[d] = remote
    BY <2>1, <2>2, ModulusPositive DEF Grows, Glare, Id, None
  <2>4. Allowed(c, "offer", remote)' /\ Allowed(d, "offer", local_id[c])'
    BY <2>1, <2>2, <2>3, AllowedStays DEF Glare, Grows, Allowed
  <2> QED BY <2>3, <2>4 DEF Glare, Allowed
<1> QED BY <1>1, <1>2

\* An answer is made for a peer that found this one in its first message.
LEMMA OfferFoundMe ==
  ASSUME MeshInv, ChainInv, NEW c \in Clients, NEW remote \in Id,
         Has(c, "got_offer", remote)
  PROVE  /\ local_id[c] \in Id
         /\ \E d \in Clients : /\ local_id[d] = remote
                               /\ Allowed(d, "offer", local_id[c])
<1>1. Arrived("offer", c, remote) /\ "offer" \in Kinds
  BY DEF Arrived, GotEvent, Kinds
<1>2. CameFrom("offer", c, remote)
  BY <1>1 DEF ChainInv, ArrivedWasSent
<1> QED BY <1>2 DEF CameFrom, Sent

\* insert finds a key of the other chain's, so each of the two has its reason.
LEMMA MakersGlare ==
  ASSUME MeshInv, ChainInv, NEW c \in Clients, NEW remote \in Id,
         EntryInv(c, remote), NEW kind \in Kinds, Queued(c, kind, remote),
         connections[c][remote] \in Roles \cup {"taken"}
  PROVE  Glare(c, remote)
<1>1. Kinds = {"offer", "answer"}
  BY DEF Kinds
<1>2. \A k \in Kinds : Signalled(c, k, remote) \/ Queued(c, k, remote)
                         => Allowed(c, k, remote)
  BY TakersSignalled
<1>3. connections[c][remote] # RoleOf(kind) /\ ~Signalled(c, kind, remote)
  BY DEF EntryInv, MadeOnce
<1>4. PICK other \in Kinds : other # kind /\ Allowed(c, other, remote)
  <2>1. CASE connections[c][remote] \in Roles
    <3>1. PICK other \in Kinds : connections[c][remote] = RoleOf(other)
      BY <1>1, <2>1 DEF Roles, RoleOf
    <3> QED BY <1>3, <3>1 DEF EntryInv, MadeOnce
  <2>2. CASE connections[c][remote] = "taken"
    <3>1. \/ \E task \in Takers : Due(c, task, remote)
          \/ Has(c, "local_cplt", remote)
          \/ Has(c, "remote_cplt", remote)
      BY <2>2 DEF EntryInv, TakenOnce, Holds, IsHeld
    <3>2. \E k \in Kinds : Signalled(c, k, remote)
      BY <1>1, <3>1, TakersSignalled DEF KindOf
    <3> QED BY <1>2, <1>3, <3>2
  <2> QED BY <2>1, <2>2
<1>5. Allowed(c, "offer", remote) /\ Has(c, "got_offer", remote)
  BY <1>1, <1>2, <1>4 DEF Allowed
<1> QED BY <1>5, OfferFoundMe DEF Glare

\* Nothing has failed at first.
LEMMA FailedInit == ExampleInit => FailedInv
  BY DEF ExampleInit, FailedInv

\* A callback that takes a connection does not fail, and one that makes a
\* connection fails because of the other chain.
LEMMA FailedNext ==
  ASSUME MeshInv, ChainInv, MapInv, FailedInv, [ExampleNext]_allVars
  PROVE  FailedInv'
<1>1. [Steps]_vars
  BY ExampleIsStep DEF ExampleNext, ExampleStepOf, Steps, allVars
<1>2. SUFFICES ASSUME NEW c \in Clients, NEW task \in Tasks, NEW remote \in Id,
                      <<task, remote>> \in failed'[c],
                      <<task, remote>> \notin failed[c]
               PROVE  task \in Makers /\ Glare(c, remote)'
  BY <1>1, GlareStays DEF FailedInv
<1>3. /\ Finish(c, task, remote)
      /\ Errs(c, task, remote)
  <2>1. failed \in [Clients -> SUBSET (Tasks \X Id)]
    BY DEF MapInv, MapTypeOK
  <2>2. \/ \E d \in Clients : CallbackFails(d)
        \/ UNCHANGED failed
    BY DEF ExampleNext, RunPeer, Callback, OfferCreated, OfferReceived, Take,
           AnswerReceived, EchoReturned, allVars, exampleVars
  <2>3. PICK d \in Clients, t \in Tasks, r \in Id :
          /\ Finish(d, t, r)
          /\ Errs(d, t, r)
          /\ failed' = [failed EXCEPT ![d] = {<<t, r>>}]
    BY <1>2, <2>2 DEF CallbackFails
  <2>4. d = c /\ t = task /\ r = remote
    BY <1>2, <2>1, <2>3
  <2> QED BY <2>3, <2>4
<1>4. EntryInv(c, remote) /\ Due(c, task, remote)
  BY <1>3 DEF MapInv, Finish, Due
<1>5. connections[c][remote] \in Roles \cup {"absent", "taken"}
  BY DEF MapInv, MapTypeOK
<1>6. task \notin Takers
  <2>1. SUFFICES ASSUME task \in Takers PROVE FALSE
    OBVIOUS
  <2>2. task \notin Makers
    BY <2>1 DEF Takers, EchoTasks, Makers
  <2>3. CASE Holds(c, task, remote)
    BY <1>3, <1>4, <2>1, <2>2, <2>3, TakersFind DEF Errs, Placeable
  <2>4. CASE ~Holds(c, task, remote)
    <3>1. RoleOf(KindOf(task)) \in Roles
      BY DEF RoleOf, Roles
    <3> QED
      BY <1>3, <1>4, <2>1, <2>2, <2>4, <3>1, TakersFind DEF Errs, Takeable
  <2> QED BY <2>3, <2>4
<1>7. task \in Makers
  BY <1>6 DEF Tasks, Takers, EchoTasks, Makers
<1>8. PICK kind \in Kinds : task = Task(kind)
  BY <1>7 DEF Makers, Task, Kinds
<1>9. connections[c][remote] # "absent"
  BY <1>3, <1>6 DEF Errs, Insertable, Takers
<1>10. Glare(c, remote)
  BY <1>4, <1>5, <1>8, <1>9, MakersGlare DEF Queued, Due
<1> QED BY <1>1, <1>7, <1>10, GlareStays

-----------------------------------------------------------------------------
(* What follows.                                                           *)

ExampleInv == MeshInv /\ ChainInv /\ MapInv /\ FailedInv

\* The invariant of the example.
LEMMA ExampleInvariant ==
  ASSUME ~Wraps
  PROVE  ExampleSpec => []ExampleInv
<1>1. ExampleSpec => [](MeshInv /\ ChainInv)
  BY ExampleSteps, ChainInvariant, PTL
<1>2. ExampleInit => MapInv /\ FailedInv
  BY MapInit, FailedInit
<1>3. MeshInv /\ ChainInv /\ MapInv /\ FailedInv /\ [ExampleNext]_allVars
        => MapInv' /\ FailedInv'
  BY MapNext, FailedNext
<1> QED BY <1>1, <1>2, <1>3, PTL DEF ExampleSpec, ExampleInv

\* A callback that takes a connection out of the map finds the one its chain has
\* made, whatever the callbacks of the other chain with the same remote peer do,
\* and receive_answer_fn finds its place empty when it puts it back: of the errors
\* of the map, only that of insert ever happens.
THEOREM CallbacksFind ==
  ASSUME ~Wraps
  PROVE  ExampleSpec => []CallbacksFindTheirs
<1>1. ExampleInv => CallbacksFindTheirs
  <2> SUFFICES ASSUME ExampleInv, NEW c \in Clients, NEW remote \in Id
               PROVE  \A task \in Takers :
                        /\ <<task, remote>> \in pending[c] =>
                             LET role == IF task = "remote_sig_cplt" THEN "remote"
                                                                     ELSE "local"
                             IN  IF Holds(c, task, remote)
                                   THEN /\ <<task, role, remote>> \in held[c]
                                        /\ connections[c][remote] = "taken"
                                   ELSE connections[c][remote] = role
                        /\ <<task, remote>> \notin failed[c]
    BY DEF CallbacksFindTheirs
  <2>1. ASSUME NEW task \in Takers, Due(c, task, remote)
        PROVE  IF Holds(c, task, remote)
                 THEN /\ IsHeld(c, task, RoleOf(KindOf(task)), remote)
                      /\ connections[c][remote] = "taken"
                 ELSE connections[c][remote] = RoleOf(KindOf(task))
    <3>1. EntryInv(c, remote)
      BY <2>1 DEF ExampleInv, MapInv, Due
    <3> QED BY <2>1, <3>1, TakersFind DEF ExampleInv
  <2>2. \A task \in Takers : task \in Tasks /\ task \notin Makers
    BY DEF Takers, EchoTasks, Tasks, Makers
  <2>3. \A task : RoleOf(KindOf(task)) =
                    IF task = "remote_sig_cplt" THEN "remote" ELSE "local"
    BY DEF RoleOf, KindOf
  <2> QED
    BY <2>1, <2>2, <2>3 DEF Due, IsHeld, ExampleInv, FailedInv
<1> QED BY <1>1, ExampleInvariant, PTL

\* The error of insert means that each of the two peers found the other in its
\* first message: create_offer_fn and receive_offer_fn of the two chains raced for
\* the entry.
THEOREM GlareAloneFails ==
  ASSUME ~Wraps
  PROVE  ExampleSpec => []OnlyGlareFails
<1>1. ExampleInv => OnlyGlareFails
  BY DEF ExampleInv, FailedInv, Glare, Allowed, OnlyGlareFails
<1> QED BY <1>1, ExampleInvariant, PTL

\* The echo tasks at the two ends of a connection never take the same side: one
\* offered and the other answered, and no peer does both with the same remote.
THEOREM EchoesDiffer ==
  ASSUME ~Wraps
  PROVE  ExampleSpec => []EchoSidesDiffer
<1>1. ExampleInv => EchoSidesDiffer
  <2> SUFFICES ASSUME ExampleInv, NEW a \in Clients, NEW b \in Clients, a # b,
                      NEW role \in Roles,
                      Echoing(a, role, local_id[b]), Echoing(b, role, local_id[a])
               PROVE  FALSE
    BY DEF EchoSidesDiffer
  <2> DEFINE la == local_id[a]
             lb == local_id[b]
  <2>1. MeshInv /\ ChainInv /\ MapInv
    BY DEF ExampleInv
  <2>2. PICK s \in EchoTasks, t \in EchoTasks :
          <<s, role, lb>> \in held[a] /\ <<t, role, la>> \in held[b]
    BY DEF Echoing
  <2>3. /\ la \in Id /\ lb \in Id
        /\ pc[a] # "gone" /\ pc[b] # "gone"
    BY <2>1, <2>2 DEF MapInv, MapTypeOK
  <2>4. EntryInv(a, lb) /\ EntryInv(b, la)
    BY <2>1, <2>3 DEF MapInv
  <2>5. /\ Due(a, s, lb) /\ role = RoleOf(KindOf(s))
        /\ Due(b, t, la) /\ role = RoleOf(KindOf(t))
    BY <2>2, <2>4 DEF EntryInv, TakenOnce, IsHeld
  <2>6. s = t
    BY <2>5 DEF RoleOf, KindOf, EchoTasks
  <2>7. ASSUME NEW kind \in Kinds, Has(a, GotEvent(kind), lb)
        PROVE  Signalled(b, kind, la)
    <3>1. CameFrom(kind, a, lb)
      BY <2>1, <2>3, <2>7 DEF ChainInv, ArrivedWasSent, Arrived
    <3>2. PICK x \in Clients : local_id[x] = lb /\ Sent(x, kind, a)
      BY <3>1 DEF CameFrom
    <3>3. x = b
      BY <2>1, <2>3, <3>2, LocalIdAlone
    <3>4. Acknowledged(b, kind, la)
      BY <2>3, <3>2, <3>3 DEF Sent
    <3> QED BY <3>4 DEF Acknowledged, Acked, Signalled
  <2>8. "offer" \in Kinds /\ "answer" \in Kinds
        /\ GotEvent("offer") = "got_offer" /\ GotEvent("answer") = "got_answer"
    BY DEF Kinds, GotEvent
  <2>9. CASE s = "local_sig_cplt"
    <3>1. Signalled(b, "answer", la)
      BY <2>1, <2>3, <2>5, <2>7, <2>8, <2>9, TakersSignalled
    <3>2. Signalled(b, "offer", la)
      BY <2>1, <2>3, <2>5, <2>6, <2>9, TakersSignalled
    <3> QED BY <2>4, <3>1, <3>2 DEF EntryInv, MadeOnce
  <2>10. CASE s = "remote_sig_cplt"
    <3>1. Has(a, "got_offer", lb)
      <4>1. Signalled(a, "answer", lb)
        BY <2>1, <2>3, <2>5, <2>10, TakersSignalled
      <4> QED BY <2>1, <2>3, <2>8, <4>1, TakersSignalled DEF Allowed
    <3>2. Signalled(b, "offer", la)
      BY <2>7, <2>8, <3>1
    <3>3. Signalled(b, "answer", la)
      BY <2>1, <2>3, <2>5, <2>6, <2>10, TakersSignalled
    <3> QED BY <2>4, <3>2, <3>3 DEF EntryInv, MadeOnce
  <2> QED BY <2>9, <2>10 DEF EchoTasks
<1> QED BY <1>1, ExampleInvariant, PTL
-----------------------------------------------------------------------------
(* What signalling promises.                                               *)

\* Whatever the callbacks return and wherever they stop their peer, the signalling
\* between the example's peers is what it is between any: they are callers of a
\* directory, their chains handshake as the abstract chains do, signals arrive once,
\* are not lost and cause each other, the changes make sense, and peers find each
\* other and never themselves.
THEOREM ExampleSignals ==
  ASSUME ~Wraps
  PROVE  ExampleSpec => /\ DirectorySpec /\ ChainSpec
                        /\ []LivePeersStayRegistered
                        /\ [](NoDuplicateSignal /\ NoSignalLost /\ ChainCausality)
                        /\ [](ChangesInOrder /\ NeverSelf)
                        /\ [](DiscoveryCoverage /\ AnnouncedPeersAreDiscovered)
<1>1. StepsSpec => ChainSpec /\ []LivePeersStayRegistered
  BY SignallingImplementsChainOfSteps, LivePeersRegisteredOfSteps, PTL
<1>2. StepsSpec => [](NoDuplicateSignal /\ NoSignalLost /\ ChainCausality)
  BY SignalsArriveOnceOfSteps, AcknowledgedIsNotLostOfSteps,
     ChainsAreCausalOfSteps, PTL
<1>3. StepsSpec => [](ChangesInOrder /\ NeverSelf)
  BY HistoryInOrderOfSteps, NobodyFindsItselfOfSteps, PTL
<1>4. StepsSpec => [](DiscoveryCoverage /\ AnnouncedPeersAreDiscovered)
  BY OneFindsTheOtherOfSteps, AnnouncedAreDiscoveredOfSteps, PTL
<1>5. StepsSpec => DirectorySpec
  BY PeersAreCallersOfSteps, ServerImplementsDirectory, PTL
<1> QED BY <1>1, <1>2, <1>3, <1>4, <1>5, ExampleSteps, PTL
=============================================================================
