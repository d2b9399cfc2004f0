----------------------- MODULE SignallingHandshakeProofs -----------------------
(***************************************************************************)
(* Signalling implements the handshakes of SignallingChain, for any number *)
(* of peers and any capacities, as long as the identifier counter does not *)
(* come round.                                                             *)
(***************************************************************************)
EXTENDS SignallingChainProofs

-----------------------------------------------------------------------------
(* What Handshake says, told by what is in the queues.                     *)

Known(a, b) == local_id[a] # None /\ local_id[b] # None

Offering(a, b) == In(queue["offer"][b], local_id[a])
Answering(a, b) == In(queue["answer"][a], local_id[b])
Offered(a, b) == Has(b, "got_offer", local_id[a])
Answered(a, b) == Has(a, "got_answer", local_id[b])
Completed(a, b) == Has(a, "local_cplt", local_id[b])

Stage(a, b) ==
    IF ~Known(a, b) THEN "none"
    ELSE IF Offering(a, b) THEN "offer"
    ELSE IF Answering(a, b) THEN "answer"
    ELSE IF Completed(a, b) THEN "complete"
    ELSE IF Answered(a, b) THEN "answered"
    ELSE IF Offered(a, b) THEN "offered"
    ELSE "none"

StagesTold == \A a, b \in Clients : Handshake(a, b) = Stage(a, b)

\* A signal occurs in a queue if it is in it.
LEMMA StageIs == PeerTypeInv => StagesTold
<1> SUFFICES ASSUME PeerTypeInv, NEW a \in Clients, NEW b \in Clients
             PROVE  Handshake(a, b) = Stage(a, b)
  BY DEF StagesTold
<1>1. CASE ~Known(a, b)
  BY <1>1 DEF Handshake, Stage, Known
<1>2. CASE Known(a, b)
  <2>1. local_id[a] \in Id /\ local_id[b] \in Id
    BY <1>2 DEF PeerTypeInv, PeerTypeOK, Known
  <2>2. "offer" \in Kinds /\ "answer" \in Kinds
    BY DEF Kinds
  <2>3. /\ Offering(a, b) <=> Occurrences("offer", b, local_id[a]) > 0
        /\ Answering(a, b) <=> Occurrences("answer", a, local_id[b]) > 0
    BY <2>1, <2>2, QueueTypes, OccurrencesIn DEF Offering, Answering
  <2>4. None \notin {local_id[a], local_id[b]}
    BY <1>2 DEF Known
  <2> QED
    BY <1>2, <2>3, <2>4
    DEF Handshake, Stage, Completed, Answered, Offered
<1> QED BY <1>1, <1>2

-----------------------------------------------------------------------------
(* The steps of SignallingChain.                                           *)

HandshakeOf == [a \in Clients |-> [b \in Clients |-> Handshake(a, b)]]

DeafTo == [kind \in Kinds |-> {c \in Clients : rx[kind][c] = "dropped"}]

\* Two tables that differ in one place.
LEMMA OneAdvanced ==
  ASSUME NEW S, NEW f \in [Clients -> [Clients -> S]],
         NEW g \in [Clients -> [Clients -> S]],
         NEW a \in Clients, NEW b \in Clients,
         \A x, y \in Clients : x # a \/ y # b => g[x][y] = f[x][y]
  PROVE  g = [f EXCEPT ![a][b] = g[a][b]]
<1> DEFINE h == [f EXCEPT ![a][b] = g[a][b]]
<1>1. h \in [Clients -> [Clients -> S]]
  OBVIOUS
<1>2. ASSUME NEW x \in Clients PROVE g[x] = h[x]
  <2>1. \A y \in Clients : g[x][y] = h[x][y]
    OBVIOUS
  <2>2. g[x] \in [Clients -> S] /\ h[x] \in [Clients -> S]
    BY <1>1
  <2> QED BY <2>1, <2>2
<1> HIDE DEF h
<1>3. g = h
  BY <1>1, <1>2
<1> QED BY <1>3 DEF h

StageNames == {"none", "offer", "offered", "answer", "answered", "complete"}

\* One handshake advances, and nobody stops listening.
Progresses(a, b, from, to) ==
    /\ Stage(a, b) = from
    /\ Stage(a, b)' = to
    /\ \A x, y \in Clients : x # a \/ y # b => Stage(x, y)' = Stage(x, y)
    /\ UNCHANGED DeafTo

\* None does.
Rests ==
    /\ \A x, y \in Clients : Stage(x, y)' = Stage(x, y)
    /\ UNCHANGED DeafTo

\* A peer stops listening to a kind of signals.
Deafens(p, kind) ==
    /\ DeafTo' = [DeafTo EXCEPT ![kind] = @ \cup {p}]
    /\ \A x, y \in Clients :
         Stage(x, y)' =
           IF kind = "offer" /\ y = p /\ Stage(x, y) = "offer" THEN "none"
           ELSE IF kind = "answer" /\ x = p /\ Stage(x, y) = "answer" THEN "offered"
           ELSE Stage(x, y)

\* What is in the tables.
LEMMA HandshakeTypes ==
  HandshakeOf \in [Clients -> [Clients -> StageNames]]
  BY DEF HandshakeOf, Handshake, StageNames

\* Handshakes advance one by one.
LEMMA ProgressAdvances ==
  ASSUME StagesTold, StagesTold', NEW a \in Clients, NEW b \in Clients,
         NEW from, NEW to, Progresses(a, b, from, to)
  PROVE  Chain!Advance(a, b, from, to)
<1>1. HandshakeOf[a][b] = from /\ HandshakeOf'[a][b] = to
  BY DEF Progresses, StagesTold, HandshakeOf
<1>2. \A x, y \in Clients :
        x # a \/ y # b => HandshakeOf'[x][y] = HandshakeOf[x][y]
  BY DEF Progresses, StagesTold, HandshakeOf
<1>3. /\ HandshakeOf \in [Clients -> [Clients -> StageNames]]
      /\ HandshakeOf' \in [Clients -> [Clients -> StageNames]]
  BY DEF HandshakeOf, Handshake, StageNames
<1>4. HandshakeOf' = [HandshakeOf EXCEPT ![a][b] = HandshakeOf'[a][b]]
  BY <1>2, <1>3, OneAdvanced
<1>5. HandshakeOf' = [HandshakeOf EXCEPT ![a][b] = to]
  BY <1>1, <1>4
<1> QED BY <1>1, <1>5 DEF Chain!Advance, HandshakeOf, Progresses, DeafTo

\* A peer that stops listening loses what is on its way.
LEMMA DeafensStops ==
  ASSUME StagesTold, StagesTold', NEW p \in Clients, NEW kind \in Kinds,
         Deafens(p, kind)
  PROVE  Chain!StopOffers(p) \/ Chain!StopAnswers(p)
<1>1. \A x, y \in Clients : /\ HandshakeOf[x][y] = Stage(x, y)
                            /\ HandshakeOf'[x][y] = Stage(x, y)'
  BY DEF StagesTold, HandshakeOf
<1>2. CASE kind = "offer"
  <2>1. \A x, y \in Clients :
          Handshake(x, y)' = IF y = p /\ Handshake(x, y) = "offer" THEN "none"
                             ELSE Handshake(x, y)
    BY <1>2 DEF Deafens, StagesTold
  <2>2. HandshakeOf' =
          [x \in Clients |->
             [HandshakeOf[x] EXCEPT ![p] = IF @ = "offer" THEN "none" ELSE @]]
    BY <2>1 DEF HandshakeOf
  <2> QED
    BY <1>2, <2>2 DEF Chain!StopOffers, HandshakeOf, Deafens, DeafTo
<1>3. CASE kind = "answer"
  <2>1. \A x, y \in Clients :
          Handshake(x, y)' = IF x = p /\ Handshake(x, y) = "answer" THEN "offered"
                             ELSE Handshake(x, y)
    BY <1>3 DEF Deafens, StagesTold
  <2>2. HandshakeOf' =
          [HandshakeOf EXCEPT ![p] =
             [y \in Clients |-> IF @[y] = "answer" THEN "offered" ELSE @[y]]]
    <3>1. HandshakeOf' = [x \in Clients |-> [y \in Clients |-> Handshake(x, y)']]
      BY DEF HandshakeOf
    <3>2. HandshakeOf \in [Clients -> [Clients -> StageNames]]
      BY HandshakeTypes
    <3>3. \A x, y \in Clients : HandshakeOf[x][y] = Handshake(x, y)
      BY DEF HandshakeOf
    <3>4. \A x, y \in Clients :
            Handshake(x, y)' = IF x = p /\ HandshakeOf[x][y] = "answer"
                                 THEN "offered" ELSE HandshakeOf[x][y]
      BY <2>1, <3>3
    <3> DEFINE row == [y \in Clients |-> IF HandshakeOf[p][y] = "answer"
                                         THEN "offered" ELSE HandshakeOf[p][y]]
    <3> HIDE DEF HandshakeOf
    <3>5. [y \in Clients |-> Handshake(p, y)'] = row
      BY <3>4
    <3>6. ASSUME NEW x \in Clients, x # p
          PROVE  [y \in Clients |-> Handshake(x, y)'] = HandshakeOf[x]
      BY <3>2, <3>4, <3>6
    <3> HIDE DEF row
    <3>7. HandshakeOf' = [HandshakeOf EXCEPT ![p] = row]
      BY <3>1, <3>2, <3>5, <3>6
    <3> QED BY <3>7 DEF row
  <2> QED
    BY <1>3, <2>2 DEF Chain!StopAnswers, HandshakeOf, Deafens, DeafTo
<1> QED BY <1>2, <1>3 DEF Kinds

\* A step that no handshake sees.
LEMMA RestsStutters ==
  ASSUME StagesTold, StagesTold', Rests
  PROVE  UNCHANGED Chain!vars
<1>1. HandshakeOf' = HandshakeOf
  BY DEF HandshakeOf, StagesTold, Rests
<1> QED BY <1>1 DEF Chain!vars, HandshakeOf, Rests, DeafTo

-----------------------------------------------------------------------------
(* What the two sides of a handshake have in common.                       *)

\* A queue is empty before its listener is open.
Silent ==
    \A kind \in Kinds : \A c \in Clients :
      rx[kind][c] = "none" => queue[kind][c] = <<>>

\* There are no queues at first.
LEMMA SilentInit == Init => Silent
  BY DEF Init, ServerInit, Silent

\* Nothing is delivered to a listener that was not opened.
LEMMA SilentNext ==
  ASSUME MeshInv, FreshInv, Silent, [Steps]_vars
  PROVE  Silent'
<1>1. CASE UNCHANGED vars
  BY <1>1 DEF vars, serverVars, Silent
<1>2. ASSUME NEW c \in Clients, StepOf(c), NEW kind \in Kinds,
             NEW d \in Clients, rx'[kind][d] = "none"
      PROVE  queue'[kind][d] = <<>>
  <2>1. rx[kind][d] = "none"
    BY <1>2, ListenerStays
  <2>2. queue[kind][d] = <<>>
    BY <2>1 DEF Silent
  <2> QED BY <1>2, <2>1, <2>2, QueueStep DEF Delivered, Taken
<1> QED BY <1>1, <1>2 DEF Steps, Silent

PairFacts(a, b) ==
    /\ Offering(a, b) \/ Offered(a, b) => a # b
    /\ Offering(a, b) => ~Offered(a, b)
    /\ Answering(a, b) \/ Answered(a, b) => Offered(a, b)
    /\ Answering(a, b) => ~Answered(a, b)
    /\ Completed(a, b) => Answered(a, b)

\* An offer is to another peer, and what follows it follows it.
LEMMA PairsFit ==
  ASSUME MeshInv, SelfInv, ChainInv, NEW a \in Clients, NEW b \in Clients,
         Known(a, b)
  PROVE  PairFacts(a, b)
<1>1. /\ local_id[a] \in Id /\ local_id[b] \in Id
      /\ "offer" \in Kinds /\ "answer" \in Kinds
  BY DEF MeshInv, PeerTypeInv, PeerTypeOK, Known, Kinds
<1>2. ASSUME NEW kind \in Kinds, NEW x \in Clients, NEW y \in Clients,
             Arrived(kind, x, local_id[y]), local_id[y] \in Id
      PROVE  Allowed(y, kind, local_id[x])
  <2>1. PICK z \in Clients : local_id[z] = local_id[y] /\ Sent(z, kind, x)
    BY <1>2 DEF ChainInv, ArrivedWasSent, CameFrom
  <2>2. z = y
    BY <1>2, <2>1, LocalIdAlone
  <2> QED BY <2>1, <2>2 DEF Sent
<1>3. Offering(a, b) \/ Offered(a, b) => a # b
  <2>1. Offering(a, b) \/ Offered(a, b) => Allowed(a, "offer", local_id[b])
    BY <1>1, <1>2 DEF Offering, Offered, Arrived, GotEvent
  <2> QED BY <2>1 DEF Allowed, SelfInv, SelfFree, Known
<1>4. Answering(a, b) \/ Answered(a, b) => Offered(a, b)
  BY <1>1, <1>2 DEF Answering, Answered, Offered, Arrived, GotEvent, Allowed
<1>5. /\ Offering(a, b) => ~Offered(a, b)
      /\ Answering(a, b) => ~Answered(a, b)
  BY <1>1
  DEF ChainInv, ArrivesOnce, ArrivesOnceAt, Offering, Offered, Answering,
      Answered, GotEvent
<1>6. Completed(a, b) => Answered(a, b)
  BY <1>1 DEF ChainInv, ChainOrderInv, InOrder, Completed, Answered
<1> QED BY <1>3, <1>4, <1>5, <1>6 DEF PairFacts

-----------------------------------------------------------------------------
(* How a step moves a handshake.                                           *)

\* What a pair's stage is made of.
LEMMA StageKept ==
  ASSUME NEW a, NEW b, Known(a, b)' <=> Known(a, b),
         Known(a, b) =>
           /\ Offering(a, b)' <=> Offering(a, b)
           /\ Answering(a, b)' <=> Answering(a, b)
           /\ Completed(a, b)' <=> Completed(a, b)
           /\ Answered(a, b)' <=> Answered(a, b)
           /\ Offered(a, b)' <=> Offered(a, b)
  PROVE  Stage(a, b)' = Stage(a, b)
  BY DEF Stage

Hears(c, kind, d, remote) ==
    d = c /\ Heard(c, kind) /\ remote = Head(queue[kind][c])

\* How the history of a pair grows.
LEMMA EventSteps ==
  ASSUME MeshInv, FreshInv, NEW c \in Clients, StepOf(c), UNCHANGED local_id,
         NEW a \in Clients, NEW b \in Clients
  PROVE  /\ Known(a, b)' <=> Known(a, b)
         /\ Offered(a, b)' <=>
              Offered(a, b) \/ Hears(c, "offer", b, local_id[a])
         /\ Answered(a, b)' <=>
              Answered(a, b) \/ Hears(c, "answer", a, local_id[b])
         /\ Completed(a, b)' <=>
              Completed(a, b) \/ (a = c /\ StepLocalSigCplt(c, local_id[b]))
<1>1. chain \in [Clients -> SUBSET (Events \X Id)] /\ Kinds = {"offer", "answer"}
  BY DEF MeshInv, PeerTypeInv, PeerTypeOK, Kinds
<1>2. \A d \in Clients : \A event, remote :
        Has(d, event, remote) => Has(d, event, remote)'
  BY Growing DEF Grows, Has
<1>3. ASSUME NEW kind \in Kinds, NEW d \in Clients, NEW remote
      PROVE  Has(d, GotEvent(kind), remote)' <=>
               Has(d, GotEvent(kind), remote) \/ Hears(c, kind, d, remote)
  <2>1. ASSUME Hears(c, kind, d, remote) PROVE Has(d, GotEvent(kind), remote)'
    <3>1. chain'[c] = chain[c] \cup {<<GotEvent(kind), remote>>}
      BY <1>1, <2>1 DEF Hears, Heard, StepListener, Record
    <3> QED BY <2>1, <3>1 DEF Hears, Has
  <2> QED BY <1>2, <2>1, HeardStep DEF Hears
<1>4. ASSUME NEW remote
      PROVE  Has(a, "local_cplt", remote)' <=>
               \/ Has(a, "local_cplt", remote)
               \/ a = c /\ StepLocalSigCplt(c, remote)
  <2>1. ASSUME a = c, StepLocalSigCplt(c, remote)
        PROVE  Has(a, "local_cplt", remote)'
    <3>1. chain'[c] = chain[c] \cup {<<"local_cplt", remote>>}
      BY <1>1, <2>1 DEF StepLocalSigCplt, StepCplt, Record
    <3> QED BY <2>1, <3>1 DEF Has
  <2>2. \A kind \in Kinds : GotEvent(kind) # "local_cplt"
    BY <1>1 DEF GotEvent
  <2> QED BY <1>2, <2>1, <2>2, NewEvent
<1>5. \A x \in Clients : local_id'[x] = local_id[x]
  OBVIOUS
<1>6. Known(a, b)' <=> Known(a, b)
  BY <1>5 DEF Known
<1>7. Offered(a, b)' <=> Offered(a, b) \/ Hears(c, "offer", b, local_id[a])
  BY <1>1, <1>3, <1>5 DEF Offered, Has, GotEvent
<1>8. Answered(a, b)' <=> Answered(a, b) \/ Hears(c, "answer", a, local_id[b])
  BY <1>1, <1>3, <1>5 DEF Answered, Has, GotEvent
<1>9. Completed(a, b)' <=>
        Completed(a, b) \/ (a = c /\ StepLocalSigCplt(c, local_id[b]))
  BY <1>4, <1>5 DEF Completed, Has
<1> QED BY <1>6, <1>7, <1>8, <1>9

\* An offer is made to a peer that has not stopped listening to offers, or an
\* answer to one that made an offer.
LEMMA DeliveryMoves ==
  ASSUME MeshInv, SelfInv, ChainInv, NEW c \in Clients, StepOf(c),
         SignalAccepted(c)
  PROVE  \E a, b \in Clients :
           /\ a # b
           /\ \/ b \notin DeafTo["offer"] /\ Progresses(a, b, "none", "offer")
              \/ a \notin DeafTo["answer"] /\ Progresses(a, b, "offered", "answer")
<1> DEFINE kind == call[c].kind
<1>1. /\ FreshInv /\ PeerTypeInv /\ ArrivedWasSent /\ kind \in Kinds
      /\ Kinds = {"offer", "answer"}
  BY QueueTypes DEF ChainInv, MeshInv, Kinds
<1>2. PICK d \in Clients :
        /\ Delivered(c, kind, d)
        /\ \A k \in Kinds : \A e \in Clients :
             k # kind \/ e # d => queue'[k][e] = queue[k][e]
  BY <1>1, AcceptedDelivers
<1>3. /\ local_id[c] \in Id /\ local_id[d] \in Id /\ rx[kind][d] = "open"
      /\ queue'[kind][d] = Append(queue[kind][d], local_id[c])
      /\ Sending(c, kind, local_id[d])
  BY <1>2 DEF Delivered
<1>4. Known(c, d) /\ Known(d, c)
  BY <1>3, ModulusPositive DEF Known, Id, None
<1>5. ~Arrived(kind, d, local_id[c])
  BY <1>1, <1>2, DeliveredOnce
<1>6. Allowed(c, kind, local_id[d])
  BY <1>1, <1>3
  DEF ChainInv, ReasonsInv, ReasonFor, Signals, Sending
<1>7. UNCHANGED rx /\ UNCHANGED local_id
  BY LocalIdSteps DEF SignalAccepted, Advertised, Returned, At
<1>8. pc[c] # "running"
  BY <1>3, SignallingWaits DEF Sending
<1>9. ASSUME NEW x \in Clients, NEW y \in Clients
      PROVE  /\ Known(x, y)' <=> Known(x, y)
             /\ Offered(x, y)' <=> Offered(x, y)
             /\ Answered(x, y)' <=> Answered(x, y)
             /\ Completed(x, y)' <=> Completed(x, y)
  <2>1. /\ \A k \in Kinds : ~Heard(c, k)
        /\ \A remote : ~StepLocalSigCplt(c, remote)
    BY <1>8 DEF Heard, StepListener, StepLocalSigCplt, StepCplt, Finish
  <2> QED BY <1>1, <1>7, <2>1, EventSteps DEF Hears
<1>10. ASSUME NEW k \in Kinds, NEW x \in Clients, NEW remote \in Id
       PROVE  In(queue[k][x], remote)' <=>
                \/ In(queue[k][x], remote)
                \/ k = kind /\ x = d /\ remote = local_id[c]
  <2>1. CASE k = kind /\ x = d
    <3>1. queue[kind][d] \in Seq(Id \cup {None}) /\ local_id[c] \in Id \cup {None}
      BY <1>1, <1>3, QueueTypes
    <3>2. \A r : In(queue'[kind][d], r) <=> In(queue[kind][d], r) \/ r = local_id[c]
      <4>1. \A r : In(Append(queue[kind][d], local_id[c]), r) <=>
                     In(queue[kind][d], r) \/ r = local_id[c]
        BY <3>1, InAppend
      <4> QED BY <1>3, <4>1
    <3> QED BY <2>1, <3>2 DEF In
  <2>2. CASE k # kind \/ x # d
    BY <1>2, <2>2
  <2> QED BY <2>1, <2>2
<1>11. \A x \in Clients : local_id[x] = local_id[c] => x = c
  BY <1>3, LocalIdAlone
<1>12. \A x \in Clients : local_id'[x] = local_id[x]
  BY <1>7
<1>13. \A x, y \in Clients : Known(x, y) =>
         local_id[x] \in Id /\ local_id[y] \in Id
  BY <1>1 DEF Known, PeerTypeInv, PeerTypeOK
<1>14. \A x \in Clients : rx[kind][x] = "open" => x \notin DeafTo[kind]
  BY <1>1 DEF DeafTo
<1>15. UNCHANGED DeafTo
  BY <1>7 DEF DeafTo
<1>16. CASE kind = "offer"
  <2>1. Allowed(c, "offer", local_id[d])
    BY <1>6, <1>16
  <2>2. c # d
    BY <1>4, <2>1 DEF Allowed, SelfInv, SelfFree, Known
  <2>3. PairFacts(c, d)
    BY <1>4, PairsFit
  <2>4. ~Offering(c, d) /\ ~Offered(c, d)
    BY <1>5, <1>16 DEF Arrived, Offering, Offered, GotEvent
  <2>5. Stage(c, d) = "none"
    BY <2>3, <2>4 DEF Stage, PairFacts
  <2>6. ASSUME NEW x \in Clients, NEW y \in Clients, Known(x, y)
        PROVE  /\ Offering(x, y)' <=> Offering(x, y) \/ (x = c /\ y = d)
               /\ Answering(x, y)' <=> Answering(x, y)
    BY <1>1, <1>10, <1>11, <1>12, <1>13, <1>16, <2>6 DEF Offering, Answering
  <2>7. Stage(c, d)' = "offer"
    BY <1>4, <1>9, <2>6 DEF Stage
  <2>8. \A x, y \in Clients :
          x # c \/ y # d => Stage(x, y)' = Stage(x, y)
    BY <1>9, <2>6, StageKept
  <2>9. Progresses(c, d, "none", "offer")
    BY <1>15, <2>5, <2>7, <2>8 DEF Progresses
  <2> QED BY <1>3, <1>14, <1>16, <2>2, <2>9
<1>17. CASE kind = "answer"
  <2>1. Offered(d, c)
    BY <1>6, <1>17 DEF Allowed, Offered
  <2>2. PairFacts(d, c)
    BY <1>4, PairsFit
  <2>3. ~Answering(d, c) /\ ~Answered(d, c)
    BY <1>5, <1>17 DEF Arrived, Answering, Answered, GotEvent
  <2>4. Stage(d, c) = "offered" /\ d # c /\ ~Offering(d, c)
    BY <1>4, <2>1, <2>2, <2>3 DEF Stage, PairFacts
  <2>5. ASSUME NEW x \in Clients, NEW y \in Clients, Known(x, y)
        PROVE  /\ Offering(x, y)' <=> Offering(x, y)
               /\ Answering(x, y)' <=> Answering(x, y) \/ (x = d /\ y = c)
    BY <1>1, <1>10, <1>11, <1>12, <1>13, <1>17, <2>5 DEF Offering, Answering
  <2>6. Stage(d, c)' = "answer"
    BY <1>4, <1>9, <2>4, <2>5 DEF Stage
  <2>7. \A x, y \in Clients :
          x # d \/ y # c => Stage(x, y)' = Stage(x, y)
    BY <1>9, <2>5, StageKept
  <2>8. Progresses(d, c, "offered", "answer")
    BY <1>15, <2>4, <2>6, <2>7 DEF Progresses
  <2> QED BY <1>3, <1>14, <1>17, <2>4, <2>8
<1> QED BY <1>1, <1>16, <1>17

\* A signal is heard once the peer it came from has sent it, and it is not there
\* any more.
LEMMA HearingMoves ==
  ASSUME MeshInv, SelfInv, ChainInv, NEW c \in Clients, StepOf(c),
         NEW kind \in Kinds, Heard(c, kind)
  PROVE  \E a, b \in Clients :
           /\ a # b
           /\ \/ Progresses(a, b, "offer", "offered")
              \/ Progresses(a, b, "answer", "answered")
<1> DEFINE remote == Head(queue[kind][c])
<1>1. /\ FreshInv /\ PeerTypeInv /\ ArrivedWasSent /\ ArrivesOnceAt(kind, c)
      /\ Kinds = {"offer", "answer"}
      /\ queue[kind][c] \in Seq(Id \cup {None})
      /\ queue \in [Kinds -> [Clients -> Seq(Id \cup {None})]]
  BY QueueTypes DEF ChainInv, ArrivesOnce, MeshInv, Kinds
<1>2. /\ pc[c] = "running" /\ ReceiveSignal(c, kind) /\ remote # None
      /\ UNCHANGED local_id /\ UNCHANGED rx
  BY DEF Heard, StepListener, ReceiveSignal, IsEmpty
<1>3. /\ queue[kind][c] # <<>> /\ queue'[kind][c] = Tail(queue[kind][c])
      /\ \A k \in Kinds : \A e \in Clients :
           k # kind \/ e # c => queue'[k][e] = queue[k][e]
  BY <1>1, <1>2 DEF ReceiveSignal
<1>4. remote \in Id
  BY <1>1, <1>2, <1>3
<1>5. /\ \A x : In(queue[kind][c], x) <=> In(Tail(queue[kind][c]), x) \/ x = remote
      /\ ~In(Tail(queue[kind][c]), remote)
  BY <1>1, <1>2, <1>3, InTail DEF ArrivesOnceAt
<1>6. PICK d \in Clients : local_id[d] = remote /\ local_id[c] \in Id
  <2>1. Arrived(kind, c, remote)
    BY <1>5 DEF Arrived
  <2>2. CameFrom(kind, c, remote)
    BY <1>1, <1>4, <2>1 DEF ArrivedWasSent
  <2> QED BY <2>2 DEF CameFrom
<1>7. Known(c, d) /\ Known(d, c)
  BY <1>4, <1>6, ModulusPositive DEF Known, Id, None
<1>8. ASSUME NEW k \in Kinds, NEW x \in Clients, NEW y
      PROVE  /\ Hears(c, k, x, y) <=> k = kind /\ x = c /\ y = remote
             /\ ~StepLocalSigCplt(c, y)
  <2>1. queue'[kind][c] # queue[kind][c]
    BY <1>3, <1>5
  <2>2. ReceiveSignal(c, k) => k = kind
    BY <1>1, <2>1 DEF ReceiveSignal
  <2>3. Heard(c, k) => k = kind
    BY <2>2 DEF Heard, StepListener
  <2>4. ~StepLocalSigCplt(c, y)
    BY <2>1 DEF StepLocalSigCplt, StepCplt, serverVars
  <2> QED BY <2>3, <2>4 DEF Hears
<1>9. ASSUME NEW k \in Kinds, NEW x \in Clients, NEW y \in Id
      PROVE  In(queue[k][x], y)' <=>
               /\ In(queue[k][x], y)
               /\ ~(k = kind /\ x = c /\ y = remote)
  <2>1. CASE k = kind /\ x = c
    BY <1>3, <1>5, <2>1
  <2>2. CASE k # kind \/ x # c
    BY <1>3, <2>2
  <2> QED BY <2>1, <2>2
<1>10. \A x \in Clients : local_id[x] = remote <=> x = d
  BY <1>4, <1>6, LocalIdAlone
<1>11. \A x, y \in Clients : Known(x, y) =>
         local_id[x] \in Id /\ local_id[y] \in Id
  BY <1>1 DEF Known, PeerTypeInv, PeerTypeOK
<1>12. \A x \in Clients : local_id'[x] = local_id[x]
  BY <1>2
<1>13. UNCHANGED DeafTo
  BY <1>2 DEF DeafTo
<1>14. CASE kind = "offer"
  <2>1. PairFacts(d, c) /\ Offering(d, c)
    BY <1>5, <1>6, <1>7, <1>14, PairsFit DEF Offering
  <2>2. ASSUME NEW x \in Clients, NEW y \in Clients, Known(x, y)
        PROVE  /\ Offering(x, y)' <=> Offering(x, y) /\ ~(x = d /\ y = c)
               /\ Answering(x, y)' <=> Answering(x, y)
               /\ Offered(x, y)' <=> Offered(x, y) \/ (x = d /\ y = c)
               /\ Answered(x, y)' <=> Answered(x, y)
               /\ Completed(x, y)' <=> Completed(x, y)
    <3>1. /\ Offering(x, y)' <=> Offering(x, y) /\ ~(x = d /\ y = c)
          /\ Answering(x, y)' <=> Answering(x, y)
      BY <1>1, <1>9, <1>10, <1>11, <1>12, <1>14, <2>2 DEF Offering, Answering
    <3> QED
      BY <1>1, <1>2, <1>8, <1>10, <1>14, <3>1, EventSteps
  <2>3. Stage(d, c) = "offer" /\ d # c /\ Stage(d, c)' = "offered"
    <3>1. Known(d, c)'
      BY <1>7, <1>12 DEF Known
    <3> QED
      BY <1>7, <2>1, <2>2, <3>1 DEF Stage, PairFacts
  <2>4. \A x, y \in Clients : x # d \/ y # c => Stage(x, y)' = Stage(x, y)
    <3>1. \A x, y \in Clients : Known(x, y)' <=> Known(x, y)
      BY <1>12 DEF Known
    <3> QED BY <2>2, <3>1, StageKept
  <2>5. Progresses(d, c, "offer", "offered")
    BY <1>13, <2>3, <2>4 DEF Progresses
  <2> QED BY <2>3, <2>5
<1>15. CASE kind = "answer"
  <2>1. PairFacts(c, d) /\ Answering(c, d)
    BY <1>5, <1>6, <1>7, <1>15, PairsFit DEF Answering
  <2>2. ASSUME NEW x \in Clients, NEW y \in Clients, Known(x, y)
        PROVE  /\ Offering(x, y)' <=> Offering(x, y)
               /\ Answering(x, y)' <=> Answering(x, y) /\ ~(x = c /\ y = d)
               /\ Offered(x, y)' <=> Offered(x, y)
               /\ Answered(x, y)' <=> Answered(x, y) \/ (x = c /\ y = d)
               /\ Completed(x, y)' <=> Completed(x, y)
    <3>1. /\ Offering(x, y)' <=> Offering(x, y)
          /\ Answering(x, y)' <=> Answering(x, y) /\ ~(x = c /\ y = d)
      BY <1>1, <1>9, <1>10, <1>11, <1>12, <1>15, <2>2 DEF Offering, Answering
    <3> QED
      BY <1>1, <1>2, <1>8, <1>10, <1>15, <3>1, EventSteps
  <2>3. Stage(c, d) = "answer" /\ c # d /\ Stage(c, d)' = "answered"
    <3>1. Known(c, d)'
      BY <1>7, <1>12 DEF Known
    <3> QED
      BY <1>7, <2>1, <2>2, <3>1 DEF Stage, PairFacts
  <2>4. \A x, y \in Clients : x # c \/ y # d => Stage(x, y)' = Stage(x, y)
    <3>1. \A x, y \in Clients : Known(x, y)' <=> Known(x, y)
      BY <1>12 DEF Known
    <3> QED BY <2>2, <3>1, StageKept
  <2>5. Progresses(c, d, "answer", "answered")
    BY <1>13, <2>3, <2>4 DEF Progresses
  <2> QED BY <2>3, <2>5
<1> QED BY <1>1, <1>14, <1>15

\* A chain completes after the answer was heard.
LEMMA CompletionMoves ==
  ASSUME MeshInv, SelfInv, ChainInv, NEW c \in Clients, StepOf(c),
         NEW remote \in Id, StepLocalSigCplt(c, remote)
  PROVE  \/ Rests
         \/ \E b \in Clients : c # b /\ Progresses(c, b, "answered", "complete")
<1>1. FreshInv /\ PeerTypeInv /\ ArrivedWasSent /\ Kinds = {"offer", "answer"}
  BY DEF ChainInv, MeshInv, Kinds
<1>2. /\ Finish(c, "local_sig_cplt", remote)
      /\ UNCHANGED local_id /\ UNCHANGED rx /\ UNCHANGED queue
  BY DEF StepLocalSigCplt, StepCplt, serverVars
<1>3. Has(c, "got_answer", remote)
  BY <1>2 DEF ChainInv, ChainOrderInv, InOrder, Finish
<1>4. PICK d \in Clients : local_id[d] = remote /\ local_id[c] \in Id
  BY <1>1, <1>3 DEF ArrivedWasSent, CameFrom, Arrived, GotEvent
<1>5. Known(c, d)
  BY <1>4, ModulusPositive DEF Known, Id, None
<1>6. ASSUME NEW k \in Kinds, NEW x \in Clients, NEW y
      PROVE  /\ ~Hears(c, k, x, y)
             /\ StepLocalSigCplt(c, y) => y = remote
  <2>1. ~Heard(c, k)
    <3>1. SUFFICES ASSUME ReceiveSignal(c, k) PROVE FALSE
      BY DEF Heard, StepListener
    <3>2. /\ queue \in [Kinds -> [Clients -> Seq(Id \cup {None})]]
          /\ queue[k][c] \in Seq(Id \cup {None})
      BY <1>1, QueueTypes
    <3>3. queue[k][c] # <<>> /\ queue[k][c] = Tail(queue[k][c])
      BY <1>2, <3>1, <3>2 DEF ReceiveSignal
    <3>4. Len(Tail(queue[k][c])) = Len(queue[k][c]) - 1 /\ Len(queue[k][c]) \in Nat
      BY <3>2, <3>3
    <3>5. Len(Tail(queue[k][c])) = Len(queue[k][c])
      BY <3>3
    <3> QED BY <3>4, <3>5
  <2>2. ASSUME StepLocalSigCplt(c, y) PROVE y = remote
    <3>1. /\ pending'[c] = pending[c] \ {<<"local_sig_cplt", remote>>}
          /\ pending'[c] = pending[c] \ {<<"local_sig_cplt", y>>}
      BY <1>1, <2>2
      DEF StepLocalSigCplt, StepCplt, Dequeued, PeerTypeInv, PeerTypeOK
    <3>2. <<"local_sig_cplt", y>> \in pending[c]
      BY <2>2 DEF StepLocalSigCplt, StepCplt, Finish
    <3> QED BY <3>1, <3>2
  <2> QED BY <2>1, <2>2 DEF Hears
<1>7. \A x \in Clients : local_id[x] = remote <=> x = d
  BY <1>4, LocalIdAlone
<1>8. \A x \in Clients : local_id'[x] = local_id[x]
  BY <1>2
<1>9. ASSUME NEW x \in Clients, NEW y \in Clients
      PROVE  /\ Known(x, y)' <=> Known(x, y)
             /\ Offering(x, y)' <=> Offering(x, y)
             /\ Answering(x, y)' <=> Answering(x, y)
             /\ Offered(x, y)' <=> Offered(x, y)
             /\ Answered(x, y)' <=> Answered(x, y)
             /\ Completed(x, y)' <=> Completed(x, y) \/ (x = c /\ y = d)
  <2>1. /\ Offering(x, y)' <=> Offering(x, y)
        /\ Answering(x, y)' <=> Answering(x, y)
    BY <1>2, <1>8 DEF Offering, Answering
  <2>2. /\ Known(x, y)' <=> Known(x, y)
        /\ Offered(x, y)' <=> Offered(x, y)
        /\ Answered(x, y)' <=> Answered(x, y)
    BY <1>1, <1>2, <1>6, EventSteps
  <2>3. Completed(x, y)' <=>
          Completed(x, y) \/ (x = c /\ StepLocalSigCplt(c, local_id[y]))
    BY <1>1, <1>2, EventSteps
  <2>4. StepLocalSigCplt(c, local_id[y]) <=> y = d
    BY <1>1, <1>6, <1>7
  <2> QED BY <2>1, <2>2, <2>3, <2>4
<1>10. UNCHANGED DeafTo
  BY <1>2 DEF DeafTo
<1>11. CASE Completed(c, d)
  <2>1. \A x, y \in Clients : Stage(x, y)' = Stage(x, y)
    BY <1>9, <1>11, StageKept
  <2> QED BY <1>10, <2>1 DEF Rests
<1>12. CASE ~Completed(c, d)
  <2>1. PairFacts(c, d) /\ Answered(c, d)
    BY <1>3, <1>4, <1>5, PairsFit DEF Answered
  <2>2. /\ Stage(c, d) = "answered" /\ Stage(c, d)' = "complete" /\ c # d
    BY <1>5, <1>9, <1>12, <2>1 DEF Stage, PairFacts
  <2>3. \A x, y \in Clients : x # c \/ y # d => Stage(x, y)' = Stage(x, y)
    BY <1>9, StageKept
  <2>4. Progresses(c, d, "answered", "complete")
    BY <1>10, <2>2, <2>3 DEF Progresses
  <2> QED BY <2>2, <2>4
<1> QED BY <1>11, <1>12

\* A listener that is dropped loses what is in its queue.
LEMMA DropDeafens ==
  ASSUME MeshInv, SelfInv, ChainInv, NEW c \in Clients, StepOf(c),
         NEW kind \in Kinds, DropListener(c, kind)
  PROVE  Deafens(c, kind)
<1>1. /\ FreshInv /\ PeerTypeInv /\ Kinds = {"offer", "answer"}
      /\ queue \in [Kinds -> [Clients -> Seq(Id \cup {None})]]
      /\ rx \in [Kinds -> [Clients -> {"none", "open", "dropped"}]]
  BY QueueTypes DEF ChainInv, MeshInv, Kinds
<1>2. rx' # rx /\ rx[kind][c] = "open" /\ rx'[kind][c] = "dropped"
  BY <1>1 DEF DropListener
<1>3. /\ \A k \in Kinds : ~Heard(c, k)
      /\ \A remote : ~StepLocalSigCplt(c, remote)
  BY <1>2
  DEF Heard, StepListener, ReceiveSignal, StepLocalSigCplt, StepCplt, serverVars
<1>4. UNCHANGED local_id
  BY <1>2, LocalIdSteps DEF Advertised, channelVars
<1>5. /\ queue'[kind][c] = <<>>
      /\ \A k \in Kinds : \A x \in Clients :
           k # kind \/ x # c => queue'[k][x] = queue[k][x]
  BY <1>1 DEF DropListener
<1>6. \A x \in Clients : local_id'[x] = local_id[x]
  BY <1>4
<1>7. ASSUME NEW x \in Clients, NEW y \in Clients
      PROVE  /\ Known(x, y)' <=> Known(x, y)
             /\ Offering(x, y)' <=> Offering(x, y) /\ ~(kind = "offer" /\ y = c)
             /\ Answering(x, y)' <=> Answering(x, y) /\ ~(kind = "answer" /\ x = c)
             /\ Offered(x, y)' <=> Offered(x, y)
             /\ Answered(x, y)' <=> Answered(x, y)
             /\ Completed(x, y)' <=> Completed(x, y)
  <2>1. /\ Offering(x, y)' <=> Offering(x, y) /\ ~(kind = "offer" /\ y = c)
        /\ Answering(x, y)' <=> Answering(x, y) /\ ~(kind = "answer" /\ x = c)
    BY <1>1, <1>5, <1>6, InNew DEF Offering, Answering
  <2> QED
    BY <1>1, <1>3, <1>4, <2>1, EventSteps DEF Hears
<1>8. ASSUME NEW x \in Clients, NEW y \in Clients
      PROVE  Stage(x, y)' =
               IF kind = "offer" /\ y = c /\ Stage(x, y) = "offer" THEN "none"
               ELSE IF kind = "answer" /\ x = c /\ Stage(x, y) = "answer"
                 THEN "offered"
               ELSE Stage(x, y)
  <2>1. CASE Known(x, y)
    <3>1. PairFacts(x, y)
      BY <2>1, PairsFit
    <3> QED BY <1>1, <1>7, <2>1, <3>1 DEF Stage, PairFacts
  <2>2. CASE ~Known(x, y)
    BY <1>7, <2>2 DEF Stage
  <2> QED BY <2>1, <2>2
<1>9. DeafTo' = [DeafTo EXCEPT ![kind] = @ \cup {c}]
  <2>1. \A k \in Kinds : \A x \in Clients :
          rx'[k][x] = IF k = kind /\ x = c THEN "dropped" ELSE rx[k][x]
    BY <1>1 DEF DropListener
  <2>2. \A k \in Kinds :
          DeafTo'[k] = IF k = kind THEN DeafTo[k] \cup {c} ELSE DeafTo[k]
    BY <2>1 DEF DeafTo
  <2> QED BY <2>2 DEF DeafTo
<1> QED BY <1>8, <1>9 DEF Deafens

\* A peer that gets its identifier was in no handshake.
LEMMA AdvertisedRests ==
  ASSUME MeshInv, ChainInv, MeshInv', ChainInv',
         NEW c \in Clients, StepOf(c), Advertised(c)
  PROVE  Rests
<1>1. FreshInv /\ PeerTypeInv /\ ArrivedWasSent /\ Kinds = {"offer", "answer"}
  BY DEF ChainInv, MeshInv, Kinds
<1>2. /\ UNCHANGED queue /\ UNCHANGED chain /\ UNCHANGED rx
      /\ local_id'[c] = call[c].id
      /\ \A x \in Clients : x # c => local_id'[x] = local_id[x]
      /\ call[c].op = "advertise"
  BY <1>1 DEF Advertised, Returned, channelVars, PeerTypeInv, PeerTypeOK
<1>3. local_id[c] = None
  BY <1>2 DEF MeshInv, ProgramInv, OwnName
<1>4. ASSUME NEW kind \in Kinds, NEW x \in Clients, NEW remote \in Id,
             Arrived(kind, x, remote)
      PROVE  x # c /\ remote # call[c].id
  <2>1. PICK y \in Clients : local_id[y] = remote /\ Sent(y, kind, x)
    BY <1>1, <1>4 DEF ArrivedWasSent, CameFrom
  <2>2. local_id[x] \in Id /\ None \notin Id
    BY <1>1, <1>4, ModulusPositive DEF ArrivedWasSent, CameFrom, Id, None
  <2>3. y # c /\ x # c
    BY <1>3, <2>1, <2>2
  <2>4. Own(y) = remote
    BY <2>1, <2>2 DEF MeshInv, ProgramInv, OwnName, Own
  <2> QED BY <1>2, <2>2, <2>3, <2>4 DEF MeshInv, OwnAlone, Own
<1>5. ASSUME NEW x \in Clients, NEW y \in Clients, x = c \/ y = c
      PROVE  Stage(x, y) = "none" /\ Stage(x, y)' = "none"
  <2>1. Stage(x, y) = "none"
    BY <1>3, <1>5 DEF Stage, Known
  <2>2. SUFFICES ASSUME Known(x, y)' PROVE Stage(x, y)' = "none"
    BY <2>1 DEF Stage
  <2>3. local_id'[x] \in Id /\ local_id'[y] \in Id
    BY <2>2 DEF MeshInv, PeerTypeInv, PeerTypeOK, Known
  <2>4. PICK r \in Id : r = local_id'[x]
    BY <2>3
  <2>5. PICK s \in Id : s = local_id'[y]
    BY <2>3
  <2>6. ~Arrived("offer", y, r) /\ ~Arrived("answer", x, s)
    BY <1>1, <1>2, <1>4, <1>5, <2>4, <2>5
  <2>7. ~Offering(x, y)' /\ ~Answering(x, y)' /\ ~Offered(x, y)' /\ ~Answered(x, y)'
    BY <1>2, <2>4, <2>5, <2>6
    DEF Offering, Answering, Offered, Answered, Arrived, GotEvent, Has
  <2>8. ~Completed(x, y)'
    <3>1. Has(x, "local_cplt", s) => Has(x, "got_answer", s)
      BY DEF ChainInv, ChainOrderInv, InOrder
    <3> QED
      BY <1>2, <2>5, <2>6, <3>1 DEF Completed, Arrived, GotEvent, Has
  <2> QED BY <2>7, <2>8 DEF Stage
<1>6. ASSUME NEW x \in Clients, NEW y \in Clients, x # c, y # c
      PROVE  Stage(x, y)' = Stage(x, y)
  BY <1>2, <1>6
  DEF Stage, Known, Offering, Answering, Offered, Answered, Completed, Has
<1>7. UNCHANGED DeafTo
  BY <1>2 DEF DeafTo
<1> QED BY <1>5, <1>6, <1>7 DEF Rests

\* Neither opening a listener nor passing over its empty message moves one, nor
\* does any step that leaves the queues alone.
LEMMA OthersRest ==
  ASSUME MeshInv, SelfInv, ChainInv, Silent, NEW c \in Clients, StepOf(c),
         UNCHANGED local_id,
         \A kind \in Kinds : ~Heard(c, kind),
         \A remote : ~StepLocalSigCplt(c, remote),
         \/ ListenerOpened(c)
         \/ \E kind \in Kinds : SkipEmpty(c, kind)
         \/ UNCHANGED queue /\ UNCHANGED rx
  PROVE  Rests
<1>1. /\ FreshInv /\ PeerTypeInv /\ Kinds = {"offer", "answer"}
      /\ queue \in [Kinds -> [Clients -> Seq(Id \cup {None})]]
      /\ rx \in [Kinds -> [Clients -> {"none", "open", "dropped"}]]
      /\ call[c].kind \in Kinds
  BY QueueTypes DEF ChainInv, MeshInv, Kinds
<1>2. ASSUME NEW kind \in Kinds, NEW d \in Clients, NEW remote \in Id
      PROVE  /\ In(queue[kind][d], remote)' <=> In(queue[kind][d], remote)
             /\ rx'[kind][d] = "dropped" <=> rx[kind][d] = "dropped"
  <2>1. remote # None
    BY ModulusPositive DEF Id, None
  <2>2. CASE ListenerOpened(c)
    <3>1. rx[call[c].kind][c] = "none"
      BY <1>1, <2>2 DEF ListenerOpened, FreshInv, Fresh
    <3>2. CASE kind = call[c].kind /\ d = c
      <4>1. queue[kind][d] = <<>> /\ queue'[kind][d] = <<None>>
        BY <1>1, <2>2, <3>1, <3>2 DEF Silent, ListenerOpened
      <4>2. ~In(queue[kind][d], remote) /\ ~In(queue'[kind][d], remote)
        BY <2>1, <4>1, InNew
      <4>3. rx[kind][d] = "none" /\ rx'[kind][d] = "open"
        BY <1>1, <2>2, <3>1, <3>2 DEF ListenerOpened
      <4> QED BY <4>2, <4>3
    <3>3. CASE kind # call[c].kind \/ d # c
      <4>1. queue'[kind][d] = queue[kind][d] /\ rx'[kind][d] = rx[kind][d]
        BY <1>1, <2>2, <3>3 DEF ListenerOpened
      <4> QED BY <4>1
    <3> QED BY <3>2, <3>3
  <2>3. CASE \E k \in Kinds : SkipEmpty(c, k)
    <3>1. PICK k \in Kinds : SkipEmpty(c, k)
      BY <2>3
    <3>2. /\ ReceiveSignal(c, k) /\ UNCHANGED rx
          /\ Head(queue[k][c]) = None
      BY <3>1 DEF SkipEmpty, ReceiveSignal, IsEmpty
    <3>3. CASE kind = k /\ d = c
      <4>1. /\ queue[kind][d] # <<>> /\ queue'[kind][d] = Tail(queue[kind][d])
            /\ queue[kind][d] \in Seq(Id \cup {None})
        BY <1>1, <3>2, <3>3 DEF ReceiveSignal
      <4>2. In(queue[kind][d], remote) <=> In(queue'[kind][d], remote)
        BY <2>1, <3>2, <3>3, <4>1, InTail
      <4> QED BY <3>2, <4>2
    <3>4. CASE kind # k \/ d # c
      <4>1. queue'[kind][d] = queue[kind][d]
        BY <1>1, <3>2, <3>4 DEF ReceiveSignal
      <4> QED BY <3>2, <4>1
    <3> QED BY <3>3, <3>4
  <2>4. CASE UNCHANGED queue /\ UNCHANGED rx
    BY <2>4
  <2> QED BY <2>2, <2>3, <2>4
<1>3. \A x \in Clients : local_id'[x] = local_id[x]
  OBVIOUS
<1>4. ASSUME NEW x \in Clients, NEW y \in Clients
      PROVE  Stage(x, y)' = Stage(x, y)
  <2>1. /\ Known(x, y)' <=> Known(x, y)
        /\ Offered(x, y)' <=> Offered(x, y)
        /\ Answered(x, y)' <=> Answered(x, y)
        /\ Completed(x, y)' <=> Completed(x, y)
    BY <1>1, EventSteps DEF Hears
  <2>2. ASSUME Known(x, y)
        PROVE  /\ Offering(x, y)' <=> Offering(x, y)
               /\ Answering(x, y)' <=> Answering(x, y)
    <3>1. local_id[x] \in Id /\ local_id[y] \in Id
      BY <1>1, <2>2 DEF Known, PeerTypeInv, PeerTypeOK
    <3>2. /\ In(queue["offer"][y], local_id[x])' <=> In(queue["offer"][y], local_id[x])
          /\ In(queue["answer"][x], local_id[y])' <=> In(queue["answer"][x], local_id[y])
      <4>1. PICK r \in Id : r = local_id[x]
        BY <3>1
      <4>2. PICK s \in Id : s = local_id[y]
        BY <3>1
      <4>3. /\ In(queue["offer"][y], r)' <=> In(queue["offer"][y], r)
            /\ In(queue["answer"][x], s)' <=> In(queue["answer"][x], s)
        BY <1>1, <1>2
      <4> QED BY <1>3, <4>1, <4>2, <4>3
    <3> QED BY <3>2 DEF Offering, Answering
  <2> QED BY <2>1, <2>2, StageKept
<1>5. UNCHANGED DeafTo
  BY <1>2, ModulusPositive DEF DeafTo, Id
<1> QED BY <1>4, <1>5 DEF Rests

-----------------------------------------------------------------------------
(* The refinement.                                                         *)

HandshakeInv == /\ MeshInv
                /\ SelfInv
                /\ ChainInv
                /\ Silent
                /\ StagesTold

\* Every step is a step of SignallingChain, or no handshake sees it.
LEMMA HandshakeStep ==
  ASSUME HandshakeInv, HandshakeInv', NEW c \in Clients, StepOf(c)
  PROVE  [Chain!Next]_(Chain!vars)
<1>1. /\ MeshInv /\ SelfInv /\ ChainInv /\ Silent /\ StagesTold
      /\ MeshInv' /\ ChainInv' /\ StagesTold'
      /\ DeafTo = [kind \in {"offer", "answer"} |->
                     {x \in Clients : rx[kind][x] = "dropped"}]
  BY DEF HandshakeInv, DeafTo, Kinds
<1>2. ASSUME NEW a \in Clients, NEW b \in Clients, a # b,
             \/ Chain!Offer(a, b) \/ Chain!ReceiveOffer(a, b)
             \/ Chain!Answer(a, b) \/ Chain!ReceiveAnswer(a, b)
             \/ Chain!Complete(a, b)
      PROVE  Chain!Next
  BY <1>2 DEF Chain!Next
<1>3. CASE Rests
  BY <1>1, <1>3, RestsStutters
<1>4. CASE SignalAccepted(c)
  <2>1. PICK a, b \in Clients :
          /\ a # b
          /\ \/ b \notin DeafTo["offer"] /\ Progresses(a, b, "none", "offer")
             \/ a \notin DeafTo["answer"] /\ Progresses(a, b, "offered", "answer")
    BY <1>1, <1>4, DeliveryMoves
  <2>2. Chain!Offer(a, b) \/ Chain!Answer(a, b)
    BY <1>1, <2>1, ProgressAdvances DEF Chain!Offer, Chain!Answer, DeafTo
  <2> QED BY <1>2, <2>1, <2>2
<1>5. CASE \E kind \in Kinds : Heard(c, kind)
  <2>1. PICK a, b \in Clients :
          /\ a # b
          /\ \/ Progresses(a, b, "offer", "offered")
             \/ Progresses(a, b, "answer", "answered")
    BY <1>1, <1>5, HearingMoves
  <2>2. Chain!ReceiveOffer(a, b) \/ Chain!ReceiveAnswer(a, b)
    BY <1>1, <2>1, ProgressAdvances DEF Chain!ReceiveOffer, Chain!ReceiveAnswer
  <2> QED BY <1>2, <2>1, <2>2
<1>6. CASE \E kind \in Kinds : DropListener(c, kind)
  <2>1. Chain!StopOffers(c) \/ Chain!StopAnswers(c)
    BY <1>1, <1>6, DropDeafens, DeafensStops
  <2> QED BY <2>1 DEF Chain!Next
<1>7. CASE \E remote : StepLocalSigCplt(c, remote)
  <2>1. PICK remote : StepLocalSigCplt(c, remote)
    BY <1>7
  <2>2. remote \in Id
    BY <1>1, <2>1
    DEF StepLocalSigCplt, StepCplt, Finish, MeshInv, PeerTypeInv, PeerTypeOK
  <2>3. ASSUME NEW b \in Clients, c # b, Progresses(c, b, "answered", "complete")
        PROVE  Chain!Next
    <3>1. Chain!Complete(c, b)
      BY <1>1, <2>3, ProgressAdvances DEF Chain!Complete
    <3> QED BY <1>2, <2>3, <3>1
  <2> QED BY <1>1, <1>3, <2>1, <2>2, <2>3, CompletionMoves
<1>8. CASE Advertised(c)
  BY <1>1, <1>3, <1>8, AdvertisedRests
<1>9. CASE /\ UNCHANGED local_id
           /\ \A kind \in Kinds : ~Heard(c, kind) /\ ~DropListener(c, kind)
           /\ \A remote : ~StepLocalSigCplt(c, remote)
           /\ ~SignalAccepted(c)
  <2>1. PeerTypeInv
    BY <1>1 DEF MeshInv
  <2>2. \/ ListenerOpened(c)
        \/ \E kind \in Kinds : SkipEmpty(c, kind)
        \/ UNCHANGED queue /\ UNCHANGED rx
    BY <1>9, <2>1, SignalSteps, ListenerSteps
  <2>3. Rests
    BY <1>1, <1>9, <2>2, OthersRest
  <2> QED BY <1>3, <2>3
<1> QED BY <1>4, <1>5, <1>6, <1>7, <1>8, <1>9, LocalIdSteps

\* As the next theorem, of peers that may stop at any point.
LEMMA SignallingImplementsChainOfSteps ==
  ASSUME ~Wraps
  PROVE  StepsSpec => ChainSpec
<1>1. Init => Chain!Init
  <2> SUFFICES ASSUME Init PROVE Chain!Init
    OBVIOUS
  <2>1. \A a, b \in Clients : Handshake(a, b) = "none"
    BY DEF Init, PeerInit, Handshake
  <2>2. \A kind \in Kinds : \A c \in Clients : rx[kind][c] # "dropped"
    BY DEF Init, ServerInit
  <2> QED BY <2>1, <2>2 DEF Chain!Init, Kinds
<1>2. HandshakeInv /\ HandshakeInv' /\ [Steps]_vars => [Chain!Next]_(Chain!vars)
  <2> SUFFICES ASSUME HandshakeInv, HandshakeInv', [Steps]_vars
               PROVE  [Chain!Next]_(Chain!vars)
    OBVIOUS
  <2>1. CASE UNCHANGED vars
    BY <2>1
    DEF vars, serverVars, peerVars, Chain!vars, Handshake, Occurrences, Has
  <2> QED BY <2>1, HandshakeStep DEF Steps
<1>3. StepsSpec => [](MeshInv /\ SelfInv /\ ChainInv)
  <2>1. ViewInv => SelfInv
    BY DEF ViewInv
  <2> QED BY <2>1, ViewInvariant, ChainInvariant, PTL
<1>4. StepsSpec => []Silent
  <2>1. MeshInv /\ ChainInv /\ Silent /\ [Steps]_vars => Silent'
    BY SilentNext DEF ChainInv
  <2> QED BY <2>1, SilentInit, ChainInvariant, PTL DEF StepsSpec
<1>5. StepsSpec => []StagesTold
  <2>1. MeshInv => StagesTold
    BY StageIs DEF MeshInv
  <2> QED BY <2>1, MeshInvariant, PTL
<1>6. StepsSpec => []HandshakeInv
  BY <1>3, <1>4, <1>5, PTL DEF HandshakeInv
<1> QED
  BY <1>1, <1>2, <1>6, PTL DEF StepsSpec, ChainSpec, Chain!Spec

\* Peers and server implement the handshakes of SignallingChain: between any two
\* peers there is one offer and one answer to it at most, what was sent arrives
\* unless its target stops listening, and a peer that stopped is sent nothing.
THEOREM SignallingImplementsChain ==
  ASSUME ~Wraps
  PROVE  Spec => ChainSpec
  BY SpecSteps, SignallingImplementsChainOfSteps, PTL
=============================================================================
