---------------------------- MODULE ExamplePeers ----------------------------
(***************************************************************************)
(* The example peers (examples/signalling-peer/src/main.rs): run_peer and  *)
(* the five callbacks it gives to a signalling peer, which hand the peer   *)
(* connections to each other through a PeerConnectionMap.                  *)
(*                                                                         *)
(* A callback is a future among those of step, so it is polled only while  *)
(* its peer waits in step; but it may wait itself, with the connection it  *)
(* took from the map in its hands, while other callbacks of the same peer  *)
(* run.  An error of any of them ends the peer.                            *)
(***************************************************************************)
EXTENDS SignallingClient

VARIABLES
    connections,    \* [client][id]: the PeerConnectionMap
    held,           \* [client]: the connections callbacks have taken from it
    failed          \* [client]: history, the callback whose error ended it

exampleVars == <<connections, held, failed>>
allVars == <<vars, exampleVars>>

\* A local connection made an offer, a remote one was made from an offer.
Roles == {"local", "remote"}

\* The callbacks that make a connection, and those that take one.
Makers == {"create_offer", "receive_offer"}
EchoTasks == {"local_sig_cplt", "remote_sig_cplt"}
Takers == {"receive_answer"} \cup EchoTasks

\* "taken": the identifier is a key, its connection is None.
ExampleTypeOK ==
    /\ TypeOK
    /\ connections \in [Clients -> [Id -> Roles \cup {"absent", "taken"}]]
    /\ held \in [Clients -> SUBSET (Takers \X Roles \X Id)]
    /\ failed \in [Clients -> SUBSET (Tasks \X Id)]

NoConnections == [remote \in Id |-> "absent"]

ExampleInit ==
    /\ Init
    /\ connections = [c \in Clients |-> NoConnections]
    /\ held = [c \in Clients |-> {}]
    /\ failed = [c \in Clients |-> {}]

-----------------------------------------------------------------------------
(* PeerConnectionMap.                                                      *)

Put(c, remote, entry) ==
    connections' = [connections EXCEPT ![c][remote] = entry]

\* variant: insert looks at the connection, not at the key
NoConnection(c, remote) == connections[c][remote] \notin Roles

Insertable(c, remote) == connections[c][remote] = "absent"

Takeable(c, remote) == connections[c][remote] \in Roles

Placeable(c, remote) == connections[c][remote] = "taken"

Holds(c, task, remote) == \E role \in Roles : <<task, role, remote>> \in held[c]

\* run_peer returns, with what the callbacks share.
DropConnections(c) ==
    /\ connections' = [connections EXCEPT ![c] = NoConnections]
    /\ held' = [held EXCEPT ![c] = {}]

-----------------------------------------------------------------------------
(* The callbacks.                                                          *)

\* create_offer_fn and receive_offer_fn insert what they made and return.
OfferCreated(c, remote) ==
    /\ StepCreateOffer(c, remote)
    /\ Insertable(c, remote)
    /\ Put(c, remote, "local")
    /\ UNCHANGED <<held, failed>>

OfferReceived(c, remote) ==
    /\ StepReceiveOffer(c, remote)
    /\ Insertable(c, remote)
    /\ Put(c, remote, "remote")
    /\ UNCHANGED <<held, failed>>

\* variant: a callback looks at the connection and leaves it in the map
LeftInMap(c, remote) == UNCHANGED connections

TakenFrom(c, remote) == Put(c, remote, "taken")

\* The other callbacks take a connection and wait for the engine, or for the
\* echo task to return.
Take(c, task, remote) ==
    /\ Finish(c, task, remote)
    /\ ~Holds(c, task, remote)
    /\ Takeable(c, remote)
    /\ held' = [held EXCEPT ![c] = @ \cup {<<task, connections[c][remote], remote>>}]
    /\ TakenFrom(c, remote)
    /\ UNCHANGED <<vars, failed>>

\* receive_answer_fn places it back.
AnswerReceived(c, remote) ==
    /\ StepReceiveAnswer(c, remote)
    /\ Placeable(c, remote)
    /\ \E role \in Roles :
         /\ <<"receive_answer", role, remote>> \in held[c]
         /\ held' = [held EXCEPT ![c] = @ \ {<<"receive_answer", role, remote>>}]
         /\ Put(c, remote, role)
    /\ UNCHANGED failed

\* The echo task returns and drops the connection; the key stays in the map.
EchoReturned(c, remote) ==
    /\ \E task \in EchoTasks, role \in Roles :
         /\ <<task, role, remote>> \in held[c]
         /\ held' = [held EXCEPT ![c] = @ \ {<<task, role, remote>>}]
         /\ IF task = "local_sig_cplt" THEN StepLocalSigCplt(c, remote)
                                       ELSE StepRemoteSigCplt(c, remote)
    /\ UNCHANGED <<connections, failed>>

\* "pre-existing peer ID!", "peer ID not found!", "peer connection not found!",
\* "dropped peer connection!"
Errs(c, task, remote) ==
    \/ task \in Makers /\ ~Insertable(c, remote)
    \/ task \in Takers /\ ~Holds(c, task, remote) /\ ~Takeable(c, remote)
    \/ task = "receive_answer" /\ Holds(c, task, remote) /\ ~Placeable(c, remote)

CallbackFails(c) ==
    /\ \E task \in Tasks, remote \in Id :
         /\ Finish(c, task, remote)
         /\ Errs(c, task, remote)
         /\ failed' = [failed EXCEPT ![c] = {<<task, remote>>}]
    /\ DropPeer(c)
    /\ DropConnections(c)
    /\ UNCHANGED serverVars

-----------------------------------------------------------------------------

Callback(c, remote) ==
    \/ OfferCreated(c, remote)
    \/ OfferReceived(c, remote)
    \/ \E task \in Takers : Take(c, task, remote)
    \/ AnswerReceived(c, remote)

\* run_peer.
RunPeer(c) ==
    \/ Start(c) /\ UNCHANGED exampleVars
    \/ StepPeerListener(c) /\ UNCHANGED exampleVars
    \/ StepSignal(c) /\ UNCHANGED exampleVars
    \/ \E remote \in Id : Callback(c, remote)
    \/ CallbackFails(c)
    \/ End(c) /\ DropConnections(c) /\ UNCHANGED failed

ExampleNext ==
    \E c \in Clients :
        \/ Serve(c) /\ UNCHANGED exampleVars
        \/ RunPeer(c)
        \/ \E remote \in Id : EchoReturned(c, remote)
        \/ Abandon(c) /\ DropConnections(c) /\ UNCHANGED failed
        \/ Aftermath(c) /\ UNCHANGED exampleVars

ExampleSpec == ExampleInit /\ [][ExampleNext]_allVars

\* As of SignallingClient.  A callback that makes a connection or applies an
\* answer returns; an echo task may run for good.
ExampleFairness ==
    \A c \in Clients : /\ WF_allVars(Serve(c) /\ UNCHANGED exampleVars)
                       /\ WF_allVars(RunPeer(c))

ExampleFairSpec == ExampleSpec /\ ExampleFairness

-----------------------------------------------------------------------------
(* Properties.                                                             *)

\* A callback that takes a connection finds it, the one its chain has made, and
\* receive_answer_fn finds the place empty to which it returns it: of the errors
\* of the map only the one of insert ever happens.  The five callbacks run in
\* the order of their chains, but those of the two chains of a remote peer are
\* independent of each other and share its entry (main.rs:181-200).
CallbacksFindTheirs ==
    \A c \in Clients, remote \in Id :
        /\ \A task \in Takers : <<task, remote>> \in pending[c] =>
             LET role == IF task = "remote_sig_cplt" THEN "remote" ELSE "local"
             IN  IF Holds(c, task, remote)
                   THEN /\ <<task, role, remote>> \in held[c]
                        /\ connections[c][remote] = "taken"
                   ELSE connections[c][remote] = role
        /\ \A task \in Takers : <<task, remote>> \notin failed[c]

\* The error of insert means that each of the two peers found the other in its
\* first message, and so each makes an offer to the other (main.rs:175).
OnlyGlareFails ==
    \A c \in Clients : \A task \in Tasks, remote \in Id :
        <<task, remote>> \in failed[c] =>
          \E d \in Clients : /\ local_id[d] = remote
                             /\ remote \in peer_listener[c].initial
                             /\ local_id[c] \in peer_listener[d].initial

Echoing(c, role, remote) ==
    \E task \in EchoTasks : <<task, role, remote>> \in held[c]

\* The echo tasks at the two ends of a connection never take the same side: the
\* offerer sends requests, the answerer responds (main.rs:25-51).
EchoSidesDiffer ==
    \A a, b \in Clients : a # b =>
        \A role \in Roles :
            ~(Echoing(a, role, local_id[b]) /\ Echoing(b, role, local_id[a]))

Echoed(a, b) ==
    \/ \E role \in Roles : Echoing(a, role, local_id[b])
    \/ Has(a, "local_cplt", local_id[b]) \/ Has(a, "remote_cplt", local_id[b])

\* An offer that was acknowledged leads to an echo task at both ends, unless one
\* of the two peers ends (main.rs:236-267).
OffersEcho ==
    \A a, b \in Clients :
        a # b /\ local_id[b] # None /\ Has(a, "offered", local_id[b]) ~>
            \/ Echoed(a, b) /\ Echoed(b, a)
            \/ pc[a] = "gone" \/ pc[b] = "gone"

\* "You should see them all communicating with each-other!": no callback fails.
CallbacksSucceed == \A c \in Clients : failed[c] = {}
=============================================================================
