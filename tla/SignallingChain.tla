-------------------------- MODULE SignallingChain --------------------------
(***************************************************************************)
(* What signalling promises a pair of peers, with none of its calls,       *)
(* queues and identifiers: a peer offers at most once to another, which    *)
(* answers at most once and only what it was offered; what is on its way   *)
(* arrives, unless the peer it is for stops listening; and nothing is sent *)
(* to a peer that does not listen any more.                                *)
(***************************************************************************)
CONSTANT Peers

VARIABLES
    handshake,      \* [offerer][answerer]: how far the two have come
    deaf            \* [kind]: the peers that stopped listening to it

vars == <<handshake, deaf>>

\* "offer" and "answer" are on their way, "offered" and "answered" arrived.
Handshakes == {"none", "offer", "offered", "answer", "answered", "complete"}

Init ==
    /\ handshake = [a \in Peers |-> [b \in Peers |-> "none"]]
    /\ deaf = [kind \in {"offer", "answer"} |-> {}]

Advance(a, b, from, to) ==
    /\ handshake[a][b] = from
    /\ handshake' = [handshake EXCEPT ![a][b] = to]
    /\ UNCHANGED deaf

Offer(a, b) == b \notin deaf["offer"] /\ Advance(a, b, "none", "offer")

ReceiveOffer(a, b) == Advance(a, b, "offer", "offered")

Answer(a, b) == a \notin deaf["answer"] /\ Advance(a, b, "offered", "answer")

ReceiveAnswer(a, b) == Advance(a, b, "answer", "answered")

Complete(a, b) == Advance(a, b, "answered", "complete")

\* What is under way to a peer is lost when that peer stops listening.
StopOffers(p) ==
    /\ deaf' = [deaf EXCEPT !["offer"] = @ \cup {p}]
    /\ handshake' = [a \in Peers |->
                       [handshake[a] EXCEPT ![p] = IF @ = "offer" THEN "none" ELSE @]]

StopAnswers(p) ==
    /\ deaf' = [deaf EXCEPT !["answer"] = @ \cup {p}]
    /\ handshake' = [handshake EXCEPT ![p] =
                       [b \in Peers |-> IF @[b] = "answer" THEN "offered" ELSE @[b]]]

Next ==
    \/ \E a, b \in Peers : a # b /\ \/ Offer(a, b)
                                    \/ ReceiveOffer(a, b)
                                    \/ Answer(a, b)
                                    \/ ReceiveAnswer(a, b)
                                    \/ Complete(a, b)
    \/ \E p \in Peers : StopOffers(p) \/ StopAnswers(p)

Spec == Init /\ [][Next]_vars
=============================================================================
