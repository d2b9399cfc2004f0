--------------------------- MODULE PeerDirectory ---------------------------
(***************************************************************************)
(* What the signalling server promises about its directory of peers, with  *)
(* none of its locks, channels or calls: an identifier joins the directory *)
(* at most once, its departure is announced before it is taken out, and an *)
(* identifier that has left never comes back.                              *)
(***************************************************************************)
EXTENDS Integers

CONSTANT Ids        \* the peer identifiers

VARIABLES
    live,           \* the peers in the directory
    leaving,        \* the identifiers whose departure was announced
    gone            \* the identifiers that have left, or were never admitted

vars == <<live, leaving, gone>>

Init == live = {} /\ leaving = {} /\ gone = {}

Join(id) ==
    /\ id \notin live \cup gone
    /\ live' = live \cup {id}
    /\ UNCHANGED <<leaving, gone>>

\* A departure may be announced of an identifier that is not in the directory:
\* nobody checks who asks for a teardown before it is broadcast.
Announce(id) ==
    /\ leaving' = leaving \cup {id}
    /\ UNCHANGED <<live, gone>>

Leave(id) ==
    /\ id \in live \cap leaving
    /\ live' = live \ {id}
    /\ gone' = gone \cup {id}
    /\ UNCHANGED leaving

Next == \E id \in Ids : Join(id) \/ Announce(id) \/ Leave(id)

Spec == Init /\ [][Next]_vars
=============================================================================
