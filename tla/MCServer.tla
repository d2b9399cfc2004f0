------------------------------ MODULE MCServer ------------------------------
(***************************************************************************)
(* The server on its own, facing callers that send any call at any time.   *)
(***************************************************************************)
EXTENDS SignallingServer, TLC

CONSTANTS
    MaxChanges,     \* bound on what is ever broadcast
    CalledOps,      \* the calls the callers make
    CalledIds,      \* the identifiers they name in them
    CalledKinds     \* the kinds of listeners they open and signal to

\* Who a signal is from matters to its receiver only.
Called(r) ==
    /\ r.op \in CalledOps
    /\ r.id \in CalledIds \cup {None}
    /\ r.op \in {"open_listener", "signal"} => r.kind \in CalledKinds
    /\ r.op = "signal" => r.from = 0

BoundedNext ==
    /\ ServerNext
    /\ Len(changes') <= MaxChanges
    /\ \A c \in Clients : call'[c].at = "sent" => Called(call'[c])

MCServerSpec == ServerInit /\ [][BoundedNext]_serverVars

ClientSymmetry == Permutations(Clients)
=============================================================================
