---------------------------- MODULE MCSignalling ----------------------------
(***************************************************************************)
(* Peers and server together.  Nothing needs a bound: a peer starts once   *)
(* and makes at most one offer to each peer it finds.  To keep more peers  *)
(* and more failures within reach, some peers may start late, when the     *)
(* others have settled (Late), and a peer may be prompt in what only it    *)
(* can see (PromptSpec).                                                   *)
(***************************************************************************)
EXTENDS SignallingClient, TLC

CONSTANT Late       \* peers that start only when every other one has settled

\* The peers that start at any time.
Early == Clients \ Late

Idle(c) == /\ pc[c] = "running" /\ pending[c] = {} /\ ~peer_listener[c].first
           /\ \A kind \in Kinds : queue[kind][c] = <<>>

LateStart ==
    \A c \in Late : pc[c] = "new" /\ pc'[c] # "new" =>
        \A d \in Early : pc[d] = "gone" \/ Idle(d)

\* With late peers, the others fail or close when idle, before the late ones
\* start; an error of a call or of the peer listener ends them at any time.
EarlyEnd ==
    Late # {} => \A c \in Early : Abandon(c) \/ Close(c) =>
        Idle(c) /\ \A d \in Late : pc[d] = "new"

MCNext == Next /\ LateStart /\ EarlyEnd

MCSpec == Init /\ [][MCNext]_vars

\* The steps that only this peer can see: it takes a reply and sends its next
\* request...
PromptCall(c) ==
    \/ Advertised(c)
    \/ PeerListenerOpened(c)
    \/ OfferListenerOpened(c)
    \/ AnswerListenerOpened(c)
    \/ Synchronised(c)
    \/ \E kind \in Kinds : SkipEmpty(c, kind)
    \/ OfferSignalled(c)
    \/ AnswerSignalled(c)
    \/ SignalDropped(c)
    \/ AbandonedCallReturns(c)
    \/ pc[c] = "gone" /\ DropPeerListener(c)
         /\ UNCHANGED <<peerVars, directoryVars, channelVars, call>>

\* ... or one of its callbacks returns.
PromptCallback(c) ==
    \E remote \in Id : \/ StepReceiveAnswer(c, remote)
                       \/ StepLocalSigCplt(c, remote)
                       \/ StepRemoteSigCplt(c, remote)

\* When they can be taken: ENABLED PromptCall(c) and ENABLED PromptCallback(c).
CanCall(c) ==
    \/ call[c].at = "replied" /\ pc[c] # "closing" /\ (Handled(c) \/ pc[c] = "gone")
    \/ pc[c] = "running" /\ \E kind \in Kinds :
                              queue[kind][c] # <<>> /\ IsEmpty(Head(queue[kind][c]))
    \/ pc[c] = "gone" /\ peer_listener[c].state = "open"

CanCallback(c) ==
    /\ pc[c] = "running"
    /\ \E <<task, remote>> \in pending[c] :
          task \in {"receive_answer", "local_sig_cplt", "remote_sig_cplt"}

\* The same system with peers that never wait to take such a step: it commutes
\* with what everyone else does, and a peer that ends right after it leaves the
\* server as one that ended right before.
PromptNext ==
    LET ready == {c \in Clients : CanCall(c) \/ CanCallback(c)}
    IN  IF ready = {} THEN MCNext
        ELSE \E c \in ready : PromptCall(c) \/ PromptCallback(c)

PromptSpec == Init /\ [][PromptNext]_vars

PromptFairSpec == PromptSpec /\ Fairness

\* The late peers are alike (safety only).
LateSymmetry == Permutations(Late)
=============================================================================
