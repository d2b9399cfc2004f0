--------------------------- MODULE PeerConnection ---------------------------
(***************************************************************************)
(* The peer connection of just-webrtc                                      *)
(* (crates/just-webrtc/src/platform/native.rs; wasm.rs is the same over    *)
(* browser events), one at each end of a connection with one data channel. *)
(*                                                                         *)
(* The WebRTC engine is external.  It calls the handlers that the builder  *)
(* registered, which leave what they were told in a cell (AsyncCell: the   *)
(* latest value, until it is taken) or in an unbounded queue; the methods  *)
(* an application calls wait for those.                                    *)
(***************************************************************************)
EXTENDS Integers, Sequences

CONSTANTS
    MaxStateChanges,    \* bound on the state changes of both ends
    MaxCandidates       \* bound on the candidates waiting to be collected

ASSUME ConnectionAssumption == MaxStateChanges \in Nat /\ MaxCandidates \in Nat

Ends == {"offerer", "answerer"}
Other(e) == IF e = "offerer" THEN "answerer" ELSE "offerer"

\* The application at each end: it builds the connection, collects its
\* candidates, signals, and then runs peer_echo_task of EchoPeers.
Stages == {"new", "collecting", "offered", "signalled", "select",
           "receive_channel", "returned", "panicked"}
Over == {"returned", "panicked"}

\* "closed" is only reported to an end that closed its connection itself, which
\* just-webrtc has no call for.
States == {"new", "connecting", "connected", "disconnected", "failed"}

VARIABLES
    stage,                  \* [end]: where its application is
    state,                  \* [end]: the state of the engine's connection
    changed,                \* how often that has changed, at either end
    gathering,              \* [end]: whether the engine looks for candidates
    data_channel,           \* [end]: the engine's end of the data channel
    wire,                   \* [end]: the messages under way to it
    peer_connection_state,  \* [end]: AsyncCell<PeerConnectionState>
    reported,               \* [end]: history, whether last up or disconnected
    odd,                    \* [end]: history, what was odd about its states
    candidate_rx,           \* [end]: queue of candidates
    channels_rx,            \* [end]: how many channels wait in the queue
    ready_state,            \* [end]: AsyncCell<bool> of the channel
    rx                      \* [end]: the channel's queue of messages

engineVars == <<state, changed, gathering, data_channel>>
historyVars == <<reported, odd>>
connectionVars == <<stage, engineVars, wire, peer_connection_state, historyVars,
                    candidate_rx, channels_rx, ready_state, rx>>

Messages == {"request", "response"}
Empty == "empty"                \* of a cell

ConnectionTypeOK ==
    /\ stage \in [Ends -> Stages]
    /\ state \in [Ends -> States]
    /\ changed \in 0 .. MaxStateChanges
    /\ gathering \in [Ends -> BOOLEAN]
    /\ data_channel \in [Ends -> {"none", "connecting", "open", "closed"}]
    /\ wire \in [Ends -> Seq(Messages)]
    /\ peer_connection_state \in [Ends -> States \cup {Empty}]
    /\ reported \in [Ends -> {"none", "up", "disconnected"}]
    /\ odd \in [Ends -> SUBSET {"missed", "again", "early"}]
    /\ candidate_rx \in [Ends -> Seq({"candidate", "none"})]
    /\ channels_rx \in [Ends -> 0 .. 1]
    /\ ready_state \in [Ends -> {"true", "false", Empty}]
    /\ rx \in [Ends -> Seq(Messages)]

ConnectionInit ==
    /\ stage = [e \in Ends |-> "new"]
    /\ state = [e \in Ends |-> "new"]
    /\ changed = 0
    /\ gathering = [e \in Ends |-> FALSE]
    /\ data_channel = [e \in Ends |-> "none"]
    /\ wire = [e \in Ends |-> <<>>]
    /\ peer_connection_state = [e \in Ends |-> Empty]
    /\ reported = [e \in Ends |-> "none"]
    /\ odd = [e \in Ends |-> {}]
    /\ candidate_rx = [e \in Ends |-> <<>>]
    /\ channels_rx = [e \in Ends |-> 0]
    /\ ready_state = [e \in Ends |-> Empty]
    /\ rx = [e \in Ends |-> <<>>]

-----------------------------------------------------------------------------
(* Building and signalling.                                                *)

MoveTo(e, s) == stage' = [stage EXCEPT ![e] = s]

\* Its connection was built and has not been dropped.
Alive(e) == stage[e] \notin {"new"} \cup Over

\* handle_data_channel: a channel whose handlers are set is queued.
HandleDataChannel(e) == channels_rx' = [channels_rx EXCEPT ![e] = @ + 1]

\* build without an offer: the channel is created and queued at once, and its
\* sender is dropped when build returns.
BuildOfferer ==
    /\ stage["offerer"] = "new"
    /\ MoveTo("offerer", "collecting")
    /\ gathering' = [gathering EXCEPT !["offerer"] = TRUE]
    /\ data_channel' = [data_channel EXCEPT !["offerer"] = "connecting"]
    /\ HandleDataChannel("offerer")
    /\ UNCHANGED <<state, changed, wire, peer_connection_state, historyVars,
                   candidate_rx, ready_state, rx>>

\* build with an offer: the handler of incoming channels keeps the sender.
BuildAnswerer ==
    /\ stage["answerer"] = "new"
    /\ stage["offerer"] = "offered"
    /\ MoveTo("answerer", "collecting")
    /\ gathering' = [gathering EXCEPT !["answerer"] = TRUE]
    /\ UNCHANGED <<state, changed, data_channel, wire, peer_connection_state,
                   historyVars, candidate_rx, channels_rx, ready_state, rx>>

\* collect_ice_candidates: until the None that ends them.  The offer or the
\* answer is then signalled with them.
Collect(e) ==
    /\ stage[e] = "collecting"
    /\ candidate_rx[e] # <<>>
    /\ candidate_rx' = [candidate_rx EXCEPT ![e] = Tail(@)]
    /\ MoveTo(e, IF Head(candidate_rx[e]) = "candidate" THEN "collecting"
                 ELSE IF e = "offerer" THEN "offered" ELSE "signalled")
    /\ UNCHANGED <<engineVars, wire, peer_connection_state, historyVars,
                   channels_rx, ready_state, rx>>

\* set_remote_description and add_ice_candidates, with the answer.
ReceiveAnswer ==
    /\ stage["offerer"] = "offered"
    /\ stage["answerer"] \notin {"new", "collecting"}
    /\ MoveTo("offerer", "signalled")
    /\ UNCHANGED <<engineVars, wire, peer_connection_state, historyVars,
                   candidate_rx, channels_rx, ready_state, rx>>

\* Both descriptions are set at e: its engine may start to connect.
Described(e) ==
    stage[e] \notin (IF e = "offerer" THEN {"new", "collecting", "offered"}
                                      ELSE {"new"})

-----------------------------------------------------------------------------
(* The engine, and the handlers it calls.                                  *)

\* variant: failure is reported as a close
ClosedForFailed(cell, s) == IF s = "failed" THEN "closed" ELSE s

\* variant: a state that is waiting to be taken is kept
KeepFirst(cell, s) == IF cell = Empty THEN s ELSE cell

\* AsyncCell::set overwrites what is there.
Set(cell, s) == s

\* The engine tells each state from what its transports are in ("new" also when
\* all of them are closed, or none has begun yet), so any may follow any other.
\* Only a transport that failed stays so: nothing in just-webrtc restarts it.
Successors(s) == IF s = "failed" THEN {} ELSE States \ {s}

\* The states that the example takes for a connection.
Up == {"new", "connected"}

\* History: which of being up and being disconnected was reported last ...
Reported(last, s) == IF s \in Up THEN "up"
                     ELSE IF s = "disconnected" THEN s ELSE last

\* ... and what an application may not be prepared for: a state that nobody saw,
\* an end that is reported up again with no interruption in between, and one
\* that is interrupted before it was ever up.
Oddities(cell, last, s) ==
    {o \in {"missed", "again", "early"} :
        \/ o = "missed" /\ cell # Empty
        \/ o = "again" /\ s \in Up /\ last = "up"
        \/ o = "early" /\ s = "disconnected" /\ last = "none"}

\* handle_peer_connection_state_change.
StateChange(e) ==
    /\ Alive(e) /\ Described(e)
    /\ changed < MaxStateChanges
    /\ \E s \in Successors(state[e]) :
         /\ s = "connected" => Described(Other(e))
         /\ state' = [state EXCEPT ![e] = s]
         /\ peer_connection_state' =
              [peer_connection_state EXCEPT ![e] = Set(@, s)]
         /\ reported' = [reported EXCEPT ![e] = Reported(@, s)]
         /\ odd' = [odd EXCEPT ![e] =
              @ \cup Oddities(peer_connection_state[e], reported[e], s)]
    /\ changed' = changed + 1
    /\ UNCHANGED <<stage, gathering, data_channel, wire, candidate_rx,
                   channels_rx, ready_state, rx>>

\* handle_ice_candidate; a candidate that cannot be serialised is left out.
IceCandidate(e) ==
    /\ Alive(e) /\ gathering[e]
    /\ Len(candidate_rx[e]) < MaxCandidates
    /\ candidate_rx' = [candidate_rx EXCEPT ![e] = Append(@, "candidate")]
    /\ UNCHANGED <<stage, engineVars, wire, peer_connection_state, historyVars,
                   channels_rx, ready_state, rx>>

IceGatheringFinished(e) ==
    /\ Alive(e) /\ gathering[e]
    /\ gathering' = [gathering EXCEPT ![e] = FALSE]
    /\ candidate_rx' = [candidate_rx EXCEPT ![e] = Append(@, "none")]
    /\ UNCHANGED <<stage, state, changed, data_channel, wire,
                   peer_connection_state, historyVars, channels_rx, ready_state,
                   rx>>

\* The handler of incoming channels, at the end that was offered the channel.
IncomingChannel ==
    /\ Alive("answerer")
    /\ state["answerer"] = "connected"
    /\ data_channel["answerer"] = "none"
    /\ data_channel["offerer"] \in {"connecting", "open"}
    /\ data_channel' = [data_channel EXCEPT !["answerer"] = "connecting"]
    /\ HandleDataChannel("answerer")
    /\ UNCHANGED <<stage, state, changed, gathering, wire,
                   peer_connection_state, historyVars, candidate_rx,
                   ready_state, rx>>

\* handle_data_channel_open and handle_data_channel_close set the same cell.
SetReady(e, value) == ready_state' = [ready_state EXCEPT ![e] = value]

ChannelOpen(e) ==
    /\ Alive(e)
    /\ state[e] = "connected"
    /\ data_channel[e] = "connecting"
    /\ data_channel' = [data_channel EXCEPT ![e] = "open"]
    /\ SetReady(e, "true")
    /\ UNCHANGED <<stage, state, changed, gathering, wire,
                   peer_connection_state, historyVars, candidate_rx,
                   channels_rx, rx>>

ChannelClose(e) ==
    /\ Alive(e)
    /\ state[e] \in {"failed", "new"} \/ stage[Other(e)] \in Over
    /\ data_channel[e] = "open"
    /\ data_channel' = [data_channel EXCEPT ![e] = "closed"]
    /\ SetReady(e, "false")
    /\ UNCHANGED <<stage, state, changed, gathering, wire,
                   peer_connection_state, historyVars, candidate_rx,
                   channels_rx, rx>>

\* handle_data_channel_message queues what it is given.
Deliver(e, message) == rx' = [rx EXCEPT ![e] = Append(@, message)]

\* The default channel is reliable and ordered.
ChannelMessage(e) ==
    /\ Alive(e)
    /\ state[e] = "connected"
    /\ data_channel[e] = "open"
    /\ wire[e] # <<>>
    /\ wire' = [wire EXCEPT ![e] = Tail(@)]
    /\ Deliver(e, Head(wire[e]))
    /\ UNCHANGED <<stage, engineVars, peer_connection_state, historyVars,
                   candidate_rx, channels_rx, ready_state>>

\* What the engine does in its own time: nothing obliges it to connect or to
\* disconnect, but it finishes what it has begun.
Completes(e) == \/ IceGatheringFinished(e)
                \/ e = "answerer" /\ IncomingChannel
                \/ ChannelOpen(e)
                \/ ChannelMessage(e)

Engine(e) == \/ Completes(e)
             \/ StateChange(e)
             \/ IceCandidate(e)
             \/ ChannelClose(e)

\* build, collect_ice_candidates and the exchange of descriptions.
Setup(e) == \/ e = "offerer" /\ (BuildOfferer \/ ReceiveAnswer)
            \/ e = "answerer" /\ BuildAnswerer
            \/ Collect(e)

-----------------------------------------------------------------------------
(* The methods the application waits for.  Each takes what a handler left. *)

\* state_change
TakeState(e) ==
    /\ peer_connection_state[e] # Empty
    /\ peer_connection_state' = [peer_connection_state EXCEPT ![e] = Empty]

\* receive_channel
TakeChannel(e) ==
    /\ channels_rx[e] > 0
    /\ channels_rx' = [channels_rx EXCEPT ![e] = @ - 1]

\* receive_channel fails at the end whose sender build has dropped.
NoMoreChannels(e) == e = "offerer" /\ channels_rx[e] = 0

\* variant: wait_ready goes on while the channel is open
ReadyInverted(value) == value = "false"

\* The condition that ends the loop of wait_ready, and one round of it.
Ready(value) == value = "true"

TakeReady(e) ==
    /\ ready_state[e] # Empty
    /\ ready_state' = [ready_state EXCEPT ![e] = Empty]

\* receive and send
TakeMessage(e) ==
    /\ rx[e] # <<>>
    /\ rx' = [rx EXCEPT ![e] = Tail(@)]

Send(e, message) ==
    /\ data_channel[e] = "open"
    /\ wire' = [wire EXCEPT ![Other(e)] = Append(@, message)]

SendFails(e) == data_channel[e] # "open"
=============================================================================
