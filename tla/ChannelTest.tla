---------------------------- MODULE ChannelTest ----------------------------
(***************************************************************************)
(* The program of crates/just-webrtc/tests/data_channels.rs, which is the  *)
(* one the crate's README shows: one task that holds both ends and waits   *)
(* for one thing at a time, while the engine goes on at either end.        *)
(***************************************************************************)
EXTENDS PeerConnection

VARIABLE line       \* the line of Program the test is at

testVars == <<connectionVars, line>>

\* Once both descriptions are exchanged.
Program == << <<"connected", "offerer">>, <<"connected", "answerer">>,
              <<"channel", "offerer">>,   <<"channel", "answerer">>,
              <<"ready", "offerer">>,     <<"ready", "answerer">>,
              <<"send", "offerer">>,      <<"receive", "answerer">>,
              <<"send", "answerer">>,     <<"receive", "offerer">> >>

Done == Len(Program) + 1

TestTypeOK == ConnectionTypeOK /\ line \in 1 .. Done

TestInit == ConnectionInit /\ line = 1

Both(s) == [e \in Ends |-> s]

At(op, e) ==
    /\ stage = Both("signalled")
    /\ line < Done
    /\ Program[line] = <<op, e>>

-----------------------------------------------------------------------------
(* The lines.                                                              *)

\* while state_change().await != Connected {}
AwaitConnected(e) ==
    /\ At("connected", e)
    /\ TakeState(e)
    /\ line' = IF peer_connection_state[e] = "connected" THEN line + 1 ELSE line
    /\ UNCHANGED <<stage, engineVars, wire, historyVars, candidate_rx,
                   channels_rx, ready_state, rx>>

AwaitChannel(e) ==
    /\ At("channel", e)
    /\ TakeChannel(e)
    /\ line' = line + 1
    /\ UNCHANGED <<stage, engineVars, wire, peer_connection_state, historyVars,
                   candidate_rx, ready_state, rx>>

AwaitReady(e) ==
    /\ At("ready", e)
    /\ TakeReady(e)
    /\ line' = IF Ready(ready_state[e]) THEN line + 1 ELSE line
    /\ UNCHANGED <<stage, engineVars, wire, peer_connection_state, historyVars,
                   candidate_rx, channels_rx, rx>>

SendHello(e) ==
    /\ At("send", e)
    /\ Send(e, IF e = "offerer" THEN "request" ELSE "response")
    /\ line' = line + 1
    /\ UNCHANGED <<stage, engineVars, peer_connection_state, historyVars,
                   candidate_rx, channels_rx, ready_state, rx>>

ReceiveHello(e) ==
    /\ At("receive", e)
    /\ TakeMessage(e)
    /\ line' = line + 1
    /\ UNCHANGED <<stage, engineVars, wire, peer_connection_state, historyVars,
                   candidate_rx, channels_rx, ready_state>>

\* The test returns, when it is through or send has failed, and drops both ends.
Return ==
    /\ stage = Both("signalled")
    /\ line = Done \/ \E e \in Ends : At("send", e) /\ SendFails(e)
    /\ stage' = Both("returned")
    /\ UNCHANGED <<engineVars, wire, peer_connection_state, historyVars,
                   candidate_rx, channels_rx, ready_state, rx, line>>

Test == \/ \E e \in Ends : \/ Setup(e) /\ UNCHANGED line
                           \/ AwaitConnected(e)
                           \/ AwaitChannel(e)
                           \/ AwaitReady(e)
                           \/ SendHello(e)
                           \/ ReceiveHello(e)
        \/ Return

TestNext == Test \/ \E e \in Ends : Engine(e) /\ UNCHANGED line

TestSpec == TestInit /\ [][TestNext]_testVars

\* The test is polled, and the engine finishes what it began.
TestFairness ==
    /\ WF_testVars(Test)
    /\ \A e \in Ends : WF_testVars(Completes(e) /\ UNCHANGED line)

TestFairSpec == TestSpec /\ TestFairness

-----------------------------------------------------------------------------
(* Properties.                                                             *)

\* The test never waits for what is there already: while it waits with an empty
\* cell for an end to connect, that end is not connected, though it may have been
\* while the test waited for the other one; and while it waits so for a channel
\* to be ready, the channel is not open (native.rs:72-74, 106-108, 188-196, 254).
NoLostWakeup ==
    \A e \in Ends :
        /\ At("connected", e) /\ peer_connection_state[e] = Empty
             => state[e] # "connected"
        /\ At("ready", e) /\ ready_state[e] = Empty => data_channel[e] # "open"

\* What the test waits for at an end is not there.
Stuck(e) == \/ At("channel", e) /\ channels_rx[e] = 0
            \/ At("ready", e) /\ ready_state[e] # "true"
            \/ At("receive", e) /\ rx[e] = <<>>

\* If both ends stay connected in the end, the test gets through, whatever they
\* went through (data_channels.rs:48-68).  Only a channel that was closed stops it:
\* send fails, or the test waits for good for the channel, for a ready signal that
\* the close has overwritten, or for a message (native.rs:72-79, 188-191).
TestCompletes ==
    <>[](\A e \in Ends : state[e] = "connected") =>
        \/ <>(line = Done)
        \/ <>[](/\ \E e \in Ends : data_channel[e] = "closed"
                /\ stage = Both("returned") \/ \E e \in Ends : Stuck(e))
=============================================================================
