------------------------------ MODULE EchoPeers ------------------------------
(***************************************************************************)
(* peer_echo_task and channel_echo_task of the example peer                *)
(* (examples/signalling-peer/src/main.rs) at both ends of one connection.  *)
(*                                                                         *)
(* The task is a loop around a select! of four futures: the next state     *)
(* change, the readiness of the channel, the echo over it, and a timeout   *)
(* that is armed while the connection is interrupted.  The arm of a state  *)
(* change may wait for the channel itself; the others are not polled then. *)
(***************************************************************************)
EXTENDS PeerConnection

VARIABLES
    dropping,       \* [end]: connection_drop_timeout_fut is armed
    readying,       \* [end]: channel_ready_fut waits
    echo            \* [end]: where channel_task_fut is

taskVars == <<dropping, readying, echo>>
vars == <<connectionVars, taskVars>>

EchoTypeOK ==
    /\ ConnectionTypeOK
    /\ dropping \in [Ends -> BOOLEAN]
    /\ readying \in [Ends -> BOOLEAN]
    /\ echo \in [Ends -> {"off", "send", "await", "serve"}]

Init ==
    /\ ConnectionInit
    /\ dropping = [e \in Ends |-> FALSE]
    /\ readying = [e \in Ends |-> FALSE]
    /\ echo = [e \in Ends |-> "off"]

StartTask(e) ==
    /\ stage[e] = "signalled"
    /\ MoveTo(e, "select")
    /\ UNCHANGED <<engineVars, wire, peer_connection_state, historyVars,
                   candidate_rx, channels_rx, ready_state, rx, taskVars>>

-----------------------------------------------------------------------------
(* The arm of state_change_fut.                                            *)

StateChanged(e, states) ==
    /\ stage[e] = "select"
    /\ TakeState(e)
    /\ peer_connection_state[e] \in states
    /\ UNCHANGED <<engineVars, wire, historyVars, candidate_rx, channels_rx,
                   ready_state, rx, readying, echo>>

\* variant: the timeout goes on
NotCleared(e) == dropping

Cleared(e) == [dropping EXCEPT ![e] = FALSE]

TaskRecovered(e) ==
    /\ dropping[e]
    /\ StateChanged(e, Up)
    /\ dropping' = Cleared(e)
    /\ UNCHANGED stage

\* The channel is waited for inside the arm.
TaskConnected(e) ==
    /\ ~dropping[e]
    /\ StateChanged(e, Up)
    /\ MoveTo(e, "receive_channel")
    /\ UNCHANGED dropping

\* variant: the timeout is not armed
NotArmed(e) == dropping

Armed(e) == [dropping EXCEPT ![e] = TRUE]

TaskInterrupted(e) ==
    /\ StateChanged(e, {"disconnected"})
    /\ dropping' = Armed(e)
    /\ UNCHANGED stage

\* variant: a failed connection is only logged
FailureIgnored(e) == stage[e]

AfterFailure(e) == "returned"

TaskFailed(e) ==
    /\ StateChanged(e, {"failed"})
    /\ MoveTo(e, AfterFailure(e))
    /\ UNCHANGED dropping

TaskIgnores(e) ==
    /\ StateChanged(e, {"connecting"})
    /\ UNCHANGED <<stage, dropping>>

TaskReceiveChannel(e) ==
    /\ stage[e] = "receive_channel"
    /\ TakeChannel(e)
    /\ readying' = [readying EXCEPT ![e] = TRUE]
    /\ MoveTo(e, "select")
    /\ UNCHANGED <<engineVars, wire, peer_connection_state, historyVars,
                   candidate_rx, ready_state, rx, dropping, echo>>

\* receive_channel().await.unwrap()
TaskUnwrapFails(e) ==
    /\ stage[e] = "receive_channel"
    /\ NoMoreChannels(e)
    /\ MoveTo(e, "panicked")
    /\ UNCHANGED <<engineVars, wire, peer_connection_state, historyVars,
                   candidate_rx, channels_rx, ready_state, rx, taskVars>>

-----------------------------------------------------------------------------
(* The other arms.                                                         *)

\* channel_ready_fut: wait_ready goes round until the cell holds true.
TaskReady(e) ==
    /\ stage[e] = "select"
    /\ readying[e]
    /\ TakeReady(e)
    /\ IF Ready(ready_state[e])
         THEN /\ readying' = [readying EXCEPT ![e] = FALSE]
              /\ echo' = [echo EXCEPT ![e] =
                            IF e = "offerer" THEN "send" ELSE "serve"]
         ELSE UNCHANGED <<readying, echo>>
    /\ UNCHANGED <<stage, engineVars, wire, peer_connection_state, historyVars,
                   candidate_rx, channels_rx, rx, dropping>>

Echoing(e, location) == stage[e] = "select" /\ echo[e] = location

\* variant: the offerer does not wait for the response
SendsAgain == "send"

AfterRequest == "await"

\* channel_echo_task, the offerer: a request every second, each answered first.
EchoRequest ==
    /\ Echoing("offerer", "send")
    /\ Send("offerer", "request")
    /\ echo' = [echo EXCEPT !["offerer"] = AfterRequest]
    /\ UNCHANGED <<stage, engineVars, peer_connection_state, historyVars,
                   candidate_rx, channels_rx, ready_state, rx, dropping,
                   readying>>

EchoReceive ==
    /\ Echoing("offerer", "await")
    /\ TakeMessage("offerer")
    /\ echo' = [echo EXCEPT !["offerer"] = "send"]
    /\ UNCHANGED <<stage, engineVars, wire, peer_connection_state, historyVars,
                   candidate_rx, channels_rx, ready_state, dropping, readying>>

\* ... and the answerer: a response to every request.
EchoRespond ==
    /\ Echoing("answerer", "serve")
    /\ TakeMessage("answerer")
    /\ Head(rx["answerer"]) = "request"
    /\ Send("answerer", "response")
    /\ UNCHANGED <<stage, engineVars, peer_connection_state, historyVars,
                   candidate_rx, channels_rx, ready_state, taskVars>>

\* An error of send ends the echo, and with it the task.
EchoFails(e) ==
    /\ SendFails(e)
    /\ \/ Echoing(e, "send") /\ UNCHANGED rx
       \/ Echoing(e, "serve") /\ TakeMessage(e)
    /\ MoveTo(e, "returned")
    /\ UNCHANGED <<engineVars, wire, peer_connection_state, historyVars,
                   candidate_rx, channels_rx, ready_state, taskVars>>

\* connection_drop_timeout_fut: select! takes any future that is ready, so the
\* timeout may be taken though the connection is back.
TaskTimeout(e) ==
    /\ stage[e] = "select"
    /\ dropping[e]
    /\ MoveTo(e, "returned")
    /\ UNCHANGED <<engineVars, wire, peer_connection_state, historyVars,
                   candidate_rx, channels_rx, ready_state, rx, taskVars>>

Application(e) ==
    \/ Setup(e) /\ UNCHANGED taskVars
    \/ StartTask(e)
    \/ TaskRecovered(e)
    \/ TaskConnected(e)
    \/ TaskInterrupted(e)
    \/ TaskFailed(e)
    \/ TaskIgnores(e)
    \/ TaskReceiveChannel(e)
    \/ TaskUnwrapFails(e)
    \/ TaskReady(e)
    \/ e = "offerer" /\ (EchoRequest \/ EchoReceive)
    \/ e = "answerer" /\ EchoRespond
    \/ EchoFails(e)

Next == \E e \in Ends : \/ Engine(e) /\ UNCHANGED taskVars
                        \/ Application(e)
                        \/ TaskTimeout(e)

Spec == Init /\ [][Next]_vars

\* The application keeps being polled, and the engine finishes what it began.
\* No state change is sure to come, and time may always stand still.
Fairness ==
    \A e \in Ends : /\ WF_vars(Application(e))
                    /\ WF_vars(Completes(e) /\ UNCHANGED taskVars)

FairSpec == Spec /\ Fairness

-----------------------------------------------------------------------------
(* Properties.                                                             *)

InFlight(e) == Len(wire[e]) + Len(rx[e])

\* Requests and responses take turns on the channel: there is one message at
\* most, there is none while the offerer is about to send, and while it waits
\* its request or the response to it is there, unless the answerer has ended
\* (channel_echo_task, main.rs:27-51).
EchoAlternates ==
    LET messages == InFlight("offerer") + InFlight("answerer")
    IN  /\ messages <= 1
        /\ echo["offerer"] \in {"off", "send"} => messages = 0
        /\ echo["offerer"] = "await" /\ stage["answerer"] \notin Over
             => messages = 1

\* The timeout is right: a task that has seen all there is to see has it armed
\* while the connection is interrupted, and not while it is up, whatever states
\* were overwritten before (main.rs:78-95).
TimeoutFollows ==
    \A e \in Ends : peer_connection_state[e] = Empty =>
        /\ state[e] = "disconnected" => dropping[e]
        /\ dropping[e] => state[e] \notin Up

\* The unwrap fails for two reasons only: a state was overwritten before it was
\* seen, or the connection was reported up twice without an interruption, and
\* the second time is taken for a first connection too (main.rs:75-83).
UnwrapExplained ==
    \A e \in Ends :
        stage[e] = "panicked" => odd[e] \cap {"missed", "again"} # {}

Lasts(e) == /\ state[e] = "connected" /\ data_channel[e] # "closed"
            /\ stage[e] \notin Over

Started(e) == echo[e] # "off"

\* If the connection lasts with its channel and both tasks run, and no state was
\* missed or reported up again, the echo starts at each end, unless the connection
\* was interrupted before it was seen up: what comes up then is taken for a
\* recovery, and the channel stays in its queue for good (main.rs:78-109).
EchoStarts ==
    <>[](\A e \in Ends : Lasts(e) /\ odd[e] \subseteq {"early"}) =>
        \A e \in Ends : \/ <>Started(e)
                        \/ <>[](odd[e] = {"early"} /\ channels_rx[e] = 1)

\* A task whose connection fails ends, unless it is the answerer's and waits for
\* good for a channel that never comes (main.rs:83, 96-99).
FailureEnds ==
    \A e \in Ends :
        <>(state[e] = "failed")
          => \/ <>(stage[e] \in Over)
             \/ <>[](e = "answerer" /\ stage[e] = "receive_channel"
                                  /\ channels_rx[e] = 0)

-----------------------------------------------------------------------------
(* What the example's text leads one to expect, and its code does not keep. *)

\* A connection that comes up once for every interruption is not unwrapped twice:
\* "let channel = peer_connection.receive_channel().await.unwrap();" (main.rs:83)
\* takes the channel to be there.
UnwrapSucceeds ==
    \A e \in Ends : odd[e] \subseteq {"missed"} => stage[e] # "panicked"
=============================================================================
