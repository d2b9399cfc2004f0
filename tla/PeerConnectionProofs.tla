------------------------ MODULE PeerConnectionProofs ------------------------
(***************************************************************************)
(* The peer connection under its two programs, for any number of state     *)
(* changes and candidates: the tasks of the example at both ends of it     *)
(* (EchoPeers), and the crate's test (ChannelTest).                        *)
(***************************************************************************)
EXTENDS EchoPeers, ChannelTest, TLAPS

-----------------------------------------------------------------------------
(* The connection, whatever program uses it.                               *)

\* An end that was not built yet has no channel, and none is queued before it is
\* there.
ChannelOnce ==
    /\ stage["offerer"] = "new" => data_channel["offerer"] = "none"
    /\ \A e \in Ends : data_channel[e] = "none" => channels_rx[e] = 0

\* What waits to be seen is how the connection is now: a cell may lose states,
\* never the last one.
LastStateSeen ==
    \A e \in Ends : peer_connection_state[e] \in {Empty, state[e]}

ConnectionInv == ConnectionTypeOK /\ ChannelOnce /\ LastStateSeen

\* Nothing was built yet.
LEMMA ConnectionInitially == ConnectionInit => ConnectionInv
  BY ConnectionAssumption
  DEF ConnectionInit, ConnectionInv, ConnectionTypeOK, ChannelOnce,
      LastStateSeen, Ends, Stages, States

\* What the application does before it is connected keeps them.
LEMMA SetupKeeps ==
  ASSUME ConnectionInv, NEW e \in Ends, Setup(e)
  PROVE  ConnectionInv'
<1>1. CASE e = "offerer" /\ BuildOfferer
  BY <1>1
  DEF BuildOfferer, ConnectionInv, ConnectionTypeOK, ChannelOnce, LastStateSeen,
      MoveTo, HandleDataChannel, historyVars, Ends, Stages
<1>2. CASE e = "offerer" /\ ReceiveAnswer
  BY <1>2
  DEF ReceiveAnswer, ConnectionInv, ConnectionTypeOK, ChannelOnce,
      LastStateSeen, MoveTo, engineVars, historyVars, Ends, Stages
<1>3. CASE e = "answerer" /\ BuildAnswerer
  BY <1>3
  DEF BuildAnswerer, ConnectionInv, ConnectionTypeOK, ChannelOnce,
      LastStateSeen, MoveTo, historyVars, Ends, Stages
<1>4. CASE Collect(e)
  BY <1>4
  DEF Collect, ConnectionInv, ConnectionTypeOK, ChannelOnce, LastStateSeen,
      MoveTo, engineVars, historyVars, Ends, Stages
<1> QED BY <1>1, <1>2, <1>3, <1>4 DEF Setup

\* So does the engine, with the handlers it calls.
LEMMA EngineKeeps ==
  ASSUME ConnectionInv, NEW e \in Ends, Engine(e)
  PROVE  ConnectionInv'
<1>1. CASE StateChange(e)
  <2>1. PICK s \in Successors(state[e]) :
          /\ state' = [state EXCEPT ![e] = s]
          /\ peer_connection_state' = [peer_connection_state EXCEPT ![e] = s]
          /\ reported' = [reported EXCEPT ![e] = Reported(@, s)]
          /\ odd' = [odd EXCEPT ![e] =
               @ \cup Oddities(peer_connection_state[e], reported[e], s)]
    BY <1>1 DEF StateChange, Set
  <2>2. s \in States
    BY <2>1 DEF Successors
  <2>3. changed' \in 0 .. MaxStateChanges
    BY <1>1, ConnectionAssumption
    DEF StateChange, ConnectionInv, ConnectionTypeOK
  <2>4. reported' \in [Ends -> {"none", "up", "disconnected"}]
    BY <2>1 DEF Reported, ConnectionInv, ConnectionTypeOK
  <2>5. odd' \in [Ends -> SUBSET {"missed", "again", "early"}]
    BY <2>1 DEF Oddities, ConnectionInv, ConnectionTypeOK
  <2> QED
    BY <1>1, <2>1, <2>2, <2>3, <2>4, <2>5
    DEF StateChange, ConnectionInv, ConnectionTypeOK, ChannelOnce, LastStateSeen
<1>2. CASE IceCandidate(e)
  <2>1. candidate_rx' \in [Ends -> Seq({"candidate", "none"})]
    BY <1>2 DEF IceCandidate, ConnectionInv, ConnectionTypeOK
  <2> QED
    BY <1>2, <2>1
    DEF IceCandidate, ConnectionInv, ConnectionTypeOK, ChannelOnce,
        LastStateSeen, engineVars, historyVars
<1>3. CASE IceGatheringFinished(e)
  <2>1. candidate_rx' \in [Ends -> Seq({"candidate", "none"})]
    BY <1>3 DEF IceGatheringFinished, ConnectionInv, ConnectionTypeOK
  <2> QED
    BY <1>3, <2>1
    DEF IceGatheringFinished, ConnectionInv, ConnectionTypeOK, ChannelOnce,
        LastStateSeen, historyVars
<1>4. CASE e = "answerer" /\ IncomingChannel
  BY <1>4
  DEF IncomingChannel, ConnectionInv, ConnectionTypeOK, ChannelOnce,
      LastStateSeen, HandleDataChannel, historyVars, Ends
<1>5. CASE ChannelOpen(e) \/ ChannelClose(e)
  BY <1>5
  DEF ChannelOpen, ChannelClose, ConnectionInv, ConnectionTypeOK, ChannelOnce,
      LastStateSeen, SetReady, Alive, historyVars, Ends
<1>6. CASE ChannelMessage(e)
  <2>1. Head(wire[e]) \in Messages /\ Tail(wire[e]) \in Seq(Messages)
    BY <1>6 DEF ChannelMessage, ConnectionInv, ConnectionTypeOK
  <2>2. wire' \in [Ends -> Seq(Messages)] /\ rx' \in [Ends -> Seq(Messages)]
    BY <1>6, <2>1 DEF ChannelMessage, Deliver, ConnectionInv, ConnectionTypeOK
  <2> QED
    BY <1>6, <2>2
    DEF ChannelMessage, ConnectionInv, ConnectionTypeOK, ChannelOnce,
        LastStateSeen, engineVars, historyVars
<1> QED
  BY <1>1, <1>2, <1>3, <1>4, <1>5, <1>6 DEF Engine, Completes

-----------------------------------------------------------------------------
(* The example's tasks.                                                    *)

\* A channel is waited for, becomes ready and is used, once and in this order.
ChannelInUse ==
    \A e \in Ends :
        /\ data_channel[e] = "none" \/ channels_rx[e] > 0
             => ~readying[e] /\ echo[e] = "off"
        /\ readying[e] => echo[e] = "off"

\* Each end has its part of the echo.
EchoParts == echo["offerer"] # "serve" /\ echo["answerer"] \in {"off", "serve"}

EchoInv ==
    /\ ConnectionInv
    /\ EchoTypeOK
    /\ ChannelInUse
    /\ EchoParts

\* No task has begun.
LEMMA EchoInit == Init => EchoInv
  BY ConnectionInitially
  DEF Init, ConnectionInit, EchoInv, EchoTypeOK, ConnectionInv, ChannelInUse,
      EchoParts, Ends

\* The steps of a task, apart from those it sets the connection up with.
Task(e) ==
    \/ StartTask(e)
    \/ TaskRecovered(e)
    \/ TaskConnected(e)
    \/ TaskInterrupted(e)
    \/ TaskFailed(e)
    \/ TaskIgnores(e)
    \/ TaskReceiveChannel(e)
    \/ TaskUnwrapFails(e)
    \/ TaskReady(e)
    \/ e = "offerer" /\ (EchoRequest \/ EchoReceive)
    \/ e = "answerer" /\ EchoRespond
    \/ EchoFails(e)
    \/ TaskTimeout(e)

\* A task takes what the handlers left, and sends.
LEMMA TaskKeepsConnection ==
  ASSUME EchoInv, NEW e \in Ends, Task(e)
  PROVE  ConnectionInv'
<1> USE DEF EchoInv, ConnectionInv, ConnectionTypeOK, ChannelOnce, LastStateSeen,
            MoveTo, Ends
<1>1. CASE StartTask(e) \/ TaskUnwrapFails(e) \/ TaskTimeout(e)
  BY <1>1
  DEF StartTask, TaskUnwrapFails, TaskTimeout, Stages, engineVars, historyVars
<1>2. ASSUME NEW states, StateChanged(e, states), UNCHANGED stage
      PROVE  ConnectionInv'
  BY <1>2 DEF StateChanged, TakeState, engineVars, historyVars
<1>3. CASE TaskRecovered(e) \/ TaskInterrupted(e) \/ TaskIgnores(e)
  BY <1>2, <1>3 DEF TaskRecovered, TaskInterrupted, TaskIgnores
<1>4. ASSUME NEW states, StateChanged(e, states), NEW s \in Stages \ {"new"},
             MoveTo(e, s)
      PROVE  ConnectionInv'
  BY <1>4 DEF StateChanged, TakeState, engineVars, historyVars
<1>5. CASE TaskConnected(e) \/ TaskFailed(e)
  BY <1>4, <1>5 DEF TaskConnected, TaskFailed, AfterFailure, Stages
<1>6. CASE TaskReceiveChannel(e)
  BY <1>6 DEF TaskReceiveChannel, TakeChannel, engineVars, historyVars, Stages
<1>7. CASE TaskReady(e)
  BY <1>7 DEF TaskReady, TakeReady, engineVars, historyVars
<1>8. ASSUME NEW end \in Ends, NEW message \in Messages, Send(end, message)
      PROVE  wire' \in [Ends -> Seq(Messages)]
  <2>1. Append(wire[Other(end)], message) \in Seq(Messages)
    BY DEF Other
  <2> QED BY <1>8, <2>1 DEF Send, Other
<1>9. ASSUME NEW end \in Ends, TakeMessage(end)
      PROVE  rx' \in [Ends -> Seq(Messages)]
  <2>1. Tail(rx[end]) \in Seq(Messages)
    BY <1>9 DEF TakeMessage
  <2> QED BY <1>9, <2>1 DEF TakeMessage
<1>10. CASE EchoRequest
  <2>1. wire' \in [Ends -> Seq(Messages)]
    BY <1>8, <1>10 DEF EchoRequest, Messages
  <2> QED BY <1>10, <2>1 DEF EchoRequest, engineVars, historyVars
<1>11. CASE EchoReceive
  <2>1. rx' \in [Ends -> Seq(Messages)]
    BY <1>9, <1>11 DEF EchoReceive
  <2> QED BY <1>11, <2>1 DEF EchoReceive, engineVars, historyVars
<1>12. CASE EchoRespond
  <2>1. wire' \in [Ends -> Seq(Messages)] /\ rx' \in [Ends -> Seq(Messages)]
    BY <1>8, <1>9, <1>12 DEF EchoRespond, Messages
  <2> QED BY <1>12, <2>1 DEF EchoRespond, engineVars, historyVars
<1>13. CASE EchoFails(e)
  <2>1. rx' \in [Ends -> Seq(Messages)]
    BY <1>9, <1>13 DEF EchoFails
  <2> QED BY <1>13, <2>1 DEF EchoFails, engineVars, historyVars, Stages
<1> QED
  BY <1>1, <1>3, <1>5, <1>6, <1>7, <1>10, <1>11, <1>12, <1>13 DEF Task

\* Every step is one of these.
LEMMA EchoSteps ==
  ASSUME Next
  PROVE  \E e \in Ends : \/ Task(e)
                         \/ (Setup(e) \/ Engine(e)) /\ UNCHANGED taskVars
  BY DEF Next, Application, Task

\* The parts of the two ends stay theirs.
LEMMA EchoNext == EchoInv /\ [Next]_vars => EchoInv'
<1> SUFFICES ASSUME EchoInv, [Next]_vars PROVE EchoInv'
  OBVIOUS
<1>1. CASE UNCHANGED vars
  BY <1>1
  DEF vars, connectionVars, engineVars, historyVars, taskVars, EchoInv,
      EchoTypeOK, ConnectionInv, ConnectionTypeOK, ChannelOnce, LastStateSeen,
      ChannelInUse, EchoParts
<1>2. ASSUME NEW e \in Ends, Task(e) PROVE EchoInv'
  <2>1. ConnectionInv'
    BY <1>2, TaskKeepsConnection
  <2>2. EchoTypeOK' /\ EchoParts'
    <3> USE DEF EchoInv, EchoTypeOK, ConnectionInv, EchoParts, Ends
    <3>1. CASE \/ StartTask(e) \/ TaskRecovered(e) \/ TaskConnected(e)
               \/ TaskInterrupted(e) \/ TaskFailed(e) \/ TaskIgnores(e)
      BY <2>1, <3>1
      DEF StartTask, TaskRecovered, Cleared, TaskConnected,
          TaskInterrupted, Armed, TaskFailed, TaskIgnores, StateChanged,
          taskVars
    <3>2. CASE TaskReceiveChannel(e) \/ TaskUnwrapFails(e) \/ TaskTimeout(e)
      BY <2>1, <3>2
      DEF TaskReceiveChannel, TaskUnwrapFails, TaskTimeout, taskVars
    <3>3. CASE EchoRequest \/ EchoReceive
      BY <2>1, <3>3 DEF EchoRequest, AfterRequest, EchoReceive
    <3>4. CASE EchoRespond \/ EchoFails(e)
      BY <2>1, <3>4 DEF EchoRespond, EchoFails, taskVars
    <3>5. CASE TaskReady(e)
      <4>1. /\ dropping' = dropping
            /\ readying' = [readying EXCEPT ![e] = FALSE] \/ readying' = readying
        BY <3>5 DEF TaskReady
      <4>2. \/ echo' = echo
            \/ e = "offerer" /\ echo' = [echo EXCEPT !["offerer"] = "send"]
            \/ e = "answerer" /\ echo' = [echo EXCEPT !["answerer"] = "serve"]
        BY <3>5 DEF TaskReady
      <4>3. readying' \in [Ends -> BOOLEAN]
        BY <4>1
      <4> QED BY <2>1, <4>1, <4>2, <4>3
    <3> QED BY <1>2, <3>1, <3>2, <3>3, <3>4, <3>5 DEF Task
  <2>3. ChannelInUse'
    <3>1. CASE TaskReceiveChannel(e)
      BY <3>1
      DEF EchoInv, EchoTypeOK, ConnectionInv, ConnectionTypeOK, ChannelOnce,
          ChannelInUse, TaskReceiveChannel, TakeChannel, engineVars, historyVars
    <3>2. CASE TaskReady(e)
      BY <3>2
      DEF EchoInv, EchoTypeOK, ConnectionInv, ConnectionTypeOK, ChannelInUse,
          TaskReady, engineVars, historyVars
    <3>3. CASE EchoRequest \/ EchoReceive
      BY <3>3
      DEF EchoInv, EchoTypeOK, ConnectionInv, ConnectionTypeOK, ChannelInUse,
          EchoRequest, EchoReceive, Echoing, AfterRequest, engineVars,
          historyVars, Ends
    <3>4. CASE UNCHANGED <<data_channel, channels_rx, readying, echo>>
      BY <3>4 DEF EchoInv, ChannelInUse
    <3> QED
      BY <1>2, <3>1, <3>2, <3>3, <3>4
      DEF Task, StartTask, TaskRecovered, TaskConnected, TaskInterrupted,
          TaskFailed, TaskIgnores, StateChanged, TaskUnwrapFails, EchoRespond,
          EchoFails, TaskTimeout, engineVars, historyVars, taskVars
  <2> QED BY <2>1, <2>2, <2>3 DEF EchoInv
<1>3. ASSUME NEW e \in Ends, Setup(e) \/ Engine(e), UNCHANGED taskVars
      PROVE  EchoInv'
  <2>1. ConnectionInv'
    BY <1>3, SetupKeeps, EngineKeeps DEF EchoInv
  <2>2. EchoTypeOK' /\ EchoParts'
    BY <1>3, <2>1 DEF EchoInv, EchoTypeOK, ConnectionInv, EchoParts, taskVars
  <2>3. ChannelInUse'
    <3>1. \A end \in Ends :
            \/ /\ data_channel'[end] = "none" => data_channel[end] = "none"
               /\ channels_rx'[end] = channels_rx[end]
            \/ data_channel[end] = "none"
      BY <1>3
      DEF Setup, BuildOfferer, BuildAnswerer, ReceiveAnswer, Collect, Engine,
          Completes, StateChange, IceCandidate, IceGatheringFinished,
          IncomingChannel, ChannelOpen, ChannelClose, ChannelMessage,
          HandleDataChannel, engineVars, historyVars, EchoInv, ConnectionInv,
          ConnectionTypeOK, ChannelOnce, Ends
    <3> QED BY <1>3, <3>1 DEF EchoInv, ChannelInUse, taskVars
  <2> QED BY <2>1, <2>2, <2>3 DEF EchoInv
<1> QED BY <1>1, <1>2, <1>3, EchoSteps

\* The invariant of the example's tasks.
LEMMA EchoInvariant == Spec => []EchoInv
  BY EchoInit, EchoNext, PTL DEF Spec

-----------------------------------------------------------------------------
(* The timeout.                                                            *)

\* The task takes the state the connection is in, and arms or clears its timeout by
\* it; a state that follows waits in the cell until it comes back.
LEMMA TimeoutNext ==
  ASSUME EchoInv, TimeoutFollows, [Next]_vars
  PROVE  TimeoutFollows'
<1>1. /\ state \in [Ends -> States] /\ dropping \in [Ends -> BOOLEAN]
      /\ peer_connection_state \in [Ends -> States \cup {Empty}]
      /\ LastStateSeen
  BY DEF EchoInv, EchoTypeOK, ConnectionInv, ConnectionTypeOK
<1>2. CASE UNCHANGED <<state, peer_connection_state, dropping>>
  BY <1>2 DEF TimeoutFollows
<1>3. ASSUME NEW e \in Ends, StateChange(e), UNCHANGED taskVars
      PROVE  TimeoutFollows'
  <2>1. PICK s \in Successors(state[e]) :
          /\ state' = [state EXCEPT ![e] = s]
          /\ peer_connection_state' = [peer_connection_state EXCEPT ![e] = s]
    BY <1>3 DEF StateChange, Set
  <2>2. s # Empty
    BY <2>1 DEF Successors, States, Empty
  <2> QED BY <1>1, <1>3, <2>1, <2>2 DEF TimeoutFollows, taskVars
<1>4. ASSUME NEW e \in Ends, NEW states, StateChanged(e, states)
      PROVE  /\ peer_connection_state[e] = state[e] /\ state[e] \in states
             /\ UNCHANGED state
             /\ \A end \in Ends \ {e} :
                  peer_connection_state'[end] = peer_connection_state[end]
  BY <1>1, <1>4 DEF StateChanged, TakeState, LastStateSeen, engineVars
<1>5. ASSUME NEW e \in Ends, TaskRecovered(e) \/ TaskConnected(e)
      PROVE  TimeoutFollows'
  <2>1. /\ dropping'[e] = FALSE /\ state[e] \in Up /\ UNCHANGED state
        /\ \A end \in Ends \ {e} :
             /\ peer_connection_state'[end] = peer_connection_state[end]
             /\ dropping'[end] = dropping[end]
    BY <1>1, <1>4, <1>5 DEF TaskRecovered, TaskConnected, Cleared
  <2> QED BY <2>1 DEF TimeoutFollows, Up
<1>6. ASSUME NEW e \in Ends, TaskInterrupted(e)
      PROVE  TimeoutFollows'
  <2>1. /\ dropping'[e] = TRUE /\ state[e] = "disconnected" /\ UNCHANGED state
        /\ \A end \in Ends \ {e} :
             /\ peer_connection_state'[end] = peer_connection_state[end]
             /\ dropping'[end] = dropping[end]
    BY <1>1, <1>4, <1>6 DEF TaskInterrupted, Armed
  <2> QED BY <2>1 DEF TimeoutFollows, Up
<1>7. ASSUME NEW e \in Ends, TaskFailed(e) \/ TaskIgnores(e)
      PROVE  TimeoutFollows'
  <2>1. /\ state[e] \in {"connecting", "failed"} /\ UNCHANGED <<state, dropping>>
        /\ \A end \in Ends \ {e} :
             peer_connection_state'[end] = peer_connection_state[end]
    BY <1>4, <1>7 DEF TaskFailed, TaskIgnores
  <2> QED BY <2>1 DEF TimeoutFollows, Up
<1>8. CASE UNCHANGED vars
  BY <1>2, <1>8 DEF vars, connectionVars, engineVars, taskVars
<1>9. ASSUME NEW e \in Ends, Task(e) PROVE TimeoutFollows'
  BY <1>2, <1>5, <1>6, <1>7, <1>9
  DEF Task, StartTask, TaskReceiveChannel, TaskUnwrapFails, TaskReady,
      EchoRequest, EchoReceive, EchoRespond, EchoFails, TaskTimeout, engineVars,
      taskVars
<1>10. ASSUME NEW e \in Ends, Setup(e) \/ Engine(e), UNCHANGED taskVars
       PROVE  TimeoutFollows'
  BY <1>2, <1>3, <1>10
  DEF Setup, BuildOfferer, BuildAnswerer, ReceiveAnswer, Collect, Engine,
      Completes, IceCandidate, IceGatheringFinished, IncomingChannel,
      ChannelOpen, ChannelClose, ChannelMessage, engineVars, taskVars
<1> QED BY <1>8, <1>9, <1>10, EchoSteps

-----------------------------------------------------------------------------
(* One message on the channel.                                             *)

InChannel == InFlight("offerer") + InFlight("answerer")

\* What a message adds to the channel, and what taking one leaves.
LEMMA Lengths ==
  ASSUME ConnectionTypeOK, NEW e \in Ends
  PROVE  /\ Len(wire[e]) \in Nat /\ Len(rx[e]) \in Nat
         /\ InFlight(e) \in Nat
         /\ \A m : Send(e, m) /\ UNCHANGED rx =>
              /\ InFlight(Other(e))' = InFlight(Other(e)) + 1
              /\ InFlight(e)' = InFlight(e)
         /\ TakeMessage(e) /\ UNCHANGED wire =>
              /\ InFlight(e) > 0
              /\ InFlight(e)' = InFlight(e) - 1
              /\ InFlight(Other(e))' = InFlight(Other(e))
<1>1. /\ wire \in [Ends -> Seq(Messages)] /\ rx \in [Ends -> Seq(Messages)]
      /\ Other(e) \in Ends /\ Other(e) # e
  BY DEF ConnectionTypeOK, Ends, Other
<1>2. \A end \in Ends : Len(wire[end]) \in Nat /\ Len(rx[end]) \in Nat
  BY <1>1
<1>3. PICK a \in Nat, b \in Nat, c \in Nat, d \in Nat :
           /\ a = Len(wire[e]) /\ b = Len(rx[e])
           /\ c = Len(wire[Other(e)]) /\ d = Len(rx[Other(e)])
  BY <1>1, <1>2
<1>4. InFlight(e) = a + b /\ InFlight(Other(e)) = c + d
  BY <1>3 DEF InFlight
<1>5. ASSUME NEW m, Send(e, m), UNCHANGED rx
      PROVE  /\ InFlight(Other(e))' = InFlight(Other(e)) + 1
             /\ InFlight(e)' = InFlight(e)
  <2>1. /\ wire'[Other(e)] = Append(wire[Other(e)], m)
        /\ wire'[e] = wire[e]
    BY <1>1, <1>5 DEF Send
  <2>2. Len(Append(wire[Other(e)], m)) = Len(wire[Other(e)]) + 1
    BY <1>1
  <2>3. /\ Len(wire'[Other(e)]) = c + 1 /\ Len(wire'[e]) = a
        /\ Len(rx'[Other(e)]) = d /\ Len(rx'[e]) = b
    BY <1>5, <1>3, <2>1, <2>2
  <2>4. InFlight(Other(e))' = (c + 1) + d /\ InFlight(e)' = a + b
    BY <2>3 DEF InFlight
  <2> QED BY <1>4, <2>4
<1>6. ASSUME TakeMessage(e), UNCHANGED wire
      PROVE  /\ InFlight(e) > 0
             /\ InFlight(e)' = InFlight(e) - 1
             /\ InFlight(Other(e))' = InFlight(Other(e))
  <2>1. /\ rx[e] # <<>> /\ rx'[e] = Tail(rx[e])
        /\ rx'[Other(e)] = rx[Other(e)]
    BY <1>1, <1>6 DEF TakeMessage
  <2>2. Len(Tail(rx[e])) = Len(rx[e]) - 1 /\ Len(rx[e]) > 0
    BY <1>1, <2>1
  <2>3. /\ Len(rx'[e]) = b - 1 /\ Len(rx'[Other(e)]) = d
        /\ Len(wire'[Other(e)]) = c /\ Len(wire'[e]) = a
        /\ b > 0
    BY <1>6, <1>3, <2>1, <2>2
  <2>4. InFlight(Other(e))' = c + d /\ InFlight(e)' = a + (b - 1)
    BY <2>3 DEF InFlight
  <2>5. b > 0
    BY <2>3
  <2> QED BY <1>4, <2>4, <2>5
<1>7. InFlight(e) \in Nat
  BY <1>4
<1> QED BY <1>2, <1>5, <1>6, <1>7

\* A message that arrives stays on the channel.
LEMMA ArrivalKeeps ==
  ASSUME ConnectionTypeOK, NEW e \in Ends, ChannelMessage(e)
  PROVE  InChannel' = InChannel
<1>1. /\ wire \in [Ends -> Seq(Messages)] /\ rx \in [Ends -> Seq(Messages)]
      /\ Other(e) \in Ends /\ Other(e) # e /\ Ends = {e, Other(e)}
  BY DEF ConnectionTypeOK, Ends, Other
<1>2. /\ wire[e] # <<>> /\ wire'[e] = Tail(wire[e])
      /\ rx'[e] = Append(rx[e], Head(wire[e]))
      /\ wire'[Other(e)] = wire[Other(e)] /\ rx'[Other(e)] = rx[Other(e)]
  BY <1>1 DEF ChannelMessage, Deliver
<1>3. /\ Len(Tail(wire[e])) = Len(wire[e]) - 1 /\ Len(wire[e]) \in Nat
      /\ Len(Append(rx[e], Head(wire[e]))) = Len(rx[e]) + 1 /\ Len(rx[e]) \in Nat
      /\ Len(wire[Other(e)]) \in Nat /\ Len(rx[Other(e)]) \in Nat
  BY <1>1, <1>2
<1>4. InFlight(e)' = InFlight(e) /\ InFlight(Other(e))' = InFlight(Other(e))
  <2>1. PICK a \in Nat, b \in Nat : a = Len(wire[e]) /\ b = Len(rx[e])
    BY <1>3
  <2>2. Len(wire'[e]) = a - 1 /\ Len(rx'[e]) = b + 1
    BY <1>2, <1>3, <2>1
  <2>3. InFlight(e) = a + b /\ InFlight(e)' = (a - 1) + (b + 1)
    BY <2>1, <2>2 DEF InFlight
  <2>4. InFlight(Other(e))' = InFlight(Other(e))
    BY <1>2 DEF InFlight
  <2> QED BY <2>3, <2>4
<1> QED BY <1>1, <1>4 DEF InChannel, Ends

\* A task that is over stays over.
LEMMA OverStays ==
  ASSUME EchoInv, [Next]_vars, NEW d \in Ends, stage[d] \in Over
  PROVE  stage'[d] \in Over
<1>1. stage \in [Ends -> Stages]
  BY DEF EchoInv, ConnectionInv, ConnectionTypeOK
<1>2. ASSUME NEW e \in Ends, Task(e) PROVE stage'[d] \in Over
  BY <1>1, <1>2
  DEF Task, StartTask, TaskRecovered, TaskConnected, TaskInterrupted,
      TaskFailed, TaskIgnores, StateChanged, TaskReceiveChannel,
      TaskUnwrapFails, TaskReady, EchoRequest, EchoReceive, EchoRespond,
      EchoFails, TaskTimeout, Echoing, MoveTo, Over
<1>3. ASSUME NEW e \in Ends, Setup(e) PROVE stage'[d] \in Over
  BY <1>1, <1>3
  DEF Setup, BuildOfferer, BuildAnswerer, ReceiveAnswer, Collect, MoveTo, Over
<1>4. ASSUME NEW e \in Ends, Engine(e) PROVE UNCHANGED stage
  BY <1>4
  DEF Engine, Completes, StateChange, IceCandidate, IceGatheringFinished,
      IncomingChannel, ChannelOpen, ChannelClose, ChannelMessage
<1>5. CASE UNCHANGED vars
  BY <1>5 DEF vars, connectionVars
<1> QED BY <1>2, <1>3, <1>4, <1>5, EchoSteps

\* There is nothing on the channel at first.
LEMMA AlternatesInit == Init => EchoAlternates
<1> SUFFICES ASSUME Init PROVE EchoAlternates
  OBVIOUS
<1>1. \A e \in Ends : InFlight(e) = 0
  BY DEF Init, ConnectionInit, InFlight
<1> QED BY <1>1 DEF Init, ConnectionInit, EchoAlternates, Ends

\* The echo puts a message there, moves it and takes it, in turn.
LEMMA AlternatesNext ==
  ASSUME EchoInv, EchoAlternates, [Next]_vars
  PROVE  EchoAlternates'
<1> DEFINE ends == "offerer" \in Ends /\ "answerer" \in Ends
                   /\ Other("offerer") = "answerer"
                   /\ Other("answerer") = "offerer"
<1>1. /\ ConnectionTypeOK /\ EchoParts /\ ends
      /\ echo \in [Ends -> {"off", "send", "await", "serve"}]
  BY DEF EchoInv, ConnectionInv, EchoTypeOK, Ends, Other
<1>2. /\ InFlight("offerer") \in Nat /\ InFlight("answerer") \in Nat
      /\ InChannel = InFlight("offerer") + InFlight("answerer")
      /\ InChannel' = InFlight("offerer")' + InFlight("answerer")'
  BY <1>1, Lengths DEF InChannel
<1>3. /\ InChannel <= 1
      /\ echo["offerer"] \in {"off", "send"} => InChannel = 0
      /\ echo["offerer"] = "await" /\ stage["answerer"] \notin Over => InChannel = 1
  BY DEF EchoAlternates, InChannel
<1>4. SUFFICES /\ InChannel' <= 1
               /\ echo'["offerer"] \in {"off", "send"} => InChannel' = 0
               /\ echo'["offerer"] = "await" /\ stage'["answerer"] \notin Over
                    => InChannel' = 1
  BY DEF EchoAlternates, InChannel
<1>5. stage["answerer"] \in Over => stage'["answerer"] \in Over
  BY <1>1, OverStays
<1>6. CASE InChannel' = InChannel /\ echo'["offerer"] = echo["offerer"]
  BY <1>3, <1>5, <1>6
<1>7. CASE UNCHANGED <<wire, rx>> /\ echo'["offerer"] = echo["offerer"]
  <2>1. InChannel' = InChannel
    BY <1>7 DEF InChannel, InFlight
  <2> QED BY <1>6, <1>7, <2>1
<1>8. CASE EchoRequest
  <2>1. Send("offerer", "request") /\ UNCHANGED rx /\ echo["offerer"] = "send"
        /\ echo'["offerer"] = "await"
    BY <1>1, <1>8 DEF EchoRequest, Echoing, AfterRequest
  <2>2. InChannel' = InChannel + 1
    BY <1>1, <1>2, <2>1, Lengths
  <2> QED BY <1>3, <2>1, <2>2
<1>9. CASE EchoReceive
  <2>1. TakeMessage("offerer") /\ UNCHANGED wire /\ echo["offerer"] = "await"
        /\ echo'["offerer"] = "send"
    BY <1>1, <1>9 DEF EchoReceive, Echoing
  <2>2. InChannel' = InChannel - 1 /\ InChannel > 0
    BY <1>1, <1>2, <2>1, Lengths
  <2> QED BY <1>2, <1>3, <2>1, <2>2
<1>10. CASE EchoRespond
  <2>1. /\ rx["answerer"] # <<>> /\ rx' = [rx EXCEPT !["answerer"] = Tail(@)]
        /\ wire' = [wire EXCEPT !["offerer"] = Append(@, "response")]
        /\ UNCHANGED echo
    BY <1>1, <1>10 DEF EchoRespond, TakeMessage, Send, taskVars
  <2>2. /\ wire \in [Ends -> Seq(Messages)] /\ rx \in [Ends -> Seq(Messages)]
        /\ wire["offerer"] \in Seq(Messages) /\ rx["answerer"] \in Seq(Messages)
    BY <1>1 DEF ConnectionTypeOK
  <2>3. /\ Len(wire'["offerer"]) = Len(wire["offerer"]) + 1
        /\ Len(rx'["answerer"]) = Len(rx["answerer"]) - 1
        /\ wire'["answerer"] = wire["answerer"] /\ rx'["offerer"] = rx["offerer"]
    BY <1>1, <2>1, <2>2
  <2>4. InFlight("offerer")' = InFlight("offerer") + 1
        /\ InFlight("answerer")' = InFlight("answerer") - 1
    <3>1. PICK a \in Nat, b \in Nat, c \in Nat, d \in Nat :
            /\ a = Len(wire["offerer"]) /\ b = Len(rx["offerer"])
            /\ c = Len(wire["answerer"]) /\ d = Len(rx["answerer"])
      BY <1>1, Lengths
    <3>2. InFlight("offerer") = a + b /\ InFlight("answerer") = c + d
      BY <3>1 DEF InFlight
    <3>3. /\ InFlight("offerer")' = (a + 1) + b
          /\ InFlight("answerer")' = c + (d - 1)
      BY <2>3, <3>1 DEF InFlight
    <3> QED BY <3>2, <3>3
  <2> QED BY <1>2, <1>6, <2>1, <2>4
<1>11. ASSUME NEW e \in Ends, EchoFails(e)
       PROVE  UNCHANGED echo /\ (UNCHANGED <<wire, rx>> \/ InChannel' <= 1)
              /\ (UNCHANGED <<wire, rx>>
                    \/ (InChannel' = 0 /\ stage'["answerer"] \in Over))
  <2>1. UNCHANGED echo /\ UNCHANGED wire
    BY <1>11 DEF EchoFails, taskVars
  <2>2. CASE UNCHANGED rx
    BY <2>1, <2>2
  <2>3. CASE Echoing(e, "serve") /\ TakeMessage(e)
    <3>1. e = "answerer" /\ stage'[e] = "returned"
      BY <1>1, <1>11, <2>3
      DEF Echoing, EchoParts, EchoFails, MoveTo, Ends, ConnectionTypeOK
    <3>2. InChannel' = InChannel - 1 /\ InChannel > 0
      BY <1>1, <1>2, <2>1, <2>3, <3>1, Lengths
    <3> QED BY <1>2, <1>3, <2>1, <3>1, <3>2 DEF Over
  <2> QED BY <1>11, <2>2, <2>3 DEF EchoFails
<1>12. CASE \E e \in Ends : EchoFails(e)
  BY <1>3, <1>7, <1>11, <1>12
<1>13. CASE \E e \in Ends : TaskReady(e)
  <2>1. PICK e \in Ends : TaskReady(e)
    BY <1>13
  <2>2. UNCHANGED <<wire, rx>> /\ readying[e]
    BY <2>1 DEF TaskReady
  <2>3. echo[e] = "off"
    BY <2>2 DEF EchoInv, ChannelInUse
  <2>4. InChannel' = InChannel
    BY <2>2 DEF InChannel, InFlight
  <2>5. CASE e = "offerer"
    <3>1. echo'["offerer"] \in {"off", "send"} /\ InChannel = 0
      BY <1>1, <1>3, <2>1, <2>3, <2>5 DEF TaskReady
    <3> QED BY <2>4, <3>1
  <2>6. CASE e # "offerer"
    BY <1>1, <1>7, <2>1, <2>2, <2>6 DEF TaskReady
  <2> QED BY <2>5, <2>6
<1>14. ASSUME NEW e \in Ends, ChannelMessage(e), UNCHANGED taskVars
       PROVE  InChannel' = InChannel /\ echo'["offerer"] = echo["offerer"]
  BY <1>1, <1>14, ArrivalKeeps DEF taskVars
<1>15. CASE UNCHANGED <<wire, rx, echo>>
  BY <1>7, <1>15
<1>16. CASE UNCHANGED vars
  BY <1>15, <1>16 DEF vars, connectionVars, taskVars
<1>17. ASSUME NEW e \in Ends, Task(e), ~(\E end \in Ends : EchoFails(end)),
              ~(\E end \in Ends : TaskReady(end)), ~EchoRequest, ~EchoReceive,
              ~EchoRespond
       PROVE  UNCHANGED <<wire, rx, echo>>
  BY <1>17
  DEF Task, StartTask, TaskRecovered, TaskConnected, TaskInterrupted,
      TaskFailed, TaskIgnores, StateChanged, TaskReceiveChannel,
      TaskUnwrapFails, TaskTimeout, taskVars
<1>18. ASSUME NEW e \in Ends, Setup(e) \/ Engine(e), UNCHANGED taskVars,
              ~ChannelMessage(e)
       PROVE  UNCHANGED <<wire, rx, echo>>
  BY <1>18
  DEF Setup, BuildOfferer, BuildAnswerer, ReceiveAnswer, Collect, Engine,
      Completes, StateChange, IceCandidate, IceGatheringFinished,
      IncomingChannel, ChannelOpen, ChannelClose, taskVars
<1> QED
  BY <1>6, <1>8, <1>9, <1>10, <1>12, <1>13, <1>14, <1>15, <1>16, <1>17, <1>18,
     EchoSteps

-----------------------------------------------------------------------------
(* The unwrap of the offerer's channel.                                    *)

\* The offerer's channel is still queued, or the timeout is armed.
Expected == dropping["offerer"] \/ channels_rx["offerer"] > 0

\* While no state of the offerer was missed or reported up again, its channel is
\* queued or its timeout armed as long as the connection is not reported up, and
\* when that is taken; and the channel it asks for is there.
Prepared ==
    LET cell == peer_connection_state["offerer"]
    IN  /\ stage["offerer"] # "new" /\ reported["offerer"] # "up"
             => Expected \/ cell = "disconnected"
        /\ cell \in Up => Expected /\ reported["offerer"] = "up"
        /\ stage["offerer"] = "receive_channel" =>
             /\ channels_rx["offerer"] > 0
             /\ cell \notin Up
             /\ reported["offerer"] = "up" \/ cell = "disconnected"

Regular == odd["offerer"] \cap {"missed", "again"} = {}

UnwrapInv ==
    /\ EchoInv
    /\ stage["answerer"] # "panicked"
    /\ Regular => stage["offerer"] # "panicked" /\ Prepared

\* No channel is queued, and no state waits.
LEMMA UnwrapInit == Init => UnwrapInv
<1> SUFFICES ASSUME Init PROVE UnwrapInv
  OBVIOUS
<1>1. EchoInv
  BY EchoInit
<1> QED
  BY <1>1 DEF Init, ConnectionInit, UnwrapInv, Prepared, Up, Ends, Empty

\* A new state follows one that was seen, and differs from it.
LEMMA StateChangeKeepsUnwrap ==
  ASSUME UnwrapInv, EchoInv', NEW e \in Ends, StateChange(e),
         UNCHANGED taskVars
  PROVE  UnwrapInv'
<1>1. /\ state \in [Ends -> States]
      /\ peer_connection_state \in [Ends -> States \cup {Empty}]
      /\ reported \in [Ends -> {"none", "up", "disconnected"}]
      /\ odd \in [Ends -> SUBSET {"missed", "again", "early"}]
      /\ "offerer" \in Ends
  BY DEF UnwrapInv, EchoInv, ConnectionInv, ConnectionTypeOK, Ends
<1>2. UNCHANGED <<stage, channels_rx, dropping>>
  BY DEF StateChange, taskVars
<1>3. CASE e # "offerer"
  <2>1. /\ peer_connection_state'["offerer"] = peer_connection_state["offerer"]
        /\ reported'["offerer"] = reported["offerer"]
        /\ odd'["offerer"] = odd["offerer"]
    BY <1>1, <1>3 DEF StateChange
  <2> QED BY <1>2, <2>1 DEF UnwrapInv, Prepared, Expected, Regular
<1>4. CASE e = "offerer"
  <2>1. PICK s \in Successors(state["offerer"]) :
          /\ peer_connection_state'["offerer"] = s
          /\ reported'["offerer"] = Reported(reported["offerer"], s)
          /\ odd'["offerer"] = odd["offerer"] \cup
               Oddities(peer_connection_state["offerer"], reported["offerer"], s)
    BY <1>1, <1>4 DEF StateChange, Set
  <2>2. stage["offerer"] # "new"
    BY <1>4 DEF StateChange, Alive
  <2>3. ASSUME Regular'
        PROVE  /\ Regular /\ peer_connection_state["offerer"] = Empty
               /\ s \in Up => reported["offerer"] # "up"
    BY <2>1, <2>3 DEF Regular, Oddities
  <2>4. ASSUME Regular' PROVE stage'["offerer"] # "panicked" /\ Prepared'
    <3>1. stage["offerer"] # "panicked" /\ Prepared
      BY <2>3, <2>4 DEF UnwrapInv
    <3>2. /\ s \in Up => reported'["offerer"] = "up"
          /\ s = "disconnected" => reported'["offerer"] = "disconnected"
          /\ s \notin Up /\ s # "disconnected"
               => reported'["offerer"] = reported["offerer"]
      BY <2>1 DEF Reported, Up
    <3> QED
      BY <1>2, <2>1, <2>2, <2>3, <2>4, <3>1, <3>2
      DEF Prepared, Expected, Up, Empty
  <2> QED BY <1>2, <2>4 DEF UnwrapInv
<1> QED BY <1>3, <1>4

\* A task arms its timeout when it sees an interruption, and takes its channel
\* only when it sees the first connection.
LEMMA TaskKeepsUnwrap ==
  ASSUME UnwrapInv, EchoInv', NEW e \in Ends, Task(e)
  PROVE  UnwrapInv'
<1>1. /\ stage \in [Ends -> Stages] /\ dropping \in [Ends -> BOOLEAN]
      /\ channels_rx \in [Ends -> 0 .. 1]
      /\ peer_connection_state \in [Ends -> States \cup {Empty}]
      /\ "offerer" \in Ends /\ "answerer" \in Ends
  BY DEF UnwrapInv, EchoInv, EchoTypeOK, ConnectionInv, ConnectionTypeOK, Ends
<1>2. UNCHANGED <<reported, odd>>
  BY DEF Task, StartTask, TaskRecovered, TaskConnected, TaskInterrupted,
         TaskFailed, TaskIgnores, StateChanged, TaskReceiveChannel,
         TaskUnwrapFails, TaskReady, EchoRequest, EchoReceive, EchoRespond,
         EchoFails, TaskTimeout, engineVars, historyVars
<1> DEFINE kept == UNCHANGED <<peer_connection_state, channels_rx, dropping>>
<1>3. ASSUME kept, stage'["answerer"] # "panicked",
             stage'["offerer"] \notin {"new", "receive_channel", "panicked"}
                \/ stage'["offerer"] = stage["offerer"],
             stage["offerer"] = "new" => stage'["offerer"] = "new"
      PROVE  UnwrapInv'
  BY <1>2, <1>3 DEF UnwrapInv, Prepared, Expected, Regular
<1>4. CASE StartTask(e) \/ TaskTimeout(e)
  BY <1>1, <1>3, <1>4
  DEF StartTask, TaskTimeout, MoveTo, UnwrapInv, taskVars, Ends
<1>5. CASE TaskReady(e) \/ EchoRequest \/ EchoReceive \/ EchoRespond
  BY <1>1, <1>3, <1>5
  DEF TaskReady, EchoRequest, EchoReceive, EchoRespond, UnwrapInv, taskVars
<1>6. CASE EchoFails(e)
  BY <1>1, <1>3, <1>6 DEF EchoFails, Echoing, MoveTo, UnwrapInv, taskVars, Ends
<1>7. CASE TaskUnwrapFails(e)
  <2>1. /\ e = "offerer" /\ stage["offerer"] = "receive_channel"
        /\ channels_rx["offerer"] = 0 /\ kept
        /\ stage'["answerer"] = stage["answerer"]
        /\ stage'["offerer"] = "panicked"
    BY <1>1, <1>7 DEF TaskUnwrapFails, NoMoreChannels, MoveTo, taskVars
  <2>2. ~Regular
    BY <2>1 DEF UnwrapInv, Prepared, Expected, Regular
  <2> QED BY <1>2, <2>1, <2>2 DEF UnwrapInv, Regular
<1>8. CASE TaskReceiveChannel(e)
  <2>1. /\ stage[e] = "receive_channel"
        /\ stage' = [stage EXCEPT ![e] = "select"]
        /\ UNCHANGED <<peer_connection_state, dropping>>
    BY <1>8 DEF TaskReceiveChannel, MoveTo
  <2>2. channels_rx'["offerer"] = channels_rx["offerer"] \/ e = "offerer"
    BY <1>1, <1>8 DEF TaskReceiveChannel, TakeChannel
  <2> QED BY <1>1, <1>2, <2>1, <2>2
    DEF UnwrapInv, Prepared, Expected, Regular, Empty
<1>9. ASSUME NEW states, StateChanged(e, states)
      PROVE  /\ UNCHANGED channels_rx
             /\ stage[e] = "select" /\ peer_connection_state[e] \in states
             /\ peer_connection_state[e] # Empty
             /\ peer_connection_state'[e] = Empty
             /\ \A end \in Ends \ {e} :
                  peer_connection_state'[end] = peer_connection_state[end]
  BY <1>1, <1>9 DEF StateChanged, TakeState
<1>10. CASE TaskRecovered(e)
  BY <1>1, <1>2, <1>9, <1>10
  DEF TaskRecovered, Cleared, Up, UnwrapInv, Prepared, Expected, Regular, Empty
<1>11. CASE TaskConnected(e)
  BY <1>1, <1>2, <1>9, <1>11
  DEF TaskConnected, Up, MoveTo, UnwrapInv, Prepared, Expected, Regular, Empty
<1>12. CASE TaskInterrupted(e)
  BY <1>1, <1>2, <1>9, <1>12
  DEF TaskInterrupted, Armed, Up, UnwrapInv, Prepared, Expected, Regular, Empty
<1>13. CASE TaskFailed(e)
  BY <1>1, <1>2, <1>9, <1>13
  DEF TaskFailed, AfterFailure, MoveTo, Up, UnwrapInv, Prepared, Expected,
      Regular, Empty
<1>14. CASE TaskIgnores(e)
  BY <1>1, <1>2, <1>9, <1>14
  DEF TaskIgnores, Up, UnwrapInv, Prepared, Expected, Regular, Empty
<1> QED
  BY <1>4, <1>5, <1>6, <1>7, <1>8, <1>10, <1>11, <1>12, <1>13, <1>14 DEF Task

\* The states are seen in order.
LEMMA UnwrapNext == UnwrapInv /\ [Next]_vars => UnwrapInv'
<1> SUFFICES ASSUME UnwrapInv, [Next]_vars PROVE UnwrapInv'
  OBVIOUS
<1>1. EchoInv'
  BY EchoNext DEF UnwrapInv
<1>2. CASE UNCHANGED vars
  BY <1>1, <1>2
  DEF vars, connectionVars, engineVars, historyVars, taskVars, UnwrapInv,
      Prepared, Expected, Regular
<1>3. ASSUME NEW e \in Ends, Task(e) PROVE UnwrapInv'
  BY <1>1, <1>3, TaskKeepsUnwrap
<1>4. ASSUME NEW e \in Ends, Setup(e), UNCHANGED taskVars PROVE UnwrapInv'
  <2>1. /\ stage \in [Ends -> Stages] /\ channels_rx \in [Ends -> 0 .. 1]
        /\ "offerer" \in Ends
        /\ stage["offerer"] = "new" => channels_rx["offerer"] = 0
    BY DEF UnwrapInv, EchoInv, ConnectionInv, ConnectionTypeOK, ChannelOnce,
           Ends
  <2>2. UNCHANGED <<reported, odd, peer_connection_state, dropping>>
    BY <1>4
    DEF Setup, BuildOfferer, BuildAnswerer, ReceiveAnswer, Collect, engineVars,
        historyVars, taskVars
  <2>3. CASE BuildOfferer
    BY <1>1, <2>1, <2>2, <2>3
    DEF BuildOfferer, MoveTo, HandleDataChannel, UnwrapInv, Prepared, Expected,
        Regular
  <2>4. CASE BuildAnswerer \/ ReceiveAnswer \/ Collect(e)
    <3>1. /\ UNCHANGED channels_rx
          /\ stage'["answerer"] = stage["answerer"]
               \/ stage'["answerer"] # "panicked"
          /\ stage'["offerer"] = stage["offerer"]
               \/ /\ stage["offerer"] # "new"
                  /\ stage'["offerer"] \notin {"receive_channel", "panicked"}
      BY <2>1, <2>4 DEF BuildAnswerer, ReceiveAnswer, Collect, MoveTo, Ends
    <3> QED BY <1>1, <2>2, <3>1 DEF UnwrapInv, Prepared, Expected, Regular
  <2> QED BY <1>4, <2>3, <2>4 DEF Setup
<1>5. ASSUME NEW e \in Ends, Engine(e), UNCHANGED taskVars PROVE UnwrapInv'
  <2>1. CASE StateChange(e)
    BY <1>1, <1>5, <2>1, StateChangeKeepsUnwrap
  <2>2. CASE ~StateChange(e)
    <3>1. /\ UNCHANGED <<stage, reported, odd, peer_connection_state, dropping>>
          /\ channels_rx'["offerer"] = channels_rx["offerer"]
      BY <1>5, <2>2
      DEF Engine, Completes, IceCandidate, IceGatheringFinished,
          IncomingChannel, HandleDataChannel, ChannelOpen, ChannelClose,
          ChannelMessage, engineVars, historyVars, taskVars, UnwrapInv, EchoInv,
          ConnectionInv, ConnectionTypeOK, Ends
    <3> QED BY <1>1, <3>1 DEF UnwrapInv, Prepared, Expected, Regular
  <2> QED BY <2>1, <2>2
<1> QED BY <1>2, <1>3, <1>4, <1>5, EchoSteps

-----------------------------------------------------------------------------

\* The echo's invariants, together.
LEMMA UnwrapInvariant == Spec => []UnwrapInv
  BY UnwrapInit, UnwrapNext, PTL DEF Spec

\* Every variable of the connection and of the tasks has its type: a channel is
\* queued once, and a cell holds a state of the connection or nothing
\* (main.rs:54-117).
THEOREM EchoTypeCorrect == Spec => []EchoTypeOK
<1>1. EchoInv => EchoTypeOK
  BY DEF EchoInv
<1> QED BY <1>1, EchoInvariant, PTL

\* A task that has seen all there is to see has its timeout armed while the
\* connection is interrupted, and not while it is up (main.rs:78-95).
THEOREM TimeoutIsRight == Spec => []TimeoutFollows
<1>1. Spec => []EchoInv
  BY EchoInvariant
<1>2. Init => TimeoutFollows
  BY DEF Init, ConnectionInit, TimeoutFollows
<1>3. EchoInv /\ TimeoutFollows /\ [Next]_vars => TimeoutFollows'
  BY TimeoutNext
<1> QED BY <1>1, <1>2, <1>3, PTL DEF Spec

\* Requests and responses take turns on the channel (channel_echo_task,
\* main.rs:27-51).
THEOREM EchoTakesTurns == Spec => []EchoAlternates
<1>1. Spec => []EchoInv
  BY EchoInvariant
<1>2. Init => EchoAlternates
  BY AlternatesInit
<1>3. EchoInv /\ EchoAlternates /\ [Next]_vars => EchoAlternates'
  BY AlternatesNext
<1> QED BY <1>1, <1>2, <1>3, PTL DEF Spec

\* The unwrap of receive_channel fails only at an end that missed a state of its
\* connection, or was told twice in a row that it is up, whatever states the
\* connection went through (main.rs:75-83).
THEOREM UnwrapIsExplained == Spec => []UnwrapExplained
<1>1. UnwrapInv => UnwrapExplained
  BY DEF UnwrapInv, UnwrapExplained, Regular, Ends
<1> QED BY <1>1, UnwrapInvariant, PTL

-----------------------------------------------------------------------------
(* The test.                                                               *)

Line(op, e) ==
    CASE op = "connected" -> IF e = "offerer" THEN 1 ELSE 2
      [] op = "channel"   -> IF e = "offerer" THEN 3 ELSE 4
      [] op = "ready"     -> IF e = "offerer" THEN 5 ELSE 6
      [] op = "send"      -> IF e = "offerer" THEN 7 ELSE 9
      [] op = "receive"   -> IF e = "offerer" THEN 10 ELSE 8

Operations == {"connected", "channel", "ready", "send", "receive"}

\* Where the test is.
LEMMA Lines ==
  /\ Done = 11
  /\ \A n \in 1 .. 10, op \in Operations, e \in Ends :
       Program[n] = <<op, e>> => n = Line(op, e)
<1>1. Done = 11
  BY DEF Done, Program
<1>2. ASSUME NEW n \in 1 .. 10, NEW op \in Operations, NEW e \in Ends,
             Program[n] = <<op, e>>
      PROVE  n = Line(op, e)
  <2>1. \/ n = 1 \/ n = 2 \/ n = 3 \/ n = 4 \/ n = 5
        \/ n = 6 \/ n = 7 \/ n = 8 \/ n = 9 \/ n = 10
    OBVIOUS
  <2>2. /\ Program[1] = <<"connected", "offerer">>
        /\ Program[2] = <<"connected", "answerer">>
        /\ Program[3] = <<"channel", "offerer">>
        /\ Program[4] = <<"channel", "answerer">>
        /\ Program[5] = <<"ready", "offerer">>
        /\ Program[6] = <<"ready", "answerer">>
        /\ Program[7] = <<"send", "offerer">>
        /\ Program[8] = <<"receive", "answerer">>
        /\ Program[9] = <<"send", "answerer">>
        /\ Program[10] = <<"receive", "offerer">>
    BY DEF Program
  <2> QED BY <1>2, <2>1, <2>2 DEF Line, Operations, Ends
<1> QED BY <1>1, <1>2

\* Until the test has seen an end connected, the cell of its state is not empty
\* while it is connected; until it has seen its channel ready, neither is that
\* cell while the channel is open, and it holds false only once the channel is
\* closed.
TestInv ==
    /\ ConnectionInv
    /\ line \in 1 .. Done
    /\ \A e \in Ends :
         /\ line <= Line("connected", e) /\ peer_connection_state[e] = Empty
              => state[e] # "connected"
         /\ line <= Line("ready", e) /\ ready_state[e] = Empty
              => data_channel[e] # "open"
         /\ ready_state[e] = "false" => data_channel[e] = "closed"

\* Nothing is connected.
LEMMA TestInitially == TestInit => TestInv
  BY ConnectionInitially, Lines
  DEF TestInit, ConnectionInit, TestInv, Ends, Empty

\* The test takes what it waits for, and passes on when it is what it wanted.
LEMMA TestLineKeeps ==
  ASSUME TestInv, NEW e \in Ends,
         \/ AwaitConnected(e) \/ AwaitChannel(e) \/ AwaitReady(e)
         \/ SendHello(e) \/ ReceiveHello(e)
  PROVE  TestInv'
<1>1. /\ line \in 1 .. 11 /\ Done = 11
      /\ line' \in {line, line + 1}
  BY Lines
  DEF TestInv, AwaitConnected, AwaitChannel, AwaitReady, SendHello, ReceiveHello
<1>2. line < 11 /\ line' \in 1 .. Done
  BY <1>1
  DEF At, AwaitConnected, AwaitChannel, AwaitReady, SendHello, ReceiveHello
<1>3. ASSUME NEW op \in Operations, At(op, e) PROVE line = Line(op, e)
  BY <1>1, <1>2, <1>3, Lines DEF At
<1>4. \A end \in Ends : /\ Line("connected", end) \in Nat
                        /\ Line("ready", end) \in Nat
  BY DEF Line, Ends
<1>5. /\ ConnectionTypeOK /\ ChannelOnce /\ LastStateSeen
      /\ peer_connection_state \in [Ends -> States \cup {Empty}]
      /\ ready_state \in [Ends -> {"true", "false", Empty}]
  BY DEF TestInv, ConnectionInv, ConnectionTypeOK
<1>6. CASE AwaitConnected(e)
  <2>1. line = Line("connected", e)
    BY <1>3, <1>6 DEF AwaitConnected, Operations
  <2>2. /\ peer_connection_state'[e] = Empty /\ UNCHANGED <<state, stage>>
        /\ UNCHANGED <<data_channel, channels_rx, ready_state>>
        /\ \A end \in Ends \ {e} :
             peer_connection_state'[end] = peer_connection_state[end]
        /\ (peer_connection_state[e] = "connected" => line' = line + 1)
        /\ peer_connection_state[e] # Empty
    BY <1>5, <1>6 DEF AwaitConnected, TakeState, engineVars, historyVars
  <2>3. ConnectionInv'
    <3>1. ConnectionTypeOK'
      BY <1>5, <1>6
      DEF AwaitConnected, TakeState, engineVars, historyVars, ConnectionTypeOK
    <3> QED BY <1>5, <2>2, <3>1 DEF ConnectionInv, ChannelOnce, LastStateSeen
  <2>4. peer_connection_state[e] = state[e]
    BY <1>5, <2>2 DEF LastStateSeen
  <2> QED BY <1>1, <1>2, <1>4, <2>1, <2>2, <2>3, <2>4 DEF TestInv
<1>7. CASE AwaitReady(e)
  <2>1. line = Line("ready", e)
    BY <1>3, <1>7 DEF AwaitReady, Operations
  <2>2. /\ ready_state'[e] = Empty /\ UNCHANGED <<state, stage>>
        /\ UNCHANGED <<data_channel, channels_rx, peer_connection_state>>
        /\ \A end \in Ends \ {e} : ready_state'[end] = ready_state[end]
        /\ (ready_state[e] = "true" => line' = line + 1)
        /\ ready_state[e] \in {"true", "false"}
    BY <1>5, <1>7 DEF AwaitReady, TakeReady, Ready, engineVars, historyVars
  <2>3. ConnectionInv'
    <3>1. ConnectionTypeOK'
      BY <1>5, <1>7
      DEF AwaitReady, TakeReady, engineVars, historyVars, ConnectionTypeOK
    <3> QED BY <1>5, <2>2, <3>1 DEF ConnectionInv, ChannelOnce, LastStateSeen
  <2> QED BY <1>1, <1>2, <1>4, <2>1, <2>2, <2>3 DEF TestInv, Empty
<1>8. ASSUME ConnectionInv', UNCHANGED <<state, data_channel, ready_state>>,
             UNCHANGED peer_connection_state
      PROVE  TestInv'
  BY <1>1, <1>2, <1>4, <1>8 DEF TestInv
<1>9. CASE AwaitChannel(e)
  <2>1. ConnectionInv'
    BY <1>5, <1>9
    DEF AwaitChannel, TakeChannel, engineVars, historyVars, ConnectionInv,
        ConnectionTypeOK, ChannelOnce, LastStateSeen
  <2> QED BY <1>8, <1>9, <2>1 DEF AwaitChannel, engineVars, historyVars
<1>10. CASE SendHello(e)
  <2>1. wire' \in [Ends -> Seq(Messages)]
    <3>1. PICK m \in Messages : wire' = [wire EXCEPT ![Other(e)] = Append(@, m)]
      BY <1>10 DEF SendHello, Send, Messages
    <3>2. Append(wire[Other(e)], m) \in Seq(Messages)
      BY <1>5 DEF ConnectionTypeOK, Other, Ends
    <3> QED BY <1>5, <3>1, <3>2 DEF ConnectionTypeOK
  <2>2. ConnectionInv'
    BY <1>5, <1>10, <2>1
    DEF SendHello, engineVars, historyVars, ConnectionInv, ConnectionTypeOK,
        ChannelOnce, LastStateSeen
  <2> QED BY <1>8, <1>10, <2>2 DEF SendHello, engineVars, historyVars
<1>11. CASE ReceiveHello(e)
  <2>1. rx' \in [Ends -> Seq(Messages)]
    <3>1. Tail(rx[e]) \in Seq(Messages) /\ rx' = [rx EXCEPT ![e] = Tail(rx[e])]
      BY <1>5, <1>11 DEF ReceiveHello, TakeMessage, ConnectionTypeOK
    <3> QED BY <1>5, <3>1 DEF ConnectionTypeOK
  <2>2. ConnectionInv'
    BY <1>5, <1>11, <2>1
    DEF ReceiveHello, engineVars, historyVars, ConnectionInv, ConnectionTypeOK,
        ChannelOnce, LastStateSeen
  <2> QED BY <1>8, <1>11, <2>2 DEF ReceiveHello, engineVars, historyVars
<1> QED BY <1>6, <1>7, <1>9, <1>10, <1>11

\* The engine leaves what the test waits for in the cells, and the rest of the
\* test touches none of them.
LEMMA TestNextKeeps == TestInv /\ [TestNext]_testVars => TestInv'
<1> SUFFICES ASSUME TestInv, [TestNext]_testVars PROVE TestInv'
  OBVIOUS
<1>1. /\ ConnectionInv /\ ConnectionTypeOK
      /\ state \in [Ends -> States] /\ stage \in [Ends -> Stages]
      /\ peer_connection_state \in [Ends -> States \cup {Empty}]
      /\ ready_state \in [Ends -> {"true", "false", Empty}]
      /\ data_channel \in [Ends -> {"none", "connecting", "open", "closed"}]
  BY DEF TestInv, ConnectionInv, ConnectionTypeOK
<1>2. CASE UNCHANGED testVars
  BY <1>2
  DEF testVars, connectionVars, engineVars, historyVars, TestInv, ConnectionInv,
      ConnectionTypeOK, ChannelOnce, LastStateSeen
<1>3. ASSUME ConnectionInv', UNCHANGED line,
             UNCHANGED <<state, data_channel, ready_state>>,
             UNCHANGED peer_connection_state
      PROVE  TestInv'
  BY <1>3 DEF TestInv
<1>4. ASSUME NEW e \in Ends, Setup(e), UNCHANGED line PROVE TestInv'
  <2>1. ConnectionInv'
    BY <1>1, <1>4, SetupKeeps
  <2>2. CASE BuildOfferer
    <3>1. /\ data_channel["offerer"] = "none"
          /\ data_channel' = [data_channel EXCEPT !["offerer"] = "connecting"]
          /\ UNCHANGED <<state, ready_state, peer_connection_state>>
      BY <1>1, <2>2 DEF BuildOfferer, ConnectionInv, ChannelOnce
    <3>2. \A end \in Ends : data_channel'[end] = data_channel[end]
                              \/ (data_channel[end] = "none"
                                    /\ data_channel'[end] = "connecting")
      BY <1>1, <3>1
    <3> QED BY <1>4, <2>1, <3>1, <3>2 DEF TestInv
  <2>3. CASE ~BuildOfferer
    BY <1>3, <1>4, <2>1, <2>3
    DEF Setup, BuildAnswerer, ReceiveAnswer, Collect, engineVars, historyVars
  <2> QED BY <2>2, <2>3
<1>5. ASSUME NEW e \in Ends, Engine(e), UNCHANGED line PROVE TestInv'
  <2>1. ConnectionInv'
    BY <1>1, <1>5, EngineKeeps
  <2>2. CASE StateChange(e)
    <3>1. PICK s \in Successors(state[e]) :
            /\ state' = [state EXCEPT ![e] = s]
            /\ peer_connection_state' = [peer_connection_state EXCEPT ![e] = s]
      BY <2>2 DEF StateChange, Set
    <3>2. s # Empty
      BY <3>1 DEF Successors, States, Empty
    <3> QED BY <1>1, <1>5, <2>1, <2>2, <3>1, <3>2 DEF StateChange, TestInv
  <2>3. CASE e = "answerer" /\ IncomingChannel
    BY <1>1, <1>5, <2>1, <2>3 DEF IncomingChannel, TestInv, Ends
  <2>4. CASE ChannelOpen(e)
    BY <1>1, <1>5, <2>1, <2>4 DEF ChannelOpen, SetReady, TestInv, Empty
  <2>5. CASE ChannelClose(e)
    BY <1>1, <1>5, <2>1, <2>5 DEF ChannelClose, SetReady, TestInv, Empty
  <2>6. CASE IceCandidate(e) \/ IceGatheringFinished(e) \/ ChannelMessage(e)
    BY <1>3, <1>5, <2>1, <2>6
    DEF IceCandidate, IceGatheringFinished, ChannelMessage, engineVars,
        historyVars
  <2> QED BY <1>5, <2>2, <2>3, <2>4, <2>5, <2>6 DEF Engine, Completes
<1>6. CASE Return
  <2>1. ConnectionInv'
    BY <1>1, <1>6
    DEF Return, Both, engineVars, historyVars, ConnectionInv, ConnectionTypeOK,
        ChannelOnce, LastStateSeen, Stages, Ends
  <2> QED BY <1>3, <1>6, <2>1 DEF Return, engineVars, historyVars
<1> QED
  BY <1>2, <1>4, <1>5, <1>6, TestLineKeeps DEF TestNext, Test

-----------------------------------------------------------------------------

\* The test's invariant.
LEMMA TestInvariant == TestSpec => []TestInv
  BY TestInitially, TestNextKeeps, PTL DEF TestSpec

\* Every variable has its type, and the test is at one of its lines
\* (data_channels.rs:48-68).
THEOREM TestTypeCorrect == TestSpec => []TestTypeOK
<1>1. TestInv => TestTypeOK
  BY DEF TestInv, ConnectionInv, TestTypeOK
<1> QED BY <1>1, TestInvariant, PTL

\* The test never waits, with an empty cell, for a connection or a channel that
\* is there already (native.rs:72-74, 106-108, 188-196, 254).
THEOREM NoWakeupIsLost == TestSpec => []NoLostWakeup
<1>1. TestInv => NoLostWakeup
  <2> SUFFICES ASSUME TestInv, NEW e \in Ends
               PROVE  /\ At("connected", e) /\ peer_connection_state[e] = Empty
                           => state[e] # "connected"
                      /\ At("ready", e) /\ ready_state[e] = Empty
                           => data_channel[e] # "open"
    BY DEF NoLostWakeup
  <2>1. ASSUME NEW op \in Operations, At(op, e) PROVE line = Line(op, e)
    <3>1. line \in 1 .. 10
      BY <2>1, Lines DEF TestInv, At
    <3> QED BY <2>1, <3>1, Lines DEF At
  <2>2. Line("connected", e) \in Nat /\ Line("ready", e) \in Nat
    BY DEF Line, Ends
  <2>3. At("connected", e) => line = Line("connected", e)
    BY <2>1 DEF Operations
  <2>4. At("ready", e) => line = Line("ready", e)
    BY <2>1 DEF Operations
  <2> QED BY <2>2, <2>3, <2>4 DEF TestInv
<1> QED BY <1>1, TestInvariant, PTL
=============================================================================
