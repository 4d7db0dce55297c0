--------------------------- MODULE FailoverProofs ---------------------------
(***************************************************************************)
(* Invariance proofs for Failover, for every set of configurations, every  *)
(* length of the timer queue and every choice of events.                   *)
(***************************************************************************)
EXTENDS Failover, TLAPS

\* m_isConnected is true only between the end of the task's connectedCallback and
\* the end of its disconnectedCallback.
ConnectedOnlyInSession ==
    \A t \in Pools : isConnected[t] =>
        pc[t] \in {"recv", "check", "dispatch", "disconnected", "unmark"}

\* The callbacks never queue a stop for the timer of the primary.
PrimaryNeverStopped == \A i \in DOMAIN timerCmds : ~Queued(i, "STOP", PRIMARY)

\* The start command of the primary's timer finds room in the queue: until the primary's
\* task runs, nothing but the fallback's own start can be queued.
RoomForPrimary ==
    pc[PRIMARY] = "start" =>
        /\ Len(timerCmds) <= 1
        /\ pc[SECONDARY] = "start" => timerCmds = <<>>

PrimaryStarted ==
    pc[PRIMARY] # "start" =>
        timerActive[PRIMARY] \/ \E i \in DOMAIN timerCmds : Queued(i, "START", PRIMARY)

USE DEF Pools, PRIMARY, SECONDARY

-----------------------------------------------------------------------------
(***************************************************************************)
(* What the two timer calls can do to the queue.                           *)
(***************************************************************************)
LEMMA PostType ==
    ASSUME NEW c \in {"START", "STOP"}, NEW t \in Pools, TypeOK, Post(c, t)
    PROVE  /\ timerCmds' \in Seq(TimerCommands)
           /\ Len(timerCmds') <= Len(timerCmds) + 1
           /\ Len(timerCmds') <= TimerQueueLen
           /\ \A i \in DOMAIN timerCmds : i \in DOMAIN timerCmds' /\ timerCmds'[i] = timerCmds[i]
           /\ \A i \in DOMAIN timerCmds' :
                 i \in DOMAIN timerCmds \/ timerCmds'[i] = [cmd |-> c, pool |-> t]
           /\ Len(timerCmds) < TimerQueueLen =>
                 \E i \in DOMAIN timerCmds' : timerCmds'[i] = [cmd |-> c, pool |-> t]
<1>1. [cmd |-> c, pool |-> t] \in TimerCommands  BY DEF TimerCommands
<1>2. timerCmds \in Seq(TimerCommands) /\ Len(timerCmds) <= TimerQueueLen
  BY DEF TypeOK
<1>3. CASE Len(timerCmds) < TimerQueueLen
  <2>1. timerCmds' = Append(timerCmds, [cmd |-> c, pool |-> t])  BY <1>3 DEF Post
  <2>2. QED  BY <1>1, <1>2, <1>3, <2>1, FailoverAssumption
<1>4. CASE ~(Len(timerCmds) < TimerQueueLen)
  <2>1. timerCmds' = timerCmds  BY <1>4 DEF Post
  <2>2. QED  BY <1>2, <1>4, <2>1
<1>5. QED  BY <1>3, <1>4

-----------------------------------------------------------------------------
(***************************************************************************)
(* Type correctness.                                                       *)
(***************************************************************************)
LEMMA InitType == Init => TypeOK
<1>1. <<>> \in Seq(TimerCommands) /\ Len(<<>>) <= TimerQueueLen  BY FailoverAssumption
<1>2. QED  BY <1>1 DEF Init, TypeOK, Locations

LEMMA StepType == TypeOK /\ [Next]_vars => TypeOK'
<1> SUFFICES ASSUME TypeOK, [Next]_vars PROVE TypeOK'  OBVIOUS
<1> USE DEF TypeOK, Locations, Goto, taskVars, managerVars, timerVars
<1>1. ASSUME NEW t \in Pools, TaskStart(t) PROVE TypeOK'
  <2>1. timerCmds' \in Seq(TimerCommands) /\ Len(timerCmds') <= TimerQueueLen
    BY <1>1, PostType DEF TaskStart, startReconnectTimer
  <2>2. QED  BY <1>1, <2>1 DEF TaskStart
<1>2. ASSUME NEW t \in Pools,
             LoadConfig(t) \/ Gate(t) \/ MarkConnected(t) \/ CheckStop(t)
      PROVE  TypeOK'
  <2>1. CASE LoadConfig(t)  BY <2>1 DEF LoadConfig
  <2>2. CASE Gate(t)  BY <2>2 DEF Gate
  <2>3. CASE MarkConnected(t)  BY <2>3 DEF MarkConnected
  <2>4. CASE CheckStop(t)  BY <2>4 DEF CheckStop
  <2>5. QED  BY <1>2, <2>1, <2>2, <2>3, <2>4
<1>3. ASSUME NEW t \in Pools, connectedCallback(t) PROVE TypeOK'
  <2>1. timerCmds' \in Seq(TimerCommands) /\ Len(timerCmds') <= TimerQueueLen
    BY <1>3, PostType DEF connectedCallback, stopReconnectTimer
  <2>2. stopFlag' \in [Pools -> BOOLEAN] /\ selected' \in Pools
    BY <1>3 DEF connectedCallback
  <2>3. QED  BY <1>3, <2>1, <2>2 DEF connectedCallback
<1>4. ASSUME NEW t \in Pools, DispatchNotify(t) PROVE TypeOK'
  BY <1>4 DEF DispatchNotify, runVerification
<1>5. ASSUME NEW t \in Pools, DispatchResult(t) \/ DispatchOther(t) \/ MarkDisconnected(t)
      PROVE  TypeOK'
  <2>1. CASE DispatchResult(t)  BY <2>1 DEF DispatchResult
  <2>2. CASE DispatchOther(t)  BY <2>2 DEF DispatchOther
  <2>3. CASE MarkDisconnected(t)  BY <2>3 DEF MarkDisconnected
  <2>4. QED  BY <1>5, <2>1, <2>2, <2>3
<1>6. ASSUME NEW t \in Pools, disconnectedCallback(t) PROVE TypeOK'
  <2>1. timerCmds' \in Seq(TimerCommands) /\ Len(timerCmds') <= TimerQueueLen
    BY <1>6, PostType DEF disconnectedCallback, startReconnectTimer
  <2>2. QED  BY <1>6, <2>1 DEF disconnectedCallback
<1>7. ASSUME NEW t \in Pools, Dial(t) PROVE TypeOK'
  BY <1>7 DEF Dial, DialFails, DialOk, SetupFails, NewSession
<1>8. ASSUME NEW t \in Pools, Receive(t) PROVE TypeOK'
  BY <1>8 DEF Receive, ReceiveLine, ReceiveFails
<1>9. ASSUME NEW t \in Pools, TimerStep(t) PROVE TypeOK'
  BY <1>9 DEF TimerStep, TimerExpires, reconnectTimerCallback
<1>10. ASSUME NEW t \in Pools, submitShare(t) PROVE TypeOK'
  BY <1>10 DEF submitShare
<1>11. ASSUME TimerCommand PROVE TypeOK'
  <2>1. timerCmds' \in Seq(TimerCommands) /\ Len(timerCmds') <= TimerQueueLen
    BY <1>11, FailoverAssumption DEF TimerCommand
  <2>2. timerActive' \in [Pools -> BOOLEAN]  BY <1>11 DEF TimerCommand
  <2>3. QED  BY <1>11, <2>1, <2>2 DEF TimerCommand
<1>12. ASSUME ManagerStart \/ reconnectAll \/ ShutDown PROVE TypeOK'
  BY <1>12 DEF ManagerStart, reconnectAll, ShutDown
<1>13. ASSUME loadSettings PROVE TypeOK'
  BY <1>13 DEF loadSettings
<1>14. ASSUME UNCHANGED vars PROVE TypeOK'
  BY <1>14 DEF vars
<1>15. QED
  BY <1>1, <1>2, <1>3, <1>4, <1>5, <1>6, <1>7, <1>8, <1>9, <1>10, <1>11, <1>12, <1>13, <1>14
  DEF Next, Running, TaskStep

\* Every variable keeps its type, whatever the events and the length of the timer queue.
THEOREM TypeCorrect == Spec => []TypeOK
<1>1. QED  BY InitType, StepType, PTL DEF Spec

-----------------------------------------------------------------------------
(***************************************************************************)
(* Sessions.  The task of a pool is the only thread that moves its pc, so  *)
(* every other step keeps both invariants by leaving their state alone.    *)
(***************************************************************************)
Sessions == ConnectedOnlyInSession /\ JobsBelongToLiveSession

LEMMA SessionsStep == TypeOK /\ Sessions /\ [Next]_vars => Sessions'
<1> SUFFICES ASSUME TypeOK, Sessions, [Next]_vars PROVE Sessions'  OBVIOUS
<1> USE DEF TypeOK, Sessions, ConnectedOnlyInSession, JobsBelongToLiveSession, InSession,
        Locations, Goto, taskVars, managerVars, timerVars
<1>1. ASSUME NEW t \in Pools, TaskStart(t) \/ LoadConfig(t) \/ Gate(t) \/ DialFails(t)
      PROVE  Sessions'
  <2>1. CASE TaskStart(t)  BY <2>1 DEF TaskStart
  <2>2. CASE LoadConfig(t)  BY <2>2 DEF LoadConfig
  <2>3. CASE Gate(t)  BY <2>3 DEF Gate
  <2>4. CASE DialFails(t)  BY <2>4 DEF DialFails
  <2>5. QED  BY <1>1, <2>1, <2>2, <2>3, <2>4
\* a task that dials holds no work and is not connected
<1>2. ASSUME NEW t \in Pools, DialOk(t) \/ SetupFails(t) PROVE Sessions'
  <2>1. pc[t] = "dial" /\ job[t] = "none" /\ ~isConnected[t]
    BY <1>2 DEF DialOk, SetupFails
  <2>2. job' = job /\ isConnected' = isConnected
    BY <1>2, <2>1 DEF DialOk, SetupFails, NewSession
  <2>3. \A u \in Pools : u # t => pc'[u] = pc[u]
    BY <1>2 DEF DialOk, SetupFails
  <2>4. QED  BY <2>1, <2>2, <2>3
<1>3. ASSUME NEW t \in Pools, Receive(t) PROVE Sessions'
  BY <1>3 DEF Receive, ReceiveLine, ReceiveFails
<1>4. ASSUME NEW t \in Pools, connectedCallback(t) PROVE Sessions'
  <2>1. pc[t] = "connected" /\ pc' = [pc EXCEPT ![t] = "mark"]
    BY <1>4 DEF connectedCallback
  <2>2. UNCHANGED <<isConnected, job>>  BY <1>4 DEF connectedCallback
  <2>3. QED  BY <2>1, <2>2
<1>5. ASSUME NEW t \in Pools, MarkConnected(t) \/ CheckStop(t) PROVE Sessions'
  <2>1. CASE MarkConnected(t)  BY <2>1 DEF MarkConnected
  <2>2. CASE CheckStop(t)  BY <2>2 DEF CheckStop
  <2>3. QED  BY <1>5, <2>1, <2>2
<1>6. ASSUME NEW t \in Pools, DispatchNotify(t) \/ DispatchResult(t) \/ DispatchOther(t)
      PROVE  Sessions'
  <2>1. CASE DispatchNotify(t)  BY <2>1 DEF DispatchNotify
  <2>2. CASE DispatchResult(t)  BY <2>2 DEF DispatchResult
  <2>3. CASE DispatchOther(t)  BY <2>3 DEF DispatchOther
  <2>4. QED  BY <1>6, <2>1, <2>2, <2>3
\* the work is gone before the task leaves the session
<1>7. ASSUME NEW t \in Pools, disconnectedCallback(t) PROVE Sessions'
  <2>1. job' = [job EXCEPT ![t] = "none"] /\ pc' = [pc EXCEPT ![t] = "unmark"]
    BY <1>7 DEF disconnectedCallback
  <2>2. UNCHANGED isConnected  BY <1>7 DEF disconnectedCallback
  <2>3. QED  BY <2>1, <2>2
<1>8. ASSUME NEW t \in Pools, MarkDisconnected(t) PROVE Sessions'
  BY <1>8 DEF MarkDisconnected
<1>9. ASSUME UNCHANGED <<pc, isConnected, job>> PROVE Sessions'
  BY <1>9
<1>10. ASSUME NEW t \in Pools, TimerStep(t) \/ submitShare(t)
       PROVE  UNCHANGED <<pc, isConnected, job>>
  BY <1>10 DEF TimerStep, TimerExpires, reconnectTimerCallback, submitShare
<1>11. ASSUME \/ TimerCommand \/ ManagerStart \/ loadSettings \/ reconnectAll \/ ShutDown
              \/ UNCHANGED vars
       PROVE  UNCHANGED <<pc, isConnected, job>>
  BY <1>11 DEF TimerCommand, ManagerStart, loadSettings, reconnectAll, ShutDown, vars
<1>12. QED
  BY <1>1, <1>2, <1>3, <1>4, <1>5, <1>6, <1>7, <1>8, <1>9, <1>10, <1>11
  DEF Next, Running, TaskStep, Dial

LEMMA SessionsInvariant == Spec => []Sessions
<1>1. Init => Sessions
  BY DEF Init, Sessions, ConnectedOnlyInSession, JobsBelongToLiveSession
<1>2. QED  BY <1>1, TypeCorrect, SessionsStep, PTL DEF Spec

\* No mining job outlives the session that delivered it, however the two tasks, the timer
\* daemon and the settings interleave.
THEOREM JobsNeverOutliveSession == Spec => []JobsBelongToLiveSession
<1>1. Sessions => JobsBelongToLiveSession  BY DEF Sessions
<1>2. QED  BY <1>1, SessionsInvariant, PTL

-----------------------------------------------------------------------------
(***************************************************************************)
(* The timer of the primary.                                               *)
(***************************************************************************)
PrimaryTimer == PrimaryNeverStopped /\ RoomForPrimary /\ PrimaryStarted

\* A command for the fallback's timer changes nothing for the primary's.
LEMMA PostSecondary ==
    ASSUME TypeOK, PrimaryTimer, NEW c \in {"START", "STOP"}, Post(c, SECONDARY),
           UNCHANGED timerActive,
           (pc'[PRIMARY] = "start") = (pc[PRIMARY] = "start"),
           pc[PRIMARY] = "start" => pc[SECONDARY] = "start" /\ pc'[SECONDARY] # "start"
    PROVE  PrimaryTimer'
<1> DEFINE S == [cmd |-> c, pool |-> SECONDARY]
<1>1. /\ Len(timerCmds') <= Len(timerCmds) + 1
      /\ \A i \in DOMAIN timerCmds : i \in DOMAIN timerCmds' /\ timerCmds'[i] = timerCmds[i]
      /\ \A i \in DOMAIN timerCmds' : i \in DOMAIN timerCmds \/ timerCmds'[i] = S
  BY PostType
<1>2. PrimaryNeverStopped'
  <2>1. S # [cmd |-> "STOP", pool |-> PRIMARY]  OBVIOUS
  <2>2. QED  BY <1>1, <2>1 DEF PrimaryTimer, PrimaryNeverStopped, Queued
<1>3. RoomForPrimary'
  BY <1>1 DEF PrimaryTimer, RoomForPrimary
<1>4. PrimaryStarted'
  BY <1>1 DEF PrimaryTimer, PrimaryStarted, Queued
<1>5. QED  BY <1>2, <1>3, <1>4 DEF PrimaryTimer

\* The primary's own start command finds room.
LEMMA PostPrimary ==
    ASSUME TypeOK, PrimaryTimer, Post("START", PRIMARY), UNCHANGED timerActive,
           pc[PRIMARY] = "start", pc'[PRIMARY] # "start"
    PROVE  PrimaryTimer'
<1>1. Len(timerCmds) < TimerQueueLen
  BY FailoverAssumption DEF PrimaryTimer, RoomForPrimary, TypeOK
<1>2. /\ \A i \in DOMAIN timerCmds : i \in DOMAIN timerCmds' /\ timerCmds'[i] = timerCmds[i]
      /\ \A i \in DOMAIN timerCmds' :
            i \in DOMAIN timerCmds \/ timerCmds'[i] = [cmd |-> "START", pool |-> PRIMARY]
      /\ \E i \in DOMAIN timerCmds' : timerCmds'[i] = [cmd |-> "START", pool |-> PRIMARY]
  BY <1>1, PostType
<1>3. PrimaryNeverStopped'
  BY <1>2 DEF PrimaryTimer, PrimaryNeverStopped, Queued
<1>4. PrimaryStarted'  BY <1>2 DEF PrimaryStarted, Queued
<1>5. RoomForPrimary'  BY DEF RoomForPrimary
<1>6. QED  BY <1>3, <1>4, <1>5 DEF PrimaryTimer

\* The daemon applies the first command of its queue.
LEMMA TimerCommandStep ==
    ASSUME TypeOK, PrimaryTimer, TimerCommand PROVE PrimaryTimer'
<1>1. /\ timerCmds \in Seq(TimerCommands) /\ timerCmds # <<>>
      /\ timerCmds' = Tail(timerCmds) /\ pc' = pc
      /\ timerActive' =
            [timerActive EXCEPT ![Head(timerCmds).pool] = Head(timerCmds).cmd = "START"]
      /\ timerActive \in [Pools -> BOOLEAN]
  BY DEF TimerCommand, TypeOK, taskVars
<1>2. /\ Len(timerCmds') = Len(timerCmds) - 1
      /\ \A i \in DOMAIN timerCmds' : i + 1 \in DOMAIN timerCmds /\ timerCmds'[i] = timerCmds[i + 1]
      /\ \A i \in DOMAIN timerCmds : i = 1 \/ (i - 1 \in DOMAIN timerCmds' /\ timerCmds'[i - 1] = timerCmds[i])
      /\ Head(timerCmds) = timerCmds[1] /\ 1 \in DOMAIN timerCmds
  BY <1>1
<1>3. PrimaryNeverStopped'
  BY <1>2 DEF PrimaryTimer, PrimaryNeverStopped, Queued
<1>4. RoomForPrimary'
  <2>1. timerCmds' \in Seq(TimerCommands)  BY <1>1
  <2>2. pc[PRIMARY] = "start" => Len(timerCmds') = 0
    BY <1>1, <1>2, <2>1 DEF PrimaryTimer, RoomForPrimary
  <2>3. pc[PRIMARY] = "start" => timerCmds' = <<>>  BY <2>1, <2>2
  <2>4. QED  BY <1>1, <2>2, <2>3 DEF RoomForPrimary
<1>5. PrimaryStarted'
  <2> SUFFICES ASSUME pc[PRIMARY] # "start"
      PROVE  timerActive'[PRIMARY] \/ \E i \in DOMAIN timerCmds' : Queued(i, "START", PRIMARY)'
    BY <1>1 DEF PrimaryStarted
  <2>1. CASE timerCmds[1].pool = PRIMARY
    <3>1. timerCmds[1] \in TimerCommands  BY <1>1, <1>2
    <3>2. timerCmds[1].cmd = "START"
      BY <1>2, <2>1, <3>1 DEF PrimaryTimer, PrimaryNeverStopped, Queued, TimerCommands
    <3>3. QED  BY <1>1, <1>2, <2>1, <3>2
  <2>2. CASE timerCmds[1].pool # PRIMARY
    <3>1. timerActive'[PRIMARY] = timerActive[PRIMARY]  BY <1>1, <1>2, <2>2
    <3>2. CASE timerActive[PRIMARY]  BY <3>1, <3>2
    <3>3. ASSUME NEW i \in DOMAIN timerCmds, Queued(i, "START", PRIMARY)
          PROVE  \E k \in DOMAIN timerCmds' : Queued(k, "START", PRIMARY)'
      <4>1. i # 1  BY <2>2, <3>3 DEF Queued
      <4>2. QED  BY <1>2, <3>3, <4>1 DEF Queued
    <3>4. QED  BY <3>2, <3>3 DEF PrimaryTimer, PrimaryStarted
  <2>3. QED  BY <2>1, <2>2
<1>6. QED  BY <1>3, <1>4, <1>5 DEF PrimaryTimer

LEMMA PrimaryTimerStep == TypeOK /\ Sessions /\ PrimaryTimer /\ [Next]_vars => PrimaryTimer'
<1> SUFFICES ASSUME TypeOK, Sessions, PrimaryTimer, [Next]_vars PROVE PrimaryTimer'  OBVIOUS
<1> DEFINE Quiet == /\ UNCHANGED <<timerCmds, timerActive>>
                    /\ \A t \in Pools : (pc'[t] = "start") = (pc[t] = "start")
<1>1. ASSUME Quiet PROVE PrimaryTimer'
  BY <1>1 DEF PrimaryTimer, PrimaryNeverStopped, RoomForPrimary, PrimaryStarted, Queued
<1>2. ASSUME TaskStart(PRIMARY) PROVE PrimaryTimer'
  <2>1. /\ pc[PRIMARY] = "start" /\ pc'[PRIMARY] # "start" /\ timerActive' = timerActive
    BY <1>2 DEF TaskStart, Goto, TypeOK
  <2>2. CASE Post("START", PRIMARY)  BY <2>1, <2>2, PostPrimary
  <2>3. CASE timerActive[PRIMARY] /\ timerCmds' = timerCmds
    BY <2>1, <2>3 DEF PrimaryTimer, PrimaryNeverStopped, RoomForPrimary, PrimaryStarted, Queued
  <2>4. QED  BY <1>2, <2>2, <2>3 DEF TaskStart, startReconnectTimer
<1>3. ASSUME TaskStart(SECONDARY) PROVE PrimaryTimer'
  <2>1. /\ pc[SECONDARY] = "start" /\ pc'[SECONDARY] # "start" /\ timerActive' = timerActive
        /\ pc'[PRIMARY] = pc[PRIMARY]
    BY <1>3 DEF TaskStart, Goto, TypeOK
  <2>2. CASE Post("START", SECONDARY)  BY <2>1, <2>2, PostSecondary
  <2>3. CASE timerCmds' = timerCmds
    BY <2>1, <2>3 DEF PrimaryTimer, PrimaryNeverStopped, RoomForPrimary, PrimaryStarted, Queued
  <2>4. QED  BY <1>3, <2>2, <2>3 DEF TaskStart, startReconnectTimer
\* only a connected primary, hence one whose task runs, makes a callback stop a timer
<1>4. ASSUME NEW t \in Pools, connectedCallback(t) PROVE PrimaryTimer'
  <2>1. /\ pc[t] = "connected" /\ pc' = [pc EXCEPT ![t] = "mark"]
        /\ timerActive' = timerActive
    BY <1>4 DEF connectedCallback, Goto
  <2>2. CASE timerCmds' = timerCmds
    <3>1. Quiet  BY <2>1, <2>2 DEF TypeOK
    <3>2. QED  BY <1>1, <3>1
  <2>3. CASE Post("STOP", SECONDARY) /\ (t = PRIMARY \/ isConnected[PRIMARY])
    <3>1. pc[PRIMARY] # "start"
      BY <2>1, <2>3 DEF Sessions, ConnectedOnlyInSession
    <3>2. pc'[PRIMARY] # "start"  BY <2>1, <3>1 DEF TypeOK
    <3>3. QED  BY <2>1, <2>3, <3>1, <3>2, PostSecondary
  <2>4. QED
    BY <1>4, <2>2, <2>3 DEF connectedCallback, stopReconnectTimer, PrimaryUnusable
<1>5. ASSUME NEW t \in Pools, disconnectedCallback(t) PROVE PrimaryTimer'
  <2>1. /\ pc[t] = "disconnected" /\ pc' = [pc EXCEPT ![t] = "unmark"]
        /\ timerActive' = timerActive
    BY <1>5 DEF disconnectedCallback, Goto
  <2>2. CASE timerCmds' = timerCmds
    <3>1. Quiet  BY <2>1, <2>2 DEF TypeOK
    <3>2. QED  BY <1>1, <3>1
  <2>3. CASE t = PRIMARY /\ Post("START", SECONDARY)
    <3>1. pc[PRIMARY] # "start" /\ pc'[PRIMARY] # "start"  BY <2>1, <2>3 DEF TypeOK
    <3>2. QED  BY <2>1, <2>3, <3>1, PostSecondary
  <2>4. QED  BY <1>5, <2>2, <2>3 DEF disconnectedCallback, startReconnectTimer
<1>6. ASSUME NEW t \in Pools, LoadConfig(t) \/ Gate(t) \/ Dial(t) \/ Receive(t) PROVE Quiet
  <2>1. UNCHANGED <<timerCmds, timerActive>>
    BY <1>6 DEF LoadConfig, Gate, Dial, DialFails, DialOk, SetupFails, Receive, ReceiveLine,
                ReceiveFails, timerVars
  <2>2. pc[t] # "start" /\ \E l \in Locations \ {"start"} : pc' = [pc EXCEPT ![t] = l]
    BY <1>6 DEF LoadConfig, Gate, Dial, DialFails, DialOk, SetupFails, Receive, ReceiveLine,
                ReceiveFails, Goto, Locations
  <2>3. QED  BY <2>1, <2>2 DEF TypeOK
<1>7. ASSUME NEW t \in Pools, MarkConnected(t) \/ CheckStop(t) \/ DispatchNotify(t)
                 \/ DispatchResult(t) \/ DispatchOther(t) \/ MarkDisconnected(t)
      PROVE  Quiet
  <2>1. UNCHANGED <<timerCmds, timerActive>>
    BY <1>7 DEF MarkConnected, CheckStop, DispatchNotify, DispatchResult, DispatchOther,
                MarkDisconnected, timerVars
  <2>2. pc[t] # "start" /\ \E l \in Locations \ {"start"} : pc' = [pc EXCEPT ![t] = l]
    BY <1>7 DEF MarkConnected, CheckStop, DispatchNotify, DispatchResult, DispatchOther,
                MarkDisconnected, Goto, Locations
  <2>3. QED  BY <2>1, <2>2 DEF TypeOK
<1>8. ASSUME NEW t \in Pools, TimerStep(t) \/ submitShare(t) PROVE Quiet
  BY <1>8 DEF TimerStep, TimerExpires, reconnectTimerCallback, submitShare, taskVars,
              managerVars, timerVars
<1>9. ASSUME \/ ManagerStart \/ loadSettings \/ reconnectAll \/ ShutDown \/ UNCHANGED vars
      PROVE  Quiet
  BY <1>9 DEF ManagerStart, loadSettings, reconnectAll, ShutDown, vars, taskVars,
              managerVars, timerVars
<1>10. QED
  BY <1>1, <1>2, <1>3, <1>4, <1>5, <1>6, <1>7, <1>8, <1>9, TimerCommandStep
  DEF Next, Running, TaskStep

\* The reconnect timer of the primary stays armed for ever once its task runs: its start
\* command is never dropped (TimerQueueLen >= 2) and no callback stops it.
THEOREM PrimaryTimerAlwaysArmed == Spec => []PrimaryTimerStaysArmed
<1>1. Init => PrimaryTimer
  BY DEF Init, PrimaryTimer, PrimaryNeverStopped, RoomForPrimary, PrimaryStarted, Queued
<1>2. PrimaryTimer => PrimaryTimerStaysArmed
  BY DEF PrimaryTimer, PrimaryNeverStopped, PrimaryStarted, PrimaryTimerStaysArmed, TimerArmed
<1>3. QED  BY <1>1, <1>2, TypeCorrect, SessionsInvariant, PrimaryTimerStep, PTL DEF Spec

-----------------------------------------------------------------------------
(***************************************************************************)
(* The refinement.                                                         *)
(***************************************************************************)

\* A share waits for its answer in the session it was submitted in.
AnswersInSession == \A t \in Pools : pending[t] => InSession(t)

LEMMA AnswersStep == TypeOK /\ AnswersInSession /\ [Next]_vars => AnswersInSession'
<1> SUFFICES ASSUME TypeOK, AnswersInSession, [Next]_vars PROVE AnswersInSession'  OBVIOUS
<1> USE DEF TypeOK, AnswersInSession, InSession, Locations, Goto, taskVars, managerVars, timerVars
<1>1. ASSUME NEW t \in Pools, TaskStart(t) \/ LoadConfig(t) \/ Gate(t) \/ DialFails(t)
             \/ MarkDisconnected(t)
      PROVE  AnswersInSession'
  <2>1. ~InSession(t) /\ \E l \in Locations : pc' = [pc EXCEPT ![t] = l]
    BY <1>1 DEF TaskStart, LoadConfig, Gate, DialFails, MarkDisconnected
  <2>2. pending' = pending
    BY <1>1 DEF TaskStart, LoadConfig, Gate, DialFails, MarkDisconnected
  <2>3. QED  BY <2>1, <2>2
<1>2. ASSUME NEW t \in Pools, DialOk(t) \/ SetupFails(t) \/ Receive(t) \/ connectedCallback(t)
             \/ MarkConnected(t) \/ CheckStop(t) \/ DispatchNotify(t) \/ DispatchOther(t)
      PROVE  AnswersInSession'
  <2>1. pending' = pending
    BY <1>2 DEF DialOk, SetupFails, Receive, ReceiveLine, ReceiveFails, connectedCallback,
                MarkConnected, CheckStop, DispatchNotify, DispatchOther
  <2>2. \E l \in {"recv", "connected", "mark", "check", "dispatch", "disconnected"} :
            pc' = [pc EXCEPT ![t] = l]
    BY <1>2 DEF DialOk, SetupFails, Receive, ReceiveLine, ReceiveFails, connectedCallback,
                MarkConnected, CheckStop, DispatchNotify, DispatchOther
  <2>3. QED  BY <2>1, <2>2
<1>3. ASSUME NEW t \in Pools, DispatchResult(t) PROVE AnswersInSession'
  BY <1>3 DEF DispatchResult
<1>4. ASSUME NEW t \in Pools, disconnectedCallback(t) PROVE AnswersInSession'
  <2>1. pending' = [pending EXCEPT ![t] = FALSE] /\ pc' = [pc EXCEPT ![t] = "unmark"]
    BY <1>4 DEF disconnectedCallback
  <2>2. QED  BY <2>1
<1>5. ASSUME NEW t \in Pools, submitShare(t) PROVE AnswersInSession'
  BY <1>5 DEF submitShare
<1>6. ASSUME NEW t \in Pools, TimerStep(t) PROVE AnswersInSession'
  BY <1>6 DEF TimerStep, TimerExpires, reconnectTimerCallback
<1>7. ASSUME \/ TimerCommand \/ ManagerStart \/ loadSettings \/ reconnectAll \/ ShutDown
             \/ UNCHANGED vars
      PROVE  AnswersInSession'
  BY <1>7 DEF TimerCommand, ManagerStart, loadSettings, reconnectAll, ShutDown, vars
<1>8. QED
  BY <1>1, <1>2, <1>3, <1>4, <1>5, <1>6, <1>7 DEF Next, Running, TaskStep, Dial

\* What the abstract variables depend on.
LEMMA MappedStutter ==
    ASSUME UNCHANGED <<pending, job, selected>>,
           \A t \in Pools : InSession(t)' = InSession(t)
    PROVE  UNCHANGED Session!vars
BY DEF Session!vars

\* A task that moves without opening or closing its session.
LEMMA SameSession ==
    ASSUME TypeOK, NEW t \in Pools, NEW l \in Locations, pc' = [pc EXCEPT ![t] = l],
           InSession(t) = (l \in {"recv", "connected", "mark", "check", "dispatch",
                                  "disconnected"})
    PROVE  \A u \in Pools : InSession(u)' = InSession(u)
BY DEF TypeOK, InSession

LEMMA RefinementStep ==
    TypeOK /\ Sessions /\ AnswersInSession /\ [Next]_vars => [Session!Next]_(Session!vars)
<1> SUFFICES ASSUME TypeOK, Sessions, AnswersInSession, [Next]_vars
             PROVE  Session!Next \/ UNCHANGED Session!vars
  OBVIOUS
<1>1. ASSUME NEW t \in Pools,
             \/ TaskStart(t) \/ LoadConfig(t) \/ Gate(t) \/ DialFails(t) \/ Receive(t)
             \/ MarkConnected(t) \/ CheckStop(t) \/ DispatchOther(t) \/ MarkDisconnected(t)
      PROVE  UNCHANGED Session!vars
  <2>1. UNCHANGED <<pending, job, selected>>
    BY <1>1 DEF TaskStart, LoadConfig, Gate, DialFails, Receive, ReceiveLine, ReceiveFails,
                MarkConnected, CheckStop, DispatchOther, MarkDisconnected, managerVars
  <2>2. \E l \in Locations :
            /\ pc' = [pc EXCEPT ![t] = l]
            /\ InSession(t) = (l \in {"recv", "connected", "mark", "check", "dispatch",
                                      "disconnected"})
    BY <1>1 DEF TaskStart, LoadConfig, Gate, DialFails, Receive, ReceiveLine, ReceiveFails,
                MarkConnected, CheckStop, DispatchOther, MarkDisconnected, Goto, Locations,
                InSession
  <2>3. QED  BY <2>1, <2>2, SameSession, MappedStutter
\* Open: a task that dials has neither work nor unanswered shares
<1>2. ASSUME NEW t \in Pools, DialOk(t) \/ SetupFails(t) PROVE Session!Open(t)
  <2>1. pc[t] = "dial" /\ job[t] = "none" /\ ~pending[t] /\ ~InSession(t)
    BY <1>2 DEF DialOk, SetupFails, Sessions, JobsBelongToLiveSession, AnswersInSession,
                InSession, TypeOK
  <2>2. UNCHANGED <<pending, selected>> /\ job' = job
    BY <1>2, <2>1 DEF DialOk, SetupFails, NewSession, TypeOK
  <2>3. /\ InSession(t)'
        /\ \A u \in Pools : u # t => InSession(u)' = InSession(u)
    BY <1>2 DEF DialOk, SetupFails, Goto, InSession, TypeOK
  <2>4. QED  BY <2>1, <2>2, <2>3 DEF Session!Open
<1>3. ASSUME NEW t \in Pools, connectedCallback(t)
      PROVE  Session!Choose(t) \/ UNCHANGED Session!vars
  <2>1. UNCHANGED <<pending, job>> /\ InSession(t) /\ selected' \in {t, selected}
    BY <1>3 DEF connectedCallback, InSession
  <2>2. \A u \in Pools : InSession(u)' = InSession(u)
    BY <1>3, SameSession DEF connectedCallback, Goto, Locations, InSession
  <2>3. QED  BY <2>1, <2>2, MappedStutter DEF Session!Choose
<1>4. ASSUME NEW t \in Pools, DispatchNotify(t) PROVE Session!GiveWork(t)
  <2>1. /\ InSession(t) /\ selected = t
        /\ job' = [job EXCEPT ![t] = "live"] /\ UNCHANGED <<pending, selected>>
    BY <1>4 DEF DispatchNotify, InSession, acceptsNotifyFrom
  <2>2. \A u \in Pools : InSession(u)' = InSession(u)
    BY <1>4, SameSession DEF DispatchNotify, Goto, Locations, InSession
  <2>3. QED  BY <2>1, <2>2 DEF Session!GiveWork, TypeOK
<1>5. ASSUME NEW t \in Pools, DispatchResult(t) PROVE Session!Answer(t)
  <2>1. /\ InSession(t) /\ pending[t]
        /\ pending' = [pending EXCEPT ![t] = FALSE] /\ UNCHANGED <<job, selected>>
    BY <1>5 DEF DispatchResult, InSession
  <2>2. \A u \in Pools : InSession(u)' = InSession(u)
    BY <1>5, SameSession DEF DispatchResult, Goto, Locations, InSession
  <2>3. QED  BY <2>1, <2>2 DEF Session!Answer, TypeOK
<1>6. ASSUME NEW t \in Pools, disconnectedCallback(t) PROVE Session!Close(t)
  <2>1. /\ InSession(t) /\ UNCHANGED selected
        /\ job' = [job EXCEPT ![t] = "none"] /\ pending' = [pending EXCEPT ![t] = FALSE]
        /\ pc' = [pc EXCEPT ![t] = "unmark"]
    BY <1>6 DEF disconnectedCallback, InSession, Goto
  <2>2. /\ ~InSession(t)'
        /\ \A u \in Pools : u # t => InSession(u)' = InSession(u)
    BY <2>1 DEF InSession, TypeOK
  <2>3. QED  BY <2>1, <2>2 DEF Session!Close, TypeOK
<1>7. ASSUME NEW t \in Pools, submitShare(t) PROVE Session!Submit(t)
  <2>1. /\ InSession(t) /\ pending' = [pending EXCEPT ![t] = TRUE]
        /\ UNCHANGED <<pc, job, selected>>
    BY <1>7 DEF submitShare, taskVars
  <2>2. QED  BY <2>1 DEF Session!Submit, TypeOK, InSession
<1>8. ASSUME NEW t \in Pools, TimerStep(t) PROVE UNCHANGED Session!vars
  <2>1. UNCHANGED <<pc, pending, job, selected>>
    BY <1>8 DEF TimerStep, TimerExpires, reconnectTimerCallback, taskVars, managerVars
  <2>2. QED  BY <2>1, MappedStutter DEF InSession
<1>9. ASSUME \/ TimerCommand \/ ManagerStart \/ loadSettings \/ reconnectAll \/ ShutDown
             \/ UNCHANGED vars
      PROVE  UNCHANGED Session!vars
  <2>1. UNCHANGED <<pc, pending, job, selected>>
    BY <1>9 DEF TimerCommand, ManagerStart, loadSettings, reconnectAll, ShutDown, vars,
                taskVars, managerVars
  <2>2. QED  BY <2>1, MappedStutter DEF InSession
<1>10. QED
  BY <1>1, <1>2, <1>3, <1>4, <1>5, <1>6, <1>7, <1>8, <1>9
  DEF Next, Running, TaskStep, Dial, Session!Next

\* Failover implements PoolSession: whatever the tasks, the timers, the settings and late
\* shares do, work and unanswered shares live and die with the session they belong to, and
\* only the selected pool, in session, gives work.
THEOREM SessionsAreImplemented == Spec => ImplementsPoolSession
<1>1. Init => Session!Init /\ AnswersInSession
  BY DEF Init, InSession, Session!Init, AnswersInSession
<1>2. Spec => []AnswersInSession
  BY <1>1, TypeCorrect, AnswersStep, PTL DEF Spec
<1>3. QED
  BY <1>1, <1>2, TypeCorrect, SessionsInvariant, RefinementStep, PTL
  DEF Spec, ImplementsPoolSession, Session!Spec
=============================================================================
