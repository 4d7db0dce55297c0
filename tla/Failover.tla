------------------------------ MODULE Failover ------------------------------
(***************************************************************************)
(* Primary/fallback operation of the stratum layer: the two stratum tasks  *)
(* (StratumTaskBase::task and StratumTaskV1::protocolLoop), the callbacks  *)
(* of StratumManagerFallback they and the FreeRTOS timer daemon run under  *)
(* m_mutex, and the web handler that replaces the configuration.           *)
(*                                                                         *)
(* A critical section of m_mutex is one step.  The flags of a task that    *)
(* other threads read or write without the mutex (m_stopFlag, m_reconnect, *)
(* m_isConnected) change in steps of their own, so every interleaving the  *)
(* two cores can produce around them is a behaviour.                       *)
(***************************************************************************)
EXTENDS Integers, Sequences, SequencesExt

CONSTANTS
    Configs,       \* pool configurations that name a host
    NoHost,        \* the configuration with an empty host
    TimerQueueLen, \* length of the FreeRTOS timer command queue
    Events         \* what may happen around the tasks: see AllEvents

\* settings are saved, the network interface changes, shares are found
AllEvents == {"settings", "network", "shares"}

ASSUME FailoverAssumption ==
    /\ Events \subseteq AllEvents
    /\ NoHost \notin Configs
    /\ TimerQueueLen \in Nat
    /\ TimerQueueLen >= 2

PRIMARY == "primary"
SECONDARY == "secondary"
Pools == {PRIMARY, SECONDARY}
Idle == "idle"                       \* the timer daemon runs no callback
AnyConfig == Configs \cup {NoHost}

VARIABLES
    \* per stratum task
    pc,            \* where the task is in task() / protocolLoop()
    stopFlag,      \* m_stopFlag
    isConnected,   \* m_isConnected
    reconnect,     \* m_reconnect
    taskCfg,       \* m_config, the task's private copy
    \* the manager
    managerUp,     \* StratumManager::task has called connect(PRIMARY)
    config,        \* m_stratumConfig
    selected,      \* m_selected
    blocked,       \* m_verifyBlockedReason[pool] != nullptr
    job,           \* miningInfo[pool]: no work, work of this session, of an older one
    pending,       \* a share submitted in this session waits for the pool's answer
    \* FreeRTOS timer service
    timerActive,   \* the ucStatus bit xTimerIsTimerActive reads
    timerCmds,     \* commands the daemon has not processed yet
    timerFiring,   \* the pool whose callback the daemon is running
    shutdown       \* POWER_MANAGEMENT_MODULE.isShutdown()

taskVars == <<pc, stopFlag, isConnected, reconnect, taskCfg>>
managerVars == <<managerUp, config, selected, blocked, job, pending>>
timerVars == <<timerActive, timerCmds, timerFiring>>
vars == <<taskVars, managerVars, timerVars, shutdown>>

Locations == {"start", "load", "gate", "dial", "recv", "connected", "mark", "check",
              "dispatch", "disconnected", "unmark", "suspended"}

\* the task holds an open transport
InSession(t) == pc[t] \in {"recv", "connected", "mark", "check", "dispatch", "disconnected"}

TimerCommands == [cmd : {"START", "STOP"}, pool : Pools]

TypeOK ==
    /\ pc \in [Pools -> Locations]
    /\ stopFlag \in [Pools -> BOOLEAN]
    /\ isConnected \in [Pools -> BOOLEAN]
    /\ reconnect \in [Pools -> BOOLEAN]
    /\ taskCfg \in [Pools -> AnyConfig]
    /\ managerUp \in BOOLEAN
    /\ config \in [Pools -> AnyConfig]
    /\ selected \in Pools
    /\ blocked \in [Pools -> BOOLEAN]
    /\ job \in [Pools -> {"none", "live", "dead"}]
    /\ pending \in [Pools -> BOOLEAN]
    /\ timerActive \in [Pools -> BOOLEAN]
    /\ timerCmds \in Seq(TimerCommands)
    /\ Len(timerCmds) <= TimerQueueLen
    /\ timerFiring \in Pools \cup {Idle}
    /\ shutdown \in BOOLEAN

Init ==
    /\ pc = [t \in Pools |-> "start"]
    /\ stopFlag = [t \in Pools |-> TRUE]
    /\ isConnected = [t \in Pools |-> FALSE]
    /\ reconnect = [t \in Pools |-> FALSE]
    /\ config \in [Pools -> AnyConfig]
    /\ taskCfg = config
    /\ managerUp = FALSE
    /\ selected = PRIMARY
    /\ blocked = [t \in Pools |-> FALSE]
    /\ job = [t \in Pools |-> "none"]
    /\ pending = [t \in Pools |-> FALSE]
    /\ timerActive = [t \in Pools |-> FALSE]
    /\ timerCmds = <<>>
    /\ timerFiring = Idle
    /\ shutdown = FALSE

Goto(t, l) == pc' = [pc EXCEPT ![t] = l]

-----------------------------------------------------------------------------
(***************************************************************************)
(* FreeRTOS software timers.  xTimerStart and xTimerStop only queue a      *)
(* command (and drop it when the queue is full: both are called with no    *)
(* wait); the daemon applies it later.  xTimerIsTimerActive reads the      *)
(* state the daemon has reached, not the state the queue leads to.         *)
(***************************************************************************)
\* Mutant: the queue takes one command more than it has room for.
PostOffByOne(c, t) ==
    timerCmds' = IF Len(timerCmds) <= TimerQueueLen
                 THEN Append(timerCmds, [cmd |-> c, pool |-> t]) ELSE timerCmds

Post(c, t) ==
    timerCmds' = IF Len(timerCmds) < TimerQueueLen
                 THEN Append(timerCmds, [cmd |-> c, pool |-> t]) ELSE timerCmds

startReconnectTimer(t) ==
    IF timerActive[t] THEN UNCHANGED timerCmds ELSE Post("START", t)

\* Mutant: the task contexts are swapped.
stopOtherReconnectTimer(t) == Post("STOP", IF t = PRIMARY THEN SECONDARY ELSE PRIMARY)

stopReconnectTimer(t) == Post("STOP", t)

TimerCommand ==
    /\ timerFiring = Idle
    /\ timerCmds # <<>>
    /\ timerActive' = [timerActive EXCEPT ![Head(timerCmds).pool] = Head(timerCmds).cmd = "START"]
    /\ timerCmds' = Tail(timerCmds)
    /\ UNCHANGED <<taskVars, managerVars, timerFiring, shutdown>>

\* The auto-reload timer of t expires; its callback still has to take m_mutex.  The period
\* is 30 s: it does not expire before the manager task has run its next statement.
TimerExpires(t) ==
    /\ managerUp
    /\ timerFiring = Idle
    /\ timerActive[t]
    /\ timerFiring' = t
    /\ UNCHANGED <<taskVars, managerVars, timerActive, timerCmds, shutdown>>

\* Mutant: a primary that is merely down does not free the fallback.
PrimaryIsBlocked == blocked[PRIMARY]

\* The primary is down, or blocked by the coinbase verification: the fallback may run.
PrimaryUnusable == ~isConnected[PRIMARY] \/ blocked[PRIMARY]

\* Mutant: the callback treats the pools alike; a connected fallback keeps the primary down.
symmetricTimerCallback(t) ==
    /\ timerFiring = t
    /\ timerFiring' = Idle
    /\ stopFlag' = IF blocked[t] THEN stopFlag
                   ELSE [stopFlag EXCEPT ![t] = IF t = SECONDARY THEN ~PrimaryUnusable
                                                ELSE isConnected[SECONDARY]]
    /\ UNCHANGED <<pc, isConnected, reconnect, taskCfg, managerVars, timerActive, timerCmds,
                   shutdown>>

reconnectTimerCallback(t) ==
    /\ timerFiring = t
    /\ timerFiring' = Idle
    /\ stopFlag' = IF blocked[t] THEN stopFlag
                   ELSE [stopFlag EXCEPT ![t] = (t = SECONDARY /\ ~PrimaryUnusable)]
    /\ UNCHANGED <<pc, isConnected, reconnect, taskCfg, managerVars, timerActive, timerCmds,
                   shutdown>>

-----------------------------------------------------------------------------
(***************************************************************************)
(* The task loop outside a session.                                        *)
(***************************************************************************)
TaskStart(t) ==
    /\ pc[t] = "start"
    /\ startReconnectTimer(t)
    /\ Goto(t, "load")
    /\ UNCHANGED <<stopFlag, isConnected, reconnect, taskCfg, managerVars, timerActive,
                   timerFiring, shutdown>>

\* Top of the loop: stop for good on shutdown, otherwise copy the configuration
\* under m_mutex.
LoadConfig(t) ==
    /\ pc[t] = "load"
    /\ IF shutdown
       THEN Goto(t, "suspended") /\ UNCHANGED taskCfg
       ELSE Goto(t, "gate") /\ taskCfg' = [taskCfg EXCEPT ![t] = config[t]]
    /\ UNCHANGED <<stopFlag, isConnected, reconnect, managerVars, timerVars, shutdown>>

\* Clear m_reconnect, then wait another round unless a host is configured and
\* nobody asked the task to stay down.
Gate(t) ==
    /\ pc[t] = "gate"
    /\ reconnect' = [reconnect EXCEPT ![t] = FALSE]
    /\ Goto(t, IF taskCfg[t] = NoHost \/ stopFlag[t] THEN "load" ELSE "dial")
    /\ UNCHANGED <<stopFlag, isConnected, taskCfg, managerVars, timerVars, shutdown>>

\* No interface has an address, the name does not resolve, or connect fails.
DialFails(t) ==
    /\ pc[t] = "dial"
    /\ Goto(t, "load")
    /\ UNCHANGED <<stopFlag, isConnected, reconnect, taskCfg, managerVars, timerVars, shutdown>>

\* The transport is up and a new session begins; work left over from an earlier
\* one would now be work of a dead session.
NewSession(t) == job' = [job EXCEPT ![t] = IF @ = "none" THEN "none" ELSE "dead"]

DialOk(t) ==
    /\ pc[t] = "dial"
    /\ NewSession(t)
    /\ Goto(t, "recv")
    /\ UNCHANGED <<stopFlag, isConnected, reconnect, taskCfg, managerUp, config, selected,
                   blocked, pending, timerVars, shutdown>>

\* The transport is up but a setup request (subscribe ... authorize) cannot be sent.
SetupFails(t) ==
    /\ pc[t] = "dial"
    /\ NewSession(t)
    /\ Goto(t, "disconnected")
    /\ UNCHANGED <<stopFlag, isConnected, reconnect, taskCfg, managerUp, config, selected,
                   blocked, pending, timerVars, shutdown>>
-----------------------------------------------------------------------------
(***************************************************************************)
(* A session.  The receive call blocks as long as the pool keeps the       *)
(* connection open and says nothing; m_reconnect is read after it returns. *)
(***************************************************************************)
\* Mutant: m_reconnect is not looked at.
ReceiveLineAnyway(t) ==
    /\ pc[t] = "recv"
    /\ Goto(t, IF isConnected[t] THEN "check" ELSE "connected")
    /\ UNCHANGED <<stopFlag, isConnected, reconnect, taskCfg, managerVars, timerVars, shutdown>>

ReceiveLine(t) ==
    /\ pc[t] = "recv"
    /\ ~reconnect[t]
    /\ Goto(t, IF isConnected[t] THEN "check" ELSE "connected")
    /\ UNCHANGED <<stopFlag, isConnected, reconnect, taskCfg, managerVars, timerVars, shutdown>>

\* End of file, a dead socket, invalid JSON, or a requested reconnect.
ReceiveFails(t) ==
    /\ pc[t] = "recv"
    /\ Goto(t, "disconnected")
    /\ UNCHANGED <<stopFlag, isConnected, reconnect, taskCfg, managerVars, timerVars, shutdown>>

connectedCallback(t) ==
    /\ pc[t] = "connected"
    /\ Goto(t, "mark")
    /\ \/ /\ blocked[t]
          /\ stopFlag' = [stopFlag EXCEPT ![t] = TRUE]
          /\ UNCHANGED <<selected, timerCmds>>
       \/ /\ ~blocked[t]
          /\ t = PRIMARY
          /\ selected' = PRIMARY
          /\ stopFlag' = [stopFlag EXCEPT ![SECONDARY] = TRUE]
          /\ stopReconnectTimer(SECONDARY)
       \/ /\ ~blocked[t]
          /\ t = SECONDARY
          /\ PrimaryUnusable
          /\ selected' = SECONDARY
          /\ UNCHANGED <<stopFlag, timerCmds>>
       \/ /\ ~blocked[t]
          /\ t = SECONDARY
          /\ ~PrimaryUnusable
          /\ stopFlag' = [stopFlag EXCEPT ![SECONDARY] = TRUE]
          /\ stopReconnectTimer(SECONDARY)
          /\ UNCHANGED selected
    /\ UNCHANGED <<isConnected, reconnect, taskCfg, managerUp, config, blocked, job, pending,
                   timerActive, timerFiring, shutdown>>

MarkConnected(t) ==
    /\ pc[t] = "mark"
    /\ isConnected' = [isConnected EXCEPT ![t] = TRUE]
    /\ Goto(t, "check")
    /\ UNCHANGED <<stopFlag, reconnect, taskCfg, managerVars, timerVars, shutdown>>

\* Mutant: the session loop looks at m_stopFlag only.
CheckStopFlagOnly(t) ==
    /\ pc[t] = "check"
    /\ Goto(t, IF stopFlag[t] THEN "disconnected" ELSE "dispatch")
    /\ UNCHANGED <<stopFlag, isConnected, reconnect, taskCfg, managerVars, timerVars, shutdown>>

CheckStop(t) ==
    /\ pc[t] = "check"
    /\ Goto(t, IF stopFlag[t] \/ shutdown THEN "disconnected" ELSE "dispatch")
    /\ UNCHANGED <<stopFlag, isConnected, reconnect, taskCfg, managerVars, timerVars, shutdown>>

acceptsNotifyFrom(t) == t = selected

(***************************************************************************)
(* What runVerification does to the pool of a notify.  The verdict is      *)
(* "skip" when force mode is off or no coinbase was decoded.               *)
(***************************************************************************)
runVerification(t, verdict) ==
    LET blocks == verdict = "bad" /\ ~blocked[t]
    IN  /\ blocked' = [blocked EXCEPT ![t] = (@ /\ verdict # "ok") \/ blocks]
        /\ reconnect' = [reconnect EXCEPT ![t] = @ \/ blocks]

DispatchNotify(t) ==
    /\ pc[t] = "dispatch"
    /\ acceptsNotifyFrom(t)
    /\ \E verdict \in {"skip", "ok", "bad"} : runVerification(t, verdict)
    /\ job' = [job EXCEPT ![t] = "live"]
    /\ Goto(t, "recv")
    /\ UNCHANGED <<stopFlag, isConnected, taskCfg, managerUp, config, selected, pending,
                   timerVars, shutdown>>

DispatchResult(t) ==
    /\ pc[t] = "dispatch"
    /\ pending[t]
    /\ acceptsNotifyFrom(t)
    /\ pending' = [pending EXCEPT ![t] = FALSE]
    /\ Goto(t, "recv")
    /\ UNCHANGED <<stopFlag, isConnected, reconnect, taskCfg, managerUp, config, selected,
                   blocked, job, timerVars, shutdown>>

\* A message that changes nothing here, and every message of a pool that is not selected.
DispatchOther(t) ==
    /\ pc[t] = "dispatch"
    /\ Goto(t, "recv")
    /\ UNCHANGED <<stopFlag, isConnected, reconnect, taskCfg, managerVars, timerVars, shutdown>>

\* Mutant: the pool's work is left valid.
disconnectedKeepsJob(t) ==
    /\ pc[t] = "disconnected"
    /\ pending' = [pending EXCEPT ![t] = FALSE]
    /\ IF t = PRIMARY THEN startReconnectTimer(SECONDARY) ELSE UNCHANGED timerCmds
    /\ Goto(t, "unmark")
    /\ UNCHANGED <<stopFlag, isConnected, reconnect, taskCfg, managerUp, config, selected,
                   blocked, job, timerActive, timerFiring, shutdown>>

\* The transport is closed, then the manager is told: the pool's work is invalid, and
\* when the primary went down the fallback's timer starts.
disconnectedCallback(t) ==
    /\ pc[t] = "disconnected"
    /\ job' = [job EXCEPT ![t] = "none"]
    /\ pending' = [pending EXCEPT ![t] = FALSE]
    /\ IF t = PRIMARY THEN startReconnectTimer(SECONDARY) ELSE UNCHANGED timerCmds
    /\ Goto(t, "unmark")
    /\ UNCHANGED <<stopFlag, isConnected, reconnect, taskCfg, managerUp, config, selected,
                   blocked, timerActive, timerFiring, shutdown>>

MarkDisconnected(t) ==
    /\ pc[t] = "unmark"
    /\ isConnected' = [isConnected EXCEPT ![t] = FALSE]
    /\ Goto(t, "load")
    /\ UNCHANGED <<stopFlag, reconnect, taskCfg, managerVars, timerVars, shutdown>>
-----------------------------------------------------------------------------
(***************************************************************************)
(* The other threads.                                                      *)
(***************************************************************************)

\* StratumManager::task enables the primary once both tasks exist.
ManagerStart ==
    /\ ~managerUp
    /\ managerUp' = TRUE
    /\ stopFlag' = [stopFlag EXCEPT ![PRIMARY] = FALSE]
    /\ UNCHANGED <<pc, isConnected, reconnect, taskCfg, config, selected, blocked, job, pending,
                   timerVars, shutdown>>

\* loadSettings: every pool whose configuration changed is unblocked and reconnects.
loadSettings ==
    /\ "settings" \in Events
    /\ \E new \in [Pools -> AnyConfig] :
        LET changed == {t \in Pools : new[t] # config[t]}
        IN  /\ changed # {}
            /\ config' = new
            /\ reconnect' = [t \in Pools |-> reconnect[t] \/ t \in changed]
            /\ blocked' = [t \in Pools |-> blocked[t] /\ t \notin changed]
            /\ UNCHANGED <<pc, stopFlag, isConnected, taskCfg, managerUp, selected, job,
                           pending, timerVars, shutdown>>

\* The preferred network interface changed.
reconnectAll ==
    /\ "network" \in Events
    /\ reconnect' = [t \in Pools |-> TRUE]
    /\ UNCHANGED <<pc, stopFlag, isConnected, taskCfg, managerVars, timerVars, shutdown>>

\* The ASIC result task, or the CAN master task, submits a share of pool t.  It may be of an
\* earlier session, whatever work there is now: the result task works on a clone of the job,
\* and the tables of the slaves' jobs are never cleaned.  Without an open transport the share
\* is lost.  (That there was a job at all is not looked at.)
submitShare(t) ==
    /\ "shares" \in Events
    /\ isConnected[t]
    /\ InSession(t)
    /\ pending' = [pending EXCEPT ![t] = TRUE]
    /\ UNCHANGED <<taskVars, managerUp, config, selected, blocked, job, timerVars, shutdown>>

ShutDown ==
    /\ ~shutdown
    /\ shutdown' = TRUE
    /\ UNCHANGED <<taskVars, managerVars, timerVars>>

-----------------------------------------------------------------------------
\* the steps of a task that wait for nobody
TaskStep(t) ==
    \/ TaskStart(t) \/ LoadConfig(t) \/ Gate(t)
    \/ connectedCallback(t) \/ MarkConnected(t) \/ CheckStop(t)
    \/ DispatchNotify(t) \/ DispatchResult(t) \/ DispatchOther(t)
    \/ disconnectedCallback(t) \/ MarkDisconnected(t)

\* the steps of a task that wait for the network
Dial(t) == DialFails(t) \/ DialOk(t) \/ SetupFails(t)
Receive(t) == ReceiveLine(t) \/ ReceiveFails(t)

TimerStep(t) == TimerExpires(t) \/ reconnectTimerCallback(t)

Running ==
    \/ \E t \in Pools : TaskStep(t) \/ Dial(t) \/ Receive(t) \/ TimerStep(t) \/ submitShare(t)
    \/ TimerCommand
    \/ ManagerStart
    \/ loadSettings
    \/ reconnectAll

Next == Running \/ ShutDown

Spec == Init /\ [][Next]_vars

(***************************************************************************)
(* Fairness the code and its environment justify: FreeRTOS schedules every *)
(* ready task and the timer daemon, a timer that nobody stops expires      *)
(* (whatever the other timer does), a blocking connect returns (it has a   *)
(* timeout), and a pool that accepted the connection eventually sends a    *)
(* line or drops it.                                                       *)
(***************************************************************************)
DaemonCatchesUp == []<>(timerCmds = <<>>) \/ []<><<TimerCommand>>_vars
ActiveTimerExpires(t) == []<>~timerActive[t] \/ []<><<TimerExpires(t)>>_vars

Fairness ==
    /\ WF_vars(ManagerStart)
    /\ DaemonCatchesUp
    /\ \A t \in Pools : /\ WF_vars(TaskStep(t))
                        /\ WF_vars(Dial(t))
                        /\ WF_vars(Receive(t))
                        /\ WF_vars(reconnectTimerCallback(t))
                        /\ ActiveTimerExpires(t)

\* A pool that is up: from some time on it accepts every connection, and it does not drop all
\* of them without a word.
PoolUp(t) == <>[][~DialFails(t) /\ ~SetupFails(t)]_vars /\ SF_vars(ReceiveLine(t))

-----------------------------------------------------------------------------
(***************************************************************************)
(* The timer of t will run once the daemon has caught up with its queue:   *)
(* it runs or is about to be started, and no queued stop comes last.       *)
(***************************************************************************)
Queued(i, c, t) == timerCmds[i] = [cmd |-> c, pool |-> t]

TimerArmed(t) ==
    /\ timerActive[t] \/ \E i \in DOMAIN timerCmds : Queued(i, "START", t)
    /\ \A i \in DOMAIN timerCmds :
          Queued(i, "STOP", t) => \E j \in DOMAIN timerCmds : j > i /\ Queued(j, "START", t)

-----------------------------------------------------------------------------
(***************************************************************************)
(* Safety.                                                                 *)
(***************************************************************************)

\* From the moment its task runs, the reconnect timer of the primary stays armed: the
\* callbacks stop the fallback's timer only.  A primary that was told to stay down
\* (m_stopFlag, after a verification block) is therefore always offered another try.
PrimaryTimerStaysArmed == pc[PRIMARY] # "start" => TimerArmed(PRIMARY)

\* No mining job outlives the session it came from: whenever miningInfo[pool] holds valid
\* work, the task of that pool is in the very session that delivered it, so no later
\* session of the pool has jobs built that it never sent (disconnectedCallback runs
\* create_job_invalidate before the task can dial again).
JobsBelongToLiveSession == \A t \in Pools : job[t] # "none" => job[t] = "live" /\ InSession(t)

-----------------------------------------------------------------------------
(***************************************************************************)
(* The abstract specification.                                             *)
(***************************************************************************)
Session == INSTANCE PoolSession WITH
    First <- PRIMARY,
    session <- {t \in Pools : InSession(t)},
    work <- {t \in Pools : job[t] # "none"},
    waiting <- {t \in Pools : pending[t]},
    chosen <- selected

\* The tasks, timers and callbacks together keep the promises of PoolSession, with shares of
\* earlier sessions submitted at any time: a dial never finds work or unanswered shares,
\* disconnectedCallback ends session, work and shares in one step, and dispatch takes work
\* from a selected pool in session only.
ImplementsPoolSession == Session!Spec

-----------------------------------------------------------------------------
(***************************************************************************)
(* Liveness.                                                               *)
(***************************************************************************)

\* After the power manager's shutdown both stratum tasks end up suspended with their
\* connections closed; none is left waiting for its timer or for the other pool.
ShutdownParksTasks ==
    []<>(shutdown => \A t \in Pools : pc[t] = "suspended" /\ ~isConnected[t])

\* Nothing keeps the primary down for good: it has a host, verification has not blocked it
\* and the device runs.
PrimaryAvailable == <>[](~shutdown /\ ~blocked[PRIMARY] /\ taskCfg[PRIMARY] # NoHost)

-----------------------------------------------------------------------------
(***************************************************************************)
(* What comments in the code say and the code does not keep.               *)
(***************************************************************************)

\* "Primary went down -> allow secondary to try": once the primary's session is over, the
\* fallback is free to connect or its timer is going to free it.
SecondaryMayTry ==
    ~isConnected[PRIMARY] /\ pc[PRIMARY] \in {"load", "gate", "dial"} /\ pc[SECONDARY] # "start"
    => ~stopFlag[SECONDARY] \/ TimerArmed(SECONDARY)

\* "no work will be submitted to a blocked pool."
NoSubmitToBlockedPool ==
    [][\A t \in Pools : pending'[t] /\ ~pending[t] => ~blocked[t]]_vars
=============================================================================
