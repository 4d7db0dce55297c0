------------------------------ MODULE LockOrder ------------------------------
(***************************************************************************)
(* The mutexes the tasks of the device share, and the order in which every *)
(* function takes them.  A path is what a function holds, one set of       *)
(* mutexes after the other; what it computes in between is left out.  A    *)
(* task follows one path after the other and waits when the next set on    *)
(* its path has a mutex that another task holds.                           *)
(*                                                                         *)
(* A ping task stands for its own PingTask::m_mutex as well.  The mutexes   *)
(* of CAN, display, history, OTP, power management, Influx and update are  *)
(* never held together with one of these, and are left out.                *)
(***************************************************************************)
EXTENDS Integers, Sequences

CONSTANTS
    StratumTasks,     \* of both protocols
    ping0, ping1,     \* the ping tasks of the two pools
    TimerDaemon, JobBuilder, ResultTask, WebServer, NetworkTask

PingTasks == {ping0, ping1}
Tasks == StratumTasks \cup PingTasks
         \cup {TimerDaemon, JobBuilder, ResultTask, WebServer, NetworkTask}

manager == "StratumManager::m_mutex"
jobInfo == "current_stratum_job_mutex"
table == "AsicJobs::m_validJobsLock"
signal == "job_mutex"

ASSUME TasksAreDistinct ==
    /\ ping0 # ping1
    /\ PingTasks \cap {manager, jobInfo, table, signal} = {}
    /\ PingTasks \cap (StratumTasks \cup {TimerDaemon, JobBuilder, ResultTask, NetworkTask}) = {}
    /\ WebServer \notin PingTasks \cup StratumTasks
    /\ WebServer \notin {TimerDaemon, JobBuilder, ResultTask, NetworkTask}
    /\ StratumTasks \cap {TimerDaemon, JobBuilder, ResultTask, NetworkTask} = {}
    /\ TimerDaemon \notin {JobBuilder, ResultTask, NetworkTask}
    /\ JobBuilder \notin {ResultTask, NetworkTask} /\ ResultTask # NetworkTask

VARIABLES
    path,     \* the path a task is on, <<>> between two paths
    pos       \* how far it has come

lockVars == <<path, pos>>

-----------------------------------------------------------------------------
(***************************************************************************)
(* The paths.                                                              *)
(***************************************************************************)

connectedCallback == <<{manager}>>

\* create_job_invalidate and cleanJobs, called under the manager's mutex
disconnectedCallback ==
    <<{manager}, {manager, jobInfo}, {manager, jobInfo, table}, {manager, jobInfo}, {manager}>>

\* a message that sets something in MiningInfo; every other message stays with the manager
dispatchSet == <<{manager}, {manager, jobInfo}, {manager}>>

\* mining.notify, which may clean the table and wakes create_jobs_task in the end
dispatchNotify ==
    {<<{manager}, {manager, jobInfo}, {manager}, {manager, signal}, {manager}>>,
     <<{manager}, {manager, jobInfo}, {manager, jobInfo, table}, {manager, jobInfo}, {manager},
       {manager, signal}, {manager}>>}

\* Stratum V2 does not enter the manager and wakes create_jobs_task under the job mutex.
create_job_sv2 ==
    {<<{jobInfo}>>,
     <<{jobInfo}, {jobInfo, signal}, {jobInfo}>>,
     <<{jobInfo}, {jobInfo, table}, {jobInfo}, {jobInfo, signal}, {jobInfo}>>}

StratumPaths ==
    {connectedCallback, disconnectedCallback, dispatchSet} \cup dispatchNotify \cup create_job_sv2

\* reconnectTimerCallback and create_job_timer
TimerPaths == {<<{manager}>>, <<{signal}>>}

\* Mutant: the pool is selected inside the scope of the job mutex.
selectPoolUnderJobMutex ==
    {<<{signal}, {}, {signal}, {}, {jobInfo}, {jobInfo, manager}, {jobInfo}, {}, {table}>>}

\* One turn of the loop: wait (which gives the mutex up and takes it again), select the
\* pool, build, store; then build and store for a slave.
create_jobs_task ==
    {<<{signal}, {}, {signal}, {}, {manager}, {}, {jobInfo}, {}, {table}, {}, {jobInfo}>>}

\* getClone, then checkForBestDiff
ASIC_result_task == {<<{table}, {}, {manager}>>}

\* loadSettings holds the manager's mutex while it resets the statistics of the ping
\* tasks of the pools that changed; the other handlers only take that mutex.
loadSettings ==
    {<<{manager}>>}
    \cup {<<{manager}, {manager, p}, {manager}>> : p \in PingTasks}
    \cup {<<{manager}, {manager, ping0}, {manager}, {manager, ping1}, {manager}>>}

reconnectAll == {<<{ping0}, {}, {ping1}>>}

\* One turn: the pool is not connected, or its settings are copied and it is pinged.
\* The mutex is held for as long as that takes.
ping_task(p) == {<<{p}>>, <<{p}, {p, manager}, {p}>>}

Paths(t) ==
    CASE t \in StratumTasks -> StratumPaths
      [] t \in PingTasks    -> ping_task(t)
      [] t = TimerDaemon    -> TimerPaths
      [] t = JobBuilder     -> create_jobs_task
      [] t = ResultTask     -> ASIC_result_task
      [] t = WebServer      -> loadSettings
      [] t = NetworkTask    -> reconnectAll

-----------------------------------------------------------------------------
Held(t) == IF pos[t] = 0 THEN {} ELSE path[t][pos[t]]

\* the mutexes a task that is on a path needs for its next step
Wanted(t) == IF pos[t] < Len(path[t]) THEN path[t][pos[t] + 1] \ Held(t) ELSE {}

LockInit ==
    /\ path = [t \in Tasks |-> <<>>]
    /\ pos = [t \in Tasks |-> 0]

IsFree(m) == \A t \in Tasks : m \notin Held(t)

\* A task that holds nothing takes its next path.
Enter(t) ==
    /\ path[t] = <<>>
    /\ \E new \in Paths(t) :
          /\ \A m \in new[1] : IsFree(m)
          /\ path' = [path EXCEPT ![t] = new]
    /\ pos' = [pos EXCEPT ![t] = 1]

Proceed(t) ==
    /\ pos[t] < Len(path[t])
    /\ \A m \in Wanted(t) : IsFree(m)
    /\ pos' = [pos EXCEPT ![t] = @ + 1]
    /\ UNCHANGED path

Leave(t) ==
    /\ path[t] # <<>>
    /\ pos[t] = Len(path[t])
    /\ path' = [path EXCEPT ![t] = <<>>]
    /\ pos' = [pos EXCEPT ![t] = 0]

LockNext == \E t \in Tasks : Enter(t) \/ Proceed(t) \/ Leave(t)

LockSpec == LockInit /\ [][LockNext]_lockVars

-----------------------------------------------------------------------------
(***************************************************************************)
(* Properties.                                                             *)
(***************************************************************************)

Waiting == {t \in Tasks : Wanted(t) # {}}

\* everyone in S waits for someone in S
Deadlocked(S) ==
    /\ S # {}
    /\ \A t \in S : \E m \in Wanted(t) : \E u \in S : u # t /\ m \in Held(u)

\* However the tasks of the device interleave, a deadlock has the web server in it, which
\* holds the manager's mutex in loadSettings, and a ping task, which holds its own: all the
\* rest of the firmware takes its mutexes in one order.
DeadlockNeedsSettingsAndPing ==
    \A S \in SUBSET Waiting : Deadlocked(S) => WebServer \in S /\ S \cap PingTasks # {}

\* "re-entering PThreadGuard on the same non-recursive mutex would deadlock", says
\* loadSettings of what it leaves out; what it does leave in does not deadlock.
LoadSettingsDoesNotDeadlock ==
    \A S \in SUBSET Waiting : WebServer \in S => ~Deadlocked(S)
=============================================================================
