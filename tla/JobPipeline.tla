----------------------------- MODULE JobPipeline -----------------------------
(***************************************************************************)
(* From mining.notify to the ASIC and to the CAN slaves: the per-pool      *)
(* MiningInfoV1 that the stratum tasks fill under                          *)
(* current_stratum_job_mutex, create_jobs_task, which builds one job per   *)
(* wake-up, and the AsicJobs tables in which the result tasks look up the  *)
(* job a nonce belongs to.                                                 *)
(*                                                                         *)
(* create_jobs_task releases the mutex between building a job, sending it  *)
(* to the ASIC and storing it, so a notify or a disconnect can come in     *)
(* between.  Jobs are named by the notify they were built from; notifies   *)
(* are numbered in the order they are dispatched.                          *)
(***************************************************************************)
EXTENDS Integers

CONSTANTS
    Pools,        \* the stratum sessions, PRIMARY and SECONDARY
    NumSlots,     \* job ids in use: 16 on every supported ASIC
    HasSlave,     \* a CAN slave is registered and may be active
    Enonces,      \* extranonce prefixes a pool can assign
    Diffs,        \* share difficulties a pool can set
    NoEnonce,     \* extranonce_str == nullptr
    NoJob,        \* an empty slot, no job under construction
    MaxNotify,    \* bound on the number of notifies
    MaxSession    \* bound on the number of sessions of a pool

ASSUME JobPipelineAssumption ==
    /\ NumSlots \in Nat /\ NumSlots >= 1
    /\ HasSlave \in BOOLEAN
    /\ MaxNotify \in Nat /\ MaxSession \in Nat
    /\ NoEnonce \notin Enonces

Slots == 0 .. NumSlots - 1
Unset == 0                 \* no difficulty was announced in this session
ASSUME DiffsArePositive == Diffs \subseteq Nat \ {Unset}

VARIABLES
    \* per pool: the session and its miningInfo
    stage,         \* "closed", "opened" (setup requests sent), "subscribed"
    sessions,      \* number of sessions opened so far
    firstJob,      \* m_firstJob
    notify,        \* the notify in current_job, 0 when ntime = 0 (invalid)
    enonce,        \* extranonce_str
    nextEnonce,    \* next_extranonce_str
    difficulty,    \* stratum_difficulty
    activeDiff,    \* active_stratum_difficulty
    \* create_jobs_task
    bpc,           \* where the task is in its loop
    activePool,    \* active_pool
    slot,          \* asic_job_id of the job to send next: extranonce_2 modulo the ring
    nextJob,       \* next_job
    slaveJob,      \* slave_job
    \* the tables, and the job the ASIC last received for every id
    asicJobs, slaveAsicJobs, asic,
    \* history: what the pool said, and what it has abandoned
    lastNotify,    \* number of notifies dispatched
    poolSays,      \* extranonce and difficulty the pool assigned last, in this session
    terms,         \* the same, when it sent its n-th notify
    floor,         \* oldest notify whose work the pool still accepts
    sessionFirst   \* number of the first notify of the session

infoVars == <<notify, enonce, nextEnonce, difficulty, activeDiff>>
sessionVars == <<stage, sessions, firstJob>>
builderVars == <<bpc, activePool, slot, nextJob, slaveJob>>
tableVars == <<asicJobs, slaveAsicJobs, asic>>
history == <<lastNotify, poolSays, terms, floor, sessionFirst>>
vars == <<infoVars, sessionVars, builderVars, tableVars, history>>

Assigned == [enonce : Enonces \cup {NoEnonce}, diff : Diffs \cup {Unset}]
Jobs == [pool : Pools, notify : 1 .. MaxNotify, enonce : Enonces \cup {NoEnonce}, diff : Diffs]
JobOrNone == Jobs \cup {NoJob}
ASSUME NoJobIsNoJob == NoJob \notin Jobs
Table == [Slots -> JobOrNone]

TypeOK ==
    /\ stage \in [Pools -> {"closed", "opened", "subscribed"}]
    /\ sessions \in [Pools -> 0 .. MaxSession]
    /\ firstJob \in [Pools -> BOOLEAN]
    /\ notify \in [Pools -> 0 .. MaxNotify]
    /\ enonce \in [Pools -> Enonces \cup {NoEnonce}]
    /\ nextEnonce \in [Pools -> Enonces \cup {NoEnonce}]
    /\ difficulty \in [Pools -> Diffs]
    /\ activeDiff \in [Pools -> Diffs]
    /\ bpc \in {"wait", "build", "send", "store", "slave", "slavestore"}
    /\ activePool \in Pools
    /\ slot \in Slots
    /\ nextJob \in JobOrNone /\ (bpc \in {"send", "store"} => nextJob # NoJob)
    /\ slaveJob \in JobOrNone /\ (bpc = "slavestore" => slaveJob # NoJob)
    /\ asicJobs \in Table /\ slaveAsicJobs \in Table /\ asic \in Table
    /\ lastNotify \in 0 .. MaxNotify
    /\ poolSays \in [Pools -> Assigned]
    /\ terms \in [1 .. MaxNotify -> Assigned]
    /\ floor \in [Pools -> 1 .. MaxNotify + 1]
    /\ sessionFirst \in [Pools -> 1 .. MaxNotify + 1]

Nothing == [enonce |-> NoEnonce, diff |-> Unset]

Init ==
    /\ stage = [p \in Pools |-> "closed"]
    /\ sessions = [p \in Pools |-> 0]
    /\ firstJob = [p \in Pools |-> FALSE]
    /\ notify = [p \in Pools |-> 0]
    /\ enonce = [p \in Pools |-> NoEnonce]
    /\ nextEnonce = [p \in Pools |-> NoEnonce]
    /\ \E d \in Diffs : difficulty = [p \in Pools |-> d] /\ activeDiff = difficulty
    /\ bpc = "wait"
    /\ activePool \in Pools
    /\ slot = 0
    /\ nextJob = NoJob /\ slaveJob = NoJob
    /\ asicJobs = [s \in Slots |-> NoJob]
    /\ slaveAsicJobs = [s \in Slots |-> NoJob]
    /\ asic = [s \in Slots |-> NoJob]
    /\ lastNotify = 0
    /\ poolSays = [p \in Pools |-> Nothing]
    /\ terms = [n \in 1 .. MaxNotify |-> Nothing]
    /\ floor = [p \in Pools |-> 1]
    /\ sessionFirst = [p \in Pools |-> 1]

-----------------------------------------------------------------------------
(***************************************************************************)
(* The stratum task of a pool.                                             *)
(***************************************************************************)

\* Mutant: the pool of a job is not looked at.
cleanEveryPool(p) == asicJobs' = [s \in Slots |-> NoJob]

\* Mutant: the loop over the table starts at 1.
cleanAllButFirst(p) ==
    asicJobs' = [s \in Slots |->
                    IF s > 0 /\ asicJobs[s] # NoJob /\ asicJobs[s].pool = p THEN NoJob
                    ELSE asicJobs[s]]

\* AsicJobs::cleanJobs: the jobs of pool p leave the table.
cleanJobs(p) ==
    asicJobs' = [s \in Slots |->
                    IF asicJobs[s] # NoJob /\ asicJobs[s].pool = p THEN NoJob ELSE asicJobs[s]]

\* protocolLoop has sent its setup requests.
OpenSession(p) ==
    /\ stage[p] = "closed"
    /\ sessions[p] < MaxSession
    /\ stage' = [stage EXCEPT ![p] = "opened"]
    /\ sessions' = [sessions EXCEPT ![p] = @ + 1]
    /\ firstJob' = [firstJob EXCEPT ![p] = TRUE]
    /\ poolSays' = [poolSays EXCEPT ![p] = Nothing]
    /\ sessionFirst' = [sessionFirst EXCEPT ![p] = lastNotify + 1]
    /\ UNCHANGED <<infoVars, builderVars, tableVars, lastNotify, terms, floor>>

\* The answer to mining.subscribe: the extranonce is in force at once.  A pool sends it
\* once, before its first notify.
create_job_set_enonce(p) ==
    /\ stage[p] = "opened"
    /\ \E e \in Enonces :
          /\ enonce' = [enonce EXCEPT ![p] = e]
          /\ poolSays' = [poolSays EXCEPT ![p].enonce = e]
    /\ stage' = [stage EXCEPT ![p] = "subscribed"]
    /\ UNCHANGED <<notify, nextEnonce, difficulty, activeDiff, sessions, firstJob, builderVars,
                   tableVars, lastNotify, terms, floor, sessionFirst>>

\* Mutant: the new extranonce is in force at once.
set_enonce_at_once(p) ==
    /\ stage[p] = "subscribed"
    /\ \E e \in Enonces :
          /\ enonce' = [enonce EXCEPT ![p] = e]
          /\ poolSays' = [poolSays EXCEPT ![p].enonce = e]
    /\ UNCHANGED <<notify, nextEnonce, difficulty, activeDiff, sessionVars, builderVars, tableVars,
                   lastNotify, terms, floor, sessionFirst>>

\* mining.set_extranonce: in force with the next notify.
set_next_enonce(p) ==
    /\ stage[p] = "subscribed"
    /\ \E e \in Enonces :
          /\ nextEnonce' = [nextEnonce EXCEPT ![p] = e]
          /\ poolSays' = [poolSays EXCEPT ![p].enonce = e]
    /\ UNCHANGED <<notify, enonce, difficulty, activeDiff, sessionVars, builderVars, tableVars,
                   lastNotify, terms, floor, sessionFirst>>

\* mining.set_difficulty: in force with the next notify.
create_job_set_difficulty(p) ==
    /\ stage[p] # "closed"
    /\ \E d \in Diffs :
          /\ difficulty' = [difficulty EXCEPT ![p] = d]
          /\ poolSays' = [poolSays EXCEPT ![p].diff = d]
    /\ UNCHANGED <<notify, enonce, nextEnonce, activeDiff, sessionVars, builderVars, tableVars,
                   lastNotify, terms, floor, sessionFirst>>

\* pthread_cond_signal: it wakes create_jobs_task if that is waiting, and is lost otherwise.
Signalled == bpc' = IF bpc = "wait" THEN "build" ELSE bpc

\* mining.notify, with or without clean_jobs.  The first one of a session always
\* abandons what is left in the table.
create_job_mining_notify(p) ==
    /\ stage[p] = "subscribed"
    /\ lastNotify < MaxNotify
    /\ \E clean \in BOOLEAN :
          LET abandon == clean \/ firstJob[p]
          IN  /\ IF abandon THEN cleanJobs(p) ELSE UNCHANGED asicJobs
              /\ floor' = IF abandon THEN [floor EXCEPT ![p] = lastNotify + 1] ELSE floor
    /\ lastNotify' = lastNotify + 1
    /\ notify' = [notify EXCEPT ![p] = lastNotify + 1]
    /\ enonce' = [enonce EXCEPT ![p] = IF nextEnonce[p] # NoEnonce THEN nextEnonce[p] ELSE @]
    /\ nextEnonce' = [nextEnonce EXCEPT ![p] = NoEnonce]
    /\ activeDiff' = [activeDiff EXCEPT ![p] = difficulty[p]]
    /\ firstJob' = [firstJob EXCEPT ![p] = FALSE]
    /\ terms' = [terms EXCEPT ![lastNotify + 1] = poolSays[p]]
    /\ Signalled
    /\ UNCHANGED <<difficulty, stage, sessions, activePool, slot, nextJob, slaveJob, slaveAsicJobs, asic,
                   poolSays, sessionFirst>>

\* disconnectedCallback: current_job is marked invalid and its strings are freed.
create_job_invalidate(p) ==
    /\ stage[p] # "closed"
    /\ stage' = [stage EXCEPT ![p] = "closed"]
    /\ notify' = [notify EXCEPT ![p] = 0]
    /\ enonce' = [enonce EXCEPT ![p] = NoEnonce]
    /\ nextEnonce' = [nextEnonce EXCEPT ![p] = NoEnonce]
    /\ cleanJobs(p)
    /\ floor' = [floor EXCEPT ![p] = lastNotify + 1]
    /\ UNCHANGED <<difficulty, activeDiff, sessions, firstJob, builderVars, slaveAsicJobs, asic,
                   lastNotify, poolSays, terms, sessionFirst>>

-----------------------------------------------------------------------------
(***************************************************************************)
(* create_jobs_task.                                                       *)
(***************************************************************************)

\* Mutant: a timer that is not periodic.
one_shot_timer ==
    /\ bpc = "wait"
    /\ IF \A s \in Slots : asic[s] = NoJob THEN Signalled ELSE UNCHANGED bpc
    /\ UNCHANGED <<infoVars, sessionVars, activePool, slot, nextJob, slaveJob, tableVars, history>>

\* The job timer fires while the task waits.
create_job_timer ==
    /\ bpc = "wait"
    /\ Signalled
    /\ UNCHANGED <<infoVars, sessionVars, activePool, slot, nextJob, slaveJob, tableVars, history>>

\* isValid: the pool has given work
isValid(p) == notify[p] # 0

buildBmJob(p) == [pool |-> p, notify |-> notify[p], enonce |-> enonce[p], diff |-> activeDiff[p]]

\* Mutant: only new work is sent.
BuildNewWorkOnly ==
    /\ bpc = "build"
    /\ \E p \in Pools :
          /\ activePool' = p
          /\ IF isValid(p) /\ \A s \in Slots : asic[s] # NoJob => asic[s].notify # notify[p]
             THEN nextJob' = buildBmJob(p) /\ bpc' = "send"
             ELSE bpc' = "wait" /\ UNCHANGED nextJob
    /\ UNCHANGED <<infoVars, sessionVars, slot, slaveJob, tableVars, history>>

\* getNextActivePool names a pool; then, under the mutex, a job is built from the current
\* work of that pool, if it has any.
BuildJob ==
    /\ bpc = "build"
    /\ \E p \in Pools :
          /\ activePool' = p
          /\ \/ /\ isValid(p)
                /\ nextJob' = buildBmJob(p)
                /\ bpc' = "send"
             \/ /\ ~isValid(p)
                /\ bpc' = "wait"
                /\ UNCHANGED nextJob
    /\ UNCHANGED <<infoVars, sessionVars, slot, slaveJob, tableVars, history>>

\* The ASIC starts on the job before the table knows it.
sendWork ==
    /\ bpc = "send"
    /\ asic' = [asic EXCEPT ![slot] = nextJob]
    /\ bpc' = "store"
    /\ UNCHANGED <<infoVars, sessionVars, activePool, slot, nextJob, slaveJob, asicJobs,
                   slaveAsicJobs, history>>

storeJob ==
    /\ bpc = "store"
    /\ asicJobs' = [asicJobs EXCEPT ![slot] = nextJob]
    /\ nextJob' = NoJob
    /\ bpc' = "slave"
    /\ UNCHANGED <<infoVars, sessionVars, activePool, slot, slaveJob, slaveAsicJobs, asic,
                   history>>

\* Mutant: the id is not reduced to the ring.
NextRoundUnmasked ==
    /\ bpc' = "wait"
    /\ slot' = slot + 1
    /\ slaveJob' = NoJob

\* the next wake-up uses the next id of the ring
NextRound ==
    /\ bpc' = "wait"
    /\ slot' = (slot + 1) % NumSlots
    /\ slaveJob' = NoJob

\* Under the mutex again: a job for the slave from what is the current work by now, if
\* the slave is active and the work still valid.
BuildSlaveJob ==
    /\ bpc = "slave"
    /\ \/ /\ HasSlave
          /\ isValid(activePool)
          /\ slaveJob' = buildBmJob(activePool)
          /\ bpc' = "slavestore"
          /\ UNCHANGED slot
       \/ NextRound
    /\ UNCHANGED <<infoVars, sessionVars, activePool, nextJob, tableVars, history>>

storeSlaveJob ==
    /\ bpc = "slavestore"
    /\ slaveAsicJobs' = [slaveAsicJobs EXCEPT ![slot] = slaveJob]
    /\ NextRound
    /\ UNCHANGED <<infoVars, sessionVars, activePool, nextJob, asicJobs, asic, history>>

-----------------------------------------------------------------------------
StratumStep(p) ==
    \/ OpenSession(p) \/ create_job_set_enonce(p) \/ set_next_enonce(p)
    \/ create_job_set_difficulty(p) \/ create_job_mining_notify(p) \/ create_job_invalidate(p)

BuilderStep ==
    \/ create_job_timer \/ BuildJob \/ sendWork \/ storeJob \/ BuildSlaveJob \/ storeSlaveJob

Next == BuilderStep \/ \E p \in Pools : StratumStep(p)

Spec == Init /\ [][Next]_vars

\* The job timer is periodic, and create_jobs_task waits for nothing but its signal.
FairSpec == Spec /\ WF_vars(BuilderStep)

-----------------------------------------------------------------------------
(***************************************************************************)
(* Properties.                                                             *)
(***************************************************************************)

\* create_jobs_task has handed the job of id s to the ASIC and not yet stored it
Storing(s) == bpc = "store" /\ slot = s

\* the pool has abandoned the work of the job
Abandoned(j) == j.notify < floor[j.pool]

\* What a result task finds under an id is the job the ASIC was last given under it, and
\* a job whose work is still wanted is found: a nonce is lost, or tested against the wrong
\* job, only in the gap between sendWork and storeJob, or when its id has been reused.
TableFollowsAsic ==
    \A s \in Slots : ~Storing(s) =>
        /\ asicJobs[s] # NoJob => asicJobs[s] = asic[s]
        /\ asic[s] # NoJob /\ asicJobs[s] = NoJob => Abandoned(asic[s])

\* Of the work a pool has abandoned (clean_jobs, the first notify of a session, the end
\* of the session) at most one job of the pool is in the table: the one that
\* create_jobs_task was sending when the table was cleaned.
AtMostOneAbandonedJob ==
    \A s, r \in Slots :
        /\ asicJobs[s] # NoJob /\ Abandoned(asicJobs[s])
        /\ asicJobs[r] # NoJob /\ Abandoned(asicJobs[r])
        /\ asicJobs[s].pool = asicJobs[r].pool
        => s = r

\* Every job, wherever it is, carries the extranonce the pool had assigned, and the
\* difficulty it had announced in that session, when it sent the job's notify: neither
\* set_extranonce nor set_difficulty reaches work that was notified before it.
JobsUseTheirNotifysTerms ==
    \A j \in {nextJob, slaveJob} \cup {asicJobs[s] : s \in Slots} \cup {slaveAsicJobs[s] : s \in Slots} :
        j # NoJob => /\ j.enonce = terms[j.notify].enonce
                     /\ j.enonce # NoEnonce
                     /\ terms[j.notify].diff # Unset => j.diff = terms[j.notify].diff

\* A job the pool has abandoned does not stay in the table for ever: as long as some pool
\* keeps giving work, and each has its turn, its id comes round and is given to another job.
AbandonedJobsAreReplaced ==
    (\A p \in Pools : []<>(activePool = p)) /\ (\E p \in Pools : <>[]isValid(p)) =>
        \A s \in Slots :
            asicJobs[s] # NoJob /\ Abandoned(asicJobs[s])
                ~> asicJobs[s] = NoJob \/ ~Abandoned(asicJobs[s])

\* New work of a pool whose turn comes again and again reaches the ASIC although its signal
\* is lost when create_jobs_task is busy: the periodic timer wakes the task again.
NotifyReachesAsic ==
    \A p \in Pools :
        []<>(activePool = p) =>
            \A n \in 1 .. MaxNotify :
                notify[p] = n ~> \/ \E s \in Slots :
                                       asic[s] # NoJob /\ asic[s].pool = p /\ asic[s].notify >= n
                                 \/ notify[p] # n

\* "we make sure to clear the jobs on the first job": once the first notify of a session
\* was dispatched, no job of an earlier session is looked up for a slave's nonce.
SlaveJobsClearedOnFirstJob ==
    \A s \in Slots :
        LET j == slaveAsicJobs[s]
        IN  j # NoJob /\ stage[j.pool] = "subscribed" /\ ~firstJob[j.pool]
                => j.notify >= sessionFirst[j.pool]
=============================================================================
