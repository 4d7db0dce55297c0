----------------------------- MODULE Sv2Channel -----------------------------
(***************************************************************************)
(* An extended Stratum V2 channel, from the pool's messages to the work    *)
(* that create_jobs_task mines (StratumTaskV2 and MiningInfoV2Extended).   *)
(* A job is sent ready to be mined, or ahead of time as a future job that  *)
(* waits in a ring of SV2_PENDING_JOBS_SIZE slots for the SetNewPrevHash   *)
(* that names it.  The messages of a session arrive in order and are       *)
(* handled one at a time; a handler that hands over several jobs does so   *)
(* in several steps, each under current_stratum_job_mutex, and             *)
(* create_jobs_task can build work between two of them.                    *)
(*                                                                         *)
(* Jobs have the numbers the pool gives them in rising order, prev_hashes  *)
(* are numbered too, and a target stands for the difficulty it converts    *)
(* to.  The pool is external: it names a future job that it has not        *)
(* withdrawn, and withdraws the others with every SetNewPrevHash.          *)
(***************************************************************************)
EXTENDS Integers

CONSTANTS
    PendingSize,  \* SV2_PENDING_JOBS_SIZE
    Targets,      \* channel targets
    MaxJob,       \* bound on the jobs of a session
    MaxPrevHash   \* bound on the prev_hashes of a session

ASSUME Sv2Assumption ==
    /\ PendingSize \in Nat \ {0}
    /\ MaxJob \in Nat
    /\ MaxPrevHash \in Nat
    /\ Targets # {}

VARIABLES
    opened,       \* the channel is open
    pendingJobs,  \* ext_pending_jobs: slot to job, 0 for none
    prevHash,     \* m_sv2_conn.prev_hash, 0 before the first
    target,       \* m_sv2_conn.target
    enqueue,      \* the job the running handler is about to hand over, 0 for none
    flush,        \* next slot its loop over the ring visits; PendingSize when there is none
    work,         \* s_v2_extended[pool]: [job, prevHash, diff], job = 0 if not valid
    \* the pool's view
    lastJob,      \* number of the last job it sent
    future,       \* future jobs it has not withdrawn
    active,       \* the job it wants mined, 0 before there is one
    orderly       \* it kept to what the ring can hold

sv2Vars == <<opened, pendingJobs, prevHash, target, enqueue, flush, work, lastJob, future,
             active, orderly>>

RingSlots == 0 .. PendingSize - 1
JobIds == 1 .. MaxJob
NoWork == [job |-> 0, prevHash |-> 0, diff |-> CHOOSE t \in Targets : TRUE]

Sv2TypeOK ==
    /\ opened \in BOOLEAN
    /\ pendingJobs \in [RingSlots -> JobIds \cup {0}]
    /\ prevHash \in 0 .. MaxPrevHash
    /\ target \in Targets
    /\ enqueue \in JobIds \cup {0}
    /\ flush \in 0 .. PendingSize
    /\ work \in [job : JobIds \cup {0}, prevHash : 0 .. MaxPrevHash, diff : Targets]
    /\ lastJob \in 0 .. MaxJob
    /\ future \in SUBSET JobIds
    /\ active \in JobIds \cup {0}
    /\ orderly \in BOOLEAN

EmptyRing == [s \in RingSlots |-> 0]

Sv2Init ==
    /\ opened = FALSE
    /\ pendingJobs = EmptyRing
    /\ prevHash = 0
    /\ target \in Targets
    /\ enqueue = 0
    /\ flush = PendingSize
    /\ work = NoWork
    /\ lastJob = 0
    /\ future = {}
    /\ active = 0
    /\ orderly = TRUE

Slot(j) == j % PendingSize

\* the receive loop waits for a message
Receiving == opened /\ enqueue = 0 /\ flush = PendingSize

-----------------------------------------------------------------------------
(***************************************************************************)
(* Sessions.  protocolLoop clears the connection record; the target comes  *)
(* with the answer to OpenChannel.                                         *)
(***************************************************************************)
OpenChannel ==
    /\ ~opened
    /\ opened' = TRUE
    /\ pendingJobs' = EmptyRing
    /\ prevHash' = 0
    /\ target' \in Targets
    /\ lastJob' = 0
    /\ future' = {}
    /\ active' = 0
    /\ orderly' = TRUE
    /\ UNCHANGED <<enqueue, flush, work>>

\* protocolLoop returns: disconnectedCallback invalidates the work.
CloseChannel ==
    /\ Receiving
    /\ opened' = FALSE
    /\ work' = [work EXCEPT !.job = 0]
    /\ UNCHANGED <<pendingJobs, prevHash, target, enqueue, flush, lastJob, future, active,
                   orderly>>

-----------------------------------------------------------------------------
(***************************************************************************)
(* handleNewExtendedMiningJob.                                             *)
(***************************************************************************)

\* Mutant: a slot that is taken is not overwritten.
StoreIfFree(j) ==
    pendingJobs' = [pendingJobs EXCEPT ![Slot(j)] = IF @ = 0 THEN j ELSE @]

StorePending(j) == pendingJobs' = [pendingJobs EXCEPT ![Slot(j)] = j]

\* A job to be mined at once; before the first prev_hash it has to wait like the others.
NewReadyJob ==
    /\ Receiving
    /\ lastJob < MaxJob
    /\ lastJob' = lastJob + 1
    /\ \/ /\ prevHash # 0
          /\ enqueue' = lastJob'
          /\ active' = lastJob'
          /\ UNCHANGED <<pendingJobs, future>>
       \/ /\ prevHash = 0
          /\ StorePending(lastJob')
          /\ future' = future \cup {lastJob'}
          /\ UNCHANGED <<enqueue, active>>
    /\ UNCHANGED <<opened, prevHash, target, flush, work, orderly>>

NewFutureJob ==
    /\ Receiving
    /\ lastJob < MaxJob
    /\ lastJob' = lastJob + 1
    /\ StorePending(lastJob')
    /\ future' = future \cup {lastJob'}
    /\ UNCHANGED <<opened, prevHash, target, enqueue, flush, work, active, orderly>>

-----------------------------------------------------------------------------
(***************************************************************************)
(* handleSetNewPrevHash.  The job it names is handed over if it is still   *)
(* in its slot; the first one of a session then hands over every other job *)
(* that waits, in the order of the slots.                                  *)
(***************************************************************************)
TakeNamed(j) ==
    /\ enqueue' = IF pendingJobs[Slot(j)] = j THEN j ELSE 0
    /\ pendingJobs' = [pendingJobs EXCEPT ![Slot(j)] = IF @ = j THEN 0 ELSE @]

\* What an orderly pool does: it names one of the last PendingSize jobs, and sends no other
\* job before its first SetNewPrevHash.
KeepsToTheRing(j) == j > lastJob - PendingSize /\ (prevHash = 0 => future = {j})

SetNewPrevHash(j) ==
    /\ Receiving
    /\ prevHash < MaxPrevHash
    /\ prevHash' = prevHash + 1
    /\ TakeNamed(j)
    /\ flush' = IF prevHash = 0 THEN 0 ELSE PendingSize
    /\ future' = {}
    /\ active' = j
    /\ orderly' = (orderly /\ KeepsToTheRing(j))
    /\ UNCHANGED <<opened, target, work, lastJob>>

\* The loop over the ring.
FlushSlot ==
    /\ enqueue = 0
    /\ flush < PendingSize
    /\ enqueue' = pendingJobs[flush]
    /\ pendingJobs' = [pendingJobs EXCEPT ![flush] = 0]
    /\ flush' = flush + 1
    /\ UNCHANGED <<opened, prevHash, target, work, lastJob, future, active, orderly>>

\* enqueueExtendedJob: the work is replaced under the mutex, with the target of the moment.
create_job_sv2_extended ==
    /\ enqueue # 0
    /\ work' = [job |-> enqueue, prevHash |-> prevHash, diff |-> target]
    /\ enqueue' = 0
    /\ UNCHANGED <<opened, pendingJobs, prevHash, target, flush, lastJob, future, active, orderly>>

\* Mutant: the new target is for the jobs to come.
SetTargetLater ==
    /\ Receiving
    /\ target' \in Targets
    /\ UNCHANGED <<opened, pendingJobs, prevHash, enqueue, flush, work, lastJob, future, active,
                   orderly>>

\* handleSetTarget: create_job_sv2_set_difficulty changes the work too.
SetTarget ==
    /\ Receiving
    /\ target' \in Targets
    /\ work' = [work EXCEPT !.diff = target']
    /\ UNCHANGED <<opened, pendingJobs, prevHash, enqueue, flush, lastJob, future, active, orderly>>

-----------------------------------------------------------------------------
Sv2Next ==
    \/ OpenChannel \/ CloseChannel
    \/ NewReadyJob \/ NewFutureJob
    \/ \E j \in future : SetNewPrevHash(j)
    \/ FlushSlot
    \/ create_job_sv2_extended
    \/ SetTarget

Sv2Spec == Sv2Init /\ [][Sv2Next]_sv2Vars

-----------------------------------------------------------------------------
(***************************************************************************)
(* Properties.                                                             *)
(***************************************************************************)

\* With an orderly pool the work between two messages is the job the pool wants mined, on the
\* prev_hash it sent last: the ring neither loses a job that will be named nor hands over one
\* that was withdrawn.  (With a pool that sends two jobs before its first SetNewPrevHash the
\* device mines one that was not named.)
NamedJobIsMined ==
    Receiving /\ orderly /\ active # 0 => work.job = active /\ work.prevHash = prevHash

\* Work counts shares by the target of its channel, whatever order jobs, targets and sessions
\* come in.
WorkHasTheChannelsTarget == work.job # 0 => opened /\ work.diff = target
=============================================================================
