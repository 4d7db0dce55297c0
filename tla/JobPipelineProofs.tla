------------------------- MODULE JobPipelineProofs -------------------------
(***************************************************************************)
(* Invariance proofs for JobPipeline, for every number of pools, job ids,  *)
(* notifies and sessions.                                                  *)
(***************************************************************************)
EXTENDS JobPipeline, TLAPS

USE DEF Slots, Unset

-----------------------------------------------------------------------------
(***************************************************************************)
(* Type correctness.                                                       *)
(***************************************************************************)
LEMMA SlotRing == \A s \in Slots : (s + 1) % NumSlots \in Slots
<1>1. NumSlots \in Nat /\ NumSlots >= 1  BY JobPipelineAssumption
<1>2. QED  BY <1>1

LEMMA InitType == Init => TypeOK
<1> SUFFICES ASSUME Init PROVE TypeOK  OBVIOUS
<1>1. 0 \in Slots  BY JobPipelineAssumption
<1>2. MaxNotify \in Nat /\ MaxSession \in Nat  BY JobPipelineAssumption
<1>3. Nothing \in Assigned  BY DEF Nothing, Assigned
<1>4. difficulty \in [Pools -> Diffs] /\ activeDiff \in [Pools -> Diffs]  BY DEF Init
<1>5. QED  BY <1>1, <1>2, <1>3, <1>4 DEF Init, TypeOK, JobOrNone, Table

LEMMA StepType == TypeOK /\ [Next]_vars => TypeOK'
<1> SUFFICES ASSUME TypeOK, [Next]_vars PROVE TypeOK'  OBVIOUS
<1> USE JobPipelineAssumption DEF TypeOK, JobOrNone, Table, infoVars, sessionVars, builderVars,
        tableVars, history
<1>0. \A p \in Pools :
        /\ \A e \in Enonces : [poolSays EXCEPT ![p].enonce = e] \in [Pools -> Assigned]
        /\ \A d \in Diffs : [poolSays EXCEPT ![p].diff = d] \in [Pools -> Assigned]
  <2> SUFFICES ASSUME NEW p \in Pools
      PROVE  /\ \A e \in Enonces : [poolSays EXCEPT ![p].enonce = e] \in [Pools -> Assigned]
             /\ \A d \in Diffs : [poolSays EXCEPT ![p].diff = d] \in [Pools -> Assigned]
    OBVIOUS
  <2>1. poolSays[p] \in Assigned  OBVIOUS
  <2>2. /\ \A e \in Enonces : [poolSays[p] EXCEPT !.enonce = e] \in Assigned
        /\ \A d \in Diffs : [poolSays[p] EXCEPT !.diff = d] \in Assigned
    BY <2>1 DEF Assigned
  <2>3. QED  BY <2>2
<1>1. ASSUME NEW p \in Pools, OpenSession(p) PROVE TypeOK'
  <2>1. poolSays' \in [Pools -> Assigned]
    BY <1>1 DEF OpenSession, Nothing, Assigned
  <2>2. QED  BY <1>1, <2>1 DEF OpenSession
<1>2. ASSUME NEW p \in Pools, create_job_set_enonce(p) PROVE TypeOK'
  <2>1. PICK e \in Enonces : /\ enonce' = [enonce EXCEPT ![p] = e]
                          /\ poolSays' = [poolSays EXCEPT ![p].enonce = e]
    BY <1>2 DEF create_job_set_enonce
  <2>2. enonce' \in [Pools -> Enonces \cup {NoEnonce}]  BY <2>1
  <2>3. poolSays' \in [Pools -> Assigned]  BY <1>0, <2>1
  <2>4. QED  BY <1>2, <2>2, <2>3 DEF create_job_set_enonce
<1>3. ASSUME NEW p \in Pools, set_next_enonce(p) PROVE TypeOK'
  <2>1. PICK e \in Enonces : /\ nextEnonce' = [nextEnonce EXCEPT ![p] = e]
                          /\ poolSays' = [poolSays EXCEPT ![p].enonce = e]
    BY <1>3 DEF set_next_enonce
  <2>2. nextEnonce' \in [Pools -> Enonces \cup {NoEnonce}]  BY <2>1
  <2>3. poolSays' \in [Pools -> Assigned]  BY <1>0, <2>1
  <2>4. QED  BY <1>3, <2>2, <2>3 DEF set_next_enonce
<1>4. ASSUME NEW p \in Pools, create_job_set_difficulty(p) PROVE TypeOK'
  <2>1. PICK d \in Diffs : /\ difficulty' = [difficulty EXCEPT ![p] = d]
                          /\ poolSays' = [poolSays EXCEPT ![p].diff = d]
    BY <1>4 DEF create_job_set_difficulty
  <2>2. difficulty' \in [Pools -> Diffs]  BY <2>1
  <2>3. poolSays' \in [Pools -> Assigned]  BY <1>0, <2>1
  <2>4. QED  BY <1>4, <2>2, <2>3 DEF create_job_set_difficulty
<1>5. ASSUME NEW p \in Pools, create_job_mining_notify(p) PROVE TypeOK'
  <2>1. lastNotify + 1 \in 1 .. MaxNotify  BY <1>5 DEF create_job_mining_notify
  <2>2. asicJobs' \in Table  BY <1>5 DEF create_job_mining_notify, cleanJobs
  <2>3. floor' \in [Pools -> 1 .. MaxNotify + 1]
    BY <1>5, <2>1 DEF create_job_mining_notify
  <2>4. terms' \in [1 .. MaxNotify -> Assigned]
    BY <1>5, <2>1 DEF create_job_mining_notify
  <2>5. bpc' \in {"wait", "build", "send", "store", "slave", "slavestore"}
        /\ (bpc' \in {"send", "store", "slavestore"} => bpc' = bpc)
    BY <1>5 DEF create_job_mining_notify, Signalled
  <2>6. /\ notify' \in [Pools -> 0 .. MaxNotify]
        /\ enonce' \in [Pools -> Enonces \cup {NoEnonce}]
        /\ nextEnonce' \in [Pools -> Enonces \cup {NoEnonce}]
        /\ activeDiff' \in [Pools -> Diffs]
        /\ firstJob' \in [Pools -> BOOLEAN]
    BY <1>5, <2>1 DEF create_job_mining_notify
  <2>7. lastNotify' \in 0 .. MaxNotify  BY <1>5, <2>1 DEF create_job_mining_notify
  <2>8. UNCHANGED <<difficulty, stage, sessions, activePool, slot, nextJob, slaveJob,
                    slaveAsicJobs, asic, poolSays, sessionFirst>>
    BY <1>5 DEF create_job_mining_notify
  <2>9. QED  BY <2>2, <2>3, <2>4, <2>5, <2>6, <2>7, <2>8
<1>6. ASSUME NEW p \in Pools, create_job_invalidate(p) PROVE TypeOK'
  <2>1. asicJobs' \in Table  BY <1>6 DEF create_job_invalidate, cleanJobs
  <2>2. QED  BY <1>6, <2>1 DEF create_job_invalidate
<1>7. ASSUME create_job_timer PROVE TypeOK'
  BY <1>7 DEF create_job_timer, Signalled
<1>8. ASSUME NEW p \in Pools, isValid(p) PROVE buildBmJob(p) \in Jobs
  BY <1>8 DEF isValid, buildBmJob, Jobs
<1>9. ASSUME BuildJob PROVE TypeOK'
  BY <1>8, <1>9, NoJobIsNoJob DEF BuildJob
<1>10. ASSUME sendWork \/ storeJob PROVE TypeOK'
  BY <1>10 DEF sendWork, storeJob
<1>11. ASSUME BuildSlaveJob PROVE TypeOK'
  BY <1>8, <1>11, SlotRing, NoJobIsNoJob DEF BuildSlaveJob, NextRound
<1>12. ASSUME storeSlaveJob PROVE TypeOK'
  BY <1>12, SlotRing DEF storeSlaveJob, NextRound
<1>13. CASE UNCHANGED vars  BY <1>13 DEF vars
<1>14. QED
  BY <1>1, <1>2, <1>3, <1>4, <1>5, <1>6, <1>7, <1>9, <1>10, <1>11, <1>12, <1>13
  DEF Next, StratumStep, BuilderStep

\* Every variable keeps its type, whatever the number of pools, ids, notifies and sessions.
THEOREM TypeCorrect == Spec => []TypeOK
<1>1. QED  BY InitType, StepType, PTL DEF Spec

-----------------------------------------------------------------------------
(***************************************************************************)
(* The inductive invariant.                                                *)
(***************************************************************************)

\* every job anywhere was built from a notify that was dispatched
Dispatched ==
    /\ nextJob # NoJob => nextJob.notify <= lastNotify
    /\ slaveJob # NoJob => slaveJob.notify <= lastNotify
    /\ \A s \in Slots : /\ asic[s] # NoJob => asic[s].notify <= lastNotify
                        /\ asicJobs[s] # NoJob => asicJobs[s].notify <= lastNotify
                        /\ slaveAsicJobs[s] # NoJob => slaveAsicJobs[s].notify <= lastNotify

\* current work is work the pool still accepts
CurrentWork ==
    \A p \in Pools : /\ floor[p] <= lastNotify + 1
                     /\ notify[p] # 0 => notify[p] >= floor[p] /\ notify[p] <= lastNotify

\* the job about to be stored is the one the ASIC was given
Sent == bpc = "store" => asic[slot] = nextJob

\* a job abandoned while in flight meets no abandoned job of its pool in the table
OneInFlight ==
    \A s \in Slots :
        /\ bpc \in {"send", "store"} /\ Abandoned(nextJob)
        /\ asicJobs[s] # NoJob /\ asicJobs[s].pool = nextJob.pool
        => ~Abandoned(asicJobs[s])

Tables == Dispatched /\ CurrentWork /\ Sent /\ OneInFlight /\ TableFollowsAsic
              /\ AtMostOneAbandonedJob

\* A table from which the jobs of p are gone, when the pool abandons everything it has
\* notified so far.
LEMMA CleanTables ==
    ASSUME TypeOK, Tables, NEW p \in Pools, cleanJobs(p),
           floor' = [floor EXCEPT ![p] = lastNotify + 1],
           lastNotify' \in {lastNotify, lastNotify + 1},
           UNCHANGED <<asic, slot, nextJob>>,
           (bpc' \in {"send", "store"} \/ bpc \in {"send", "store"}) => bpc' = bpc
    PROVE  Sent' /\ OneInFlight' /\ TableFollowsAsic' /\ AtMostOneAbandonedJob'
<1> USE DEF Tables
<1> DEFINE Gone(j) == j.notify < floor'[j.pool]
<1>1. \A s \in Slots : /\ asicJobs'[s] # NoJob => asicJobs'[s] = asicJobs[s] /\ asicJobs[s].pool # p
                       /\ asicJobs'[s] = NoJob => asicJobs[s] = NoJob \/ asicJobs[s].pool = p
  BY DEF cleanJobs
<1>2. lastNotify \in Nat  BY JobPipelineAssumption DEF TypeOK
<1>3. \A j \in Jobs : /\ j.pool # p => Gone(j) = Abandoned(j)
                      /\ j.pool = p /\ j.notify <= lastNotify => Gone(j)
  BY <1>2 DEF Abandoned, TypeOK, Jobs
<1>4. \A s \in Slots : asicJobs[s] \in JobOrNone /\ asic[s] \in JobOrNone
  BY DEF TypeOK, Table
<1>5. Sent'  BY DEF Sent
<1>6. TableFollowsAsic'
  <2> SUFFICES ASSUME NEW s \in Slots, ~Storing(s)'
      PROVE  /\ asicJobs'[s] # NoJob => asicJobs'[s] = asic[s]
             /\ asic[s] # NoJob /\ asicJobs'[s] = NoJob => Gone(asic[s])
    BY DEF TableFollowsAsic, Abandoned
  <2>1. ~Storing(s)  BY DEF Storing
  <2>2. asicJobs'[s] # NoJob => asicJobs'[s] = asic[s]
    BY <1>1, <2>1 DEF TableFollowsAsic
  <2>3. ASSUME asic[s] # NoJob, asicJobs'[s] = NoJob PROVE Gone(asic[s])
    <3>1. asic[s] \in Jobs /\ asic[s].notify <= lastNotify
      BY <1>4, <2>3 DEF JobOrNone, Dispatched
    <3>2. CASE asic[s].pool = p  BY <1>3, <3>1, <3>2
    <3>3. CASE asic[s].pool # p
      <4>1. asicJobs[s] = NoJob  BY <1>1, <2>1, <2>3, <3>3 DEF TableFollowsAsic
      <4>2. Abandoned(asic[s])  BY <2>1, <2>3, <4>1 DEF TableFollowsAsic
      <4>3. QED  BY <1>3, <3>1, <3>3, <4>2
    <3>4. QED  BY <3>2, <3>3
  <2>4. QED  BY <2>2, <2>3
<1>7. \A s \in Slots : asicJobs'[s] # NoJob =>
          /\ asicJobs'[s] \in Jobs /\ asicJobs'[s] = asicJobs[s] /\ asicJobs[s].pool # p
          /\ Gone(asicJobs'[s]) = Abandoned(asicJobs[s])
  BY <1>1, <1>3, <1>4 DEF JobOrNone
<1>8. AtMostOneAbandonedJob'
  <2> SUFFICES ASSUME NEW s \in Slots, NEW r \in Slots,
                      asicJobs'[s] # NoJob, Gone(asicJobs'[s]),
                      asicJobs'[r] # NoJob, Gone(asicJobs'[r]),
                      asicJobs'[s].pool = asicJobs'[r].pool
               PROVE  s = r
    BY DEF AtMostOneAbandonedJob, Abandoned
  <2>1. QED  BY <1>7 DEF AtMostOneAbandonedJob
<1>9. OneInFlight'
  <2> SUFFICES ASSUME NEW s \in Slots, bpc' \in {"send", "store"}, Gone(nextJob),
                      asicJobs'[s] # NoJob, asicJobs'[s].pool = nextJob.pool
               PROVE  ~Gone(asicJobs'[s])
    BY DEF OneInFlight, Abandoned
  <2>1. bpc \in {"send", "store"} /\ nextJob \in Jobs
    BY DEF TypeOK, JobOrNone
  <2>2. nextJob.pool # p  BY <1>7
  <2>3. Abandoned(nextJob)  BY <1>3, <2>1, <2>2
  <2>4. QED  BY <1>7, <2>1, <2>3 DEF OneInFlight
<1>10. QED  BY <1>5, <1>6, <1>8, <1>9

\* Steps that leave the tables, the floors and the job in flight alone.
LEMMA QuietTables ==
    ASSUME TypeOK, Tables, UNCHANGED <<asicJobs, asic, floor, slot, nextJob>>,
           (bpc' \in {"send", "store"} \/ bpc \in {"send", "store"}) => bpc' = bpc
    PROVE  Sent' /\ OneInFlight' /\ TableFollowsAsic' /\ AtMostOneAbandonedJob'
BY DEF Tables, Sent, OneInFlight, TableFollowsAsic, AtMostOneAbandonedJob, Abandoned, Storing

LEMMA TablesStep == TypeOK /\ Tables /\ [Next]_vars => Tables'
<1> SUFFICES ASSUME TypeOK, Tables, [Next]_vars PROVE Tables'  OBVIOUS
<1> USE JobPipelineAssumption DEF infoVars, sessionVars, builderVars, tableVars, history
<1>1. /\ lastNotify \in Nat /\ floor \in [Pools -> Nat] /\ notify \in [Pools -> Nat]
      /\ slot \in Slots /\ nextJob \in JobOrNone /\ slaveJob \in JobOrNone
      /\ asicJobs \in Table /\ asic \in Table /\ slaveAsicJobs \in Table
  BY DEF TypeOK
<1>2. ASSUME NEW p \in Pools,
             OpenSession(p) \/ create_job_set_enonce(p) \/ set_next_enonce(p)
                 \/ create_job_set_difficulty(p)
      PROVE  Tables'
  <2>1. /\ UNCHANGED <<asicJobs, asic, slaveAsicJobs, floor, slot, nextJob, slaveJob, bpc, notify,
                       lastNotify>>
    BY <1>2 DEF OpenSession, create_job_set_enonce, set_next_enonce, create_job_set_difficulty
  <2>2. Dispatched' /\ CurrentWork'  BY <2>1 DEF Tables, Dispatched, CurrentWork
  <2>3. QED  BY <2>1, <2>2, QuietTables DEF Tables
<1>3. ASSUME NEW p \in Pools, create_job_mining_notify(p) PROVE Tables'
  <2>1. /\ lastNotify' = lastNotify + 1
        /\ notify' = [notify EXCEPT ![p] = lastNotify + 1]
        /\ UNCHANGED <<asic, slaveAsicJobs, slot, nextJob, slaveJob>>
        /\ (bpc' \in {"send", "store"} \/ bpc \in {"send", "store"}) => bpc' = bpc
    BY <1>3 DEF create_job_mining_notify, Signalled
  <2>2. \/ cleanJobs(p) /\ floor' = [floor EXCEPT ![p] = lastNotify + 1]
        \/ UNCHANGED <<asicJobs, floor>>
    BY <1>3 DEF create_job_mining_notify
  <2>3. \A s \in Slots : asicJobs'[s] # NoJob => asicJobs'[s] = asicJobs[s]
    BY <2>2 DEF cleanJobs
  <2>4. Dispatched'
    <3>1. \A j \in Jobs : j.notify <= lastNotify => j.notify <= lastNotify + 1
      BY <1>1 DEF Jobs
    <3>2. QED  BY <1>1, <2>1, <2>3, <3>1 DEF Tables, Dispatched, Table, JobOrNone
  <2>5. CurrentWork'
    BY <1>1, <2>1, <2>2 DEF Tables, CurrentWork
  <2>6. CASE cleanJobs(p) /\ floor' = [floor EXCEPT ![p] = lastNotify + 1]
    BY <2>1, <2>4, <2>5, <2>6, CleanTables DEF Tables
  <2>7. CASE UNCHANGED <<asicJobs, floor>>
    BY <2>1, <2>4, <2>5, <2>7, QuietTables DEF Tables
  <2>8. QED  BY <2>2, <2>6, <2>7
<1>4. ASSUME NEW p \in Pools, create_job_invalidate(p) PROVE Tables'
  <2>1. /\ cleanJobs(p) /\ floor' = [floor EXCEPT ![p] = lastNotify + 1]
        /\ notify' = [notify EXCEPT ![p] = 0]
        /\ UNCHANGED <<asic, slaveAsicJobs, slot, nextJob, slaveJob, bpc, lastNotify>>
    BY <1>4 DEF create_job_invalidate
  <2>2. Dispatched'
    BY <1>1, <2>1 DEF Tables, Dispatched, cleanJobs
  <2>3. CurrentWork'  BY <1>1, <2>1 DEF Tables, CurrentWork
  <2>4. QED  BY <2>1, <2>2, <2>3, CleanTables DEF Tables
<1>5. ASSUME create_job_timer PROVE Tables'
  <2>1. /\ UNCHANGED <<asicJobs, asic, slaveAsicJobs, floor, slot, nextJob, slaveJob, notify,
                       lastNotify>>
        /\ bpc = "wait" /\ bpc' = "build"
    BY <1>5 DEF create_job_timer, Signalled
  <2>2. Dispatched' /\ CurrentWork'  BY <2>1 DEF Tables, Dispatched, CurrentWork
  <2>3. QED  BY <2>1, <2>2, QuietTables DEF Tables
\* a job is built from work the pool still accepts
<1>6. ASSUME BuildJob PROVE Tables'
  <2>1. /\ UNCHANGED <<asicJobs, asic, slaveAsicJobs, floor, slot, slaveJob, notify, lastNotify>>
        /\ bpc = "build"
    BY <1>6 DEF BuildJob
  <2>2. CurrentWork'  BY <2>1 DEF Tables, CurrentWork
  <2>3. CASE nextJob' = nextJob /\ bpc' = "wait"
    <3>1. Dispatched'  BY <2>1, <2>3 DEF Tables, Dispatched
    <3>2. QED  BY <2>1, <2>2, <2>3, <3>1, QuietTables DEF Tables
  <2>4. ASSUME NEW p \in Pools, isValid(p), nextJob' = buildBmJob(p), bpc' = "send"
        PROVE  Tables'
    <3>1. /\ nextJob'.pool = p /\ nextJob'.notify = notify[p]
          /\ notify[p] >= floor[p] /\ notify[p] <= lastNotify
      BY <2>4 DEF Tables, CurrentWork, isValid, buildBmJob
    <3>2. (~Abandoned(nextJob))'  BY <1>1, <2>1, <3>1 DEF Abandoned
    <3>3. Dispatched'  BY <2>1, <3>1 DEF Tables, Dispatched
    <3>4. Sent' /\ OneInFlight'  BY <2>4, <3>2 DEF Sent, OneInFlight, Abandoned
    <3>5. TableFollowsAsic' /\ AtMostOneAbandonedJob'
      BY <2>1, <2>4 DEF Tables, TableFollowsAsic, AtMostOneAbandonedJob, Abandoned, Storing
    <3>6. QED  BY <2>2, <3>3, <3>4, <3>5 DEF Tables
  <2>5. QED  BY <1>6, <2>3, <2>4 DEF BuildJob
<1>7. ASSUME sendWork PROVE Tables'
  <2>1. /\ UNCHANGED <<asicJobs, slaveAsicJobs, floor, slot, slaveJob, nextJob, notify, lastNotify>>
        /\ bpc = "send" /\ bpc' = "store" /\ nextJob # NoJob
        /\ asic' = [asic EXCEPT ![slot] = nextJob]
    BY <1>7 DEF sendWork, TypeOK
  <2>2. \A s \in Slots : s # slot => asic'[s] = asic[s]  BY <1>1, <2>1 DEF Table
  <2>3. asic'[slot] = nextJob  BY <1>1, <2>1 DEF Table
  <2>4. Dispatched' /\ CurrentWork'
    BY <2>1, <2>2, <2>3 DEF Tables, Dispatched, CurrentWork
  <2>5. Sent'  BY <2>1, <2>3 DEF Sent
  <2>6. OneInFlight' /\ AtMostOneAbandonedJob'
    BY <2>1 DEF Tables, OneInFlight, AtMostOneAbandonedJob, Abandoned
  <2>7. TableFollowsAsic'
    BY <2>1, <2>2 DEF Tables, TableFollowsAsic, Storing, Abandoned
  <2>8. QED  BY <2>4, <2>5, <2>6, <2>7 DEF Tables
<1>8. ASSUME storeJob PROVE Tables'
  <2>1. /\ UNCHANGED <<asic, slaveAsicJobs, floor, slot, slaveJob, notify, lastNotify>>
        /\ bpc = "store" /\ bpc' = "slave" /\ nextJob # NoJob /\ nextJob' = NoJob
        /\ asicJobs' = [asicJobs EXCEPT ![slot] = nextJob]
    BY <1>8 DEF storeJob, TypeOK
  <2>2. \A s \in Slots : s # slot => asicJobs'[s] = asicJobs[s]  BY <1>1, <2>1 DEF Table
  <2>3. asicJobs'[slot] = nextJob /\ asic[slot] = nextJob
    BY <1>1, <2>1 DEF Table, Tables, Sent
  <2>4. Dispatched' /\ CurrentWork'
    BY <2>1, <2>2, <2>3 DEF Tables, Dispatched, CurrentWork
  <2>5. Sent' /\ OneInFlight'  BY <2>1 DEF Sent, OneInFlight
  <2>6. TableFollowsAsic'
    BY <1>1, <2>1, <2>2, <2>3 DEF Tables, TableFollowsAsic, Storing, Abandoned
  <2>7. AtMostOneAbandonedJob'
    <3> SUFFICES ASSUME NEW s \in Slots, NEW r \in Slots,
                        asicJobs'[s] # NoJob, Abandoned(asicJobs'[s]),
                        asicJobs'[r] # NoJob, Abandoned(asicJobs'[r]),
                        asicJobs'[s].pool = asicJobs'[r].pool
                 PROVE  s = r
      BY <2>1 DEF AtMostOneAbandonedJob, Abandoned
    <3>1. CASE s # slot /\ r # slot
      BY <2>2, <3>1 DEF Tables, AtMostOneAbandonedJob
    <3>2. CASE s = slot /\ r # slot
      BY <2>1, <2>2, <2>3, <3>2 DEF Tables, OneInFlight
    <3>3. CASE s # slot /\ r = slot
      BY <2>1, <2>2, <2>3, <3>3 DEF Tables, OneInFlight
    <3>4. QED  BY <3>1, <3>2, <3>3
  <2>8. QED  BY <2>4, <2>5, <2>6, <2>7 DEF Tables
<1>9. ASSUME BuildSlaveJob PROVE Tables'
  <2>1. /\ UNCHANGED <<asicJobs, asic, slaveAsicJobs, floor, nextJob, notify, lastNotify>>
        /\ bpc = "slave" /\ bpc' \in {"slavestore", "wait"}
        /\ slaveJob' = NoJob \/ (isValid(activePool) /\ slaveJob' = buildBmJob(activePool))
    BY <1>9 DEF BuildSlaveJob, NextRound
  <2>2. slaveJob' # NoJob => slaveJob'.notify <= lastNotify
    BY <2>1 DEF Tables, CurrentWork, isValid, buildBmJob, TypeOK
  <2>3. Dispatched' /\ CurrentWork'  BY <2>1, <2>2 DEF Tables, Dispatched, CurrentWork
  <2>4. QED
    BY <2>1, <2>3 DEF Tables, Sent, OneInFlight, TableFollowsAsic, AtMostOneAbandonedJob, Abandoned,
                      Storing
<1>10. ASSUME storeSlaveJob PROVE Tables'
  <2>1. /\ UNCHANGED <<asicJobs, asic, floor, nextJob, notify, lastNotify>>
        /\ bpc = "slavestore" /\ bpc' = "wait" /\ slaveJob' = NoJob
        /\ slaveAsicJobs' = [slaveAsicJobs EXCEPT ![slot] = slaveJob]
    BY <1>10 DEF storeSlaveJob, NextRound
  <2>2. Dispatched' /\ CurrentWork'
    BY <1>1, <2>1 DEF Tables, Dispatched, CurrentWork, Table
  <2>3. QED
    BY <2>1, <2>2 DEF Tables, Sent, OneInFlight, TableFollowsAsic, AtMostOneAbandonedJob, Abandoned,
                      Storing
<1>11. CASE UNCHANGED vars
  BY <1>11 DEF vars, Tables, Dispatched, CurrentWork, Sent, OneInFlight, TableFollowsAsic,
               AtMostOneAbandonedJob, Abandoned, Storing
<1>12. QED
  BY <1>2, <1>3, <1>4, <1>5, <1>6, <1>7, <1>8, <1>9, <1>10, <1>11
  DEF Next, StratumStep, BuilderStep

LEMMA TablesInvariant == Spec => []Tables
<1>1. Init => Tables
  BY DEF Init, Tables, Dispatched, CurrentWork, Sent, OneInFlight, TableFollowsAsic,
         AtMostOneAbandonedJob
<1>2. QED  BY <1>1, TypeCorrect, TablesStep, PTL DEF Spec

\* A nonce is lost or tested against another job only between sendWork and storeJob, or
\* after its id was reused, for any number of job ids and pools.
THEOREM LookupsFollowAsic == Spec => []TableFollowsAsic
<1>1. Tables => TableFollowsAsic  BY DEF Tables
<1>2. QED  BY <1>1, TablesInvariant, PTL

\* The race between cleanJobs and the job in flight leaves at most one abandoned job of a
\* pool behind, however often the pool abandons its work.
THEOREM OneAbandonedJob == Spec => []AtMostOneAbandonedJob
<1>1. Tables => AtMostOneAbandonedJob  BY DEF Tables
<1>2. QED  BY <1>1, TablesInvariant, PTL

-----------------------------------------------------------------------------
(***************************************************************************)
(* Extranonce and difficulty.                                              *)
(***************************************************************************)

\* the job carries the terms of its notify
Kept(j) == /\ j.enonce = terms[j.notify].enonce
           /\ j.enonce # NoEnonce
           /\ terms[j.notify].diff # Unset => j.diff = terms[j.notify].diff

\* what the pool assigned last is in force, or waits for the next notify
Pending(p) ==
    /\ stage[p] # "subscribed" =>
          notify[p] = 0 /\ enonce[p] = NoEnonce /\ nextEnonce[p] = NoEnonce
    /\ stage[p] = "subscribed" =>
          /\ poolSays[p].enonce = IF nextEnonce[p] # NoEnonce THEN nextEnonce[p] ELSE enonce[p]
          /\ poolSays[p].enonce # NoEnonce
    /\ stage[p] # "closed" /\ poolSays[p].diff # Unset => difficulty[p] = poolSays[p].diff
    /\ notify[p] # 0 => /\ enonce[p] = terms[notify[p]].enonce
                        /\ enonce[p] # NoEnonce
                        /\ terms[notify[p]].diff # Unset => activeDiff[p] = terms[notify[p]].diff

TermsKept == /\ \A p \in Pools : Pending(p)
             /\ JobsUseTheirNotifysTerms

LEMMA JobsKept ==
    JobsUseTheirNotifysTerms <=>
        /\ nextJob # NoJob => Kept(nextJob)
        /\ slaveJob # NoJob => Kept(slaveJob)
        /\ \A s \in Slots : /\ asicJobs[s] # NoJob => Kept(asicJobs[s])
                            /\ slaveAsicJobs[s] # NoJob => Kept(slaveAsicJobs[s])
BY DEF JobsUseTheirNotifysTerms, Kept

LEMMA TermsStep == TypeOK /\ Tables /\ TermsKept /\ [Next]_vars => TermsKept'
<1> SUFFICES ASSUME TypeOK, Tables, TermsKept, [Next]_vars PROVE TermsKept'  OBVIOUS
<1> DEFINE Holders == <<nextJob, slaveJob, asicJobs, slaveAsicJobs>>
<1> USE JobPipelineAssumption, DiffsArePositive
    DEF infoVars, sessionVars, builderVars, tableVars, history
<1>1. /\ stage \in [Pools -> {"closed", "opened", "subscribed"}]
      /\ enonce \in [Pools -> Enonces \cup {NoEnonce}]
      /\ nextEnonce \in [Pools -> Enonces \cup {NoEnonce}]
      /\ difficulty \in [Pools -> Diffs] /\ activeDiff \in [Pools -> Diffs]
      /\ notify \in [Pools -> 0 .. MaxNotify] /\ lastNotify \in 0 .. MaxNotify
      /\ poolSays \in [Pools -> Assigned] /\ terms \in [1 .. MaxNotify -> Assigned]
      /\ asicJobs \in Table /\ slaveAsicJobs \in Table /\ slot \in Slots
  BY DEF TypeOK
<1>2. ASSUME UNCHANGED <<Holders, terms>> PROVE JobsUseTheirNotifysTerms'
  BY <1>2 DEF TermsKept, JobsUseTheirNotifysTerms
<1>3. ASSUME UNCHANGED <<stage, notify, enonce, nextEnonce, difficulty, activeDiff, poolSays, terms>>
      PROVE  \A p \in Pools : Pending(p)'
  BY <1>3 DEF TermsKept, Pending
<1>4. ASSUME NEW p \in Pools, OpenSession(p) PROVE TermsKept'
  <2>1. /\ stage[p] = "closed" /\ stage' = [stage EXCEPT ![p] = "opened"]
        /\ poolSays' = [poolSays EXCEPT ![p] = Nothing]
        /\ UNCHANGED <<notify, enonce, nextEnonce, difficulty, activeDiff, Holders, terms>>
    BY <1>4 DEF OpenSession
  <2>2. \A q \in Pools : Pending(q)'
    BY <1>1, <2>1 DEF TermsKept, Pending, Nothing
  <2>3. QED  BY <1>2, <2>1, <2>2 DEF TermsKept
<1>5. ASSUME NEW p \in Pools, create_job_set_enonce(p) PROVE TermsKept'
  <2>1. PICK e \in Enonces : /\ enonce' = [enonce EXCEPT ![p] = e]
                             /\ poolSays' = [poolSays EXCEPT ![p].enonce = e]
    BY <1>5 DEF create_job_set_enonce
  <2>2. /\ stage[p] = "opened" /\ stage' = [stage EXCEPT ![p] = "subscribed"]
        /\ UNCHANGED <<notify, nextEnonce, difficulty, activeDiff, Holders, terms>>
    BY <1>5 DEF create_job_set_enonce
  <2>3. /\ poolSays'[p].enonce = e /\ poolSays'[p].diff = poolSays[p].diff
        /\ \A q \in Pools : q # p => poolSays'[q] = poolSays[q]
    BY <1>1, <2>1 DEF Assigned
  <2>4. \A q \in Pools : Pending(q)'
    BY <1>1, <2>1, <2>2, <2>3 DEF TermsKept, Pending
  <2>5. QED  BY <1>2, <2>2, <2>4 DEF TermsKept
<1>6. ASSUME NEW p \in Pools, set_next_enonce(p) PROVE TermsKept'
  <2>1. PICK e \in Enonces : /\ nextEnonce' = [nextEnonce EXCEPT ![p] = e]
                             /\ poolSays' = [poolSays EXCEPT ![p].enonce = e]
    BY <1>6 DEF set_next_enonce
  <2>2. /\ stage[p] = "subscribed"
        /\ UNCHANGED <<stage, notify, enonce, difficulty, activeDiff, Holders, terms>>
    BY <1>6 DEF set_next_enonce
  <2>3. /\ poolSays'[p].enonce = e /\ poolSays'[p].diff = poolSays[p].diff
        /\ \A q \in Pools : q # p => poolSays'[q] = poolSays[q]
    BY <1>1, <2>1 DEF Assigned
  <2>4. \A q \in Pools : Pending(q)'
    BY <1>1, <2>1, <2>2, <2>3 DEF TermsKept, Pending
  <2>5. QED  BY <1>2, <2>2, <2>4 DEF TermsKept
<1>7. ASSUME NEW p \in Pools, create_job_set_difficulty(p) PROVE TermsKept'
  <2>1. PICK d \in Diffs : /\ difficulty' = [difficulty EXCEPT ![p] = d]
                           /\ poolSays' = [poolSays EXCEPT ![p].diff = d]
    BY <1>7 DEF create_job_set_difficulty
  <2>2. UNCHANGED <<stage, notify, enonce, nextEnonce, activeDiff, Holders, terms>>
    BY <1>7 DEF create_job_set_difficulty, sessionVars
  <2>3. /\ poolSays'[p].enonce = poolSays[p].enonce /\ poolSays'[p].diff = d
        /\ \A q \in Pools : q # p => poolSays'[q] = poolSays[q]
    BY <1>1, <2>1 DEF Assigned
  <2>4. \A q \in Pools : Pending(q)'
    BY <1>1, <2>1, <2>2, <2>3 DEF TermsKept, Pending
  <2>5. QED  BY <1>2, <2>2, <2>4 DEF TermsKept
\* the terms of older notifies stay what they were
<1>8. ASSUME NEW p \in Pools, create_job_mining_notify(p) PROVE TermsKept'
  <2> DEFINE n == lastNotify + 1
  <2>1. /\ stage[p] = "subscribed" /\ n \in 1 .. MaxNotify
        /\ notify' = [notify EXCEPT ![p] = n]
        /\ enonce' = [enonce EXCEPT ![p] = IF nextEnonce[p] # NoEnonce THEN nextEnonce[p] ELSE @]
        /\ nextEnonce' = [nextEnonce EXCEPT ![p] = NoEnonce]
        /\ activeDiff' = [activeDiff EXCEPT ![p] = difficulty[p]]
        /\ terms' = [terms EXCEPT ![n] = poolSays[p]]
        /\ UNCHANGED <<stage, difficulty, poolSays, nextJob, slaveJob, slaveAsicJobs>>
    BY <1>1, <1>8 DEF create_job_mining_notify
  <2>2. \A s \in Slots : asicJobs'[s] # NoJob => asicJobs'[s] = asicJobs[s]
    BY <1>8 DEF create_job_mining_notify, cleanJobs
  <2>3. \A m \in 1 .. MaxNotify : m <= lastNotify => terms'[m] = terms[m]
    BY <1>1, <2>1
  <2>4. terms'[n] = poolSays[p]  BY <1>1, <2>1
  <2>5. \A q \in Pools : Pending(q)'
    <3> SUFFICES ASSUME NEW q \in Pools PROVE Pending(q)'  OBVIOUS
    <3>1. CASE q = p
      BY <1>1, <2>1, <2>4, <3>1 DEF TermsKept, Pending
    <3>2. CASE q # p
      <4>1. /\ notify'[q] = notify[q] /\ enonce'[q] = enonce[q] /\ activeDiff'[q] = activeDiff[q]
            /\ nextEnonce'[q] = nextEnonce[q]
        BY <1>1, <2>1, <3>2
      <4>2. notify[q] # 0 => terms'[notify[q]] = terms[notify[q]]
        BY <1>1, <2>3 DEF Tables, CurrentWork
      <4>3. QED  BY <2>1, <4>1, <4>2 DEF TermsKept, Pending
    <3>3. QED  BY <3>1, <3>2
  <2>6. \A j \in Jobs : j.notify <= lastNotify /\ Kept(j) => Kept(j)'
    BY <2>3 DEF Jobs, Kept
  <2>7. /\ nextJob' # NoJob => Kept(nextJob)'
        /\ slaveJob' # NoJob => Kept(slaveJob)'
    BY <2>1, <2>6, JobsKept DEF TermsKept, TypeOK, JobOrNone, Tables, Dispatched
  <2>8. \A s \in Slots : slaveAsicJobs'[s] # NoJob => Kept(slaveAsicJobs[s])'
    <3> SUFFICES ASSUME NEW s \in Slots, slaveAsicJobs'[s] # NoJob
        PROVE  Kept(slaveAsicJobs[s])'
      OBVIOUS
    <3>1. /\ slaveAsicJobs'[s] = slaveAsicJobs[s] /\ slaveAsicJobs[s] \in Jobs
          /\ slaveAsicJobs[s].notify <= lastNotify /\ Kept(slaveAsicJobs[s])
      BY <1>1, <2>1, JobsKept DEF TermsKept, Table, JobOrNone, Tables, Dispatched
    <3>2. QED  BY <2>3, <3>1 DEF Jobs, Kept
  <2>9. \A s \in Slots : asicJobs'[s] # NoJob => Kept(asicJobs[s])'
    <3> SUFFICES ASSUME NEW s \in Slots, asicJobs'[s] # NoJob
        PROVE  Kept(asicJobs[s])'
      OBVIOUS
    <3>1. /\ asicJobs'[s] = asicJobs[s] /\ asicJobs[s] \in Jobs
          /\ asicJobs[s].notify <= lastNotify /\ Kept(asicJobs[s])
      BY <1>1, <2>2, JobsKept DEF TermsKept, Table, JobOrNone, Tables, Dispatched
    <3>2. QED  BY <2>3, <3>1 DEF Jobs, Kept
  <2>10. JobsUseTheirNotifysTerms'
    BY <2>7, <2>8, <2>9 DEF JobsUseTheirNotifysTerms, Kept
  <2>11. QED  BY <2>5, <2>10 DEF TermsKept
<1>9. ASSUME NEW p \in Pools, create_job_invalidate(p) PROVE TermsKept'
  <2>1. /\ stage' = [stage EXCEPT ![p] = "closed"]
        /\ notify' = [notify EXCEPT ![p] = 0]
        /\ enonce' = [enonce EXCEPT ![p] = NoEnonce]
        /\ nextEnonce' = [nextEnonce EXCEPT ![p] = NoEnonce]
        /\ UNCHANGED <<difficulty, activeDiff, poolSays, terms, nextJob, slaveJob, slaveAsicJobs>>
    BY <1>9 DEF create_job_invalidate
  <2>2. \A s \in Slots : asicJobs'[s] # NoJob => asicJobs'[s] = asicJobs[s]
    BY <1>9 DEF create_job_invalidate, cleanJobs
  <2>3. \A q \in Pools : Pending(q)'
    BY <1>1, <2>1 DEF TermsKept, Pending
  <2>4. JobsUseTheirNotifysTerms'
    BY <2>1, <2>2 DEF TermsKept, JobsUseTheirNotifysTerms
  <2>5. QED  BY <2>3, <2>4 DEF TermsKept
<1>10. ASSUME create_job_timer \/ UNCHANGED vars PROVE TermsKept'
  <2>1. UNCHANGED <<Holders, terms, stage, notify, enonce, nextEnonce, difficulty, activeDiff,
                    poolSays>>
    BY <1>10 DEF create_job_timer, vars
  <2>2. QED  BY <1>2, <1>3, <2>1 DEF TermsKept
<1>11. ASSUME NEW p \in Pools, isValid(p) PROVE Kept(buildBmJob(p))
  BY <1>11 DEF isValid, buildBmJob, Kept, TermsKept, Pending
<1>12. ASSUME BuilderStep, ~create_job_timer PROVE TermsKept'
  <2>1. UNCHANGED <<terms, stage, notify, enonce, nextEnonce, difficulty, activeDiff, poolSays>>
    BY <1>12 DEF BuilderStep, BuildJob, sendWork, storeJob, BuildSlaveJob, storeSlaveJob
  <2>2. \A j : Kept(j)' = Kept(j)  BY <2>1 DEF Kept
  <2>3. CASE BuildJob
    <3>1. UNCHANGED <<slaveJob, asicJobs, slaveAsicJobs>>  BY <2>3 DEF BuildJob
    <3>2. nextJob' = nextJob \/ \E p \in Pools : isValid(p) /\ nextJob' = buildBmJob(p)
      BY <2>3 DEF BuildJob
    <3>3. QED
      BY <1>3, <1>11, <2>1, <3>1, <3>2 DEF TermsKept, JobsUseTheirNotifysTerms, Kept
  <2>4. CASE sendWork
    BY <1>2, <1>3, <2>1, <2>4 DEF TermsKept, sendWork
  <2>5. CASE storeJob
    <3>1. /\ UNCHANGED <<slaveJob, slaveAsicJobs>> /\ nextJob' = NoJob
          /\ asicJobs' = [asicJobs EXCEPT ![slot] = nextJob]
      BY <2>5 DEF storeJob
    <3>2. \A s \in Slots : asicJobs'[s] = asicJobs[s] \/ asicJobs'[s] = nextJob
      BY <1>1, <3>1 DEF Table
    <3>3. QED
      BY <1>3, <2>1, <3>1, <3>2 DEF TermsKept, JobsUseTheirNotifysTerms
  <2>6. CASE BuildSlaveJob
    <3>1. UNCHANGED <<nextJob, asicJobs, slaveAsicJobs>>  BY <2>6 DEF BuildSlaveJob
    <3>2. slaveJob' = NoJob \/ (isValid(activePool) /\ slaveJob' = buildBmJob(activePool))
      BY <2>6 DEF BuildSlaveJob, NextRound
    <3>3. slaveJob' # NoJob => Kept(slaveJob')
      BY <1>11, <3>2 DEF TypeOK
    <3>4. QED
      BY <1>3, <2>1, <3>1, <3>3 DEF TermsKept, JobsUseTheirNotifysTerms, Kept
  <2>7. CASE storeSlaveJob
    <3>1. /\ UNCHANGED <<nextJob, asicJobs>> /\ slaveJob' = NoJob
          /\ slaveAsicJobs' = [slaveAsicJobs EXCEPT ![slot] = slaveJob]
      BY <2>7 DEF storeSlaveJob, NextRound
    <3>2. \A s \in Slots : slaveAsicJobs'[s] = slaveAsicJobs[s] \/ slaveAsicJobs'[s] = slaveJob
      BY <1>1, <3>1 DEF Table
    <3>3. QED
      BY <1>3, <2>1, <3>1, <3>2 DEF TermsKept, JobsUseTheirNotifysTerms
  <2>8. QED  BY <1>12, <2>3, <2>4, <2>5, <2>6, <2>7 DEF BuilderStep
<1>13. QED
  BY <1>4, <1>5, <1>6, <1>7, <1>8, <1>9, <1>10, <1>12 DEF Next, StratumStep

\* No job mixes the work of one notify with the extranonce or the difficulty of another,
\* for the ASIC and for the slaves, whatever the pool sends and when.
THEOREM TermsOfTheirNotify == Spec => []JobsUseTheirNotifysTerms
<1>1. Init => TermsKept
  BY DEF Init, TermsKept, Pending, JobsUseTheirNotifysTerms, Nothing
<1>2. TermsKept => JobsUseTheirNotifysTerms  BY DEF TermsKept
<1>3. QED  BY <1>1, <1>2, TypeCorrect, TablesInvariant, TermsStep, PTL DEF Spec
=============================================================================
