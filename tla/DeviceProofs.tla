---------------------------- MODULE DeviceProofs ----------------------------
(***************************************************************************)
(* Proofs about three parts of MCDevice: LockOrder, for any number of      *)
(* stratum tasks, DualPool, for every number of parts the ratio is given   *)
(* in and any difficulties of pools and ASICs, and WorkSplit, for every    *)
(* number of slaves and every division of the bits.                        *)
(***************************************************************************)
EXTENDS LockOrder, DualPool, WorkSplit, Induction, TLAPS

-----------------------------------------------------------------------------
(***************************************************************************)
(* LockOrder.  The mutexes are ranked; a task that takes them in the order *)
(* of their ranks only waits for a mutex above all those it holds, and a   *)
(* set of such tasks cannot be deadlocked.  Without the web server one     *)
(* ranking fits all tasks, without the ping tasks another does.            *)
(***************************************************************************)
Mutexes == PingTasks \cup {manager, jobInfo, table, signal}

\* ping tasks take the manager's mutex
PingFirst ==
    [m \in Mutexes |-> CASE m = manager -> 1 [] m = jobInfo -> 2
                         [] m \in PingTasks -> 0 [] OTHER -> 3]

\* loadSettings takes those of the ping tasks
PingLast ==
    [m \in Mutexes |-> CASE m = manager -> 1 [] m = jobInfo -> 2 [] OTHER -> 3]

Climbs(a, b, R) ==
    \A h \in a : \A w \in b \ a : h \in Mutexes /\ w \in Mutexes /\ R[h] < R[w]

Ascending(q, R) == \A i \in Nat \ {0} : i < Len(q) => Climbs(q[i], q[i + 1], R)

AllPaths == UNION {Paths(t) : t \in Tasks}

OnPath ==
    /\ path \in [Tasks -> {<<>>} \cup AllPaths]
    /\ pos \in [Tasks -> Nat]
    /\ \A t \in Tasks : path[t] \in Paths(t) \cup {<<>>}

-----------------------------------------------------------------------------
\* Rankings give every mutex a number up to 3.
LEMMA RankingsAreBounded ==
    /\ PingFirst \in [Mutexes -> 0 .. 3]
    /\ PingLast \in [Mutexes -> 0 .. 3]
    BY DEF PingFirst, PingLast

\* Tasks that only wait for what ranks above all they hold are not deadlocked.
LEMMA NoCycle ==
    ASSUME NEW S, NEW R \in [Mutexes -> 0 .. 3],
           \A t \in S : \A h \in Held(t) : \A w \in Wanted(t) :
               h \in Mutexes /\ w \in Mutexes /\ R[h] < R[w]
    PROVE  ~Deadlocked(S)
    <1> SUFFICES ASSUME Deadlocked(S) PROVE FALSE
        OBVIOUS
    <1>0. \A t \in S : \E w \in Wanted(t) : \E u \in S : w \in Held(u)
        BY DEF Deadlocked
    <1>1. \A t \in S : \A h \in Held(t) : R[h] < 3
        <2> SUFFICES ASSUME NEW t \in S, NEW h \in Held(t) PROVE R[h] < 3
            OBVIOUS
        <2>1. PICK w \in Wanted(t) : TRUE
            BY <1>0
        <2> QED
            BY <2>1
    <1>2. \A t \in S : \A h \in Held(t) : R[h] < 2
        <2> SUFFICES ASSUME NEW t \in S, NEW h \in Held(t) PROVE R[h] < 2
            OBVIOUS
        <2>1. PICK w \in Wanted(t) : \E u \in S : w \in Held(u)
            BY <1>0
        <2> QED
            BY <1>1, <2>1
    <1>3. \A t \in S : \A h \in Held(t) : R[h] < 1
        <2> SUFFICES ASSUME NEW t \in S, NEW h \in Held(t) PROVE R[h] < 1
            OBVIOUS
        <2>1. PICK w \in Wanted(t) : \E u \in S : w \in Held(u)
            BY <1>0
        <2> QED
            BY <1>2, <2>1
    <1>4. \A t \in S : Held(t) = {}
        <2> SUFFICES ASSUME NEW t \in S, NEW h \in Held(t) PROVE FALSE
            OBVIOUS
        <2>1. PICK w \in Wanted(t) : \E u \in S : w \in Held(u)
            BY <1>0
        <2> QED
            BY <1>3, <2>1
    <1>5. PICK t \in S : TRUE
        BY DEF Deadlocked
    <1> QED
        BY <1>0, <1>4, <1>5

\* The rank of every mutex.
LEMMA Ranks ==
    /\ {manager, jobInfo, table, signal} \subseteq Mutexes
    /\ PingTasks \subseteq Mutexes
    /\ PingFirst[manager] = 1 /\ PingFirst[jobInfo] = 2
    /\ PingFirst[table] = 3 /\ PingFirst[signal] = 3
    /\ \A p \in PingTasks : PingFirst[p] = 0
    /\ PingLast[manager] = 1 /\ PingLast[jobInfo] = 2
    /\ PingLast[table] = 3 /\ PingLast[signal] = 3
    /\ \A p \in PingTasks : PingLast[p] = 3
    BY TasksAreDistinct DEF Mutexes, PingFirst, PingLast, manager, jobInfo, table, signal

\* A step that only releases climbs, and so does one that takes what ranks higher.
LEMMA Releases ==
    ASSUME NEW R, NEW a, NEW b, b \subseteq a
    PROVE  Climbs(a, b, R)
    BY DEF Climbs

LEMMA FirstClimbs ==
    ASSUME NEW R, NEW b
    PROVE  Climbs({}, b, R)
    BY DEF Climbs

LEMMA CommonSteps ==
    ASSUME NEW R \in {PingFirst, PingLast}
    PROVE  /\ Climbs({manager}, {manager, jobInfo}, R)
           /\ Climbs({manager}, {manager, signal}, R)
           /\ Climbs({manager, jobInfo}, {manager, jobInfo, table}, R)
           /\ Climbs({jobInfo}, {jobInfo, table}, R)
           /\ Climbs({jobInfo}, {jobInfo, signal}, R)
    BY Ranks DEF Climbs

\* Whatever the ranking, all tasks but the web server and the ping tasks climb.
LEMMA StratumClimbs ==
    ASSUME NEW R \in {PingFirst, PingLast}, NEW q \in StratumPaths
    PROVE  Ascending(q, R)
    <1>1. Ascending(connectedCallback, R) /\ Ascending(dispatchSet, R)
        BY CommonSteps, Releases DEF connectedCallback, dispatchSet, Ascending
    <1>2. Ascending(disconnectedCallback, R)
        BY CommonSteps, Releases DEF disconnectedCallback, Ascending
    <1>3. ASSUME q \in dispatchNotify PROVE Ascending(q, R)
        <2>1. Ascending(<<{manager}, {manager, jobInfo}, {manager}, {manager, signal}, {manager}>>, R)
            BY CommonSteps, Releases DEF Ascending
        <2>2. Ascending(<<{manager}, {manager, jobInfo}, {manager, jobInfo, table}, {manager, jobInfo},
                          {manager}, {manager, signal}, {manager}>>, R)
            BY CommonSteps, Releases DEF Ascending
        <2> QED
            BY <1>3, <2>1, <2>2, Zenon DEF dispatchNotify
    <1>4. ASSUME q \in create_job_sv2 PROVE Ascending(q, R)
        <2>1. Ascending(<<{jobInfo}>>, R)
            BY DEF Ascending
        <2>2. Ascending(<<{jobInfo}, {jobInfo, signal}, {jobInfo}>>, R)
            BY CommonSteps, Releases DEF Ascending
        <2>3. Ascending(<<{jobInfo}, {jobInfo, table}, {jobInfo}, {jobInfo, signal}, {jobInfo}>>, R)
            BY CommonSteps, Releases DEF Ascending
        <2> QED
            BY <1>4, <2>1, <2>2, <2>3, Zenon DEF create_job_sv2
    <1> QED
        BY <1>1, <1>2, <1>3, <1>4, Zenon DEF StratumPaths

LEMMA OthersClimb ==
    ASSUME NEW R \in {PingFirst, PingLast},
           NEW t \in Tasks \ ({WebServer} \cup PingTasks), NEW q \in Paths(t)
    PROVE  Ascending(q, R)
    <1>1. CASE t \in StratumTasks
        <2>1. q \in StratumPaths
            BY <1>1, TasksAreDistinct DEF Paths
        <2> QED
            BY <2>1, StratumClimbs
    <1>2. CASE t = TimerDaemon
        <2>1. q \in TimerPaths
            BY <1>2, TasksAreDistinct DEF Paths
        <2>2. Ascending(<<{manager}>>, R) /\ Ascending(<<{signal}>>, R)
            BY DEF Ascending
        <2> QED
            BY <2>1, <2>2, Zenon DEF TimerPaths
    <1>3. CASE t = JobBuilder
        <2>1. q \in create_jobs_task
            BY <1>3, TasksAreDistinct DEF Paths
        <2>2. Ascending(<<{signal}, {}, {signal}, {}, {manager}, {}, {jobInfo}, {}, {table}, {},
                          {jobInfo}>>, R)
            BY Releases, FirstClimbs DEF Ascending
        <2> QED
            BY <2>1, <2>2, Zenon DEF create_jobs_task
    <1>4. CASE t = ResultTask
        <2>1. q \in ASIC_result_task
            BY <1>4, TasksAreDistinct DEF Paths
        <2>2. Ascending(<<{table}, {}, {manager}>>, R)
            BY Releases, FirstClimbs DEF Ascending
        <2> QED
            BY <2>1, <2>2, Zenon DEF ASIC_result_task
    <1>5. CASE t = NetworkTask
        <2>1. q \in reconnectAll
            BY <1>5, TasksAreDistinct DEF Paths
        <2>2. Ascending(<<{ping0}, {}, {ping1}>>, R)
            BY Releases, FirstClimbs DEF Ascending
        <2> QED
            BY <2>1, <2>2, Zenon DEF reconnectAll
    <1> QED
        BY <1>1, <1>2, <1>3, <1>4, <1>5 DEF Tasks

\* A ping task climbs if its mutex ranks lowest.
LEMMA PingClimbs ==
    ASSUME NEW t \in PingTasks, NEW q \in Paths(t)
    PROVE  Ascending(q, PingFirst)
    <1>1. q \in ping_task(t)
        BY TasksAreDistinct DEF Paths
    <1>2. Climbs({t}, {t, manager}, PingFirst)
        BY Ranks DEF Climbs
    <1>3. Ascending(<<{t}>>, PingFirst)
        BY DEF Ascending
    <1>4. Ascending(<<{t}, {t, manager}, {t}>>, PingFirst)
        BY <1>2, Releases DEF Ascending
    <1> QED
        BY <1>1, <1>3, <1>4, Zenon DEF ping_task

\* The web server climbs if the mutexes of the ping tasks rank highest.
LEMMA SettingsClimb ==
    ASSUME NEW q \in Paths(WebServer)
    PROVE  Ascending(q, PingLast)
    <1>1. q \in loadSettings
        BY TasksAreDistinct DEF Paths
    <1>2. \A p \in PingTasks : Climbs({manager}, {manager, p}, PingLast)
        BY Ranks DEF Climbs
    <1>3. Ascending(<<{manager}>>, PingLast)
        BY DEF Ascending
    <1>4. \A p \in PingTasks : Ascending(<<{manager}, {manager, p}, {manager}>>, PingLast)
        BY <1>2, Releases DEF Ascending
    <1>5. Ascending(<<{manager}, {manager, ping0}, {manager}, {manager, ping1}, {manager}>>, PingLast)
        BY <1>2, Releases DEF Ascending, PingTasks
    <1> QED
        BY <1>1, <1>3, <1>4, <1>5, Zenon DEF loadSettings

-----------------------------------------------------------------------------
\* A task that is on a path that climbs waits for mutexes above all those it holds.
LEMMA WaitsAbove ==
    ASSUME NEW R, NEW t \in Tasks, pos[t] \in Nat, path[t] = <<>> \/ Ascending(path[t], R),
           NEW h \in Held(t), NEW w \in Wanted(t)
    PROVE  h \in Mutexes /\ w \in Mutexes /\ R[h] < R[w]
    <1>1. pos[t] # 0 /\ pos[t] < Len(path[t])
        BY DEF Held, Wanted
    <1>2. path[t] # <<>>
        BY <1>1
    <1> QED
        BY <1>1, <1>2 DEF Ascending, Climbs, Held, Wanted

\* Where the tasks are on their paths says enough.
LEMMA NoOtherDeadlock ==
    ASSUME OnPath
    PROVE  DeadlockNeedsSettingsAndPing
    <1> SUFFICES ASSUME NEW S \in SUBSET Waiting, Deadlocked(S)
                 PROVE  WebServer \in S /\ S \cap PingTasks # {}
        BY DEF DeadlockNeedsSettingsAndPing
    <1>0. S \subseteq Tasks
        BY DEF Waiting
    <1>1. ASSUME WebServer \notin S PROVE FALSE
        <2>1. \A t \in S : path[t] = <<>> \/ Ascending(path[t], PingFirst)
            BY <1>0, <1>1, OthersClimb, PingClimbs DEF OnPath
        <2>2. \A t \in S : \A h \in Held(t) : \A w \in Wanted(t) :
                  h \in Mutexes /\ w \in Mutexes /\ PingFirst[h] < PingFirst[w]
            BY <1>0, <2>1, WaitsAbove DEF OnPath
        <2> QED
            BY <2>2, NoCycle, RankingsAreBounded
    <1>2. ASSUME S \cap PingTasks = {} PROVE FALSE
        <2>1. \A t \in S : path[t] = <<>> \/ Ascending(path[t], PingLast)
            BY <1>0, <1>2, OthersClimb, SettingsClimb DEF OnPath
        <2>2. \A t \in S : \A h \in Held(t) : \A w \in Wanted(t) :
                  h \in Mutexes /\ w \in Mutexes /\ PingLast[h] < PingLast[w]
            BY <1>0, <2>1, WaitsAbove DEF OnPath
        <2> QED
            BY <2>2, NoCycle, RankingsAreBounded
    <1> QED
        BY <1>1, <1>2

-----------------------------------------------------------------------------
\* Tasks stay on their paths.
LEMMA LockInitOnPath == LockInit => OnPath
    BY DEF LockInit, OnPath

LEMMA LockNextOnPath == OnPath /\ [LockNext]_lockVars => OnPath'
    <1> SUFFICES ASSUME OnPath, [LockNext]_lockVars PROVE OnPath'
        OBVIOUS
    <1> USE DEF OnPath
    <1>1. ASSUME NEW t \in Tasks, Enter(t) PROVE OnPath'
        <2>1. PICK new \in Paths(t) : path' = [path EXCEPT ![t] = new]
            BY <1>1 DEF Enter
        <2>2. new \in AllPaths
            BY <2>1 DEF AllPaths
        <2> QED
            BY <1>1, <2>1, <2>2 DEF Enter
    <1>2. ASSUME NEW t \in Tasks, Proceed(t) PROVE OnPath'
        BY <1>2 DEF Proceed
    <1>3. ASSUME NEW t \in Tasks, Leave(t) PROVE OnPath'
        BY <1>3 DEF Leave
    <1>4. CASE UNCHANGED lockVars
        BY <1>4 DEF lockVars
    <1> QED
        BY <1>1, <1>2, <1>3, <1>4 DEF LockNext

\* The firmware deadlocks nowhere but between loadSettings, which waits for a ping task
\* under the manager's mutex, and a ping task, which waits for the manager under its own.
THEOREM DeadlocksNeedSettingsAndPing == LockSpec => []DeadlockNeedsSettingsAndPing
    <1>1. LockSpec => []OnPath
        BY LockInitOnPath, LockNextOnPath, PTL DEF LockSpec
    <1> QED
        BY <1>1, NoOtherDeadlock, PTL

-----------------------------------------------------------------------------
(***************************************************************************)
(* DualPool.  The turns follow the ratio: what is left over is the error.  *)
(***************************************************************************)
\* The error is what the secondary still has to get.
Dealt ==
    /\ balance \in 0 .. Full
    /\ errorAccum \in 0 .. Full - 1
    /\ turns \in Nat /\ secondaryTurns \in Nat
    /\ errorAccum = turns * (Full - balance) - Full * secondaryTurns

\* One more turn.
LEMMA OneTurn ==
    ASSUME NEW n \in Nat, NEW k \in Nat, NEW share \in Nat
    PROVE  /\ (n + 1) * share = n * share + share
           /\ Full * (k + 1) = Full * k + Full
           /\ n * share \in Int /\ Full * k \in Int
    BY DualPoolAssumption

\* No turns, no error.
LEMMA NothingDealt ==
    ASSUME balance \in 0 .. Full, errorAccum = 0, turns = 0, secondaryTurns = 0
    PROVE  Dealt
    BY DualPoolAssumption DEF Dealt

\* The dithering keeps the account.
LEMMA DitherDeals ==
    ASSUME Dealt, Dither, balance' = balance
    PROVE  Dealt'
    <1> DEFINE share == Full - balance
    <1>1. share \in 0 .. Full
        BY DualPoolAssumption DEF Dealt
    <1>2. turns \in Nat /\ secondaryTurns \in Nat
        BY DEF Dealt
    <1>3. /\ (turns + 1) * share = turns * share + share
          /\ Full * (secondaryTurns + 1) = Full * secondaryTurns + Full
          /\ turns * share \in Int /\ Full * secondaryTurns \in Int
        BY <1>1, <1>2, OneTurn
    <1>4. turns' = turns + 1
        BY DEF Dither
    <1>5. share' = share
        OBVIOUS
    <1>6. CASE errorAccum + share >= Full
        <2>1. errorAccum' = errorAccum + share - Full /\ secondaryTurns' = secondaryTurns + 1
            BY <1>1, <1>6, DualPoolAssumption DEF Dither, Dealt
        <2>2. errorAccum' = turns' * share' - Full * secondaryTurns'
            BY <1>3, <1>4, <1>5, <2>1, DualPoolAssumption DEF Dealt
        <2> QED
            BY <1>1, <1>2, <1>4, <1>6, <2>1, <2>2, DualPoolAssumption DEF Dealt
    <1>7. CASE ~(errorAccum + share >= Full)
        <2>1. errorAccum' = errorAccum + share /\ secondaryTurns' = secondaryTurns
            BY <1>7 DEF Dither
        <2>2. errorAccum' = turns' * share' - Full * secondaryTurns'
            BY <1>3, <1>4, <1>5, <2>1, DualPoolAssumption DEF Dealt
        <2> QED
            BY <1>1, <1>2, <1>4, <1>7, <2>1, <2>2, DualPoolAssumption DEF Dealt
    <1> QED
        BY <1>6, <1>7

\* So does every other step.
LEMMA DealtKept == Dealt /\ [DualNext]_dualVars => Dealt'
    <1> SUFFICES ASSUME Dealt, [DualNext]_dualVars PROVE Dealt'
        OBVIOUS
    <1>1. ASSUME UNCHANGED dealVars PROVE Dealt'
        BY <1>1 DEF Dealt, dealVars
    <1>2. CASE getNextActivePool
        <2>1. balance' = balance
            BY <1>2 DEF getNextActivePool
        <2>2. CASE Dither
            BY <2>1, <2>2, DitherDeals
        <2>3. CASE ResetDeal
            BY <2>1, <2>3, DualPoolAssumption DEF ResetDeal, Dealt
        <2> QED
            BY <1>2, <2>2, <2>3 DEF getNextActivePool
    <1>3. CASE loadBalance
        BY <1>3, DualPoolAssumption DEF loadBalance, ResetDeal, Dealt
    <1>4. CASE buildDualJob \/ setJobDifficultyMask \/ sendDualJob
        BY <1>1, <1>4 DEF buildDualJob, setJobDifficultyMask, sendDualJob
    <1>7. CASE buildDualSlaveJob \/ noMoreSlaves
        BY <1>1, <1>7 DEF buildDualSlaveJob, noMoreSlaves
    <1>5. ASSUME NEW p \in BothPools, PoolStep(p) PROVE Dealt'
        BY <1>1, <1>5 DEF PoolStep, MiningNotify, PoolDisconnected, Verified
    <1>6. CASE UNCHANGED dualVars
        BY <1>1, <1>6 DEF dualVars
    <1> QED
        BY <1>2, <1>3, <1>4, <1>5, <1>6, <1>7 DEF DualNext, DealStep

\* In every run of turns the secondary gets its percentage, to within one turn.
THEOREM SplitIsFair == DualSpec => []TurnsFollowBalance
    <1>1. DualInit => Dealt
        BY NothingDealt DEF DualInit
    <1>2. Dealt => TurnsFollowBalance
        BY DualPoolAssumption DEF Dealt, TurnsFollowBalance
    <1> QED
        BY <1>1, <1>2, DealtKept, PTL DEF DualSpec
-----------------------------------------------------------------------------
(***************************************************************************)
(* The mask.  Between two jobs it suits the job that runs; once the next   *)
(* job is built, what is known of it is that it suits the easier of the    *)
(* two difficulties selectAsicDiff remembers, and the mask that is set     *)
(* with it likewise.                                                       *)
(***************************************************************************)
Easier == Lesser(poolDiffs[PRIMARY], poolDiffs[SECONDARY])

MaskTypes ==
    /\ workDiff \in [BothPools -> PoolDiffs]
    /\ poolDiffs \in [BothPools -> PoolDiffs \cup {Unknown}]
    /\ mask \in Nat
    /\ running.pool \in BothPools \cup {NoPool} /\ running.diff \in Nat
    /\ dealStep \in {"select", "build", "mask", "send", "slaves"}
    /\ dealStep # "select" => jobPool \in BothPools

NextJobKnown ==
    /\ dealStep \in {"mask", "send"} => nextDiff.pool = poolDiffs[jobPool]
    /\ dealStep = "mask" => nextDiff.asic = Clamp(Easier)
    /\ dealStep = "send" => mask <= AsicMin \/ mask <= Easier

Masked == MaskTypes /\ NextJobKnown /\ SharesPassTheMask

LEMMA DiffsAreNumbers ==
    ASSUME MaskTypes
    PROVE  /\ \A p \in BothPools : poolDiffs[p] \in Nat
           /\ Easier \in Nat /\ \A p \in BothPools : Easier <= poolDiffs[p]
  <1>1. \A p \in BothPools : poolDiffs[p] \in Nat
    BY DualPoolAssumption DEF MaskTypes
  <1>2. PRIMARY \in BothPools /\ SECONDARY \in BothPools
        /\ \A p \in BothPools : p = PRIMARY \/ p = SECONDARY
    BY DEF BothPools
  <1> QED BY <1>1, <1>2 DEF Easier, Lesser

\* What the loop that looks for the greatest power of two computes.
LEMMA PowerEquation ==
    \A num \in Nat :
        /\ LargestPowerOfTwo[num] \in Int
        /\ LargestPowerOfTwo[num] = IF num <= 1 THEN 1 ELSE 2 * LargestPowerOfTwo[num \div 2]
  <1> DEFINE Right(g) == [num \in Nat |-> IF num <= 1 THEN 1 ELSE 2 * g[num \div 2]]
             Body == [g \in [Nat -> Int] |-> Right(g)]
             rank == [n \in Nat |-> n]
  <1>1. \A num \in Nat : num \div 2 \in Nat /\ (~(num <= 1) => num \div 2 < num)
    OBVIOUS
  <1>2. \A g \in [Nat -> Int] : Right(g) \in [Nat -> Int]
    BY <1>1
  <1>3. Body \in [[Nat -> Int] -> [Nat -> Int]]
    <2> HIDE DEF Right
    <2> QED BY <1>2
  <1>4. ASSUME NEW g \in [Nat -> Int], NEW h \in [Nat -> Int], NEW x \in Nat,
               \A y \in Nat : rank[y] < rank[x] => g[y] = h[y]
        PROVE  Body[g][x] = Body[h][x]
    <2>1. CASE x <= 1
      BY <2>1
    <2>2. CASE ~(x <= 1)
      <3>1. x \div 2 \in Nat /\ rank[x \div 2] < rank[x]
        BY <1>1, <2>2
      <3>2. g[x \div 2] = h[x \div 2]
        BY <1>4, <3>1
      <3> QED BY <2>2, <3>2
    <2> QED BY <2>1, <2>2
  <1>5. \E f \in [Nat -> Int] : f = Body[f]
    <2>1. rank \in [Nat -> Nat]
      OBVIOUS
    <2>2. \A g, h \in [Nat -> Int], x \in Nat :
              (\A y \in Nat : rank[y] < rank[x] => g[y] = h[y]) => Body[g][x] = Body[h][x]
      <3> HIDE DEF Body, rank
      <3> QED BY <1>4
    <2> HIDE DEF Body, rank
    <2>3. DependsOnLower(Nat, Int, Body, rank)
      BY <1>3, <2>1, <2>2 DEF DependsOnLower
    <2> DEFINE D == Nat
               V == Int
    <2>4. DependsOnLower(D, V, Body, rank) /\ V # {}
      BY <2>3
    <2> HIDE DEF D, V
    <2>5. \E f \in [D -> V] : f = Body[f]
      BY <2>4, RecursionIsSound
    <2> QED BY <2>5 DEF D, V
  <1>6. \E f \in [Nat -> Int] : f = Right(f)
    BY <1>5
  <1>7. LargestPowerOfTwo = CHOOSE f : f = Right(f)
    BY DEF LargestPowerOfTwo
  <1>8. LargestPowerOfTwo = Right(LargestPowerOfTwo)
    <2> HIDE DEF Right
    <2> QED BY <1>6, <1>7
  <1>9. \A num \in Nat : LargestPowerOfTwo[num]
                             = IF num <= 1 THEN 1 ELSE 2 * LargestPowerOfTwo[num \div 2]
    BY <1>8
  <1> DEFINE S == {num \in Nat : LargestPowerOfTwo[num] \in Int}
  <1>10. ASSUME NEW num \in Nat, \A k \in Nat : k < num => k \in S PROVE num \in S
    <2>1. CASE num <= 1
      BY <1>9, <2>1
    <2>2. CASE ~(num <= 1)
      <3>1. LargestPowerOfTwo[num \div 2] \in Int
        BY <1>1, <1>10, <2>2
      <3> QED BY <1>9, <2>2, <3>1
    <2> QED BY <2>1, <2>2
  <1>11. Nat \subseteq S
    <2> HIDE DEF S
    <2> QED BY <1>10, StrongInduction
  <1> QED BY <1>9, <1>11

\* Rounding to a power of two makes the mask easier, but by less than half.
LEMMA RoundedDown ==
    \A num \in Nat \ {0} : /\ LargestPowerOfTwo[num] \in 1 .. num
                           /\ num < 2 * LargestPowerOfTwo[num]
  <1> DEFINE Good(n) == LargestPowerOfTwo[n] \in 1 .. n /\ n < 2 * LargestPowerOfTwo[n]
             S == {n \in Nat : n # 0 => Good(n)}
  <1>1. ASSUME NEW n \in Nat, \A k \in Nat : k < n => k \in S PROVE n \in S
    <2>1. CASE n = 0
      BY <2>1
    <2>2. CASE n = 1
      BY <2>2, PowerEquation
    <2>3. CASE n > 1
      <3> DEFINE h == n \div 2
      <3>1. h \in Nat /\ h # 0 /\ h < n /\ 2 * h <= n /\ n <= 2 * h + 1
        BY <2>3
      <3>2. LargestPowerOfTwo[n] = 2 * LargestPowerOfTwo[h]
        BY <2>3, PowerEquation
      <3> HIDE DEF h
      <3>3. Good(h)
        BY <1>1, <3>1
      <3>4. Good(n)
        BY <3>1, <3>2, <3>3
      <3> QED BY <3>4
    <2> QED BY <2>1, <2>2, <2>3
  <1>2. Nat \subseteq S
    <2> HIDE DEF S
    <2> QED BY <1>1, StrongInduction
  <1> QED BY <1>2

\* What the ASICs can be set to is within their bounds, and above a difficulty only when
\* that is below the bounds.
LEMMA MaskSuits ==
    ASSUME NEW d \in Nat
    PROVE  LET m == LargestPowerOfTwo[Clamp(d)]
           IN  m \in Nat /\ (m <= AsicMin \/ m <= d)
  <1>1. Clamp(d) \in 1 .. AsicMax /\ (Clamp(d) = AsicMin \/ Clamp(d) <= d)
    BY DualPoolAssumption DEF Clamp, Lesser
  <1>2. LargestPowerOfTwo[Clamp(d)] \in 1 .. Clamp(d)
    BY <1>1, RoundedDown
  <1> QED BY <1>1, <1>2, DualPoolAssumption

LEMMA MaskedAtStart == ASSUME DualInit PROVE Masked
  <1>1. MaskTypes
    BY DualPoolAssumption DEF DualInit, MaskTypes
  <1>2. NextJobKnown
    BY DEF DualInit, NextJobKnown
  <1>3. SharesPassTheMask
    BY DEF DualInit, SharesPassTheMask
  <1> QED BY <1>1, <1>2, <1>3 DEF Masked

\* Steps that leave the ASICs and the job that is being built alone.
LEMMA AsicsLeftAlone ==
    ASSUME Masked, UNCHANGED <<asicVars, dealStep, jobPool>>, workDiff' \in [BothPools -> PoolDiffs]
    PROVE  Masked'
  <1>1. /\ poolDiffs' = poolDiffs /\ nextDiff' = nextDiff /\ mask' = mask /\ running' = running
        /\ dealStep' = dealStep /\ jobPool' = jobPool
    BY DEF asicVars
  <1>2. MaskTypes'
    BY <1>1 DEF Masked, MaskTypes
  <1>3. NextJobKnown'
    BY <1>1 DEF Masked, NextJobKnown, Easier
  <1>4. SharesPassTheMask'
    BY <1>1 DEF Masked, SharesPassTheMask
  <1> QED BY <1>2, <1>3, <1>4 DEF Masked

LEMMA NextPoolMasked == ASSUME Masked, getNextActivePool PROVE Masked'
  <1>1. /\ dealStep = "select" /\ dealStep' = "build" /\ jobPool' \in BothPools
        /\ workDiff' = workDiff /\ poolDiffs' = poolDiffs /\ mask' = mask /\ running' = running
    BY DEF getNextActivePool, Dither, BothPools, poolVars, asicVars
  <1> QED BY <1>1 DEF Masked, MaskTypes, NextJobKnown, SharesPassTheMask

\* The pool's difficulty is remembered, and the ASICs' follows from both.
LEMMA BuildMasked == ASSUME Masked, buildDualJob PROVE Masked'
  <1>1. /\ dealStep = "build" /\ jobPool \in BothPools /\ workDiff[jobPool] \in PoolDiffs
        /\ workDiff' = workDiff /\ mask' = mask /\ running' = running
    BY DEF buildDualJob, poolVars, Masked, MaskTypes
  <1>2. CASE validNotify[jobPool]
    <2>1. /\ poolDiffs' = [poolDiffs EXCEPT ![jobPool] = workDiff[jobPool]]
          /\ nextDiff' = [pool |-> workDiff[jobPool], asic |-> selectAsicDiff(jobPool, poolDiffs')]
          /\ dealStep' = "mask" /\ jobPool' = jobPool
      BY <1>2 DEF buildDualJob
    <2>2. poolDiffs' \in [BothPools -> PoolDiffs \cup {Unknown}] /\ poolDiffs'[jobPool] = workDiff[jobPool]
      BY <1>1, <2>1 DEF Masked, MaskTypes
    <2>3. nextDiff'.asic = Clamp(Easier')
      BY <2>1 DEF selectAsicDiff, Easier
    <2>4. MaskTypes'
      BY <1>1, <2>1, <2>2 DEF Masked, MaskTypes
    <2>5. NextJobKnown'
      BY <2>1, <2>2, <2>3 DEF NextJobKnown, Easier
    <2>6. SharesPassTheMask'
      BY <1>1, <2>1 DEF Masked, SharesPassTheMask
    <2> QED BY <2>4, <2>5, <2>6 DEF Masked
  <1>3. CASE ~validNotify[jobPool]
    <2>1. dealStep' = "select" /\ poolDiffs' = poolDiffs
      BY <1>3 DEF buildDualJob
    <2> QED BY <1>1, <2>1 DEF Masked, MaskTypes, NextJobKnown, SharesPassTheMask
  <1> QED BY <1>2, <1>3

\* The mask of the next job is set while the last one runs: it suits that one too, unless its
\* pool has asked for more since.
LEMMA SetMaskMasked == ASSUME Masked, setJobDifficultyMask PROVE Masked'
  <1>1. /\ dealStep = "mask" /\ dealStep' = "send" /\ jobPool' = jobPool
        /\ mask' = LargestPowerOfTwo[Clamp(Easier)]
        /\ workDiff' = workDiff /\ poolDiffs' = poolDiffs /\ nextDiff' = nextDiff
        /\ running' = running
    BY DEF setJobDifficultyMask, poolVars, Masked, NextJobKnown
  <1>2. MaskTypes /\ Easier' = Easier
    BY <1>1 DEF Masked, Easier
  <1>3. mask' \in Nat /\ (mask' <= AsicMin \/ mask' <= Easier)
    BY <1>1, <1>2, DiffsAreNumbers, MaskSuits
  <1>4. MaskTypes'
    BY <1>1, <1>2, <1>3 DEF MaskTypes
  <1>5. NextJobKnown'
    BY <1>1, <1>2, <1>3 DEF Masked, NextJobKnown
  <1>6. SharesPassTheMask'
    <2> SUFFICES ASSUME running.pool # NoPool, ~(mask' <= AsicMin), ~(mask' <= running.diff)
                 PROVE  running.diff < poolDiffs[running.pool]
      BY <1>1 DEF SharesPassTheMask
    <2>1. running.pool \in BothPools /\ running.diff \in Nat
      BY <1>2 DEF MaskTypes
    <2>2. Easier <= poolDiffs[running.pool] /\ Easier \in Nat /\ poolDiffs[running.pool] \in Nat
      BY <1>2, <2>1, DiffsAreNumbers
    <2> QED BY <1>3, <2>1, <2>2
  <1> QED BY <1>4, <1>5, <1>6 DEF Masked

LEMMA SendMasked == ASSUME Masked, sendDualJob PROVE Masked'
  <1>1. /\ dealStep = "send" /\ dealStep' = "slaves" /\ jobPool' = jobPool /\ jobPool \in BothPools
        /\ running' = [pool |-> jobPool, diff |-> poolDiffs[jobPool]]
        /\ mask' = mask /\ workDiff' = workDiff /\ poolDiffs' = poolDiffs
    BY DEF sendDualJob, poolVars, Masked, NextJobKnown, MaskTypes
  <1>2. MaskTypes /\ mask \in Nat /\ (mask <= AsicMin \/ mask <= Easier)
    BY <1>1 DEF Masked, NextJobKnown, MaskTypes
  <1>3. poolDiffs[jobPool] \in Nat /\ Easier \in Nat /\ Easier <= poolDiffs[jobPool]
    BY <1>1, <1>2, DiffsAreNumbers
  <1>4. MaskTypes'
    BY <1>1, <1>2, <1>3 DEF MaskTypes
  <1>5. NextJobKnown'
    BY <1>1 DEF NextJobKnown
  <1>6. SharesPassTheMask'
    BY <1>1, <1>2, <1>3 DEF SharesPassTheMask
  <1> QED BY <1>4, <1>5, <1>6 DEF Masked

LEMMA SlavesMasked == ASSUME Masked, buildDualSlaveJob \/ noMoreSlaves PROVE Masked'
  <1>1. /\ dealStep = "slaves" /\ dealStep' \in {"select", "slaves"} /\ jobPool \in BothPools
        /\ dealStep' = "slaves" => jobPool' = jobPool
        /\ workDiff' = workDiff /\ mask' = mask /\ running' = running
    BY DEF buildDualSlaveJob, noMoreSlaves, poolVars, asicVars, Masked, MaskTypes
  <1>2. poolDiffs' \in [BothPools -> PoolDiffs \cup {Unknown}]
    BY <1>1 DEF buildDualSlaveJob, noMoreSlaves, asicVars, Masked, MaskTypes
  <1>3. MaskTypes'
    BY <1>1, <1>2 DEF Masked, MaskTypes
  <1>4. NextJobKnown' /\ SharesPassTheMask'
    BY <1>1 DEF Masked, NextJobKnown, SharesPassTheMask
  <1> QED BY <1>3, <1>4 DEF Masked

LEMMA MaskedKept == Masked /\ [DualNext]_dualVars => Masked'
  <1> SUFFICES ASSUME Masked, [DualNext]_dualVars PROVE Masked'
    OBVIOUS
  <1>1. workDiff \in [BothPools -> PoolDiffs]
    BY DEF Masked, MaskTypes
  <1>2. ASSUME NEW p \in BothPools, PoolStep(p) PROVE Masked'
    <2>1. UNCHANGED <<asicVars, dealStep, jobPool>> /\ workDiff' \in [BothPools -> PoolDiffs]
      BY <1>1, <1>2 DEF PoolStep, MiningNotify, PoolDisconnected, Verified
    <2> QED BY <2>1, AsicsLeftAlone
  <1>3. CASE loadBalance
    BY <1>1, <1>3, AsicsLeftAlone DEF loadBalance
  <1>4. CASE DealStep
    BY <1>4, NextPoolMasked, BuildMasked, SetMaskMasked, SendMasked, SlavesMasked DEF DealStep
  <1>5. CASE UNCHANGED dualVars
    BY <1>1, <1>5, AsicsLeftAlone DEF dualVars, poolVars
  <1> QED BY <1>2, <1>3, <1>4, <1>5 DEF DualNext

\* For any difficulties of pools and ASICs, every share of the running job gets through the
\* mask, but for the two exceptions the property names: selectAsicDiff takes the easier of the
\* two pools, so that the mask may be set before the other pool's job is exchanged.
THEOREM SharesAlwaysPassTheMask == DualSpec => []SharesPassTheMask
  <1>1. DualInit => Masked
    BY MaskedAtStart
  <1>2. Masked => SharesPassTheMask
    BY DEF Masked
  <1> QED BY <1>1, <1>2, MaskedKept, PTL DEF DualSpec

-----------------------------------------------------------------------------
(***************************************************************************)
(* WorkSplit.  The number of a job is legible in its extranonce_2.         *)
(***************************************************************************)
\* Jobs are numbered below the counter of their node, and their number is legible in
\* the extranonce_2 they got.
Legible ==
    /\ extranonce_2 \in 0 .. MaxRounds
    /\ slave_counters \in [SlaveIds -> 0 .. MaxRounds]
    /\ \A i \in SlaveIds : slave_counters[i] <= extranonce_2
    /\ \A j \in jobsOut :
          /\ j = [node |-> j.node, count |-> j.count, e2 |-> j.e2]
          /\ j.node \in SlaveIds \cup {0}
          /\ j.count \in 0 .. Space - 1
          /\ j.e2 = j.node * Space + j.count

\* A number below Room is written as it is.
LEMMA WrittenInFull ==
    ASSUME NEW v \in 0 .. Room - 1
    PROVE  Written(v) = v
    <1>1. Leading(v) = v
        BY WorkSplitAssumption DEF Leading
    <1>2. Lowest(v) = v
        BY WorkSplitAssumption DEF Lowest
    <1> QED
        BY <1>1, <1>2 DEF Written

\* A counter that has not run over is its own remainder.
LEMMA OwnRemainder ==
    ASSUME NEW c \in 0 .. Space - 1
    PROVE  c % Space = c
    BY WorkSplitAssumption

\* Products stay in the room there is.
LEMMA IdsFit ==
    ASSUME NEW i \in SlaveIds, NEW c \in 0 .. Space - 1
    PROVE  i * Space + c \in 0 .. Room - 1
    <1>1. i \in Nat /\ (i + 1) * Space = i * Space + Space /\ i * Space \in Nat
        BY WorkSplitAssumption
    <1>2. (i + 1) * Space <= Room
        BY RoomForAll
    <1> QED
        BY <1>1, <1>2, WorkSplitAssumption

\* Node and number can be told from i * Space + c.
LEMMA Unique ==
    ASSUME NEW i \in Nat, NEW k \in Nat, NEW c \in 0 .. Space - 1, NEW d \in 0 .. Space - 1,
           i * Space + c = k * Space + d
    PROVE  i = k /\ c = d
    <1>1. ASSUME NEW a \in Nat, NEW b \in Nat, a < b PROVE a * Space + Space <= b * Space
        <2>1. PICK n \in Nat : b = a + 1 + n
            <3>1. b - a - 1 \in Nat /\ b = a + 1 + (b - a - 1)
                BY <1>1
            <3> QED
                BY <3>1
        <2>2. b * Space = a * Space + Space + n * Space
            BY <2>1, WorkSplitAssumption
        <2>3. n * Space \in Nat
            BY <2>1, WorkSplitAssumption
        <2>4. a * Space \in Nat
            BY WorkSplitAssumption
        <2> QED
            BY <2>2, <2>3, <2>4, WorkSplitAssumption
    <1>2. i * Space \in Nat /\ k * Space \in Nat
        BY WorkSplitAssumption
    <1>3. ~(i < k) /\ ~(k < i)
        BY <1>1, <1>2, WorkSplitAssumption
    <1> QED
        BY <1>2, <1>3

LEMMA LegibleKept == Legible /\ [SplitNext]_splitVars => Legible'
    <1> SUFFICES ASSUME Legible, [SplitNext]_splitVars PROVE Legible'
        OBVIOUS
    <1>1. CASE BuildRound
        <2>1. extranonce_2 \in 0 .. Space - 1 /\ extranonce_2' = extranonce_2 + 1
            BY <1>1, WorkSplitAssumption, RoomForAll DEF BuildRound, Legible
        <2>2. PICK active \in SUBSET SlaveIds :
                  /\ jobsOut' = jobsOut \cup {Job4Self} \cup {Job4Slave(i) : i \in active}
                  /\ slave_counters' =
                        [i \in SlaveIds |-> slave_counters[i] + (IF i \in active THEN 1 ELSE 0)]
            BY <1>1 DEF BuildRound
        <2>3. Written(extranonce_2) = extranonce_2
            BY <2>1, WrittenInFull, RoomForAll, WorkSplitAssumption
        <2>4. Job4Self = [node |-> 0, count |-> extranonce_2, e2 |-> 0 * Space + extranonce_2]
            BY <2>1, <2>3, WorkSplitAssumption DEF Job4Self
        <2>5. ASSUME NEW i \in SlaveIds
              PROVE  /\ slave_counters[i] \in 0 .. Space - 1
                     /\ Job4Slave(i) = [node |-> i, count |-> slave_counters[i],
                                        e2 |-> i * Space + slave_counters[i]]
            <3>1. slave_counters[i] \in 0 .. Space - 1
                BY <2>1, WorkSplitAssumption DEF Legible
            <3>2. can_make_extranonce2(i, slave_counters[i]) = i * Space + slave_counters[i]
                BY <3>1, OwnRemainder DEF can_make_extranonce2
            <3>3. Written(i * Space + slave_counters[i]) = i * Space + slave_counters[i]
                BY <3>1, IdsFit, WrittenInFull
            <3> QED
                BY <3>1, <3>2, <3>3 DEF Job4Slave
        <2>6. ASSUME NEW j \in jobsOut'
              PROVE  /\ j = [node |-> j.node, count |-> j.count, e2 |-> j.e2]
                     /\ j.node \in SlaveIds \cup {0}
                     /\ j.count \in 0 .. Space - 1
                     /\ j.e2 = j.node * Space + j.count
            <3>1. CASE j \in jobsOut
                BY <3>1 DEF Legible
            <3>2. CASE j = Job4Self
                BY <3>2, <2>1, <2>4
            <3>3. CASE \E i \in active : j = Job4Slave(i)
                BY <3>3, <2>5
            <3> QED
                BY <2>2, <3>1, <3>2, <3>3
        <2>7. /\ slave_counters' \in [SlaveIds -> 0 .. MaxRounds]
              /\ \A i \in SlaveIds : slave_counters'[i] <= extranonce_2'
            BY <1>1, <2>1, <2>2, WorkSplitAssumption DEF Legible, BuildRound
        <2> QED
            BY <1>1, <2>1, <2>6, <2>7, WorkSplitAssumption DEF Legible, BuildRound
    <1>2. CASE NewNotify
        BY <1>2 DEF NewNotify, Legible
    <1>3. CASE UNCHANGED splitVars
        BY <1>3 DEF splitVars, Legible
    <1> QED
        BY <1>1, <1>2, <1>3 DEF SplitNext

\* Jobs of one notify never have the same extranonce_2.
THEOREM NoWorkIsDoneTwice == SplitSpec => []WorkIsDisjoint
    <1>1. SplitInit => Legible
        BY WorkSplitAssumption DEF SplitInit, Legible
    <1>2. Legible => WorkIsDisjoint
        <2> SUFFICES ASSUME Legible, NEW j \in jobsOut, NEW k \in jobsOut, j.e2 = k.e2
                     PROVE  j = k
            BY DEF WorkIsDisjoint
        <2>1. j.node \in Nat /\ k.node \in Nat
            BY WorkSplitAssumption DEF Legible
        <2>2. j.node = k.node /\ j.count = k.count
            BY <2>1, Unique DEF Legible
        <2> QED
            BY <2>2 DEF Legible
    <1> QED
        BY <1>1, <1>2, LegibleKept, PTL DEF SplitSpec
=============================================================================
