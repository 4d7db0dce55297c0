------------------------------ MODULE DualPool ------------------------------
(***************************************************************************)
(* Mining for two pools at once: StratumManagerDualPool deals the jobs of  *)
(* create_jobs_task out to the pools, in the ratio the user has set, and   *)
(* chooses a difficulty for the ASICs that suits both.                     *)
(*                                                                         *)
(* The ASICs have one difficulty mask for whatever they work on, so it has *)
(* to let the shares of the job that is running pass while the mask of the *)
(* next job is already set.                                                *)
(***************************************************************************)
EXTENDS Integers

CONSTANTS
    Full,             \* 100 percent
    AsicMin, AsicMax, \* what the ASICs can be set to in this mode
    PoolDiffs,        \* difficulties a pool can announce
    Unknown,          \* 0xffffffff, more than any of them
    NoPool,           \* create_jobs_task has selected none
    MaxTurns          \* bound on the turns that are counted

ASSUME DualPoolAssumption ==
    /\ Full \in Nat \ {0}
    /\ AsicMin \in Nat \ {0} /\ AsicMax \in Nat /\ AsicMin <= AsicMax
    /\ PoolDiffs \subseteq Nat \ {0}
    /\ Unknown \in Nat /\ \A d \in PoolDiffs : d < Unknown
    /\ MaxTurns \in Nat

PRIMARY == 0
SECONDARY == 1
BothPools == {PRIMARY, SECONDARY}
ASSUME NoPoolIsNoPool == NoPool \notin BothPools

VARIABLES
    balance,       \* m_balance, the share of the primary
    errorAccum,    \* m_error_accum
    validNotify,   \* m_validNotify of the stratum tasks
    blocked,       \* isVerifyBlocked
    workDiff,      \* difficulty of the current work of each pool
    poolDiffs,     \* poolDiffs, static in selectAsicDiff
    jobPool,       \* the pool create_jobs_task has selected
    nextDiff,      \* pool difficulty and ASIC difficulty of the job it has built
    mask,          \* the difficulty the ASICs are set to
    running,       \* the job the ASICs work on: its pool and difficulty
    dealStep,      \* where create_jobs_task is
    turns,         \* history: turns since the error was last reset,
    secondaryTurns \* and those of them that the secondary got

poolVars == <<validNotify, blocked, workDiff>>
dealVars == <<balance, errorAccum, turns, secondaryTurns>>
asicVars == <<poolDiffs, nextDiff, mask, running>>
dualVars == <<poolVars, dealVars, asicVars, jobPool, dealStep>>

DualTypeOK ==
    /\ balance \in 0 .. Full
    /\ errorAccum \in 0 .. Full - 1
    /\ validNotify \in [BothPools -> BOOLEAN]
    /\ blocked \in [BothPools -> BOOLEAN]
    /\ workDiff \in [BothPools -> PoolDiffs]
    /\ poolDiffs \in [BothPools -> PoolDiffs \cup {Unknown}]
    /\ jobPool \in BothPools \cup {NoPool}
    /\ nextDiff \in [pool : PoolDiffs \cup {0}, asic : Nat]
    /\ mask \in Nat
    /\ running \in [pool : BothPools \cup {NoPool}, diff : PoolDiffs \cup {0}]
    /\ dealStep \in {"select", "build", "mask", "send", "slaves"}
    /\ turns \in 0 .. MaxTurns /\ secondaryTurns \in Nat

DualInit ==
    /\ balance \in 0 .. Full
    /\ validNotify = [p \in BothPools |-> FALSE]
    /\ blocked = [p \in BothPools |-> FALSE]
    /\ workDiff \in [BothPools -> PoolDiffs]
    /\ poolDiffs = [p \in BothPools |-> Unknown]
    /\ jobPool = NoPool /\ dealStep = "select"
    /\ nextDiff = [pool |-> 0, asic |-> 0]
    /\ mask = AsicMin
    /\ running = [pool |-> NoPool, diff |-> 0]
    /\ errorAccum = 0 /\ turns = 0 /\ secondaryTurns = 0

-----------------------------------------------------------------------------
(***************************************************************************)
(* The pools.                                                              *)
(***************************************************************************)

\* mining.notify: there is work, of the difficulty that was announced last
MiningNotify(p) ==
    /\ \E d \in PoolDiffs : workDiff' = [workDiff EXCEPT ![p] = d]
    /\ validNotify' = [validNotify EXCEPT ![p] = TRUE]
    /\ UNCHANGED <<blocked, dealVars, asicVars, jobPool, dealStep>>

\* disconnectedCallback
PoolDisconnected(p) ==
    /\ validNotify[p]
    /\ validNotify' = [validNotify EXCEPT ![p] = FALSE]
    /\ UNCHANGED <<blocked, workDiff, dealVars, asicVars, jobPool, dealStep>>

\* runVerification, or new settings, which lift the block
Verified(p) ==
    /\ blocked' = [blocked EXCEPT ![p] = ~@]
    /\ UNCHANGED <<validNotify, workDiff, dealVars, asicVars, jobPool, dealStep>>

ResetDeal == errorAccum' = 0 /\ turns' = 0 /\ secondaryTurns' = 0

\* loadSettings with another ratio, which reconnects both pools and lifts their blocks
loadBalance ==
    /\ \E new \in 0 .. Full : new # balance /\ balance' = new
    /\ blocked' = [p \in BothPools |-> FALSE]
    /\ ResetDeal
    /\ UNCHANGED <<validNotify, workDiff, asicVars, jobPool, dealStep>>

-----------------------------------------------------------------------------
(***************************************************************************)
(* create_jobs_task.                                                       *)
(***************************************************************************)

Usable(p) == validNotify[p] /\ ~blocked[p]

\* Mutant: the secondary's turn comes one percent late.
DitherLate ==
    LET pressure == errorAccum + (Full - balance)
        second == pressure > Full
    IN  /\ jobPool' = IF second THEN SECONDARY ELSE PRIMARY
        /\ errorAccum' = IF second THEN pressure - Full ELSE pressure
        /\ turns' = turns + 1
        /\ secondaryTurns' = IF second THEN secondaryTurns + 1 ELSE secondaryTurns

\* the share of the secondary is added up until it is worth a turn
Dither ==
    LET pressure == errorAccum + (Full - balance)
        second == pressure >= Full
    IN  /\ jobPool' = IF second THEN SECONDARY ELSE PRIMARY
        /\ errorAccum' = IF second THEN pressure - Full ELSE pressure
        /\ turns' = turns + 1
        /\ secondaryTurns' = IF second THEN secondaryTurns + 1 ELSE secondaryTurns

getNextActivePool ==
    /\ dealStep = "select"
    /\ \/ /\ Usable(PRIMARY) /\ Usable(SECONDARY)
          /\ turns < MaxTurns
          /\ Dither
       \/ /\ ~(Usable(PRIMARY) /\ Usable(SECONDARY))
          /\ jobPool' = IF Usable(SECONDARY) THEN SECONDARY ELSE PRIMARY
          /\ ResetDeal
    /\ dealStep' = "build"
    /\ UNCHANGED <<poolVars, balance, asicVars>>

Lesser(a, b) == IF a < b THEN a ELSE b
Clamp(d) == IF d < AsicMin THEN AsicMin ELSE Lesser(d, AsicMax)

\* Mutant: as with one pool, the difficulty suits the job alone.
suitOnePool(p, diffs) == Clamp(diffs[p])

\* the lesser of the two difficulties, as far as the ASICs can be set to it
selectAsicDiff(p, diffs) == Clamp(Lesser(diffs[PRIMARY], diffs[SECONDARY]))

\* Under the job mutex: nothing is built of a pool that has lost its work meanwhile.
buildDualJob ==
    /\ dealStep = "build"
    /\ \/ /\ validNotify[jobPool]
          /\ LET diffs == [poolDiffs EXCEPT ![jobPool] = workDiff[jobPool]]
             IN  /\ poolDiffs' = diffs
                 /\ nextDiff' = [pool |-> workDiff[jobPool], asic |-> selectAsicDiff(jobPool, diffs)]
          /\ dealStep' = "mask"
          /\ UNCHANGED jobPool
       \/ /\ ~validNotify[jobPool]
          /\ dealStep' = "select" /\ jobPool' = NoPool
          /\ UNCHANGED <<poolDiffs, nextDiff>>
    /\ UNCHANGED <<poolVars, dealVars, mask, running>>

LargestPowerOfTwo[num \in Nat] == IF num <= 1 THEN 1 ELSE 2 * LargestPowerOfTwo[num \div 2]

\* the mask has no holes, and is set before the job is sent
setJobDifficultyMask ==
    /\ dealStep = "mask"
    /\ mask' = LargestPowerOfTwo[nextDiff.asic]
    /\ dealStep' = "send"
    /\ UNCHANGED <<poolVars, dealVars, poolDiffs, nextDiff, running, jobPool>>

sendDualJob ==
    /\ dealStep = "send"
    /\ running' = [pool |-> jobPool, diff |-> nextDiff.pool]
    /\ dealStep' = "slaves"
    /\ nextDiff' = [pool |-> 0, asic |-> 0]
    /\ UNCHANGED <<poolVars, dealVars, poolDiffs, mask, jobPool>>

\* The job of a slave is of the same pool, whose difficulty may be another by now.
buildDualSlaveJob ==
    /\ dealStep = "slaves"
    /\ validNotify[jobPool]
    /\ poolDiffs' = [poolDiffs EXCEPT ![jobPool] = workDiff[jobPool]]
    /\ UNCHANGED <<poolVars, dealVars, nextDiff, mask, running, jobPool, dealStep>>

noMoreSlaves ==
    /\ dealStep = "slaves"
    /\ dealStep' = "select" /\ jobPool' = NoPool
    /\ UNCHANGED <<poolVars, dealVars, asicVars>>

-----------------------------------------------------------------------------
DealStep ==
    \/ getNextActivePool \/ buildDualJob \/ setJobDifficultyMask \/ sendDualJob
    \/ buildDualSlaveJob \/ noMoreSlaves

PoolStep(p) == MiningNotify(p) \/ PoolDisconnected(p) \/ Verified(p)

DualNext == DealStep \/ loadBalance \/ \E p \in BothPools : PoolStep(p)

DualSpec == DualInit /\ [][DualNext]_dualVars

-----------------------------------------------------------------------------
(***************************************************************************)
(* Properties.                                                             *)
(***************************************************************************)

\* Since the error was last reset the secondary has got its percentage of the turns, but
\* for less than one turn: whatever the ratio, no pool is starved and none gets ahead.
TurnsFollowBalance ==
    LET due == turns * (Full - balance) - Full * secondaryTurns
    IN  0 <= due /\ due < Full

\* Every share of the running job gets through the mask of the ASICs, unless the pool asks
\* for less than they can be set to; when the mask of the next job is set already, even then,
\* unless a harder job of the same pool has been built, for the ASICs or for a slave.
SharesPassTheMask ==
    running.pool # NoPool =>
        \/ mask <= running.diff
        \/ mask <= AsicMin
        \/ dealStep = "send" /\ running.diff < poolDiffs[running.pool]
=============================================================================
