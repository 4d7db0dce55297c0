------------------------------ MODULE WorkSplit ------------------------------
(***************************************************************************)
(* How the device and its CAN slaves divide the search for a share: each   *)
(* job create_jobs_task builds gets an extranonce_2 of its own, counted    *)
(* upwards for the device itself, and for a slave with the slave's id in   *)
(* the upper bits.  Two jobs of one notify with the same extranonce_2 are  *)
(* the same work done twice.                                               *)
(***************************************************************************)
EXTENDS Integers

CONSTANTS
    Space,       \* 2^25 values of a slave's counter
    SlaveIds,    \* ids the master gives to slaves, 1 .. CAN_SLAVE_MAX - 1
    Base,        \* 16: V1 writes extranonce_2 in hexadecimal
    Room,        \* number of values of the extranonce_2 the pool lets us choose
    Protocol,    \* "V1", "V2 extended"
    MaxRounds    \* bound on the rounds of create_jobs_task since the device started

ASSUME WorkSplitAssumption ==
    /\ Space \in Nat \ {0} /\ Base \in Nat \ {0, 1} /\ Room \in Nat \ {0}
    /\ SlaveIds \subseteq Nat \ {0}
    /\ MaxRounds \in Nat

\* The extranonce_2 has room for the highest id, four bytes in the firmware, and the
\* device has not yet counted up to the first id.
ASSUME RoomForAll ==
    /\ \A i \in SlaveIds : (i + 1) * Space <= Room
    /\ Space <= Room
    /\ MaxRounds <= Space

VARIABLES
    extranonce_2,      \* the device's own counter
    slave_counters,    \* those of the slaves
    jobsOut            \* the jobs built from the current notify

splitVars == <<extranonce_2, slave_counters, jobsOut>>

\* Mutant: the counter runs into the id.
unmasked(id, count) == id * (Space \div 2) + count

\* the id above, the counter, reduced to its bits, below
can_make_extranonce2(id, count) == (id * Space) + (count % Space)

\* What is left of v when it is written with as many digits as there is room for:
\* snprintf drops the last ones of a longer number.
Leading(v) ==
    IF v < Room THEN v
    ELSE CHOOSE u \in Room \div Base .. Room - 1 : \E k \in 1 .. 32 : u = v \div Base ^ k

\* MiningInfoV2Extended writes the lowest bytes.
Lowest(v) == v % Room

Written(v) == IF Protocol = "V1" THEN Leading(v) ELSE Lowest(v)

Job4Self == [node |-> 0, count |-> extranonce_2, e2 |-> Written(extranonce_2)]

Job4Slave(i) ==
    [node |-> i, count |-> slave_counters[i],
     e2 |-> Written(can_make_extranonce2(i, slave_counters[i]))]

SplitTypeOK ==
    /\ extranonce_2 \in 0 .. MaxRounds
    /\ slave_counters \in [SlaveIds -> 0 .. MaxRounds]
    /\ jobsOut \subseteq [node : SlaveIds \cup {0}, count : Nat, e2 : 0 .. Room - 1]

SplitInit ==
    /\ extranonce_2 = 0
    /\ slave_counters = [i \in SlaveIds |-> 0]
    /\ jobsOut = {}

\* One round: a job for the device and one for each slave that is active.
BuildRound ==
    /\ extranonce_2 < MaxRounds
    /\ \E active \in SUBSET SlaveIds :
          /\ jobsOut' = jobsOut \cup {Job4Self} \cup {Job4Slave(i) : i \in active}
          /\ slave_counters' =
                [i \in SlaveIds |-> slave_counters[i] + (IF i \in active THEN 1 ELSE 0)]
    /\ extranonce_2' = extranonce_2 + 1

\* the counters go on, the work is another
NewNotify ==
    /\ jobsOut # {}
    /\ jobsOut' = {}
    /\ UNCHANGED <<extranonce_2, slave_counters>>

SplitNext == BuildRound \/ NewNotify

SplitSpec == SplitInit /\ [][SplitNext]_splitVars

\* No work is done twice: whichever slaves take part in which rounds, and however late
\* they join, no two jobs of a notify have the same extranonce_2.
WorkIsDisjoint == \A j, k \in jobsOut : j.e2 = k.e2 => j = k
=============================================================================
