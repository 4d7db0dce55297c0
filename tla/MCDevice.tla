------------------------------ MODULE MCDevice ------------------------------
(***************************************************************************)
(* Five parts of the device, one at a time: how slaves get their ids       *)
(* (CanFleet), how the messages of one CAN identifier are put together     *)
(* again (CanReassembly), which mutexes the tasks take (LockOrder), how    *)
(* jobs are dealt out to two pools (DualPool) and how work is divided      *)
(* among the slaves (WorkSplit).  The models share no state, so that a     *)
(* behaviour is one of a single part while the others rest.                *)
(***************************************************************************)
EXTENDS CanFleet, CanReassembly, LockOrder, DualPool, WorkSplit, TLC

CONSTANTS m1, m2,   \* two slaves
          pri       \* a stratum task, which stands for both: they take the same paths

TwoSlaves == {m1, m2}
Interchangeable == Permutations(TwoSlaves)
DeleteAndReset == [master |-> 1, slave |-> 0, delete |-> 1]
ResetEach == [master |-> 1, slave |-> 1, delete |-> 0]

\* Nonces, telemetry, configurations (can_master_task) and jobs (can_slave_task).
CanChannels ==
    {[payload |-> 9, room |-> 9], [payload |-> 49, room |-> 49],
     [payload |-> 46, room |-> 46], [payload |-> 86, room |-> 128]}

VARIABLE component    \* the part that runs

allVars == <<component, vars, linkVars, lockVars, dualVars, splitVars>>

\* one initial state of a part that rests
Rests(c) ==
    CASE c = "fleet" -> on = [m \in Macs |-> FALSE]
      [] c = "link"  -> channel = CHOOSE k \in Channels : TRUE
      [] c = "dual"  -> /\ balance = Full
                        /\ workDiff = [p \in BothPools |-> CHOOSE d \in PoolDiffs : TRUE]
      [] OTHER       -> TRUE

Components == {"fleet", "link", "locks", "dual", "split"}

MCInit ==
    /\ component \in Components
    /\ Init /\ LinkInit /\ LockInit /\ DualInit /\ SplitInit
    /\ \A c \in Components \ {component} : Rests(c)

MCNext ==
    /\ UNCHANGED component
    /\ \/ /\ component = "fleet" /\ Next
          /\ UNCHANGED <<linkVars, lockVars, dualVars, splitVars>>
       \/ /\ component = "link" /\ LinkNext
          /\ UNCHANGED <<vars, lockVars, dualVars, splitVars>>
       \/ /\ component = "locks" /\ LockNext
          /\ UNCHANGED <<vars, linkVars, dualVars, splitVars>>
       \/ /\ component = "dual" /\ DualNext
          /\ UNCHANGED <<vars, linkVars, lockVars, splitVars>>
       \/ /\ component = "split" /\ SplitNext
          /\ UNCHANGED <<vars, linkVars, lockVars, dualVars>>

MCSpec == MCInit /\ [][MCNext]_allVars

\* Liveness is about the fleet alone.
FleetInit == MCInit /\ component = "fleet"
MCFleetSpec == FleetInit /\ [][MCNext]_allVars /\ Fairness

\* The run that shows a deadlock is about the mutexes alone.
LocksInit == MCInit /\ component = "locks"
MCLockSpec == LocksInit /\ [][MCNext]_allVars
=============================================================================
