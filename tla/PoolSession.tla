---------------------------- MODULE PoolSession ----------------------------
(***************************************************************************)
(* What the stratum layer promises of its pools, whatever the tasks,       *)
(* timers and callbacks below it do: work and unanswered shares exist in a *)
(* session only, a session starts with neither, and when it ends both end  *)
(* with it in one step.  Only the pool that was chosen gives work, and     *)
(* only a pool in session is chosen.                                       *)
(*                                                                         *)
(* Failover is shown to implement this specification.                      *)
(***************************************************************************)
CONSTANTS
    Pools,  \* the pools of the device
    First   \* the pool that counts as chosen before any session

VARIABLES
    session,  \* the pools in session
    work,     \* the pools with valid work
    waiting,  \* the pools that owe the answer to a share
    chosen    \* the pool whose work is mined

vars == <<session, work, waiting, chosen>>

Init ==
    /\ session = {}
    /\ work = {}
    /\ waiting = {}
    /\ chosen = First

\* A session starts clean.
Open(p) ==
    /\ p \notin session \cup work \cup waiting
    /\ session' = session \cup {p}
    /\ UNCHANGED <<work, waiting, chosen>>

Choose(p) ==
    /\ p \in session
    /\ chosen' = p
    /\ UNCHANGED <<session, work, waiting>>

GiveWork(p) ==
    /\ p \in session
    /\ p = chosen
    /\ work' = work \cup {p}
    /\ UNCHANGED <<session, waiting, chosen>>

\* The share may be of work of an earlier session.
Submit(p) ==
    /\ p \in session
    /\ waiting' = waiting \cup {p}
    /\ UNCHANGED <<session, work, chosen>>

Answer(p) ==
    /\ p \in session \cap waiting
    /\ waiting' = waiting \ {p}
    /\ UNCHANGED <<session, work, chosen>>

Close(p) ==
    /\ p \in session
    /\ session' = session \ {p}
    /\ work' = work \ {p}
    /\ waiting' = waiting \ {p}
    /\ UNCHANGED chosen

Next == \E p \in Pools :
    Open(p) \/ Choose(p) \/ GiveWork(p) \/ Submit(p) \/ Answer(p) \/ Close(p)

Spec == Init /\ [][Next]_vars
=============================================================================
