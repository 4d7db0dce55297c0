----------------------------- MODULE IdRegistry -----------------------------
(***************************************************************************)
(* What slaves are promised about their ids as long as none is deleted:    *)
(* an id is granted to one slave, for good, before any slave uses it, and  *)
(* a slave uses no id but its own.  Restarts, lost frames and timeouts     *)
(* take an id out of use; they never take it away or give it to another.   *)
(*                                                                         *)
(* CanFleet is shown to implement this specification.                      *)
(***************************************************************************)
CONSTANTS
    Macs,   \* the slaves
    Slots,  \* the ids
    Free,   \* nobody's
    NoId    \* the id of a slave that uses none

VARIABLES
    owner,  \* whom each id is granted to
    uses    \* the id each slave uses

vars == <<owner, uses>>

Init ==
    /\ owner = [i \in Slots |-> Free]
    /\ uses = [m \in Macs |-> NoId]

\* A slave has one id only.
Grant(m, i) ==
    /\ owner[i] = Free
    /\ \A j \in Slots : owner[j] # m
    /\ owner' = [owner EXCEPT ![i] = m]
    /\ UNCHANGED uses

Use(m, i) ==
    /\ owner[i] = m
    /\ uses' = [uses EXCEPT ![m] = i]
    /\ UNCHANGED owner

Leave(m) ==
    /\ uses' = [uses EXCEPT ![m] = NoId]
    /\ UNCHANGED owner

Next == \E m \in Macs : Leave(m) \/ \E i \in Slots : Grant(m, i) \/ Use(m, i)

Spec == Init /\ [][Next]_vars
=============================================================================
