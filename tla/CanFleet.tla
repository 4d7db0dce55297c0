------------------------------- MODULE CanFleet -------------------------------
(***************************************************************************)
(* How the slaves on the CAN bus get their ids: the registry of the master *)
(* (can_master_task and, for deletion, the task of the web server), its    *)
(* copy in NVS, and the slaves (can_slave_task, can_slave_telemetry_task). *)
(*                                                                         *)
(* Every frame reaches every node (the filter accepts all) and any node    *)
(* can miss it.  Master and slaves keep received frames in order.          *)
(* Telemetry and jobs are single messages here; how they are cut into      *)
(* frames is CanReassembly.  There are no clocks: the receive call that    *)
(* times out may find any active slot silent for ten seconds, and a slave  *)
(* that takes a frame may find its last job ten seconds old.               *)
(***************************************************************************)
EXTENDS Integers, Sequences, FiniteSets

CONSTANTS
    Macs,         \* the slaves
    N,            \* the ids run from 1 to N (CAN_SLAVE_MAX - 1)
    Free,         \* a slot of the registry that is not used
    Unassigned,   \* CAN_SLAVE_ID_UNASSIGNED
    QueueLen,     \* bound on the frames a node has not looked at yet
    MaxFaults     \* bounds on resets of the master, power changes of slaves and deletions

Slots == 1 .. N
Registry == [Slots -> Macs \union {Free}]

ASSUME FleetAssumption ==
    /\ N \in Nat /\ QueueLen \in Nat
    /\ MaxFaults \in [master : Nat, slave : Nat, delete : Nat]
    /\ Free \notin Macs
    /\ Unassigned \notin Slots

VARIABLES
    reg,          \* s_slave_reg: used and mac
    nvs,          \* the blob in NVS
    online,       \* s_slave_reg: online
    counted,      \* the slots of which HASHRATE_MONITOR has the hash rate
    rx,           \* can_master_task: where it is, and the slave and slot it is busy with
    web,          \* can_master_delete_slave: where it is, and the blob it writes
    toMaster,     \* frames received by the master
    on,           \* the slaves that have power
    id,           \* g_can_slave_id
    inbox,        \* frames received by each slave
    faults        \* history: how often each of them has happened

masterVars == <<reg, nvs, online, counted, rx, web>>
slaveVars == <<on, id>>
vars == <<masterVars, slaveVars, toMaster, inbox, faults>>

(***************************************************************************)
(* Frames.                                                                 *)
(***************************************************************************)
Hello(m) == [type |-> "hello", mac |-> m]
Telem(i) == [type |-> "telem", slot |-> i]
ToMaster == {Hello(m) : m \in Macs} \union {Telem(i) : i \in Slots}

Boot == [type |-> "boot"]
Assign(m, i) == [type |-> "assign", mac |-> m, slot |-> i]
Job(i) == [type |-> "job", slot |-> i]
Other == [type |-> "other"]    \* a frame that is not for this slave
ToSlave == {Boot, Other} \union {Assign(m, i) : m \in Macs, i \in Slots}
           \union {Job(i) : i \in Slots}

\* twai_transmit to the slaves: those in "got" find the frame in their receive queue.
Reaches(got, frame) ==
    /\ \A m \in got : on[m] /\ Len(inbox[m]) < QueueLen
    /\ inbox' = [m \in Macs |-> IF m \in got THEN Append(inbox[m], frame) ELSE inbox[m]]

\* twai_transmit of a slave: to the master, if "taken", and as noise to other slaves.
Transmit(m, frame, taken, got) ==
    /\ taken => Len(toMaster) < QueueLen
    /\ toMaster' = IF taken THEN Append(toMaster, frame) ELSE toMaster
    /\ m \notin got
    /\ Reaches(got, Other)

(***************************************************************************)
(* The master.                                                             *)
(***************************************************************************)
Receiving == [pc |-> "receive"]
NoDelete == [pc |-> "idle"]

\* can_master_is_slave_active
Active(i) == reg[i] # Free /\ online[i]

Known(m) == {i \in Slots : reg[i] = m}
FreeSlots == {i \in Slots : reg[i] = Free}
First(S) == CHOOSE i \in S : \A j \in S : i <= j

\* Mutant: one loop looks for the slave's slot or a free one, whichever comes first.
SlotAtOnce(m) == IF Known(m) \union FreeSlots = {} THEN 0 ELSE First(Known(m) \union FreeSlots)

\* The slot of a slave that says HELLO, 0 if the registry is full.
SlotFor(m) ==
    IF Known(m) # {} THEN First(Known(m))
    ELSE IF FreeSlots # {} THEN First(FreeSlots)
    ELSE 0

\* Mutant: the slave gets its id before the registry is saved.
AssignFirst == "assign"

\* A new slave is saved before it is told.
AfterRegister == "snap"

\* Mutant: a slave that is known is not answered.
OnlyNew == "receive"

\* A known slave is told its id again.
AfterKnown == "assign"

\* handle_hello
RxHello ==
    /\ rx.pc = "receive"
    /\ toMaster # <<>> /\ Head(toMaster).type = "hello"
    /\ toMaster' = Tail(toMaster)
    /\ LET m == Head(toMaster).mac
           i == SlotFor(m)
       IN  IF i = 0 THEN UNCHANGED <<rx, reg>>
           ELSE /\ reg' = [reg EXCEPT ![i] = m]
                /\ rx' = [pc |-> IF reg[i] = m THEN AfterKnown ELSE AfterRegister,
                          mac |-> m, slot |-> i]
    /\ UNCHANGED <<nvs, online, counted, web, slaveVars, inbox, faults>>

\* nvs_save_registry, first half: the blob is copied from the registry ...
RxSnap ==
    /\ rx.pc = "snap"
    /\ rx' = [pc |-> "write", mac |-> rx.mac, slot |-> rx.slot, blob |-> reg]
    /\ UNCHANGED <<reg, nvs, online, counted, web, slaveVars, toMaster, inbox, faults>>

\* ... and second half: written.
RxWrite ==
    /\ rx.pc = "write"
    /\ nvs' = rx.blob
    /\ rx' = [pc |-> "assign", mac |-> rx.mac, slot |-> rx.slot]
    /\ UNCHANGED <<reg, online, counted, web, slaveVars, toMaster, inbox, faults>>

\* can_send_assign
RxAssign(got) ==
    /\ rx.pc = "assign"
    /\ rx' = Receiving
    /\ Reaches(got, Assign(rx.mac, rx.slot))
    /\ UNCHANGED <<reg, nvs, online, counted, web, slaveVars, toMaster, faults>>

\* handle_telemetry, which asks for no registration
RxTelem ==
    /\ rx.pc = "receive"
    /\ toMaster # <<>> /\ Head(toMaster).type = "telem"
    /\ toMaster' = Tail(toMaster)
    /\ LET i == Head(toMaster).slot
       IN  /\ online' = [online EXCEPT ![i] = TRUE]
           /\ counted' = {j \in Slots : reg[j] # Free /\ online'[j]}
    /\ UNCHANGED <<reg, nvs, rx, web, slaveVars, inbox, faults>>

\* Mutant: the loop over the slots ends one early.
AllButLast == {i \in Slots \ {N} : Active(i)}

\* The slots check_slave_timeouts looks at.
Watched == {i \in Slots : Active(i)}

\* Mutant: the hash rate is left as it is.
KeepCounted(gone) == counted

\* The sum over the slots that are still active.
Recount(gone) == {i \in Slots : Active(i)} \ gone

\* The receive call has timed out ten times and telemetry is overdue: check_slave_timeouts.
RxTimeout(gone) ==
    /\ rx.pc = "receive" /\ toMaster = <<>>
    /\ gone # {} /\ gone \subseteq Watched
    /\ online' = [i \in Slots |-> online[i] /\ i \notin gone]
    /\ counted' = Recount(gone)
    /\ UNCHANGED <<reg, nvs, rx, web, slaveVars, toMaster, inbox, faults>>

\* create_jobs_task sends a job to an active slave.
SendJob(i, got) ==
    /\ Active(i)
    /\ Reaches(got, Job(i))
    /\ UNCHANGED <<masterVars, slaveVars, toMaster, faults>>

Fault(kind) ==
    /\ faults[kind] < MaxFaults[kind]
    /\ faults' = [faults EXCEPT ![kind] = @ + 1]

\* can_master_delete_slave: the slot is cleared, then the registry is saved.
WebDelete(i) ==
    /\ web.pc = "idle" /\ reg[i] # Free
    /\ Fault("delete")
    /\ reg' = [reg EXCEPT ![i] = Free]
    /\ online' = [online EXCEPT ![i] = FALSE]
    /\ web' = [pc |-> "snap"]
    /\ UNCHANGED <<nvs, counted, rx, slaveVars, toMaster, inbox>>

WebSnap ==
    /\ web.pc = "snap"
    /\ web' = [pc |-> "write", blob |-> reg]
    /\ UNCHANGED <<reg, nvs, online, counted, rx, slaveVars, toMaster, inbox, faults>>

WebWrite ==
    /\ web.pc = "write"
    /\ nvs' = web.blob
    /\ web' = NoDelete
    /\ UNCHANGED <<reg, online, counted, rx, slaveVars, toMaster, inbox, faults>>

\* The master restarts: nvs_load_registry, then MASTER_BOOT.
MasterReset(got) ==
    /\ Fault("master")
    /\ reg' = nvs
    /\ online' = [i \in Slots |-> FALSE]
    /\ counted' = {}
    /\ rx' = Receiving /\ web' = NoDelete
    /\ toMaster' = <<>>
    /\ Reaches(got, Boot)
    /\ UNCHANGED <<nvs, slaveVars>>

(***************************************************************************)
(* The slaves.                                                             *)
(***************************************************************************)
\* HELLO, once a second while unassigned.
SendHello(m, taken, got) ==
    /\ on[m] /\ id[m] = Unassigned
    /\ Transmit(m, Hello(m), taken, got)
    /\ UNCHANGED <<masterVars, slaveVars, faults>>

\* can_slave_telemetry_task
SendTelemetry(m, taken, got) ==
    /\ on[m] /\ id[m] # Unassigned
    /\ Transmit(m, Telem(id[m]), taken, got)
    /\ UNCHANGED <<masterVars, slaveVars, faults>>

\* can_slave_task takes the next frame.
TakeFrame(m) == inbox[m] # <<>> /\ inbox' = [inbox EXCEPT ![m] = Tail(@)]

IsAssignFor(m, frame) == frame.type = "assign" /\ frame.mac = m

SlaveAssign(m) ==
    /\ TakeFrame(m)
    /\ IsAssignFor(m, Head(inbox[m]))
    /\ id' = [id EXCEPT ![m] = Head(inbox[m]).slot]
    /\ UNCHANGED <<masterVars, on, toMaster, faults>>

\* Frames that may make a slave negotiate again: MASTER_BOOT always, anything but an ASSIGN
\* when it is active and there was no job for ten seconds.
Restarts(m, frame) ==
    \/ frame.type = "boot"
    \/ frame.type # "assign" /\ id[m] # Unassigned

SlaveRestart(m) ==
    /\ TakeFrame(m)
    /\ Restarts(m, Head(inbox[m]))
    /\ id' = [id EXCEPT ![m] = Unassigned]
    /\ UNCHANGED <<masterVars, on, toMaster, faults>>

\* A job, which changes nothing else here, or a frame that is not for this slave.
SlaveFrame(m) ==
    /\ TakeFrame(m)
    /\ ~IsAssignFor(m, Head(inbox[m])) /\ Head(inbox[m]).type # "boot"
    /\ UNCHANGED <<masterVars, slaveVars, toMaster, faults>>

\* A slave loses power or gets it back.
SlavePower(m) ==
    /\ Fault("slave")
    /\ on' = [on EXCEPT ![m] = ~@]
    /\ id' = [id EXCEPT ![m] = Unassigned]
    /\ inbox' = [inbox EXCEPT ![m] = <<>>]
    /\ UNCHANGED <<masterVars, toMaster>>

-----------------------------------------------------------------------------
\* The first boot, nothing saved; the slaves are switched on or not.
Init ==
    /\ reg = [i \in Slots |-> Free] /\ nvs = reg
    /\ online = [i \in Slots |-> FALSE]
    /\ counted = {}
    /\ rx = Receiving /\ web = NoDelete
    /\ toMaster = <<>>
    /\ on \in [Macs -> BOOLEAN]
    /\ id = [m \in Macs |-> Unassigned]
    /\ inbox = [m \in Macs |-> <<>>]
    /\ faults = [master |-> 0, slave |-> 0, delete |-> 0]

Master ==
    \/ RxHello \/ RxSnap \/ RxWrite \/ RxTelem
    \/ \E gone \in SUBSET Slots : RxTimeout(gone)
    \/ WebSnap \/ WebWrite
    \/ \E i \in Slots : WebDelete(i)
    \/ \E got \in SUBSET Macs :
        RxAssign(got) \/ MasterReset(got) \/ \E i \in Slots : SendJob(i, got)

Slave(m) ==
    \/ \E taken \in BOOLEAN, got \in SUBSET Macs :
        SendHello(m, taken, got) \/ SendTelemetry(m, taken, got)
    \/ SlaveAssign(m) \/ SlaveRestart(m) \/ SlaveFrame(m)
    \/ SlavePower(m)

Next == Master \/ \E m \in Macs : Slave(m)

Spec == Init /\ [][Next]_vars

(***************************************************************************)
(* The tasks keep running, and links are fair: a slave that is sent one    *)
(* ASSIGN after the other does not miss them all, the master does not miss *)
(* every HELLO, and there are pauses on the bus (a frame takes a quarter   *)
(* of a millisecond, a slave sends a few every second), so that the        *)
(* receive call times out and telemetry that stopped is found overdue.     *)
(***************************************************************************)
AssignSent(m, got) == rx.pc = "assign" /\ rx.mac = m /\ RxAssign(got)

LinkIsFair(m) ==
    []<><<\E got \in SUBSET Macs : AssignSent(m, got)>>_vars
        => []<><<\E got \in SUBSET Macs : m \in got /\ AssignSent(m, got)>>_vars

Fairness ==
    /\ WF_vars(RxHello) /\ WF_vars(RxSnap) /\ WF_vars(RxWrite) /\ WF_vars(RxTelem)
    /\ WF_vars(\E got \in SUBSET Macs : RxAssign(got))
    /\ \A i \in Slots : SF_vars(\E gone \in SUBSET Slots : i \in gone /\ RxTimeout(gone))
    /\ \A m \in Macs :
        /\ SF_vars(\E got \in SUBSET Macs : SendHello(m, TRUE, got))
        /\ WF_vars(SlaveAssign(m) \/ SlaveRestart(m) \/ SlaveFrame(m))
        /\ LinkIsFair(m)
    /\ []<>(rx.pc = "receive" /\ toMaster = <<>>)

FairSpec == Spec /\ Fairness

-----------------------------------------------------------------------------
RxStates ==
    {Receiving}
    \union [pc : {"snap", "assign"}, mac : Macs, slot : Slots]
    \union [pc : {"write"}, mac : Macs, slot : Slots, blob : Registry]

WebStates == {NoDelete, [pc |-> "snap"]} \union [pc : {"write"}, blob : Registry]

TypeOK ==
    /\ reg \in Registry /\ nvs \in Registry
    /\ online \in [Slots -> BOOLEAN]
    /\ counted \in SUBSET Slots
    /\ rx \in RxStates /\ web \in WebStates
    /\ toMaster \in Seq(ToMaster)
    /\ on \in [Macs -> BOOLEAN]
    /\ id \in [Macs -> Slots \union {Unassigned}]
    /\ inbox \in [Macs -> Seq(ToSlave)]
    /\ faults \in [master : Nat, slave : Nat, delete : Nat]

\* A slave never has two slots, in the registry or in what a restart would restore, whatever
\* is deleted and whatever order the two tasks save in.
OneSlotPerSlave ==
    \A i, j \in Slots :
        /\ reg[i] = reg[j] => i = j \/ reg[i] = Free
        /\ nvs[i] = nvs[j] => i = j \/ nvs[i] = Free

-----------------------------------------------------------------------------
(***************************************************************************)
(* The abstract specification.  A slave's id is granted when it is in NVS. *)
(***************************************************************************)
Ids == INSTANCE IdRegistry WITH NoId <- Unassigned, owner <- nvs, uses <- id

\* Master and slaves together keep the promises of IdRegistry, through any restarts, losses and
\* timeouts, if the web server deletes no slave (MaxFaults.delete is 0): a slave is told an id
\* only once it is saved, a save keeps all ids that were, and none changes hands.
ImplementsIdRegistry == Ids!Spec

-----------------------------------------------------------------------------
NoDeletion == faults.delete = 0

\* Until a slave is deleted, the id of every slave is registered for it and will be after
\* the next restart of the master: no two slaves ever have the same id, and so the same work.
IdsAreRegistered ==
    NoDeletion => \A m \in Macs : id[m] # Unassigned => reg[id[m]] = m /\ nvs[id[m]] = m

\* Until a slave is deleted, the hash rate that is reported is that of the active slaves.
HashrateOfActive == NoDeletion => counted = {i \in Slots : Active(i)}

\* No two slaves have the same id: the id selects the search space of a slave.
IdsAreUnique == \A m, o \in Macs : id[m] = id[o] => m = o \/ id[m] = Unassigned

\* Unless slaves are deleted, every slave with power has its id again and again, whatever is
\* lost, whoever restarts and however long there are no jobs.
SlavesComeBack ==
    \A m \in Macs : []<>(on[m] /\ NoDeletion => id[m] # Unassigned)

\* A slot whose id no slave uses any longer is taken off line.
DeadSlotsGoOffline ==
    \A i \in Slots : <>[](\A m \in Macs : id[m] # i) => <>[](~Active(i))
=============================================================================
