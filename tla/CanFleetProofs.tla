--------------------------- MODULE CanFleetProofs ---------------------------
(***************************************************************************)
(* Proofs about CanFleet, for any slaves, any number of slots, queues of   *)
(* any length and any number of resets and deletions.                      *)
(***************************************************************************)
EXTENDS CanFleet, Induction, TLAPS

\* An ASSIGN on its way tells the truth about what the master has saved.
Truthful(frame) == frame.type = "assign" => nvs[frame.slot] = frame.mac

AllTruthful(s) == \A k \in 1 .. Len(s) : Truthful(s[k])

Injective(f) == \A i, j \in Slots : f[i] = f[j] => i = j \/ f[i] = Free

\* The registry, what is saved and what is about to be saved give no slave two slots.
Injections ==
    /\ Injective(reg) /\ Injective(nvs)
    /\ rx.pc = "write" => Injective(rx.blob)
    /\ web.pc = "write" => Injective(web.blob)

(***************************************************************************)
(* As long as nothing is deleted, NVS holds the registry whenever the      *)
(* receiver task is not between registering a slave and saving it, and a   *)
(* slave is told its id only afterwards.                                   *)
(***************************************************************************)
Saved ==
    NoDeletion =>
        /\ web = NoDelete
        /\ \A i \in Slots : nvs[i] # Free => nvs[i] = reg[i]
        /\ rx.pc \in {"receive", "assign"} => nvs = reg
        /\ rx.pc = "write" => rx.blob = reg
        /\ rx.pc # "receive" => reg[rx.slot] = rx.mac
        /\ \A m \in Macs : id[m] # Unassigned => nvs[id[m]] = m
        /\ \A m \in Macs : AllTruthful(inbox[m])

IInv == TypeOK /\ Injections /\ Saved

-----------------------------------------------------------------------------
\* The slot handle_hello picks is the slave's own or, only if it has none, a free one.
LEMMA FirstIsIn == ASSUME NEW S \in SUBSET Slots, S # {} PROVE First(S) \in S
  <1>1. S \in SUBSET Nat
    BY FleetAssumption DEF Slots
  <1>2. PICK i \in S : TRUE
    OBVIOUS
  <1>3. \E j \in S : \A k \in S : j <= k
    BY <1>1, <1>2, LeastNatural
  <1> QED BY <1>3 DEF First

LEMMA SlotForIsSafe ==
    ASSUME TypeOK, NEW m \in Macs, SlotFor(m) # 0
    PROVE  /\ SlotFor(m) \in Slots
           /\ \/ reg[SlotFor(m)] = m
              \/ reg[SlotFor(m)] = Free /\ \A i \in Slots : reg[i] # m
  <1>1. CASE Known(m) # {}
    <2>1. First(Known(m)) \in Known(m)
      BY <1>1, FirstIsIn DEF Known
    <2> QED BY <1>1, <2>1 DEF SlotFor, Known
  <1>2. CASE Known(m) = {} /\ FreeSlots # {}
    <2>1. First(FreeSlots) \in FreeSlots
      BY <1>2, FirstIsIn DEF FreeSlots
    <2> QED BY <1>2, <2>1 DEF SlotFor, Known, FreeSlots
  <1> QED BY <1>1, <1>2 DEF SlotFor

\* What a queue holds after a frame was appended to it or taken from it.
LEMMA AppendTruthful ==
    ASSUME NEW s \in Seq(ToSlave), NEW f \in ToSlave, AllTruthful(s), Truthful(f)
    PROVE  AllTruthful(Append(s, f))
  <1>1. Len(Append(s, f)) = Len(s) + 1 /\ Append(s, f)[Len(s) + 1] = f
        /\ \A k \in 1 .. Len(s) : Append(s, f)[k] = s[k]
    BY SMT
  <1>2. Len(s) \in Nat
    BY SMT
  <1> SUFFICES ASSUME NEW k \in 1 .. Len(s) + 1 PROVE Truthful(Append(s, f)[k])
    BY <1>1 DEF AllTruthful
  <1>3. CASE k \in 1 .. Len(s)
    BY <1>1, <1>3 DEF AllTruthful
  <1>4. CASE k = Len(s) + 1
    BY <1>1, <1>4
  <1> QED BY <1>2, <1>3, <1>4

LEMMA TailTruthful ==
    ASSUME NEW s \in Seq(ToSlave), s # <<>>, AllTruthful(s)
    PROVE  Truthful(Head(s)) /\ AllTruthful(Tail(s))
  <1>1. Len(s) \in Nat /\ Len(s) > 0 /\ Head(s) = s[1]
    BY SMT
  <1>2. Len(Tail(s)) = Len(s) - 1 /\ \A k \in 1 .. Len(s) - 1 : Tail(s)[k] = s[k + 1]
    BY <1>1, SMT
  <1>3. Truthful(s[1])
    BY <1>1 DEF AllTruthful
  <1>4. ASSUME NEW k \in 1 .. Len(s) - 1 PROVE Truthful(s[k + 1])
    <2>1. k + 1 \in 1 .. Len(s)
      BY <1>1
    <2> QED BY <2>1 DEF AllTruthful
  <1> QED BY <1>1, <1>2, <1>3, <1>4 DEF AllTruthful

\* What a broadcast does to the queues of the slaves.
LEMMA ReachesQueues ==
    ASSUME TypeOK, NEW got, NEW f \in ToSlave, Reaches(got, f)
    PROVE  /\ inbox' \in [Macs -> Seq(ToSlave)]
           /\ (\A m \in Macs : AllTruthful(inbox[m])) /\ Truthful(f)
                => \A m \in Macs : AllTruthful(inbox'[m])
  <1>1. inbox' = [m \in Macs |-> IF m \in got THEN Append(inbox[m], f) ELSE inbox[m]]
        /\ inbox \in [Macs -> Seq(ToSlave)]
    BY DEF Reaches, TypeOK
  <1>2. \A m \in Macs : Append(inbox[m], f) \in Seq(ToSlave)
    BY <1>1, SMT
  <1>3. ASSUME \A m \in Macs : AllTruthful(inbox[m]), Truthful(f), NEW m \in Macs
        PROVE  AllTruthful(inbox'[m])
    <2>1. inbox[m] \in Seq(ToSlave)
      BY <1>1
    <2>2. AllTruthful(Append(inbox[m], f))
      BY <1>3, <2>1, AppendTruthful
    <2> QED BY <1>1, <1>3, <2>2
  <1> QED BY <1>1, <1>2, <1>3

\* What taking a frame does.
LEMMA TakeFrameQueues ==
    ASSUME TypeOK, NEW m \in Macs, TakeFrame(m)
    PROVE  /\ inbox' \in [Macs -> Seq(ToSlave)] /\ Head(inbox[m]) \in ToSlave
           /\ (\A o \in Macs : AllTruthful(inbox[o]))
                => Truthful(Head(inbox[m])) /\ \A o \in Macs : AllTruthful(inbox'[o])
  <1>1. inbox[m] # <<>> /\ inbox' = [inbox EXCEPT ![m] = Tail(inbox[m])]
        /\ inbox \in [Macs -> Seq(ToSlave)]
    BY DEF TakeFrame, TypeOK
  <1>2. inbox[m] \in Seq(ToSlave)
    BY <1>1
  <1>3. Tail(inbox[m]) \in Seq(ToSlave) /\ Head(inbox[m]) \in ToSlave
    BY <1>1, <1>2, SMT
  <1>4. ASSUME \A o \in Macs : AllTruthful(inbox[o])
        PROVE  Truthful(Head(inbox[m])) /\ \A o \in Macs : AllTruthful(inbox'[o])
    <2>1. Truthful(Head(inbox[m])) /\ AllTruthful(Tail(inbox[m]))
      BY <1>1, <1>2, <1>4, TailTruthful
    <2> QED BY <1>1, <1>4, <2>1
  <1> QED BY <1>1, <1>3, <1>4

\* The queue of the master, after a slave has sent a frame and after the master took one.
LEMMA TransmitQueue ==
    ASSUME TypeOK, NEW m, NEW f \in ToMaster, NEW taken, NEW got, Transmit(m, f, taken, got)
    PROVE  toMaster' \in Seq(ToMaster)
  <1>1. toMaster \in Seq(ToMaster)
        /\ toMaster' = IF taken THEN Append(toMaster, f) ELSE toMaster
    BY DEF Transmit, TypeOK
  <1> QED BY <1>1, SMT

LEMMA MasterQueue ==
    ASSUME TypeOK, toMaster # <<>>
    PROVE  /\ Head(toMaster) \in ToMaster /\ Tail(toMaster) \in Seq(ToMaster)
           /\ Head(toMaster).type = "hello" => Head(toMaster).mac \in Macs
           /\ Head(toMaster).type = "telem" => Head(toMaster).slot \in Slots
  <1>1. Head(toMaster) \in ToMaster /\ Tail(toMaster) \in Seq(ToMaster)
    BY SMT DEF TypeOK
  <1>2. \A f \in ToMaster : /\ f.type = "hello" => f.mac \in Macs
                            /\ f.type = "telem" => f.slot \in Slots
    BY DEF ToMaster, Hello, Telem
  <1> QED BY <1>1, <1>2

\* Where the receiver task is, and what it has in hand there.
LEMMA RxFields ==
    ASSUME TypeOK
    PROVE  /\ rx.pc \in {"receive", "snap", "write", "assign"}
           /\ rx.pc # "receive" => rx.mac \in Macs /\ rx.slot \in Slots
           /\ rx.pc = "write" => rx.blob \in Registry
  BY DEF TypeOK, RxStates, Receiving

LEMMA Frames ==
    /\ Boot \in ToSlave /\ Other \in ToSlave
    /\ \A m \in Macs, i \in Slots : Assign(m, i) \in ToSlave
    /\ \A i \in Slots : Job(i) \in ToSlave
    /\ \A f \in ToSlave : f.type = "assign" => f.mac \in Macs /\ f.slot \in Slots
    /\ \A m \in Macs : Hello(m) \in ToMaster
    /\ \A i \in Slots : Telem(i) \in ToMaster
  <1>1. Boot \in ToSlave /\ Other \in ToSlave
        /\ (\A m \in Macs, i \in Slots : Assign(m, i) \in ToSlave)
        /\ (\A i \in Slots : Job(i) \in ToSlave)
    BY DEF ToSlave
  <1>2. ASSUME NEW f \in ToSlave, f.type = "assign" PROVE f.mac \in Macs /\ f.slot \in Slots
    <2>1. f # Boot /\ f # Other /\ \A i \in Slots : f # Job(i)
      BY <1>2 DEF Boot, Other, Job
    <2>2. PICK m \in Macs, i \in Slots : f = Assign(m, i)
      BY <2>1 DEF ToSlave
    <2> QED BY <2>2 DEF Assign
  <1>3. (\A m \in Macs : Hello(m) \in ToMaster) /\ (\A i \in Slots : Telem(i) \in ToMaster)
    BY DEF ToMaster
  <1> QED BY <1>1, <1>2, <1>3
-----------------------------------------------------------------------------
(***************************************************************************)
(* The steps.                                                              *)
(***************************************************************************)
LEMMA InitHolds == ASSUME Init PROVE IInv
  <1>1. reg \in Registry /\ nvs = reg /\ \A i \in Slots : reg[i] = Free
    BY DEF Init, Registry
  <1>2. inbox = [m \in Macs |-> <<>>] /\ toMaster = <<>> /\ id = [m \in Macs |-> Unassigned]
        /\ rx = Receiving /\ web = NoDelete
    BY DEF Init
  <1>3. TypeOK
    <2>1. inbox \in [Macs -> Seq(ToSlave)] /\ toMaster \in Seq(ToMaster)
      BY <1>2, SMT
    <2>2. rx \in RxStates /\ web \in WebStates
      BY <1>2 DEF RxStates, WebStates
    <2>3. faults \in [master : Nat, slave : Nat, delete : Nat]
      BY DEF Init
    <2>4. online \in [Slots -> BOOLEAN] /\ counted \in SUBSET Slots
          /\ on \in [Macs -> BOOLEAN] /\ id \in [Macs -> Slots \union {Unassigned}]
      BY DEF Init
    <2> QED BY <1>1, <2>1, <2>2, <2>3, <2>4 DEF TypeOK
  <1>4. Injections
    BY <1>1, <1>2 DEF Injections, Injective, Receiving, NoDelete
  <1>5. Saved
    BY <1>1, <1>2 DEF Saved, AllTruthful, Receiving
  <1> QED BY <1>3, <1>4, <1>5 DEF IInv

\* A slave is registered: in its own slot, or in a free one if it has none.
LEMMA RxHelloStep == ASSUME IInv, RxHello PROVE IInv'
  <1> USE DEF IInv
  <1> DEFINE m == Head(toMaster).mac
             i == SlotFor(m)
  <1>1. /\ rx.pc = "receive" /\ toMaster' = Tail(toMaster)
        /\ nvs' = nvs /\ online' = online /\ counted' = counted /\ web' = web
        /\ on' = on /\ id' = id /\ inbox' = inbox /\ faults' = faults
        /\ m \in Macs /\ toMaster' \in Seq(ToMaster)
    BY MasterQueue DEF RxHello, slaveVars
  <1>2. CASE i = 0
    <2>1. rx' = rx /\ reg' = reg
      BY <1>2 DEF RxHello
    <2> QED BY <1>1, <2>1 DEF TypeOK, Injections, Saved, NoDeletion, Truthful, AllTruthful
  <1>3. CASE i # 0
    <2>1. /\ reg' = [reg EXCEPT ![i] = m]
          /\ rx' = [pc |-> IF reg[i] = m THEN "assign" ELSE "snap", mac |-> m, slot |-> i]
      BY <1>3 DEF RxHello, AfterKnown, AfterRegister
    <2>2. /\ i \in Slots
          /\ reg[i] = m \/ (reg[i] = Free /\ \A j \in Slots : reg[j] # m)
      <3>1. TypeOK /\ m \in Macs /\ SlotFor(m) # 0
        BY <1>1, <1>3
      <3> HIDE DEF m
      <3> QED BY <3>1, SlotForIsSafe
    <2> HIDE DEF m, i
    <2>3. TypeOK'
      <3>1. reg' \in Registry
        BY <1>1, <2>1, <2>2 DEF TypeOK, Registry
      <3>2. rx' \in RxStates
        BY <1>1, <2>1, <2>2 DEF RxStates
      <3> QED BY <1>1, <3>1, <3>2 DEF TypeOK
    <2>4. Injections'
      <3>1. \A j \in Slots : reg'[j] = IF j = i THEN m ELSE reg[j]
        BY <2>1, <2>2 DEF TypeOK, Registry
      <3>2. Injective(reg')
        BY <2>2, <3>1 DEF Injections, Injective
      <3> QED BY <1>1, <2>1, <3>2 DEF Injections, Injective
    <2>5. Saved'
      <3> SUFFICES ASSUME NoDeletion' PROVE Saved'
        BY DEF Saved
      <3>1. NoDeletion /\ nvs = reg /\ m # Free
        BY <1>1, FleetAssumption DEF Saved, NoDeletion
      <3>2. \A j \in Slots : reg'[j] = IF j = i THEN m ELSE reg[j]
        BY <2>1, <2>2 DEF TypeOK, Registry
      <3>3. \A j \in Slots : nvs'[j] # Free => nvs'[j] = reg'[j]
        BY <1>1, <2>2, <3>1, <3>2
      <3>4. rx'.pc \in {"receive", "assign"} => nvs' = reg'
        <4>1. reg[i] = m => reg' = reg
          BY <2>1, <2>2 DEF TypeOK, Registry
        <4> QED BY <1>1, <2>1, <3>1, <4>1
      <3>5. rx'.pc # "write" /\ reg'[rx'.slot] = rx'.mac
        BY <2>1, <2>2, <3>2
      <3> QED BY <1>1, <3>1, <3>3, <3>4, <3>5 DEF Saved, Truthful, AllTruthful
    <2> QED BY <2>3, <2>4, <2>5
  <1> QED BY <1>2, <1>3
-----------------------------------------------------------------------------

\* The copy RxSnap takes and what RxWrite saves.
LEMMA RxSnapStep == ASSUME IInv, RxSnap PROVE IInv'
  <1> USE DEF IInv
  <1>1. /\ rx.pc = "snap" /\ rx.mac \in Macs /\ rx.slot \in Slots
        /\ rx' = [pc |-> "write", mac |-> rx.mac, slot |-> rx.slot, blob |-> reg]
        /\ reg' = reg /\ nvs' = nvs /\ online' = online /\ counted' = counted /\ web' = web
        /\ on' = on /\ id' = id /\ inbox' = inbox /\ faults' = faults /\ toMaster' = toMaster
    BY RxFields DEF RxSnap, slaveVars
  <1>2. TypeOK'
    <2>1. rx' \in RxStates
      BY <1>1 DEF RxStates, TypeOK
    <2> QED BY <1>1, <2>1 DEF TypeOK
  <1>3. Injections'
    BY <1>1 DEF Injections, Injective
  <1>4. Saved'
    BY <1>1 DEF Saved, NoDeletion, Truthful, AllTruthful
  <1> QED BY <1>2, <1>3, <1>4

LEMMA RxWriteStep == ASSUME IInv, RxWrite PROVE IInv'
  <1> USE DEF IInv
  <1>1. /\ rx.pc = "write" /\ rx.mac \in Macs /\ rx.slot \in Slots /\ rx.blob \in Registry
        /\ nvs' = rx.blob /\ rx' = [pc |-> "assign", mac |-> rx.mac, slot |-> rx.slot]
        /\ reg' = reg /\ online' = online /\ counted' = counted /\ web' = web
        /\ on' = on /\ id' = id /\ inbox' = inbox /\ faults' = faults /\ toMaster' = toMaster
    BY RxFields DEF RxWrite, slaveVars
  <1>2. TypeOK'
    <2>1. rx' \in RxStates
      BY <1>1 DEF RxStates
    <2> QED BY <1>1, <2>1 DEF TypeOK
  <1>3. Injections'
    BY <1>1 DEF Injections, Injective
  <1>4. Saved'
    <2> SUFFICES ASSUME NoDeletion' PROVE Saved'
      BY DEF Saved
    <2>1. NoDeletion /\ rx.blob = reg /\ nvs' = reg /\ rx'.pc = "assign"
      BY <1>1 DEF Saved, NoDeletion
    <2>2. \A i \in Slots : nvs[i] # Free => nvs'[i] = nvs[i]
      BY <2>1 DEF Saved
    <2>3. \A o \in Macs : id'[o] # Unassigned => nvs'[id'[o]] = o
      BY <1>1, <2>1, <2>2, FleetAssumption DEF Saved, TypeOK
    <2>4. ASSUME NEW f \in ToSlave, Truthful(f) PROVE Truthful(f)'
      BY <1>1, <2>2, <2>4, Frames, FleetAssumption DEF Truthful
    <2>5. ASSUME NEW o \in Macs PROVE AllTruthful(inbox[o])'
      <3>1. inbox[o] \in Seq(ToSlave) /\ AllTruthful(inbox[o])
        BY <2>1 DEF TypeOK, Saved
      <3>2. \A k \in 1 .. Len(inbox[o]) : inbox[o][k] \in ToSlave
        BY <3>1, SMT
      <3> QED BY <1>1, <2>4, <3>1, <3>2 DEF AllTruthful
    <2>6. reg'[rx'.slot] = rx'.mac
      BY <1>1, <2>1 DEF Saved
    <2> QED BY <1>1, <2>1, <2>3, <2>5, <2>6 DEF Saved
  <1> QED BY <1>2, <1>3, <1>4

LEMMA RxAssignStep == ASSUME IInv, NEW got, RxAssign(got) PROVE IInv'
  <1> USE DEF IInv
  <1> DEFINE f == Assign(rx.mac, rx.slot)
  <1>1. /\ rx.pc = "assign" /\ rx.mac \in Macs /\ rx.slot \in Slots
        /\ rx' = Receiving /\ Reaches(got, f) /\ f \in ToSlave
        /\ reg' = reg /\ nvs' = nvs /\ online' = online /\ counted' = counted /\ web' = web
        /\ on' = on /\ id' = id /\ faults' = faults /\ toMaster' = toMaster
    BY RxFields, Frames DEF RxAssign, slaveVars
  <1>2. TypeOK'
    <2>1. rx' \in RxStates /\ inbox' \in [Macs -> Seq(ToSlave)]
      BY <1>1, ReachesQueues DEF RxStates
    <2> QED BY <1>1, <2>1 DEF TypeOK
  <1>3. Injections'
    BY <1>1 DEF Injections, Injective, Receiving
  <1>4. Saved'
    <2> SUFFICES ASSUME NoDeletion' PROVE Saved'
      BY DEF Saved
    <2>1. NoDeletion /\ nvs = reg /\ reg[rx.slot] = rx.mac
      BY <1>1 DEF Saved, NoDeletion
    <2>2. Truthful(f)
      BY <2>1 DEF Truthful, Assign
    <2>3. \A m \in Macs : AllTruthful(inbox'[m])
      BY <1>1, <2>1, <2>2, ReachesQueues DEF Saved
    <2> QED BY <1>1, <2>1, <2>3 DEF Saved, Receiving, Truthful, AllTruthful
  <1> QED BY <1>2, <1>3, <1>4

\* Telemetry and timeouts leave the registry alone.
LEMMA RxTelemStep == ASSUME IInv, RxTelem PROVE IInv'
  <1> USE DEF IInv
  <1>1. /\ toMaster' \in Seq(ToMaster)
        /\ online' \in [Slots -> BOOLEAN] /\ counted' \in SUBSET Slots
        /\ reg' = reg /\ nvs' = nvs /\ rx' = rx /\ web' = web
        /\ on' = on /\ id' = id /\ inbox' = inbox /\ faults' = faults
    BY MasterQueue DEF RxTelem, slaveVars, TypeOK
  <1> QED BY <1>1 DEF TypeOK, Injections, Injective, Saved, NoDeletion, Truthful, AllTruthful

LEMMA RxTimeoutStep == ASSUME IInv, NEW gone \in SUBSET Slots, RxTimeout(gone) PROVE IInv'
  <1> USE DEF IInv
  <1>1. /\ online' \in [Slots -> BOOLEAN] /\ counted' \in SUBSET Slots
        /\ reg' = reg /\ nvs' = nvs /\ rx' = rx /\ web' = web /\ toMaster' = toMaster
        /\ on' = on /\ id' = id /\ inbox' = inbox /\ faults' = faults
    BY DEF RxTimeout, slaveVars, TypeOK, Recount
  <1> QED BY <1>1 DEF TypeOK, Injections, Injective, Saved, NoDeletion, Truthful, AllTruthful
-----------------------------------------------------------------------------

\* A step that only puts a frame other than ASSIGN into the queues of slaves.
LEMMA NoiseStep ==
    ASSUME IInv, NEW got, NEW f \in ToSlave, f.type # "assign", Reaches(got, f),
           UNCHANGED <<masterVars, slaveVars, faults>>, toMaster' \in Seq(ToMaster)
    PROVE  IInv'
  <1> USE DEF IInv
  <1>1. /\ reg' = reg /\ nvs' = nvs /\ online' = online /\ counted' = counted
        /\ rx' = rx /\ web' = web /\ on' = on /\ id' = id /\ faults' = faults
    BY DEF masterVars, slaveVars
  <1>2. inbox' \in [Macs -> Seq(ToSlave)]
        /\ ((\A m \in Macs : AllTruthful(inbox[m])) => \A m \in Macs : AllTruthful(inbox'[m]))
    BY ReachesQueues DEF Truthful
  <1>3. TypeOK' /\ Injections'
    BY <1>1, <1>2 DEF TypeOK, Injections, Injective
  <1>4. Saved'
    BY <1>1, <1>2 DEF Saved, NoDeletion, Truthful, AllTruthful
  <1> QED BY <1>3, <1>4

LEMMA SendJobStep == ASSUME IInv, NEW i \in Slots, NEW got, SendJob(i, got) PROVE IInv'
  <1>1. Job(i) \in ToSlave /\ Job(i).type # "assign" /\ toMaster' \in Seq(ToMaster)
    BY Frames DEF Job, SendJob, IInv, TypeOK
  <1>2. Reaches(got, Job(i)) /\ UNCHANGED <<masterVars, slaveVars, faults>>
    BY DEF SendJob
  <1> QED BY <1>1, <1>2, NoiseStep

LEMMA SendHelloStep ==
    ASSUME IInv, NEW m \in Macs, NEW taken, NEW got, SendHello(m, taken, got) PROVE IInv'
  <1>1. Other \in ToSlave /\ Other.type # "assign" /\ Hello(m) \in ToMaster
    BY Frames DEF Other
  <1>2. Transmit(m, Hello(m), taken, got) /\ UNCHANGED <<masterVars, slaveVars, faults>>
    BY DEF SendHello
  <1>3. Reaches(got, Other) /\ toMaster' \in Seq(ToMaster)
    BY <1>1, <1>2, TransmitQueue DEF Transmit, IInv
  <1> QED BY <1>1, <1>2, <1>3, NoiseStep

LEMMA SendTelemetryStep ==
    ASSUME IInv, NEW m \in Macs, NEW taken, NEW got, SendTelemetry(m, taken, got) PROVE IInv'
  <1>1. id[m] \in Slots
    BY DEF SendTelemetry, IInv, TypeOK
  <1>2. Other \in ToSlave /\ Other.type # "assign" /\ Telem(id[m]) \in ToMaster
    BY <1>1, Frames DEF Other
  <1>3. Transmit(m, Telem(id[m]), taken, got) /\ UNCHANGED <<masterVars, slaveVars, faults>>
    BY DEF SendTelemetry
  <1>4. Reaches(got, Other) /\ toMaster' \in Seq(ToMaster)
    BY <1>2, <1>3, TransmitQueue DEF Transmit, IInv
  <1> QED BY <1>2, <1>3, <1>4, NoiseStep

\* The counters of faults only grow, so that a deletion is never forgotten.
LEMMA FaultCounts ==
    ASSUME TypeOK, NEW kind \in {"master", "slave", "delete"}, Fault(kind)
    PROVE  /\ faults' \in [master : Nat, slave : Nat, delete : Nat]
           /\ kind = "delete" => ~NoDeletion'
           /\ NoDeletion' => NoDeletion
  <1>1. faults' = [faults EXCEPT ![kind] = faults[kind] + 1]
        /\ faults \in [master : Nat, slave : Nat, delete : Nat]
    BY DEF Fault, TypeOK
  <1>2. CASE kind = "master"
    BY <1>1, <1>2 DEF NoDeletion
  <1>3. CASE kind = "slave"
    BY <1>1, <1>3 DEF NoDeletion
  <1>4. CASE kind = "delete"
    BY <1>1, <1>4 DEF NoDeletion
  <1> QED BY <1>2, <1>3, <1>4

\* The web server's deletion, which may meet the receiver task anywhere.
LEMMA WebDeleteStep == ASSUME IInv, NEW i \in Slots, WebDelete(i) PROVE IInv'
  <1> USE DEF IInv
  <1>1. /\ reg' = [reg EXCEPT ![i] = Free] /\ web' = [pc |-> "snap"]
        /\ online' = [online EXCEPT ![i] = FALSE]
        /\ nvs' = nvs /\ counted' = counted /\ rx' = rx /\ toMaster' = toMaster
        /\ on' = on /\ id' = id /\ inbox' = inbox
        /\ ~NoDeletion' /\ faults' \in [master : Nat, slave : Nat, delete : Nat]
    BY FaultCounts DEF WebDelete, slaveVars
  <1>2. TypeOK'
    <2>1. reg' \in Registry /\ online' \in [Slots -> BOOLEAN]
      BY <1>1 DEF TypeOK, Registry
    <2>2. web' \in WebStates
      BY <1>1 DEF WebStates
    <2> QED BY <1>1, <2>1, <2>2 DEF TypeOK
  <1>3. Injections'
    <2>1. \A j \in Slots : reg'[j] = IF j = i THEN Free ELSE reg[j]
      BY <1>1 DEF TypeOK, Registry
    <2>2. Injective(reg')
      BY <2>1 DEF Injections, Injective
    <2> QED BY <1>1, <2>2 DEF Injections, Injective
  <1>4. Saved'
    BY <1>1 DEF Saved
  <1> QED BY <1>2, <1>3, <1>4

LEMMA WebSnapStep == ASSUME IInv, WebSnap PROVE IInv'
  <1> USE DEF IInv
  <1>1. /\ web.pc = "snap" /\ web' = [pc |-> "write", blob |-> reg]
        /\ reg' = reg /\ nvs' = nvs /\ online' = online /\ counted' = counted /\ rx' = rx
        /\ on' = on /\ id' = id /\ inbox' = inbox /\ faults' = faults /\ toMaster' = toMaster
    BY DEF WebSnap, slaveVars
  <1>2. TypeOK'
    <2>1. web' \in WebStates
      BY <1>1 DEF WebStates, TypeOK
    <2> QED BY <1>1, <2>1 DEF TypeOK
  <1>3. Injections'
    BY <1>1 DEF Injections, Injective
  <1>4. Saved'
    BY <1>1 DEF Saved, NoDeletion, NoDelete
  <1> QED BY <1>2, <1>3, <1>4

LEMMA WebWriteStep == ASSUME IInv, WebWrite PROVE IInv'
  <1> USE DEF IInv
  <1>1. /\ web.pc = "write" /\ web.blob \in Registry /\ nvs' = web.blob /\ web' = NoDelete
        /\ reg' = reg /\ online' = online /\ counted' = counted /\ rx' = rx
        /\ on' = on /\ id' = id /\ inbox' = inbox /\ faults' = faults /\ toMaster' = toMaster
    BY DEF WebWrite, slaveVars, TypeOK, WebStates, NoDelete
  <1>2. TypeOK'
    BY <1>1 DEF TypeOK, WebStates
  <1>3. Injections'
    BY <1>1 DEF Injections, Injective, NoDelete
  <1>4. Saved'
    BY <1>1 DEF Saved, NoDeletion, NoDelete
  <1> QED BY <1>2, <1>3, <1>4

\* A restart forgets what was not saved.
LEMMA MasterResetStep == ASSUME IInv, NEW got, MasterReset(got) PROVE IInv'
  <1> USE DEF IInv
  <1>1. /\ reg' = nvs /\ nvs' = nvs /\ rx' = Receiving /\ web' = NoDelete
        /\ online' = [i \in Slots |-> FALSE] /\ counted' = {} /\ toMaster' = <<>>
        /\ on' = on /\ id' = id /\ Reaches(got, Boot)
        /\ (NoDeletion' => NoDeletion) /\ faults' \in [master : Nat, slave : Nat, delete : Nat]
    BY FaultCounts DEF MasterReset, slaveVars
  <1>2. /\ inbox' \in [Macs -> Seq(ToSlave)]
        /\ (\A m \in Macs : AllTruthful(inbox[m])) => \A m \in Macs : AllTruthful(inbox'[m])
    BY <1>1, Frames, ReachesQueues DEF Truthful, Boot
  <1>3. TypeOK'
    <2>1. toMaster' \in Seq(ToMaster)
      BY <1>1, SMT
    <2> QED BY <1>1, <1>2, <2>1 DEF TypeOK, RxStates, WebStates
  <1>4. Injections'
    BY <1>1 DEF Injections, Injective, Receiving, NoDelete
  <1>5. Saved'
    <2> SUFFICES ASSUME NoDeletion' PROVE Saved'
      BY DEF Saved
    <2> QED BY <1>1, <1>2 DEF Saved, Receiving, Truthful, AllTruthful
  <1> QED BY <1>3, <1>4, <1>5
-----------------------------------------------------------------------------

\* A slave takes the id it is told: the master has saved it.
LEMMA SlaveAssignStep == ASSUME IInv, NEW m \in Macs, SlaveAssign(m) PROVE IInv'
  <1> USE DEF IInv
  <1> DEFINE f == Head(inbox[m])
  <1>1. /\ TakeFrame(m) /\ f.type = "assign" /\ f.mac = m
        /\ id' = [id EXCEPT ![m] = f.slot]
        /\ reg' = reg /\ nvs' = nvs /\ online' = online /\ counted' = counted /\ rx' = rx
        /\ web' = web /\ on' = on /\ faults' = faults /\ toMaster' = toMaster
    BY DEF SlaveAssign, IsAssignFor, masterVars
  <1>2. /\ inbox' \in [Macs -> Seq(ToSlave)] /\ f \in ToSlave
        /\ (\A o \in Macs : AllTruthful(inbox[o]))
              => Truthful(f) /\ \A o \in Macs : AllTruthful(inbox'[o])
    BY <1>1, TakeFrameQueues
  <1>3. f.slot \in Slots
    BY <1>1, <1>2, Frames
  <1> HIDE DEF f
  <1>4. TypeOK'
    <2>1. id' \in [Macs -> Slots \union {Unassigned}]
      BY <1>1, <1>3 DEF TypeOK
    <2> QED BY <1>1, <1>2, <2>1 DEF TypeOK
  <1>5. Injections'
    BY <1>1 DEF Injections, Injective
  <1>6. Saved'
    <2> SUFFICES ASSUME NoDeletion' PROVE Saved'
      BY DEF Saved
    <2>1. NoDeletion /\ nvs[f.slot] = m
      BY <1>1, <1>2 DEF Saved, NoDeletion, Truthful
    <2>2. \A o \in Macs : id'[o] = IF o = m THEN f.slot ELSE id[o]
      BY <1>1 DEF TypeOK
    <2>3. \A o \in Macs : id'[o] # Unassigned => nvs'[id'[o]] = o
      BY <1>1, <2>1, <2>2 DEF Saved
    <2> QED BY <1>1, <1>2, <2>1, <2>3 DEF Saved, Truthful, AllTruthful
  <1> QED BY <1>4, <1>5, <1>6

\* A slave that loses its id or looks at another frame.
LEMMA SlaveRestartStep == ASSUME IInv, NEW m \in Macs, SlaveRestart(m) PROVE IInv'
  <1> USE DEF IInv
  <1>1. /\ TakeFrame(m) /\ id' = [id EXCEPT ![m] = Unassigned]
        /\ reg' = reg /\ nvs' = nvs /\ online' = online /\ counted' = counted /\ rx' = rx
        /\ web' = web /\ on' = on /\ faults' = faults /\ toMaster' = toMaster
    BY DEF SlaveRestart, masterVars
  <1>2. /\ inbox' \in [Macs -> Seq(ToSlave)]
        /\ (\A o \in Macs : AllTruthful(inbox[o])) => \A o \in Macs : AllTruthful(inbox'[o])
    BY <1>1, TakeFrameQueues
  <1>3. \A o \in Macs : id'[o] = IF o = m THEN Unassigned ELSE id[o]
    BY <1>1 DEF TypeOK
  <1>4. TypeOK' /\ Injections'
    BY <1>1, <1>2 DEF TypeOK, Injections, Injective
  <1>5. Saved'
    BY <1>1, <1>2, <1>3 DEF Saved, NoDeletion, Truthful, AllTruthful
  <1> QED BY <1>4, <1>5

LEMMA SlaveFrameStep == ASSUME IInv, NEW m \in Macs, SlaveFrame(m) PROVE IInv'
  <1> USE DEF IInv
  <1>1. /\ TakeFrame(m) /\ id' = id
        /\ reg' = reg /\ nvs' = nvs /\ online' = online /\ counted' = counted /\ rx' = rx
        /\ web' = web /\ on' = on /\ faults' = faults /\ toMaster' = toMaster
    BY DEF SlaveFrame, masterVars, slaveVars
  <1>2. /\ inbox' \in [Macs -> Seq(ToSlave)]
        /\ (\A o \in Macs : AllTruthful(inbox[o])) => \A o \in Macs : AllTruthful(inbox'[o])
    BY <1>1, TakeFrameQueues
  <1>3. TypeOK' /\ Injections'
    BY <1>1, <1>2 DEF TypeOK, Injections, Injective
  <1>4. Saved'
    BY <1>1, <1>2 DEF Saved, NoDeletion, Truthful, AllTruthful
  <1> QED BY <1>3, <1>4

LEMMA SlavePowerStep == ASSUME IInv, NEW m \in Macs, SlavePower(m) PROVE IInv'
  <1> USE DEF IInv
  <1>1. /\ id' = [id EXCEPT ![m] = Unassigned] /\ on' = [on EXCEPT ![m] = ~on[m]]
        /\ inbox' = [inbox EXCEPT ![m] = <<>>]
        /\ reg' = reg /\ nvs' = nvs /\ online' = online /\ counted' = counted /\ rx' = rx
        /\ web' = web /\ toMaster' = toMaster
        /\ (NoDeletion' => NoDeletion) /\ faults' \in [master : Nat, slave : Nat, delete : Nat]
    BY FaultCounts DEF SlavePower, masterVars
  <1>2. \A o \in Macs : /\ id'[o] = IF o = m THEN Unassigned ELSE id[o]
                        /\ inbox'[o] = IF o = m THEN <<>> ELSE inbox[o]
    BY <1>1 DEF TypeOK
  <1>3. TypeOK' /\ Injections'
    <2>1. inbox' \in [Macs -> Seq(ToSlave)]
      BY <1>1, SMT DEF TypeOK
    <2>2. on' \in [Macs -> BOOLEAN] /\ id' \in [Macs -> Slots \union {Unassigned}]
      BY <1>1 DEF TypeOK
    <2> QED BY <1>1, <2>1, <2>2 DEF TypeOK, Injections, Injective
  <1>4. Saved'
    <2> SUFFICES ASSUME NoDeletion' PROVE Saved'
      BY DEF Saved
    <2>1. \A o \in Macs : AllTruthful(inbox[o])
      BY <1>1 DEF Saved
    <2>2. \A o \in Macs : AllTruthful(inbox[o])'
      BY <1>1, <1>2, <2>1 DEF AllTruthful, Truthful
    <2> QED BY <1>1, <1>2, <2>2 DEF Saved
  <1> QED BY <1>3, <1>4

LEMMA StutterStep == ASSUME IInv, UNCHANGED vars PROVE IInv'
  BY DEF IInv, vars, masterVars, slaveVars, TypeOK, Injections, Injective, Saved, NoDeletion,
         Truthful, AllTruthful

LEMMA Inductive == Spec => []IInv
  <1>1. ASSUME IInv, [Next]_vars PROVE IInv'
    <2>1. CASE Master
      BY <1>1, <2>1, RxHelloStep, RxSnapStep, RxWriteStep, RxTelemStep, RxTimeoutStep,
         WebSnapStep, WebWriteStep, WebDeleteStep, RxAssignStep, MasterResetStep, SendJobStep
         DEF Master
    <2>2. ASSUME NEW m \in Macs, Slave(m) PROVE IInv'
      BY <1>1, <2>2, SendHelloStep, SendTelemetryStep, SlaveAssignStep, SlaveRestartStep,
         SlaveFrameStep, SlavePowerStep DEF Slave
    <2>3. CASE UNCHANGED vars
      BY <1>1, <2>3, StutterStep
    <2> QED BY <1>1, <2>1, <2>2, <2>3 DEF Next
  <1> QED BY <1>1, InitHolds, PTL DEF Spec

-----------------------------------------------------------------------------
(***************************************************************************)
(* The hash rate that is reported.  It is that of the active slots only    *)
(* because no slot is on line that is not used, and that holds only        *)
(* because telemetry the master has not looked at names used slots.        *)
(***************************************************************************)
NamesUsed(frame) == frame.type = "telem" => reg[frame.slot] # Free

TelemetryNamesUsed == \A k \in 1 .. Len(toMaster) : NamesUsed(toMaster[k])

Reported ==
    NoDeletion =>
        /\ counted = {i \in Slots : Active(i)}
        /\ \A i \in Slots : online[i] => reg[i] # Free
        /\ TelemetryNamesUsed

\* A used slot stays used when a slave is registered, or nothing is.
NoneFreed == \A i \in Slots : reg[i] # Free => reg'[i] = reg[i]

LEMMA TelemetrySlots == \A f \in ToMaster : f.type = "telem" => f.slot \in Slots
  BY DEF ToMaster, Hello, Telem

LEMMA UsedStaysUsed ==
    ASSUME TypeOK, NoneFreed, TelemetryNamesUsed, toMaster' = toMaster
    PROVE  TelemetryNamesUsed'
  <1>1. ASSUME NEW k \in 1 .. Len(toMaster) PROVE NamesUsed(toMaster[k])'
    <2>1. toMaster[k] \in ToMaster
      BY SMT DEF TypeOK
    <2>2. toMaster[k].type = "telem" => toMaster[k].slot \in Slots
      BY <2>1, TelemetrySlots
    <2> QED BY <2>2 DEF NoneFreed, TelemetryNamesUsed, NamesUsed
  <1> QED BY <1>1 DEF TelemetryNamesUsed

\* The master takes a frame.
LEMMA TakenNamesUsed ==
    ASSUME TypeOK, NoneFreed, TelemetryNamesUsed, toMaster # <<>>, toMaster' = Tail(toMaster)
    PROVE  NamesUsed(Head(toMaster)) /\ TelemetryNamesUsed'
  <1>1. /\ Len(toMaster) \in Nat /\ Len(toMaster) > 0 /\ Head(toMaster) = toMaster[1]
        /\ Len(toMaster') = Len(toMaster) - 1
        /\ \A k \in 1 .. Len(toMaster) - 1 : toMaster'[k] = toMaster[k + 1]
        /\ \A k \in 1 .. Len(toMaster) : toMaster[k] \in ToMaster
    BY SMT DEF TypeOK
  <1>2. NamesUsed(toMaster[1])
    BY <1>1 DEF TelemetryNamesUsed
  <1>3. ASSUME NEW k \in 1 .. Len(toMaster') PROVE NamesUsed(toMaster[k])'
    <2>1. k + 1 \in 1 .. Len(toMaster) /\ toMaster'[k] = toMaster[k + 1]
      BY <1>1
    <2>2. toMaster[k + 1] \in ToMaster /\ NamesUsed(toMaster[k + 1])
      BY <1>1, <2>1 DEF TelemetryNamesUsed
    <2>3. toMaster[k + 1].type = "telem" => toMaster[k + 1].slot \in Slots
      BY <2>2, TelemetrySlots
    <2> QED BY <2>1, <2>2, <2>3 DEF NoneFreed, NamesUsed
  <1> QED BY <1>1, <1>2, <1>3 DEF TelemetryNamesUsed

\* A slave sends one.
LEMMA SentNamesUsed ==
    ASSUME TypeOK, reg' = reg, TelemetryNamesUsed, NEW f \in ToMaster, NamesUsed(f),
           NEW m, NEW taken, NEW got, Transmit(m, f, taken, got)
    PROVE  TelemetryNamesUsed'
  <1>1. toMaster' = toMaster \/ toMaster' = Append(toMaster, f)
    BY DEF Transmit
  <1>2. CASE toMaster' = toMaster
    BY <1>2, UsedStaysUsed DEF NoneFreed
  <1>3. CASE toMaster' = Append(toMaster, f)
    <2>1. /\ Len(toMaster) \in Nat /\ Len(toMaster') = Len(toMaster) + 1
          /\ toMaster'[Len(toMaster) + 1] = f
          /\ \A k \in 1 .. Len(toMaster) : toMaster'[k] = toMaster[k]
      BY <1>3, SMT DEF TypeOK
    <2>2. ASSUME NEW k \in 1 .. Len(toMaster') PROVE NamesUsed(toMaster[k])'
      <3>1. CASE k \in 1 .. Len(toMaster)
        BY <2>1, <3>1 DEF TelemetryNamesUsed, NamesUsed
      <3>2. CASE k = Len(toMaster) + 1
        BY <2>1, <3>2 DEF NamesUsed
      <3> QED BY <2>1, <3>1, <3>2
    <2> QED BY <2>2 DEF TelemetryNamesUsed
  <1> QED BY <1>1, <1>2, <1>3

\* A step that takes no slot on or off line: a slot that becomes used is off line.
LEMMA SameOnline ==
    ASSUME Reported, NoDeletion' => NoDeletion /\ NoneFreed /\ TelemetryNamesUsed',
           online' = online, counted' = counted
    PROVE  Reported'
  <1> SUFFICES ASSUME NoDeletion' PROVE Reported'
    BY DEF Reported
  <1>1. /\ counted = {i \in Slots : Active(i)} /\ NoneFreed
        /\ \A i \in Slots : online[i] => reg[i] # Free
    BY DEF Reported
  <1>2. \A i \in Slots : Active(i)' <=> Active(i)
    BY <1>1 DEF Active, NoneFreed
  <1>3. counted' = {i \in Slots : Active(i)'}
    BY <1>1, <1>2
  <1>4. \A i \in Slots : online'[i] => reg'[i] # Free
    BY <1>1 DEF NoneFreed
  <1> QED BY <1>3, <1>4 DEF Reported

LEMMA HelloReports == ASSUME IInv, Reported, RxHello PROVE Reported'
  <1> DEFINE m == Head(toMaster).mac
             i == SlotFor(m)
  <1>1. /\ toMaster # <<>> /\ toMaster' = Tail(toMaster) /\ online' = online
        /\ counted' = counted /\ faults' = faults /\ TypeOK /\ m \in Macs
    BY MasterQueue DEF RxHello, IInv
  <1>2. NoneFreed
    <2>1. CASE i = 0
      BY <2>1 DEF RxHello, NoneFreed
    <2>2. CASE i # 0
      <3>1. reg' = [reg EXCEPT ![i] = m]
        BY <2>2 DEF RxHello
      <3>2. i \in Slots /\ (reg[i] = m \/ reg[i] = Free)
        <4>1. TypeOK /\ m \in Macs /\ SlotFor(m) # 0
          BY <1>1, <2>2
        <4> HIDE DEF m
        <4> QED BY <4>1, SlotForIsSafe
      <3> HIDE DEF m, i
      <3> QED BY <1>1, <3>1, <3>2 DEF NoneFreed, TypeOK, Registry
    <2> QED BY <2>1, <2>2
  <1>3. NoDeletion' => NoDeletion /\ TelemetryNamesUsed'
    BY <1>1, <1>2, TakenNamesUsed DEF Reported, NoDeletion
  <1> QED BY <1>1, <1>2, <1>3, SameOnline

LEMMA TelemReports == ASSUME IInv, Reported, RxTelem PROVE Reported'
  <1> SUFFICES ASSUME NoDeletion' PROVE Reported'
    BY DEF Reported
  <1> DEFINE i == Head(toMaster).slot
  <1>1. /\ toMaster # <<>> /\ Head(toMaster).type = "telem" /\ toMaster' = Tail(toMaster)
        /\ online' = [online EXCEPT ![i] = TRUE] /\ reg' = reg /\ TypeOK
        /\ counted' = {j \in Slots : reg[j] # Free /\ online'[j]}
        /\ NoDeletion
    BY DEF RxTelem, IInv, NoDeletion
  <1>2. TelemetryNamesUsed /\ \A j \in Slots : online[j] => reg[j] # Free
    BY <1>1 DEF Reported
  <1>3. NamesUsed(Head(toMaster)) /\ TelemetryNamesUsed'
    BY <1>1, <1>2, TakenNamesUsed DEF NoneFreed
  <1>4. reg[i] # Free
    BY <1>1, <1>3 DEF NamesUsed
  <1>5. \A j \in Slots : online'[j] => reg'[j] # Free
    <2> HIDE DEF i
    <2> QED BY <1>1, <1>2, <1>4 DEF TypeOK
  <1>6. counted' = {j \in Slots : Active(j)'}
    BY <1>1 DEF Active
  <1> QED BY <1>3, <1>5, <1>6 DEF Reported

LEMMA TimeoutReports ==
    ASSUME IInv, Reported, NEW gone \in SUBSET Slots, RxTimeout(gone) PROVE Reported'
  <1> SUFFICES ASSUME NoDeletion' PROVE Reported'
    BY DEF Reported
  <1>1. /\ toMaster' = toMaster /\ reg' = reg /\ TypeOK /\ NoDeletion
        /\ online' = [j \in Slots |-> online[j] /\ j \notin gone]
        /\ counted' = {j \in Slots : Active(j)} \ gone
    BY DEF RxTimeout, IInv, NoDeletion, Recount
  <1>2. TelemetryNamesUsed /\ \A j \in Slots : online[j] => reg[j] # Free
    BY <1>1 DEF Reported
  <1>3. TelemetryNamesUsed'
    BY <1>1, <1>2, UsedStaysUsed DEF NoneFreed
  <1>4. counted' = {j \in Slots : Active(j)'}
    BY <1>1 DEF Active
  <1> QED BY <1>1, <1>2, <1>3, <1>4 DEF Reported

LEMMA ResetReports == ASSUME IInv, NEW got, MasterReset(got) PROVE Reported'
  <1>1. online' = [i \in Slots |-> FALSE] /\ counted' = {} /\ toMaster' = <<>>
    BY DEF MasterReset
  <1>2. counted' = {i \in Slots : Active(i)'} /\ \A i \in Slots : ~online'[i]
    BY <1>1 DEF Active
  <1>3. TelemetryNamesUsed'
    BY <1>1, SMT DEF TelemetryNamesUsed
  <1> QED BY <1>2, <1>3 DEF Reported

\* What a slave sends: telemetry bears an id, which is registered.
LEMMA SlaveReports ==
    ASSUME IInv, Reported, NEW m \in Macs, NEW taken, NEW got,
           SendHello(m, taken, got) \/ SendTelemetry(m, taken, got)
    PROVE  Reported'
  <1>1. online' = online /\ counted' = counted /\ faults' = faults /\ reg' = reg /\ TypeOK
    BY DEF SendHello, SendTelemetry, masterVars, IInv
  <1>2. ASSUME NoDeletion' PROVE TelemetryNamesUsed'
    <2>1. NoDeletion /\ TelemetryNamesUsed
      BY <1>1, <1>2 DEF Reported, NoDeletion
    <2>2. CASE SendHello(m, taken, got)
      <3>1. Hello(m) \in ToMaster /\ NamesUsed(Hello(m)) /\ Transmit(m, Hello(m), taken, got)
        BY <2>2, Frames DEF SendHello, NamesUsed, Hello
      <3> QED BY <1>1, <2>1, <3>1, SentNamesUsed
    <2>3. CASE SendTelemetry(m, taken, got)
      <3>1. id[m] \in Slots /\ nvs[id[m]] = m /\ reg[id[m]] = m /\ m # Free
        BY <1>1, <2>1, <2>3, FleetAssumption DEF SendTelemetry, IInv, TypeOK, Saved
      <3>2. Telem(id[m]) \in ToMaster /\ NamesUsed(Telem(id[m]))
        BY <3>1, Frames DEF NamesUsed, Telem
      <3>3. Transmit(m, Telem(id[m]), taken, got)
        BY <2>3 DEF SendTelemetry
      <3> QED BY <1>1, <2>1, <3>2, <3>3, SentNamesUsed
    <2> QED BY <2>2, <2>3
  <1> QED BY <1>1, <1>2, SameOnline DEF NoneFreed, NoDeletion

\* Steps that touch neither the slots nor the queue of the master.
LEMMA OtherReports ==
    ASSUME IInv, Reported, UNCHANGED <<reg, online, counted, toMaster>>, NoDeletion' => NoDeletion
    PROVE  Reported'
  <1>1. TypeOK /\ NoneFreed /\ toMaster' = toMaster
    BY DEF IInv, NoneFreed
  <1>2. NoDeletion' => TelemetryNamesUsed'
    BY <1>1, UsedStaysUsed DEF Reported
  <1> QED BY <1>1, <1>2, SameOnline

LEMMA ReportedKept == ASSUME IInv, Reported, [Next]_vars PROVE Reported'
  <1>1. CASE RxHello
    BY <1>1, HelloReports
  <1>2. CASE RxTelem
    BY <1>2, TelemReports
  <1>3. CASE RxSnap \/ RxWrite \/ WebSnap \/ WebWrite
    <2>1. UNCHANGED <<reg, online, counted, toMaster>> /\ faults' = faults
      BY <1>3 DEF RxSnap, RxWrite, WebSnap, WebWrite
    <2> QED BY <2>1, OtherReports DEF NoDeletion
  <1>4. ASSUME NEW gone \in SUBSET Slots, RxTimeout(gone) PROVE Reported'
    BY <1>4, TimeoutReports
  <1>5. ASSUME NEW i \in Slots, WebDelete(i) PROVE Reported'
    <2>1. ~NoDeletion'
      BY <1>5, FaultCounts DEF WebDelete, IInv
    <2> QED BY <2>1 DEF Reported
  <1>6. ASSUME NEW got \in SUBSET Macs, MasterReset(got) PROVE Reported'
    BY <1>6, ResetReports
  <1>7. ASSUME NEW got \in SUBSET Macs, RxAssign(got) \/ \E i \in Slots : SendJob(i, got)
        PROVE  Reported'
    <2>1. UNCHANGED <<reg, online, counted, toMaster>> /\ faults' = faults
      BY <1>7 DEF RxAssign, SendJob, masterVars
    <2> QED BY <2>1, OtherReports DEF NoDeletion
  <1>8. ASSUME NEW m \in Macs, Slave(m) PROVE Reported'
    <2>1. ASSUME NEW taken \in BOOLEAN, NEW got \in SUBSET Macs,
                 SendHello(m, taken, got) \/ SendTelemetry(m, taken, got)
          PROVE  Reported'
      BY <2>1, SlaveReports
    <2>2. CASE SlaveAssign(m) \/ SlaveRestart(m) \/ SlaveFrame(m)
      <3>1. UNCHANGED <<reg, online, counted, toMaster>> /\ faults' = faults
        BY <2>2 DEF SlaveAssign, SlaveRestart, SlaveFrame, masterVars
      <3> QED BY <3>1, OtherReports DEF NoDeletion
    <2>3. CASE SlavePower(m)
      <3>1. UNCHANGED <<reg, online, counted, toMaster>> /\ (NoDeletion' => NoDeletion)
        BY <2>3, FaultCounts DEF SlavePower, masterVars, IInv
      <3> QED BY <3>1, OtherReports
    <2> QED BY <1>8, <2>1, <2>2, <2>3 DEF Slave
  <1>9. CASE UNCHANGED vars
    BY <1>9, OtherReports DEF vars, masterVars, NoDeletion
  <1> QED BY <1>1, <1>2, <1>3, <1>4, <1>5, <1>6, <1>7, <1>8, <1>9 DEF Next, Master

-----------------------------------------------------------------------------
\* The state of the fleet is always well formed: in particular handle_hello never writes a
\* slot that is not one, and telemetry only ever names slots of the registry.
THEOREM TypeCorrect == Spec => []TypeOK
  <1>1. IInv => TypeOK
    BY DEF IInv
  <1> QED BY <1>1, Inductive, PTL

\* A slave has at most one slot, in the registry and in NVS, whatever deletions and saves of
\* the two tasks of the master interleave (nvs_save_registry has no lock).
THEOREM OneSlotAlways == Spec => []OneSlotPerSlave
  <1>1. IInv => OneSlotPerSlave
    BY DEF IInv, Injections, Injective, OneSlotPerSlave
  <1> QED BY <1>1, Inductive, PTL

\* Until a slave is deleted, the id of a slave is registered and saved for it.
THEOREM IdsAlwaysRegistered == Spec => []IdsAreRegistered
  <1>1. ASSUME IInv PROVE IdsAreRegistered
    <2> SUFFICES ASSUME NoDeletion, NEW m \in Macs, id[m] # Unassigned
                 PROVE  reg[id[m]] = m /\ nvs[id[m]] = m
      BY DEF IdsAreRegistered
    <2>1. id[m] \in Slots /\ nvs[id[m]] = m
      BY <1>1 DEF IInv, TypeOK, Saved
    <2>2. nvs[id[m]] = reg[id[m]]
      BY <1>1, <2>1, FleetAssumption DEF IInv, Saved
    <2> QED BY <2>1, <2>2
  <1> QED BY <1>1, Inductive, PTL

\* Two slaves have the same id only after a deletion.
THEOREM IdsUniqueUntilDeletion == Spec => [](NoDeletion => IdsAreUnique)
  <1>1. ASSUME IInv, NoDeletion PROVE IdsAreUnique
    BY <1>1 DEF IInv, Saved, IdsAreUnique
  <1> QED BY <1>1, Inductive, PTL

\* The hash rate the master reports is that of its active slaves, whatever is lost, whoever
\* restarts and whenever a timeout takes a slot off line, until a slave is deleted: no
\* telemetry revives a slot that is not used.
THEOREM HashrateAlwaysOfActive == Spec => []HashrateOfActive
  <1>1. Init => Reported
    <2>1. ASSUME Init PROVE Reported
      <3>1. counted = {} /\ online = [i \in Slots |-> FALSE] /\ toMaster = <<>>
        BY <2>1 DEF Init
      <3>2. TelemetryNamesUsed
        BY <3>1, SMT DEF TelemetryNamesUsed
      <3> QED BY <3>1, <3>2 DEF Reported, Active
    <2> QED BY <2>1
  <1>2. IInv /\ Reported /\ [Next]_vars => Reported'
    BY ReportedKept
  <1>3. Reported => HashrateOfActive
    BY DEF Reported, HashrateOfActive
  <1> QED BY <1>1, <1>2, <1>3, Inductive, PTL DEF Spec

-----------------------------------------------------------------------------
(***************************************************************************)
(* The fleet implements IdRegistry.  A save grants one id, because the     *)
(* receiver task saves every slave it registers before it takes the next   *)
(* frame: registry and NVS differ in that slave's slot at most.            *)
(***************************************************************************)
OneUnsaved ==
    NoDeletion /\ rx.pc \in {"snap", "write"} =>
        \A i \in Slots : i # rx.slot => reg[i] = nvs[i]

LEMMA OneUnsavedKept == ASSUME IInv, OneUnsaved, [Next]_vars PROVE OneUnsaved'
  <1> USE DEF IInv
  <1>1. CASE RxHello
    <2> SUFFICES ASSUME NoDeletion', rx'.pc \in {"snap", "write"} PROVE OneUnsaved'
      BY DEF OneUnsaved
    <2> DEFINE m == Head(toMaster).mac
               i == SlotFor(m)
    <2>1. rx.pc = "receive" /\ NoDeletion /\ nvs' = nvs /\ nvs = reg
      BY <1>1 DEF RxHello, NoDeletion, Saved
    <2>2. rx'.slot = i /\ reg' = [reg EXCEPT ![i] = m]
      BY <1>1, <2>1 DEF RxHello
    <2>3. \A j \in Slots : j # i => reg'[j] = reg[j]
      BY <2>2 DEF TypeOK, Registry
    <2> QED BY <2>1, <2>2, <2>3 DEF OneUnsaved
  <1>2. CASE RxSnap
    BY <1>2 DEF RxSnap, OneUnsaved, NoDeletion
  <1>3. CASE RxWrite
    BY <1>3 DEF RxWrite, OneUnsaved
  <1>4. ASSUME NEW got, RxAssign(got) PROVE OneUnsaved'
    BY <1>4 DEF RxAssign, Receiving, OneUnsaved
  <1>5. ASSUME NEW got, MasterReset(got) PROVE OneUnsaved'
    BY <1>5 DEF MasterReset, Receiving, OneUnsaved
  <1>6. ASSUME NEW i \in Slots, WebDelete(i) PROVE OneUnsaved'
    <2>1. ~NoDeletion'
      BY <1>6, FaultCounts DEF WebDelete
    <2> QED BY <2>1 DEF OneUnsaved
  <1>7. CASE WebWrite
    BY <1>7 DEF WebWrite, Saved, NoDelete, OneUnsaved, NoDeletion
  <1>8. ASSUME reg' = reg, nvs' = nvs, rx' = rx, NoDeletion' => NoDeletion PROVE OneUnsaved'
    BY <1>8 DEF OneUnsaved
  <1>9. CASE RxTelem
    BY <1>8, <1>9 DEF RxTelem, NoDeletion
  <1>10. ASSUME NEW gone, RxTimeout(gone) PROVE OneUnsaved'
    BY <1>8, <1>10 DEF RxTimeout, NoDeletion
  <1>11. CASE WebSnap
    BY <1>8, <1>11 DEF WebSnap, NoDeletion
  <1>12. ASSUME NEW i \in Slots, NEW got, SendJob(i, got) PROVE OneUnsaved'
    BY <1>8, <1>12 DEF SendJob, masterVars, NoDeletion
  <1>13. ASSUME NEW m \in Macs, Slave(m) PROVE OneUnsaved'
    <2>1. reg' = reg /\ nvs' = nvs /\ rx' = rx
      BY <1>13 DEF Slave, SendHello, SendTelemetry, SlaveAssign, SlaveRestart, SlaveFrame,
                   SlavePower, masterVars
    <2>2. NoDeletion' => NoDeletion
      BY <1>13, FaultCounts DEF Slave, SendHello, SendTelemetry, SlaveAssign, SlaveRestart,
                                SlaveFrame, SlavePower, NoDeletion
    <2> QED BY <1>8, <2>1, <2>2
  <1>14. CASE UNCHANGED vars
    BY <1>8, <1>14 DEF vars, masterVars, NoDeletion
  <1> QED BY <1>1, <1>2, <1>3, <1>4, <1>5, <1>6, <1>7, <1>9, <1>10, <1>11, <1>12, <1>13, <1>14
          DEF Next, Master

\* Where deletions are not allowed, there are none.
LEMMA NothingDeleted ==
    ASSUME MaxFaults.delete = 0, TypeOK, NoDeletion, [Next]_vars
    PROVE  NoDeletion'
  <1>1. ASSUME faults' = faults PROVE NoDeletion'
    BY <1>1 DEF NoDeletion
  <1>2. ASSUME NEW kind \in {"master", "slave"}, Fault(kind) PROVE NoDeletion'
    BY <1>2 DEF Fault, TypeOK, NoDeletion
  <1>3. ~Fault("delete")
    BY DEF Fault, NoDeletion, TypeOK
  <1>4. ASSUME NEW m \in Macs, Slave(m) PROVE NoDeletion'
    BY <1>1, <1>2, <1>4 DEF Slave, SendHello, SendTelemetry, SlaveAssign, SlaveRestart,
                            SlaveFrame, SlavePower
  <1>5. CASE Master
    BY <1>1, <1>2, <1>3, <1>5 DEF Master, RxHello, RxSnap, RxWrite, RxTelem, RxTimeout, WebSnap,
       WebWrite, WebDelete, RxAssign, MasterReset, SendJob
  <1>6. CASE UNCHANGED vars
    BY <1>1, <1>6 DEF vars
  <1> QED BY <1>4, <1>5, <1>6 DEF Next

\* A save grants the id of the slave that was registered, or saves what is saved already.
LEMMA SaveGrants ==
    ASSUME IInv, OneUnsaved, NoDeletion, RxWrite
    PROVE  UNCHANGED Ids!vars \/ Ids!Grant(rx.mac, rx.slot)
  <1> USE DEF IInv
  <1>1. /\ rx.pc = "write" /\ rx.mac \in Macs /\ rx.slot \in Slots
        /\ nvs' = reg /\ id' = id /\ reg[rx.slot] = rx.mac
    BY RxFields DEF RxWrite, Saved, slaveVars
  <1>2. /\ reg \in Registry /\ nvs \in Registry
        /\ \A i \in Slots : i # rx.slot => reg[i] = nvs[i]
        /\ nvs[rx.slot] # Free => nvs[rx.slot] = reg[rx.slot]
    BY <1>1 DEF OneUnsaved, Saved, TypeOK
  <1>3. CASE nvs[rx.slot] # Free
    <2>1. nvs' = nvs
      BY <1>1, <1>2, <1>3 DEF Registry
    <2> QED BY <1>1, <2>1 DEF Ids!vars
  <1>4. CASE nvs[rx.slot] = Free
    <2>1. nvs' = [nvs EXCEPT ![rx.slot] = rx.mac]
      BY <1>1, <1>2 DEF Registry
    <2>2. \A j \in Slots : nvs[j] # rx.mac
      BY <1>1, <1>2, <1>4, FleetAssumption DEF Injections, Injective
    <2> QED BY <1>1, <1>4, <2>1, <2>2 DEF Ids!Grant
  <1> QED BY <1>3, <1>4

\* Every step is one of IdRegistry or a stutter.
LEMMA RegistryStep ==
    ASSUME IInv, OneUnsaved, NoDeletion, NoDeletion', [Next]_vars
    PROVE  [Ids!Next]_(Ids!vars)
  <1> USE DEF IInv
  <1>1. CASE RxWrite
    <2>1. rx.mac \in Macs /\ rx.slot \in Slots
      BY <1>1, RxFields DEF RxWrite
    <2> QED BY <1>1, <2>1, SaveGrants DEF Ids!Next
  <1>2. CASE WebWrite
    BY <1>2 DEF WebWrite, Saved, NoDelete
  <1>3. ASSUME NEW m \in Macs, SlaveAssign(m) PROVE \E i \in Slots : Ids!Use(m, i)
    <2> DEFINE f == Head(inbox[m])
    <2>1. TakeFrame(m) /\ f.type = "assign" /\ f.mac = m
          /\ id' = [id EXCEPT ![m] = f.slot] /\ nvs' = nvs
      BY <1>3 DEF SlaveAssign, IsAssignFor, masterVars
    <2>2. f \in ToSlave /\ Truthful(f)
      BY <2>1, TakeFrameQueues DEF Saved
    <2>3. f.slot \in Slots /\ nvs[f.slot] = m
      BY <2>1, <2>2, Frames DEF Truthful
    <2> QED BY <2>1, <2>3 DEF Ids!Use
  <1>4. ASSUME NEW m \in Macs, SlaveRestart(m) \/ SlavePower(m) PROVE Ids!Leave(m)
    BY <1>4 DEF SlaveRestart, SlavePower, masterVars, Ids!Leave
  <1>5. ASSUME nvs' = nvs, id' = id PROVE UNCHANGED Ids!vars
    BY <1>5 DEF Ids!vars
  <1>6. ASSUME NEW m \in Macs, Slave(m) PROVE [Ids!Next]_(Ids!vars)
    <2>1. ASSUME NEW taken, NEW got,
                 SendHello(m, taken, got) \/ SendTelemetry(m, taken, got) \/ SlaveFrame(m)
          PROVE  UNCHANGED Ids!vars
      BY <1>5, <2>1 DEF SendHello, SendTelemetry, SlaveFrame, masterVars, slaveVars
    <2> QED BY <1>3, <1>4, <1>6, <2>1 DEF Slave, Ids!Next
  <1>7. ASSUME NEW got, RxAssign(got) \/ MasterReset(got) \/ \E i \in Slots : SendJob(i, got)
        PROVE  UNCHANGED Ids!vars
    BY <1>5, <1>7 DEF RxAssign, MasterReset, SendJob, masterVars, slaveVars
  <1>8. ASSUME \/ RxHello \/ RxSnap \/ RxTelem \/ WebSnap
               \/ \E gone \in SUBSET Slots : RxTimeout(gone)
               \/ \E i \in Slots : WebDelete(i)
        PROVE  UNCHANGED Ids!vars
    BY <1>5, <1>8 DEF RxHello, RxSnap, RxTelem, RxTimeout, WebSnap, WebDelete, slaveVars
  <1>9. CASE UNCHANGED vars
    BY <1>5, <1>9 DEF vars, masterVars, slaveVars
  <1> QED BY <1>1, <1>2, <1>6, <1>7, <1>8, <1>9 DEF Next, Master

\* If no slave is deleted, an id is granted to one slave, for good and before it is used,
\* through all losses, restarts of either side and timeouts.
THEOREM IdsAreGranted == ASSUME MaxFaults.delete = 0 PROVE Spec => ImplementsIdRegistry
  <1>1. Init => Ids!Init /\ OneUnsaved /\ NoDeletion
    BY DEF Init, Ids!Init, OneUnsaved, Receiving, NoDeletion
  <1>2. IInv => TypeOK
    BY DEF IInv
  <1>3. Spec => []OneUnsaved
    BY <1>1, Inductive, OneUnsavedKept, PTL DEF Spec
  <1>4. Spec => []NoDeletion
    BY <1>1, <1>2, Inductive, NothingDeleted, PTL DEF Spec
  <1> QED
    BY <1>1, <1>3, <1>4, Inductive, RegistryStep, PTL DEF Spec, ImplementsIdRegistry, Ids!Spec
=============================================================================
