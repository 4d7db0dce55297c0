------------------------------ MODULE HostProofs ------------------------------
(***************************************************************************)
(* Invariance proofs for the parts around the miner: the supply and the    *)
(* firmware updates (PowerGuard, FirmwareUpdate), the Stratum V2 channel   *)
(* (Sv2Channel) and the network (NetworkManager); and for the four parts   *)
(* together, with the history (HistoryRingProofs).                         *)
(***************************************************************************)
EXTENDS MCHost, HistoryRingProofs

-----------------------------------------------------------------------------
(***************************************************************************)
(* The supply and the updates.                                             *)
(***************************************************************************)
HostTypeOK == PowerTypeOK /\ UpdateTypeOK

\* The mutex is held exactly by the firmware update that is between its first and its last
\* sector, and by the upload of web pages that is at the flash.
LockFollowsUpdates ==
    /\ powerLock = "httpd" <=> http \in {"upload", "switched", "web_erase", "web_write"}
    /\ powerLock = "updater" <=> updater \in {"firmware", "website"}

\* Both kinds of firmware update hold it after a shutdown.
HeldIsShutDown ==
    powerLock = "updater" \/ http \in {"upload", "switched"} => isShutdown /\ ~vreg /\ ~ldo

UnstartedIsOff == startup = "network" => ~vreg /\ ~ldo

\* A cut supply stays cut because no voltage waits to be applied.
NothingToApply ==
    tripped => ~vreg /\ (startup = "ready" /\ ~isShutdown => lastCoreVoltage = coreVoltage)

FinalShutdown == isShutdown /\ ~early => startup # "network" /\ ~vreg /\ ~ldo

Supply == LockFollowsUpdates /\ HeldIsShutDown /\ UnstartedIsOff /\ NothingToApply
          /\ FinalShutdown

\* The slot an update erases is neither the running one nor, outside the window, the selected.
Images ==
    /\ running \in valid
    /\ crossed \/ bootSlot \in valid
    /\ ~crossed => \/ bootSlot = running
                   \/ http = "switched"
                   \/ updater \in {"website", "rebooting"}

HostInv == HostTypeOK /\ Supply /\ Images

LEMMA NextPartition ==
    nextUpdatePartition \in Apps /\ nextUpdatePartition # running
BY DEF nextUpdatePartition, Apps

LEMMA HostInitially == HostInit => HostInv
BY DEF HostInit, PowerInit, UpdateInit, HostInv, HostTypeOK, PowerTypeOK, UpdateTypeOK, Supply,
       LockFollowsUpdates, HeldIsShutDown, UnstartedIsOff, NothingToApply, FinalShutdown,
       Images, LockIsFree, NoOne, Apps, UpdaterStates, HttpStates

\* A restart, whatever it cuts off.
LEMMA BootStep == ASSUME HostInv, Boot PROVE HostInv'
<1>1. PowerTypeOK'  BY DEF HostInv, HostTypeOK, PowerTypeOK, Boot, PowerReset, NoOne
<1>2. running' \in valid /\ (bootSlot \in valid => running' = bootSlot)
  BY DEF Boot
<1>3. UpdateTypeOK'
  BY <1>2 DEF HostInv, HostTypeOK, UpdateTypeOK, Boot, UpdaterStates, HttpStates
<1>4. Supply'
  BY DEF Boot, PowerReset, Supply, LockFollowsUpdates, HeldIsShutDown, UnstartedIsOff,
         NothingToApply, FinalShutdown, LockIsFree, NoOne
<1>5. Images'  BY <1>2 DEF HostInv, Images, Boot
<1>6. QED  BY <1>1, <1>3, <1>4, <1>5 DEF HostInv, HostTypeOK

\* The steps of PowerGuard leave the updates alone.
LEMMA PowerStep ==
    ASSUME HostInv, PowerNext, UNCHANGED updateVars PROVE HostInv'
<1> USE DEF HostInv, HostTypeOK
<1>1. UpdateTypeOK' /\ Images'
  BY DEF UpdateTypeOK, HttpStates, Images, updateVars, UpdaterStates
<1>2. UNCHANGED <<powerLock, http, updater>>
  BY DEF PowerNext, updateVars, initAsics, PowerManagementRound, requestShutdown,
         boardLoadSettings, fanLoadSettings, HardwareChanges
<1> USE DEF PowerTypeOK, Supply, LockFollowsUpdates, HeldIsShutDown, UnstartedIsOff,
            NothingToApply, FinalShutdown, LockIsFree
<1>3. ASSUME initAsics PROVE PowerTypeOK' /\ Supply'
  <2>1. http \notin {"upload", "switched"} /\ powerLock # "updater"
    BY <1>3 DEF initAsics, NoOne
  <2>2. vreg' \in BOOLEAN  BY <1>3 DEF initAsics, EnableAt, validateVoltage
  <2>3. HeldIsShutDown'  BY <1>2, <2>1
  <2>4. PowerTypeOK'  BY <1>3, <2>2 DEF initAsics
  <2>5. LockFollowsUpdates'  BY <1>2
  <2>6. UnstartedIsOff' /\ NothingToApply' /\ FinalShutdown'  BY <1>3 DEF initAsics
  <2>7. QED  BY <2>3, <2>4, <2>5, <2>6
<1>4. ASSUME PowerManagementRound PROVE PowerTypeOK' /\ Supply'
  <2> DEFINE cut == isOverheated \/ getFault
  <2>1. /\ LockIsFree
        /\ vreg' = (checkCoreVoltageChanged /\ ~cut)
        /\ lastCoreVoltage' = IF NewVoltage THEN coreVoltage ELSE lastCoreVoltage
        /\ tripped' = (tripped \/ cut)
        /\ UNCHANGED <<powerLock, startup, isShutdown, ldo, coreVoltage, fan, hot, fault, early>>
    BY <1>4 DEF PowerManagementRound
  <2>2. cut \in BOOLEAN /\ NewVoltage \in BOOLEAN /\ checkCoreVoltageChanged \in BOOLEAN
    BY DEF isOverheated, getFault, isBuckInitialized, NewVoltage, checkCoreVoltageChanged,
           EnableAt, Reading, TooHot, validateVoltage
  <2>3. PowerTypeOK'  BY <2>1, <2>2
  <2>4. checkCoreVoltageChanged => vreg \/ NewVoltage
    BY DEF checkCoreVoltageChanged
  <2>5. NewVoltage => startup = "ready" /\ ~isShutdown /\ coreVoltage # lastCoreVoltage
    BY DEF NewVoltage
  <2>6. startup = "ready" /\ ~isShutdown => lastCoreVoltage' = coreVoltage'
    BY <2>1 DEF NewVoltage
  <2>7. NothingToApply'  BY <2>1, <2>2, <2>4, <2>5, <2>6
  <2>8. UnstartedIsOff' /\ FinalShutdown' /\ HeldIsShutDown' /\ LockFollowsUpdates'
    BY <1>2, <2>1, <2>4, <2>5
  <2>9. QED  BY <2>3, <2>7, <2>8
<1>5. ASSUME requestShutdown PROVE PowerTypeOK' /\ Supply'
  BY <1>2, <1>5 DEF requestShutdown, PowerDown
<1>6. ASSUME boardLoadSettings PROVE PowerTypeOK' /\ Supply'
  BY <1>2, <1>6 DEF boardLoadSettings
<1>7. ASSUME fanLoadSettings PROVE PowerTypeOK' /\ Supply'
  BY <1>2, <1>7 DEF fanLoadSettings
<1>8. ASSUME HardwareChanges PROVE PowerTypeOK' /\ Supply'
  <2>1. hot' \in SUBSET Sensors /\ fault' \in BOOLEAN  BY <1>8 DEF HardwareChanges
  <2>2. UNCHANGED <<startup, isShutdown, vreg, ldo, coreVoltage, lastCoreVoltage, fan, tripped,
                    early>>
    BY <1>8 DEF HardwareChanges
  <2>3. QED  BY <1>2, <2>1, <2>2
<1>9. QED
  BY <1>1, <1>3, <1>4, <1>5, <1>6, <1>7, <1>8 DEF PowerNext

\* An update begins: the mutex is taken, the supply goes, the slot is erased.
LEMMA BeginStep ==
    ASSUME HostInv, NEW holder \in {"httpd", "updater"}, beginUpdate(holder)
    PROVE  /\ PowerTypeOK' /\ LockIsFree
           /\ powerLock' = holder /\ isShutdown' /\ ~vreg' /\ ~ldo'
           /\ UnstartedIsOff' /\ NothingToApply' /\ FinalShutdown'
           /\ running' = running /\ bootSlot' = bootSlot
           /\ valid' = valid \ {nextUpdatePartition}
BY DEF HostInv, HostTypeOK, PowerTypeOK, Supply, beginUpdate, PowerDown, UnstartedIsOff,
       NothingToApply, FinalShutdown

\* An error path gives the mutex back, nothing else.
LEMMA UnlockStep ==
    ASSUME HostInv, UnlockPower
    PROVE  /\ PowerTypeOK' /\ powerLock' = NoOne
           /\ UnstartedIsOff' /\ NothingToApply' /\ FinalShutdown'
BY DEF HostInv, HostTypeOK, PowerTypeOK, Supply, UnlockPower, UnstartedIsOff, NothingToApply,
       FinalShutdown, NoOne

LEMMA SwitchStep ==
    ASSUME HostInv, switchFirmware
    PROVE  /\ running' \in Apps /\ bootSlot' \in Apps /\ valid' \in SUBSET Apps
           /\ running' \in valid' /\ bootSlot' \in valid' /\ crossed' = FALSE
BY NextPartition DEF HostInv, HostTypeOK, UpdateTypeOK, Images, switchFirmware

\* An upload of web pages takes the mutex and gives it back; the supply, the slots and the
\* updater are none of its business.
LEMMA WwwStepKeeps == ASSUME HostInv, WwwStep PROVE HostInv'
<1> USE DEF HostInv, HostTypeOK, NoOne
<1>1. ASSUME NEW phase \in {"web_erase", "web_write"}, http \in {"idle", "web"},
             LockForFlash(phase)
      PROVE  HostInv'
  <2>1. updater \notin {"firmware", "website"}
    BY <1>1 DEF LockForFlash, LockIsFree, Supply, LockFollowsUpdates
  <2>2. PowerTypeOK' /\ Supply'
    BY <1>1, <2>1 DEF LockForFlash, PowerTypeOK, Supply, LockFollowsUpdates, HeldIsShutDown,
                      UnstartedIsOff, NothingToApply, FinalShutdown
  <2>3. UpdateTypeOK' /\ Images'
    BY <1>1 DEF LockForFlash, UpdateTypeOK, HttpStates, Images
  <2>4. QED  BY <2>2, <2>3
<1>2. ASSUME WwwFlashed PROVE HostInv'
  <2>1. /\ http \in {"web_erase", "web_write"} /\ http' \in {"web", "idle"} /\ UnlockPower
        /\ UNCHANGED <<running, bootSlot, valid, updater, crossed>>
    BY <1>2 DEF WwwFlashed
  <2>2. powerLock = "httpd" /\ updater \notin {"firmware", "website"}
    BY <2>1 DEF Supply, LockFollowsUpdates
  <2>3. Supply'
    BY <2>1, <2>2, UnlockStep DEF Supply, LockFollowsUpdates, HeldIsShutDown
  <2>4. UpdateTypeOK' /\ Images'  BY <2>1 DEF UpdateTypeOK, HttpStates, Images
  <2>5. QED  BY <2>1, <2>3, <2>4, UnlockStep
<1>3. ASSUME WwwReceiveFails PROVE HostInv'
  <2>1. PowerTypeOK' /\ Supply'
    BY <1>3 DEF WwwReceiveFails, powerVars, PowerTypeOK, Supply, LockFollowsUpdates,
                HeldIsShutDown, UnstartedIsOff, NothingToApply, FinalShutdown
  <2>2. UpdateTypeOK' /\ Images'  BY <1>3 DEF WwwReceiveFails, UpdateTypeOK, HttpStates, Images
  <2>3. QED  BY <2>1, <2>2
<1>4. QED  BY <1>1, <1>2, <1>3 DEF WwwStep, POST_WWW_update, WwwChunk

LEMMA UpdateStep == ASSUME HostInv, UpdateNext PROVE HostInv'
<1> USE DEF HostInv, HostTypeOK, LockIsFree, NoOne
<1>1. ASSUME Boot PROVE HostInv'  BY <1>1, BootStep
<1>2. ASSUME POST_OTA_update PROVE HostInv'
  <2>1. /\ http = "idle" /\ beginUpdate("httpd") /\ http' = "upload" /\ updater' = updater
        /\ crossed' = (crossed \/ updater = "rebooting")
    BY <1>2 DEF POST_OTA_update
  <2>2. updater \notin {"firmware", "website"}
    BY <2>1, BeginStep DEF Supply, LockFollowsUpdates
  <2>3. Supply'
    BY <2>1, <2>2, BeginStep DEF Supply, LockFollowsUpdates, HeldIsShutDown
  <2>4. UpdateTypeOK' /\ Images'
    BY <2>1, <2>2, BeginStep, NextPartition DEF UpdateTypeOK, HttpStates, Images
  <2>5. QED  BY <2>1, <2>3, <2>4, BeginStep
<1>3. ASSUME UploadFails PROVE HostInv'
  <2>1. /\ http = "upload" /\ http' = "idle" /\ UnlockPower
        /\ UNCHANGED <<running, bootSlot, valid, updater, crossed>>
    BY <1>3 DEF UploadFails
  <2>2. powerLock = "httpd" /\ updater \notin {"firmware", "website"}
    BY <2>1 DEF Supply, LockFollowsUpdates
  <2>3. Supply'  BY <2>1, <2>2, UnlockStep
     DEF Supply, LockFollowsUpdates, HeldIsShutDown
  <2>4. UpdateTypeOK' /\ Images'  BY <2>1 DEF UpdateTypeOK, HttpStates, Images
  <2>5. QED  BY <2>1, <2>3, <2>4, UnlockStep
<1>4. ASSUME UploadCompletes PROVE HostInv'
  <2>1. /\ http = "upload" /\ switchFirmware /\ http' = "switched"
        /\ UNCHANGED <<powerVars, updater>>
    BY <1>4 DEF UploadCompletes
  <2>2. PowerTypeOK' /\ Supply'
    BY <2>1 DEF powerVars, PowerTypeOK, Supply, LockFollowsUpdates, HeldIsShutDown,
                UnstartedIsOff, NothingToApply, FinalShutdown
  <2>3. UpdateTypeOK' /\ Images'  BY <2>1, SwitchStep DEF UpdateTypeOK, HttpStates, Images
  <2>4. QED  BY <2>2, <2>3
\* the updater moves without touching power or slots
<1>5. ASSUME UNCHANGED <<powerVars, running, bootSlot, valid, http, crossed>>,
             updater \notin {"firmware", "website", "rebooting"},
             updater' \in {"idle", "pending", "resolving", "resolved"}
      PROVE  HostInv'
  <2>1. PowerTypeOK' /\ Supply'
    BY <1>5 DEF powerVars, PowerTypeOK, Supply, LockFollowsUpdates, HeldIsShutDown,
                UnstartedIsOff, NothingToApply, FinalShutdown
  <2>2. UpdateTypeOK' /\ Images'  BY <1>5 DEF UpdateTypeOK, HttpStates, UpdaterStates, Images
  <2>3. QED  BY <2>1, <2>2
<1>6. ASSUME UpdaterBegins PROVE HostInv'
  <2>1. /\ updater = "resolved" /\ beginUpdate("updater") /\ updater' = "firmware"
        /\ UNCHANGED <<http, crossed>>
    BY <1>6 DEF UpdaterBegins
  <2>2. http \in {"idle", "web"}
    BY <2>1, BeginStep DEF Supply, LockFollowsUpdates, UpdateTypeOK, HttpStates
  <2>3. Supply'
    BY <2>1, <2>2, BeginStep DEF Supply, LockFollowsUpdates, HeldIsShutDown
  <2>4. UpdateTypeOK' /\ Images'
    BY <2>1, <2>2, BeginStep, NextPartition DEF UpdateTypeOK, HttpStates, UpdaterStates, Images
  <2>5. QED  BY <2>1, <2>3, <2>4, BeginStep
<1>7. ASSUME do_firmware_update PROVE HostInv'
  <2>1. updater = "firmware" /\ UNCHANGED http  BY <1>7 DEF do_firmware_update
  <2>2. powerLock = "updater" /\ http \in {"idle", "web"}
    BY <2>1 DEF Supply, LockFollowsUpdates, UpdateTypeOK, HttpStates
  <2>3. CASE switchFirmware /\ updater' = "website" /\ UNCHANGED powerVars
    <3>1. PowerTypeOK' /\ Supply'
      BY <2>1, <2>2, <2>3 DEF powerVars, PowerTypeOK, Supply, LockFollowsUpdates,
         HeldIsShutDown, UnstartedIsOff, NothingToApply, FinalShutdown
    <3>2. UpdateTypeOK' /\ Images'
      BY <2>1, <2>3, SwitchStep DEF UpdateTypeOK, HttpStates, UpdaterStates, Images
    <3>3. QED  BY <3>1, <3>2
  <2>4. CASE UnlockPower /\ updater' = "idle" /\ UNCHANGED <<running, bootSlot, valid, crossed>>
    <3>1. Supply'  BY <2>1, <2>2, <2>4, UnlockStep
     DEF Supply, LockFollowsUpdates, HeldIsShutDown
    <3>2. UpdateTypeOK' /\ Images'
      BY <2>1, <2>4 DEF UpdateTypeOK, HttpStates, UpdaterStates, Images
    <3>3. QED  BY <2>4, <3>1, <3>2, UnlockStep
  <2>5. QED  BY <1>7, <2>3, <2>4 DEF do_firmware_update
<1>8. ASSUME updater = "website", UnlockPower, updater' = "rebooting",
             UNCHANGED <<running, bootSlot, valid, http, crossed>>
      PROVE  HostInv'
  <2>1. powerLock = "updater" /\ http \in {"idle", "web"}
    BY <1>8 DEF Supply, LockFollowsUpdates, UpdateTypeOK, HttpStates
  <2>2. Supply'  BY <1>8, <2>1, UnlockStep
     DEF Supply, LockFollowsUpdates, HeldIsShutDown
  <2>3. UpdateTypeOK' /\ Images'  BY <1>8 DEF UpdateTypeOK, HttpStates, UpdaterStates, Images
  <2>4. QED  BY <1>8, <2>2, <2>3, UnlockStep
<1>9. ASSUME trigger \/ UpdaterTakes \/ follow_redirect PROVE HostInv'
  BY <1>5, <1>9 DEF trigger, UpdaterTakes, follow_redirect
<1>10. ASSUME do_www_update PROVE HostInv'
  BY <1>1, <1>8, <1>10 DEF do_www_update
<1>11. ASSUME WwwStep PROVE HostInv'  BY <1>11, WwwStepKeeps
<1>12. QED
  BY <1>1, <1>2, <1>3, <1>4, <1>6, <1>7, <1>9, <1>10, <1>11
  DEF UpdateNext, UpdaterStep, UploadRestarts, POST_restart, UpdaterRestarts, PowerLoss

LEMMA HostKept == HostInv /\ [HostNext]_hostVars => HostInv'
<1>1. HostInv /\ UNCHANGED hostVars => HostInv'
  BY DEF HostInv, HostTypeOK, PowerTypeOK, UpdateTypeOK, Supply, LockFollowsUpdates,
         HeldIsShutDown, UnstartedIsOff, NothingToApply, FinalShutdown, Images, LockIsFree,
         hostVars, powerVars, updateVars
<1>2. QED
  BY <1>1, UpdateStep, PowerStep DEF HostNext

LEMMA HostInvariant == HostSpec => []HostInv
BY HostKept, HostInitially, PTL DEF HostSpec

\* A supply the power task cut stays off until the owner sets another voltage, initAsics runs
\* or the device resets, for any voltages, fan settings and sensor readings.
THEOREM TrippedAlwaysStaysOff == HostSpec => []TrippedStaysOff
<1>1. HostInv => TrippedStaysOff
  BY DEF HostInv, Supply, NothingToApply, TrippedStaysOff
<1>2. QED  BY <1>1, HostInvariant, PTL

\* A shutdown after initAsics is final, whatever the settings, the power task and the updates
\* do before the next reset.
THEOREM ShutdownAlwaysFinal == HostSpec => []ShutdownIsFinal
<1>1. HostInv => ShutdownIsFinal
  BY DEF HostInv, Supply, FinalShutdown, ShutdownIsFinal
<1>2. QED  BY <1>1, HostInvariant, PTL

\* No firmware update holds the mutex over a board that has power, nor does anybody while he
\* waits for the network.
THEOREM UpdatesAlwaysUnpowered == HostSpec => []UpdatesRunUnpowered
<1>1. HostInv => UpdatesRunUnpowered
  BY DEF HostInv, HostTypeOK, PowerTypeOK, Supply, LockFollowsUpdates, HeldIsShutDown,
         LockIsFree, UpdatesRunUnpowered
<1>2. QED  BY <1>1, HostInvariant, PTL

\* The selected slot always holds a complete image, but for an upload in the three seconds
\* before the updater restarts.
THEOREM SelectedImageAlwaysWhole == HostSpec => []SelectedImageIsWhole
<1>1. HostInv => SelectedImageIsWhole
  BY DEF HostInv, Images, SelectedImageIsWhole
<1>2. QED  BY <1>1, HostInvariant, PTL

-----------------------------------------------------------------------------
(***************************************************************************)
(* The Stratum V2 channel.                                                 *)
(***************************************************************************)

\* A multiple of p that is smaller than p is nothing.
LEMMA SlotInRing == ASSUME NEW j \in Nat PROVE Slot(j) \in RingSlots
BY Sv2Assumption DEF Slot, RingSlots

\* Two of the last PendingSize jobs do not share a slot.
LEMMA SlotsDiffer ==
    ASSUME NEW j \in Nat, NEW k \in Nat, k <= j, j - k < PendingSize, Slot(j) = Slot(k)
    PROVE  j = k
<1>1. PendingSize \in Nat \ {0} /\ j % PendingSize = k % PendingSize
  BY Sv2Assumption DEF Slot
<1>2. QED  BY <1>1, RemaindersDiffer

\* Between messages or inside a handler, the work is of the open channel and has its target.
TargetIsShared ==
    /\ WorkHasTheChannelsTarget
    /\ ~opened => enqueue = 0 /\ flush = PendingSize

\* What waits in the ring: jobs the pool has sent, each in its slot; before the first
\* SetNewPrevHash only those it has not withdrawn; and a job it can still name is among them.
RingHoldsFutureJobs ==
    /\ \A s \in RingSlots : pendingJobs[s] # 0 =>
          /\ pendingJobs[s] <= lastJob
          /\ Slot(pendingJobs[s]) = s
          /\ prevHash = 0 => pendingJobs[s] \in future
    /\ \A k \in future : k <= lastJob /\ (k > lastJob - PendingSize => pendingJobs[Slot(k)] = k)

\* The loop over the ring finds it empty when the pool is orderly; no job waits for a name.
FlushFindsNothing ==
    flush < PendingSize =>
        /\ future = {}
        /\ orderly => \A s \in RingSlots : pendingJobs[s] = 0

\* The job the pool wants is about to be handed over, or is the work.
NamedJobIsNext ==
    opened /\ orderly /\ active # 0 =>
        \/ enqueue = active
        \/ enqueue = 0 /\ work.job = active /\ work.prevHash = prevHash

ChannelInv ==
    Sv2TypeOK /\ TargetIsShared /\ RingHoldsFutureJobs /\ FlushFindsNothing /\ NamedJobIsNext

LEMMA ChannelInitially == Sv2Init => ChannelInv
<1>1. \E t : t \in Targets /\ TRUE  BY Sv2Assumption
<1>2. NoWork.diff \in Targets /\ NoWork.job = 0 /\ NoWork.prevHash = 0
  BY <1>1, Zenon DEF NoWork
<1>3. NoWork = [job |-> NoWork.job, prevHash |-> NoWork.prevHash, diff |-> NoWork.diff]
  BY DEF NoWork
<1>4. NoWork \in [job : JobIds \cup {0}, prevHash : 0 .. MaxPrevHash, diff : Targets]
  BY <1>2, <1>3, Sv2Assumption
<1>5. ASSUME Sv2Init PROVE Sv2TypeOK
  <2>1. EmptyRing \in [RingSlots -> JobIds \cup {0}]  BY DEF EmptyRing
  <2>2. work \in [job : JobIds \cup {0}, prevHash : 0 .. MaxPrevHash, diff : Targets]
    BY <1>4, <1>5 DEF Sv2Init
  <2>3. 0 \in 0 .. MaxPrevHash /\ 0 \in 0 .. MaxJob /\ PendingSize \in 0 .. PendingSize
    BY Sv2Assumption
  <2>4. QED  BY <1>5, <2>1, <2>2, <2>3 DEF Sv2Init, Sv2TypeOK
<1>6. QED
  BY <1>2, <1>5, Sv2Assumption
  DEF Sv2Init, ChannelInv, TargetIsShared, WorkHasTheChannelsTarget, RingHoldsFutureJobs,
      EmptyRing, FlushFindsNothing, NamedJobIsNext

LEMMA OpenStep == ASSUME ChannelInv, OpenChannel PROVE ChannelInv'
<1> USE DEF ChannelInv, OpenChannel, EmptyRing
<1>1. Sv2TypeOK'  BY Sv2Assumption DEF Sv2TypeOK, RingSlots
<1>2. TargetIsShared' /\ NamedJobIsNext'
  BY DEF TargetIsShared, WorkHasTheChannelsTarget, NamedJobIsNext
<1>3. RingHoldsFutureJobs' /\ FlushFindsNothing'
  BY DEF RingHoldsFutureJobs, FlushFindsNothing
<1>4. QED  BY <1>1, <1>2, <1>3

LEMMA CloseStep == ASSUME ChannelInv, CloseChannel PROVE ChannelInv'
<1> USE DEF ChannelInv, CloseChannel, Receiving
<1>1. Sv2TypeOK'  BY DEF Sv2TypeOK
<1>2. TargetIsShared' /\ NamedJobIsNext'
  BY DEF TargetIsShared, WorkHasTheChannelsTarget, NamedJobIsNext, Sv2TypeOK
<1>3. RingHoldsFutureJobs' /\ FlushFindsNothing'
  BY DEF RingHoldsFutureJobs, FlushFindsNothing
<1>4. QED  BY <1>1, <1>2, <1>3

\* The pool sends a job that waits: it takes its slot, and the jobs that can still be named
\* are in others.
LEMMA StoreStep ==
    ASSUME ChannelInv, Receiving, lastJob < MaxJob, lastJob' = lastJob + 1,
           StorePending(lastJob'), future' = future \cup {lastJob'},
           UNCHANGED <<opened, prevHash, target, enqueue, flush, work, active, orderly>>
    PROVE  ChannelInv'
<1> USE DEF ChannelInv
<1>1. lastJob' \in JobIds /\ lastJob' \in Nat /\ Slot(lastJob') \in RingSlots
  BY SlotInRing, Sv2Assumption DEF Sv2TypeOK, JobIds
<1>2. pendingJobs' = [pendingJobs EXCEPT ![Slot(lastJob')] = lastJob']
  BY DEF StorePending
<1>3. Sv2TypeOK'
  BY <1>1, <1>2, Sv2Assumption DEF Sv2TypeOK
<1>4. TargetIsShared' /\ NamedJobIsNext'
  BY DEF TargetIsShared, WorkHasTheChannelsTarget, NamedJobIsNext
<1>5. RingHoldsFutureJobs'
  <2>1. ASSUME NEW s \in RingSlots, pendingJobs'[s] # 0
        PROVE  /\ pendingJobs'[s] <= lastJob'
               /\ Slot(pendingJobs'[s]) = s
               /\ prevHash' = 0 => pendingJobs'[s] \in future'
    BY <1>1, <1>2, <2>1, Sv2Assumption DEF RingHoldsFutureJobs, Sv2TypeOK, JobIds
  <2>2. ASSUME NEW k \in future', k > lastJob' - PendingSize
        PROVE  pendingJobs'[Slot(k)] = k
    <3>1. CASE k = lastJob'  BY <1>1, <1>2, <3>1 DEF Sv2TypeOK
    <3>2. CASE k # lastJob'
      <4>1. k \in future /\ k \in Nat /\ k <= lastJob
        BY <3>2 DEF RingHoldsFutureJobs, Sv2TypeOK, JobIds
      <4>2. k > lastJob - PendingSize /\ lastJob' - k < PendingSize /\ k <= lastJob'
        BY <1>1, <2>2, <4>1, Sv2Assumption DEF Sv2TypeOK
      <4>3. pendingJobs[Slot(k)] = k  BY <4>1, <4>2 DEF RingHoldsFutureJobs
      <4>4. Slot(k) # Slot(lastJob')  BY <1>1, <3>2, <4>1, <4>2, SlotsDiffer
      <4>5. QED  BY <1>2, <4>1, <4>3, <4>4, SlotInRing DEF Sv2TypeOK
    <3>3. QED  BY <3>1, <3>2
  <2>3. \A k \in future' : k <= lastJob'
    BY DEF RingHoldsFutureJobs, Sv2TypeOK, JobIds
  <2>4. QED  BY <2>1, <2>2, <2>3 DEF RingHoldsFutureJobs
<1>6. FlushFindsNothing'
  BY Sv2Assumption DEF FlushFindsNothing, Receiving
<1>7. QED  BY <1>3, <1>4, <1>5, <1>6

LEMMA ReadyStep ==
    ASSUME ChannelInv, NewReadyJob PROVE ChannelInv'
<1>1. CASE prevHash = 0  BY <1>1, StoreStep DEF NewReadyJob
<1>2. CASE prevHash # 0
  <2>1. /\ Receiving /\ lastJob < MaxJob /\ lastJob' = lastJob + 1
        /\ enqueue' = lastJob' /\ active' = lastJob'
        /\ UNCHANGED <<opened, pendingJobs, prevHash, target, flush, work, future, orderly>>
    BY <1>2 DEF NewReadyJob
  <2> USE DEF ChannelInv
  <2>2. lastJob' \in JobIds  BY <2>1, Sv2Assumption DEF Sv2TypeOK, JobIds
  <2>3. Sv2TypeOK'  BY <2>1, <2>2, Sv2Assumption DEF Sv2TypeOK, JobIds
  <2>4. TargetIsShared' /\ NamedJobIsNext' /\ FlushFindsNothing'
    BY <2>1 DEF TargetIsShared, WorkHasTheChannelsTarget, NamedJobIsNext, FlushFindsNothing,
                Receiving
  <2>5. RingHoldsFutureJobs'
    <3>1. ASSUME NEW k \in future'
          PROVE  /\ k <= lastJob'
                 /\ k > lastJob' - PendingSize => pendingJobs'[Slot(k)] = k
      BY <2>1, Sv2Assumption DEF RingHoldsFutureJobs, Sv2TypeOK, JobIds
    <3>2. ASSUME NEW s \in RingSlots, pendingJobs'[s] # 0
          PROVE  /\ pendingJobs'[s] <= lastJob'
                 /\ Slot(pendingJobs'[s]) = s
                 /\ prevHash' = 0 => pendingJobs'[s] \in future'
      BY <2>1, <3>2 DEF RingHoldsFutureJobs, Sv2TypeOK, JobIds
    <3>3. QED  BY <3>1, <3>2 DEF RingHoldsFutureJobs
  <2>6. QED  BY <2>3, <2>4, <2>5
<1>3. QED  BY <1>1, <1>2

LEMMA FutureStep ==
    ASSUME ChannelInv, NewFutureJob PROVE ChannelInv'
BY StoreStep DEF NewFutureJob

LEMMA PrevHashStep ==
    ASSUME ChannelInv, NEW j \in future, SetNewPrevHash(j) PROVE ChannelInv'
<1> USE DEF ChannelInv
<1>1. /\ Receiving /\ prevHash < MaxPrevHash /\ prevHash' = prevHash + 1
      /\ enqueue' = (IF pendingJobs[Slot(j)] = j THEN j ELSE 0)
      /\ pendingJobs' = [pendingJobs EXCEPT ![Slot(j)] = IF @ = j THEN 0 ELSE @]
      /\ flush' = (IF prevHash = 0 THEN 0 ELSE PendingSize)
      /\ future' = {} /\ active' = j
      /\ orderly' = (orderly /\ KeepsToTheRing(j))
      /\ UNCHANGED <<opened, target, work, lastJob>>
  BY DEF SetNewPrevHash, TakeNamed
<1>2. j \in JobIds /\ j \in Nat /\ j # 0 /\ Slot(j) \in RingSlots
  BY SlotInRing DEF Sv2TypeOK, JobIds
<1>3. \A s \in RingSlots : pendingJobs'[s] \in {0, pendingJobs[s]}
  BY <1>1, <1>2 DEF Sv2TypeOK
<1>4. Sv2TypeOK'
  <2>1. pendingJobs' \in [RingSlots -> JobIds \cup {0}]
    BY <1>1, <1>2 DEF Sv2TypeOK
  <2>2. prevHash' \in 0 .. MaxPrevHash /\ flush' \in 0 .. PendingSize
        /\ orderly' \in BOOLEAN /\ enqueue' \in JobIds \cup {0}
    BY <1>1, <1>2, Sv2Assumption DEF Sv2TypeOK, KeepsToTheRing
  <2>3. QED  BY <1>1, <1>2, <2>1, <2>2 DEF Sv2TypeOK
<1>5. KeepsToTheRing(j) => enqueue' = j
  BY <1>1 DEF KeepsToTheRing, RingHoldsFutureJobs
<1>6. TargetIsShared' /\ NamedJobIsNext'
  BY <1>1, <1>5 DEF TargetIsShared, WorkHasTheChannelsTarget, NamedJobIsNext, Receiving
<1>7. RingHoldsFutureJobs'
  BY <1>1, <1>3 DEF RingHoldsFutureJobs, Sv2TypeOK
<1>8. FlushFindsNothing'
  <2>1. SUFFICES ASSUME orderly', flush' < PendingSize, NEW s \in RingSlots
                 PROVE  pendingJobs'[s] = 0
    BY <1>1 DEF FlushFindsNothing
  <2>2. prevHash = 0
    BY <1>1, <2>1, Sv2Assumption
  <2>3. future = {j}
    <3>1. KeepsToTheRing(j)  BY <1>1, <2>1
    <3>2. QED  BY <2>2, <3>1 DEF KeepsToTheRing
  <2>4. pendingJobs[s] # 0 => pendingJobs[s] = j /\ s = Slot(j)
    BY <2>2, <2>3 DEF RingHoldsFutureJobs
  <2>5. QED  BY <1>1, <1>2, <2>4 DEF Sv2TypeOK
<1>9. QED  BY <1>4, <1>6, <1>7, <1>8

LEMMA FlushStep == ASSUME ChannelInv, FlushSlot PROVE ChannelInv'
<1> USE DEF ChannelInv
<1>1. /\ enqueue = 0 /\ flush < PendingSize /\ flush \in RingSlots /\ flush' = flush + 1
      /\ enqueue' = pendingJobs[flush]
      /\ pendingJobs' = [pendingJobs EXCEPT ![flush] = 0]
      /\ UNCHANGED <<opened, prevHash, target, work, lastJob, future, active, orderly>>
  BY Sv2Assumption DEF FlushSlot, Sv2TypeOK, RingSlots
<1>2. \A s \in RingSlots : pendingJobs'[s] = IF s = flush THEN 0 ELSE pendingJobs[s]
  BY <1>1 DEF Sv2TypeOK
<1>3. Sv2TypeOK'  BY <1>1, Sv2Assumption DEF Sv2TypeOK
<1>4. TargetIsShared' /\ NamedJobIsNext' /\ FlushFindsNothing'
  BY <1>1, <1>2, Sv2Assumption
  DEF TargetIsShared, WorkHasTheChannelsTarget, NamedJobIsNext, FlushFindsNothing, Sv2TypeOK
<1>5. RingHoldsFutureJobs'
  BY <1>1, <1>2 DEF RingHoldsFutureJobs, FlushFindsNothing
<1>6. QED  BY <1>3, <1>4, <1>5

LEMMA WorkStep == ASSUME ChannelInv, create_job_sv2_extended PROVE ChannelInv'
<1> USE DEF ChannelInv, create_job_sv2_extended
<1>1. Sv2TypeOK'  BY DEF Sv2TypeOK
<1>2. TargetIsShared' /\ NamedJobIsNext'
  BY DEF TargetIsShared, WorkHasTheChannelsTarget, NamedJobIsNext
<1>3. RingHoldsFutureJobs' /\ FlushFindsNothing'
  BY DEF RingHoldsFutureJobs, FlushFindsNothing
<1>4. QED  BY <1>1, <1>2, <1>3

LEMMA TargetStep == ASSUME ChannelInv, SetTarget PROVE ChannelInv'
<1> USE DEF ChannelInv, SetTarget
<1>1. Sv2TypeOK'  BY DEF Sv2TypeOK
<1>2. TargetIsShared' /\ NamedJobIsNext'
  BY DEF TargetIsShared, WorkHasTheChannelsTarget, NamedJobIsNext, Sv2TypeOK
<1>3. RingHoldsFutureJobs' /\ FlushFindsNothing'
  BY DEF RingHoldsFutureJobs, FlushFindsNothing
<1>4. QED  BY <1>1, <1>2, <1>3

LEMMA ChannelKept == ChannelInv /\ [Sv2Next]_sv2Vars => ChannelInv'
<1>1. ChannelInv /\ UNCHANGED sv2Vars => ChannelInv'
  BY DEF ChannelInv, Sv2TypeOK, TargetIsShared, WorkHasTheChannelsTarget, RingHoldsFutureJobs,
         FlushFindsNothing, NamedJobIsNext, sv2Vars
<1>2. QED
  BY <1>1, OpenStep, CloseStep, ReadyStep, FutureStep, PrevHashStep, FlushStep, WorkStep,
     TargetStep
  DEF Sv2Next

LEMMA ChannelInvariant == Sv2Spec => []ChannelInv
BY ChannelKept, ChannelInitially, PTL DEF Sv2Spec

\* For a ring and a session of any length: with an orderly pool, the work between two messages
\* is the job the pool wants mined, on the prev_hash it sent last.
THEOREM NamedJobIsAlwaysMined == Sv2Spec => []NamedJobIsMined
<1>1. ChannelInv => NamedJobIsMined
  BY DEF ChannelInv, NamedJobIsNext, NamedJobIsMined, Receiving
<1>2. QED  BY <1>1, ChannelInvariant, PTL

\* For any targets: the work counts its shares by the target of its channel.
THEOREM WorkAlwaysHasTheTarget == Sv2Spec => []WorkHasTheChannelsTarget
<1>1. ChannelInv => WorkHasTheChannelsTarget
  BY DEF ChannelInv, TargetIsShared
<1>2. QED  BY <1>1, ChannelInvariant, PTL

-----------------------------------------------------------------------------
(***************************************************************************)
(* The network.  The last of the queued events of an interface tells what  *)
(* the driver is in; when none is queued the manager knows.  What a driver *)
(* is in and what a flag says are both named by the event that says so.    *)
(***************************************************************************)
WifiEvents == {"STA_GOT_IP", "STA_DISCONNECTED"}
EthEvents == {"ETH_GOT_IP", "ETH_DISCONNECTED"}

WifiIs == IF wifi = "online" THEN "STA_GOT_IP" ELSE "STA_DISCONNECTED"
WifiFlag == IF wifiHasIp THEN "STA_GOT_IP" ELSE "STA_DISCONNECTED"
WifiBit == IF "wifi" \in ipBits THEN "STA_GOT_IP" ELSE "STA_DISCONNECTED"
EthIs == IF eth = "online" THEN "ETH_GOT_IP" ELSE "ETH_DISCONNECTED"
EthFlag == IF ethHasIp THEN "ETH_GOT_IP" ELSE "ETH_DISCONNECTED"

LastOf(q, E) == {i \in 1 .. Len(q) : q[i] \in E /\ \A j \in i + 1 .. Len(q) : q[j] \notin E}

Told(q, E, state, known) ==
    /\ \A i \in LastOf(q, E) : q[i] = state
    /\ (\A i \in 1 .. Len(q) : q[i] \notin E) => known = state

\* An event of the interface is posted.
LEMMA ToldByLast ==
    ASSUME NEW q \in Seq(NetEvents), NEW E, NEW e \in NetEvents, e \in E, NEW known
    PROVE  Told(Append(q, e), E, e, known)
BY DEF Told, LastOf

\* One of another interface is.
LEMMA ToldStill ==
    ASSUME NEW q \in Seq(NetEvents), NEW E, NEW e \in NetEvents, e \notin E,
           NEW known, NEW state, Told(q, E, state, known)
    PROVE  Told(Append(q, e), E, state, known)
<1> DEFINE r == Append(q, e)
<1>1. /\ Len(r) = Len(q) + 1 /\ r[Len(r)] = e /\ Len(q) \in Nat
      /\ \A i \in 1 .. Len(q) : r[i] = q[i]
  OBVIOUS
<1> HIDE DEF r
<1>2. LastOf(r, E) = LastOf(q, E)
  BY <1>1 DEF LastOf
<1>3. QED
  BY <1>1, <1>2 DEF Told, LastOf, r

\* The positions of a sequence and of its tail.
LEMMA TailPositions ==
    ASSUME NEW q \in Seq(NetEvents), q # <<>>
    PROVE  /\ Len(q) \in Nat /\ Len(q) >= 1 /\ Len(Tail(q)) = Len(q) - 1 /\ Head(q) = q[1]
           /\ \A i \in 1 .. Len(Tail(q)) : Tail(q)[i] = q[i + 1]
OBVIOUS

LEMMA LastOfTail ==
    ASSUME NEW q \in Seq(NetEvents), q # <<>>, NEW E, NEW i \in LastOf(Tail(q), E)
    PROVE  i + 1 \in LastOf(q, E) /\ Tail(q)[i] = q[i + 1]
<1> DEFINE r == Tail(q)
<1>1. /\ Len(q) \in Nat /\ Len(q) >= 1 /\ Len(r) = Len(q) - 1
      /\ \A k \in 1 .. Len(r) : r[k] = q[k + 1]
  BY TailPositions
<1>2. i \in LastOf(r, E)  OBVIOUS
<1> HIDE DEF r
<1>3. \A j \in i + 2 .. Len(q) : j - 1 \in i + 1 .. Len(r) /\ q[j] = r[j - 1]
  BY <1>1, <1>2 DEF LastOf
<1>4. QED  BY <1>1, <1>2, <1>3 DEF LastOf, r

\* The first event is of the interface, and its handler notes it.
LEMMA ToldByFirst ==
    ASSUME NEW q \in Seq(NetEvents), q # <<>>, NEW E, Head(q) \in E, NEW known, NEW state,
           Told(q, E, state, known)
    PROVE  Told(Tail(q), E, state, Head(q))
<1> DEFINE r == Tail(q)
<1>1. /\ Len(q) \in Nat /\ Len(q) >= 1 /\ Len(r) = Len(q) - 1 /\ Head(q) = q[1]
      /\ \A k \in 1 .. Len(r) : r[k] = q[k + 1]
  BY TailPositions
<1>2. \A i \in LastOf(r, E) : r[i] = state  BY LastOfTail DEF Told
<1> HIDE DEF r
<1>3. ASSUME \A i \in 1 .. Len(r) : r[i] \notin E PROVE Head(q) = state
  <2>1. \A j \in 2 .. Len(q) : j - 1 \in 1 .. Len(r) /\ q[j] = r[j - 1]  BY <1>1
  <2>2. 1 \in LastOf(q, E)  BY <1>1, <1>3, <2>1 DEF LastOf
  <2>3. QED  BY <1>1, <2>2 DEF Told
<1>4. QED  BY <1>2, <1>3 DEF Told, r

LEMMA ToldAfterOther ==
    ASSUME NEW q \in Seq(NetEvents), q # <<>>, NEW E, Head(q) \notin E, NEW known, NEW state,
           Told(q, E, state, known)
    PROVE  Told(Tail(q), E, state, known)
<1> DEFINE r == Tail(q)
<1>1. /\ Len(q) \in Nat /\ Len(q) >= 1 /\ Len(r) = Len(q) - 1 /\ Head(q) = q[1]
      /\ \A k \in 1 .. Len(r) : r[k] = q[k + 1]
  BY TailPositions
<1>2. \A i \in LastOf(r, E) : r[i] = state  BY LastOfTail DEF Told
<1> HIDE DEF r
<1>3. ASSUME \A i \in 1 .. Len(r) : r[i] \notin E PROVE known = state
  <2>1. \A j \in 2 .. Len(q) : j - 1 \in 1 .. Len(r) /\ q[j] = r[j - 1]  BY <1>1
  <2>2. \A j \in 1 .. Len(q) : q[j] \notin E  BY <1>1, <1>3, <2>1
  <2>3. QED  BY <2>2 DEF Told
<1>4. QED  BY <1>2, <1>3 DEF Told, r

WifiTold == Told(events, WifiEvents, WifiIs, WifiFlag) /\ Told(events, WifiEvents, WifiIs, WifiBit)
EthTold == Told(events, EthEvents, EthIs, EthFlag)

\* WiFi is stopped while Ethernet has it disabled: nothing starts it but the lost link.
StoppedForEthernet == wifiDisabled => wifi = "stopped"

RouteFollowsFlags ==
    /\ ethHasIp <=> "eth" \in ipBits
    /\ preferred = IF ethHasIp THEN "eth" ELSE IF wifiHasIp THEN "wifi" ELSE "none"

NetInv == NetTypeOK /\ StoppedForEthernet /\ RouteFollowsFlags /\ WifiTold /\ EthTold

LEMMA NetInitially == NetInit => NetInv
<1>1. ASSUME NetInit PROVE WifiTold /\ EthTold
  <2>1. /\ Len(events) = 1 /\ events[1] \notin WifiEvents /\ events[1] \notin EthEvents
        /\ WifiIs = WifiFlag /\ WifiIs = WifiBit /\ EthIs = EthFlag
    BY <1>1 DEF NetInit, WifiEvents, EthEvents, WifiIs, WifiFlag, WifiBit, EthIs, EthFlag
  <2>2. QED  BY <2>1 DEF WifiTold, EthTold, Told, LastOf
<1>2. ASSUME NetInit PROVE NetTypeOK
  <2>1. "STA_START" \in NetEvents  BY DEF NetEvents
  <2>2. events \in Seq(NetEvents)  BY <1>2, <2>1 DEF NetInit
  <2>3. QED  BY <1>2, <2>2 DEF NetInit, NetTypeOK
<1>3. NetInit => StoppedForEthernet /\ RouteFollowsFlags
  BY DEF NetInit, StoppedForEthernet, RouteFollowsFlags
<1>4. QED  BY <1>1, <1>2, <1>3 DEF NetInv

\* A driver posts an event, with what it is in now.
LEMMA DriverPosts ==
    ASSUME NetInv, NEW e \in NetEvents, events' = Append(events, e), UNCHANGED managerFlags,
           e \in WifiEvents => WifiIs' = e /\ eth' = eth,
           e \in EthEvents => EthIs' = e /\ wifi' = wifi,
           e \in WifiEvents \cup EthEvents
    PROVE  WifiTold' /\ EthTold'
<1>1. /\ events \in Seq(NetEvents) /\ WifiFlag' = WifiFlag /\ WifiBit' = WifiBit
      /\ EthFlag' = EthFlag
  BY DEF NetInv, NetTypeOK, managerFlags, WifiFlag, WifiBit, EthFlag
<1>2. CASE e \in WifiEvents
  <2>1. e \notin EthEvents /\ EthIs' = EthIs
    BY <1>2 DEF EthEvents, WifiEvents, EthIs
  <2>2. WifiTold'  BY <1>1, <1>2, ToldByLast DEF WifiTold
  <2>3. EthTold'  BY <1>1, <2>1, ToldStill DEF EthTold, NetInv
  <2>4. QED  BY <2>2, <2>3
<1>3. CASE e \in EthEvents
  <2>1. e \notin WifiEvents /\ WifiIs' = WifiIs
    BY <1>3 DEF EthEvents, WifiEvents, WifiIs
  <2>2. WifiTold'  BY <1>1, <2>1, ToldStill DEF WifiTold, NetInv
  <2>3. EthTold'  BY <1>1, <1>3, ToldByLast DEF EthTold
  <2>4. QED  BY <2>2, <2>3
<1>4. QED  BY <1>2, <1>3

LEMMA DriverStep ==
    ASSUME NetInv, WifiOnline \/ WifiLost \/ LinkUp \/ EthOnline \/ LinkDown PROVE NetInv'
<1> USE DEF NetInv, managerFlags, PostEvent
<1>1. NetTypeOK' /\ StoppedForEthernet' /\ RouteFollowsFlags'
  <2>1. events' \in Seq(NetEvents)
    BY DEF WifiOnline, WifiLost, LinkUp, EthOnline, LinkDown, NetTypeOK, NetEvents
  <2>2. NetTypeOK'
    BY <2>1 DEF WifiOnline, WifiLost, LinkUp, EthOnline, LinkDown, NetTypeOK
  <2>3. StoppedForEthernet'
    BY DEF WifiOnline, WifiLost, LinkUp, EthOnline, LinkDown, StoppedForEthernet
  <2>4. RouteFollowsFlags'
    BY DEF WifiOnline, WifiLost, LinkUp, EthOnline, LinkDown, RouteFollowsFlags
  <2>5. QED  BY <2>2, <2>3, <2>4
<1>2. ASSUME WifiOnline PROVE WifiTold' /\ EthTold'
  BY <1>2, DriverPosts DEF WifiOnline, WifiIs, WifiEvents, EthEvents, NetEvents
<1>3. ASSUME WifiLost PROVE WifiTold' /\ EthTold'
  BY <1>3, DriverPosts DEF WifiLost, WifiIs, WifiEvents, EthEvents, NetEvents
<1>4. ASSUME EthOnline PROVE WifiTold' /\ EthTold'
  BY <1>4, DriverPosts DEF EthOnline, EthIs, WifiEvents, EthEvents, NetEvents
<1>5. ASSUME LinkDown PROVE WifiTold' /\ EthTold'
  BY <1>5, DriverPosts DEF LinkDown, EthIs, WifiEvents, EthEvents, NetEvents
<1>6. ASSUME LinkUp PROVE WifiTold' /\ EthTold'
  BY <1>6 DEF LinkUp, WifiTold, EthTold, WifiIs, WifiFlag, WifiBit, EthIs, EthFlag
<1>7. QED  BY <1>1, <1>2, <1>3, <1>4, <1>5, <1>6

\* The connection attempt changes what WiFi does, not whether it is online.
LEMMA ConnectStep ==
    ASSUME NetInv, esp_wifi_connect
    PROVE  /\ wifi' \in {"stopped", "idle", "connecting", "online"}
           /\ WifiIs' = WifiIs /\ (wifi = "stopped" => wifi' = "stopped")
BY DEF NetInv, NetTypeOK, esp_wifi_connect, WifiIs

LEMMA HandlerStep == ASSUME NetInv, EventLoopStep PROVE NetInv'
<1> USE DEF NetInv
<1>1. ASSUME StaStart PROVE NetInv'
  <2>1. /\ events \in Seq(NetEvents) /\ events # <<>> /\ Head(events) \notin WifiEvents
        /\ Head(events) \notin EthEvents /\ events' = Tail(events)
        /\ WifiFlag' = WifiFlag /\ WifiBit' = WifiBit /\ EthFlag' = EthFlag /\ EthIs' = EthIs
        /\ esp_wifi_connect /\ UNCHANGED <<eth, backoff, managerFlags>>
    BY <1>1 DEF StaStart, Takes, NetTypeOK, WifiEvents, EthEvents, managerFlags, WifiFlag,
                WifiBit, EthFlag, EthIs
  <2>2. WifiIs' = WifiIs  BY <2>1, ConnectStep
  <2>3. WifiTold' /\ EthTold'  BY <2>1, <2>2, ToldAfterOther DEF WifiTold, EthTold
  <2>4. NetTypeOK' /\ StoppedForEthernet' /\ RouteFollowsFlags'
    BY <2>1, ConnectStep DEF NetTypeOK, StoppedForEthernet, RouteFollowsFlags, managerFlags
  <2>5. QED  BY <2>3, <2>4
<1>2. ASSUME onWifiGotIp PROVE NetInv'
  <2>1. /\ events \in Seq(NetEvents) /\ events # <<>> /\ Head(events) = "STA_GOT_IP"
        /\ events' = Tail(events) /\ WifiFlag' = "STA_GOT_IP" /\ WifiBit' = "STA_GOT_IP"
        /\ EthFlag' = EthFlag /\ EthIs' = EthIs /\ WifiIs' = WifiIs
    BY <1>2 DEF onWifiGotIp, Takes, NetTypeOK, driverVars, WifiFlag, WifiBit, WifiIs, EthFlag,
                EthIs
  <2>2. Head(events) \in WifiEvents /\ Head(events) \notin EthEvents
    BY <2>1 DEF WifiEvents, EthEvents
  <2>3. WifiTold'  BY <2>1, <2>2, ToldByFirst DEF WifiTold
  <2>4. EthTold'  BY <2>1, <2>2, ToldAfterOther DEF EthTold
  <2>5. events' \in Seq(NetEvents)  BY <2>1
  <2>6. NetTypeOK'
    BY <1>2, <2>5 DEF onWifiGotIp, updateDefaultRoute, NetTypeOK, driverVars
  <2>7. StoppedForEthernet' /\ RouteFollowsFlags'
    BY <1>2 DEF onWifiGotIp, updateDefaultRoute, StoppedForEthernet, RouteFollowsFlags,
                driverVars, NetTypeOK
  <2>8. QED  BY <2>3, <2>4, <2>6, <2>7
<1>3. ASSUME onWifiDisconnected PROVE NetInv'
  <2>1. /\ events \in Seq(NetEvents) /\ events # <<>> /\ Head(events) = "STA_DISCONNECTED"
        /\ events' = Tail(events) /\ WifiFlag' = "STA_DISCONNECTED"
        /\ WifiBit' = "STA_DISCONNECTED"
        /\ EthFlag' = EthFlag /\ EthIs' = EthIs /\ WifiIs' = WifiIs
    BY <1>3 DEF onWifiDisconnected, Takes, NetTypeOK, driverVars, WifiFlag, WifiBit, WifiIs,
                EthFlag, EthIs
  <2>2. Head(events) \in WifiEvents /\ Head(events) \notin EthEvents
    BY <2>1 DEF WifiEvents, EthEvents
  <2>3. WifiTold'  BY <2>1, <2>2, ToldByFirst DEF WifiTold
  <2>4. EthTold'  BY <2>1, <2>2, ToldAfterOther DEF EthTold
  <2>5. events' \in Seq(NetEvents)  BY <2>1
  <2>6. NetTypeOK'
    BY <1>3, <2>5 DEF onWifiDisconnected, updateDefaultRoute, NetTypeOK, driverVars
  <2>7. StoppedForEthernet' /\ RouteFollowsFlags'
    BY <1>3 DEF onWifiDisconnected, updateDefaultRoute, StoppedForEthernet, RouteFollowsFlags,
                driverVars, NetTypeOK
  <2>8. QED  BY <2>3, <2>4, <2>6, <2>7
<1>4. ASSUME BackoffEnds PROVE NetInv'
  <2>1. /\ WifiFlag' = WifiFlag /\ WifiBit' = WifiBit /\ EthFlag' = EthFlag /\ EthIs' = EthIs
        /\ events' = events /\ esp_wifi_connect
    BY <1>4 DEF BackoffEnds, managerFlags, WifiFlag, WifiBit, EthFlag, EthIs
  <2>2. WifiTold' /\ EthTold'  BY <2>1, ConnectStep DEF WifiTold, EthTold
  <2>3. NetTypeOK' /\ StoppedForEthernet' /\ RouteFollowsFlags'
    BY <1>4, ConnectStep DEF BackoffEnds, NetTypeOK, StoppedForEthernet, RouteFollowsFlags,
                             managerFlags
  <2>4. QED  BY <2>2, <2>3
<1>5. ASSUME onEthGotIp PROVE NetInv'
  <2> DEFINE rest == Tail(events)
             stopping == ~wifiDisabled /\ wifi \in {"connecting", "online"}
  <2>1. /\ events \in Seq(NetEvents) /\ events # <<>> /\ Head(events) = "ETH_GOT_IP"
        /\ Head(events) \notin WifiEvents /\ Head(events) \in EthEvents
        /\ rest \in Seq(NetEvents)
    BY <1>5 DEF onEthGotIp, Takes, NetTypeOK, WifiEvents, EthEvents
  <2>2. EthFlag' = "ETH_GOT_IP" /\ EthIs' = EthIs /\ WifiBit' = WifiBit
    BY <1>5 DEF onEthGotIp, EthFlag, EthIs, WifiBit
  <2>3. /\ Told(rest, EthEvents, EthIs, "ETH_GOT_IP")
        /\ Told(rest, WifiEvents, WifiIs, WifiFlag) /\ Told(rest, WifiEvents, WifiIs, WifiBit)
    BY <2>1, ToldByFirst, ToldAfterOther DEF WifiTold, EthTold
  <2>4. ASSUME stopping PROVE WifiTold' /\ EthTold' /\ events' \in Seq(NetEvents)
    <3>1. events' = Append(rest, "STA_DISCONNECTED") /\ WifiIs' = "STA_DISCONNECTED"
          /\ "STA_DISCONNECTED" \in WifiEvents /\ "STA_DISCONNECTED" \notin EthEvents
          /\ "STA_DISCONNECTED" \in NetEvents
      BY <1>5, <2>1, <2>4 DEF onEthGotIp, WifiIs, WifiEvents, EthEvents, NetEvents
    <3>2. WifiTold'  BY <2>1, <3>1, ToldByLast DEF WifiTold
    <3>3. EthTold'  BY <2>1, <2>2, <2>3, <3>1, ToldStill DEF EthTold
    <3>4. QED  BY <2>1, <3>1, <3>2, <3>3
  <2>5. ASSUME ~stopping PROVE WifiTold' /\ EthTold' /\ events' \in Seq(NetEvents)
    <3>1. events' = rest /\ WifiIs' = WifiIs
      BY <1>5, <2>1, <2>5 DEF onEthGotIp, WifiIs, StoppedForEthernet
    <3>2. WifiFlag' = WifiFlag \/ (~wifiDisabled /\ WifiIs = "STA_DISCONNECTED"
                                   /\ WifiFlag' = "STA_DISCONNECTED")
      BY <1>5, <2>5 DEF onEthGotIp, WifiFlag, WifiIs, NetTypeOK
    <3>3. WifiTold'  BY <2>2, <2>3, <3>1, <3>2 DEF WifiTold, Told
    <3>4. EthTold'  BY <2>2, <2>3, <3>1 DEF EthTold
    <3>5. QED  BY <2>1, <3>1, <3>3, <3>4
  <2>6. NetTypeOK'
    BY <1>5, <2>4, <2>5 DEF onEthGotIp, updateDefaultRoute, NetTypeOK
  <2>7. StoppedForEthernet' /\ RouteFollowsFlags'
    BY <1>5 DEF onEthGotIp, updateDefaultRoute, StoppedForEthernet, RouteFollowsFlags,
                NetTypeOK
  <2>8. QED  BY <2>4, <2>5, <2>6, <2>7
<1>6. ASSUME onEthLinkDown PROVE NetInv'
  <2> DEFINE rest == Tail(events)
  <2>1. /\ events \in Seq(NetEvents) /\ events # <<>> /\ Head(events) = "ETH_DISCONNECTED"
        /\ Head(events) \notin WifiEvents /\ Head(events) \in EthEvents
        /\ rest \in Seq(NetEvents)
    BY <1>6 DEF onEthLinkDown, Takes, NetTypeOK, WifiEvents, EthEvents
  <2>2. /\ EthFlag' = "ETH_DISCONNECTED" /\ EthIs' = EthIs /\ WifiBit' = WifiBit
        /\ WifiFlag' = WifiFlag /\ WifiIs' = WifiIs
    BY <1>6 DEF onEthLinkDown, EthFlag, EthIs, WifiBit, WifiFlag, WifiIs, StoppedForEthernet
  <2>3. /\ Told(rest, EthEvents, EthIs, "ETH_DISCONNECTED")
        /\ Told(rest, WifiEvents, WifiIs, WifiFlag) /\ Told(rest, WifiEvents, WifiIs, WifiBit)
    BY <2>1, ToldByFirst, ToldAfterOther DEF WifiTold, EthTold
  <2>4. ASSUME wifiDisabled PROVE WifiTold' /\ EthTold' /\ events' \in Seq(NetEvents)
    <3>1. events' = Append(rest, "STA_START") /\ "STA_START" \in NetEvents
          /\ "STA_START" \notin WifiEvents /\ "STA_START" \notin EthEvents
      BY <1>6, <2>4 DEF onEthLinkDown, WifiEvents, EthEvents, NetEvents
    <3>2. /\ Told(events', EthEvents, EthIs, "ETH_DISCONNECTED")
          /\ Told(events', WifiEvents, WifiIs, WifiFlag)
          /\ Told(events', WifiEvents, WifiIs, WifiBit)
      BY <2>1, <2>3, <3>1, ToldStill
    <3>3. QED  BY <2>1, <2>2, <3>1, <3>2 DEF WifiTold, EthTold
  <2>5. ASSUME ~wifiDisabled PROVE WifiTold' /\ EthTold' /\ events' \in Seq(NetEvents)
    <3>1. events' = rest  BY <1>6, <2>5 DEF onEthLinkDown
    <3>2. QED  BY <2>1, <2>2, <2>3, <3>1 DEF WifiTold, EthTold
  <2>6. NetTypeOK'
    BY <1>6, <2>4, <2>5 DEF onEthLinkDown, updateDefaultRoute, NetTypeOK
  <2>7. StoppedForEthernet' /\ RouteFollowsFlags'
    BY <1>6 DEF onEthLinkDown, updateDefaultRoute, StoppedForEthernet, RouteFollowsFlags,
                NetTypeOK
  <2>8. QED  BY <2>4, <2>5, <2>6, <2>7
<1>7. QED
  BY <1>1, <1>2, <1>3, <1>4, <1>5, <1>6 DEF EventLoopStep

LEMMA NetKept == NetInv /\ [NetNext]_netVars => NetInv'
<1>1. NetInv /\ UNCHANGED netVars => NetInv'
  BY DEF NetInv, NetTypeOK, StoppedForEthernet, RouteFollowsFlags, WifiTold, EthTold, WifiIs,
         WifiFlag, WifiBit, EthIs, EthFlag, netVars, driverVars, managerFlags
<1>2. QED
  BY <1>1, DriverStep, HandlerStep DEF NetNext

LEMMA NetInvariant == NetSpec => []NetInv
BY NetKept, NetInitially, PTL DEF NetSpec

\* However many events wait, and in whatever order the drivers post them: with none left the
\* manager's flags, the event group and the route are those of the interfaces.
THEOREM FlagsAlwaysCatchUp == NetSpec => []FlagsCatchUp
<1>1. NetInv => FlagsCatchUp
  <2>1. SUFFICES ASSUME NetInv, events = <<>> PROVE FlagsCatchUp  BY DEF FlagsCatchUp
  <2>2. \A i \in 1 .. Len(events) : FALSE  BY <2>1
  <2>3. WifiFlag = WifiIs /\ WifiBit = WifiIs /\ EthFlag = EthIs
    BY <2>1, <2>2 DEF NetInv, WifiTold, EthTold, Told
  <2>4. /\ wifiHasIp <=> (wifi = "online")
        /\ ("wifi" \in ipBits) <=> (wifi = "online")
        /\ ethHasIp <=> (eth = "online")
        /\ ethHasIp <=> ("eth" \in ipBits)
    BY <2>1, <2>3 DEF WifiFlag, WifiIs, WifiBit, EthFlag, EthIs, NetInv, NetTypeOK,
                      RouteFollowsFlags
  <2>5. preferred = IF eth = "online" THEN "eth" ELSE IF wifi = "online" THEN "wifi" ELSE "none"
    BY <2>1, <2>4 DEF NetInv, RouteFollowsFlags
  <2>6. QED  BY <2>4, <2>5 DEF FlagsCatchUp
<1>2. QED  BY <1>1, NetInvariant, PTL

-----------------------------------------------------------------------------
(***************************************************************************)
(* The parts together.                                                     *)
(***************************************************************************)
PartsInv == HostInv /\ ChannelInv /\ NetInv /\ HistoryInv

LEMMA NetworkRestsWell == NetworkRests => NetInv
<1>1. SUFFICES ASSUME NetworkRests PROVE NetInv  OBVIOUS
<1>2. NetTypeOK
  <2>1. events \in Seq(NetEvents)  BY <1>1 DEF NetworkRests
  <2>2. QED  BY <1>1, <2>1 DEF NetworkRests, NetTypeOK
<1>3. WifiTold /\ EthTold
  <2>1. /\ Len(events) = 0
        /\ WifiIs = WifiFlag /\ WifiIs = WifiBit /\ EthIs = EthFlag
    BY <1>1 DEF NetworkRests, WifiIs, WifiFlag, WifiBit, EthIs, EthFlag
  <2>2. QED  BY <2>1 DEF WifiTold, EthTold, Told, LastOf
<1>4. StoppedForEthernet /\ RouteFollowsFlags
  BY <1>1 DEF NetworkRests, StoppedForEthernet, RouteFollowsFlags
<1>5. QED  BY <1>2, <1>3, <1>4 DEF NetInv

LEMMA PartsInitially == MCInit => PartsInv
BY HostInitially, ChannelInitially, NetInitially, NetworkRestsWell, HistoryInitially
DEF MCInit, PartsInv, HostRests, ChannelRests

LEMMA PartsKept == PartsInv /\ [MCNext]_allVars => PartsInv'
<1>1. PartsInv /\ UNCHANGED allVars => PartsInv'
  BY HostKept, ChannelKept, NetKept, HistoryRests DEF PartsInv, allVars
<1>2. PartsInv /\ MCNext => PartsInv'
  BY HostKept, ChannelKept, NetKept, HistoryRests, HistoryStep DEF PartsInv, MCNext
<1>3. QED  BY <1>1, <1>2

\* Every variable of every part has its type, for any values of the constants.
THEOREM TypesAlwaysOK == MCSpec => []TypesOK
<1>1. PartsInv => TypesOK
  BY DEF PartsInv, TypesOK, HostInv, HostTypeOK, ChannelInv, NetInv, HistoryInv
<1>2. QED  BY <1>1, PartsInitially, PartsKept, PTL DEF MCSpec
=============================================================================
