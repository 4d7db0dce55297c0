----------------------------- MODULE PowerGuard -----------------------------
(***************************************************************************)
(* Who switches the ASIC supply on and off: the power management task,     *)
(* which cuts it on overheating and on a fault of the buck converter,      *)
(* Board::initAsics at the end of the start-up, and the shutdown that the  *)
(* web server, the display and the firmware updates ask for.  They exclude *)
(* each other by the (recursive) mutex of POWER_MANAGEMENT_MODULE: a       *)
(* holder that never waits is one step, and powerLock names the holder     *)
(* that keeps the mutex over a download (FirmwareUpdate).                  *)
(*                                                                         *)
(* Temperatures are the sensors that read above the overheat threshold,    *)
(* voltages are numbers that the setting, the limit of the board and the   *)
(* cache last_core_voltage are compared by.  The boards with a TPS53647    *)
(* and LDOs are meant (NerdQaxePlus and its relatives).                    *)
(***************************************************************************)
EXTENDS Integers

CONSTANTS
    Voltages,     \* core voltages the owner can set
    InitVoltage,  \* m_initVoltageMillis
    AbsMax,       \* m_absMaxAsicVoltageMillis, 0 for no limit
    NumChannels,  \* fan channels of the board
    FanSettings   \* fan settings the owner can save: see AllFanSettings

ASSUME PowerAssumption ==
    /\ Voltages \subseteq Nat \ {0}
    /\ InitVoltage \in Nat
    /\ AbsMax \in Nat
    /\ NumChannels \in {1, 2}

Channels == 0 .. 1
Sensors == {"chip", "vr"}

\* the channels with a threshold, and whether channel 1 is in LINKED mode
AllFanSettings == [watched : SUBSET Channels, linked : BOOLEAN]
ASSUME FanSettingsAssumption == FanSettings \subseteq AllFanSettings

NoOne == "nobody"

VARIABLES
    powerLock,        \* who holds the mutex across a wait
    startup,          \* app_main: "network", then initAsics made it "ready" or "failed"
    isShutdown,       \* m_shutdown
    vreg,             \* enable pin of the buck converter
    ldo,              \* enable pin of the LDOs
    coreVoltage,      \* m_asicVoltageMillis
    lastCoreVoltage,  \* last_core_voltage
    fan,              \* m_config of the fan controller
    hot,              \* environment: sensors above the threshold
    fault,            \* environment: the buck converter reports a fault
    \* history
    tripped,          \* the task cut the supply; no new voltage and no initAsics since
    early             \* the last shutdown came before initAsics

powerVars == <<powerLock, startup, isShutdown, vreg, ldo, coreVoltage, lastCoreVoltage, fan,
               hot, fault, tripped, early>>

PowerTypeOK ==
    /\ powerLock \in {NoOne, "httpd", "updater"}
    /\ startup \in {"network", "ready", "failed"}
    /\ isShutdown \in BOOLEAN
    /\ vreg \in BOOLEAN
    /\ ldo \in BOOLEAN
    /\ coreVoltage \in Voltages
    /\ lastCoreVoltage \in Voltages \cup {0}
    /\ fan \in FanSettings
    /\ hot \in SUBSET Sensors
    /\ fault \in BOOLEAN
    /\ tripped \in BOOLEAN
    /\ early \in BOOLEAN

PowerInit ==
    /\ powerLock = NoOne
    /\ startup = "network"
    /\ isShutdown = FALSE
    /\ vreg = FALSE
    /\ ldo = FALSE
    /\ coreVoltage \in Voltages
    /\ lastCoreVoltage = 0
    /\ fan \in FanSettings
    /\ hot = {}
    /\ fault = FALSE
    /\ tripped = FALSE
    /\ early = FALSE

LockIsFree == powerLock = NoOne

validateVoltage(v) == AbsMax = 0 \/ v <= AbsMax

\* setVoltage(v) for v > 0: what the enable pin is afterwards.  A voltage above the limit
\* is refused and changes nothing.
EnableAt(v, before) == before \/ validateVoltage(v)

-----------------------------------------------------------------------------
(***************************************************************************)
(* Start-up.  setup_network has found a network; the shutdown flag is not  *)
(* looked at.  The first voltage is the higher one of two, the chips are   *)
(* only found when they have power, and a failure leaves it on.            *)
(***************************************************************************)
initVoltage == IF coreVoltage > InitVoltage THEN coreVoltage ELSE InitVoltage

\* Mutant: the mutex is not taken.
initAsicsUnlocked ==
    /\ startup = "network"
    /\ ldo' = TRUE
    /\ \/ startup' = "failed" /\ vreg' = EnableAt(initVoltage, FALSE)
       \/ startup' = "ready" /\ EnableAt(initVoltage, FALSE) /\ vreg' = TRUE
    /\ tripped' = FALSE
    /\ UNCHANGED <<powerLock, isShutdown, coreVoltage, lastCoreVoltage, fan, hot, fault, early>>

initAsics ==
    /\ startup = "network"
    /\ LockIsFree
    /\ ldo' = TRUE
    /\ \/ startup' = "failed" /\ vreg' = EnableAt(initVoltage, FALSE)
       \/ startup' = "ready" /\ EnableAt(initVoltage, FALSE) /\ vreg' = TRUE
    /\ tripped' = FALSE
    /\ UNCHANGED <<powerLock, isShutdown, coreVoltage, lastCoreVoltage, fan, hot, fault, early>>

-----------------------------------------------------------------------------
(***************************************************************************)
(* One round of the power management task, under the mutex throughout.     *)
(***************************************************************************)

\* the buck is read only once it was initialised, by initAsics whatever became of it
isBuckInitialized == startup # "network"

\* Channel 0 follows the chips, or the hotter of chips and regulator in LINKED mode.
TooHot(sensor) == sensor \in hot /\ (sensor = "vr" => isBuckInitialized)

Reading(ch) ==
    IF ch = 0 THEN TooHot("chip") \/ (fan.linked /\ NumChannels = 2 /\ TooHot("vr"))
              ELSE TooHot("vr")

\* Mutant: channel 0 alone is asked.
isOverheatedChannel0 == 0 \in fan.watched /\ Reading(0)

isOverheated == \E ch \in fan.watched : ch < NumChannels /\ Reading(ch)

getFault == isBuckInitialized /\ fault

\* applyAsicSettings sees a setting it has not applied yet
NewVoltage == ~isShutdown /\ startup = "ready" /\ coreVoltage # lastCoreVoltage

\* Mutant: every round applies the voltage.
checkCoreVoltageAlways ==
    IF ~isShutdown /\ startup = "ready" THEN EnableAt(coreVoltage, vreg) ELSE vreg

\* Mutant: the shutdown is not looked at.
checkCoreVoltageIfShutdown ==
    IF startup = "ready" /\ coreVoltage # lastCoreVoltage THEN EnableAt(coreVoltage, vreg)
    ELSE vreg

\* The enable pin after applyAsicSettings.
checkCoreVoltageChanged == IF NewVoltage THEN EnableAt(coreVoltage, vreg) ELSE vreg

PowerManagementRound ==
    LET cut == isOverheated \/ getFault
    IN  /\ LockIsFree
        /\ vreg' = (checkCoreVoltageChanged /\ ~cut)
        /\ lastCoreVoltage' = IF NewVoltage THEN coreVoltage ELSE lastCoreVoltage
        /\ tripped' = (tripped \/ cut)
        /\ UNCHANGED <<powerLock, startup, isShutdown, ldo, coreVoltage, fan, hot, fault, early>>

-----------------------------------------------------------------------------
(***************************************************************************)
(* Shutdown: PowerManagementTask::shutdown calls the board's.              *)
(***************************************************************************)
PowerDown ==
    /\ isShutdown' = TRUE
    /\ vreg' = FALSE
    /\ ldo' = FALSE
    /\ early' = (startup = "network")

\* POST_shutdown, or both buttons held on the display.
requestShutdown ==
    /\ LockIsFree
    /\ PowerDown
    /\ UNCHANGED <<powerLock, startup, coreVoltage, lastCoreVoltage, fan, hot, fault, tripped>>

(***************************************************************************)
(* The settings handler writes both without the mutex.                     *)
(***************************************************************************)
boardLoadSettings ==
    /\ \E v \in Voltages \ {coreVoltage} : coreVoltage' = v
    /\ tripped' = FALSE
    /\ UNCHANGED <<powerLock, startup, isShutdown, vreg, ldo, lastCoreVoltage, fan, hot, fault,
                   early>>

fanLoadSettings ==
    /\ \E f \in FanSettings \ {fan} : fan' = f
    /\ UNCHANGED <<powerLock, startup, isShutdown, vreg, ldo, coreVoltage, lastCoreVoltage, hot,
                   fault, tripped, early>>

\* The environment: the sensors and the buck's status.
HardwareChanges ==
    /\ \/ \E s \in Sensors : hot' = (hot \ {s}) \cup ({s} \ hot) /\ UNCHANGED fault
       \/ fault' = ~fault /\ UNCHANGED hot
    /\ UNCHANGED <<powerLock, startup, isShutdown, vreg, ldo, coreVoltage, lastCoreVoltage, fan,
                   tripped, early>>

PowerNext ==
    \/ initAsics
    \/ PowerManagementRound
    \/ requestShutdown
    \/ boardLoadSettings
    \/ fanLoadSettings
    \/ HardwareChanges

\* The chip resets: the pins are low, the statics zero, and the settings are read again (a
\* factory update may have erased them).
PowerReset ==
    /\ powerLock' = NoOne
    /\ startup' = "network"
    /\ isShutdown' = FALSE
    /\ vreg' = FALSE
    /\ ldo' = FALSE
    /\ coreVoltage' \in Voltages
    /\ lastCoreVoltage' = 0
    /\ fan' \in FanSettings
    /\ tripped' = FALSE
    /\ early' = FALSE
    /\ UNCHANGED <<hot, fault>>

-----------------------------------------------------------------------------
(***************************************************************************)
(* Properties.                                                             *)
(***************************************************************************)

\* A supply that the power task cut, for heat or a fault, stays off when the board cools down
\* again: only another core voltage from the owner, initAsics or a reset ends it, whatever
\* rounds of the task, saved settings and sensor readings come in between.
TrippedStaysOff == tripped => ~vreg

\* A shutdown that comes after initAsics is final: no setting, round of the power task or
\* failed update brings back the supply or the LDOs before the device resets.  (A shutdown
\* while the device still waits for a network is undone by initAsics.)
ShutdownIsFinal == isShutdown /\ ~early => ~vreg /\ ~ldo

GuardedSensors ==
    {s \in Sensors :
        IF s = "chip" THEN 0 \in fan.watched
        ELSE NumChannels = 2 /\ (1 \in fan.watched \/ (fan.linked /\ 0 \in fan.watched))}

\* A board that is on while a sensor the owner guards is too hot is switched off, or cools
\* down first: nothing keeps the power task from its round for ever.
HotBoardIsCut == []<>(vreg => hot \cap GuardedSensors = {})
=============================================================================
