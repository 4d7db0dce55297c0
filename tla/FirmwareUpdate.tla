--------------------------- MODULE FirmwareUpdate ---------------------------
(***************************************************************************)
(* The two ways to new firmware: an upload (POST_OTA_update, run by the    *)
(* web server's task) and the factory image that the updater task          *)
(* downloads (FactoryOTAUpdate).  Both write the app slot that follows the *)
(* running one and select it for the next boot, and both hold the mutex of *)
(* the power management task (PowerGuard) from the first erased sector to  *)
(* the switch; the updater lets it go for the three seconds in which the   *)
(* browser is told, before it restarts.  Power may be lost at any time.    *)
(*                                                                         *)
(* An upload of the web pages (POST_WWW_update) goes another way: the      *)
(* board stays on, the mutex is taken for the erase and for each chunk     *)
(* that is written but not to wait for the next one, and nothing restarts. *)
(* What the web partition holds is left out.  A failing                    *)
(* esp_ota_set_boot_partition counts as an image that is not valid.        *)
(***************************************************************************)
EXTENDS PowerGuard

VARIABLES
    running,   \* the app slot the device booted from
    bootSlot,  \* the app slot otadata names for the next boot
    valid,     \* the app slots that hold a complete image
    http,      \* the web server's task
    updater,   \* the updater task
    \* history
    crossed    \* an upload began while the updater waited to restart; no image was switched to since

updateVars == <<running, bootSlot, valid, http, updater, crossed>>
hostVars == <<powerVars, updateVars>>

Apps == {"factory", "ota_0", "ota_1"}

\* "upload" and "switched" (about to restart) are those of POST_OTA_update; the others those
\* of POST_WWW_update, which waits for the client in "web".
HttpStates == {"idle", "upload", "switched", "web_erase", "web", "web_write"}

UpdaterStates ==
    {"idle", "pending", "resolving", "resolved", "firmware", "website", "rebooting"}

UpdateTypeOK ==
    /\ running \in Apps
    /\ bootSlot \in Apps
    /\ valid \in SUBSET Apps
    /\ http \in HttpStates
    /\ updater \in UpdaterStates
    /\ crossed \in BOOLEAN

UpdateInit ==
    /\ running = "factory"
    /\ bootSlot = "factory"
    /\ valid = {"factory"}
    /\ http = "idle"
    /\ updater = "idle"
    /\ crossed = FALSE

\* Mutant: the slots do not come round.
nextUpdatePartitionUnwrapped ==
    CASE running = "factory" -> "ota_0" [] running = "ota_0" -> "ota_1" [] OTHER -> "ota_2"

\* esp_ota_get_next_update_partition(NULL)
nextUpdatePartition == IF running = "ota_0" THEN "ota_1" ELSE "ota_0"

\* The bootloader takes the selected slot if its image is complete, and another one that is
\* otherwise.
Boot ==
    /\ PowerReset
    /\ running' \in IF bootSlot \in valid THEN {bootSlot} ELSE valid
    /\ http' = "idle"
    /\ updater' = "idle"
    /\ UNCHANGED <<bootSlot, valid, crossed>>

\* esp_ota_begin erases the slot, with the mutex held and the board shut down.
beginUpdate(holder) ==
    /\ LockIsFree
    /\ powerLock' = holder
    /\ PowerDown
    /\ valid' = valid \ {nextUpdatePartition}
    /\ UNCHANGED <<startup, coreVoltage, lastCoreVoltage, fan, hot, fault, tripped, running,
                   bootSlot>>

\* esp_ota_end has checked the image; esp_ota_set_boot_partition selects it.
switchFirmware ==
    /\ valid' = valid \cup {nextUpdatePartition}
    /\ bootSlot' = nextUpdatePartition
    /\ crossed' = FALSE
    /\ UNCHANGED running

\* Mutant: an early return forgets the mutex.
KeepPower == UNCHANGED powerVars

\* Every early return gives the mutex back; nothing restarts the device.
UnlockPower ==
    /\ powerLock' = NoOne
    /\ UNCHANGED <<startup, isShutdown, vreg, ldo, coreVoltage, lastCoreVoltage, fan, hot, fault,
                   tripped, early>>

-----------------------------------------------------------------------------
(***************************************************************************)
(* The upload.                                                             *)
(***************************************************************************)
POST_OTA_update ==
    /\ http = "idle"
    /\ beginUpdate("httpd")
    /\ http' = "upload"
    /\ crossed' = (crossed \/ updater = "rebooting")
    /\ UNCHANGED updater

\* A receive error, a flash error or an image that does not validate.
UploadFails ==
    /\ http = "upload"
    /\ http' = "idle"
    /\ UnlockPower
    /\ UNCHANGED <<running, bootSlot, valid, updater, crossed>>

UploadCompletes ==
    /\ http = "upload"
    /\ switchFirmware
    /\ http' = "switched"
    /\ UNCHANGED <<powerVars, updater>>

UploadRestarts ==
    /\ http = "switched"
    /\ Boot

-----------------------------------------------------------------------------
(***************************************************************************)
(* The upload of the web pages.                                            *)
(***************************************************************************)
LockForFlash(phase) ==
    /\ LockIsFree
    /\ powerLock' = "httpd"
    /\ http' = phase
    /\ UNCHANGED <<startup, isShutdown, vreg, ldo, coreVoltage, lastCoreVoltage, fan, hot, fault,
                   tripped, early, running, bootSlot, valid, updater, crossed>>

\* The whole partition is erased before the first byte is asked for.
POST_WWW_update == http = "idle" /\ LockForFlash("web_erase")

\* A chunk was received; a receive that timed out is tried again.
WwwChunk == http = "web" /\ LockForFlash("web_write")

\* LockGuard's scope ends: more to receive, or all of it written or a write error.
WwwFlashed ==
    /\ http \in {"web_erase", "web_write"}
    /\ http' \in {"web", "idle"}
    /\ UnlockPower
    /\ UNCHANGED <<running, bootSlot, valid, updater, crossed>>

\* The client is gone.
WwwReceiveFails ==
    /\ http = "web"
    /\ http' = "idle"
    /\ UNCHANGED <<powerVars, running, bootSlot, valid, updater, crossed>>

WwwStep == POST_WWW_update \/ WwwChunk \/ WwwFlashed \/ WwwReceiveFails

-----------------------------------------------------------------------------
\* POST_restart waits for the mutex like everybody else.
POST_restart ==
    /\ http = "idle"
    /\ LockIsFree
    /\ Boot

-----------------------------------------------------------------------------
(***************************************************************************)
(* The updater task.                                                       *)
(***************************************************************************)

\* POST_OTA_update_from_url: refused while an update is pending or running.
trigger ==
    /\ http = "idle"
    /\ updater = "idle"
    /\ updater' = "pending"
    /\ UNCHANGED <<powerVars, running, bootSlot, valid, http, crossed>>

\* The task is created after initAsics.
UpdaterTakes ==
    /\ updater = "pending"
    /\ startup # "network"
    /\ updater' = "resolving"
    /\ UNCHANGED <<powerVars, running, bootSlot, valid, http, crossed>>

\* Redirects, length check and seek, before the mutex is taken.
follow_redirect ==
    /\ updater = "resolving"
    /\ updater' \in {"idle", "resolved"}
    /\ UNCHANGED <<powerVars, running, bootSlot, valid, http, crossed>>

UpdaterBegins ==
    /\ updater = "resolved"
    /\ beginUpdate("updater")
    /\ updater' = "firmware"
    /\ UNCHANGED <<http, crossed>>

do_firmware_update ==
    /\ updater = "firmware"
    /\ \/ /\ switchFirmware
          /\ updater' = "website"
          /\ UNCHANGED powerVars
       \/ /\ UnlockPower
          /\ updater' = "idle"
          /\ UNCHANGED <<running, bootSlot, valid, crossed>>
    /\ UNCHANGED http

\* Mutant: the error path of the web partition returns like the others.
do_www_update_returns ==
    /\ updater = "website"
    /\ UnlockPower
    /\ updater' \in {"idle", "rebooting"}
    /\ UNCHANGED <<running, bootSlot, valid, http, crossed>>

\* The web partition is downloaded and written, the settings may be erased.  An error
\* restarts at once, success gives the mutex back.
do_www_update ==
    /\ updater = "website"
    /\ \/ Boot
       \/ /\ UnlockPower
          /\ updater' = "rebooting"
          /\ UNCHANGED <<running, bootSlot, valid, http, crossed>>

\* Three seconds later; restart() takes the mutex again.
UpdaterRestarts ==
    /\ updater = "rebooting"
    /\ LockIsFree
    /\ Boot

PowerLoss == Boot

-----------------------------------------------------------------------------
UpdaterStep ==
    UpdaterTakes \/ follow_redirect \/ UpdaterBegins \/ do_firmware_update \/ do_www_update
    \/ UpdaterRestarts

UpdateNext ==
    \/ POST_OTA_update \/ UploadFails \/ UploadCompletes \/ UploadRestarts \/ POST_restart
    \/ WwwStep
    \/ trigger
    \/ UpdaterStep
    \/ PowerLoss

HostInit == PowerInit /\ UpdateInit

HostNext == UpdateNext \/ (PowerNext /\ UNCHANGED updateVars)

HostSpec == HostInit /\ [][HostNext]_hostVars

(***************************************************************************)
(* The power task runs every two seconds, downloads and uploads end one    *)
(* way or the other, so does an access to the flash, and a task that waits *)
(* for the mutex gets it, although others take it again and again: the     *)
(* power task between two chunks of a web upload.                          *)
(***************************************************************************)
HostFairness ==
    /\ SF_hostVars(PowerManagementRound /\ UNCHANGED updateVars)
    /\ WF_hostVars(WwwFlashed)
    /\ WF_hostVars(UploadFails \/ UploadCompletes)
    /\ WF_hostVars(UploadRestarts)
    /\ SF_hostVars(UpdaterStep)

-----------------------------------------------------------------------------
(***************************************************************************)
(* Properties.                                                             *)
(***************************************************************************)

\* While somebody holds the mutex the power task cannot look at temperatures.  An update of
\* the firmware, which keeps it over a whole transfer, does so with the board off ("Disabling
\* hardware avoids any risk of overheating"): initAsics and the settings wait or find the
\* device shut down.  Over a powered board the mutex is kept for one access to the flash only,
\* by an upload of the web pages, and never while the network is waited for.
UpdatesRunUnpowered ==
    ~LockIsFree /\ (vreg \/ ldo) => powerLock = "httpd" /\ http \in {"web_erase", "web_write"}

\* The slot selected for the next boot holds a complete image, wherever uploads, factory
\* updates, failures, restarts and power losses cut each other off; with one exception: an
\* upload accepted in the three seconds before the updater restarts writes the very slot that
\* was just selected.
SelectedImageIsWhole == bootSlot \in valid \/ crossed

\* Firmware that was switched to is booted, not left for the next power cycle, on the error
\* paths after the switch too ("Firmware already switched; ensure deterministic state by
\* rebooting").
SwitchedFirmwareBoots == []<>(bootSlot \in valid => running = bootSlot)

\* An accepted factory update ends, in a restart or as a failure after which the next one is
\* accepted, although uploads compete with it for the mutex.
UpdateEnds == []<>(startup # "network" => updater = "idle")
=============================================================================
