------------------------------- MODULE MCHost -------------------------------
(***************************************************************************)
(* Four parts of the device around the miner, one at a time: the supply of *)
(* the ASICs and the firmware updates (FirmwareUpdate with PowerGuard),    *)
(* the Stratum V2 channel (Sv2Channel), the network (NetworkManager) and   *)
(* the history (HistoryRing).  The models share no state, so that a        *)
(* behaviour is one of a single part while the others rest.                *)
(***************************************************************************)
EXTENDS FirmwareUpdate, Sv2Channel, NetworkManager, HistoryRing

\* Channel 0 alone, which follows the regulator too; or both channels.
TwoFanSettings ==
    {[watched |-> {0}, linked |-> TRUE], [watched |-> {0, 1}, linked |-> FALSE]}

VARIABLE component    \* the part that runs

allVars == <<component, hostVars, sv2Vars, netVars, historyVars>>

\* A state of a part in which it rests: nothing that is fair can happen.
HostRests ==
    /\ HostInit
    /\ coreVoltage = InitVoltage
    /\ fan = CHOOSE f \in FanSettings : TRUE

ChannelRests == Sv2Init /\ target = CHOOSE t \in Targets : TRUE

NetworkRests ==
    /\ wifi = "stopped" /\ eth = "online"
    /\ events = <<>> /\ backoff = FALSE
    /\ wifiHasIp = FALSE /\ ethHasIp = TRUE /\ ipBits = {"eth"} /\ preferred = "eth"
    /\ wifiDisabled = TRUE /\ apOn = FALSE

MCInit ==
    /\ component \in {"host", "channel", "network", "history"}
    /\ IF component = "host" THEN HostInit ELSE HostRests
    /\ IF component = "channel" THEN Sv2Init ELSE ChannelRests
    /\ IF component = "network" THEN NetInit ELSE NetworkRests
    /\ HistoryInit

MCNext ==
    /\ UNCHANGED component
    /\ \/ /\ component = "host" /\ HostNext
          /\ UNCHANGED <<sv2Vars, netVars, historyVars>>
       \/ /\ component = "channel" /\ Sv2Next
          /\ UNCHANGED <<hostVars, netVars, historyVars>>
       \/ /\ component = "network" /\ NetNext
          /\ UNCHANGED <<hostVars, sv2Vars, historyVars>>
       \/ /\ component = "history" /\ HistoryNext
          /\ UNCHANGED <<hostVars, sv2Vars, netVars>>

MCSpec == MCInit /\ [][MCNext]_allVars /\ HostFairness /\ NetFairness

\* Every variable of every part has its type.
TypesOK == PowerTypeOK /\ UpdateTypeOK /\ Sv2TypeOK /\ NetTypeOK /\ HistoryTypeOK
=============================================================================
