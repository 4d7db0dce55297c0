----------------------------- MODULE MCFailover -----------------------------
(***************************************************************************)
(* Instances of Failover for TLC.                                          *)
(***************************************************************************)
EXTENDS Failover

CONSTANTS c1, c2

TwoConfigs == {c1, c2}
OneConfig == {c1}

\* the device as long as it runs
RunningSpec == Init /\ [][Running]_vars
=============================================================================
