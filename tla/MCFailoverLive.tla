--------------------------- MODULE MCFailoverLive ---------------------------
(***************************************************************************)
(* Instances of Failover for the liveness properties, in two scenes: the   *)
(* device may shut down at any moment, with any of the four               *)
(* configurations; or the primary runs alone and the owner saves settings  *)
(* for it (its host goes and comes back) and the network interface         *)
(* changes, both any number of times.                                      *)
(***************************************************************************)
EXTENDS MCFailover

VARIABLES
    scene,      \* what may happen around the tasks
    \* history
    overtaken,  \* the fallback was selected just after the primary, in this session of it
    metPrimary, \* the primary has connected since the boot
    missed      \* settings were saved between the primary's copy of them and its gate

liveVars == <<vars, scene, overtaken, metPrimary, missed>>

Shutdowns == "shutdowns"
Requests == "requests"

LiveInit ==
    /\ Init
    /\ scene \in {Shutdowns, Requests}
    /\ scene = Requests => config = [t \in Pools |-> IF t = PRIMARY THEN c1 ELSE NoHost]
    /\ overtaken = FALSE /\ metPrimary = FALSE /\ missed = FALSE

\* The primary has been selected, but m_isConnected is still to be set: the callback of the
\* fallback takes it for down.
Overtakes ==
    /\ pc[PRIMARY] = "mark" /\ selected = PRIMARY
    /\ selected' = SECONDARY

\* the history variables
Remember ==
    /\ overtaken' = (InSession(PRIMARY)' /\ (overtaken \/ Overtakes))
    /\ metPrimary' = (metPrimary \/ isConnected'[PRIMARY])
    /\ missed' = (pc[PRIMARY] # "load" /\ (missed \/ (config' # config /\ pc[PRIMARY] = "gate")))
    /\ UNCHANGED scene

\* Settings and the network stay as they are in the first scene; in the second the fallback has
\* no host and the device does not shut down.
LiveNext ==
    /\ \/ scene = Shutdowns /\ ShutDown
       \/ scene = Shutdowns /\ Running /\ UNCHANGED config /\ ~reconnectAll
       \/ scene = Requests /\ Running /\ config'[SECONDARY] = NoHost
    /\ Remember

LiveSpec == LiveInit /\ [][LiveNext]_liveVars /\ Fairness

-----------------------------------------------------------------------------
\* Boot with a dead primary: as long as the primary has never completed a connection, a
\* configured fallback that is up and not blocked gets connected and selected, and gets there
\* again whenever its session ends.
BootFailoverIfUp ==
    PoolUp(SECONDARY) =>
        []<>( \/ isConnected[SECONDARY] /\ selected = SECONDARY
              \/ metPrimary \/ blocked[SECONDARY] \/ shutdown
              \/ config[SECONDARY] = NoHost )

\* Requests to reconnect come any number of times, but not for ever: one that falls between
\* the gate and the dial ends the session that is just about to begin.
RequestsRest == <>[][~loadSettings /\ ~reconnectAll]_vars

\* A primary that is up, configured and not blocked connects again and is the selected pool,
\* whatever ended its sessions before and whenever: the pool itself, the network, saved
\* settings, or a block by the verification that settings lifted.  One interleaving is
\* excepted: the fallback that connects between the primary's callback and its m_isConnected
\* is selected over it, and the primary's session goes on without work.
PrimaryKeepsConnectingIfUp ==
    PoolUp(PRIMARY) /\ RequestsRest /\ PrimaryAvailable
        => []<>(isConnected[PRIMARY] /\ (selected = PRIMARY \/ overtaken))

\* Saved settings are used: a session with a configuration that was replaced ends, whatever
\* requests, timers and the pool do meanwhile.  One interleaving is excepted: m_reconnect is
\* cleared after the settings were copied, so that a save in between is forgotten until the
\* session it should have prevented ends by itself.
SavedSettingsAreUsed == []<>(taskCfg[PRIMARY] = config[PRIMARY] \/ missed)
=============================================================================
