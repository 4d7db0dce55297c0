--------------------------- MODULE NetworkManager ---------------------------
(***************************************************************************)
(* Ethernet with WiFi as its fallback: the handlers that the task of the   *)
(* default event loop runs, one event after the other (connect.cpp,        *)
(* w5500.cpp and NetworkManager), and the two drivers, which post events   *)
(* at any time.  Flags of the manager are copies of what the drivers are   *)
(* in: they lag behind by the events that are still queued, and the        *)
(* handler of a lost WiFi connection holds all events up for a second.     *)
(*                                                                         *)
(* The drivers are external.  The WiFi driver is stopped, or started and   *)
(* idle, connecting or online (it has an address); the Ethernet link is    *)
(* down, up or online.  A call the driver refuses in its state has no      *)
(* effect: the handlers do not look at the result.                         *)
(***************************************************************************)
EXTENDS Integers, Sequences

CONSTANT EventQueueLen  \* bound on the events that wait

ASSUME NetAssumption == EventQueueLen \in Nat /\ EventQueueLen >= 3

VARIABLES
    wifi,          \* the WiFi driver
    eth,           \* the Ethernet link
    events,        \* the default event loop
    backoff,       \* the handler of STA_DISCONNECTED is in its vTaskDelay
    wifiHasIp,     \* m_wifiHasIp
    ethHasIp,      \* m_ethHasIp
    ipBits,        \* m_eg: NET_WIFI_IP, NET_ETH_IP
    preferred,     \* m_preferredNetif
    wifiDisabled,  \* m_wifiDisabledBecauseEth
    apOn           \* not m_apShutdownDone

driverVars == <<wifi, eth>>
managerFlags == <<wifiHasIp, ethHasIp, ipBits, preferred, wifiDisabled, apOn>>
netVars == <<driverVars, events, backoff, managerFlags>>

NetEvents == {"STA_START", "STA_DISCONNECTED", "STA_GOT_IP", "ETH_GOT_IP", "ETH_DISCONNECTED"}

NetTypeOK ==
    /\ wifi \in {"stopped", "idle", "connecting", "online"}
    /\ eth \in {"down", "up", "online"}
    /\ events \in Seq(NetEvents)
    /\ backoff \in BOOLEAN
    /\ wifiHasIp \in BOOLEAN
    /\ ethHasIp \in BOOLEAN
    /\ ipBits \in SUBSET {"wifi", "eth"}
    /\ preferred \in {"none", "wifi", "eth"}
    /\ wifiDisabled \in BOOLEAN
    /\ apOn \in BOOLEAN

\* NetworkManager::start has started WiFi.
NetInit ==
    /\ wifi = "idle"
    /\ eth = "down"
    /\ events = <<"STA_START">>
    /\ backoff = FALSE
    /\ wifiHasIp = FALSE
    /\ ethHasIp = FALSE
    /\ ipBits = {}
    /\ preferred = "none"
    /\ wifiDisabled = FALSE
    /\ apOn = TRUE

-----------------------------------------------------------------------------
(***************************************************************************)
(* The drivers.                                                            *)
(***************************************************************************)
PostEvent(e) == Len(events) < EventQueueLen /\ events' = Append(events, e)

WifiOnline ==
    /\ wifi = "connecting"
    /\ wifi' = "online"
    /\ PostEvent("STA_GOT_IP")
    /\ UNCHANGED <<eth, backoff, managerFlags>>

\* No access point, a wrong password, no address; or the connection is lost.
WifiLost ==
    /\ wifi \in {"connecting", "online"}
    /\ wifi' = "idle"
    /\ PostEvent("STA_DISCONNECTED")
    /\ UNCHANGED <<eth, backoff, managerFlags>>

LinkUp ==
    /\ eth = "down"
    /\ eth' = "up"
    /\ UNCHANGED <<wifi, events, backoff, managerFlags>>

EthOnline ==
    /\ eth = "up"
    /\ eth' = "online"
    /\ PostEvent("ETH_GOT_IP")
    /\ UNCHANGED <<wifi, backoff, managerFlags>>

LinkDown ==
    /\ eth # "down"
    /\ eth' = "down"
    /\ PostEvent("ETH_DISCONNECTED")
    /\ UNCHANGED <<wifi, backoff, managerFlags>>

esp_wifi_connect == wifi' = IF wifi = "idle" THEN "connecting" ELSE wifi

-----------------------------------------------------------------------------
(***************************************************************************)
(* The handlers.  Each takes the first event off the queue; what it makes  *)
(* the driver post comes last.                                             *)
(***************************************************************************)
Takes(e) == ~backoff /\ events # <<>> /\ Head(events) = e

\* The event group is not looked at: only main waits for a bit, before it starts to mine.
updateDefaultRoute(wifiIp, ethIp) ==
    preferred' = IF ethIp THEN "eth" ELSE IF wifiIp THEN "wifi" ELSE "none"

StaStart ==
    /\ Takes("STA_START")
    /\ esp_wifi_connect
    /\ events' = Tail(events)
    /\ UNCHANGED <<eth, backoff, managerFlags>>

onWifiGotIp ==
    /\ Takes("STA_GOT_IP")
    /\ events' = Tail(events)
    /\ wifiHasIp' = TRUE
    /\ ipBits' = ipBits \cup {"wifi"}
    /\ apOn' = FALSE
    /\ updateDefaultRoute(TRUE, ethHasIp)
    /\ UNCHANGED <<driverVars, backoff, ethHasIp, wifiDisabled>>

\* Mutant: the bit of the event group stays.
onWifiDisconnectedKeepsBit ==
    /\ Takes("STA_DISCONNECTED")
    /\ events' = Tail(events)
    /\ wifiHasIp' = FALSE
    /\ updateDefaultRoute(FALSE, ethHasIp)
    /\ backoff' = TRUE
    /\ UNCHANGED <<driverVars, ethHasIp, ipBits, wifiDisabled, apOn>>

onWifiDisconnected ==
    /\ Takes("STA_DISCONNECTED")
    /\ events' = Tail(events)
    /\ wifiHasIp' = FALSE
    /\ ipBits' = ipBits \ {"wifi"}
    /\ updateDefaultRoute(FALSE, ethHasIp)
    /\ backoff' = TRUE
    /\ UNCHANGED <<driverVars, ethHasIp, wifiDisabled, apOn>>

\* Retries are counted for the display only; after the last one they go on.
BackoffEnds ==
    /\ backoff
    /\ backoff' = FALSE
    /\ esp_wifi_connect
    /\ UNCHANGED <<eth, events, managerFlags>>

\* The first address since the link came up stops WiFi; a connection or an attempt ends with
\* an event.
onEthGotIp ==
    /\ Takes("ETH_GOT_IP")
    /\ ethHasIp' = TRUE
    /\ ipBits' = ipBits \cup {"eth"}
    /\ apOn' = FALSE
    /\ wifiDisabled' = TRUE
    /\ wifiHasIp' = (wifiHasIp /\ wifiDisabled)
    /\ IF wifiDisabled
       THEN events' = Tail(events) /\ UNCHANGED wifi
       ELSE /\ wifi' = "stopped"
            /\ events' = Tail(events) \o IF wifi \in {"connecting", "online"}
                                         THEN <<"STA_DISCONNECTED">> ELSE <<>>
    /\ updateDefaultRoute(wifiHasIp', TRUE)
    /\ UNCHANGED <<eth, backoff>>

\* Mutant: WiFi is restarted when it had an address only.
onEthLinkDownIfWifi ==
    /\ Takes("ETH_DISCONNECTED")
    /\ ethHasIp' = FALSE
    /\ ipBits' = ipBits \ {"eth"}
    /\ wifiDisabled' = FALSE
    /\ IF wifiDisabled /\ wifiHasIp
       THEN wifi' = "idle" /\ events' = Append(Tail(events), "STA_START")
       ELSE UNCHANGED wifi /\ events' = Tail(events)
    /\ updateDefaultRoute(wifiHasIp, FALSE)
    /\ UNCHANGED <<eth, backoff, wifiHasIp, apOn>>

onEthLinkDown ==
    /\ Takes("ETH_DISCONNECTED")
    /\ ethHasIp' = FALSE
    /\ ipBits' = ipBits \ {"eth"}
    /\ wifiDisabled' = FALSE
    /\ IF wifiDisabled
       THEN wifi' = "idle" /\ events' = Append(Tail(events), "STA_START")
       ELSE UNCHANGED wifi /\ events' = Tail(events)
    /\ updateDefaultRoute(wifiHasIp, FALSE)
    /\ UNCHANGED <<eth, backoff, wifiHasIp, apOn>>

EventLoopStep ==
    \/ StaStart \/ onWifiGotIp \/ onWifiDisconnected \/ BackoffEnds
    \/ onEthGotIp \/ onEthLinkDown

NetNext == WifiOnline \/ WifiLost \/ LinkUp \/ EthOnline \/ LinkDown \/ EventLoopStep

NetSpec == NetInit /\ [][NetNext]_netVars

\* The event loop runs, an attempt to connect ends, and of the attempts that go on for ever
\* one succeeds.
NetFairness ==
    /\ WF_netVars(EventLoopStep)
    /\ WF_netVars(WifiOnline \/ WifiLost)
    /\ SF_netVars(WifiOnline)

-----------------------------------------------------------------------------
(***************************************************************************)
(* Properties.                                                             *)
(***************************************************************************)

\* Once every event is handled the manager knows which interfaces have an address, in its
\* flags and in the event group alike, and routes by the better one; onEthGotIp, which clears
\* the flag of WiFi ahead of the event and leaves the bit, included.
FlagsCatchUp ==
    events = <<>> /\ ~backoff =>
        /\ wifiHasIp <=> (wifi = "online")
        /\ wifiHasIp <=> ("wifi" \in ipBits)
        /\ ethHasIp <=> (eth = "online")
        /\ ethHasIp <=> ("eth" \in ipBits)
        /\ preferred = IF eth = "online" THEN "eth" ELSE IF wifi = "online" THEN "wifi" ELSE "none"

\* The device never stays without a network although there is an access point: stopped for
\* Ethernet, lost in the second of the back-off or refused for the fifth time, WiFi is tried
\* again until it has an address, or Ethernet has.
NetworkComesBack == []<>(wifiHasIp \/ ethHasIp)
=============================================================================
