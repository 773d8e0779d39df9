-------------------------------- MODULE Wifi --------------------------------
(***************************************************************************)
(* The WiFi station: the event handler and the retry task of                *)
(* src/src/tasks/wifi_task.c, and the flag s_wifi_connected that the TCP    *)
(* client, the LED task and the terminal read.                              *)
(*                                                                         *)
(* The driver and the DHCP client are external: they post events to a queue *)
(* that the event task hands to the handler one at a time, so the handler   *)
(* lags behind the station.  The handler is not registered for the loss of  *)
(* an address.  The access point side is left out: s_wifi_ap_started is     *)
(* written and never read.  WIFI_FAIL_BIT is never set, and the branch of   *)
(* the task that waits for it is dead.                                      *)
(***************************************************************************)
EXTENDS Integers, Sequences

CONSTANT MaxEvents    \* bound: events in the queue of the event task

ASSUME MaxEventsAssumption == MaxEvents \in Nat \ {0}

VARIABLES
    configured,         \* SSID and password were stored at the last boot
    station,            \* external: what the driver's station does
    events,             \* external: the queue of the event task
    s_wifi_connected,
    connectedBit,       \* WIFI_CONNECTED_BIT of the event group
    handler,            \* where wifi_event_handler() is
    task                \* where wifi_task() is

wifiVars == <<configured, station, events, s_wifi_connected, connectedBit, handler, task>>

WifiTypeOK ==
    /\ configured \in BOOLEAN
    /\ station \in {"idle", "joining", "associated", "addressed"}
    /\ events \in Seq({"START", "DISCONNECTED", "GOT_IP"}) /\ Len(events) <= MaxEvents
    /\ s_wifi_connected \in BOOLEAN
    /\ connectedBit \in BOOLEAN
    /\ handler \in {"wait", "clearBits", "reconnect", "setBits"}
    /\ task \in {"wait", "check", "retry"}

\* wifi_configure_sta(): without a stored SSID and password the station is not
\* configured, which its caller ignores.
wifi_configure_sta == BOOLEAN

\* After wifi_task_init(): esp_wifi_start() has posted its event.
WifiInit ==
    /\ configured \in wifi_configure_sta
    /\ station = "idle"
    /\ events = <<"START">>
    /\ s_wifi_connected = FALSE
    /\ connectedBit = FALSE
    /\ handler = "wait"
    /\ task = "wait"

\* The chip restarts: all that is lost with it, and init runs again.
WifiRestart ==
    /\ configured' \in wifi_configure_sta
    /\ station' = "idle"
    /\ events' = <<"START">>
    /\ s_wifi_connected' = FALSE
    /\ connectedBit' = FALSE
    /\ handler' = "wait"
    /\ task' = "wait"

\* esp_wifi_connect(): nothing unless the station is idle and has an SSID; it
\* may fail, and no caller looks at the result.
esp_wifi_connect ==
    station' \in IF configured /\ station = "idle" THEN {"idle", "joining"} ELSE {station}

Take(event) ==
    /\ handler = "wait"
    /\ events # <<>> /\ Head(events) = event
    /\ events' = Tail(events)

-----------------------------------------------------------------------------
(* Variants of single steps, each with one mistake a change to the code      *)
(* could make.  No specification uses them: every property below is checked  *)
(* to fail when its variant takes the place of the step.                     *)

\* Reconnecting at once, before the flag is withdrawn and without coming to it.
ReconnectOnly ==
    /\ Take("DISCONNECTED")
    /\ esp_wifi_connect
    /\ UNCHANGED <<configured, s_wifi_connected, connectedBit, handler, task>>

\* A task that waits for the connection without a timeout.
NeverTimesOut ==
    /\ task = "wait" /\ connectedBit
    /\ task' = "check"
    /\ UNCHANGED <<configured, station, events, s_wifi_connected, connectedBit, handler>>

-----------------------------------------------------------------------------
(* wifi_event_handler() *)

HandleStart ==
    /\ Take("START")
    /\ esp_wifi_connect
    /\ UNCHANGED <<configured, s_wifi_connected, connectedBit, handler, task>>

\* STA_DISCONNECTED: the flag, the bit and the new attempt, one after the other.
HandleDisconnected ==
    /\ Take("DISCONNECTED")
    /\ s_wifi_connected' = FALSE
    /\ handler' = "clearBits"
    /\ UNCHANGED <<configured, station, connectedBit, task>>

ClearBits ==
    /\ handler = "clearBits"
    /\ connectedBit' = FALSE
    /\ handler' = "reconnect"
    /\ UNCHANGED <<configured, station, events, s_wifi_connected, task>>

Reconnect ==
    /\ handler = "reconnect"
    /\ esp_wifi_connect
    /\ handler' = "wait"
    /\ UNCHANGED <<configured, events, s_wifi_connected, connectedBit, task>>

HandleGotIp ==
    /\ Take("GOT_IP")
    /\ s_wifi_connected' = TRUE
    /\ handler' = "setBits"
    /\ UNCHANGED <<configured, station, connectedBit, task>>

SetBits ==
    /\ handler = "setBits"
    /\ connectedBit' = TRUE
    /\ handler' = "wait"
    /\ UNCHANGED <<configured, station, events, s_wifi_connected, task>>

Handler == HandleStart \/ HandleDisconnected \/ ClearBits \/ Reconnect \/ HandleGotIp \/ SetBits

-----------------------------------------------------------------------------
(* wifi_task(): its delays change nothing and are left out, and so is a wait  *)
(* that ends with the bit set.                                               *)

TimeOut ==
    /\ task = "wait" /\ ~connectedBit
    /\ task' = "check"
    /\ UNCHANGED <<configured, station, events, s_wifi_connected, connectedBit, handler>>

Check ==
    /\ task = "check"
    /\ task' = IF s_wifi_connected THEN "wait" ELSE "retry"
    /\ UNCHANGED <<configured, station, events, s_wifi_connected, connectedBit, handler>>

Retry ==
    /\ task = "retry"
    /\ esp_wifi_connect
    /\ task' = "wait"
    /\ UNCHANGED <<configured, events, s_wifi_connected, connectedBit, handler>>

-----------------------------------------------------------------------------
(* The driver *)

Becomes(old, new) ==
    /\ station = old /\ station' = new
    /\ UNCHANGED <<configured, s_wifi_connected, connectedBit, handler, task>>

Post(event) == Len(events) < MaxEvents /\ events' = Append(events, event)

Associate   == Becomes("joining", "associated") /\ UNCHANGED events
JoinFails   == Becomes("joining", "idle") /\ Post("DISCONNECTED")
GetAddress  == Becomes("associated", "addressed") /\ Post("GOT_IP")
LoseAddress == Becomes("addressed", "associated") /\ UNCHANGED events
LoseStation == \E old \in {"associated", "addressed"} :
                  Becomes(old, "idle") /\ Post("DISCONNECTED")

Driver == Associate \/ JoinFails \/ GetAddress \/ LoseAddress \/ LoseStation

-----------------------------------------------------------------------------
WifiNext == Handler \/ TimeOut \/ Check \/ Retry \/ Driver

-----------------------------------------------------------------------------
(* Properties *)

\* Once the events of a change are handled, the flag and the bit agree, they are
\* set if the station has its address, and only if it is associated: what they
\* may miss is a lost address, never a lost station.
FlagFollowsStation ==
    (handler = "wait" /\ \A i \in DOMAIN events : events[i] = "START") =>
        /\ connectedBit = s_wifi_connected
        /\ station = "addressed" => s_wifi_connected
        /\ s_wifi_connected => station \in {"associated", "addressed"}

=============================================================================
