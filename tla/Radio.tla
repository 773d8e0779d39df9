------------------------------- MODULE Radio --------------------------------
(***************************************************************************)
(* The WiFi station, the lights that show its flag, and BLE, on the chip they *)
(* share.  They meet in s_wifi_connected, which Wifi writes and Led reads, and *)
(* in the restart of the chip, which ends all of them at once: a BLE write     *)
(* leads to it, the terminal and the button ask for it, and the power may go.  *)
(***************************************************************************)
EXTENDS Wifi, Ble

VARIABLES ledState, led

INSTANCE Led

lights == <<ledState, led>>

vars == <<wifiVars, lights, bleVars>>

TypeOK == WifiTypeOK /\ LedTypeOK /\ BleTypeOK

\* app_main() has initialized each of them.
Init == WifiInit /\ LedInit /\ BleInit

-----------------------------------------------------------------------------
WifiStep(step) == step /\ UNCHANGED <<lights, bleVars>>
LedStep        == LedNext /\ UNCHANGED <<wifiVars, bleVars>>
BleStep        == BleNext /\ UNCHANGED <<wifiVars, lights>>

Restart == WifiRestart /\ LedRestart /\ BleRestart

\* The power goes and comes back, or another task restarts the chip.
PowerCycle == Restart

BleWrite == WriteOverflowsStack /\ Restart

Next == WifiStep(WifiNext) \/ LedStep \/ BleStep \/ PowerCycle \/ BleWrite

Spec == Init /\ [][Next]_vars

\* The scheduler runs a task that is ready, and a wait times out.  Of the
\* attempts esp_wifi_connect() makes in the task some succeed, and an access
\* point that can be reached again and again takes the station and gives it an
\* address in the end.
Fairness ==
    /\ WF_vars(WifiStep(Handler))
    /\ WF_vars(WifiStep(TimeOut \/ Check))
    /\ WF_vars(WifiStep(Retry)) /\ SF_vars(WifiStep(Retry /\ station' = "joining"))
    /\ SF_vars(WifiStep(Associate)) /\ SF_vars(WifiStep(GetAddress))
    /\ WF_vars(LedStep)

FairSpec == Spec /\ Fairness

-----------------------------------------------------------------------------
(* Properties *)

\* A station that has been configured gets its address again after every loss and
\* every failed attempt, also if the call in the event handler fails, as long as
\* the chip is not restarted for ever.
StationComesBack ==
    (<>[]configured /\ <>[][~Restart]_vars) => []<>(station = "addressed")

=============================================================================
