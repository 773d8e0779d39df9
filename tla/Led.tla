-------------------------------- MODULE Led ---------------------------------
(***************************************************************************)
(* The three lights: src/src/tasks/led_task.c.  One pass of the loop reads   *)
(* the WiFi flag and the factory test flag and then sets all three.          *)
(*                                                                         *)
(* s_led_error_count is left out: nothing increments it, and the restart it  *)
(* would lead to is dead.                                                    *)
(***************************************************************************)
EXTENDS Integers

VARIABLES
    s_wifi_connected,    \* of Wifi
    ledState,            \* s_led_state, LED_STATE_0 to LED_STATE_4
    led                  \* led1 to led3, which the GPIO levels show

ledVars == <<ledState, led>>

LedTypeOK ==
    /\ ledState \in 0 .. 4
    /\ led \in [1 .. 3 -> BOOLEAN]

LedInit ==
    /\ ledState = 0
    /\ led = [n \in 1 .. 3 |-> FALSE]

LedRestart ==
    /\ ledState' = 0
    /\ led' = [n \in 1 .. 3 |-> FALSE]

\* The lights that a step of the factory pattern turns over; the others it
\* turns off.
Toggled(state) ==
    CASE state = 1 -> {1}
      [] state = 2 -> {1, 2}
      [] state \in {3, 4} -> {1, 2, 3}

-----------------------------------------------------------------------------
(* Variants, one mistake each, that no specification uses. *)

\* Leaving factory mode without going back to LED_STATE_0.
NormalPassKeepsState ==
    /\ led' = [n \in 1 .. 3 |-> n = 1 /\ (s_wifi_connected \/ ~led[1])]
    /\ UNCHANGED ledState

\* A factory pattern that does not begin again.
FactoryPassRunsOn ==
    LET state == IF ledState = 0 THEN 1 ELSE ledState IN
    /\ led' = [n \in 1 .. 3 |-> n \in Toggled(state) /\ ~led[n]]
    /\ ledState' = state + 1

\* Blinking when connected.
NormalPassInverted ==
    /\ ledState' = 0
    /\ led' = [n \in 1 .. 3 |-> n = 1 /\ (~s_wifi_connected \/ ~led[1])]

-----------------------------------------------------------------------------
(* led_task() *)

FactoryPass ==
    LET state == IF ledState = 0 THEN 1 ELSE ledState IN
    /\ led' = [n \in 1 .. 3 |-> n \in Toggled(state) /\ ~led[n]]
    /\ ledState' = (state % 4) + 1

NormalPass ==
    /\ ledState' = 0
    /\ led' = [n \in 1 .. 3 |-> n = 1 /\ (s_wifi_connected \/ ~led[1])]

LedNext == FactoryPass \/ NormalPass

-----------------------------------------------------------------------------
(* Properties *)

\* The state machine and the lights do not come apart, however the two modes
\* follow each other: the third light is on in LED_STATE_4 only, the second after
\* the second and the fourth step of the pattern only.
PatternFollowsState ==
    /\ led[3] => ledState = 4
    /\ led[2] => ledState \in {1, 3}

\* "WiFi connected: LED1 ON", "WiFi disconnected: LED1 blinking": in normal mode
\* the first light ends up steady when the flag stays set, and never stops
\* blinking when it stays clear.
LightShowsWifi ==
    /\ <>[](s_wifi_connected /\ ledState = 0) => <>[]led[1]
    /\ <>[](~s_wifi_connected /\ ledState = 0) => []<>led[1] /\ []<>~led[1]

=============================================================================
