---------------------------- MODULE RadioProofs -----------------------------
(***************************************************************************)
(* Proofs about Radio, for any length of the queue of events.                *)
(***************************************************************************)
EXTENDS Radio, SequenceFacts, TLAPS

(***************************************************************************)
(* What the flag will be once the queue is handled is decided by the last      *)
(* event in it that is not the start of the station, and by the flag itself    *)
(* if there is none.                                                         *)
(***************************************************************************)
Events == {"START", "DISCONNECTED", "GOT_IP"}

Change(s, i) == i \in DOMAIN s /\ s[i] # "START"

LastChange(s, i) == Change(s, i) /\ \A j \in DOMAIN s : Change(s, j) => j <= i

WillBeSet(s, flag) ==
    IF \E i \in DOMAIN s : Change(s, i)
    THEN \E i \in DOMAIN s : LastChange(s, i) /\ s[i] = "GOT_IP"
    ELSE flag

\* An event other than START decides alone what the flag will be.
LEMMA PostedEventDecides ==
    ASSUME NEW s \in Seq(Events), NEW e \in {"DISCONNECTED", "GOT_IP"}, NEW flag \in BOOLEAN
    PROVE  WillBeSet(Append(s, e), flag) <=> e = "GOT_IP"
<1> DEFINE t == Append(s, e)
           n == Len(s) + 1
<1>1. /\ DOMAIN t = 1 .. n
      /\ t[n] = e
      /\ n \in 1 .. n
  BY DEF Events
<1> HIDE DEF t, n
<1>2. Change(t, n)
  BY <1>1 DEF Change
<1>3. \A i \in DOMAIN t : LastChange(t, i) <=> i = n
  BY <1>1, <1>2 DEF LastChange
<1>4. WillBeSet(t, flag) <=> e = "GOT_IP"
  BY <1>1, <1>2, <1>3 DEF WillBeSet
<1> QED BY <1>4 DEF t

\* The last change among the others is the last change of all.
LEMMA LastChangeOfTail ==
    ASSUME NEW s \in Seq(Events), s # <<>>
    PROVE  /\ \A i \in DOMAIN Tail(s) : Change(Tail(s), i) <=> Change(s, i + 1)
           /\ \A i \in DOMAIN Tail(s) : Change(s, i + 1) => (LastChange(Tail(s), i) <=> LastChange(s, i + 1))
           /\ \A k \in DOMAIN s : k = 1 \/ (k - 1 \in DOMAIN Tail(s) /\ (k - 1) + 1 = k)
<1> DEFINE t == Tail(s)
<1>1. /\ DOMAIN t = 1 .. Len(s) - 1
      /\ DOMAIN s = 1 .. Len(s)
      /\ Len(s) \in Nat \ {0}
      /\ \A i \in 1 .. Len(s) - 1 : t[i] = s[i + 1]
  BY TailFacts
<1> HIDE DEF t
<1>2. \A i \in DOMAIN t : i \in Int /\ i + 1 \in DOMAIN s
  BY <1>1
<1>3. \A i \in DOMAIN t : Change(t, i) <=> Change(s, i + 1)
  BY <1>1, <1>2 DEF Change
<1>4. \A k \in DOMAIN s : k = 1 \/ (k - 1 \in DOMAIN t /\ (k - 1) + 1 = k)
  BY <1>1
<1>5. ASSUME NEW i \in DOMAIN t, LastChange(t, i), NEW k \in DOMAIN s, Change(s, k)
      PROVE  k <= i + 1
  <2>1. CASE k = 1
    BY <1>1, <2>1
  <2>2. CASE k # 1
    <3>1. k - 1 \in DOMAIN t /\ Change(t, k - 1)
      BY <1>3, <1>4, <1>5, <2>2
    <3>2. k - 1 <= i
      BY <1>5, <3>1 DEF LastChange
    <3> QED BY <1>1, <3>2
  <2> QED BY <2>1, <2>2
<1>6. ASSUME NEW i \in DOMAIN t, LastChange(s, i + 1), NEW j \in DOMAIN t, Change(t, j)
      PROVE  j <= i
  <2>1. j + 1 <= i + 1
    BY <1>2, <1>3, <1>6 DEF LastChange
  <2> QED BY <1>2, <2>1
<1>7. \A i \in DOMAIN t : Change(s, i + 1) => (LastChange(t, i) <=> LastChange(s, i + 1))
  BY <1>3, <1>5, <1>6 DEF LastChange
<1> QED BY <1>3, <1>4, <1>7 DEF t

\* The flag of a change that is taken off the queue is what the queue says.
LEMMA TakenChangeIsApplied ==
    ASSUME NEW s \in Seq(Events), s # <<>>, s[1] # "START", NEW flag \in BOOLEAN
    PROVE  WillBeSet(Tail(s), s[1] = "GOT_IP") <=> WillBeSet(s, flag)
<1>0. 1 \in DOMAIN s /\ Change(s, 1) /\ \A i \in DOMAIN s : i \in Int /\ i >= 1
  BY TailFacts DEF Change
<1>1. CASE \E i \in DOMAIN Tail(s) : Change(Tail(s), i)
  <2>1. PICK i \in DOMAIN Tail(s) : Change(s, i + 1)
    BY <1>1, LastChangeOfTail
  <2>2. ~LastChange(s, 1)
    <3>1. i \in Int /\ i >= 1 /\ i + 1 \in DOMAIN s
      BY TailFacts, <2>1
    <3> QED BY <2>1, <3>1 DEF LastChange
  <2>3. ASSUME NEW j \in DOMAIN Tail(s), LastChange(Tail(s), j)
        PROVE  LastChange(s, j + 1) /\ s[j + 1] = Tail(s)[j] /\ j + 1 \in DOMAIN s
    BY <2>3, TailFacts, LastChangeOfTail DEF LastChange
  <2>4. ASSUME NEW k \in DOMAIN s, LastChange(s, k)
        PROVE  /\ k - 1 \in DOMAIN Tail(s) /\ LastChange(Tail(s), k - 1)
               /\ Tail(s)[k - 1] = s[k]
    <3>1. k - 1 \in DOMAIN Tail(s) /\ (k - 1) + 1 = k
      BY <2>2, <2>4, LastChangeOfTail
    <3>2. Change(s, (k - 1) + 1) /\ LastChange(s, (k - 1) + 1)
      BY <2>4, <3>1 DEF LastChange
    <3>3. LastChange(Tail(s), k - 1)
      BY <3>1, <3>2, LastChangeOfTail
    <3>4. Tail(s)[k - 1] = s[(k - 1) + 1]
      BY <3>1, TailFacts
    <3> QED BY <3>1, <3>3, <3>4
  <2>5. WillBeSet(Tail(s), s[1] = "GOT_IP")
          <=> \E j \in DOMAIN Tail(s) : LastChange(Tail(s), j) /\ Tail(s)[j] = "GOT_IP"
    BY <1>1 DEF WillBeSet
  <2>6. WillBeSet(s, flag) <=> \E k \in DOMAIN s : LastChange(s, k) /\ s[k] = "GOT_IP"
    BY <1>0 DEF WillBeSet
  <2> QED BY <2>3, <2>4, <2>5, <2>6
<1>2. CASE ~ \E i \in DOMAIN Tail(s) : Change(Tail(s), i)
  <2>1. \A k \in DOMAIN s : Change(s, k) => k = 1
    BY <1>2, LastChangeOfTail
  <2>2. \A k \in DOMAIN s : LastChange(s, k) <=> k = 1
    BY <1>0, <2>1 DEF LastChange
  <2>3. WillBeSet(s, flag) <=> s[1] = "GOT_IP"
    BY <1>0, <2>2 DEF WillBeSet
  <2>4. WillBeSet(Tail(s), s[1] = "GOT_IP") <=> s[1] = "GOT_IP"
    BY <1>2 DEF WillBeSet
  <2> QED BY <2>3, <2>4
<1> QED BY <1>1, <1>2

\* The start of the station says nothing about the flag.
LEMMA StartIsNoChange ==
    ASSUME NEW s \in Seq(Events), s # <<>>, s[1] = "START", NEW flag \in BOOLEAN
    PROVE  WillBeSet(Tail(s), flag) <=> WillBeSet(s, flag)
<1>0. ~Change(s, 1) /\ ~LastChange(s, 1)
  BY DEF Change, LastChange
<1>1. ASSUME NEW j \in DOMAIN Tail(s), Change(Tail(s), j)
      PROVE  j + 1 \in DOMAIN s /\ Change(s, j + 1) /\ s[j + 1] = Tail(s)[j]
             /\ (LastChange(Tail(s), j) <=> LastChange(s, j + 1))
  BY <1>1, TailFacts, LastChangeOfTail
<1>2. ASSUME NEW k \in DOMAIN s, Change(s, k)
      PROVE  /\ k - 1 \in DOMAIN Tail(s) /\ Change(Tail(s), k - 1)
             /\ Tail(s)[k - 1] = s[k]
             /\ LastChange(Tail(s), k - 1) <=> LastChange(s, k)
  <2>1. k - 1 \in DOMAIN Tail(s) /\ (k - 1) + 1 = k
    BY <1>0, <1>2, LastChangeOfTail
  <2>2. Change(s, (k - 1) + 1)
    BY <1>2, <2>1
  <2>3. Change(Tail(s), k - 1) /\ (LastChange(Tail(s), k - 1) <=> LastChange(s, (k - 1) + 1))
    BY <2>1, <2>2, LastChangeOfTail
  <2>4. Tail(s)[k - 1] = s[(k - 1) + 1]
    BY <2>1, TailFacts
  <2> QED BY <2>1, <2>3, <2>4
<1>3. (\E j \in DOMAIN Tail(s) : Change(Tail(s), j)) <=> (\E k \in DOMAIN s : Change(s, k))
  BY <1>1, <1>2
<1>4. (\E j \in DOMAIN Tail(s) : LastChange(Tail(s), j) /\ Tail(s)[j] = "GOT_IP")
        <=> (\E k \in DOMAIN s : LastChange(s, k) /\ s[k] = "GOT_IP")
  BY <1>1, <1>2 DEF LastChange
<1> QED BY <1>3, <1>4 DEF WillBeSet

-----------------------------------------------------------------------------
(***************************************************************************)
(* The inductive invariant: one part for each component.                     *)
(***************************************************************************)

\* The handler sets the flag first and the bit after it.
BitFollowsFlag ==
    /\ handler = "wait" => connectedBit = s_wifi_connected
    /\ handler \in {"clearBits", "reconnect"} => ~s_wifi_connected
    /\ handler = "reconnect" => ~connectedBit
    /\ handler = "setBits" => s_wifi_connected

QueueFollowsStation ==
    /\ station = "addressed" => WillBeSet(events, s_wifi_connected)
    /\ WillBeSet(events, s_wifi_connected) => station \in {"associated", "addressed"}

WifiInv == WifiTypeOK /\ BitFollowsFlag /\ QueueFollowsStation

\* What each light was turned to by the step that led to a state.
LedInv ==
    /\ LedTypeOK
    /\ led[3] <=> ledState = 4
    /\ ledState = 3 => led[2]
    /\ ledState \in {0, 2, 4} => ~led[2]

BleInv ==
    /\ BleTypeOK
    /\ HandleFollowsCentral
    /\ SilentOnlyAfterFailure
    /\ ~synced => central = "none"

IInv == WifiInv /\ LedInv /\ BleInv

-----------------------------------------------------------------------------
\* After a start, and after a restart, only the event of the station is queued.
LEMMA StartedWifi ==
    /\ WifiInit => WifiInv
    /\ WifiRestart => WifiInv'
<1>1. ~WillBeSet(<<"START">>, FALSE)
  BY DEF WillBeSet, Change
<1>2. <<"START">> \in Seq(Events) /\ Len(<<"START">>) <= MaxEvents
  BY MaxEventsAssumption DEF Events
<1>3. WifiInit => WifiInv
  BY <1>1, <1>2 DEF WifiInit, WifiInv, WifiTypeOK, BitFollowsFlag, QueueFollowsStation,
     wifi_configure_sta, Events
<1>4. WifiRestart => WifiInv'
  BY <1>1, <1>2 DEF WifiRestart, WifiInv, WifiTypeOK, BitFollowsFlag, QueueFollowsStation,
     wifi_configure_sta, Events
<1> QED BY <1>3, <1>4

\* Every event that the handler takes leaves in the flag what the queue said.
LEMMA HandlerStep == WifiInv /\ Handler => WifiInv'
<1> SUFFICES ASSUME WifiInv, Handler PROVE WifiInv'
    OBVIOUS
<1> USE DEF WifiInv, WifiTypeOK, BitFollowsFlag, QueueFollowsStation, esp_wifi_connect
<1>0. events \in Seq(Events)
  BY DEF Events
<1>1. ASSUME NEW e \in Events, Take(e)
      PROVE  /\ events # <<>> /\ events[1] = e
             /\ events' \in Seq({"START", "DISCONNECTED", "GOT_IP"}) /\ Len(events') <= MaxEvents
  <2>1. events # <<>> /\ events[1] = e /\ events' = Tail(events)
    BY <1>0, <1>1, TailFacts DEF Take
  <2>2. events' \in Seq(Events) /\ Len(events') = Len(events) - 1 /\ Len(events) \in Nat
    BY <1>0, <2>1, TailFacts
  <2> QED BY <2>1, <2>2, MaxEventsAssumption DEF Events
<1>2. CASE HandleStart
  <2>1. WillBeSet(events', s_wifi_connected) <=> WillBeSet(events, s_wifi_connected)
    BY <1>0, <1>1, <1>2, StartIsNoChange DEF HandleStart, Take, Events
  <2> QED BY <1>1, <1>2, <2>1 DEF HandleStart, Take, Events
<1>3. CASE HandleDisconnected
  <2>1. events # <<>> /\ events[1] = "DISCONNECTED" /\ events' = Tail(events)
    BY <1>1, <1>3 DEF HandleDisconnected, Take, Events
  <2>2. WillBeSet(Tail(events), events[1] = "GOT_IP") <=> WillBeSet(events, s_wifi_connected)
    BY <1>0, <2>1, TakenChangeIsApplied
  <2>3. (events[1] = "GOT_IP") = FALSE
    BY <2>1
  <2>4. WillBeSet(events', FALSE) <=> WillBeSet(events, s_wifi_connected)
    BY <2>1, <2>2, <2>3, Zenon
  <2> QED BY <1>1, <1>3, <2>4 DEF HandleDisconnected, Take, Events
<1>4. CASE ClearBits
  BY <1>4 DEF ClearBits
<1>5. CASE Reconnect
  BY <1>5 DEF Reconnect
<1>6. CASE HandleGotIp
  <2>1. events # <<>> /\ events[1] = "GOT_IP" /\ events' = Tail(events)
    BY <1>1, <1>6 DEF HandleGotIp, Take, Events
  <2>2. WillBeSet(Tail(events), events[1] = "GOT_IP") <=> WillBeSet(events, s_wifi_connected)
    BY <1>0, <2>1, TakenChangeIsApplied
  <2>3. (events[1] = "GOT_IP") = TRUE
    BY <2>1
  <2>4. WillBeSet(events', TRUE) <=> WillBeSet(events, s_wifi_connected)
    BY <2>1, <2>2, <2>3, Zenon
  <2> QED BY <1>1, <1>6, <2>4 DEF HandleGotIp, Take, Events
<1>7. CASE SetBits
  BY <1>7 DEF SetBits
<1> QED BY <1>2, <1>3, <1>4, <1>5, <1>6, <1>7 DEF Handler

\* The task may only begin an attempt of a station that is idle.
LEMMA TaskStep == WifiInv /\ (TimeOut \/ Check \/ Retry) => WifiInv'
BY DEF TimeOut, Check, Retry, esp_wifi_connect, WifiInv, WifiTypeOK, BitFollowsFlag, QueueFollowsStation

\* The driver posts every change of the station that the flag has to follow.
LEMMA DriverStep == WifiInv /\ Driver => WifiInv'
<1> SUFFICES ASSUME WifiInv, Driver PROVE WifiInv'
    OBVIOUS
<1> USE DEF WifiInv, WifiTypeOK, BitFollowsFlag, QueueFollowsStation, Becomes
<1>0. events \in Seq(Events)
  BY DEF Events
<1>1. ASSUME NEW e \in {"DISCONNECTED", "GOT_IP"}, Post(e)
      PROVE  /\ events' \in Seq({"START", "DISCONNECTED", "GOT_IP"}) /\ Len(events') <= MaxEvents
             /\ WillBeSet(events', s_wifi_connected) <=> e = "GOT_IP"
  BY <1>0, <1>1, PostedEventDecides, MaxEventsAssumption DEF Post, Events
<1>2. CASE Associate   BY <1>2 DEF Associate
<1>3. CASE JoinFails   BY <1>1, <1>3 DEF JoinFails
<1>4. CASE GetAddress  BY <1>1, <1>4 DEF GetAddress
<1>5. CASE LoseAddress BY <1>5 DEF LoseAddress
<1>6. CASE LoseStation BY <1>1, <1>6 DEF LoseStation
<1> QED BY <1>2, <1>3, <1>4, <1>5, <1>6 DEF Driver

\* Both modes keep lights and state machine together.
LEMMA LedStepInv == LedInv /\ LedNext => LedInv'
<1> SUFFICES ASSUME LedInv, LedNext PROVE LedInv'
    OBVIOUS
<1> USE DEF LedInv, LedTypeOK
<1>1. CASE FactoryPass
  <2>0. Toggled(1) = {1} /\ Toggled(2) = {1, 2} /\ Toggled(3) = {1, 2, 3} /\ Toggled(4) = {1, 2, 3}
    BY DEF Toggled
  <2>1. CASE ledState \in {0, 1}
    <3>1. led' = [n \in 1 .. 3 |-> n \in {1} /\ ~led[n]] /\ ledState' = 2
      BY <1>1, <2>0, <2>1 DEF FactoryPass
    <3> QED BY <3>1
  <2>2. CASE ledState = 2
    <3>1. led' = [n \in 1 .. 3 |-> n \in {1, 2} /\ ~led[n]] /\ ledState' = 3
      BY <1>1, <2>0, <2>2 DEF FactoryPass
    <3>2. 2 \in 1 .. 3 /\ 3 \in 1 .. 3 /\ 2 \in {1, 2} /\ 3 \notin {1, 2}
      OBVIOUS
    <3>3. /\ led'[2] = (2 \in {1, 2} /\ ~led[2])
          /\ led'[3] = (3 \in {1, 2} /\ ~led[3])
      BY <3>1, <3>2, Zenon
    <3>4. ~led[2]
      BY <2>2
    <3>5. led'[2] /\ ~led'[3]
      BY <3>2, <3>3, <3>4, Zenon
    <3>6. led' \in [1 .. 3 -> BOOLEAN]
      BY <3>1
    <3> HIDE DEF LedInv
    <3>7. /\ ledState' \in 0 .. 4
          /\ ~(ledState' = 4)
          /\ ~(ledState' \in {0, 2, 4})
      BY <3>1
    <3> QED BY <3>5, <3>6, <3>7, Zenon DEF LedInv
  <2>3. CASE ledState \in {3, 4}
    <3>1. /\ led' = [n \in 1 .. 3 |-> n \in {1, 2, 3} /\ ~led[n]]
          /\ ledState' = IF ledState = 3 THEN 4 ELSE 1
      BY <1>1, <2>0, <2>3 DEF FactoryPass
    <3> QED BY <2>3, <3>1
  <2> QED BY <2>1, <2>2, <2>3
<1>2. CASE NormalPass BY <1>2 DEF NormalPass
<1> QED BY <1>1, <1>2 DEF LedNext

\* A connection that ends, in whatever way, ends with the handle withdrawn and
\* an attempt to advertise.
LEMMA BleStepInv == BleInv /\ BleNext => BleInv'
<1> SUFFICES ASSUME BleInv, BleNext PROVE BleInv'
    OBVIOUS
<1> USE DEF BleInv, BleTypeOK, HandleFollowsCentral, SilentOnlyAfterFailure, ble_on_sync
<1>1. CASE Sync          BY <1>1 DEF Sync
<1>2. CASE HostReset     BY <1>2 DEF HostReset
<1>3. CASE Connect       BY <1>3 DEF Connect
<1>4. CASE ConnectFails  BY <1>4 DEF ConnectFails
<1>5. CASE CentralLeaves BY <1>5 DEF CentralLeaves
<1>6. CASE Disconnect    BY <1>6 DEF Disconnect
<1> QED BY <1>1, <1>2, <1>3, <1>4, <1>5, <1>6 DEF BleNext

\* Lights and BLE start, and start again, with everything off.
LEMMA StartedLedAndBle ==
    /\ LedInit => LedInv
    /\ LedRestart => LedInv'
    /\ BleInit => BleInv
    /\ BleRestart => BleInv'
<1>1. LedInit => LedInv
  BY DEF LedInit, LedInv, LedTypeOK
<1>2. LedRestart => LedInv'
  BY DEF LedRestart, LedInv, LedTypeOK
<1>3. BleInit => BleInv
  BY DEF BleInit, BleInv, BleTypeOK, HandleFollowsCentral, SilentOnlyAfterFailure
<1>4. BleRestart => BleInv'
  BY DEF BleRestart, BleInv, BleTypeOK, HandleFollowsCentral, SilentOnlyAfterFailure
<1> QED BY <1>1, <1>2, <1>3, <1>4

\* The three components start, run and restart without disturbing each other.
THEOREM SpecIInv == Spec => []IInv
<1>1. Init => IInv
  BY StartedWifi, StartedLedAndBle DEF Init, IInv
<1>2. ASSUME IInv, [Next]_vars PROVE IInv'
  <2>1. WifiNext => WifiInv'
    BY <1>2, HandlerStep, TaskStep, DriverStep DEF IInv, WifiNext
  <2>2. UNCHANGED wifiVars => WifiInv'
    BY <1>2 DEF IInv, wifiVars, WifiInv, WifiTypeOK, BitFollowsFlag, QueueFollowsStation
  <2>3. UNCHANGED lights => LedInv'
    BY <1>2 DEF IInv, lights, LedInv, LedTypeOK
  <2>4. UNCHANGED bleVars => BleInv'
    BY <1>2 DEF IInv, bleVars, BleInv, BleTypeOK, HandleFollowsCentral, SilentOnlyAfterFailure
  <2>5. CASE WifiStep(WifiNext)
    BY <2>1, <2>3, <2>4, <2>5 DEF WifiStep, IInv
  <2>6. CASE LedStep
    BY <1>2, <2>2, <2>4, <2>6, LedStepInv DEF LedStep, IInv
  <2>7. CASE BleStep
    BY <1>2, <2>2, <2>3, <2>7, BleStepInv DEF BleStep, IInv
  <2>8. CASE Restart
    BY <2>8, StartedWifi, StartedLedAndBle DEF Restart, IInv
  <2>9. CASE UNCHANGED vars
    BY <2>2, <2>3, <2>4, <2>9 DEF vars, IInv
  <2> QED BY <1>2, <2>5, <2>6, <2>7, <2>8, <2>9 DEF Next, PowerCycle, BleWrite
<1> QED BY <1>1, <1>2, PTL DEF Spec

\* The variables of all three components keep their types.
THEOREM RadioTypeCorrect == Spec => []TypeOK
<1>1. IInv => TypeOK
  BY DEF IInv, WifiInv, LedInv, BleInv, TypeOK
<1> QED BY <1>1, SpecIInv, PTL

\* Once the events of a change are handled the flag is that of the station, but
\* for a lost address, however many events were queued meanwhile.
THEOREM FlagIsRight == Spec => []FlagFollowsStation
<1>1. IInv => FlagFollowsStation
  BY DEF IInv, WifiInv, BitFollowsFlag, QueueFollowsStation, WillBeSet, Change, FlagFollowsStation
<1> QED BY <1>1, SpecIInv, PTL

\* The lights stay in step with the state machine.
THEOREM LightsInStep == Spec => []PatternFollowsState
<1>1. IInv => PatternFollowsState
  BY DEF IInv, LedInv, LedTypeOK, PatternFollowsState
<1> QED BY <1>1, SpecIInv, PTL

\* The handle is held exactly as long as a connection is known.
THEOREM HandleIsRight == Spec => []HandleFollowsCentral
<1>1. IInv => HandleFollowsCentral
  BY DEF IInv, BleInv
<1> QED BY <1>1, SpecIInv, PTL

\* BLE falls silent only after a failed attempt to advertise or to connect.
THEOREM SilenceHasACause == Spec => []SilentOnlyAfterFailure
<1>1. IInv => SilentOnlyAfterFailure
  BY DEF IInv, BleInv
<1> QED BY <1>1, SpecIInv, PTL

=============================================================================
