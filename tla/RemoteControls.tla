--------------------------- MODULE RemoteControls ---------------------------
(***************************************************************************)
(* The pilot's side of the remote: RemoteState, the gamepad, preference    *)
(* and connect handlers of MainActivity, and the text of the datagrams,    *)
(* which only some of the handlers renew.  All of it runs on the UI        *)
(* thread, a handler at a time; between two of them the UDPClient that has *)
(* port 6000 sends what payload holds.  NetworkManager knows only the      *)
(* newest UDPClient, which may be another one.  How the attempts to        *)
(* connect end is in Remote; here either button of onClick may come.       *)
(*                                                                         *)
(* While the menu is open it gets the pad's events, the release of a       *)
(* button included.  A raw axis is in thousandths.                         *)
(***************************************************************************)
EXTENDS Integers

CONSTANTS
    Events,        \* motion events: gas, x, y, z, rz, hatX, hatY
    Keys,          \* the keys pressed, of those below
    Settings,      \* the preferences changed: <<key, value>>
    initialGain, minGain, maxGain,
    minThrottlePlatform, maxThrottlePlatform

StateKeys == {"THUMBL", "THUMBR", "SELECT"}
Raw == -1000 .. 1000
FlightModes == [ACRO |-> 1000, ANGLE |-> 1500, HORIZON |-> 2000]

ASSUME EventsAssumption ==
    Events \subseteq [gas : 0 .. 1000, x : Raw, y : Raw, z : Raw, rz : Raw,
                      hatX : {-1, 0, 1}, hatY : {-1, 0, 1}]
ASSUME KeysAssumption == Keys \subseteq StateKeys \cup {"START"}
ASSUME SettingsAssumption ==
    Settings \subseteq ({"flightMode"} \X DOMAIN FlightModes)
                       \cup ({"barometer", "magnetometer"} \X BOOLEAN)
ASSUME GainAssumption ==
    /\ {initialGain, minGain, maxGain} \subseteq Nat
    /\ 1 <= minGain /\ minGain <= initialGain /\ initialGain <= maxGain
ASSUME PlatformAssumption ==
    /\ {minThrottlePlatform, maxThrottlePlatform} \subseteq Nat
    /\ minThrottlePlatform <= maxThrottlePlatform

VARIABLES
    rawAxes,
    gain, throttlePlatform,
    flightMode, barometerStatus, magnetometerStatus, pilotArmingStatus,
    buttons,       \* leftThumbState, rightThumbState, securityArmState: those set
    menu,          \* MenuActivity is in front
    client,        \* NetworkManager's UDPClient: "none" yet, "bound" to port 6000, "closed",
                   \* or "lost": it found an older one there, which goes on sending
    payload,       \* packetString of the UDPClient that has the port
    \* history
    held,          \* the keys that are down
    missed,        \* the keys whose last release the menu got
    hat            \* the vertical of the D-pad in the last event

switches == <<flightMode, barometerStatus, magnetometerStatus>>
vars == <<rawAxes, gain, throttlePlatform, switches, pilotArmingStatus, buttons, menu,
          client, payload, held, missed, hat>>

ARM_STATUS_OFF == 1000
ARM_STATUS_ON == 1500
Switch(on) == IF on THEN 1500 ELSE 1000

\* An empty packet: no channel has a width.
NoPayload == [c \in {"THROTTLE", "ROLL", "PITCH", "YAW", "AUX1", "AUX2", "AUX3", "AUX4"} |-> 0]

TypeOK ==
    /\ rawAxes \in [0 .. 3 -> Raw]
    /\ gain \in minGain .. maxGain
    /\ throttlePlatform \in minThrottlePlatform .. maxThrottlePlatform
    /\ flightMode \in {1000, 1500, 2000}
    /\ {barometerStatus, magnetometerStatus, pilotArmingStatus} \subseteq {1000, 1500}
    /\ buttons \subseteq StateKeys /\ held \subseteq Keys /\ missed \subseteq Keys
    /\ menu \in BOOLEAN
    /\ client \in {"none", "bound", "lost", "closed"}
    /\ hat \in {-1, 0, 1}
    /\ payload # NoPayload =>
         /\ payload.THROTTLE \in minThrottlePlatform .. maxThrottlePlatform + 500
         /\ \A c \in {"ROLL", "PITCH", "YAW", "AUX1", "AUX2", "AUX3", "AUX4"} :
                payload[c] \in 1000 .. 2000

Init ==
    /\ rawAxes = [i \in 0 .. 3 |-> 0]
    /\ gain = initialGain
    /\ throttlePlatform = minThrottlePlatform
    /\ flightMode = 1500 /\ barometerStatus = 1000 /\ magnetometerStatus = 1000
    /\ pilotArmingStatus = ARM_STATUS_OFF
    /\ buttons = {} /\ held = {} /\ missed = {} /\ hat = 0
    /\ menu = FALSE
    /\ client = "none" /\ payload = NoPayload

-----------------------------------------------------------------------------
Clamp(n, low, high) == IF n > high THEN high ELSE IF n < low THEN low ELSE n

\* Mutation: only the upper bound is kept.
setGain_Unbounded(n) == IF n > maxGain THEN maxGain ELSE n

setGain(n) == Clamp(n, minGain, maxGain)

setThrottlePlatform(n) == Clamp(n, minThrottlePlatform, maxThrottlePlatform)

\* setAxes.  The trigger adds to the platform: up to 500 above its maximum.
getAxes ==
    [THROTTLE |-> throttlePlatform + rawAxes[0] \div 2,
     ROLL     |-> (3000 - rawAxes[1]) \div 2,
     PITCH    |-> (3000 + rawAxes[2]) \div 2,
     YAW      |-> (3000 - rawAxes[3]) \div 2,
     AUX1     |-> flightMode,
     AUX2     |-> barometerStatus,
     AUX3     |-> magnetometerStatus,
     AUX4     |-> pilotArmingStatus]

\* To the newest client: one that has lost the port keeps the packet to itself.
setUDPPayload == payload' = IF client = "lost" THEN payload ELSE getAxes'

\* An exception on the UI thread: the app ends, and is started again.
Crash ==
    /\ rawAxes' = [i \in 0 .. 3 |-> 0]
    /\ gain' = initialGain
    /\ throttlePlatform' = minThrottlePlatform
    /\ flightMode' = 1500 /\ barometerStatus' = 1000 /\ magnetometerStatus' = 1000
    /\ pilotArmingStatus' = ARM_STATUS_OFF
    /\ buttons' = {} /\ missed' = {} /\ hat' = 0
    /\ menu' = FALSE
    /\ client' = "none" /\ payload' = NoPayload
    /\ UNCHANGED held

\* Mutation: disarming does not ask for the button.
Gesture_OneHand(rz) ==
    IF rz > 900 /\ pilotArmingStatus = ARM_STATUS_ON THEN ARM_STATUS_OFF
    ELSE IF rz < -900 /\ "SELECT" \in buttons THEN ARM_STATUS_ON
    ELSE pilotArmingStatus

\* Down disarms and up arms, with the button.
Gesture(rz) ==
    IF "SELECT" \notin buttons THEN pilotArmingStatus
    ELSE IF rz > 900 THEN ARM_STATUS_OFF
    ELSE IF rz < -900 THEN ARM_STATUS_ON
    ELSE pilotArmingStatus

Move(e) ==
    /\ ~menu
    /\ rawAxes' = [i \in 0 .. 3 |-> CASE i = 0 -> e.gas [] i = 1 -> e.x
                                      [] i = 2 -> -e.y  [] i = 3 -> e.z]
    /\ pilotArmingStatus' = Gesture(e.rz)
    /\ gain' = CASE e.hatX > 0 -> setGain(gain * 2)
                 [] e.hatX < 0 -> setGain(gain \div 2)
                 [] OTHER -> gain
    \* The D-pad is upside down.
    /\ throttlePlatform' = CASE e.hatY > 0 -> setThrottlePlatform(throttlePlatform - gain')
                             [] e.hatY < 0 -> setThrottlePlatform(throttlePlatform + gain')
                             [] OTHER -> throttlePlatform
    /\ hat' = e.hatY
    /\ UNCHANGED <<switches, buttons, menu, client, held, missed>>

\* Mutation: the packet is made before the D-pad is looked at.
processJoystickInput_Early(e) ==
    /\ client # "none" /\ Move(e)
    /\ payload' = [getAxes' EXCEPT !.THROTTLE = throttlePlatform + rawAxes'[0] \div 2]

\* A sample of an event, of those the system has put together as well.  Before the first
\* connection there is no client to give the packet to.
processJoystickInput(e) ==
    \/ client # "none" /\ Move(e) /\ setUDPPayload
    \/ client = "none" /\ ~menu /\ Crash

\* useState: the barometer is on after a press if both thumbs are down then.
setButtonState(key) ==
    /\ buttons' = buttons \cup {key}
    /\ barometerStatus' = Switch({"THUMBL", "THUMBR"} \subseteq buttons')
    /\ UNCHANGED <<flightMode, magnetometerStatus>>

onKeyDown(key) ==
    /\ key \notin held
    /\ held' = held \cup {key}
    /\ missed' = missed \ {key}
    /\ menu' = (menu # (key = "START"))          \* opens the menu, or closes it
    /\ IF ~menu /\ key \in StateKeys THEN setButtonState(key)
                                     ELSE UNCHANGED <<switches, buttons>>
    /\ UNCHANGED <<rawAxes, gain, throttlePlatform, pilotArmingStatus, client, payload, hat>>

onKeyUp(key) ==
    /\ key \in held
    /\ held' = held \ {key}
    /\ IF menu THEN missed' = missed \cup {key} /\ UNCHANGED buttons
               ELSE buttons' = buttons \ {key} /\ UNCHANGED missed
    /\ UNCHANGED <<rawAxes, gain, throttlePlatform, switches, pilotArmingStatus, menu,
                   client, payload, hat>>

\* The preferences are the menu's.
SetPreference(key, value) ==
    /\ flightMode' = IF key = "flightMode" THEN FlightModes[value] ELSE flightMode
    /\ barometerStatus' = IF key = "barometer" THEN Switch(value) ELSE barometerStatus
    /\ magnetometerStatus' = IF key = "magnetometer" THEN Switch(value)
                                                     ELSE magnetometerStatus
    /\ UNCHANGED <<rawAxes, gain, throttlePlatform, pilotArmingStatus, buttons, menu, client,
                   held, missed, hat>>

onSharedPreferenceChanged(key, value) ==
    /\ menu
    /\ \/ client # "none" /\ SetPreference(key, value) /\ setUDPPayload
       \/ client = "none" /\ Crash

controls == <<rawAxes, gain, throttlePlatform, switches, pilotArmingStatus, buttons, menu,
              held, missed, hat>>

\* A new UDPClient with an empty packet.  When an attempt has failed or a connection has
\* dropped, the old client still has the port, and goes on with its last packet.
startConnection ==
    /\ ~menu
    /\ \/ client \in {"none", "closed"} /\ client' = "bound" /\ payload' = NoPayload
       \/ client \in {"bound", "lost"} /\ client' = "lost" /\ UNCHANGED payload
    /\ UNCHANGED controls

\* The newest client's socket is closed; one that lost the port has none.
closeConnections ==
    /\ ~menu
    /\ \/ client \in {"bound", "closed"} /\ client' = "closed" /\ UNCHANGED <<controls, payload>>
       \/ client = "lost" /\ Crash

Next ==
    \/ \E e \in Events : processJoystickInput(e)
    \/ \E key \in Keys : onKeyDown(key) \/ onKeyUp(key)
    \/ \E s \in Settings : onSharedPreferenceChanged(s[1], s[2])
    \/ startConnection
    \/ closeConnections

Spec == Init /\ [][Next]_vars

\* The D-pad pressed down, once more.
Lower == \E e \in Events : e.hatY > 0 /\ processJoystickInput(e)

-----------------------------------------------------------------------------
\* Buttons and preferences change the state, and only some of the handlers renew the
\* packet.  What is sent every five milliseconds is nevertheless what the controls say,
\* in everything but the barometer's switch: a press of a button changes that one
\* without a new packet.  So it is while the client that has the port is the one
\* NetworkManager knows: after an attempt to connect that found the port taken, what is
\* sent is for good what the controls said before it.
PayloadCurrent ==
    client = "bound" /\ payload # NoPayload =>
        payload = [getAxes EXCEPT !.AUX2 = payload.AUX2]

\* "To arm, the pilot the user has to press and hold button tagged 6 and push the right
\* stick" (disertation.tex:325): the pilot's arming changes only while SELECT is down,
\* after the menu got its release, which RemoteState then never hears of, or when a crash
\* of the app has put it off.
ArmsWhileHeld ==
    [][pilotArmingStatus' # pilotArmingStatus =>
           "SELECT" \in held \cup missed \/ (client' = "none" /\ pilotArmingStatus' = ARM_STATUS_OFF)]_vars

\* The throttle can be brought down from wherever the gain has been halved to: a pilot
\* who goes on pressing the D-pad down and nothing else on it reaches the lowest platform.
PlatformComesDown ==
    WF_vars(Lower) /\ <>[](hat = 1 /\ ~menu) => <>[](throttlePlatform = minThrottlePlatform)
=============================================================================
