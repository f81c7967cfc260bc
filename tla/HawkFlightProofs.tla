-------------------------- MODULE HawkFlightProofs --------------------------
(***************************************************************************)
(* The packets of the remote are what the controls say, the motors start   *)
(* only after the pilot's gesture, and with them on the throttle rises     *)
(* only when the pilot lifts it: for every set of events, keys and         *)
(* preferences, every gain and every bound of the platform.                *)
(***************************************************************************)
EXTENDS HawkFlight, TLAPS

-----------------------------------------------------------------------------
(* The pilot's side by itself.                                               *)

\* While NetworkManager's client has the port, the packet is made of the state, by a handler
\* that renews it, or is left alone by one that changes nothing of the state but the
\* barometer's switch; and a client that gets the port begins with an empty one.
LEMMA PayloadNext == PayloadCurrent /\ [Next]_vars => PayloadCurrent'
<1>. SUFFICES ASSUME PayloadCurrent, [Next]_vars PROVE PayloadCurrent'
  OBVIOUS
<1>1. ASSUME payload' = getAxes'
      PROVE  PayloadCurrent'
  <2>1. getAxes' = [getAxes' EXCEPT !.AUX2 = getAxes'.AUX2]
    BY DEF getAxes
  <2>. QED BY <1>1, <2>1 DEF PayloadCurrent
<1>2. ASSUME UNCHANGED <<rawAxes, throttlePlatform, flightMode, magnetometerStatus,
                         pilotArmingStatus, client, payload>>
      PROVE  PayloadCurrent'
  <2>1. \A n : [getAxes' EXCEPT !.AUX2 = n] = [getAxes EXCEPT !.AUX2 = n]
    BY <1>2 DEF getAxes
  <2>. QED BY <1>2, <2>1 DEF PayloadCurrent
<1>3. ASSUME setUDPPayload, client' = client
      PROVE  PayloadCurrent'
  <2>1. CASE client = "lost"
    BY <1>3, <2>1 DEF PayloadCurrent
  <2>2. CASE client # "lost"
    BY <1>1, <1>3, <2>2 DEF setUDPPayload
  <2>. QED BY <2>1, <2>2
<1>4. ASSUME Crash
      PROVE  PayloadCurrent'
  BY <1>4 DEF Crash, PayloadCurrent
<1>5. ASSUME NEW e \in Events, processJoystickInput(e)
      PROVE  PayloadCurrent'
  BY <1>3, <1>4, <1>5 DEF processJoystickInput, Move
<1>6. ASSUME NEW key \in Keys, onKeyDown(key) \/ onKeyUp(key)
      PROVE  PayloadCurrent'
  BY <1>2, <1>6 DEF onKeyDown, onKeyUp, setButtonState, switches
<1>7. ASSUME NEW s \in Settings, onSharedPreferenceChanged(s[1], s[2])
      PROVE  PayloadCurrent'
  BY <1>3, <1>4, <1>7 DEF onSharedPreferenceChanged, SetPreference
<1>8. CASE startConnection
  BY <1>8 DEF startConnection, PayloadCurrent
<1>9. CASE closeConnections
  BY <1>4, <1>9 DEF closeConnections, PayloadCurrent
<1>10. CASE UNCHANGED vars
  BY <1>2, <1>10 DEF vars, switches
<1>. QED BY <1>5, <1>6, <1>7, <1>8, <1>9, <1>10 DEF Next

\* While no attempt to connect has found the port taken, what is sent every five
\* milliseconds is what the controls say, in everything but the barometer's switch: for all
\* events, keys, preferences and gains, and every order of attempts, ends and crashes.
THEOREM PacketIsCurrent == Spec => []PayloadCurrent
<1>1. Init => PayloadCurrent
  BY DEF Init, PayloadCurrent
<1>. QED BY <1>1, PayloadNext, PTL DEF Spec

\* A button that is set is down, or its release went to the menu.
Pressed == buttons \subseteq held \cup missed

LEMMA PressedNext == Pressed /\ [Next]_vars => Pressed'
<1>. SUFFICES ASSUME Pressed, [Next]_vars PROVE Pressed'
  OBVIOUS
<1>1. ASSUME NEW key \in Keys, onKeyDown(key)
      PROVE  Pressed'
  <2>1. buttons' \subseteq buttons \cup {key}
    BY <1>1 DEF onKeyDown, setButtonState
  <2>. QED BY <1>1, <2>1 DEF onKeyDown, Pressed
<1>2. ASSUME NEW key \in Keys, onKeyUp(key)
      PROVE  Pressed'
  BY <1>2 DEF onKeyUp, Pressed
<1>3. ASSUME buttons' = {} \/ UNCHANGED <<buttons, held, missed>>
      PROVE  Pressed'
  BY <1>3 DEF Pressed
<1>4. (\E key \in Keys : onKeyDown(key) \/ onKeyUp(key))
      \/ buttons' = {} \/ UNCHANGED <<buttons, held, missed>>
  BY DEF Next, processJoystickInput, Move, onSharedPreferenceChanged, SetPreference,
         startConnection, closeConnections, controls, Crash, vars
<1>. QED BY <1>1, <1>2, <1>3, <1>4

LEMMA PressedInvariance == Spec => []Pressed
<1>1. Init => Pressed
  BY DEF Init, Pressed
<1>. QED BY <1>1, PressedNext, PTL DEF Spec

\* The pilot's arming changes only while SELECT is down, after the menu got its release, or
\* in a crash that puts it off: in every order of presses, releases, menus, attempts to
\* connect and movements of the stick.
THEOREM GestureTakesSelect == Spec => ArmsWhileHeld
<1>. DEFINE Held == pilotArmingStatus' # pilotArmingStatus =>
                        "SELECT" \in held \cup missed
                        \/ (client' = "none" /\ pilotArmingStatus' = ARM_STATUS_OFF)
<1>1. Pressed /\ [Next]_vars => [Held]_vars
  <2>. SUFFICES ASSUME Pressed, Next, pilotArmingStatus' # pilotArmingStatus
                PROVE  Held
    OBVIOUS
  <2>1. CASE Crash
    BY <2>1 DEF Crash
  <2>2. CASE ~Crash
    <3>1. PICK e \in Events : processJoystickInput(e)
      BY <2>2 DEF Next, onKeyDown, onKeyUp, onSharedPreferenceChanged, SetPreference,
             startConnection, closeConnections, controls
    <3>2. "SELECT" \in buttons
      BY <2>2, <3>1 DEF processJoystickInput, Move, Gesture
    <3>. QED BY <3>2 DEF Pressed
  <2>. QED BY <2>1, <2>2
<1>2. Spec => [][Held]_vars
  BY <1>1, PressedInvariance, PTL DEF Spec
<1>. QED BY <1>2 DEF ArmsWhileHeld

\* The state, but for the packet.  The trigger's axis, unlike the sticks', is never
\* negative.
StateTyped ==
    /\ rawAxes \in [0 .. 3 -> Raw] /\ rawAxes[0] \in 0 .. 1000
    /\ gain \in minGain .. maxGain
    /\ throttlePlatform \in minThrottlePlatform .. maxThrottlePlatform
    /\ flightMode \in {1000, 1500, 2000}
    /\ {barometerStatus, magnetometerStatus, pilotArmingStatus} \subseteq {1000, 1500}
    /\ buttons \subseteq StateKeys /\ held \subseteq Keys /\ missed \subseteq Keys
    /\ menu \in BOOLEAN
    /\ client \in {"none", "bound", "lost", "closed"}
    /\ hat \in {-1, 0, 1}

\* An empty packet, or one with every channel in its range.
PayloadTyped ==
    payload # NoPayload =>
        /\ payload.THROTTLE \in minThrottlePlatform .. maxThrottlePlatform + 500
        /\ \A c \in {"ROLL", "PITCH", "YAW", "AUX1", "AUX2", "AUX3", "AUX4"} :
               payload[c] \in 1000 .. 2000

ControlsInv == StateTyped /\ PayloadTyped

\* Anything is clamped between bounds that are in order.
LEMMA ClampBounds ==
    ASSUME NEW n \in Int, NEW l \in Int, NEW h \in Int, l <= h
    PROVE  Clamp(n, l, h) \in l .. h
  BY DEF Clamp

\* The packet of a state that has its type.
LEMMA AxesTyped ==
    ASSUME StateTyped
    PROVE  /\ getAxes.THROTTLE \in minThrottlePlatform .. maxThrottlePlatform + 500
           /\ \A c \in {"ROLL", "PITCH", "YAW", "AUX1", "AUX2", "AUX3", "AUX4"} :
                  getAxes[c] \in 1000 .. 2000
<1>1. /\ rawAxes \in [0 .. 3 -> Raw] /\ rawAxes[0] \in 0 .. 1000
      /\ throttlePlatform \in minThrottlePlatform .. maxThrottlePlatform
      /\ flightMode \in {1000, 1500, 2000}
      /\ {barometerStatus, magnetometerStatus, pilotArmingStatus} \subseteq {1000, 1500}
  BY DEF StateTyped
<1>2. getAxes.THROTTLE \in minThrottlePlatform .. maxThrottlePlatform + 500
  BY <1>1, PlatformAssumption DEF getAxes
<1>3. \A r \in Raw : (3000 - r) \div 2 \in 1000 .. 2000 /\ (3000 + r) \div 2 \in 1000 .. 2000
  BY DEF Raw
<1>4. rawAxes[1] \in Raw /\ rawAxes[2] \in Raw /\ rawAxes[3] \in Raw
  BY <1>1
<1>5. /\ getAxes["ROLL"] \in 1000 .. 2000 /\ getAxes["PITCH"] \in 1000 .. 2000
      /\ getAxes["YAW"] \in 1000 .. 2000
  BY <1>3, <1>4 DEF getAxes
<1>6. /\ getAxes["AUX1"] \in 1000 .. 2000 /\ getAxes["AUX2"] \in 1000 .. 2000
      /\ getAxes["AUX3"] \in 1000 .. 2000 /\ getAxes["AUX4"] \in 1000 .. 2000
  BY <1>1 DEF getAxes
<1>. QED BY <1>2, <1>5, <1>6

\* A movement leaves numbers in their ranges, whatever the gain has become by then.
LEMMA MoveTyped ==
    ASSUME StateTyped, NEW e \in Events, Move(e)
    PROVE  /\ rawAxes' \in [0 .. 3 -> Raw] /\ rawAxes'[0] \in 0 .. 1000
           /\ gain' \in minGain .. maxGain
           /\ throttlePlatform' \in minThrottlePlatform .. maxThrottlePlatform
           /\ pilotArmingStatus' \in {1000, 1500}
           /\ hat' \in {-1, 0, 1}
<1>0. /\ gain \in minGain .. maxGain
      /\ throttlePlatform \in minThrottlePlatform .. maxThrottlePlatform
      /\ pilotArmingStatus \in {1000, 1500}
  BY DEF StateTyped
<1>1. /\ e.gas \in 0 .. 1000 /\ e.x \in Raw /\ e.y \in Raw /\ e.z \in Raw
      /\ e.hatY \in {-1, 0, 1}
  BY EventsAssumption
<1>2. rawAxes'[0] \in 0 .. 1000
  BY <1>1 DEF Move
<1>3. rawAxes' \in [0 .. 3 -> Raw]
  <2>1. e.gas \in Raw
    BY <1>1 DEF Raw
  <2>0. \A r \in Raw : -r \in Raw
    BY DEF Raw
  <2>3. -e.y \in Raw
    BY <1>1, <2>0
  <2>2. \A i \in 0 .. 3 : i = 0 \/ i = 1 \/ i = 2 \/ i = 3
    OBVIOUS
  <2>. QED BY <1>1, <2>1, <2>2, <2>3 DEF Move
<1>4. gain' \in minGain .. maxGain
  <2>1. gain' \in {setGain(gain * 2), setGain(gain \div 2), gain}
    BY DEF Move
  <2>2. gain * 2 \in Int /\ gain \div 2 \in Int /\ minGain \in Int /\ maxGain \in Int
        /\ minGain <= maxGain
    BY <1>0, GainAssumption
  <2>3. setGain(gain * 2) \in minGain .. maxGain /\ setGain(gain \div 2) \in minGain .. maxGain
    BY <2>2, ClampBounds DEF setGain
  <2>. QED BY <1>0, <2>1, <2>3
<1>5. throttlePlatform' \in minThrottlePlatform .. maxThrottlePlatform
  <2>1. throttlePlatform' \in {setThrottlePlatform(throttlePlatform - gain'),
                               setThrottlePlatform(throttlePlatform + gain'),
                               throttlePlatform}
    BY DEF Move
  <2>2. /\ throttlePlatform - gain' \in Int /\ throttlePlatform + gain' \in Int
        /\ minThrottlePlatform \in Int /\ maxThrottlePlatform \in Int
        /\ minThrottlePlatform <= maxThrottlePlatform
    BY <1>0, <1>4, GainAssumption, PlatformAssumption
  <2>3. /\ setThrottlePlatform(throttlePlatform - gain')
               \in minThrottlePlatform .. maxThrottlePlatform
        /\ setThrottlePlatform(throttlePlatform + gain')
               \in minThrottlePlatform .. maxThrottlePlatform
    BY <2>2, ClampBounds DEF setThrottlePlatform
  <2>. QED BY <1>0, <2>1, <2>3
<1>6. pilotArmingStatus' \in {1000, 1500}
  BY <1>0 DEF Move, Gesture, ARM_STATUS_ON, ARM_STATUS_OFF
<1>7. hat' \in {-1, 0, 1}
  BY <1>1 DEF Move
<1>. QED BY <1>2, <1>3, <1>4, <1>5, <1>6, <1>7

\* The app as it starts.
Started ==
    /\ rawAxes = [i \in 0 .. 3 |-> 0]
    /\ gain = initialGain
    /\ throttlePlatform = minThrottlePlatform
    /\ flightMode = 1500 /\ barometerStatus = 1000 /\ magnetometerStatus = 1000
    /\ pilotArmingStatus = 1000
    /\ buttons = {} /\ missed = {} /\ hat = 0 /\ menu = FALSE
    /\ client = "none"
    /\ held \subseteq Keys

LEMMA StartedTyped == Started => StateTyped
<1>. SUFFICES ASSUME Started PROVE StateTyped
  OBVIOUS
<1>1. rawAxes \in [0 .. 3 -> Raw] /\ rawAxes[0] \in 0 .. 1000
  <2>1. 0 \in Raw
    BY DEF Raw
  <2>. QED BY <2>1 DEF Started
<1>2. /\ gain \in minGain .. maxGain
      /\ throttlePlatform \in minThrottlePlatform .. maxThrottlePlatform
  BY GainAssumption, PlatformAssumption DEF Started
<1>3. menu \in BOOLEAN
  BY DEF Started
<1>. QED BY <1>1, <1>2, <1>3 DEF Started, StateTyped

LEMMA CrashTyped ==
    ASSUME StateTyped, Crash
    PROVE  StateTyped'
<1>1. Started'
  BY DEF Crash, Started, StateTyped, ARM_STATUS_OFF
<1>2. Started' => StateTyped'
  BY StartedTyped, PTL
<1>. QED BY <1>1, <1>2

LEMMA StateNext == StateTyped /\ [Next]_vars => StateTyped'
<1>. SUFFICES ASSUME StateTyped, [Next]_vars PROVE StateTyped'
  OBVIOUS
<1>1. ASSUME NEW e \in Events, processJoystickInput(e)
      PROVE  StateTyped'
  <2>1. CASE Move(e)
    <3>1. UNCHANGED <<flightMode, barometerStatus, magnetometerStatus, buttons, menu, client,
                      held, missed>>
      BY <2>1 DEF Move, switches
    <3>. QED BY <2>1, <3>1, MoveTyped DEF StateTyped
  <2>. QED BY <1>1, <2>1, CrashTyped DEF processJoystickInput
<1>2. ASSUME NEW key \in Keys, onKeyDown(key)
      PROVE  StateTyped'
  <2>1. /\ UNCHANGED <<rawAxes, gain, throttlePlatform, flightMode, magnetometerStatus,
                       pilotArmingStatus, client, hat>>
        /\ held' = held \cup {key} /\ missed' = missed \ {key} /\ menu' \in BOOLEAN
    BY <1>2 DEF onKeyDown, setButtonState, switches
  <2>2. buttons' \subseteq StateKeys
    BY <1>2 DEF onKeyDown, setButtonState, StateTyped
  <2>3. barometerStatus' \in {1000, 1500}
    BY <1>2 DEF onKeyDown, setButtonState, switches, Switch, StateTyped
  <2>. QED BY <2>1, <2>2, <2>3 DEF StateTyped
<1>3. ASSUME NEW key \in Keys, onKeyUp(key)
      PROVE  StateTyped'
  BY <1>3 DEF onKeyUp, switches, StateTyped
<1>4. ASSUME NEW s \in Settings, SetPreference(s[1], s[2])
      PROVE  StateTyped'
  <2>1. UNCHANGED <<rawAxes, gain, throttlePlatform, pilotArmingStatus, buttons, menu, client,
                    held, missed, hat>>
    BY <1>4 DEF SetPreference
  <2>2. barometerStatus' \in {1000, 1500} /\ magnetometerStatus' \in {1000, 1500}
    BY <1>4 DEF SetPreference, Switch, StateTyped
  <2>3. flightMode' \in {1000, 1500, 2000}
    <3>1. CASE s[1] = "flightMode"
      <4>1. s[2] \in {"ACRO", "ANGLE", "HORIZON"}
        BY <3>1, SettingsAssumption DEF FlightModes
      <4>2. FlightModes[s[2]] \in {1000, 1500, 2000}
        BY <4>1 DEF FlightModes
      <4>. QED BY <1>4, <3>1, <4>2 DEF SetPreference
    <3>2. CASE s[1] # "flightMode"
      BY <1>4, <3>2 DEF SetPreference, StateTyped
    <3>. QED BY <3>1, <3>2
  <2>. QED BY <2>1, <2>2, <2>3 DEF StateTyped
<1>5. ASSUME NEW s \in Settings, onSharedPreferenceChanged(s[1], s[2])
      PROVE  StateTyped'
  BY <1>4, <1>5, CrashTyped DEF onSharedPreferenceChanged
<1>6. CASE startConnection
  BY <1>6 DEF startConnection, controls, switches, StateTyped
<1>7. CASE closeConnections
  <2>1. CASE client' = "closed" /\ UNCHANGED controls
    BY <2>1 DEF controls, switches, StateTyped
  <2>. QED BY <1>7, <2>1, CrashTyped DEF closeConnections
<1>8. CASE UNCHANGED vars
  BY <1>8 DEF vars, switches, StateTyped
<1>. QED BY <1>1, <1>2, <1>3, <1>5, <1>6, <1>7, <1>8 DEF Next

LEMMA ControlsNext == ControlsInv /\ [Next]_vars => ControlsInv'
<1>. SUFFICES ASSUME ControlsInv, [Next]_vars PROVE ControlsInv'
  OBVIOUS
<1>1. StateTyped'
  BY StateNext DEF ControlsInv
<1>2. payload' \in {payload, getAxes', NoPayload}
  BY DEF Next, processJoystickInput, onKeyDown, onKeyUp, onSharedPreferenceChanged,
         setUDPPayload, startConnection, closeConnections, Crash, vars
<1>3. CASE payload' = getAxes'
  <2>1. /\ getAxes'.THROTTLE \in minThrottlePlatform .. maxThrottlePlatform + 500
        /\ \A c \in {"ROLL", "PITCH", "YAW", "AUX1", "AUX2", "AUX3", "AUX4"} :
               getAxes'[c] \in 1000 .. 2000
    <3>1. (StateTyped => /\ getAxes.THROTTLE \in minThrottlePlatform .. maxThrottlePlatform + 500
                         /\ \A c \in {"ROLL", "PITCH", "YAW", "AUX1", "AUX2", "AUX3", "AUX4"} :
                                getAxes[c] \in 1000 .. 2000)'
      BY AxesTyped, PTL
    <3>. QED BY <1>1, <3>1
  <2>. QED BY <1>1, <1>3, <2>1 DEF ControlsInv, PayloadTyped
<1>4. CASE payload' \in {payload, NoPayload}
  BY <1>1, <1>4 DEF ControlsInv, PayloadTyped
<1>. QED BY <1>2, <1>3, <1>4

\* Whatever the gain has been doubled or halved to and wherever the platform was, every
\* packet has its channels in their ranges: for all bounds of the gain and the platform.
THEOREM TypeCorrect == Spec => []TypeOK
<1>1. ASSUME Init
      PROVE  ControlsInv
  <2>1. Started
    BY <1>1 DEF Init, Started, ARM_STATUS_OFF
  <2>2. PayloadTyped
    BY <1>1 DEF Init, PayloadTyped
  <2>. QED BY <2>1, <2>2, StartedTyped DEF ControlsInv
<1>2. ControlsInv => TypeOK
  BY DEF ControlsInv, StateTyped, PayloadTyped, TypeOK
<1>. QED BY <1>1, ControlsNext, <1>2, PTL DEF Spec

\* In the chain to the motors the pilot's side is what it is by itself: the link, the
\* server and the controller take no part in it.  What is proved of RemoteControls holds
\* there.
THEOREM FlightIsPilots == FlightSpec => Spec
<1>1. FlightInit => Init
  BY DEF FlightInit
<1>2. [FlightNext]_flightVars => [Next]_vars
  BY DEF FlightNext, PilotActs, Send, Lose, Server, UdpThread, PpmThread, Connect, Arm, ResetChannel, Disarm, HangUp,
         Receive, StoreChannel, BeginFrame, CopyChannel, update, HearFrame, ControlPass, Restart, flightVars,
         remote
<1>. QED BY <1>1, <1>2, PTL DEF FlightSpec, Spec

-----------------------------------------------------------------------------
(* The gesture.                                                              *)

\* Before the gesture the remote sends the switch off, or nothing at all ...
Unasked ==
    /\ pilotArmingStatus = 1000
    /\ payload["AUX4"] \in {0, 1000}

\* ... and whatever the server keeps of that, however the stores of two packets mix,
\* is the switch off or a channel never set.
Passed ==
    /\ \A p \in {datagram, sticks, copied, frame} :
           p = [c \in Channels |-> p[c]] /\ p["AUX4"] \in {0, 1000}

\* The controller takes the switch for set only until it hears of the throttle, which it
\* takes for half open till then: never is the switch set and the throttle low.
Heard ==
    /\ \A c \in Channels : frame[c] # 0
    /\ rcValue = [c \in Channels |-> rcValue[c]]
    /\ rcValue["AUX4"] = 1000 \/ (rcValue["AUX4"] = 1502 /\ rcValue["THROTTLE"] = 1502)
    /\ ~(option /\ low)
    /\ ~motors

\* A frame is begun only while the wire flows, and nothing but a frame stops it.
Flows == toCopy # <<>> => wire # "stuck"

ArmInv ==
    /\ Flows
    /\ "arm" \notin asked => Unasked /\ Passed /\ (wire = "stuck" \/ Heard)

\* What a step of the remote does to the arming and the packet: the packet stays, is made
\* of the state as it is then, or is empty again.
LEMMA PilotPayload ==
    ASSUME Next, pilotArmingStatus = 1000, payload["AUX4"] \in {0, 1000},
           pilotArmingStatus' # 1500
    PROVE  Unasked'
<1>1. ASSUME pilotArmingStatus' = 1000, setUDPPayload
      PROVE  Unasked'
  <2>1. getAxes'["AUX4"] = 1000
    BY <1>1 DEF getAxes
  <2>2. payload'["AUX4"] \in {payload["AUX4"], getAxes'["AUX4"]}
    BY <1>1 DEF setUDPPayload
  <2>. QED BY <1>1, <2>1, <2>2 DEF Unasked
<1>2. ASSUME Crash
      PROVE  Unasked'
  BY <1>2 DEF Crash, NoPayload, ARM_STATUS_OFF, Unasked
<1>3. ASSUME NEW e \in Events, processJoystickInput(e)
      PROVE  Unasked'
  <2>1. ASSUME Move(e)
        PROVE  pilotArmingStatus' = 1000
    BY <2>1, pilotArmingStatus = 1000, pilotArmingStatus' # 1500
       DEF Move, Gesture, ARM_STATUS_OFF, ARM_STATUS_ON
  <2>. QED BY <1>1, <1>2, <1>3, <2>1 DEF processJoystickInput
<1>4. ASSUME NEW key \in Keys, onKeyDown(key) \/ onKeyUp(key)
      PROVE  Unasked'
  BY <1>4 DEF onKeyDown, onKeyUp, Unasked
<1>5. ASSUME NEW s \in Settings, onSharedPreferenceChanged(s[1], s[2])
      PROVE  Unasked'
  <2>1. CASE Crash
    BY <1>2, <2>1
  <2>2. CASE SetPreference(s[1], s[2]) /\ setUDPPayload
    <3>1. pilotArmingStatus' = 1000
      BY <2>2, pilotArmingStatus = 1000 DEF SetPreference
    <3>. QED BY <1>1, <2>2, <3>1
  <2>. QED BY <1>5, <2>1, <2>2 DEF onSharedPreferenceChanged
<1>6. ASSUME startConnection
      PROVE  Unasked'
  BY <1>6 DEF startConnection, controls, NoPayload, Unasked
<1>7. ASSUME closeConnections
      PROVE  Unasked'
  BY <1>2, <1>7 DEF closeConnections, controls, Unasked
<1>. QED BY <1>3, <1>4, <1>5, <1>6, <1>7 DEF Next

\* A store of any channel, the switch's with a value the remote has sent.
LEMMA StoredAux4 ==
    ASSUME NEW p, p = [c \in Channels |-> p[c]], p["AUX4"] \in {0, 1000},
           NEW k, NEW v, k = "AUX4" => v \in {0, 1000}
    PROVE  LET q == [p EXCEPT ![k] = v]
           IN  q = [c \in Channels |-> q[c]] /\ q["AUX4"] \in {0, 1000}
  BY DEF Channels

LEMMA ArmInit == FlightInit => ArmInv
<1>1. FlightInit => Unasked
  BY DEF FlightInit, Init, NoPayload, ARM_STATUS_OFF, Unasked
<1>2. FlightInit => Passed
  BY DEF FlightInit, Passed, NoDatagram, Packet, Channels
<1>3. ASSUME FlightInit
      PROVE  Heard
  <2>1. /\ frame["THROTTLE"] = 1000 /\ frame["AUX4"] = 1000
        /\ rcValue = [c \in Channels |-> rcValue[c]]
        /\ rcValue["AUX4"] = 1502 /\ rcValue["THROTTLE"] = 1502
    BY <1>3 DEF FlightInit, Packet, Channels
  <2>2. option = FALSE /\ low = FALSE /\ motors = FALSE
    BY <1>3 DEF FlightInit
  <2>4. ~motors /\ ~(option /\ low)
    BY <2>2
  <2>3. \A c \in Channels : frame[c] # 0
    BY <2>1 DEF Channels
  <2>. QED BY <2>1, <2>3, <2>4 DEF Heard
<1>4. FlightInit => Flows
  BY DEF FlightInit, Flows
<1>. QED BY <1>1, <1>2, <1>3, <1>4 DEF ArmInv

LEMMA FlowsNext == Flows /\ [FlightNext]_flightVars => Flows'
  BY DEF Flows, FlightNext, PilotActs, Send, Lose, Server, UdpThread, PpmThread, Connect, Arm,
         ResetChannel, Disarm, HangUp, Receive, StoreChannel, BeginFrame, CopyChannel, update,
         HearFrame, ControlPass, Restart, flightVars, ppm, radio

\* Every step but those of the remote and a few keeps what its frame condition says.
LEMMA ArmNext == ArmInv /\ [FlightNext]_flightVars => ArmInv'
<1>. SUFFICES ASSUME ArmInv, [FlightNext]_flightVars, "arm" \notin asked'
              PROVE  Unasked' /\ Passed' /\ (wire' = "stuck" \/ Heard')
  BY FlowsNext DEF ArmInv
<1>. USE DEF flightVars, remote, vars, switches, drone, ppm, radio, controller
<1>0. "arm" \notin asked
  BY DEF FlightNext, PilotActs, Send, Lose, Server, UdpThread, PpmThread, Connect, Arm, ResetChannel, Disarm, HangUp,
         Receive, StoreChannel, BeginFrame, CopyChannel, update, HearFrame, ControlPass, Restart
<1>. USE <1>0
<1>a. Unasked /\ Passed /\ (wire = "stuck" \/ Heard)
  BY DEF ArmInv
<1>1. CASE PilotActs
  <2>1. Unasked'
    BY <1>1, <1>a, PilotPayload DEF PilotActs, Unasked, ARM_STATUS_ON
  <2>2. Passed' /\ (wire' = "stuck" \/ Heard')
    BY <1>1, <1>a DEF PilotActs, Passed, Heard
  <2>. QED BY <2>1, <2>2
<1>2. CASE Send
  <2>1. datagram' = [c \in Channels |-> payload[c]]
    BY <1>2 DEF Send, Sent
  <2>2. datagram' = [c \in Channels |-> datagram'[c]] /\ datagram'["AUX4"] \in {0, 1000}
    BY <2>1, <1>a DEF Unasked, Channels
  <2>3. Passed'
    BY <1>2, <2>2, <1>a DEF Send, Passed
  <2>. QED BY <1>2, <1>a, <2>3 DEF Send, Unasked, Heard
<1>3. CASE Lose
  <2>1. datagram' = [c \in Channels |-> datagram'[c]] /\ datagram'["AUX4"] \in {0, 1000}
    BY <1>3 DEF Lose, NoDatagram, Packet, Channels
  <2>2. Passed'
    BY <1>3, <2>1, <1>a DEF Lose, Passed
  <2>. QED BY <1>3, <1>a, <2>2 DEF Lose, Unasked, Heard
<1>5. CASE Connect \/ Arm \/ Disarm \/ HangUp \/ BeginFrame
  <2>1. UNCHANGED <<remote, datagram, sticks, copied, radio, controller>>
    BY <1>5 DEF Connect, Arm, Disarm, HangUp, BeginFrame
  <2>2. Unasked' /\ Passed'
    BY <2>1, <1>a DEF Unasked, Passed
  <2>3. wire' = "stuck" \/ Heard'
    BY <2>1, <1>a DEF Heard
  <2>. QED BY <2>2, <2>3
<1>6. CASE ResetChannel
  <2>1. sticks' = [c \in Channels |-> sticks'[c]] /\ sticks'["AUX4"] \in {0, 1000}
    <3>1. sticks' = [sticks EXCEPT ![Head(toReset)] = 1000]
      BY <1>6 DEF ResetChannel, Neutral
    <3>2. sticks = [c \in Channels |-> sticks[c]] /\ sticks["AUX4"] \in {0, 1000}
      BY <1>a DEF Passed
    <3>. QED BY <3>1, <3>2, StoredAux4
  <2>2. Passed'
    BY <1>6, <2>1, <1>a DEF ResetChannel, Passed
  <2>. QED BY <1>6, <1>a, <2>2 DEF ResetChannel, Unasked, Heard
<1>7. CASE Receive
  <2>1. datagram' = datagram \/ datagram' = NoDatagram
    BY <1>7 DEF Receive
  <2>2. datagram' = [c \in Channels |-> datagram'[c]] /\ datagram'["AUX4"] \in {0, 1000}
    BY <2>1, <1>a DEF NoDatagram, Packet, Channels, Passed
  <2>3. Passed'
    BY <1>7, <2>2, <1>a DEF Receive, Passed
  <2>. QED BY <1>7, <1>a, <2>3 DEF Receive, Unasked, Heard
<1>8. CASE StoreChannel
  <2>1. datagram' = datagram \/ datagram' = NoDatagram
    BY <1>8 DEF StoreChannel
  <2>2. datagram' = [c \in Channels |-> datagram'[c]] /\ datagram'["AUX4"] \in {0, 1000}
    BY <2>1, <1>a DEF NoDatagram, Packet, Channels, Passed
  <2>3. sticks' = [c \in Channels |-> sticks'[c]] /\ sticks'["AUX4"] \in {0, 1000}
    <3>1. sticks' = [sticks EXCEPT ![Head(toStore)] = datagram[Head(toStore)]]
      BY <1>8 DEF StoreChannel
    <3>2. /\ sticks = [c \in Channels |-> sticks[c]]
          /\ sticks["AUX4"] \in {0, 1000} /\ datagram["AUX4"] \in {0, 1000}
      BY <1>a DEF Passed
    <3>3. Head(toStore) = "AUX4" => datagram[Head(toStore)] \in {0, 1000}
      BY <3>2
    <3>. QED BY <3>1, <3>2, <3>3, StoredAux4
  <2>4. Passed'
    BY <1>8, <2>2, <2>3, <1>a DEF StoreChannel, Passed
  <2>. QED BY <1>8, <1>a, <2>4 DEF StoreChannel, Unasked, Heard
<1>4. CASE CopyChannel
  <2>1. copied' = [copied EXCEPT ![Head(toCopy)] = sticks[Head(toCopy)]]
    BY <1>4 DEF CopyChannel
  <2>2. /\ copied = [c \in Channels |-> copied[c]]
        /\ copied["AUX4"] \in {0, 1000} /\ sticks["AUX4"] \in {0, 1000}
    BY <1>a DEF Passed
  <2>3. Head(toCopy) = "AUX4" => sticks[Head(toCopy)] \in {0, 1000}
    BY <2>2
  <2>4. copied' = [c \in Channels |-> copied'[c]] /\ copied'["AUX4"] \in {0, 1000}
    BY <2>1, <2>2, <2>3, StoredAux4
  <2>5. Passed'
    BY <1>4, <2>4, <1>a DEF CopyChannel, Passed
  <2>. QED BY <1>4, <1>a, <2>5 DEF CopyChannel, Unasked, Heard
<1>9. CASE update
  <2>1. frame' \in {frame, copied}
    BY <1>9 DEF update
  <2>2. copied' = [c \in Channels |-> copied'[c]] /\ copied'["AUX4"] \in {0, 1000}
    BY <1>9 DEF update, NoDatagram, Packet, Channels
  <2>3. Passed'
    BY <1>9, <2>1, <2>2, <1>a DEF update, Passed
  <2>4. Heard
    BY <1>9, <1>a DEF update, ArmInv, Flows
  <2>5. wire' = "stuck" \/ \A c \in Channels : frame'[c] # 0
    BY <1>9, <2>4 DEF update, Heard
  <2>. QED BY <1>9, <1>a, <2>3, <2>4, <2>5 DEF update, Unasked, Heard
<1>10. CASE HearFrame
  <2>1. ASSUME wire # "stuck"
        PROVE  rcValue' = [c \in Channels |-> rcValue'[c]] /\ rcValue'["AUX4"] = 1000
    <3>1. frame["AUX4"] = 1000 /\ frame["THROTTLE"] # 0
      BY <2>1, <1>a DEF Heard, Passed, Channels
    <3>2. Measured("AUX4")
      BY <3>1 DEF Measured
    <3>. QED BY <1>10, <3>1, <3>2 DEF HearFrame, Channels
  <2>2. wire' = "stuck" \/ Heard'
    BY <1>10, <2>1, <1>a DEF HearFrame, Heard
  <2>. QED BY <1>10, <1>a, <2>2 DEF HearFrame, Unasked, Passed
<1>11. CASE ControlPass
  <2>1. ASSUME wire # "stuck"
        PROVE  ~motors' /\ ~(option' /\ low')
    <3>1. ~motors'
      BY <1>11, <2>1, <1>a DEF ControlPass, ArmBox, Heard
    <3>2. option' = (1300 < rcValue["AUX4"] /\ rcValue["AUX4"] < 1700)
          /\ low' = (rcValue["THROTTLE"] <= 1100)
      BY <1>11 DEF ControlPass, MINCHECK
    <3>3. rcValue["AUX4"] = 1000 \/ (rcValue["AUX4"] = 1502 /\ rcValue["THROTTLE"] = 1502)
      BY <2>1, <1>a DEF Heard
    <3>5. ~(1300 < rcValue["AUX4"] /\ rcValue["AUX4"] < 1700 /\ rcValue["THROTTLE"] <= 1100)
      BY <3>3
    <3>4. option' => 1300 < rcValue["AUX4"] /\ rcValue["AUX4"] < 1700
      BY <3>2
    <3>6. low' => rcValue["THROTTLE"] <= 1100
      BY <3>2
    <3>7. ~(option' /\ low')
      BY <3>4, <3>6, <3>5
    <3>. QED BY <3>1, <3>7
  <2>2. UNCHANGED <<remote, datagram, sticks, copied, radio, rcValue>>
    BY <1>11 DEF ControlPass
  <2>3. Unasked' /\ Passed'
    BY <2>2, <1>a DEF Unasked, Passed
  <2>4. wire' = "stuck" \/ Heard'
    BY <2>1, <2>2, <1>a DEF Heard
  <2>. QED BY <2>3, <2>4
<1>12. CASE Restart
  BY <1>12, <1>a DEF Restart, Unasked, Passed, Heard, Packet, Channels
<1>13. CASE UNCHANGED flightVars
  BY <1>13, <1>a DEF Unasked, Passed, Heard
<1>. QED BY <1>1, <1>2, <1>3, <1>4, <1>5, <1>6, <1>7, <1>8, <1>9, <1>10, <1>11, <1>12, <1>13
         DEF FlightNext, Server, UdpThread, PpmThread

\* No race of the server's threads, no lost or late packet and no restart of the
\* controller starts the motors before the pilot has asked for it.
THEOREM PilotStartsMotors == FlightSpec => []MotorsOnlyByPilot
<1>1. ArmInv => MotorsOnlyByPilot
  BY DEF ArmInv, Heard, MotorsOnlyByPilot
<1>. QED BY ArmInit, ArmNext, <1>1, PTL DEF FlightSpec

-----------------------------------------------------------------------------
(* The throttle.                                                           *)

\* The parts of the packet's throttle.
Widths ==
    /\ rawAxes[0] \in Int /\ gain \in Int /\ throttlePlatform \in Int
    /\ payload["THROTTLE"] \in Int

\* Before the pilot has lifted it, what the remote sends is low, and what the server
\* keeps of that is low or never set ...
Low(p) == p = [c \in Channels |-> p[c]] /\ p["THROTTLE"] \in Int /\ p["THROTTLE"] <= 1100

\* ... and what the controller goes by is that, once the motors run: they start when it
\* takes the throttle for low, and it never takes it for anything but a frame's then.
LowHeard ==
    /\ rcValue = [c \in Channels |-> rcValue[c]]
    /\ rcValue["THROTTLE"] \in Int
    /\ motors => rcValue["THROTTLE"] <= 1100

LiftInv ==
    /\ Widths
    /\ "lift" \notin asked =>
         /\ payload["THROTTLE"] <= 1100
         /\ \A p \in {datagram, sticks, copied, frame} : Low(p)
         /\ LowHeard

LEMMA ClampInt ==
    ASSUME NEW n \in Int, NEW l \in Int, NEW h \in Int
    PROVE  Clamp(n, l, h) \in Int
  BY DEF Clamp

\* The packet a step of the remote leaves is a number, of the parts it is made of.
LEMMA PilotWidths ==
    ASSUME Next, Widths
    PROVE  /\ Widths'
           /\ payload'["THROTTLE"] \in {payload["THROTTLE"], getAxes'.THROTTLE, 0}
           /\ getAxes'.THROTTLE \in Int
<1>. DEFINE Made == payload'["THROTTLE"] \in {payload["THROTTLE"], getAxes'.THROTTLE, 0}
<1>0. ASSUME rawAxes'[0] \in Int, throttlePlatform' \in Int
      PROVE  getAxes'.THROTTLE \in Int
  BY <1>0 DEF getAxes
<1>1. ASSUME NEW e \in Events, Move(e)
      PROVE  rawAxes'[0] \in Int /\ gain' \in Int /\ throttlePlatform' \in Int
  <2>. USE DEF Move
  <2>1. rawAxes'[0] \in Int
    BY <1>1, EventsAssumption
  <2>2. gain' \in Int
    <3>1. gain' \in {setGain(gain * 2), setGain(gain \div 2), gain}
      BY <1>1
    <3>2. /\ gain * 2 \in Int /\ gain \div 2 \in Int
          /\ minGain \in Int /\ maxGain \in Int
      BY GainAssumption DEF Widths
    <3>3. setGain(gain * 2) \in Int /\ setGain(gain \div 2) \in Int
      BY <3>2, ClampInt DEF setGain
    <3>. QED BY <3>1, <3>3 DEF Widths
  <2>3. throttlePlatform' \in Int
    <3>1. throttlePlatform' \in {setThrottlePlatform(throttlePlatform - gain'),
                                 setThrottlePlatform(throttlePlatform + gain'),
                                 throttlePlatform}
      BY <1>1
    <3>2. /\ throttlePlatform - gain' \in Int /\ throttlePlatform + gain' \in Int
          /\ minThrottlePlatform \in Int /\ maxThrottlePlatform \in Int
      BY <2>2, PlatformAssumption DEF Widths
    <3>3. /\ setThrottlePlatform(throttlePlatform - gain') \in Int
          /\ setThrottlePlatform(throttlePlatform + gain') \in Int
      BY <3>2, ClampInt DEF setThrottlePlatform
    <3>. QED BY <3>1, <3>3 DEF Widths
  <2>. QED BY <2>1, <2>2, <2>3
<1>7. ASSUME setUDPPayload
      PROVE  Made
  BY <1>7 DEF setUDPPayload
<1>8. ASSUME Crash
      PROVE  rawAxes'[0] \in Int /\ gain' \in Int /\ throttlePlatform' \in Int /\ Made
  BY <1>8, GainAssumption, PlatformAssumption DEF Crash, NoPayload
<1>9. ASSUME NEW e \in Events, processJoystickInput(e)
      PROVE  rawAxes'[0] \in Int /\ gain' \in Int /\ throttlePlatform' \in Int /\ Made
  BY <1>1, <1>7, <1>8, <1>9 DEF processJoystickInput
<1>2. ASSUME NEW key \in Keys, onKeyDown(key) \/ onKeyUp(key)
      PROVE  rawAxes'[0] \in Int /\ gain' \in Int /\ throttlePlatform' \in Int /\ Made
  BY <1>2 DEF onKeyDown, onKeyUp, Widths
<1>3. ASSUME NEW s \in Settings, onSharedPreferenceChanged(s[1], s[2])
      PROVE  rawAxes'[0] \in Int /\ gain' \in Int /\ throttlePlatform' \in Int /\ Made
  BY <1>3, <1>7, <1>8 DEF onSharedPreferenceChanged, SetPreference, Widths
<1>4. ASSUME startConnection \/ closeConnections
      PROVE  rawAxes'[0] \in Int /\ gain' \in Int /\ throttlePlatform' \in Int /\ Made
  BY <1>4, <1>8 DEF startConnection, closeConnections, controls, NoPayload, Widths
<1>5. rawAxes'[0] \in Int /\ gain' \in Int /\ throttlePlatform' \in Int /\ Made
  BY <1>9, <1>2, <1>3, <1>4 DEF Next
<1>6. payload'["THROTTLE"] \in Int
  BY <1>5, <1>0 DEF Widths
<1>. QED BY <1>5, <1>0, <1>6 DEF Widths

\* A store of any channel, the throttle's with a low one.
LEMMA StoredThrottle ==
    ASSUME NEW p, Low(p), NEW k, NEW v,
           k = "THROTTLE" => v \in Int /\ v <= 1100
    PROVE  Low([p EXCEPT ![k] = v])
  BY DEF Channels, Low

LEMMA NothingLow == Low(NoDatagram)
  BY DEF Low, NoDatagram, Packet, Channels

LEMMA LiftInit == FlightInit => LiftInv
<1>. SUFFICES ASSUME FlightInit PROVE LiftInv
  OBVIOUS
<1>1. Widths
  BY GainAssumption, PlatformAssumption DEF FlightInit, Init, NoPayload, Widths
<1>2. payload["THROTTLE"] <= 1100
  BY DEF FlightInit, Init, NoPayload
<1>3. \A p \in {datagram, sticks, copied, frame} : Low(p)
  BY DEF FlightInit, Low, NoDatagram, Packet, Channels
<1>4. rcValue = [c \in Channels |-> rcValue[c]] /\ rcValue["THROTTLE"] = 1502
  BY DEF FlightInit, Packet, Channels
<1>5. ~motors
  BY DEF FlightInit
<1>. QED BY <1>1, <1>2, <1>3, <1>4, <1>5 DEF LiftInv, LowHeard

LEMMA WidthsNext == Widths /\ [FlightNext]_flightVars => Widths'
<1>. SUFFICES ASSUME Widths, [FlightNext]_flightVars PROVE Widths'
  OBVIOUS
<1>1. CASE PilotActs
  BY <1>1, PilotWidths DEF PilotActs
<1>2. CASE UNCHANGED remote
  BY <1>2 DEF remote, vars, Widths
<1>3. [FlightNext]_flightVars => PilotActs \/ UNCHANGED remote
  BY DEF FlightNext, Send, Lose, Server, UdpThread, PpmThread, Connect, Arm, ResetChannel,
         Disarm, HangUp, Receive, StoreChannel, BeginFrame, CopyChannel, update, HearFrame,
         ControlPass, Restart, flightVars
<1>. QED BY <1>1, <1>2, <1>3

LEMMA LiftNext == LiftInv /\ [FlightNext]_flightVars => LiftInv'
<1>. SUFFICES ASSUME LiftInv, [FlightNext]_flightVars, "lift" \notin asked'
              PROVE  /\ payload'["THROTTLE"] <= 1100
                     /\ Low(datagram') /\ Low(sticks') /\ Low(copied') /\ Low(frame')
                     /\ LowHeard'
  BY WidthsNext DEF LiftInv, Low
<1>. USE DEF flightVars, remote, vars, switches, drone, ppm, radio, controller
<1>0. "lift" \notin asked
  BY DEF FlightNext, PilotActs, Send, Lose, Server, UdpThread, PpmThread, Connect, Arm, ResetChannel, Disarm, HangUp,
         Receive, StoreChannel, BeginFrame, CopyChannel, update, HearFrame, ControlPass, Restart
<1>a. /\ payload["THROTTLE"] \in Int /\ payload["THROTTLE"] <= 1100
      /\ Low(datagram) /\ Low(sticks) /\ Low(copied) /\ Low(frame)
      /\ LowHeard
  BY <1>0 DEF LiftInv, Widths
<1>1. CASE PilotActs
  <2>1. ~(getAxes'.THROTTLE > minThrottlePlatform)
    BY <1>1 DEF PilotActs
  <2>2. /\ getAxes'.THROTTLE \in Int
        /\ payload'["THROTTLE"] \in {payload["THROTTLE"], getAxes'.THROTTLE, 0}
    BY <1>1, PilotWidths DEF PilotActs, LiftInv
  <2>3. payload'["THROTTLE"] <= 1100
    <3>1. minThrottlePlatform \in Int /\ minThrottlePlatform <= 1100
      BY PilotAssumption, PlatformAssumption DEF MINCHECK
    <3>2. getAxes'.THROTTLE <= 1100
      BY <2>1, <2>2, <3>1
    <3>. QED BY <2>2, <3>2, <1>a
  <2>4. UNCHANGED <<datagram, sticks, copied, frame, rcValue, motors>>
    BY <1>1 DEF PilotActs
  <2>. QED BY <2>3, <2>4, <1>a DEF LowHeard
<1>2. CASE Send
  <2>1. datagram' = [c \in Channels |-> payload[c]]
    BY <1>2 DEF Send, Sent
  <2>2. Low(datagram')
    BY <2>1, <1>a DEF Low, Channels
  <2>. QED BY <1>2, <2>2, <1>a DEF Send, LowHeard
<1>3. CASE Lose
  <2>1. datagram' = NoDatagram
    BY <1>3 DEF Lose
  <2>2. Low(datagram')
    BY <2>1, NothingLow
  <2>. QED BY <1>3, <2>2, <1>a DEF Lose, LowHeard
<1>5. CASE Connect \/ Arm \/ Disarm \/ HangUp \/ BeginFrame
  <2>1. UNCHANGED <<payload, datagram, sticks, copied, frame, rcValue, motors>>
    BY <1>5 DEF Connect, Arm, Disarm, HangUp, BeginFrame
  <2>. QED BY <2>1, <1>a DEF LowHeard
<1>6. CASE ResetChannel
  <2>1. sticks' = [sticks EXCEPT ![Head(toReset)] = 1000]
    BY <1>6 DEF ResetChannel, Neutral
  <2>2. Low(sticks')
    <3>1. 1000 \in Int /\ 1000 <= 1100
      OBVIOUS
    <3>2. Low([sticks EXCEPT ![Head(toReset)] = 1000])
      BY <3>1, <1>a, StoredThrottle
    <3>. QED BY <2>1, <3>2
  <2>. QED BY <1>6, <2>2, <1>a DEF ResetChannel, LowHeard
<1>7. CASE Receive
  <2>1. datagram' = datagram \/ datagram' = NoDatagram
    BY <1>7 DEF Receive
  <2>2. Low(datagram')
    BY <2>1, <1>a, NothingLow
  <2>. QED BY <1>7, <2>2, <1>a DEF Receive, LowHeard
<1>8. CASE StoreChannel
  <2>1. datagram' = datagram \/ datagram' = NoDatagram
    BY <1>8 DEF StoreChannel
  <2>2. Low(datagram')
    BY <2>1, <1>a, NothingLow
  <2>3. sticks' = [sticks EXCEPT ![Head(toStore)] = datagram[Head(toStore)]]
    BY <1>8 DEF StoreChannel
  <2>4. datagram["THROTTLE"] \in Int /\ datagram["THROTTLE"] <= 1100
    BY <1>a DEF Low
  <2>5. Low(sticks')
    BY <2>3, <2>4, <1>a, StoredThrottle
  <2>. QED BY <1>8, <2>2, <2>5, <1>a DEF StoreChannel, LowHeard
<1>4. CASE CopyChannel
  <2>1. copied' = [copied EXCEPT ![Head(toCopy)] = sticks[Head(toCopy)]]
    BY <1>4 DEF CopyChannel
  <2>2. sticks["THROTTLE"] \in Int /\ sticks["THROTTLE"] <= 1100
    BY <1>a DEF Low
  <2>3. Low(copied')
    BY <2>1, <2>2, <1>a, StoredThrottle
  <2>. QED BY <1>4, <2>3, <1>a DEF CopyChannel, LowHeard
<1>9. CASE update
  <2>1. frame' \in {frame, copied} /\ copied' = NoDatagram
    BY <1>9 DEF update
  <2>2. Low(copied')
    BY <2>1, NothingLow
  <2>. QED BY <1>9, <2>1, <2>2, <1>a DEF update, LowHeard
<1>10. CASE HearFrame
  <2>1. /\ rcValue' = [c \in Channels |-> rcValue'[c]]
        /\ rcValue'["THROTTLE"] \in {frame["THROTTLE"], rcValue["THROTTLE"]}
    BY <1>10 DEF HearFrame, Channels
  <2>2. UNCHANGED <<payload, datagram, sticks, copied, frame, motors>>
    BY <1>10 DEF HearFrame
  <2>3. LowHeard'
    BY <2>1, <2>2, <1>a DEF LowHeard, Low
  <2>. QED BY <2>2, <2>3, <1>a
<1>11. CASE ControlPass
  <2>1. UNCHANGED <<payload, datagram, sticks, copied, frame, rcValue>>
    BY <1>11 DEF ControlPass
  <2>2. motors' => motors \/ ~(rcValue["THROTTLE"] > 1100)
    BY <1>11 DEF ControlPass, ArmBox, MINCHECK
  <2>3. motors' => rcValue["THROTTLE"] <= 1100
    BY <2>2, <1>a DEF LowHeard
  <2>. QED BY <2>1, <2>3, <1>a DEF LowHeard
<1>12. CASE Restart
  <2>1. UNCHANGED <<payload, datagram, sticks, copied, frame>>
    BY <1>12 DEF Restart
  <2>2. rcValue' = [c \in Channels |-> rcValue'[c]] /\ rcValue'["THROTTLE"] = 1502
    BY <1>12 DEF Restart, Packet, Channels
  <2>3. ~motors'
    BY <1>12 DEF Restart
  <2>. QED BY <2>1, <2>2, <2>3, <1>a DEF LowHeard
<1>13. CASE UNCHANGED flightVars
  BY <1>13, <1>a DEF LowHeard
<1>. QED BY <1>1, <1>2, <1>3, <1>4, <1>5, <1>6, <1>7, <1>8, <1>9, <1>10, <1>11, <1>12, <1>13
         DEF FlightNext, Server, UdpThread, PpmThread

\* With the motors on, the controller never has a throttle above the lowest that no pilot
\* has asked for.
THEOREM PilotLifts == FlightSpec => []ThrottleByPilot
<1>1. LiftInv => ThrottleByPilot
  BY DEF LiftInv, LowHeard, ThrottleByPilot, MINCHECK
<1>. QED BY LiftInit, LiftNext, <1>1, PTL DEF FlightSpec
=============================================================================
