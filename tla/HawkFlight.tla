----------------------------- MODULE HawkFlight -----------------------------
(***************************************************************************)
(* From the pilot's hands to the motors: RemoteControls, the datagrams,    *)
(* the server's state, the frame that pigpio repeats on the wire, and the  *)
(* arming of the flight controller.  The server's threads are taken apart  *)
(* in DroneServer, the wire in PpmReceiver and the controller's loop in    *)
(* FlightController; here each is as little as the chain needs.  Two       *)
(* channels are followed, the throttle and AUX4, which has the arm box.    *)
(*                                                                         *)
(* Arming is a matter of three parties, each with a flag of its own: the   *)
(* pilot's gesture (AUX4), the server's ARMED (whether it passes on what   *)
(* the pilot does), and the controller's ARMED (whether motors turn).      *)
(***************************************************************************)
EXTENDS RemoteControls, Sequences

MINCHECK == 1100

\* The two programs' word for a low throttle: the remote's lowest platform is low to the
\* controller.
ASSUME PilotAssumption == minThrottlePlatform <= MINCHECK

VARIABLES
    \* the remote: the variables of RemoteControls
    \* the link: the datagram under way, or NoDatagram
    datagram,
    \* the server
    connected, server,      \* server: drone_state.ARMED
    sticks,                 \* drone_state's channels
    toReset, toStore,       \* the stores the TCP and the UDP thread have still to do
    toCopy,                 \* what the PPM thread has still to do of a frame it has begun
    copied,                 \* the channels of that frame
    \* the wire
    frame, wire,            \* the frame repeated; "silent", "repeats" or "stuck"
    \* the flight controller
    rcValue, option, low,   \* what it goes by, and rcOptions[BOXARM] and whether the
                            \* throttle was low in the last pass
    motors,                 \* its ARMED
    \* history: what the pilot has ever asked for, of "arm" and "lift"
    asked

remote == vars
ppm == <<toCopy, copied>>
drone == <<connected, server, sticks, toReset, toStore>>
radio == <<frame, wire>>
controller == <<rcValue, option, low, motors>>
flightVars == <<remote, datagram, drone, ppm, radio, controller, asked>>

Channels == {"THROTTLE", "AUX4"}
Packet(throttle, aux4) == [c \in Channels |-> IF c = "THROTTLE" THEN throttle ELSE aux4]
NoDatagram == Packet(0, 0)

\* What a datagram with the packet that is sent says of the two channels.
Sent == [c \in Channels |-> payload[c]]

FlightTypeOK ==
    /\ TypeOK
    /\ {connected, server, option, low, motors} \subseteq BOOLEAN
    /\ \A p \in {datagram, sticks, copied, frame} : \A c \in Channels : p[c] \in 0 .. 65535
    /\ \A c \in Channels : rcValue[c] \in 901 .. 2199
    /\ {toReset, toStore} \subseteq {<<>>, <<"AUX4">>, <<"THROTTLE", "AUX4">>}
    /\ toCopy \in {<<>>, <<"update">>, <<"AUX4", "update">>, <<"THROTTLE", "AUX4", "update">>}
    /\ wire \in {"silent", "repeats", "stuck"}
    /\ asked \subseteq {"arm", "lift"}

FlightInit ==
    /\ Init
    /\ datagram = NoDatagram
    /\ connected = FALSE /\ server = FALSE /\ sticks = Packet(0, 0)
    /\ toReset = <<>> /\ toStore = <<>>
    /\ toCopy = <<>> /\ copied = NoDatagram
    /\ frame = Packet(1000, 1000) /\ wire = "silent"
    /\ rcValue = Packet(1502, 1502) /\ option = FALSE /\ low = FALSE /\ motors = FALSE
    /\ asked = {}

-----------------------------------------------------------------------------
(* The remote and the link.                                                *)

PilotActs ==
    /\ Next
    /\ asked' = asked \cup (IF pilotArmingStatus' = ARM_STATUS_ON THEN {"arm"} ELSE {})
                      \cup (IF getAxes'.THROTTLE > minThrottlePlatform THEN {"lift"} ELSE {})
    /\ UNCHANGED <<datagram, drone, ppm, radio, controller>>

\* The UDPClient that has the port sends its packet every five milliseconds; one is under
\* way at a time.
Send ==
    /\ client \in {"bound", "lost"}
    /\ datagram = NoDatagram /\ toStore = <<>>
    /\ datagram' = Sent
    /\ UNCHANGED <<remote, drone, ppm, radio, controller, asked>>

Lose ==
    /\ datagram # NoDatagram /\ toStore = <<>>
    /\ datagram' = NoDatagram
    /\ UNCHANGED <<remote, drone, ppm, radio, controller, asked>>

-----------------------------------------------------------------------------
(* The server.                                                             *)

\* main accepts the TCP side of some startConnection.
Connect ==
    /\ ~connected /\ client # "none"
    /\ connected' = TRUE
    /\ UNCHANGED <<remote, datagram, server, sticks, toReset, toStore, ppm, radio,
                   controller, asked>>

\* state_init sets ARMED, then the channels.
Arm ==
    /\ connected /\ ~server /\ toReset = <<>>
    /\ server' = TRUE
    /\ toReset' = <<"THROTTLE", "AUX4">>
    /\ UNCHANGED <<remote, datagram, connected, sticks, toStore, ppm, radio,
                   controller, asked>>

\* Mutation: the switches are centred like the sticks.
Neutral_Centred(c) == IF c = "THROTTLE" THEN 1000 ELSE 1500

Neutral(c) == 1000

ResetChannel ==
    /\ toReset # <<>>
    /\ sticks' = [sticks EXCEPT ![Head(toReset)] = Neutral(Head(toReset))]
    /\ toReset' = Tail(toReset)
    /\ UNCHANGED <<remote, datagram, connected, server, toStore, ppm, radio,
                   controller, asked>>

\* A DARM, or the end of the TCP thread.
Disarm ==
    /\ server /\ toReset = <<>>
    /\ server' = FALSE
    /\ UNCHANGED <<remote, datagram, connected, sticks, toReset, toStore, ppm, radio,
                   controller, asked>>

\* The client is gone, and the threads have ended.
HangUp ==
    /\ connected /\ ~server /\ toReset = <<>> /\ toStore = <<>> /\ toCopy = <<>>
    /\ connected' = FALSE
    /\ UNCHANGED <<remote, datagram, server, sticks, toReset, toStore, ppm, radio,
                   controller, asked>>

\* action_update_axes: the state is asked once, and the channels are stored after that.
Accepts == server /\ datagram # NoDatagram

Receive ==
    /\ connected /\ toStore = <<>> /\ datagram # NoDatagram
    /\ IF Accepts THEN toStore' = <<"THROTTLE", "AUX4">> /\ UNCHANGED datagram
                  ELSE datagram' = NoDatagram /\ UNCHANGED toStore
    /\ UNCHANGED <<remote, connected, server, sticks, toReset, ppm, radio,
                   controller, asked>>

StoreChannel ==
    /\ toStore # <<>>
    /\ sticks' = [sticks EXCEPT ![Head(toStore)] = datagram[Head(toStore)]]
    /\ toStore' = Tail(toStore)
    /\ datagram' = IF toStore' = <<>> THEN NoDatagram ELSE datagram
    /\ UNCHANGED <<remote, connected, server, toReset, ppm, radio,
                   controller, asked>>

\* update_channels asks for the state once, then copies the channels as they are by then,
\* one after the other, and sends them.  (Once the wire is stuck, nothing more comes
\* through.)
BeginFrame ==
    /\ toCopy = <<>> /\ server /\ wire # "stuck"
    /\ toCopy' = <<"THROTTLE", "AUX4", "update">>
    /\ UNCHANGED <<remote, datagram, drone, copied, radio, controller, asked>>

CopyChannel ==
    /\ toCopy # <<>> /\ Head(toCopy) \in Channels
    /\ copied' = [copied EXCEPT ![Head(toCopy)] = sticks[Head(toCopy)]]
    /\ toCopy' = Tail(toCopy)
    /\ UNCHANGED <<remote, datagram, drone, radio, controller, asked>>

\* pigpio repeats the frame.  A channel that was never set is a width below GAP, and an hour
\* of silence in the middle of the frame, unless pigpio refuses it.
update ==
    /\ toCopy = <<"update">>
    /\ \/ /\ \A c \in Channels : copied[c] # 0
          /\ frame' = copied /\ wire' = "repeats"
       \/ /\ \E c \in Channels : copied[c] = 0
          /\ \/ frame' = copied /\ wire' = "stuck"
             \/ UNCHANGED radio
    /\ toCopy' = <<>> /\ copied' = NoDatagram
    /\ UNCHANGED <<remote, datagram, drone, controller, asked>>

-----------------------------------------------------------------------------
(* The flight controller.                                                  *)

\* The widths of a frame that are measured and may be a stick's, in the frame's order.
Measured(c) == 900 < frame[c] /\ frame[c] < 2200 /\ (c = "AUX4" => frame["THROTTLE"] # 0)

HearFrame ==
    /\ wire # "silent"
    /\ rcValue' = [c \in Channels |-> IF Measured(c) THEN frame[c] ELSE rcValue[c]]
    /\ UNCHANGED <<remote, datagram, drone, ppm, radio, option, low, motors, asked>>

\* Mutation: the switch arms at any throttle.
ArmBox_AnyThrottle(ready) == IF option THEN motors \/ ready ELSE motors

\* Mutation: a switch that is off does nothing.
ArmBox_NeverOff(ready) ==
    motors \/ (low /\ rcValue["THROTTLE"] <= MINCHECK /\ option /\ ready)

ArmBox(ready) ==
    IF ~low \/ rcValue["THROTTLE"] > MINCHECK THEN motors
    ELSE IF option THEN motors \/ ready ELSE FALSE

\* A pass of the radio branch.  The box is on the middle of AUX4.  computeRC's mean of four
\* keeps a throttle that was up from being low before the switch of that frame is gone
\* (FlightController!ArmsOnFrames); the rest of its delay is one in hearing the frame.
ControlPass ==
    /\ \E ready \in BOOLEAN : motors' = ArmBox(ready)
    /\ option' = (1300 < rcValue["AUX4"] /\ rcValue["AUX4"] < 1700)
    /\ low' = (rcValue["THROTTLE"] <= MINCHECK)
    /\ UNCHANGED <<remote, datagram, drone, ppm, radio, rcValue, asked>>

\* The battery sags and the controller starts again; the server and the wire go on.
Restart ==
    /\ rcValue' = Packet(1502, 1502) /\ option' = FALSE /\ low' = FALSE /\ motors' = FALSE
    /\ UNCHANGED <<remote, datagram, drone, ppm, radio, asked>>

UdpThread == Receive \/ StoreChannel
PpmThread == BeginFrame \/ CopyChannel \/ update

Server ==
    \/ Connect \/ Arm \/ ResetChannel \/ Disarm \/ HangUp
    \/ UdpThread
    \/ PpmThread

FlightNext == PilotActs \/ Send \/ Lose \/ Server \/ HearFrame \/ ControlPass \/ Restart

FlightSpec == FlightInit /\ [][FlightNext]_flightVars

\* The loop turns, and the wire repeats its frame; the remote goes on sending.
FairSpec ==
    /\ FlightSpec
    /\ WF_flightVars(Send) /\ WF_flightVars(HearFrame) /\ WF_flightVars(ControlPass)

\* The server's threads have not ended (after four silent seconds, or in an arm that comes
\* early), and of the datagrams sent again and again some arrive.
ThreadsRun == SF_flightVars(UdpThread) /\ WF_flightVars(PpmThread)

-----------------------------------------------------------------------------
\* "Arming the pilot is made in a sequence to avoid unintended commands"
\* (disertation.tex:325): the motors never start before the pilot has made that gesture,
\* through every race of the server's threads, lost and late packet, and restart of the
\* controller, which takes the arm switch for set until it has heard a frame.  The one way
\* round it is a frame sent in the middle of the very first state_init.
MotorsOnlyByPilot == motors => "arm" \in asked \/ wire = "stuck"

\* Armed, the controller never has a throttle above the lowest that no pilot has asked for,
\* although it starts with 1502 and the server with channels nobody has set.
ThrottleByPilot == motors /\ rcValue["THROTTLE"] > MINCHECK => "lift" \in asked

\* The pilot has disarmed, with the throttle down, has touched the sticks since the
\* connection was made, and has not tried to connect again over it; and the server is armed.
PilotStops ==
    /\ getAxes.THROTTLE = 1000 /\ pilotArmingStatus = ARM_STATUS_OFF
    /\ client = "bound" /\ payload # NoPayload
    /\ server /\ wire # "stuck"

\* Then the motors stop, whatever old packets and frames, half copied ones included, are
\* still under way.
StopsMotors == ThreadsRun /\ <>[]PilotStops => <>[](~motors)

-----------------------------------------------------------------------------
\* "Drone disarmed" (hawk-actions.c:60) is what the server prints when it executes a
\* DARM: a drone that stays disarmed, whose remote goes on sending and whose controller
\* hears its frames, has its motors off in the end.
DisarmedStands ==
    ThreadsRun /\ <>[](~server /\ client = "bound" /\ rcValue = frame) => <>[](~motors)
=============================================================================
