---------------------------- MODULE DroneSession ----------------------------
(***************************************************************************)
(* What the drone's server promises, whatever its threads do: it serves    *)
(* one client at a time; it is armed only by the client it serves and      *)
(* never between two of them; nothing reaches the sticks or the radio      *)
(* output before that client has armed it, and a disarm is followed by at  *)
(* most the frame already under way.                                       *)
(* DroneServer implements this specification (DroneServer!RefinesSession). *)
(***************************************************************************)
EXTENDS Naturals

CONSTANTS
    Clients, NoClient, Channels,
    Positions     \* the values a remote, or the reset of an arm, gives a channel

VARIABLES
    phase,        \* "idle", "serving", "closing"
    client,       \* the client being served, or served last
    armed,
    authorised,   \* this client has armed the drone
    late,         \* frames sent since the last disarm
    sticks,       \* the commanded position of each channel
    output        \* the pulse widths of the frame being built

vars == <<phase, client, armed, authorised, late, sticks, output>>

Init ==
    /\ phase = "idle" /\ client = NoClient
    /\ armed = FALSE /\ authorised = FALSE /\ late = 0
    /\ sticks = [ch \in Channels |-> 0] /\ output = [ch \in Channels |-> 1000]

Open ==
    /\ phase = "idle" /\ ~armed
    /\ phase' = "serving"
    /\ client' \in Clients
    /\ authorised' = FALSE
    /\ UNCHANGED <<armed, late, sticks, output>>

Arm ==
    /\ phase = "serving" /\ ~armed
    /\ armed' = TRUE /\ authorised' = TRUE
    /\ UNCHANGED <<phase, client, late, sticks, output>>

Disarm ==
    /\ armed
    /\ armed' = FALSE /\ late' = 0
    /\ UNCHANGED <<phase, client, authorised, sticks, output>>

MoveStick(channel, position) ==
    /\ authorised /\ phase # "idle"
    /\ sticks' = [sticks EXCEPT ![channel] = position]
    /\ UNCHANGED <<phase, client, armed, authorised, late, output>>

\* A frame may be built while armed, and one may still be under way after a disarm.
MayTransmit == authorised /\ phase # "idle" /\ (armed \/ late = 0)

BuildFrame(channel) ==
    /\ MayTransmit
    /\ output' = [output EXCEPT ![channel] = sticks[channel]]
    /\ UNCHANGED <<phase, client, armed, authorised, late, sticks>>

SendLateFrame ==
    /\ MayTransmit /\ ~armed
    /\ late' = 1
    /\ UNCHANGED <<phase, client, armed, authorised, sticks, output>>

HangUp ==
    /\ phase = "serving"
    /\ phase' = "closing"
    /\ UNCHANGED <<client, armed, authorised, late, sticks, output>>

Close ==
    /\ phase = "closing" /\ ~armed
    /\ phase' = "idle"
    /\ UNCHANGED <<client, armed, authorised, late, sticks, output>>

Next ==
    \/ Open \/ Arm \/ Disarm \/ SendLateFrame \/ HangUp \/ Close
    \/ \E channel \in Channels : BuildFrame(channel)
    \/ \E channel \in Channels, position \in Positions : MoveStick(channel, position)

Spec == Init /\ [][Next]_vars
=============================================================================
