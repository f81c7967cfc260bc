-------------------------- MODULE FlightController --------------------------
(***************************************************************************)
(* The main loop of the flight controller (MultiWii) as far as arming      *)
(* goes: computeRC() of RX.cpp, which turns what the receiver holds into   *)
(* rcData, the radio branch of loop(), and the gyro calibration that       *)
(* arming waits for.                                                       *)
(*                                                                         *)
(* An action is an iteration of loop(), with the computeIMU() every        *)
(* iteration ends in; the radio's interrupt, the ground station's messages *)
(* (serialCom, which annexCode calls) and a restart come between           *)
(* iterations.  Two channels are modelled with their widths: the throttle  *)
(* and AUX4, whose box is BOXARM.  The other sticks are the command they   *)
(* are held in.  How the craft lies, and the box of altitude hold, which   *)
(* both keep it from arming, may be anything at any time.  FAILSAFE is not *)
(* compiled in.                                                            *)
(***************************************************************************)
EXTENDS Integers, Sequences

CONSTANTS
    Radio,          \* what the receiver may hold: widths by channel
    Combos,         \* the stick commands: "gyro", and "none"
    Overrides,      \* what MSP_SET_RAW_RC may bring, by channel
    Boxes,          \* what MSP_SET_BOX may set conf.activate[BOXARM] to: sets of classes
    GyroReads,      \* gyro readings of a calibration: 512
    CommandDelay    \* passes a stick command is held: 20

RadioWidths == 901 .. 2199      \* those the receiver's interrupt takes for a pulse
RawWidths == 0 .. 2199          \* and the zero it starts with
DataWidths == 0 .. 2500         \* what the ground station sends is not checked

Channels == {"THROTTLE", "AUX4"}
index == [c \in Channels |-> IF c = "THROTTLE" THEN 3 ELSE 7]

ASSUME RadioAssumption == Radio # {} /\ Radio \subseteq [Channels -> RadioWidths]
ASSUME OverridesAssumption == Overrides \subseteq [Channels -> DataWidths]
ASSUME BoxesAssumption == Boxes \subseteq SUBSET {"LOW", "MID", "HIGH"}
ASSUME BoundsAssumption == GyroReads \in Nat /\ CommandDelay \in Nat

VARIABLES
    rcValue,        \* what the receiver holds
    window,         \* by channel: the last four values read, the oldest first
    rcData,
    rcSerial, rcSerialCount,
    sticks, rcDelayCommand,
    activate,       \* conf.activate[BOXARM]: the classes of AUX4 that arm
    option,         \* rcOptions[BOXARM]
    ARMED, OK_TO_ARM,
    calibratingG,
    \* history
    overridden,     \* passes since the last MSP_SET_RAW_RC (8: many)
    passes          \* passes since the start (4: many)

radio == <<rcValue, window, rcData, passes>>
msp == <<rcSerial, rcSerialCount, overridden>>
flags == <<option, ARMED, OK_TO_ARM>>
vars == <<radio, msp, sticks, rcDelayCommand, activate, flags, calibratingG>>

MINCHECK == 1100
MAXCHECK == 1900
OverrideSteps == 50        \* rcSerialCount after MSP_SET_RAW_RC

-----------------------------------------------------------------------------
(* computeRC.                                                              *)

\* Mutation: no mean is taken.
Mean_Last(w) == w[4]

\* The mean of the value read and the three before it.
Mean(w) == (w[1] + w[2] + w[3] + w[4] + 2) \div 4

\* rcData is an int16_t cast to a uint16_t: below 3 the difference wraps.
Under(mean, data) == mean < (data - 3) % 65536

\* Mutation: rcData does not follow a mean that rises.
Follow_Falls(mean, data) == IF Under(mean, data) THEN mean + 2 ELSE data

\* rcData follows the mean once they differ by more than three.
Follow(mean, data) ==
    LET fallen == IF Under(mean, data) THEN mean + 2 ELSE data
    IN  IF mean > fallen + 3 THEN mean - 2 ELSE fallen

\* Mutation: it goes down by one in a pass, as the comment of its setter suggests.
CountAfterPass_Slow(count) == IF count > 1 THEN count - 1 ELSE 0

\* The counter goes down by one for each of the eight channels, in their order.
CountAfterPass(count) == IF count > 8 THEN count - 8 ELSE 0

Overriding(c) == rcSerialCount > index[c] /\ rcSerial[c] > 900

Class(width) ==
    CASE width < 1300 -> "LOW"
      [] 1300 < width /\ width < 1700 -> "MID"
      [] width > 1700 -> "HIGH"
      [] OTHER -> "none"          \* 1300 and 1700 are in none of the three

-----------------------------------------------------------------------------
TypeOK ==
    /\ rcValue \in [Channels -> RadioWidths]
    /\ window \in [Channels -> [1 .. 4 -> RawWidths]]
    /\ rcData \in [Channels -> DataWidths]
    /\ rcSerial \in [Channels -> DataWidths] /\ rcSerialCount \in 0 .. OverrideSteps
    /\ sticks \in {"LOW", "CENTRE", "HIGH"} \X Combos
    /\ rcDelayCommand \in 0 .. CommandDelay + 1
    /\ activate \in SUBSET {"LOW", "MID", "HIGH"}
    /\ {option, ARMED, OK_TO_ARM} \subseteq BOOLEAN
    /\ calibratingG \in 0 .. GyroReads
    /\ overridden \in 0 .. 8 /\ passes \in 0 .. 4

\* setup() has run: the variables are zero, and a calibration is begun.
Boot ==
    /\ window' = [c \in Channels |-> [i \in 1 .. 4 |-> 0]]
    /\ rcData' = [c \in Channels |-> 0]
    /\ rcSerial' = [c \in Channels |-> 0] /\ rcSerialCount' = 0
    /\ \E combo \in Combos : sticks' = <<"LOW", combo>>
    /\ rcDelayCommand' = 0
    /\ activate' \in Boxes                   \* readEEPROM
    /\ option' = FALSE /\ ARMED' = FALSE /\ OK_TO_ARM' = FALSE
    /\ calibratingG' = GyroReads
    /\ overridden' = 8 /\ passes' = 0

Init ==
    /\ rcValue = [c \in Channels |-> 1502]
    /\ window = [c \in Channels |-> [i \in 1 .. 4 |-> 0]]
    /\ rcData = [c \in Channels |-> 0]
    /\ rcSerial = [c \in Channels |-> 0] /\ rcSerialCount = 0
    /\ \E combo \in Combos : sticks = <<"LOW", combo>>
    /\ rcDelayCommand = 0
    /\ activate \in Boxes
    /\ option = FALSE /\ ARMED = FALSE /\ OK_TO_ARM = FALSE
    /\ calibratingG = GyroReads
    /\ overridden = 8 /\ passes = 0

\* Power comes back after it failed; the receiver starts at 1502 too.
Restart ==
    /\ Boot
    /\ rcValue' = [c \in Channels |-> 1502]

-----------------------------------------------------------------------------
\* computeRC: the next windows and rcData, overridden in passes that MSP asked for.
computeRC ==
    /\ window' = [c \in Channels |->
                     [i \in 1 .. 4 |-> IF i < 4 THEN window[c][i + 1] ELSE rcValue[c]]]
    /\ rcData' = [c \in Channels |->
                     IF Overriding(c) THEN rcSerial[c]
                                      ELSE Follow(Mean(window'[c]), rcData[c])]
    /\ rcSerialCount' = CountAfterPass(rcSerialCount)
    /\ overridden' = IF overridden < 8 THEN overridden + 1 ELSE 8
    /\ passes' = IF passes < 4 THEN passes + 1 ELSE 4
    /\ UNCHANGED <<rcValue, rcSerial>>

ThrottleStick(width) ==
    IF width <= MINCHECK THEN "LOW" ELSE IF width < MAXCHECK THEN "CENTRE" ELSE "HIGH"

\* For how long the sticks have been where they are.  (The code counts to 250; nothing
\* happens past CommandDelay.)
Hold(combo) ==
    /\ sticks' = <<ThrottleStick(rcData'["THROTTLE"]), combo>>
    /\ rcDelayCommand' = IF sticks' # sticks THEN 0
                         ELSE IF rcDelayCommand <= CommandDelay THEN rcDelayCommand + 1
                                                                ELSE rcDelayCommand

\* go_arm: ready says that ACC_CALIBRATED is set and BARO_MODE is not.
\* Mutation: a calibration does not keep the craft from arming.
MayArm_Uncalibrated(ready) == ready /\ ~ARMED

MayArm(ready) == calibratingG = 0 /\ ready /\ ~ARMED

\* Mutation: only the arm box of this pass counts, and a switch that is off does nothing.
ArmBox_NeverDisarms(ready) ==
    ARMED' = (ARMED \/ (/\ rcData'["THROTTLE"] <= MINCHECK /\ activate # {}
                        /\ option /\ OK_TO_ARM /\ MayArm(ready)))

\* Arming and disarming by the box, at low throttle, as the pass before left the option.
ArmBox(ready) ==
    ARMED' = IF rcData'["THROTTLE"] <= MINCHECK /\ activate # {}
               THEN IF option /\ OK_TO_ARM THEN ARMED \/ MayArm(ready) ELSE FALSE
               ELSE ARMED

\* Each iteration reads the gyro twice.
AfterReads(count) == IF count > 2 THEN count - 2 ELSE 0

\* Held long enough, and not armed.
StickCommand ==
    calibratingG' = AfterReads(
        IF rcDelayCommand' = CommandDelay /\ ~ARMED' /\ sticks' = <<"LOW", "gyro">>
          THEN GyroReads ELSE calibratingG)

\* An iteration in which currentTime has passed rcTime.
RcPass(combo, ready) ==
    /\ computeRC
    /\ Hold(combo)
    /\ ArmBox(ready)
    /\ StickCommand
    /\ option' = (Class(rcData'["AUX4"]) \in activate)
    /\ OK_TO_ARM' = (OK_TO_ARM \/ ~option')
    /\ UNCHANGED activate

\* An iteration in which it has not: the sensors' tasks, and computeIMU.
TaskPass ==
    /\ calibratingG > 0
    /\ calibratingG' = AfterReads(calibratingG)
    /\ UNCHANGED <<radio, msp, sticks, rcDelayCommand, activate, flags>>

\* The receiver's interrupt.
Receive(widths) ==
    /\ rcValue' = widths
    /\ UNCHANGED <<window, rcData, passes, msp, sticks, rcDelayCommand, activate, flags,
                   calibratingG>>

\* MSP_SET_RAW_RC and MSP_SET_BOX: neither asks whether the craft is armed.
SetRawRC(widths) ==
    /\ rcSerial' = widths /\ rcSerialCount' = OverrideSteps /\ overridden' = 0
    /\ UNCHANGED <<radio, sticks, rcDelayCommand, activate, flags, calibratingG>>

SetBox(classes) ==
    /\ activate' = classes
    /\ UNCHANGED <<radio, msp, sticks, rcDelayCommand, flags, calibratingG>>

Pass == \E combo \in Combos, ready \in BOOLEAN : RcPass(combo, ready)

Next ==
    \/ Pass \/ TaskPass \/ Restart
    \/ \E widths \in Radio : Receive(widths)
    \/ \E widths \in Overrides : SetRawRC(widths)
    \/ \E classes \in Boxes : SetBox(classes)

Spec == Init /\ [][Next]_vars

\* rcTime passes every 20 ms, whatever the iterations in between do.
FairSpec == Spec /\ WF_vars(Pass)

-----------------------------------------------------------------------------
\* The motors never turn on a gyro whose zero is still being measured: no order of stick
\* commands, switches and restarts arms the craft in a calibration, or begins one in
\* flight.
ArmedIsCalibrated == ARMED => calibratingG = 0

\* Between radio and rcData there are a mean and a hysteresis, in unsigned arithmetic
\* that wraps near zero: rcData is never more than three away from the mean of the last
\* four values read, unless MSP has overridden it.
FilterFollows ==
    \A c \in Channels :
        \/ passes = 0
        \/ overridden <= 6
        \/ Mean(window[c]) - 3 <= rcData[c] /\ rcData[c] <= Mean(window[c]) + 3

\* One bad value of four, from a frame in which edges were lost or made up, moves no
\* switch: AUX4 stays in the class of the three values that agree.  (In the first four
\* passes the zeroes the window starts with do: AUX4 then reads as LOW.)
SpikeMovesNoSwitch ==
    \A v \in {1000, 1500, 2000} :
        /\ passes = 4 /\ overridden = 8
        /\ \E bad \in 1 .. 4 :
              /\ \A i \in 1 .. 4 : i # bad => window["AUX4"][i] = v
              /\ window["AUX4"][bad] \in 1000 .. 2000
        => Class(rcData["AUX4"]) = Class(v)

\* A filter of four values and a hysteresis of three take one of the widths from these.
FilteredTo(w, widths) ==
    \E width \in widths :
        /\ 4 * width - 14 <= w[1] + w[2] + w[3] + w[4]
        /\ w[1] + w[2] + w[3] + w[4] <= 4 * width + 14

\* The arm switch and the throttle go through the same mean, and the pass that arms takes
\* the switch from the pass before: the craft is armed only by four values of the throttle
\* that are down, taken together, and by the four of the switch that end one earlier; never
\* by the throttle or the switch of one frame.  (A switch that jumped from LOW to HIGH
\* would pass through MID; the remote's has no HIGH.)
ArmsOnFrames ==
    [][ARMED' /\ ~ARMED /\ overridden' = 8 =>
         /\ FilteredTo(window'["THROTTLE"], 0 .. MINCHECK)
         /\ \E classes \in Boxes :
                FilteredTo(window["AUX4"], {w \in DataWidths : Class(w) \in classes})]_vars

\* An override ends: seven passes after the last MSP_SET_RAW_RC the radio has the craft
\* again.  (The comment says a second, which fifty passes are.)
OverrideEnds == overridden >= 7 => rcSerialCount = 0

\* The radio tells the craft to disarm: throttle low and the switch off.
CommandsDisarm ==
    /\ rcValue["THROTTLE"] <= MINCHECK - 100
    /\ Class(rcValue["AUX4"] + 3) \notin activate /\ Class(rcValue["AUX4"] - 3) \notin activate
    /\ activate # {}
    /\ overridden = 8

\* However the craft came to be armed, a radio that goes on telling it to disarm ends
\* that, through the filter, the hysteresis and the low throttle disarming asks for.
DisarmHeard == <>[]CommandsDisarm => <>[](~ARMED)
=============================================================================
