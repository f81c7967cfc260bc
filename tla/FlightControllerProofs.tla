----------------------- MODULE FlightControllerProofs -----------------------
(* Proofs about FlightController, for any radio, ground station, length of    *)
(* the calibration and delay of the stick commands.                           *)
EXTENDS FlightController, TLAPS

\* How long an override has to live: eight steps go in each pass.
OverrideBudget ==
    /\ overridden <= 6 => rcSerialCount <= OverrideSteps - 8 * overridden
    /\ overridden >= 7 => rcSerialCount = 0

\* The option stands for the switch as rcData has it, in a box that MSP or the EEPROM set.
OptionOfBox ==
    /\ activate \in Boxes
    /\ option => passes # 0 /\ \E classes \in Boxes : Class(rcData["AUX4"]) \in classes

IInv == TypeOK /\ ArmedIsCalibrated /\ OverrideBudget /\ FilterFollows /\ OptionOfBox

-----------------------------------------------------------------------------
\* The ranges of widths, for the provers.
LEMMA RawRange ==
    ASSUME NEW x \in RawWidths
    PROVE  x \in Int /\ 0 <= x /\ x <= 2199
  BY DEF RawWidths

LEMMA DataRange ==
    ASSUME NEW x \in DataWidths
    PROVE  x \in Int /\ 0 <= x /\ x <= 2500
  BY DEF DataWidths

\* The mean of four widths is one.
LEMMA MeanRange ==
    ASSUME NEW w \in [1 .. 4 -> RawWidths]
    PROVE  Mean(w) \in RawWidths
  <1>1. /\ w[1] \in Int /\ 0 <= w[1] /\ w[1] <= 2199
        /\ w[2] \in Int /\ 0 <= w[2] /\ w[2] <= 2199
        /\ w[3] \in Int /\ 0 <= w[3] /\ w[3] <= 2199
        /\ w[4] \in Int /\ 0 <= w[4] /\ w[4] <= 2199
    <2>1. \A i \in 1 .. 4 : w[i] \in Int /\ 0 <= w[i] /\ w[i] <= 2199
      <3> SUFFICES ASSUME NEW i \in 1 .. 4 PROVE w[i] \in Int /\ 0 <= w[i] /\ w[i] <= 2199
        OBVIOUS
      <3>1. w[i] \in RawWidths
        OBVIOUS
      <3> QED BY <3>1, RawRange
    <2>2. 1 \in 1 .. 4 /\ 2 \in 1 .. 4 /\ 3 \in 1 .. 4 /\ 4 \in 1 .. 4
      OBVIOUS
    <2> QED BY <2>1, <2>2
  <1>2. PICK sum \in Int : sum = w[1] + w[2] + w[3] + w[4] + 2
    BY <1>1
  <1>3. 0 <= sum /\ sum <= 8798
    BY <1>1, <1>2
  <1>4. sum \div 4 \in Int /\ 0 <= sum \div 4 /\ sum \div 4 <= 2199
    <2>1. sum \div 4 \in Int
      OBVIOUS
    <2>2. 0 <= sum \div 4
      BY <1>3
    <2>3. sum \div 4 <= 2199
      BY <1>3
    <2> QED BY <2>1, <2>2, <2>3
  <1>5. Mean(w) = sum \div 4
    BY <1>2 DEF Mean
  <1> QED BY <1>4, <1>5 DEF RawWidths

\* The cast of a small rcData: below three the comparison always holds, and from three on
\* it is the signed one.
LEMMA UnderMeaning ==
    ASSUME NEW mean \in RawWidths, NEW data \in DataWidths
    PROVE  Under(mean, data) \/ (data >= 3 /\ mean >= data - 3)
  <1>0. data \in Int /\ 0 <= data /\ data <= 2500 /\ mean \in Int /\ 0 <= mean /\ mean <= 2199
    BY RawRange, DataRange
  <1>1. CASE data < 3
    <2>1. data - 3 \in Int /\ 65536 + (data - 3) >= 65533
      BY <1>0
    <2>2. (data - 3) % 65536 = 65536 + (data - 3)
      BY <1>0, <1>1
    <2> QED BY <1>0, <1>1, <2>1, <2>2 DEF Under
  <1>2. CASE data >= 3
    <2>1. (data - 3) % 65536 = data - 3
      BY <1>0, <1>2
    <2> QED BY <1>0, <1>2, <2>1 DEF Under
  <1>3. data < 3 \/ data >= 3
    BY <1>0
  <1> QED BY <1>1, <1>2, <1>3

\* One step of the hysteresis leaves rcData within three of the mean.
LEMMA FollowNear ==
    ASSUME NEW mean \in RawWidths, NEW data \in DataWidths
    PROVE  /\ Follow(mean, data) \in DataWidths
           /\ mean - 3 <= Follow(mean, data) /\ Follow(mean, data) <= mean + 3
  <1>0. data \in Int /\ 0 <= data /\ data <= 2500 /\ mean \in Int /\ 0 <= mean /\ mean <= 2199
    BY RawRange, DataRange
  <1>1. CASE Under(mean, data)
    <2>1. Follow(mean, data) = mean + 2
      BY <1>0, <1>1 DEF Follow
    <2> QED BY <1>0, <2>1 DEF DataWidths
  <1>2. CASE ~Under(mean, data)
    <2>1. data >= 3 /\ mean >= data - 3
      BY <1>2, UnderMeaning
    <2>2. Follow(mean, data) = IF mean > data + 3 THEN mean - 2 ELSE data
      BY <1>2 DEF Follow
    <2> QED BY <1>0, <2>1, <2>2 DEF DataWidths
  <1> QED BY <1>1, <1>2

LEMMA CountRange ==
    ASSUME NEW count \in 0 .. OverrideSteps
    PROVE  CountAfterPass(count) \in 0 .. OverrideSteps
  BY DEF CountAfterPass, OverrideSteps

LEMMA ReadsRange ==
    ASSUME NEW count \in 0 .. GyroReads
    PROVE  AfterReads(count) \in 0 .. GyroReads /\ (count = 0 => AfterReads(count) = 0)
  BY BoundsAssumption DEF AfterReads

-----------------------------------------------------------------------------
LEMMA InitInv == Init => IInv
  <1> SUFFICES ASSUME Init PROVE IInv
    OBVIOUS
  <1>1. /\ rcValue \in [Channels -> RadioWidths]
        /\ window \in [Channels -> [1 .. 4 -> RawWidths]]
        /\ rcData \in [Channels -> DataWidths] /\ rcSerial \in [Channels -> DataWidths]
    BY DEF Init, RadioWidths, RawWidths, DataWidths
  <1>2. /\ rcDelayCommand \in 0 .. CommandDelay + 1 /\ calibratingG \in 0 .. GyroReads
        /\ rcSerialCount \in 0 .. OverrideSteps /\ overridden \in 0 .. 8 /\ passes \in 0 .. 4
    BY BoundsAssumption DEF Init, OverrideSteps
  <1>3. sticks \in {"LOW", "CENTRE", "HIGH"} \X Combos
    BY DEF Init
  <1>4. activate \in SUBSET {"LOW", "MID", "HIGH"}
    BY BoxesAssumption DEF Init
  <1>5. {option, ARMED, OK_TO_ARM} \subseteq BOOLEAN /\ ~ARMED
    BY DEF Init
  <1>6. TypeOK
    BY <1>1, <1>2, <1>3, <1>4, <1>5 DEF TypeOK
  <1>7. OverrideBudget /\ FilterFollows
    BY DEF Init, OverrideBudget, FilterFollows
  <1>8. OptionOfBox
    BY DEF Init, OptionOfBox
  <1> QED BY <1>5, <1>6, <1>7, <1>8 DEF IInv, ArmedIsCalibrated

\* The start after a power failure is the initial state again.
LEMMA RestartInv ==
    ASSUME Restart
    PROVE  IInv'
  <1>1. /\ rcValue' \in [Channels -> RadioWidths]
        /\ window' \in [Channels -> [1 .. 4 -> RawWidths]]
        /\ rcData' \in [Channels -> DataWidths] /\ rcSerial' \in [Channels -> DataWidths]
    BY DEF Restart, Boot, RadioWidths, RawWidths, DataWidths
  <1>2. /\ rcDelayCommand' \in 0 .. CommandDelay + 1 /\ calibratingG' \in 0 .. GyroReads
        /\ rcSerialCount' \in 0 .. OverrideSteps /\ overridden' \in 0 .. 8 /\ passes' \in 0 .. 4
    BY BoundsAssumption DEF Restart, Boot, OverrideSteps
  <1>3. sticks' \in {"LOW", "CENTRE", "HIGH"} \X Combos
    BY DEF Restart, Boot
  <1>4. activate' \in SUBSET {"LOW", "MID", "HIGH"}
    BY BoxesAssumption DEF Restart, Boot
  <1>5. {option, ARMED, OK_TO_ARM}' \subseteq BOOLEAN /\ ~ARMED'
    BY DEF Restart, Boot
  <1>6. TypeOK'
    BY <1>1, <1>2, <1>3, <1>4, <1>5 DEF TypeOK
  <1>7. OverrideBudget' /\ FilterFollows'
    BY DEF Restart, Boot, OverrideBudget, FilterFollows
  <1>8. OptionOfBox'
    BY DEF Restart, Boot, OptionOfBox
  <1> QED BY <1>5, <1>6, <1>7, <1>8 DEF IInv, ArmedIsCalibrated

\* A pass of the radio branch: computeRC keeps the channels near their means, and the
\* craft neither arms in a calibration nor begins one armed.
LEMMA PassInv ==
    ASSUME IInv, NEW combo \in Combos, NEW ready \in BOOLEAN, RcPass(combo, ready)
    PROVE  IInv'
  <1> USE DEF IInv
  <1>1. ASSUME NEW c \in Channels
        PROVE  window'[c] \in [1 .. 4 -> RawWidths]
    <2>1. window'[c] = [i \in 1 .. 4 |-> IF i < 4 THEN window[c][i + 1] ELSE rcValue[c]]
      BY <1>1 DEF RcPass, computeRC
    <2>2. window[c] \in [1 .. 4 -> RawWidths] /\ rcValue[c] \in RawWidths
      BY <1>1 DEF TypeOK, RadioWidths, RawWidths
    <2>3. ASSUME NEW i \in 1 .. 4
          PROVE  (IF i < 4 THEN window[c][i + 1] ELSE rcValue[c]) \in RawWidths
      <3>1. CASE i < 4
        <4>1. i + 1 \in 1 .. 4
          BY <3>1
        <4>2. window[c][i + 1] \in RawWidths
          BY <2>2, <4>1
        <4> QED BY <3>1, <4>2
      <3>2. CASE ~(i < 4)
        BY <2>2, <3>2
      <3> QED BY <3>1, <3>2
    <2> QED BY <2>1, <2>3
  <1>2. window' \in [Channels -> [1 .. 4 -> RawWidths]]
    <2>1. window' = [c \in Channels |-> window'[c]]
      BY DEF RcPass, computeRC
    <2> QED BY <1>1, <2>1
  <1>3. ASSUME NEW c \in Channels
        PROVE  /\ Mean(window'[c]) \in RawWidths
               /\ rcData'[c] \in DataWidths
               /\ ~Overriding(c) => /\ Mean(window'[c]) - 3 <= rcData'[c]
                                    /\ rcData'[c] <= Mean(window'[c]) + 3
    <2>1. rcData'[c] = IF Overriding(c) THEN rcSerial[c]
                                        ELSE Follow(Mean(window'[c]), rcData[c])
      BY <1>3 DEF RcPass, computeRC
    <2>2. rcSerial[c] \in DataWidths /\ rcData[c] \in DataWidths
      BY <1>3 DEF TypeOK
    <2>3. Mean(window'[c]) \in RawWidths
      BY <1>1, <1>3, MeanRange DEF RawWidths
    <2>4. CASE Overriding(c)
      BY <2>1, <2>2, <2>3, <2>4
    <2>5. CASE ~Overriding(c)
      <3>1. rcData'[c] = Follow(Mean(window'[c]), rcData[c])
        BY <2>1, <2>5
      <3>2. PICK mean \in RawWidths : mean = Mean(window'[c])
        BY <2>3
      <3>3. PICK data \in DataWidths : data = rcData[c]
        BY <2>2
      <3>4. /\ Follow(mean, data) \in DataWidths
            /\ mean - 3 <= Follow(mean, data) /\ Follow(mean, data) <= mean + 3
        BY FollowNear
      <3> QED BY <2>3, <3>1, <3>2, <3>3, <3>4
    <2> QED BY <2>4, <2>5
  <1>4. rcData' \in [Channels -> DataWidths]
    <2>1. rcData' = [c \in Channels |-> IF Overriding(c) THEN rcSerial[c]
                                        ELSE Follow(Mean(window'[c]), rcData[c])]
      BY DEF RcPass, computeRC
    <2> QED BY <1>3, <2>1
  <1>5. /\ rcSerialCount' = CountAfterPass(rcSerialCount)
        /\ overridden' = IF overridden < 8 THEN overridden + 1 ELSE 8
        /\ passes' = IF passes < 4 THEN passes + 1 ELSE 4
        /\ rcValue' = rcValue /\ rcSerial' = rcSerial /\ activate' = activate
    BY DEF RcPass, computeRC
  <1>6. rcSerialCount' \in 0 .. OverrideSteps /\ overridden' \in 0 .. 8 /\ passes' \in 0 .. 4
    BY <1>5, CountRange DEF TypeOK
  <1>7. OverrideBudget'
    BY <1>5 DEF TypeOK, OverrideBudget, CountAfterPass, OverrideSteps
  <1>8. FilterFollows'
    <2> SUFFICES ASSUME NEW c \in Channels, overridden' \in 7 .. 8
                 PROVE  /\ Mean(window'[c]) - 3 <= rcData'[c]
                        /\ rcData'[c] <= Mean(window'[c]) + 3
      BY <1>6 DEF FilterFollows
    <2>1. rcSerialCount \in 0 .. 2
      BY <1>5 DEF TypeOK, OverrideBudget, OverrideSteps
    <2>2. ~Overriding(c)
      BY <2>1 DEF Overriding, index, Channels
    <2> QED BY <1>3, <2>2
  <1>9. sticks' \in {"LOW", "CENTRE", "HIGH"} \X Combos
    BY DEF RcPass, Hold, ThrottleStick
  <1>10. rcDelayCommand' \in 0 .. CommandDelay + 1
    BY BoundsAssumption DEF RcPass, Hold, TypeOK
  <1>11. option' \in BOOLEAN /\ OK_TO_ARM' \in BOOLEAN
    BY DEF RcPass, TypeOK
  <1>12. ARMED' \in BOOLEAN /\ (ARMED' => calibratingG = 0)
    <2>1. ARMED \in BOOLEAN /\ (ARMED => calibratingG = 0)
      BY DEF TypeOK, ArmedIsCalibrated
    <2>2. MayArm(ready) \in BOOLEAN /\ (MayArm(ready) => calibratingG = 0)
      BY DEF MayArm
    <2>3. ArmBox(ready)
      BY DEF RcPass
    <2>4. CASE rcData'["THROTTLE"] <= MINCHECK /\ activate # {}
      BY <2>1, <2>2, <2>3, <2>4 DEF ArmBox
    <2>5. CASE ~(rcData'["THROTTLE"] <= MINCHECK /\ activate # {})
      BY <2>1, <2>3, <2>5 DEF ArmBox
    <2> QED BY <2>4, <2>5
  <1>13. calibratingG' \in 0 .. GyroReads /\ (ARMED' => calibratingG' = 0)
    <2>1. calibratingG \in 0 .. GyroReads /\ GyroReads \in 0 .. GyroReads
      BY BoundsAssumption DEF TypeOK
    <2>2. StickCommand
      BY DEF RcPass
    <2>3. CASE ARMED'
      <3>1. calibratingG' = AfterReads(calibratingG)
        BY <2>2, <2>3 DEF StickCommand
      <3> QED BY <1>12, <2>1, <2>3, <3>1, ReadsRange
    <2>4. CASE ~ARMED'
      <3>1. \/ calibratingG' = AfterReads(calibratingG)
            \/ calibratingG' = AfterReads(GyroReads)
        BY <2>2 DEF StickCommand
      <3> QED BY <2>1, <2>4, <3>1, ReadsRange
    <2> QED BY <2>3, <2>4
  <1>14. TypeOK'
    <2>2. /\ rcValue' \in [Channels -> RadioWidths] /\ rcSerial' \in [Channels -> DataWidths]
          /\ activate' \in SUBSET {"LOW", "MID", "HIGH"}
      BY <1>5 DEF TypeOK
    <2>3. calibratingG' \in 0 .. GyroReads
      BY <1>13
    <2>4. {option', ARMED', OK_TO_ARM'} \subseteq BOOLEAN
      BY <1>11, <1>12
    <2> QED BY <1>2, <1>4, <1>6, <1>9, <1>10, <2>2, <2>3, <2>4, Zenon DEF TypeOK
  <1>15. OptionOfBox'
    <2>1. passes' # 0
      BY <1>5 DEF TypeOK
    <2>2. option' = (Class(rcData'["AUX4"]) \in activate) /\ activate' = activate
      BY DEF RcPass
    <2> QED BY <2>1, <2>2 DEF OptionOfBox
  <1> QED BY <1>7, <1>8, <1>13, <1>14, <1>15 DEF ArmedIsCalibrated

\* Steps that leave the passes alone.
LEMMA BetweenPassesInv ==
    ASSUME IInv, UNCHANGED <<window, rcData, passes, sticks, rcDelayCommand, flags>>,
           rcValue' \in [Channels -> RadioWidths],
           rcSerial' \in [Channels -> DataWidths],
           \/ UNCHANGED <<rcSerialCount, overridden>>
           \/ rcSerialCount' = OverrideSteps /\ overridden' = 0,
           activate' \in Boxes,
           calibratingG' \in 0 .. GyroReads, calibratingG = 0 => calibratingG' = 0
    PROVE  IInv'
  <1>1. rcSerialCount' \in 0 .. OverrideSteps /\ overridden' \in 0 .. 8 /\ OverrideBudget'
    BY DEF IInv, TypeOK, OverrideBudget, OverrideSteps
  <1>2. {option, ARMED, OK_TO_ARM}' \subseteq BOOLEAN
    BY DEF IInv, TypeOK, flags
  <1>3. TypeOK'
    BY <1>1, <1>2, BoxesAssumption DEF IInv, TypeOK
  <1>4. ArmedIsCalibrated'
    BY DEF IInv, ArmedIsCalibrated, flags
  <1>5. FilterFollows'
    <2>1. window' = window /\ rcData' = rcData /\ passes' = passes
      OBVIOUS
    <2>2. overridden' <= 6 \/ overridden' = overridden
      OBVIOUS
    <2> QED BY <2>1, <2>2 DEF IInv, FilterFollows
  <1>6. OptionOfBox'
    BY DEF IInv, OptionOfBox, flags
  <1> QED BY <1>1, <1>3, <1>4, <1>5, <1>6 DEF IInv

LEMMA NextInv == IInv /\ [Next]_vars => IInv'
  <1> SUFFICES ASSUME IInv, [Next]_vars PROVE IInv'
    OBVIOUS
  <1> USE DEF radio, msp
  <1>0. TypeOK /\ activate \in Boxes
    BY DEF IInv, OptionOfBox
  <1>1. CASE Pass
    BY <1>1, PassInv DEF Pass
  <1>2. CASE TaskPass
    <2>1. calibratingG' \in 0 .. GyroReads /\ (calibratingG = 0 => calibratingG' = 0)
      BY <1>0, <1>2, ReadsRange DEF TaskPass, TypeOK
    <2> QED BY <1>0, <1>2, <2>1, BetweenPassesInv DEF TaskPass, TypeOK
  <1>3. CASE Restart
    BY <1>3, RestartInv
  <1>4. ASSUME NEW widths \in Radio, Receive(widths)
        PROVE  IInv'
    <2>1. rcValue' \in [Channels -> RadioWidths]
      BY <1>4, RadioAssumption DEF Receive
    <2> QED BY <1>0, <1>4, <2>1, BetweenPassesInv DEF Receive, TypeOK
  <1>5. ASSUME NEW widths \in Overrides, SetRawRC(widths)
        PROVE  IInv'
    <2>1. rcSerial' \in [Channels -> DataWidths]
      BY <1>5, OverridesAssumption DEF SetRawRC
    <2> QED BY <1>0, <1>5, <2>1, BetweenPassesInv DEF SetRawRC, TypeOK
  <1>6. ASSUME NEW classes \in Boxes, SetBox(classes)
        PROVE  IInv'
    <2>1. activate' \in Boxes
      BY <1>6 DEF SetBox
    <2> QED BY <1>0, <1>6, <2>1, BetweenPassesInv DEF SetBox, TypeOK
  <1>7. CASE UNCHANGED vars
    BY <1>0, <1>7, BetweenPassesInv DEF vars, TypeOK
  <1> QED BY <1>1, <1>2, <1>3, <1>4, <1>5, <1>6, <1>7 DEF Next

LEMMA Invariance == Spec => []IInv
  BY InitInv, NextInv, PTL DEF Spec

-----------------------------------------------------------------------------
\* Type correctness of the main loop's state.
THEOREM TypeCorrect == Spec => []TypeOK
  <1>1. IInv => TypeOK
    BY DEF IInv
  <1> QED BY <1>1, Invariance, PTL

\* The craft is never armed while the gyro's zero is being measured.
THEOREM CalibratedWhenArmed == Spec => []ArmedIsCalibrated
  <1>1. IInv => ArmedIsCalibrated
    BY DEF IInv
  <1> QED BY <1>1, Invariance, PTL

\* rcData stays within three of the mean of the last four values, whatever the radio and
\* the ground station send.
THEOREM FilterIsNear == Spec => []FilterFollows
  <1>1. IInv => FilterFollows
    BY DEF IInv
  <1> QED BY <1>1, Invariance, PTL

\* The ground station's sticks are forgotten after seven passes.
THEOREM OverridesEnd == Spec => []OverrideEnds
  <1>1. IInv => OverrideEnds
    BY DEF IInv, OverrideBudget, OverrideEnds
  <1> QED BY <1>1, Invariance, PTL

-----------------------------------------------------------------------------
(* What the filter does to the switches.                                     *)

LEMMA FourWidths ==
    ASSUME NEW w \in [1 .. 4 -> RawWidths]
    PROVE  w[1] \in Int /\ w[2] \in Int /\ w[3] \in Int /\ w[4] \in Int
  <1>1. w[1] \in RawWidths /\ w[2] \in RawWidths /\ w[3] \in RawWidths /\ w[4] \in RawWidths
    OBVIOUS
  <1> QED BY <1>1, RawRange

\* A width within three of the mean is one the filter takes the four for.
LEMMA NearIsFiltered ==
    ASSUME NEW w \in [1 .. 4 -> RawWidths], NEW data \in Int,
           Mean(w) - 3 <= data, data <= Mean(w) + 3
    PROVE  /\ 4 * data - 14 <= w[1] + w[2] + w[3] + w[4]
           /\ w[1] + w[2] + w[3] + w[4] <= 4 * data + 14
  <1>1. PICK sum \in Int : sum = w[1] + w[2] + w[3] + w[4]
    BY FourWidths
  <1>2. Mean(w) = (sum + 2) \div 4
    BY <1>1 DEF Mean
  <1>3. PICK mean \in Int : mean = (sum + 2) \div 4
    OBVIOUS
  <1>4. 4 * mean <= sum + 2 /\ sum + 2 < 4 * mean + 4
    BY <1>3
  <1> QED BY <1>1, <1>2, <1>3, <1>4

\* Three values that agree outweigh the fourth.
LEMMA SpikeOutweighed ==
    ASSUME NEW w \in [1 .. 4 -> RawWidths], NEW v \in {1000, 1500, 2000},
           NEW bad \in 1 .. 4, w[bad] \in 1000 .. 2000, \A i \in 1 .. 4 : i # bad => w[i] = v,
           NEW data \in Int, Mean(w) - 3 <= data, data <= Mean(w) + 3
    PROVE  Class(data) = Class(v)
  <1>1. PICK spike \in 1000 .. 2000 : spike = w[bad]
    OBVIOUS
  <1>2. w[1] + w[2] + w[3] + w[4] = 3 * v + spike
    BY <1>1
  <1>3. PICK sum \in Int : sum = w[1] + w[2] + w[3] + w[4]
    BY FourWidths
  <1>4. 4 * data - 14 <= sum /\ sum <= 4 * data + 14
    BY <1>3, NearIsFiltered
  <1>5. CASE v = 1000
    BY <1>2, <1>3, <1>4, <1>5 DEF Class
  <1>6. CASE v = 1500
    BY <1>2, <1>3, <1>4, <1>6 DEF Class
  <1>7. CASE v = 2000
    BY <1>2, <1>3, <1>4, <1>7 DEF Class
  <1> QED BY <1>5, <1>6, <1>7

\* The filtered switch is that of the three values that agree, whatever the fourth was
\* between the ends of a stick's travel.
THEOREM SpikesMoveNothing == Spec => []SpikeMovesNoSwitch
  <1>1. IInv => SpikeMovesNoSwitch
    <2> SUFFICES ASSUME IInv, NEW v \in {1000, 1500, 2000}, passes = 4, overridden = 8,
                        NEW bad \in 1 .. 4, window["AUX4"][bad] \in 1000 .. 2000,
                        \A i \in 1 .. 4 : i # bad => window["AUX4"][i] = v
                 PROVE  Class(rcData["AUX4"]) = Class(v)
      BY DEF SpikeMovesNoSwitch
    <2>1. /\ Mean(window["AUX4"]) - 3 <= rcData["AUX4"]
          /\ rcData["AUX4"] <= Mean(window["AUX4"]) + 3
      BY DEF IInv, FilterFollows, Channels
    <2>2. window["AUX4"] \in [1 .. 4 -> RawWidths] /\ rcData["AUX4"] \in DataWidths
      BY DEF IInv, TypeOK, Channels
    <2>3. rcData["AUX4"] \in Int
      BY <2>2, DataRange
    <2> QED BY <2>1, <2>2, <2>3, SpikeOutweighed
  <1> QED BY <1>1, Invariance, PTL

\* The craft is armed only by four values of the throttle and, a pass earlier, four of the
\* switch; whatever the radio brings, and for every box MSP may set.
THEOREM ArmingTakesFrames == Spec => ArmsOnFrames
  <1> DEFINE Frames ==
        ARMED' /\ ~ARMED /\ overridden' = 8 =>
          /\ FilteredTo(window'["THROTTLE"], 0 .. MINCHECK)
          /\ \E classes \in Boxes :
                 FilteredTo(window["AUX4"], {w \in DataWidths : Class(w) \in classes})
  <1>1. ASSUME IInv, IInv', NEW combo \in Combos, NEW ready \in BOOLEAN, RcPass(combo, ready),
               ARMED', ~ARMED, overridden' = 8
        PROVE  Frames
    <2>1. rcData'["THROTTLE"] <= MINCHECK /\ option
      BY <1>1 DEF RcPass, ArmBox
    <2>2. passes # 0 /\ passes' # 0 /\ overridden \in 7 .. 8
      BY <1>1, <2>1 DEF IInv, TypeOK, OptionOfBox, RcPass, computeRC
    <2>3. /\ window'["THROTTLE"] \in [1 .. 4 -> RawWidths] /\ rcData'["THROTTLE"] \in DataWidths
          /\ window["AUX4"] \in [1 .. 4 -> RawWidths] /\ rcData["AUX4"] \in DataWidths
      BY <1>1 DEF IInv, TypeOK, Channels
    <2>4. /\ Mean(window'["THROTTLE"]) - 3 <= rcData'["THROTTLE"]
          /\ rcData'["THROTTLE"] <= Mean(window'["THROTTLE"]) + 3
      BY <1>1, <2>2 DEF IInv, FilterFollows, Channels
    <2>5. /\ Mean(window["AUX4"]) - 3 <= rcData["AUX4"]
          /\ rcData["AUX4"] <= Mean(window["AUX4"]) + 3
      BY <1>1, <2>2 DEF IInv, FilterFollows, Channels
    <2>6. FilteredTo(window'["THROTTLE"], 0 .. MINCHECK)
      <3>0. PICK data \in DataWidths : data = rcData'["THROTTLE"]
        BY <2>3
      <3>1. data \in 0 .. MINCHECK
        BY <2>1, <3>0, DataRange DEF MINCHECK
      <3>2. rcData'["THROTTLE"] \in Int
        BY <3>0, DataRange
      <3> QED BY <2>3, <2>4, <3>0, <3>1, <3>2, NearIsFiltered DEF FilteredTo
    <2>7. PICK classes \in Boxes : Class(rcData["AUX4"]) \in classes
      BY <1>1, <2>1 DEF IInv, OptionOfBox
    <2>8. FilteredTo(window["AUX4"], {w \in DataWidths : Class(w) \in classes})
      <3>1. rcData["AUX4"] \in {w \in DataWidths : Class(w) \in classes}
        BY <2>3, <2>7
      <3>2. rcData["AUX4"] \in Int
        BY <2>3, DataRange
      <3> QED BY <2>3, <2>5, <3>1, <3>2, NearIsFiltered DEF FilteredTo
    <2> QED BY <2>6, <2>7, <2>8
  <1>2. IInv /\ IInv' /\ [Next]_vars => Frames \/ UNCHANGED vars
    <2> SUFFICES ASSUME IInv, IInv', Next, ARMED', ~ARMED, overridden' = 8 PROVE Frames
      OBVIOUS
    <2>1. Pass
      BY DEF Next, Restart, Boot, TaskPass, Receive, SetRawRC, SetBox, flags
    <2> HIDE DEF Frames
    <2> QED BY <2>1, <1>1 DEF Pass
  <1> QED BY <1>2, Invariance, PTL DEF Spec, ArmsOnFrames
=============================================================================
