SPECIFICATION FairSpec
CONSTANTS
    Radio <- MCRadio
    Combos = {"none", "gyro"}
    Overrides <- MCOverrides
    Boxes <- MCBoxes
    GyroReads = 6
    CommandDelay = 1
INVARIANTS
    ArmedIsCalibrated
    FilterFollows
    SpikeMovesNoSwitch
    OverrideEnds
PROPERTIES
    DisarmHeard
    ArmsOnFrames
