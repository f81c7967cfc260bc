SPECIFICATION FairSpec
CONSTANTS
    Events <- MCEvents
    Keys = {"SELECT"}
    Settings = {}
    initialGain = 1000
    minGain = 1000
    maxGain = 1000
    minThrottlePlatform = 1000
    maxThrottlePlatform = 2000
ACTION_CONSTRAINT
    PilotBound
INVARIANTS
    MotorsOnlyByPilot
    ThrottleByPilot
PROPERTIES
    StopsMotors
