SPECIFICATION Spec
CONSTANTS
    Events <- MCEvents
    Keys = {"THUMBL", "SELECT", "START"}
    Settings <- MCSettings
    initialGain = 2
    minGain = 1
    maxGain = 2
    minThrottlePlatform = 1000
    maxThrottlePlatform = 1002
INVARIANTS
    PayloadCurrent
PROPERTIES
    ArmsWhileHeld
    PlatformComesDown
