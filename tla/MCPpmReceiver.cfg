SPECIFICATION FairSpec
CONSTANTS
    Frames <- MCFrames
    Gaps <- MCGaps
    GlitchTimes <- MCGlitchTimes
    Silences <- MCSilences
    Lates <- MCLates
    Tears <- MCTears
    Carries <- MCCarries
    MaxFaults = 2
INVARIANTS
    CountsAgree
    NoCrossTalk
    StoresInside
PROPERTIES
    Resynchronises
