SPECIFICATION FairSpec
CONSTANTS
    Trims <- MCTrims
    Others <- MCOthers
    Defaults <- MCDefaults
    Zeroes <- MCZeroes
    MaxFailures = 2
INVARIANTS
    TornIsCaught
    FliesWhatIsSaved
PROPERTIES
    BootCompletes
