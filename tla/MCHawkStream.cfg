SPECIFICATION Spec
CONSTANTS
    Commands = {"ARM", "DARM", "TELE", "LAND"}
    SentMax = 3
\* The remote need not send: the system may stop.
CHECK_DEADLOCK FALSE
INVARIANTS
    OnlyWhatWasSent
    LostOnlyWhenCut
