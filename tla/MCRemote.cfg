SPECIFICATION FairSpec
CONSTANTS
    MaxAttempts = 2
    PressMax = 3
    QueueMax = 2
    Sticks = {"low", "high"}
    NoPayload = NoPayload
\* The application may crash, or be left alone.
CHECK_DEADLOCK FALSE
INVARIANTS
    CommandsSentOnce
    StatusHasOwner
    OneSender
PROPERTIES
    DisconnectCompletes
