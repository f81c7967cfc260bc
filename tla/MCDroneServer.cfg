SPECIFICATION FairSpec
CONSTANTS
    Clients = {c1}
    NoClient = NoClient
    Channels <- MCChannels
    InitOrder <- MCOrder
    ParamOrder <- MCOrder
    WidthOrder <- MCOrder
    InitValue <- MCInitValue
    Packets <- MCPackets
    NoPacket = NoPacket
    Commands = {"ARM", "DARM", "LAND", "TELE"}
    BacklogMax = 1
    InboxMax = 1
    UdpMax = 1
INVARIANTS
    TypeOK
    QuiescentAccept
    KeepsServing
    ArmedIsAttended
    OneLateFrame
PROPERTIES
    SticksMoveOnlyAfterArm
    RefinesSession
    HangUpFreesServer
    DisarmTakesEffect
    ArmStartsOutput
