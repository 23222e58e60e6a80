SPECIFICATION MCSpec
CONSTANTS
    Clients = {c1}
    NoClient = NoClient
    NumExplicitConns = 1
    SeqModulus = 2
    FirstSeq = 1
    Services = {"Read", "Reset", "Close"}
    OtherMessages <- MCOtherMessages
    NoReply = NoReply
    NameLength = 3
    ReadLength = 2
    MaxRequests = 3
    MaxConnectionId = 2
    MaxRetries = 2
    MaxLost = 1
    MaxQueue = 2
    Requesters = {r1, r2}
    DelaySlots = 2
    DefaultDelay = 4
    MinimumDelay = 3
    AskedDelays = {0, 1}
    MaxCycle = 2
    NoMessage = NoMessage
INVARIANT TypeOK
INVARIANT RepliesFit
INVARIANT DelayKept
PROPERTY AtMostOnce
PROPERTY RequestAnswered
PROPERTY DelayedAnswerSent
