CONSTANTS
    Requests <- MCRequests
    Messages <- MCMessages
    AssemblyLength <- MCAssemblyLength
    OwnerPoint <- MCOwnerPoint
    InputPoint <- MCInputPoint
    ListenPoint <- MCListenPoint
    NumInputOnly = 1
    NumListenOnly = 1
    NumExplicit = 1
    ConsumeRunIdle = TRUE
    ProduceRunIdle = FALSE
    Identity <- MCIdentity
    SizeModulus = 65536
    NoConn = NoConn
SPECIFICATION Spec
INVARIANTS
    TypeOK
    OwnConnectionPoints
    SuccessMeansOpen
    SharedProductionAgrees
    CloseEndsTriad
    SizeHintConverges
PROPERTIES
    ConfigKeptForConnections
