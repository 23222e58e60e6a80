CONSTANTS
    Fds = {f1, f2, f3}
    NoFd = NoFd
    Hosts = {a1, a2}
    NoHost = NoHost
    Originators = {o1, o2}
    Serials = {1}
    NumSessions = 2
    NumExplicitConns = 2
    NoConn = NoConn
    InactivityTimeout = 1
    AssertsEnabled = FALSE
SPECIFICATION FairSpec
INVARIANTS
    TypeOK
    SocketsNotShared
    TimersMatchSessions
    RegistrationFindsTimer
    PoolMatchesList
    TriadsUnique
PROPERTIES
    SilentSessionsReclaimed
    SessionEndsWithSocket
    LoneConnectionEndsWithSession
