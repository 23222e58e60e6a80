CONSTANTS
    Fds = {f1, f2, f3}
    NoFd = NoFd
    Hosts = {a1}
    NoHost = NoHost
    Originators = {o1}
    Serials = {1, 2}
    NumSessions = 2
    NumExplicitConns = 2
    NoConn = NoConn
    InactivityTimeout = 1
    AssertsEnabled = TRUE
SPECIFICATION Spec
INVARIANTS
    AcceptFindsTimer
