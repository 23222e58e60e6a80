CONSTANTS
    Fds = {f1, f2, f3}
    NoFd = NoFd
    Originators = {o1}
    NumInputOnly = 2
    NumListenOnly = 1
    NumExplicit = 1
    OToTTypes = {"p2p"}
    TToOTypes = {"multicast", "p2p"}
    NoConn = NoConn
SPECIFICATION Spec
INVARIANTS
    OneSocketHandlesAll
