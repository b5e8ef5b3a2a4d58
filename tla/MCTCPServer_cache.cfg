SPECIFICATION Spec
CONSTANTS
    Conn = {c1, c2}
    Sock = {s1, s2}
    NoConn = NoConn
    ListenHandle = ListenHandle
    INVALID_SOCKET = INVALID_SOCKET
    WordSize = 2
    MaxSend = 2
    Kinds = {"MESSAGE"}
    Senders = {c1}
    Leavers = {c1}
    ClientMay = {}
    NodeMax = 2
    ConnectionMax = 3
    FdArrayMax = 3
SYMMETRY HandleSymmetry
INVARIANT CacheIsTheList
CHECK_DEADLOCK FALSE
