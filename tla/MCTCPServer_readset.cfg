SPECIFICATION Spec
CONSTANTS
    Conn = {c1, c2}
    Sock = {s1, s2}
    NoConn = NoConn
    ListenHandle = ListenHandle
    INVALID_SOCKET = INVALID_SOCKET
    WordSize = 3
    MaxSend = 0
    Kinds = {"MESSAGE"}
    Senders = {}
    Leavers = {}
    ClientMay = {}
    NodeMax = 2
    ConnectionMax = 3
    FdArrayMax = 2
SYMMETRY Symmetry
INVARIANT ReadSetInArray
CHECK_DEADLOCK FALSE
