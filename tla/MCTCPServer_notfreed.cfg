SPECIFICATION Spec
CONSTANTS
    Conn = {c1, c2}
    Sock = {s1, s2}
    NoConn = NoConn
    ListenHandle = ListenHandle
    INVALID_SOCKET = INVALID_SOCKET
    WordSize = 3
    MaxSend = 1
    Kinds = {"ALIVE"}
    Senders = {c1}
    Leavers = {c1}
    ClientMay = {"skip"}
    NodeMax = 2
    ConnectionMax = 3
    FdArrayMax = 3
SYMMETRY HandleSymmetry
INVARIANT DisconnectFreesNode
CHECK_DEADLOCK FALSE
