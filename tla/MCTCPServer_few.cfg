SPECIFICATION Spec
CONSTANTS
    Conn = {c1, c2, c3, c4}
    Sock = {s1, s2, s3, s4}
    NoConn = NoConn
    ListenHandle = ListenHandle
    INVALID_SOCKET = INVALID_SOCKET
    WordSize = 2
    MaxSend = 2
    Kinds = {"ALIVE"}
    Senders = {c2}
    Leavers = {}
    ClientMay = {"silence"}
    NodeMax = 4
    ConnectionMax = 3
    FdArrayMax = 3
SYMMETRY PeerSymmetry
INVARIANT Settled
ACTION_CONSTRAINT FewStep
CHECK_DEADLOCK FALSE
