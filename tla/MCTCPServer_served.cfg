SPECIFICATION FairSpec
CONSTANTS
    Conn = {c1, c2}
    Sock = {s1, s2}
    NoConn = NoConn
    ListenHandle = ListenHandle
    INVALID_SOCKET = INVALID_SOCKET
    WordSize = 3
    MaxSend = 1
    Kinds = {"ALIVE", "EXIT"}
    Senders = {c1}
    Leavers = {}
    ClientMay = {}
    NodeMax = 2
    ConnectionMax = 3
    FdArrayMax = 3
PROPERTY PacketsHandled
PROPERTY ShutdownTerminates
ACTION_CONSTRAINT ArriveStep
CHECK_DEADLOCK FALSE
