SPECIFICATION FairSpec
CONSTANTS
    Conn = {c1}
    Sock = {s1}
    NoConn = NoConn
    ListenHandle = ListenHandle
    INVALID_SOCKET = INVALID_SOCKET
    WordSize = 2
    MaxSend = 2
    Kinds = {"MESSAGE", "EXIT"}
    Senders = {c1}
    Leavers = {}
    ClientMay = {}
    NodeMax = 1
    ConnectionMax = 2
    FdArrayMax = 2
PROPERTY GameQueueSpec
PROPERTY SendQueueSpec
CHECK_DEADLOCK FALSE
