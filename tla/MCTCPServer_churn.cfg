SPECIFICATION Spec
CONSTANTS
    Conn = {c1, c2}
    Sock = {s1, s2}
    NoConn = NoConn
    ListenHandle = ListenHandle
    INVALID_SOCKET = INVALID_SOCKET
    WordSize = 3
    MaxSend = 1
    Kinds = {"MESSAGE_2"}
    Senders = {c1, c2}
    Leavers = {c1}
    ClientMay = {}
    NodeMax = 2
    ConnectionMax = 3
    FdArrayMax = 3
SYMMETRY HandleSymmetry
INVARIANT TypeOK
INVARIANT NoLostWakeup
INVARIANT RequestNoticed
INVARIANT NoNullCounter
INVARIANT SendNodesPointToClients
INVARIANT NoHandleLeak
INVARIANT NeverToSelf
INVARIANT Settled
INVARIANT ClientFound
INVARIANT PolledHandlesOpen
CHECK_DEADLOCK FALSE
