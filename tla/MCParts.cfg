SPECIFICATION MCSpec
CONSTANTS
    ListNodeMax = 3
    NodeNumbers = {0, 1}
    Block = 2
    PoolBytes = 3
    PoolUser = {"t1", "t2", "t3"}
    PoolList = {"l1", "l2"}
    PoolListOf <- MCListOf
    AskMax = 3
    TaskMax = 2
    Delays = {0, 3}
    RunCounts <- MCRunCounts
    ClockMax = 5
    AliveDelay = 3
    DropDelay = 5
    Root = "root"
    Component = {"a", "b", "c"}
    IDsOf <- MCIDs
    ChangeMax = 1
    Producers = {1, 2, 3}
    Messages = {m1, m2}
    QueueMax = 3
    THREAD_POOL_MAX = 3
    LockingThread = {1, 2, 3, 4}
    NoThread = NoThread
    SwapThread = {1, 2, 3}
    Unowned = Unowned
    LoopMax = 1
    TaskTotal = 3
    PacketLengths = {3, 4}
    PacketBufferMax = 4
    PacketMax = 3
    WireMax = 3
    RetryMax = 1
    AlivePeriod = 2
    TestMax = 1
    AliveMax = 1
    EchoConn = {"c1", "c2"}
    ZeroSocket = ZeroSocket
    InvalidSocket = InvalidSocket
    InputMax = 2
INVARIANT ListsSound
INVARIANT PoolSound
INVARIANT RunsCounted
INVARIANT ClientSound
INVARIANT TreeWalksExact
INVARIANT MailboxTypeOK
INVARIANT NothingLeftBehind
INVARIANT ListsLiveLongEnough
INVARIANT CounterSafe
INVARIANT LockSafe
INVARIANT SwapsSafe
INVARIANT StuckOnlyInOppositeOrder
INVARIANT TurnsKept
INVARIANT StreamSafe
INVARIANT WholeAndNumbered
INVARIANT EchoSafe
PROPERTY ListsImplementNodePool
PROPERTY NeverEarly
PROPERTY ParentFirst
PROPERTY EverythingTaken
PROPERTY EveryPartEnds
CHECK_DEADLOCK FALSE
