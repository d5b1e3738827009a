SPECIFICATION MCSpec
CONSTANTS
    Sender = {"poll_task", "cmd_task"}
    Requests <- MCRequests
    Statuses <- MCStatuses
    Foreign <- MCForeign
    TagModulus = 65536
    RecvBuf = 28
    SockCap = 2
    CHAN_BOUND = 1
    MaxDatagrams = 2
    Home <- MCHome
    Nobody = Nobody
    BufLen = 60
    Datagrams <- MCDatagrams
INVARIANTS
    TypeOK
    CommandsUnderstood
    TagsUnique
    StatusesTrue
    FramesTrue
    SamplesForwarded
    BufferLastsTwoSeconds
PROPERTIES
    GroupIsServed
CHECK_DEADLOCK FALSE
