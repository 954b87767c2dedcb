SPECIFICATION FairSpec
CONSTANTS
    r1 = r1
    r2 = r2
    k1 = k1
    c1 = c1
    None = None
    Requests <- TwoRequests
    Keepwarms <- OneKeepwarm
    Controls <- OneControl
    Guarded <- Nobody
    Cancellable <- OneRequest
    HandoffGrace = 1
    KeepwarmGrace = 2
    RequestGrace = 3
    ControlGrace = 3
    MaxAge = 3
INVARIANTS
    QueuedIsExact
    SlotRecordsAreLive
    ChannelIsExclusive
PROPERTY
    EveryRequestServed
CHECK_DEADLOCK FALSE
