CONSTANTS
    Req = {o, q}
    TokenLists <- SmallTokenLists
    Enrolled <- SmallEnrolled
    Workers = {"w1"}
    QueueMax = 1
    MaxStreams = 1
    MaxSends = 2
    MaxChans = 2
    MaxEdits = 1
SPECIFICATION FairSpec
INVARIANTS
    ParkedRequestsHold
PROPERTIES
    GrantsAreAccepted
    Resolved
CHECK_DEADLOCK FALSE
