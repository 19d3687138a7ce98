\* Two instances, two rows whose sends always fail, and the code's own times in seconds.
CONSTANTS
    Event = {e1, x1, x2}
    Poison = {x1, x2}
    Publisher = {p1, p2}
    ClaimBatchSize = 3
    SendDeadline = 12
    SendTimes = {5, 7}
    TxTimeout = 20
    MaxUnanswered = 1
    MaxCuts = 1
SPECIFICATION FairSpec
INVARIANTS
    SentOnceButForUnsure
    SendsEndInTime
PROPERTY EventsAreDelivered
CHECK_DEADLOCK FALSE
