\* WORKER_SLOTS = 2: two pro loops and one of each other tier.
CONSTANTS
    pro1 = pro1
    pro2 = pro2
    light = light
    free = free
    anon = anon
    Loop = {pro1, pro2, light, free, anon}
    Priority <- TierPriority
    Slots = 2
    Period = 8
SPECIFICATION FairSpec
INVARIANTS
    SlotsAccounted
    LastServedWithinPeriod
PROPERTY
    ShutdownEnds
CHECK_DEADLOCK FALSE
