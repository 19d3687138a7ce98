\* A batch of two files, two attempts, two admissions at a time, the cron jobs fair.
SPECIFICATION FairSpec
CONSTANTS
    b1 = b1  b2 = b2  f1 = f1  f2 = f2  f3 = f3  u1 = u1
    Batch = {b1}
    File = {f1, f2}
    Subject = {u1}
    Request = {r1, r2}
    NoBatch = NoBatch
    BatchOf <- MCBatchOf
    SubjectOf <- MCSubjectOf
    MaxAttempt = 2
    MaxInFlight = 2
    MaxTime = 3
    UploadWindow = 2
    Retentions = {1, 2}
    PurgeGrace = 1
INVARIANTS
    BatchStatusJustified
    ResultFromLatestStart
PROPERTIES
    OutcomesAreFinal
    EveryBatchIsPurged
CHECK_DEADLOCK FALSE
