\* Two admissions compete for a storage of four bytes, or for a day's quota alone.
CONSTANTS
    b1 = b1
    b2 = b2
    b3 = b3
    f1 = f1
    f2 = f2
    f3 = f3
    f4 = f4
    Batch = {b1, b2, b3}
    File = {f1, f2, f3}
    BatchOf <- MCBatchOf
    Request = {r1, r2}
    Nobody = Nobody
    InputBytes <- TwoEach
    OutputBytes <- ShrunkOrLarger
    Limited = {TRUE, FALSE}
    StorageBytes = 4
    DailyFiles = 2
    MaxDay = 2
SPECIFICATION Spec
INVARIANTS
    StorageKept
    DailyQuotaExact
CHECK_DEADLOCK FALSE
