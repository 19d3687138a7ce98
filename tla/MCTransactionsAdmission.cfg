\* Two admissions of one owner evict, while an event and the purge run.
CONSTANTS
    b1 = b1
    b2 = b2
    f1 = f1
    f2 = f2
    u1 = u1
    h1 = h1
    h2 = h2
    Batch = {b1, b2}
    File = {f1, f2}
    Subject = {u1}
    BatchOf <- BatchEach
    SubjectOf <- OneOwner
    NoBatch = NoBatch
    Request = {r1, r2}
    Handler = {h1}
    Sweep = {}
    Purge = {p1}
    Nobody = Nobody
    MaxAttempt = 1
    MaxTime = 1
    UploadWindow = 1
    Retentions = {1}
    PurgeGrace = 0
SPECIFICATION Spec
INVARIANT CyclesNeedThePurge
PROPERTY ImplementsLifecycle
SYMMETRY MirrorRequestSymmetry
CHECK_DEADLOCK FALSE
