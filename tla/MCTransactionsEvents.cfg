\* Two events and a sweep interleave on one batch of two files.
CONSTANTS
    b1 = b1
    b2 = b2
    f1 = f1
    f2 = f2
    u1 = u1
    h1 = h1
    h2 = h2
    Batch = {b1}
    File = {f1, f2}
    Subject = {u1}
    BatchOf <- OneBatch
    SubjectOf <- OneOwner
    NoBatch = NoBatch
    Request = {r1}
    Handler = {h1, h2}
    Sweep = {s1}
    Purge = {}
    Nobody = Nobody
    MaxAttempt = 1
    MaxTime = 2
    UploadWindow = 1
    Retentions = {1}
    PurgeGrace = 0
SPECIFICATION Spec
PROPERTY ImplementsLifecycle
SYMMETRY FileHandlerSymmetry
CHECK_DEADLOCK FALSE
