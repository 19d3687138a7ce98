\* Two mails with two events each, two recovery operations, two key versions.
CONSTANTS
    Mail = {"m1", "m2"}
    Event <- TwoMails
    Operation = {o1, o2}
    Version = {1, 2}
    Keyrings <- Rotation
SYMMETRY OperationSymmetry
SPECIFICATION Spec
INVARIANTS
    BlockedUntilReviewed
    AliasesAgree
    OrderDoesNotMatter
    QueuedEventsMatch
CHECK_DEADLOCK FALSE
