\* Two requests at a time, limits of two and three.
CONSTANTS
    Slot = {s1, s2}
    Client <- AllClients
    Cases <- AllCases
    MaxPairFailures = 2
    MaxIpFailures = 3
    MaxAttempts = 2
    CaptchaPairFailures = 1
    CaptchaAttempts = 1
    Window = 3
    Block = 3
    Cooldown = 1
SPECIFICATION Spec
INVARIANTS
    CountsBounded
    BlockedOnceCounted
PROPERTY
    MailsAreApart
CHECK_DEADLOCK FALSE
