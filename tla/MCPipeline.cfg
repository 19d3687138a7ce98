\* One copy of the request and up to two faults, or two and one.
CONSTANTS
    MaxInputBytes = 30
    MaxPixels = 8
    Case <- Cases
    Message = {"m1", "m2"}
    MaxReceives = 2
SPECIFICATION FairSpec
INVARIANTS
    CompletedIsStored
    ResultOfVerifiedInput
    FailuresAreDeserved
    ResultsAreClean
    PixelsLostForAReason
PROPERTIES
    EveryRequestAnswered
CHECK_DEADLOCK FALSE
