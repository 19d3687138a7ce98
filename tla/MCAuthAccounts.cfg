CONSTANTS
    Email = {e1, e2}
    Registrable = {e1}
    Subject = {g1}
    Register = {n1}
    Ask = {a1, a2}
    Verify = {v1, v2}
    Reset = {x1}
    Google = {o1, o2}
    None = None
    MaxBusy = 3
    MaxToken = 3
    MaxOld = 1
SPECIFICATION Spec
INVARIANTS
    IssueNeverCollides
    GoogleUsersStayPasswordless
    VerifyingLinkIsNeverInvalid
    LostRacesAreExplained
PROPERTY OnlyNewestUnspentToken
SYMMETRY Symmetry
CHECK_DEADLOCK FALSE
