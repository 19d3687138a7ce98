\* Two refreshes, a sign-in, a reset and a logout of a user.
CONSTANTS
    Session = {s1}
    Login = {l1}
    Refresh = {r1, r2}
    Reset = {x1}
    Logout = {o1}
    Nobody = Nobody
    Never = Never
    MaxToken = 3
    MaxPassword = 2
    MaxTime = 2
    TTL = 2
    Grace = 0
SPECIFICATION Spec
INVARIANTS
    NoSessionOnOldPassword
    OneUsableCredential
PROPERTY RevokedStaysRevoked
SYMMETRY RefreshSymmetry
CHECK_DEADLOCK FALSE
