--------------------------- MODULE MCAuthAttempts ---------------------------
(***************************************************************************)
(* AuthAttempts with two accounts behind one address, the mails of one     *)
(* account from two addresses, and its registration.  Other clients share  *)
(* no key and so do not meet.                                              *)
(***************************************************************************)
EXTENDS AuthAttempts

Asks(a, i, e) == [action |-> a, ip |-> i, email |-> e]

OneAddress == {Asks("login", "i1", "e1"), Asks("login", "i1", "e2")}
OneAccount == {Asks("forgot_password", "i1", "e1"), Asks("forgot_password", "i2", "e1")}
Registration == {Asks("resend_confirmation", "i1", "e1"), Asks("register", "i1", "e1")}

AllCases == {OneAddress, OneAccount, Registration}
AllClients == UNION AllCases
=============================================================================
