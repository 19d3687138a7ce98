---------------------------- MODULE MCAuthAccounts ----------------------------
(***************************************************************************)
(* AuthAccounts with a few requests of each kind, on an address that is    *)
(* registered or signed in with Google and one that only Google uses.      *)
(***************************************************************************)
EXTENDS AuthAccounts, TLC

Symmetry ==
    Permutations(Ask) \cup Permutations(Verify) \cup Permutations(Google)
===============================================================================
