---------------------------- MODULE MCAuthSessions ----------------------------
(***************************************************************************)
(* AuthSessions with a few requests of each kind.                          *)
(***************************************************************************)
EXTENDS AuthSessions, TLC

RefreshSymmetry == Permutations(Refresh)
===============================================================================
