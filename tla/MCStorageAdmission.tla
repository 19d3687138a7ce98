-------------------------- MODULE MCStorageAdmission --------------------------
(***************************************************************************)
(* StorageAdmission on three batches of one owner.                         *)
(***************************************************************************)
EXTENDS StorageAdmission

CONSTANTS b1, b2, b3, f1, f2, f3, f4

MCBatchOf == [f \in File |-> CASE f = f1 -> b1 [] f = f2 -> b2 [] OTHER -> b3]

TwoEach == [f \in File |-> 2]
ShrunkOrLarger == [f \in File |-> {1, 3}]
=============================================================================
