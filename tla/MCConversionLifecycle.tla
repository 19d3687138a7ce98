------------------------ MODULE MCConversionLifecycle ------------------------
(***************************************************************************)
(* ConversionLifecycle on one owner with two batches, one of two files and *)
(* one of a single file, so that an admission to one batch can evict the   *)
(* results of the other and a batch can have mixed outcomes.               *)
(***************************************************************************)
EXTENDS ConversionLifecycle

CONSTANTS b1, b2, f1, f2, f3, u1

MCBatchOf == [f \in File |-> IF f = f3 THEN b2 ELSE b1]
MCSubjectOf == [b \in Batch |-> u1]

==============================================================================
