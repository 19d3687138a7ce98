---------------------- MODULE MCConversionTransactions ----------------------
(***************************************************************************)
(* ConversionTransactions on small sets of rows and processes.             *)
(***************************************************************************)
EXTENDS ConversionTransactions, TLC

CONSTANTS b1, b2, f1, f2, u1, h1, h2

OneBatch == [f \in File |-> b1]
BatchEach == [f \in File |-> IF f = f1 THEN b1 ELSE b2]
OneOwner == [b \in Batch |-> u1]

\* The two one-file batches are interchangeable as wholes, and so are the requests.
Mirror == (b1 :> b2) @@ (b2 :> b1) @@ (f1 :> f2) @@ (f2 :> f1)
MirrorRequestSymmetry ==
    Permutations(Request) \cup {Mirror @@ p : p \in Permutations(Request)}

FileHandlerSymmetry == Permutations(Handler) \cup Permutations(File)
=============================================================================
