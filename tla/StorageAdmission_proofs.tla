------------------------ MODULE StorageAdmission_proofs ------------------------
(***************************************************************************)
(* For any number of batches, files, requests and days: the daily counter  *)
(* is the number of files admitted that day, each once, and never above    *)
(* the quota; and the owner's files keep within the plan's storage.        *)
(*                                                                         *)
(* Neither is inductive.  A commit adds what was claimed and counted       *)
(* statements before, so the invariants say what the locks make of it: the *)
(* batch row keeps the claimed files READY, the row of daily_usage keeps   *)
(* the room that was found, the owner's advisory lock keeps other          *)
(* admissions out, and the owner's batch rows keep what is evicted.        *)
(*                                                                         *)
(* The second half is about OutboxPublisher, which sends what admissions   *)
(* leave in the outbox, for any number of rows and instances: the lock on  *)
(* a claimed row makes its send the only one, and the deadline keeps a     *)
(* transaction's sends inside its timeout.                                 *)
(***************************************************************************)
EXTENDS StorageAdmission, OutboxRows, FiniteSetTheorems, FunctionTheorems, SequenceTheorems,
        WellFoundedInduction, TLAPS

Working(r) == pc[r] \in {"claim", "lockAll", "evict", "reserve", "commit"}

(* What the transaction of a request may rely on.                          *)
TransactionOK(r) ==
    /\ {"batch", "date", "claimed", "deficit", "evicted"} \subseteq DOMAIN tx[r]
    /\ pc[r] # "idle" => tx[r].batch \in Batch /\ tx[r].date \in Days
    /\ Working(r) => batchLock[tx[r].batch] = r
    /\ pc[r] \in {"idle", "lock", "claim"} => tx[r].claimed = {} /\ tx[r].evicted = {}
    /\ \A f \in tx[r].claimed : f \in File /\ BatchOf[f] = tx[r].batch /\ status[f] = "READY"
    /\ pc[r] = "evict" \/ tx[r].evicted # {} => \A b \in Batch : batchLock[b] = r
    /\ pc[r] = "commit" =>
         /\ usageLock[tx[r].date] = r
         /\ usage[tx[r].date] + Cardinality(tx[r].claimed) <= DailyFiles

(* An admitted file has left READY for good.                               *)
AdmittedOK ==
    /\ admissions \in Nat
    /\ admitted \in [Days -> SUBSET File]
    /\ \A d \in Days : \A f \in admitted[d] : status[f] \notin {"UPLOADING", "READY"}

IInv ==
    /\ DailyQuotaExact
    /\ AdmittedOK
    /\ DOMAIN tx = Request
    /\ \A r \in Request : TransactionOK(r)

-----------------------------------------------------------------------------
LEMMA InitIInv == Init => IInv
<1> SUFFICES ASSUME Init PROVE IInv
  OBVIOUS
<1>1. TypeOK
  BY StorageAssumption DEF Init, TypeOK, Days
<1>2. AdmittedOK /\ DOMAIN tx = Request /\ \A d \in Days : admitted[d] = {} /\ usage[d] = 0
  BY DEF Init, AdmittedOK
<1>3. \A r \in Request : TransactionOK(r)
  BY DEF Init, TransactionOK, NoTx, Working
<1>4. DailyQuotaExact
  <2>1. Cardinality({}) = 0 /\ DailyFiles \in Nat
    BY FS_EmptySet, StorageAssumption
  <2> QED
    BY <1>1, <1>2, <2>1 DEF DailyQuotaExact
<1> QED
  BY <1>2, <1>3, <1>4 DEF IInv

-----------------------------------------------------------------------------
(* A file changes that no transaction has claimed.                         *)
LEMMA FileStep ==
    ASSUME IInv, NEW f \in File, NEW s,
           s \in {"READY", "PROCESSING", "COMPLETED", "FAILED", "EXPIRED"},
           status[f] # "READY", s = "READY" => status[f] = "UPLOADING",
           status' = [status EXCEPT ![f] = s], output' \in [File -> Nat],
           UNCHANGED <<limited, day, expires, usage, pc, tx, locks, admissions, admitted>>
    PROVE  IInv'
<1>1. TypeOK'
  BY DEF IInv, DailyQuotaExact, TypeOK, locks
<1>2. DailyQuotaExact'
  BY <1>1 DEF IInv, DailyQuotaExact
<1>3. \A g \in File : status'[g] = IF g = f THEN s ELSE status[g]
  BY DEF IInv, DailyQuotaExact, TypeOK
<1>4. AdmittedOK'
  BY <1>3 DEF IInv, AdmittedOK
<1>5. ASSUME NEW r \in Request PROVE TransactionOK(r)'
  <2>1. TransactionOK(r)
    BY DEF IInv
  <2> QED
    BY <1>3, <2>1 DEF TransactionOK, Working, locks
<1> QED
  BY <1>2, <1>4, <1>5 DEF IInv

LEMMA FileSteps ==
    ASSUME IInv, NEW f \in File, Upload(f) \/ Start(f) \/ Complete(f) \/ Fail(f) \/ Expire(f)
    PROVE  IInv'
<1>1. output \in [File -> Nat]
  BY DEF IInv, DailyQuotaExact, TypeOK
<1>2. CASE Upload(f)
  BY <1>1, <1>2, FileStep DEF Upload, history
<1>3. CASE Start(f)
  BY <1>1, <1>3, FileStep DEF Start, history
<1>4. CASE Complete(f)
  <2>1. PICK bytes \in OutputBytes[f] : output' = [output EXCEPT ![f] = bytes]
    BY <1>4 DEF Complete
  <2>2. output' \in [File -> Nat]
    BY <1>1, <2>1, StorageAssumption
  <2> QED
    BY <1>4, <2>2, FileStep DEF Complete, InFlight
<1>5. CASE Fail(f)
  BY <1>1, <1>5, FileStep DEF Fail, InFlight, history
<1>6. CASE Expire(f)
  BY <1>1, <1>6, FileStep DEF Expire, InFlight, Stored, history
<1> QED
  BY <1>2, <1>3, <1>4, <1>5, <1>6

-----------------------------------------------------------------------------
(* A transaction takes free locks and changes what it holds, but no file.  *)
LEMMA MoveStep ==
    ASSUME IInv, NEW r \in Request,
           UNCHANGED <<limited, day, files, usage, history>>,
           TypeOK', DOMAIN tx' = Request, TransactionOK(r)',
           \A q \in Request \ {r} : tx'[q] = tx[q] /\ pc'[q] = pc[q],
           \A q \in Request \ {r}, b \in Batch : batchLock[b] = q => batchLock'[b] = q,
           \A q \in Request \ {r}, d \in Days : usageLock[d] = q => usageLock'[d] = q
    PROVE  IInv'
<1>1. DailyQuotaExact' /\ AdmittedOK'
  BY DEF IInv, DailyQuotaExact, AdmittedOK, files, history
<1>2. ASSUME NEW q \in Request \ {r} PROVE TransactionOK(q)'
  <2>1. TransactionOK(q) /\ tx'[q] = tx[q] /\ pc'[q] = pc[q]
    BY DEF IInv
  <2>2. status' = status /\ usage' = usage
    BY DEF files
  <2> QED
    BY <2>1, <2>2 DEF TransactionOK, Working
<1> QED
  BY <1>1, <1>2 DEF IInv

LEMMA BeginStep == ASSUME IInv, NEW r \in Request, NEW b \in Batch, Begin(r, b) PROVE IInv'
<1> DEFINE t == [NoTx EXCEPT !.batch = b, !.date = day]
<1>1. /\ pc[r] = "idle"
      /\ tx' = [tx EXCEPT ![r] = t] /\ pc' = [pc EXCEPT ![r] = "lock"]
      /\ UNCHANGED <<limited, day, files, usage, locks, history>>
  BY DEF Begin, Goto
<1>2. /\ {"batch", "date", "claimed", "deficit", "evicted"} \subseteq DOMAIN t
      /\ t.batch = b /\ t.date = day /\ t.claimed = {} /\ t.evicted = {}
  BY DEF NoTx
<1> HIDE DEF t
<1>3. DOMAIN tx = Request /\ TypeOK
  BY DEF IInv, DailyQuotaExact
<1>4. TypeOK'
  BY <1>1, <1>3 DEF TypeOK, files, locks
<1>5. tx'[r] = t /\ pc'[r] = "lock"
  BY <1>1, <1>3 DEF TypeOK
<1>6. TransactionOK(r)'
  BY <1>2, <1>3, <1>5 DEF TransactionOK, Working, TypeOK
<1> QED
  BY <1>1, <1>3, <1>4, <1>6, MoveStep DEF TypeOK, locks

LEMMA LockStep == ASSUME IInv, NEW r \in Request, LockOwnerAndBatch(r) PROVE IInv'
<1> DEFINE b == tx[r].batch
<1>1. /\ pc[r] = "lock" /\ batchLock[b] = Nobody
      /\ batchLock' = [batchLock EXCEPT ![b] = r]
      /\ ownerLock' \in {r, ownerLock}
      /\ pc' = [pc EXCEPT ![r] = "claim"]
      /\ UNCHANGED <<limited, day, files, usage, tx, usageLock, history>>
  BY DEF LockOwnerAndBatch, Goto
<1>2. DOMAIN tx = Request /\ TypeOK /\ TransactionOK(r) /\ Nobody \notin Request
  BY StorageAssumption DEF IInv, DailyQuotaExact
<1>3. b \in Batch
  BY <1>1, <1>2 DEF TransactionOK
<1> HIDE DEF b
<1>4. TypeOK'
  BY <1>1, <1>2, <1>3 DEF TypeOK, files
<1>5. TransactionOK(r)'
  BY <1>1, <1>2, <1>3 DEF TransactionOK, Working, TypeOK, files, b
<1>6. \A q \in Request \ {r}, c \in Batch : batchLock[c] = q => batchLock'[c] = q
  BY <1>1, <1>2, <1>3 DEF TypeOK
<1> QED
  BY <1>1, <1>2, <1>4, <1>5, <1>6, MoveStep DEF TypeOK

LEMMA ClaimStep == ASSUME IInv, NEW r \in Request, ClaimAndMeasure(r) PROVE IInv'
<1> DEFINE ready == {f \in FilesOf(tx[r].batch) : status[f] = "READY"}
<1> DEFINE deficit == StorageUsed + InputSum(ready) - StorageBytes
           evicting == limited /\ deficit > 0
           d == IF evicting THEN deficit ELSE 0
           l == IF evicting THEN "lockAll" ELSE "reserve"
<1>1. /\ pc[r] = "claim"
      /\ tx' = [tx EXCEPT ![r] = [tx[r] EXCEPT !.claimed = ready, !.deficit = d]]
      /\ pc' = [pc EXCEPT ![r] = l]
      /\ l \in {"lockAll", "reserve"}
      /\ UNCHANGED <<limited, day, files, usage, locks, history>>
  <2>1. l \in {"lockAll", "reserve"}
    OBVIOUS
  <2> QED
    BY <2>1 DEF ClaimAndMeasure, Goto
<1>2. DOMAIN tx = Request /\ TypeOK /\ TransactionOK(r)
  BY DEF IInv, DailyQuotaExact
<1>3. \A f \in ready : f \in File /\ BatchOf[f] = tx[r].batch /\ status[f] = "READY"
  BY DEF FilesOf
<1> HIDE DEF l, d, ready
<1>4. TypeOK'
  BY <1>1, <1>2 DEF TypeOK, files, locks
<1>5. /\ {"batch", "date", "claimed", "deficit", "evicted"} \subseteq DOMAIN tx'[r]
      /\ tx'[r].batch = tx[r].batch /\ tx'[r].date = tx[r].date
      /\ tx'[r].claimed = ready /\ tx'[r].evicted = tx[r].evicted
      /\ DOMAIN tx' = Request /\ \A q \in Request \ {r} : tx'[q] = tx[q]
  <2> DEFINE t == [tx[r] EXCEPT !.claimed = ready, !.deficit = d]
  <2>1. /\ DOMAIN t = DOMAIN tx[r]
        /\ t.batch = tx[r].batch /\ t.date = tx[r].date
        /\ t.claimed = ready /\ t.evicted = tx[r].evicted
    BY <1>2 DEF TransactionOK
  <2>2. tx' = [tx EXCEPT ![r] = t]
    BY <1>1
  <2> HIDE DEF t
  <2> QED
    BY <1>2, <2>1, <2>2 DEF TransactionOK
<1>6. TransactionOK(r)'
  BY <1>1, <1>2, <1>3, <1>5 DEF TransactionOK, Working, TypeOK, files, locks
<1> QED
  BY <1>1, <1>2, <1>4, <1>5, <1>6, MoveStep DEF TypeOK, locks

LEMMA LockAllStep == ASSUME IInv, NEW r \in Request, LockOwnersBatches(r) PROVE IInv'
<1>1. /\ pc[r] = "lockAll"
      /\ \A b \in Batch : batchLock[b] \in {r, Nobody}
      /\ batchLock' = [b \in Batch |-> r]
      /\ pc' = [pc EXCEPT ![r] = "evict"]
      /\ UNCHANGED <<limited, day, files, usage, tx, ownerLock, usageLock, history>>
  BY DEF LockOwnersBatches, Goto
<1>2. DOMAIN tx = Request /\ TypeOK /\ TransactionOK(r) /\ Nobody \notin Request
  BY StorageAssumption DEF IInv, DailyQuotaExact
<1>3. TypeOK'
  BY <1>1, <1>2 DEF TypeOK, files
<1>4. TransactionOK(r)'
  BY <1>1, <1>2 DEF TransactionOK, Working, TypeOK, files
<1>5. \A q \in Request \ {r}, c \in Batch : batchLock[c] = q => batchLock'[c] = q
  BY <1>1, <1>2
<1> QED
  BY <1>1, <1>2, <1>3, <1>4, <1>5, MoveStep DEF TypeOK

LEMMA EvictStep == ASSUME IInv, NEW r \in Request, Evict(r) PROVE IInv'
<1>1. PICK evicted :
        /\ pc[r] = "evict"
        /\ tx' = [tx EXCEPT ![r].evicted = evicted]
        /\ pc' = [pc EXCEPT ![r] = "reserve"]
        /\ UNCHANGED <<limited, day, files, usage, locks, history>>
  BY DEF Evict, Goto
<1>2. DOMAIN tx = Request /\ TypeOK /\ TransactionOK(r)
  BY DEF IInv, DailyQuotaExact
<1>3. TypeOK'
  BY <1>1, <1>2 DEF TypeOK, files, locks
<1>4. /\ {"batch", "date", "claimed", "deficit", "evicted"} \subseteq DOMAIN tx'[r]
      /\ tx'[r].batch = tx[r].batch /\ tx'[r].date = tx[r].date
      /\ tx'[r].claimed = tx[r].claimed
      /\ DOMAIN tx' = Request /\ \A q \in Request \ {r} : tx'[q] = tx[q]
  BY <1>1, <1>2 DEF TransactionOK
<1>5. TransactionOK(r)'
  BY <1>1, <1>2, <1>4 DEF TransactionOK, Working, TypeOK, files, locks
<1> QED
  BY <1>1, <1>2, <1>3, <1>4, <1>5, MoveStep DEF TypeOK, locks

(* The row of daily_usage is locked from the check of its room on.         *)
LEMMA ReserveStep == ASSUME IInv, NEW r \in Request, ReserveToday(r) PROVE IInv'
<1> DEFINE d == tx[r].date
<1>1. /\ pc[r] = "reserve" /\ usageLock[d] = Nobody
      /\ usage[d] + Cardinality(tx[r].claimed) <= DailyFiles
      /\ usageLock' = [usageLock EXCEPT ![d] = r]
      /\ pc' = [pc EXCEPT ![r] = "commit"]
      /\ UNCHANGED <<limited, day, files, usage, tx, ownerLock, batchLock, history>>
  BY DEF ReserveToday, WithinToday, Goto
<1>2. DOMAIN tx = Request /\ TypeOK /\ TransactionOK(r) /\ Nobody \notin Request
  BY StorageAssumption DEF IInv, DailyQuotaExact
<1>3. d \in Days
  BY <1>1, <1>2 DEF TransactionOK
<1> HIDE DEF d
<1>4. TypeOK'
  BY <1>1, <1>2, <1>3 DEF TypeOK, files
<1>5. TransactionOK(r)'
  BY <1>1, <1>2, <1>3 DEF TransactionOK, Working, TypeOK, files, d
<1>6. \A q \in Request \ {r}, e \in Days : usageLock[e] = q => usageLock'[e] = q
  BY <1>1, <1>2, <1>3 DEF TypeOK
<1> QED
  BY <1>1, <1>2, <1>4, <1>5, <1>6, MoveStep DEF TypeOK

(* The locks of a transaction that ends were its own.                      *)
LEMMA TransactionEnds ==
    ASSUME IInv, NEW r \in Request, EndTransaction(r)
    PROVE  /\ DOMAIN tx' = Request /\ TransactionOK(r)'
           /\ pc' \in [Request -> {"idle", "lock", "claim", "lockAll", "evict", "reserve",
                                   "commit"}]
           /\ ownerLock' \in Request \cup {Nobody}
           /\ batchLock' \in [Batch -> Request \cup {Nobody}]
           /\ usageLock' \in [Days -> Request \cup {Nobody}]
           /\ \A q \in Request \ {r} : tx'[q] = tx[q] /\ pc'[q] = pc[q]
           /\ \A q \in Request \ {r}, b \in Batch : batchLock[b] = q => batchLock'[b] = q
           /\ \A q \in Request \ {r}, d \in Days : usageLock[d] = q => usageLock'[d] = q
<1>1. DOMAIN tx = Request /\ TypeOK
  BY DEF IInv, DailyQuotaExact
<1>2. /\ pc' = [pc EXCEPT ![r] = "idle"] /\ tx' = [tx EXCEPT ![r] = NoTx]
      /\ ownerLock' = IF ownerLock = r THEN Nobody ELSE ownerLock
      /\ batchLock' = [b \in Batch |-> IF batchLock[b] = r THEN Nobody ELSE batchLock[b]]
      /\ usageLock' = [d \in Days |-> IF usageLock[d] = r THEN Nobody ELSE usageLock[d]]
  BY DEF EndTransaction
<1>3. pc'[r] = "idle" /\ tx'[r] = NoTx
  BY <1>1, <1>2 DEF TypeOK
<1>4. TransactionOK(r)'
  BY <1>3 DEF TransactionOK, Working, NoTx
<1> QED
  BY <1>1, <1>2, <1>4 DEF TypeOK

LEMMA EndStep ==
    ASSUME IInv, NEW r \in Request, EndTransaction(r),
           UNCHANGED <<limited, day, files, usage, history>>
    PROVE  IInv'
<1>1. TypeOK'
  BY TransactionEnds DEF IInv, DailyQuotaExact, TypeOK, files
<1> QED
  BY <1>1, TransactionEnds, MoveStep

(* What is committed was READY under the batch's lock, so it was not       *)
(* admitted before, and the counter had room for it.                       *)
LEMMA CommitStep == ASSUME IInv, NEW r \in Request, Commit(r) PROVE IInv'
<1> DEFINE d == tx[r].date
           taken == tx[r].claimed
           evicted == tx[r].evicted
<1>1. /\ pc[r] = "commit"
      /\ status' = [f \in File |-> IF f \in taken THEN "QUEUED"
                                   ELSE IF f \in evicted THEN "EXPIRED" ELSE status[f]]
      /\ expires' = [f \in File |-> IF f \in taken THEN admissions + 1 ELSE expires[f]]
      /\ usage' = [usage EXCEPT ![d] = @ + Cardinality(taken)]
      /\ admissions' = admissions + 1
      /\ admitted' = [admitted EXCEPT ![d] = @ \cup taken]
      /\ EndTransaction(r)
      /\ UNCHANGED <<limited, day, output, outgrown>>
  BY DEF Commit
<1>2. /\ TypeOK /\ AdmittedOK /\ DailyQuotaExact /\ DOMAIN tx = Request
      /\ \A q \in Request : TransactionOK(q)
  BY DEF IInv, DailyQuotaExact
<1>3. /\ d \in Days /\ taken \in SUBSET File
      /\ \A f \in taken : BatchOf[f] = tx[r].batch /\ status[f] = "READY"
      /\ batchLock[tx[r].batch] = r /\ usageLock[d] = r
      /\ evicted # {} => \A b \in Batch : batchLock[b] = r
      /\ usage[d] + Cardinality(taken) <= DailyFiles
  BY <1>1, <1>2 DEF TransactionOK, Working
<1>4. IsFiniteSet(taken) /\ Cardinality(taken) \in Nat
  BY <1>3, StorageAssumption, FS_Subset, FS_CardinalityType
<1> HIDE DEF d, taken, evicted
<1>5. /\ usage[d] \in Nat /\ usage'[d] = usage[d] + Cardinality(taken)
      /\ usage' \in [Days -> 0..DailyFiles]
      /\ \A e \in Days \ {d} : usage'[e] = usage[e]
  <2>1. usage[d] \in 0..DailyFiles /\ usage \in [Days -> 0..DailyFiles] /\ DailyFiles \in Nat
    BY <1>2, <1>3, StorageAssumption DEF TypeOK
  <2> QED
    BY <1>1, <1>3, <1>4, <2>1
<1>6. /\ admitted' \in [Days -> SUBSET File]
      /\ admitted'[d] = admitted[d] \cup taken
      /\ \A e \in Days \ {d} : admitted'[e] = admitted[e]
  BY <1>1, <1>2, <1>3 DEF AdmittedOK
<1>7. \A e \in Days : admitted[e] \cap taken = {}
  BY <1>2, <1>3 DEF AdmittedOK
<1>8. Cardinality(admitted'[d]) = usage'[d]
  <2>1. IsFiniteSet(admitted[d]) /\ Cardinality(admitted[d]) = usage[d]
    BY <1>2, <1>3, StorageAssumption, FS_Subset DEF AdmittedOK, DailyQuotaExact
  <2>2. Cardinality(admitted[d] \cap taken) = 0
    BY <1>3, <1>7, FS_EmptySet
  <2>3. Cardinality(admitted[d] \cup taken) =
          Cardinality(admitted[d]) + Cardinality(taken) - Cardinality(admitted[d] \cap taken)
    BY <1>4, <2>1, FS_Union
  <2> QED
    BY <1>4, <1>5, <1>6, <2>1, <2>2, <2>3
<1>9. TypeOK'
  <2>1. /\ status' \in [File -> {"UPLOADING", "READY", "QUEUED", "PROCESSING", "COMPLETED",
                                  "FAILED", "EXPIRED"}]
        /\ expires' \in [File -> Nat]
    BY <1>1, <1>2 DEF TypeOK, AdmittedOK
  <2> QED
    BY <1>1, <1>2, <1>5, <2>1, TransactionEnds DEF TypeOK
<1>10. DailyQuotaExact'
  <2>1. ASSUME NEW e \in Days
        PROVE  usage'[e] = Cardinality(admitted'[e]) /\ usage'[e] <= DailyFiles
    <3>1. usage'[e] \in 0..DailyFiles /\ DailyFiles \in Nat
      BY <1>5, StorageAssumption
    <3>2. CASE e = d
      BY <1>8, <3>1, <3>2
    <3>3. CASE e # d
      BY <1>2, <1>5, <1>6, <3>1, <3>3 DEF DailyQuotaExact
    <3> QED
      BY <3>2, <3>3
  <2>2. \A e, g \in Days : e # g => admitted'[e] \cap admitted'[g] = {}
    BY <1>2, <1>6, <1>7 DEF DailyQuotaExact
  <2> QED
    BY <1>9, <2>1, <2>2 DEF DailyQuotaExact
<1>11. AdmittedOK'
  <2>1. \A e \in Days : \A f \in admitted'[e] : f \in File /\ (f \in admitted[e] \/ f \in taken)
    BY <1>2, <1>3, <1>6 DEF AdmittedOK
  <2>2. \A e \in Days : \A f \in admitted'[e] : status'[f] \notin {"UPLOADING", "READY"}
    BY <1>1, <1>2, <2>1 DEF AdmittedOK
  <2> QED
    BY <1>1, <1>2, <1>6, <2>2 DEF AdmittedOK
<1>12. ASSUME NEW q \in Request \ {r} PROVE TransactionOK(q)'
  <2>1. /\ TransactionOK(q) /\ tx'[q] = tx[q] /\ pc'[q] = pc[q]
        /\ \A b \in Batch : batchLock[b] = q => batchLock'[b] = q
        /\ \A e \in Days : usageLock[e] = q => usageLock'[e] = q
    BY <1>1, <1>2, TransactionEnds
  <2>2. ASSUME NEW f \in tx[q].claimed PROVE status'[f] = "READY"
    <3>1. /\ Working(q) /\ tx[q].batch \in Batch /\ batchLock[tx[q].batch] = q
          /\ f \in File /\ BatchOf[f] = tx[q].batch /\ status[f] = "READY"
      BY <1>2, <2>1, <2>2 DEF TransactionOK, Working, TypeOK
    <3>2. f \notin taken /\ evicted = {}
      BY <1>3, <3>1
    <3> QED
      BY <1>1, <3>1, <3>2
  <2>3. pc[q] = "commit" => tx[q].date # d
    BY <1>3, <2>1 DEF TransactionOK
  <2> QED
    BY <1>5, <2>1, <2>2, <2>3 DEF TransactionOK, Working
<1> QED
  BY <1>1, <1>10, <1>11, <1>12, TransactionEnds DEF IInv

-----------------------------------------------------------------------------
LEMMA StepIInv == IInv /\ [Next]_vars => IInv'
<1> SUFFICES ASSUME IInv, [Next]_vars PROVE IInv'
  OBVIOUS
<1>1. CASE \E f \in File : Upload(f) \/ Start(f) \/ Complete(f) \/ Fail(f) \/ Expire(f)
  BY <1>1, FileSteps
<1>2. CASE Midnight \/ UNCHANGED vars
  <2>1. /\ UNCHANGED <<limited, files, usage, pc, tx, locks, history>>
        /\ day' \in Days
    BY <1>2, StorageAssumption DEF Midnight, vars, IInv, DailyQuotaExact, TypeOK, Days
  <2>2. TypeOK'
    BY <2>1 DEF IInv, DailyQuotaExact, TypeOK, files, locks
  <2>3. DailyQuotaExact' /\ AdmittedOK'
    BY <2>1, <2>2 DEF IInv, DailyQuotaExact, AdmittedOK, files, history
  <2>4. \A r \in Request : TransactionOK(r)'
    BY <2>1 DEF IInv, TransactionOK, Working, files, locks
  <2> QED
    BY <2>1, <2>3, <2>4 DEF IInv
<1>3. CASE \E r \in Request, b \in Batch : Begin(r, b)
  BY <1>3, BeginStep
<1>4. ASSUME NEW r \in Request,
             \/ LockOwnerAndBatch(r) \/ ClaimAndMeasure(r) \/ LockOwnersBatches(r)
             \/ Evict(r) \/ RefuseStorage(r) \/ ReserveToday(r) \/ Commit(r) \/ RollBack(r)
      PROVE  IInv'
  <2>1. CASE RefuseStorage(r) \/ RollBack(r)
    BY <2>1, EndStep DEF RefuseStorage, RollBack
  <2> QED
    BY <1>4, <2>1, LockStep, ClaimStep, LockAllStep, EvictStep, ReserveStep, CommitStep
<1> QED
  BY <1>1, <1>2, <1>3, <1>4 DEF Next

(* admission.db.spec.ts:214, for every plan and any number of parallel     *)
(* admissions: the quota is enforced exactly.  The upsert's row lock keeps *)
(* the room it found until the commit.                                     *)
THEOREM QuotaIsExact == Spec => []DailyQuotaExact
<1>1. IInv => DailyQuotaExact
  BY DEF IInv
<1> QED
  BY <1>1, InitIInv, StepIInv, PTL DEF Spec

-----------------------------------------------------------------------------
(* Sums over finite sets of files.  SumFunctionOnSet is a recursive        *)
(* function on subsets; that it exists, that its values do not depend on   *)
(* the set it was made for, and what it yields, follow because a set of    *)
(* naturals has a least element.                                           *)
LEMMA Least == ASSUME NEW T \in SUBSET Nat, T # {} PROVE \E x \in T : \A y \in T : x <= y
<1>1. PICK x \in T : \A y \in T : ~(<<y, x>> \in OpToRel(<, Nat))
  BY NatLessThanWellFounded, WFMin
<1>2. ASSUME NEW y \in T PROVE x <= y
  <2>1. ~(y < x)
    BY <1>1 DEF OpToRel
  <2> QED BY <2>1
<1> QED BY <1>2

(* A collection of finite sets has one with the fewest elements.           *)
LEMMA Smallest ==
    ASSUME NEW C, C # {}, \A s \in C : IsFiniteSet(s)
    PROVE  \E s \in C : \A t \in C : Cardinality(s) <= Cardinality(t)
<1> DEFINE N == {Cardinality(s) : s \in C}
<1>1. N \in SUBSET Nat /\ N # {}
  BY FS_CardinalityType
<1>2. PICK n \in N : \A m \in N : n <= m
  BY <1>1, Least
<1> QED
  BY <1>2

LEMMA Fewer ==
    ASSUME NEW s, IsFiniteSet(s), NEW x \in s
    PROVE  /\ IsFiniteSet(s \ {x})
           /\ Cardinality(s \ {x}) \in Nat /\ Cardinality(s) \in Nat
           /\ Cardinality(s \ {x}) < Cardinality(s)
<1>1. IsFiniteSet(s \ {x}) /\ Cardinality(s \ {x}) = Cardinality(s) - 1
  BY FS_RemoveElement
<1>2. Cardinality(s \ {x}) \in Nat /\ Cardinality(s) \in Nat
  BY <1>1, FS_CardinalityType
<1> QED
  BY <1>1, <1>2

Some(s) == CHOOSE x \in s : TRUE

LEMMA Rest ==
    ASSUME NEW s, IsFiniteSet(s), s # {}
    PROVE  /\ Some(s) \in s /\ IsFiniteSet(s \ {Some(s)})
           /\ Cardinality(s \ {Some(s)}) < Cardinality(s)
<1>1. Some(s) \in s
  BY DEF Some
<1> QED
  BY <1>1, Fewer

IsSumming(g, f, S) ==
    g = [s \in SUBSET S |-> IF s = {} THEN 0 ELSE f[Some(s)] + g[s \ {Some(s)}]]

Summing(f, S) == CHOOSE g : IsSumming(g, f, S)

LEMMA SummingAgree ==
    ASSUME NEW f, NEW g, NEW S, NEW h, NEW T, IsFiniteSet(S), S \subseteq T,
           IsSumming(g, f, S), IsSumming(h, f, T)
    PROVE  \A s \in SUBSET S : g[s] = h[s]
<1> DEFINE C == {s \in SUBSET S : g[s] # h[s]}
<1>1. SUFFICES ASSUME C # {} PROVE FALSE
  OBVIOUS
<1>2. \A s \in C : IsFiniteSet(s)
  BY FS_Subset
<1>3. PICK s \in C : \A t \in C : Cardinality(s) <= Cardinality(t)
  BY <1>1, <1>2, Smallest
<1>4. \A r \in SUBSET S : g[r] = IF r = {} THEN 0 ELSE f[Some(r)] + g[r \ {Some(r)}]
  BY DEF IsSumming
<1>5. \A r \in SUBSET T : h[r] = IF r = {} THEN 0 ELSE f[Some(r)] + h[r \ {Some(r)}]
  BY DEF IsSumming
<1>6. s # {}
  BY <1>3, <1>4, <1>5
<1>7. LET t == s \ {Some(s)} IN t \notin C /\ t \in SUBSET S
  BY <1>2, <1>3, <1>6, Rest, FS_CardinalityType
<1> QED
  BY <1>3, <1>4, <1>5, <1>6, <1>7

LEMMA SummingExists ==
    ASSUME NEW f, NEW S, IsFiniteSet(S)
    PROVE  IsSumming(Summing(f, S), f, S)
<1> DEFINE C == {s \in SUBSET S : ~ \E g : IsSumming(g, f, s)}
<1>1. SUFFICES ASSUME C # {} PROVE FALSE
  BY DEF Summing
<1>2. \A s \in C : IsFiniteSet(s)
  BY FS_Subset
<1>3. PICK s \in C : \A t \in C : Cardinality(s) <= Cardinality(t)
  BY <1>1, <1>2, Smallest
<1>4. ASSUME NEW t \in SUBSET s, t # {}
      PROVE  LET r == t \ {Some(t)} IN
             r \in SUBSET s /\ IsFiniteSet(r) /\ IsSumming(Summing(f, r), f, r)
  <2> DEFINE r == t \ {Some(t)}
  <2>1. IsFiniteSet(t) /\ Cardinality(t) <= Cardinality(s)
    BY <1>2, <1>3, FS_Subset
  <2>2. IsFiniteSet(r) /\ Cardinality(r) < Cardinality(t) /\ r \in SUBSET s /\ r \in SUBSET S
    BY <1>3, <1>4, <2>1, Rest
  <2>3. r \notin C
    BY <1>2, <1>3, <2>1, <2>2, FS_CardinalityType
  <2>4. \E g : IsSumming(g, f, r)
    BY <2>2, <2>3
  <2> QED
    BY <2>2, <2>4 DEF Summing
<1> DEFINE SumBut(t) == Summing(f, t \ {Some(t)})[t \ {Some(t)}]
           g == [t \in SUBSET s |-> IF t = {} THEN 0 ELSE f[Some(t)] + SumBut(t)]
<1>5. ASSUME NEW t \in SUBSET s, t # {} PROVE g[t \ {Some(t)}] = SumBut(t)
  <2> DEFINE r == t \ {Some(t)}
             h == Summing(f, r)
  <2>1. r \in SUBSET s /\ IsFiniteSet(r) /\ IsSumming(h, f, r)
    BY <1>4, <1>5
  <2>2. h[r] = IF r = {} THEN 0 ELSE f[Some(r)] + h[r \ {Some(r)}]
    BY <2>1 DEF IsSumming
  <2>3. CASE r = {}
    BY <2>2, <2>3
  <2>4. CASE r # {}
    <3> DEFINE q == r \ {Some(r)}
    <3>1. q \in SUBSET r /\ IsFiniteSet(q) /\ IsSumming(Summing(f, q), f, q)
      BY <1>4, <2>1, <2>4
    <3>2. q \in SUBSET q
      OBVIOUS
    <3>3. Summing(f, q)[q] = h[q]
      <4> HIDE DEF q, r, h
      <4> QED
        BY <2>1, <3>1, <3>2, SummingAgree
    <3> QED
      BY <2>1, <2>2, <2>4, <3>3
  <2> QED
    BY <2>3, <2>4
<1>6. g = [t \in SUBSET s |-> IF t = {} THEN 0 ELSE f[Some(t)] + g[t \ {Some(t)}]]
  <2> HIDE DEF SumBut
  <2>1. \A t \in SUBSET s : (IF t = {} THEN 0 ELSE f[Some(t)] + SumBut(t))
                          = (IF t = {} THEN 0 ELSE f[Some(t)] + g[t \ {Some(t)}])
    BY <1>5
  <2> QED
    BY <2>1
<1>7. IsSumming(g, f, s)
  BY <1>6 DEF IsSumming
<1> QED
  BY <1>3, <1>7

LEMMA SumUnfolds ==
    ASSUME NEW f, NEW S, IsFiniteSet(S)
    PROVE  SumFunctionOnSet(f, S) =
             IF S = {} THEN 0 ELSE f[Some(S)] + SumFunctionOnSet(f, S \ {Some(S)})
<1>1. \A T : SumFunctionOnSet(f, T) = Summing(f, T)[T]
  BY DEF SumFunctionOnSet, FoldFunctionOnSet, MapThenFoldSet, Summing, IsSumming, Some
<1>2. Summing(f, S)[S] =
        IF S = {} THEN 0 ELSE f[Some(S)] + Summing(f, S)[S \ {Some(S)}]
  <2>1. S \in SUBSET S
    OBVIOUS
  <2>2. \A s \in SUBSET S : Summing(f, S)[s] =
          IF s = {} THEN 0 ELSE f[Some(s)] + Summing(f, S)[s \ {Some(s)}]
    <3>1. ASSUME NEW h, IsSumming(h, f, S)
          PROVE  \A s \in SUBSET S : h[s] = IF s = {} THEN 0 ELSE f[Some(s)] + h[s \ {Some(s)}]
      BY <3>1 DEF IsSumming
    <3> QED
      BY <3>1, SummingExists
  <2> QED
    BY <2>1, <2>2
<1>3. ASSUME S # {} PROVE Summing(f, S)[S \ {Some(S)}] = SumFunctionOnSet(f, S \ {Some(S)})
  <2> DEFINE r == S \ {Some(S)}
  <2>1. IsFiniteSet(r) /\ r \subseteq S /\ r \in SUBSET r
    BY FS_Subset
  <2> HIDE DEF r
  <2>2. Summing(f, r)[r] = Summing(f, S)[r]
    BY <2>1, SummingExists, SummingAgree
  <2> QED
    BY <1>1, <2>2 DEF r
<1> QED
  BY <1>1, <1>2, <1>3

LEMMA SumIsNat ==
    ASSUME NEW D, NEW f \in [D -> Nat], NEW S \in SUBSET D, IsFiniteSet(S)
    PROVE  SumFunctionOnSet(f, S) \in Nat
<1> DEFINE C == {s \in SUBSET S : SumFunctionOnSet(f, s) \notin Nat}
<1>1. SUFFICES ASSUME C # {} PROVE FALSE
  OBVIOUS
<1>2. \A s \in C : IsFiniteSet(s)
  BY FS_Subset
<1>3. PICK s \in C : \A t \in C : Cardinality(s) <= Cardinality(t)
  BY <1>1, <1>2, Smallest
<1>4. s # {}
  <2>1. SumFunctionOnSet(f, {}) = 0
    BY SumUnfolds, FS_EmptySet
  <2> QED
    BY <1>3, <2>1
<1>5. LET t == s \ {Some(s)} IN t \notin C /\ t \in SUBSET S
  BY <1>2, <1>3, <1>4, Rest, FS_CardinalityType
<1>6. f[Some(s)] \in Nat
  BY <1>2, <1>4, Rest
<1>7. SumFunctionOnSet(f, s) = f[Some(s)] + SumFunctionOnSet(f, s \ {Some(s)})
  BY <1>2, <1>4, SumUnfolds
<1> QED
  BY <1>5, <1>6, <1>7

(* The order in which the elements are taken makes no difference.          *)
LEMMA SumTakes ==
    ASSUME NEW D, NEW f \in [D -> Nat], NEW S \in SUBSET D, IsFiniteSet(S), NEW x \in S
    PROVE  SumFunctionOnSet(f, S) = f[x] + SumFunctionOnSet(f, S \ {x})
<1> DEFINE Off(s, y) == SumFunctionOnSet(f, s) # f[y] + SumFunctionOnSet(f, s \ {y})
           C == {s \in SUBSET S : \E y \in s : Off(s, y)}
<1>1. SUFFICES ASSUME C # {} PROVE FALSE
  OBVIOUS
<1>2. \A s \in C : IsFiniteSet(s)
  BY FS_Subset
<1>3. PICK s \in C : \A t \in C : Cardinality(s) <= Cardinality(t)
  BY <1>1, <1>2, Smallest
<1>4. PICK y \in s : Off(s, y)
  BY <1>3
<1> DEFINE c == Some(s)
<1>5. s \in SUBSET S /\ IsFiniteSet(s) /\ s # {} /\ c \in s
  BY <1>2, <1>3, <1>4, Rest
<1>6. SumFunctionOnSet(f, s) = f[c] + SumFunctionOnSet(f, s \ {c})
  BY <1>5, SumUnfolds
<1>7. y # c
  BY <1>4, <1>6
<1> HIDE DEF c
<1>8. ASSUME NEW z \in s PROVE s \ {z} \in SUBSET S /\ s \ {z} \notin C
  <2>1. Cardinality(s \ {z}) < Cardinality(s) /\ Cardinality(s) \in Nat
    BY <1>5, Fewer
  <2>2. IsFiniteSet(s \ {z})
    BY <1>5, FS_Subset
  <2>3. Cardinality(s \ {z}) \in Nat
    BY <2>2, FS_CardinalityType
  <2> QED
    BY <1>3, <1>5, <2>1, <2>3
<1>9. SumFunctionOnSet(f, s \ {c}) = f[y] + SumFunctionOnSet(f, (s \ {c}) \ {y})
  BY <1>5, <1>7, <1>8
<1>10. SumFunctionOnSet(f, s \ {y}) = f[c] + SumFunctionOnSet(f, (s \ {y}) \ {c})
  BY <1>5, <1>7, <1>8
<1>11. (s \ {c}) \ {y} = (s \ {y}) \ {c}
  OBVIOUS
<1>12. f[c] \in Nat /\ f[y] \in Nat /\ SumFunctionOnSet(f, (s \ {c}) \ {y}) \in Nat
  <2>1. (s \ {c}) \ {y} \in SUBSET D /\ IsFiniteSet((s \ {c}) \ {y})
    BY <1>5, FS_Subset
  <2> QED
    BY <1>5, <2>1, SumIsNat
<1> QED
  BY <1>4, <1>6, <1>9, <1>10, <1>11, <1>12

LEMMA SumOfDisjoint ==
    ASSUME NEW D, NEW f \in [D -> Nat], NEW S \in SUBSET D, NEW T \in SUBSET D,
           IsFiniteSet(S), IsFiniteSet(T), S \cap T = {}
    PROVE  SumFunctionOnSet(f, S \cup T) = SumFunctionOnSet(f, S) + SumFunctionOnSet(f, T)
<1> DEFINE Off(s) ==
      SumFunctionOnSet(f, S \cup s) # SumFunctionOnSet(f, S) + SumFunctionOnSet(f, s)
           C == {s \in SUBSET T : Off(s)}
<1>1. SUFFICES ASSUME C # {} PROVE FALSE
  OBVIOUS
<1>2. \A s \in C : IsFiniteSet(s)
  BY FS_Subset
<1>3. PICK s \in C : \A t \in C : Cardinality(s) <= Cardinality(t)
  BY <1>1, <1>2, Smallest
<1>4. \A s1 \in SUBSET D : IsFiniteSet(s1) => SumFunctionOnSet(f, s1) \in Nat
  BY SumIsNat
<1>5. s # {}
  <2>1. S \cup {} = S /\ SumFunctionOnSet(f, {}) = 0 /\ SumFunctionOnSet(f, S) \in Nat
    BY <1>4, SumUnfolds, FS_EmptySet
  <2> QED
    BY <1>3, <2>1
<1>6. PICK x \in s : TRUE
  BY <1>5
<1> DEFINE r == s \ {x}
<1>7. IsFiniteSet(r) /\ Cardinality(r) < Cardinality(s) /\ r \notin C /\ r \in SUBSET T
  <2>1. IsFiniteSet(s) /\ s \in SUBSET T
    BY <1>2, <1>3
  <2>2. IsFiniteSet(r) /\ Cardinality(r) < Cardinality(s) /\ r \in SUBSET T
        /\ Cardinality(r) \in Nat /\ Cardinality(s) \in Nat
    BY <2>1, Fewer
  <2>3. r \notin C
    <3> HIDE DEF r
    <3> QED
      BY <1>3, <2>2
  <2> QED
    BY <2>2, <2>3
<1>8. SumFunctionOnSet(f, S \cup r) = SumFunctionOnSet(f, S) + SumFunctionOnSet(f, r)
  BY <1>7
<1>9. SumFunctionOnSet(f, s) = f[x] + SumFunctionOnSet(f, r)
  BY <1>2, <1>3, SumTakes
<1>10. SumFunctionOnSet(f, S \cup s) = f[x] + SumFunctionOnSet(f, S \cup r)
  <2>1. (S \cup s) \ {x} = S \cup r /\ x \in S \cup s /\ S \cup s \in SUBSET D
    BY <1>3
  <2>2. IsFiniteSet(S \cup s)
    BY <1>2, <1>3, FS_Union
  <2> QED
    BY <2>1, <2>2, SumTakes
<1>11. f[x] \in Nat /\ SumFunctionOnSet(f, S) \in Nat /\ SumFunctionOnSet(f, r) \in Nat
  BY <1>3, <1>4, <1>7
<1> HIDE DEF r
<1> QED
  BY <1>3, <1>8, <1>9, <1>10, <1>11

LEMMA SumOfSame ==
    ASSUME NEW D, NEW f \in [D -> Nat], NEW g \in [D -> Nat], NEW S \in SUBSET D,
           IsFiniteSet(S), \A x \in S : f[x] = g[x]
    PROVE  SumFunctionOnSet(f, S) = SumFunctionOnSet(g, S)
<1> DEFINE C == {s \in SUBSET S : SumFunctionOnSet(f, s) # SumFunctionOnSet(g, s)}
<1>1. SUFFICES ASSUME C # {} PROVE FALSE
  OBVIOUS
<1>2. \A s \in C : IsFiniteSet(s)
  BY FS_Subset
<1>3. PICK s \in C : \A t \in C : Cardinality(s) <= Cardinality(t)
  BY <1>1, <1>2, Smallest
<1>4. s # {}
  BY <1>2, <1>3, SumUnfolds
<1>5. LET t == s \ {Some(s)} IN t \notin C /\ t \in SUBSET S
  BY <1>2, <1>3, <1>4, Rest, FS_CardinalityType
<1>6. Some(s) \in S
  BY <1>2, <1>3, <1>4, Rest
<1>7. /\ SumFunctionOnSet(f, s) = f[Some(s)] + SumFunctionOnSet(f, s \ {Some(s)})
      /\ SumFunctionOnSet(g, s) = g[Some(s)] + SumFunctionOnSet(g, s \ {Some(s)})
  BY <1>2, <1>4, SumUnfolds
<1> QED
  BY <1>3, <1>5, <1>6, <1>7

-----------------------------------------------------------------------------
(* With a storage limit the owner's lock lets one transaction measure at a *)
(* time, so that what it found stays true until it commits: the files it   *)
(* claimed fit in, once what it evicts is gone.  Until it has chosen what  *)
(* to evict that is the measured deficit.                                  *)
Freed(r) == IF pc[r] \in {"lockAll", "evict"} THEN tx[r].deficit ELSE OutputSum(tx[r].evicted)

RoomFound(r) ==
    Working(r) =>
        /\ ownerLock = r
        /\ pc[r] # "claim" =>
             StorageUsed + InputSum(tx[r].claimed) <= StorageBytes + outgrown + Freed(r)

StorageOK ==
    /\ outgrown \in Nat
    /\ \A r \in Request : tx[r].deficit \in Nat /\ tx[r].evicted \subseteq Stored
    /\ limited => StorageUsed <= StorageBytes + outgrown /\ \A r \in Request : RoomFound(r)

-----------------------------------------------------------------------------
LEMMA FilesAreFinite == \A S \in SUBSET File : IsFiniteSet(S)
  BY StorageAssumption, FS_Subset

LEMMA SumOfFiles == \A g \in [File -> Nat], S \in SUBSET File : SumFunctionOnSet(g, S) \in Nat
  BY FilesAreFinite, SumIsNat

LEMMA SumsAreNat ==
    ASSUME output \in [File -> Nat]
    PROVE  /\ \A S \in SUBSET File : InputSum(S) \in Nat /\ OutputSum(S) \in Nat
           /\ StorageUsed \in Nat
<1>1. \A S \in SUBSET File : InputSum(S) \in Nat /\ OutputSum(S) \in Nat
  BY SumOfFiles, StorageAssumption DEF InputSum, OutputSum
<1>2. Stored \in SUBSET File /\ InFlight \in SUBSET File
  BY DEF Stored, InFlight
<1> QED
  BY <1>1, <1>2 DEF StorageUsed

LEMMA OutputTyped == IInv => output \in [File -> Nat]
  BY DEF IInv, DailyQuotaExact, TypeOK

(* Files change under an admission's eyes: what is stored grows by no more *)
(* than results outgrow their inputs, and what it evicts is as it was.     *)
LEMMA FilesMove ==
    ASSUME IInv, IInv', StorageOK, UNCHANGED <<limited, pc, tx, ownerLock>>,
           outgrown' \in Nat, StorageUsed' <= StorageUsed + (outgrown' - outgrown),
           \A r \in Request : /\ tx[r].evicted \subseteq Stored'
                              /\ OutputSum(tx[r].evicted)' = OutputSum(tx[r].evicted)
    PROVE  StorageOK'
<1>1. /\ StorageUsed \in Nat /\ StorageUsed' \in Nat /\ outgrown \in Nat /\ StorageBytes \in Nat
      /\ \A S \in SUBSET File : InputSum(S) \in Nat /\ OutputSum(S) \in Nat
  <2>1. output \in [File -> Nat] /\ output' \in [File -> Nat]
    BY DEF IInv, DailyQuotaExact, TypeOK
  <2>2. Stored' \in SUBSET File /\ InFlight' \in SUBSET File
    BY DEF Stored, InFlight
  <2>3. StorageUsed' = SumFunctionOnSet(output', Stored') + SumFunctionOnSet(InputBytes, InFlight')
    BY DEF StorageUsed, OutputSum, InputSum
  <2>4. StorageUsed' \in Nat
    BY <2>1, <2>2, <2>3, SumOfFiles, StorageAssumption
  <2> QED
    BY <2>1, <2>4, SumsAreNat, StorageAssumption DEF StorageOK
<1>2. \A r \in Request : tx'[r].deficit \in Nat /\ tx'[r].evicted \subseteq Stored'
  BY DEF StorageOK
<1>3. limited' => StorageUsed' <= StorageBytes + outgrown'
  BY <1>1 DEF StorageOK
<1>4. ASSUME NEW r \in Request, limited, Working(r) PROVE RoomFound(r)'
  <2>1. /\ tx[r].claimed \in SUBSET File /\ tx[r].evicted \in SUBSET File
        /\ tx[r].deficit \in Nat
    BY DEF IInv, TransactionOK, StorageOK, Stored
  <2>2. Freed(r) \in Nat /\ Freed(r)' = Freed(r)
    BY <1>1, <2>1 DEF Freed
  <2>3. InputSum(tx[r].claimed) \in Nat /\ InputSum(tx[r].claimed)' = InputSum(tx[r].claimed)
    BY <1>1, <2>1 DEF InputSum
  <2>4. RoomFound(r)
    BY <1>4 DEF StorageOK
  <2> QED
    BY <1>1, <1>4, <2>2, <2>3, <2>4 DEF RoomFound, Working
<1>5. limited' => \A r \in Request : RoomFound(r)'
  BY <1>4 DEF RoomFound, Working
<1> QED
  BY <1>2, <1>3, <1>5 DEF StorageOK

(* What a transaction evicts is locked, so nothing of it changes, and no   *)
(* other file that a lock protects does.                                   *)
LEMMA NoneEvicted ==
    ASSUME IInv, NEW f \in File, batchLock[BatchOf[f]] = Nobody
    PROVE  \A r \in Request : tx[r].evicted = {}
<1>1. BatchOf[f] \in Batch /\ Nobody \notin Request
  BY StorageAssumption
<1> QED
  BY <1>1 DEF IInv, TransactionOK

LEMMA SumOfNone == \A g : SumFunctionOnSet(g, {}) = 0
  BY SumUnfolds, FS_EmptySet

LEMMA SumWith ==
    ASSUME NEW g \in [File -> Nat], NEW S \in SUBSET File, NEW f \in File, f \notin S
    PROVE  SumFunctionOnSet(g, S \cup {f}) = g[f] + SumFunctionOnSet(g, S)
<1>1. IsFiniteSet(S \cup {f}) /\ S \cup {f} \in SUBSET File /\ f \in S \cup {f}
  BY FilesAreFinite
<1>2. (S \cup {f}) \ {f} = S
  OBVIOUS
<1> QED
  BY <1>1, <1>2, SumTakes

LEMMA SumWithout ==
    ASSUME NEW g \in [File -> Nat], NEW S \in SUBSET File, NEW f \in File
    PROVE  /\ SumFunctionOnSet(g, S) \in Nat /\ SumFunctionOnSet(g, S \ {f}) \in Nat
           /\ SumFunctionOnSet(g, S \ {f}) <= SumFunctionOnSet(g, S)
<1>1. SumFunctionOnSet(g, S) \in Nat /\ SumFunctionOnSet(g, S \ {f}) \in Nat /\ g[f] \in Nat
  BY SumOfFiles
<1>2. CASE f \in S
  <2>1. SumFunctionOnSet(g, S) = g[f] + SumFunctionOnSet(g, S \ {f})
    BY <1>2, FilesAreFinite, SumTakes
  <2> QED
    BY <1>1, <2>1
<1>3. CASE f \notin S
  <2>1. S \ {f} = S
    BY <1>3
  <2> QED
    BY <1>1, <2>1
<1> QED
  BY <1>2, <1>3

LEMMA CompleteStorage ==
    ASSUME IInv, IInv', StorageOK, NEW f \in File, Complete(f)
    PROVE  StorageOK'
<1>1. PICK bytes \in OutputBytes[f] :
        /\ f \in InFlight /\ batchLock[BatchOf[f]] = Nobody
        /\ status' = [status EXCEPT ![f] = "COMPLETED"]
        /\ output' = [output EXCEPT ![f] = bytes]
        /\ outgrown' = outgrown + IF bytes > InputBytes[f] THEN bytes - InputBytes[f] ELSE 0
        /\ UNCHANGED <<limited, pc, tx, ownerLock>>
  BY DEF Complete, locks
<1>2. /\ output \in [File -> Nat] /\ output' \in [File -> Nat]
      /\ bytes \in Nat /\ InputBytes \in [File -> Nat] /\ outgrown \in Nat
      /\ DOMAIN status = File
  BY StorageAssumption, OutputTyped DEF StorageOK, IInv, DailyQuotaExact, TypeOK
<1>3. /\ Stored \in SUBSET File /\ InFlight \in SUBSET File
      /\ f \notin Stored /\ f \in InFlight
      /\ Stored' = Stored \cup {f} /\ InFlight' = InFlight \ {f}
  BY <1>1, <1>2 DEF Stored, InFlight
<1>4. outgrown' \in Nat /\ bytes <= InputBytes[f] + (outgrown' - outgrown)
  BY <1>1, <1>2
<1>5. InputSum(InFlight) = InputBytes[f] + InputSum(InFlight \ {f})
      /\ InputSum(InFlight \ {f}) \in Nat
  BY <1>2, <1>3, SumTakes, SumOfFiles, FilesAreFinite DEF InputSum
<1>6. /\ SumFunctionOnSet(output', Stored \cup {f}) = bytes + SumFunctionOnSet(output', Stored)
      /\ SumFunctionOnSet(output', Stored) \in Nat
  BY <1>1, <1>2, <1>3, SumWith, SumOfFiles
<1>7. SumFunctionOnSet(output', Stored) = SumFunctionOnSet(output, Stored)
  <2>1. \A x \in Stored : output'[x] = output[x]
    BY <1>1, <1>2, <1>3
  <2> QED
    BY <1>2, <1>3, <2>1, SumOfSame, FilesAreFinite
<1>8. StorageUsed' <= StorageUsed + (outgrown' - outgrown)
  <2>1. StorageUsed = SumFunctionOnSet(output, Stored) + InputSum(InFlight)
    BY DEF StorageUsed, OutputSum
  <2>2. StorageUsed' = SumFunctionOnSet(output', Stored \cup {f}) + InputSum(InFlight \ {f})
    BY <1>3 DEF StorageUsed, OutputSum, InputSum
  <2>3. InputBytes[f] \in Nat
    BY <1>2
  <2> QED
    BY <1>2, <1>4, <1>5, <1>6, <1>7, <2>1, <2>2, <2>3
<1>9. ASSUME NEW r \in Request
      PROVE  tx[r].evicted \subseteq Stored' /\ OutputSum(tx[r].evicted)' = OutputSum(tx[r].evicted)
  <2>1. tx[r].evicted = {} /\ tx'[r].evicted = {}
    BY <1>1, NoneEvicted
  <2> QED
    BY <2>1, SumOfNone DEF OutputSum
<1> QED
  BY <1>1, <1>4, <1>8, <1>9, FilesMove

LEMMA LeavingStorage ==
    ASSUME IInv, IInv', StorageOK, NEW f \in File, Fail(f) \/ Expire(f)
    PROVE  StorageOK'
<1>1. /\ f \in InFlight \cup Stored /\ batchLock[BatchOf[f]] = Nobody
      /\ \E s \in {"FAILED", "EXPIRED"} : status' = [status EXCEPT ![f] = s]
      /\ UNCHANGED <<limited, output, pc, tx, ownerLock, outgrown>>
  BY DEF Fail, Expire, locks, history
<1>2. /\ output \in [File -> Nat] /\ outgrown \in Nat /\ InputBytes \in [File -> Nat]
      /\ DOMAIN status = File
  BY StorageAssumption, OutputTyped DEF StorageOK, IInv, DailyQuotaExact, TypeOK
<1>3. /\ Stored \in SUBSET File /\ InFlight \in SUBSET File
      /\ Stored' = Stored \ {f} /\ InFlight' = InFlight \ {f}
  BY <1>1, <1>2 DEF Stored, InFlight
<1>4. /\ InputSum(InFlight \ {f}) <= InputSum(InFlight)
      /\ InputSum(InFlight) \in Nat /\ InputSum(InFlight \ {f}) \in Nat
  BY <1>2, <1>3, SumWithout DEF InputSum
<1>5. /\ OutputSum(Stored \ {f}) <= OutputSum(Stored)
      /\ OutputSum(Stored) \in Nat /\ OutputSum(Stored \ {f}) \in Nat
  BY <1>2, <1>3, SumWithout DEF OutputSum
<1>6. StorageUsed' = OutputSum(Stored \ {f}) + InputSum(InFlight \ {f})
  BY <1>1, <1>3 DEF StorageUsed, OutputSum, InputSum
<1>7. StorageUsed' <= StorageUsed + (outgrown' - outgrown)
  BY <1>1, <1>2, <1>4, <1>5, <1>6 DEF StorageUsed
<1>8. ASSUME NEW r \in Request
      PROVE  tx[r].evicted \subseteq Stored' /\ OutputSum(tx[r].evicted)' = OutputSum(tx[r].evicted)
  <2>1. tx[r].evicted = {} /\ tx'[r].evicted = {}
    BY <1>1, NoneEvicted
  <2> QED
    BY <2>1, SumOfNone DEF OutputSum
<1> QED
  BY <1>1, <1>2, <1>7, <1>8, FilesMove

(* Neither stored nor in flight before and after, or both.                 *)
LEMMA StillStorage ==
    ASSUME IInv, IInv', StorageOK,
           Stored' = Stored, InFlight' = InFlight,
           UNCHANGED <<limited, output, pc, tx, ownerLock, outgrown>>
    PROVE  StorageOK'
<1>1. StorageUsed' = StorageUsed /\ StorageUsed \in Nat /\ outgrown \in Nat
  BY SumsAreNat, OutputTyped DEF StorageUsed, InputSum, OutputSum, StorageOK
<1>2. \A r \in Request : /\ tx[r].evicted \subseteq Stored'
                         /\ OutputSum(tx[r].evicted)' = OutputSum(tx[r].evicted)
  BY DEF StorageOK, OutputSum
<1> QED
  BY <1>1, <1>2, FilesMove

LEMMA FileStorage ==
    ASSUME IInv, IInv', StorageOK, NEW f \in File,
           Upload(f) \/ Start(f) \/ Complete(f) \/ Fail(f) \/ Expire(f)
    PROVE  StorageOK'
<1>1. CASE Upload(f) \/ Start(f)
  <2>1. DOMAIN status = File
    BY DEF IInv, DailyQuotaExact, TypeOK
  <2>2. Stored' = Stored /\ InFlight' = InFlight
    BY <1>1, <2>1 DEF Upload, Start, Stored, InFlight
  <2> QED
    BY <1>1, <2>2, StillStorage DEF Upload, Start, locks, history
<1> QED
  BY <1>1, CompleteStorage, LeavingStorage

-----------------------------------------------------------------------------
(* A request moves; with a storage limit the owner's lock keeps the others *)
(* from measuring meanwhile.                                               *)
LEMMA RequestMoves ==
    ASSUME IInv, IInv', StorageOK, NEW r \in Request,
           UNCHANGED <<limited, files, history>>,
           \A q \in Request \ {r} : tx'[q] = tx[q] /\ pc'[q] = pc[q],
           \A q \in Request \ {r} : ownerLock = q => ownerLock' = q,
           tx'[r].deficit \in Nat, tx'[r].evicted \subseteq Stored,
           limited => RoomFound(r)'
    PROVE  StorageOK'
<1>1. /\ status' = status /\ output' = output /\ outgrown' = outgrown
      /\ Stored' = Stored /\ StorageUsed' = StorageUsed
  BY DEF files, history, Stored, StorageUsed, InFlight, InputSum, OutputSum
<1>2. \A q \in Request : tx'[q].deficit \in Nat /\ tx'[q].evicted \subseteq Stored'
  BY <1>1 DEF StorageOK
<1>3. ASSUME NEW q \in Request \ {r}, limited PROVE RoomFound(q)'
  <2>1. RoomFound(q) /\ tx'[q] = tx[q] /\ pc'[q] = pc[q]
    BY <1>3 DEF StorageOK
  <2>2. Freed(q)' = Freed(q) /\ InputSum(tx[q].claimed)' = InputSum(tx[q].claimed)
    BY <1>1, <2>1 DEF Freed, OutputSum, InputSum
  <2> QED
    BY <1>1, <1>3, <2>1, <2>2 DEF RoomFound, Working, InputSum
<1> QED
  BY <1>1, <1>2, <1>3 DEF StorageOK

LEMMA NothingStorage ==
    ASSUME IInv, IInv', StorageOK, NEW r \in Request, EndTransaction(r),
           UNCHANGED <<limited, files, history>>
    PROVE  StorageOK'
<1>1. pc'[r] = "idle" /\ tx'[r] = NoTx
  BY DEF EndTransaction, IInv, DailyQuotaExact, TypeOK
<1>2. tx'[r].deficit \in Nat /\ tx'[r].evicted \subseteq Stored /\ RoomFound(r)'
  BY <1>1 DEF NoTx, RoomFound, Working
<1>3. \A q \in Request \ {r} : ownerLock = q => ownerLock' = q
  BY DEF EndTransaction
<1> QED
  BY <1>2, <1>3, TransactionEnds, RequestMoves

LEMMA BeginStorage ==
    ASSUME IInv, IInv', StorageOK, NEW r \in Request, NEW b \in Batch, Begin(r, b)
    PROVE  StorageOK'
<1>1. /\ tx' = [tx EXCEPT ![r] = [NoTx EXCEPT !.batch = b, !.date = day]]
      /\ pc' = [pc EXCEPT ![r] = "lock"]
      /\ UNCHANGED <<limited, files, ownerLock, history>>
      /\ DOMAIN tx = Request /\ DOMAIN pc = Request
  BY DEF Begin, Goto, locks, IInv, DailyQuotaExact, TypeOK
<1>2. tx'[r].deficit \in Nat /\ tx'[r].evicted \subseteq Stored /\ RoomFound(r)'
  BY <1>1 DEF NoTx, RoomFound, Working
<1> QED
  BY <1>1, <1>2, RequestMoves

LEMMA LockStorage ==
    ASSUME IInv, IInv', StorageOK, NEW r \in Request, LockOwnerAndBatch(r)
    PROVE  StorageOK'
<1>1. /\ limited => ownerLock = Nobody
      /\ ownerLock' = IF limited THEN r ELSE ownerLock
      /\ pc' = [pc EXCEPT ![r] = "claim"]
      /\ UNCHANGED <<limited, files, tx, history>>
      /\ DOMAIN pc = Request /\ Nobody \notin Request
  BY StorageAssumption DEF LockOwnerAndBatch, Goto, IInv, DailyQuotaExact, TypeOK
<1>2. tx'[r].deficit \in Nat /\ tx'[r].evicted \subseteq Stored
  BY <1>1 DEF StorageOK
<1>3. limited => RoomFound(r)'
  BY <1>1 DEF RoomFound
<1>4. /\ \A q \in Request \ {r} : tx'[q] = tx[q] /\ pc'[q] = pc[q]
      /\ \A q \in Request \ {r} : ownerLock = q => ownerLock' = q
  BY <1>1
<1>5. UNCHANGED <<limited, files, history>>
  BY <1>1
<1> HIDE DEF RoomFound
<1> QED
  BY <1>2, <1>3, <1>4, <1>5, RequestMoves

LEMMA ClaimStorage ==
    ASSUME IInv, IInv', StorageOK, NEW r \in Request, ClaimAndMeasure(r)
    PROVE  StorageOK'
<1> DEFINE ready == {f \in FilesOf(tx[r].batch) : status[f] = "READY"}
           deficit == StorageUsed + InputSum(ready) - StorageBytes
           evicting == limited /\ deficit > 0
           d == IF evicting THEN deficit ELSE 0
<1>1. /\ pc[r] = "claim"
      /\ tx' = [tx EXCEPT ![r] = [tx[r] EXCEPT !.claimed = ready, !.deficit = d]]
      /\ pc' = [pc EXCEPT ![r] = IF evicting THEN "lockAll" ELSE "reserve"]
      /\ UNCHANGED <<limited, files, ownerLock, history>>
      /\ DOMAIN tx = Request /\ DOMAIN pc = Request
  BY DEF ClaimAndMeasure, Goto, locks, IInv, DailyQuotaExact, TypeOK
<1>2. /\ StorageUsed \in Nat /\ InputSum(ready) \in Nat /\ StorageBytes \in Nat
      /\ outgrown \in Nat
  <2>1. ready \in SUBSET File
    BY DEF FilesOf
  <2> QED
    BY <2>1, SumsAreNat, OutputTyped, StorageAssumption DEF StorageOK
<1>3. /\ d \in Nat
      /\ evicting => StorageUsed + InputSum(ready) <= StorageBytes + outgrown + d
      /\ limited /\ ~evicting => StorageUsed + InputSum(ready) <= StorageBytes + outgrown
  BY <1>2
<1>4. /\ tx[r].evicted = {} /\ "claimed" \in DOMAIN tx[r] /\ "deficit" \in DOMAIN tx[r]
  BY <1>1 DEF IInv, TransactionOK
<1> HIDE DEF ready, deficit, d, evicting
<1>5. tx'[r].claimed = ready /\ tx'[r].deficit = d /\ tx'[r].evicted = {}
  BY <1>1, <1>4
<1>6. pc'[r] = (IF evicting THEN "lockAll" ELSE "reserve")
  BY <1>1
<1>7. StorageUsed' = StorageUsed /\ outgrown' = outgrown
  BY <1>1 DEF files, history, Stored, StorageUsed, InFlight, InputSum, OutputSum
<1>8. Freed(r)' = IF evicting THEN d ELSE 0
  BY <1>5, <1>6, SumOfNone DEF Freed, OutputSum
<1>9. InputSum(tx[r].claimed)' = InputSum(ready)
  BY <1>5 DEF InputSum
<1>10. limited => RoomFound(r)'
  <2> SUFFICES ASSUME limited PROVE RoomFound(r)'
    OBVIOUS
  <2>1. ownerLock = r
    BY <1>1 DEF StorageOK, RoomFound, Working
  <2> QED
    BY <1>1, <1>2, <1>3, <1>6, <1>7, <1>8, <1>9, <2>1 DEF RoomFound
<1> QED
  BY <1>1, <1>3, <1>5, <1>10, RequestMoves

LEMMA LockAllStorage ==
    ASSUME IInv, IInv', StorageOK, NEW r \in Request, LockOwnersBatches(r) \/ ReserveToday(r)
    PROVE  StorageOK'
<1>1. /\ \/ pc[r] = "lockAll" /\ pc' = [pc EXCEPT ![r] = "evict"]
         \/ pc[r] = "reserve" /\ pc' = [pc EXCEPT ![r] = "commit"]
      /\ UNCHANGED <<limited, files, tx, ownerLock, history>>
      /\ DOMAIN pc = Request
  BY DEF LockOwnersBatches, ReserveToday, Goto, IInv, DailyQuotaExact, TypeOK
<1>2. tx'[r].deficit \in Nat /\ tx'[r].evicted \subseteq Stored
  BY <1>1 DEF StorageOK
<1>3. StorageUsed' = StorageUsed /\ outgrown' = outgrown
  BY <1>1 DEF files, history, Stored, StorageUsed, InFlight, InputSum, OutputSum
<1>4. Freed(r)' = Freed(r) /\ InputSum(tx[r].claimed)' = InputSum(tx[r].claimed)
  BY <1>1 DEF Freed, OutputSum, InputSum, files
<1>5. limited => RoomFound(r)'
  BY <1>1, <1>3, <1>4 DEF StorageOK, RoomFound, Working
<1> QED
  BY <1>1, <1>2, <1>5, RequestMoves

LEMMA EvictStorage ==
    ASSUME IInv, IInv', StorageOK, NEW r \in Request, Evict(r)
    PROVE  StorageOK'
<1>1. PICK evicted \in Evictions(tx[r].deficit) :
        /\ pc[r] = "evict"
        /\ tx' = [tx EXCEPT ![r].evicted = evicted]
        /\ pc' = [pc EXCEPT ![r] = "reserve"]
        /\ UNCHANGED <<limited, files, ownerLock, history>>
  BY DEF Evict, Goto, locks
<1>2. /\ DOMAIN tx = Request /\ DOMAIN pc = Request
      /\ {"batch", "date", "claimed", "deficit", "evicted"} \subseteq DOMAIN tx[r]
      /\ tx[r].deficit \in Nat /\ tx[r].claimed \in SUBSET File
  BY DEF IInv, DailyQuotaExact, TypeOK, TransactionOK, StorageOK
<1>3. evicted \in SUBSET Stored /\ OutputSum(evicted) >= tx[r].deficit
  BY DEF Evictions
<1>4. /\ StorageUsed \in Nat /\ InputSum(tx[r].claimed) \in Nat /\ OutputSum(evicted) \in Nat
      /\ StorageBytes \in Nat /\ outgrown \in Nat
  BY <1>2, <1>3, SumsAreNat, OutputTyped, StorageAssumption DEF StorageOK, Stored
<1>5. /\ tx'[r].evicted = evicted /\ tx'[r].deficit = tx[r].deficit
      /\ tx'[r].claimed = tx[r].claimed /\ pc'[r] = "reserve"
  BY <1>1, <1>2
<1>6. StorageUsed' = StorageUsed /\ outgrown' = outgrown
  BY <1>1 DEF files, history, Stored, StorageUsed, InFlight, InputSum, OutputSum
<1>7. /\ Freed(r) = tx[r].deficit /\ Freed(r)' = OutputSum(evicted)
      /\ InputSum(tx[r].claimed)' = InputSum(tx[r].claimed)
  BY <1>1, <1>5 DEF Freed, OutputSum, InputSum, files
<1>8. limited => RoomFound(r)'
  <2> SUFFICES ASSUME limited PROVE RoomFound(r)'
    OBVIOUS
  <2>1. /\ ownerLock = r
        /\ StorageUsed + InputSum(tx[r].claimed) <= StorageBytes + outgrown + Freed(r)
    BY <1>1 DEF StorageOK, RoomFound, Working
  <2> QED
    BY <1>1, <1>2, <1>3, <1>4, <1>6, <1>7, <2>1 DEF RoomFound
<1> QED
  BY <1>1, <1>2, <1>3, <1>5, <1>8, RequestMoves

(* The commit trades what is evicted for what was claimed.                 *)
LEMMA CommitStorage ==
    ASSUME IInv, IInv', StorageOK, NEW r \in Request, Commit(r)
    PROVE  StorageOK'
<1> DEFINE taken == tx[r].claimed
           evicted == tx[r].evicted
<1>1. /\ pc[r] = "commit"
      /\ status' = [f \in File |-> IF f \in taken THEN "QUEUED"
                                   ELSE IF f \in evicted THEN "EXPIRED" ELSE status[f]]
      /\ EndTransaction(r)
      /\ UNCHANGED <<limited, output, outgrown>>
  BY DEF Commit
<1>2. /\ taken \in SUBSET File /\ \A f \in taken : status[f] = "READY"
      /\ evicted \in SUBSET Stored /\ outgrown \in Nat /\ StorageBytes \in Nat
      /\ Nobody \notin Request
      /\ evicted # {} => \A b \in Batch : batchLock[b] = r
  BY StorageAssumption DEF IInv, TransactionOK, StorageOK
<1> HIDE DEF taken, evicted
<1>3. /\ Stored' = Stored \ evicted /\ InFlight' = InFlight \cup taken
      /\ Stored \in SUBSET File /\ InFlight \in SUBSET File /\ InFlight \cap taken = {}
  BY <1>1, <1>2 DEF Stored, InFlight
<1>4. /\ InputSum(InFlight \cup taken) = InputSum(InFlight) + InputSum(taken)
      /\ InputSum(InFlight) \in Nat /\ InputSum(taken) \in Nat
  BY <1>2, <1>3, SumOfDisjoint, SumIsNat, FilesAreFinite, StorageAssumption DEF InputSum
<1>5. /\ OutputSum(Stored) = OutputSum(Stored \ evicted) + OutputSum(evicted)
      /\ OutputSum(Stored \ evicted) \in Nat /\ OutputSum(evicted) \in Nat
  <2>1. /\ (Stored \ evicted) \cup evicted = Stored /\ (Stored \ evicted) \cap evicted = {}
        /\ evicted \in SUBSET File /\ Stored \ evicted \in SUBSET File
    BY <1>2, <1>3
  <2> QED
    BY <2>1, OutputTyped, SumOfDisjoint, SumIsNat, FilesAreFinite DEF OutputSum
<1>6. StorageUsed' = OutputSum(Stored \ evicted) + InputSum(InFlight) + InputSum(taken)
  BY <1>1, <1>3, <1>4, <1>5 DEF StorageUsed, OutputSum, InputSum
<1>7. pc'[r] = "idle" /\ tx'[r] = NoTx
  BY <1>1 DEF EndTransaction, IInv, DailyQuotaExact, TypeOK
<1>8. ASSUME limited PROVE StorageUsed' <= StorageBytes + outgrown
  <2>1. StorageUsed + InputSum(taken) <= StorageBytes + outgrown + OutputSum(evicted)
    BY <1>1, <1>8 DEF StorageOK, RoomFound, Working, Freed, taken, evicted
  <2> QED
    BY <1>2, <1>4, <1>5, <1>6, <2>1 DEF StorageUsed
<1>9. ASSUME limited, NEW q \in Request PROVE ~Working(q)'
  <2>1. CASE q = r
    BY <1>7, <2>1 DEF Working
  <2>2. CASE q # r
    <3>1. Working(r) /\ ownerLock = r
      BY <1>1, <1>9 DEF Working, StorageOK, RoomFound
    <3>2. ~Working(q)
      BY <1>9, <2>2, <3>1 DEF StorageOK, RoomFound
    <3> QED
      BY <1>1, <2>2, <3>2, TransactionEnds DEF Working
  <2> QED
    BY <2>1, <2>2
<1>10. ASSUME NEW q \in Request
       PROVE  tx'[q].deficit \in Nat /\ tx'[q].evicted \subseteq Stored'
  <2>1. CASE q = r
    BY <1>7, <2>1 DEF NoTx
  <2>2. CASE q # r
    <3>1. tx'[q] = tx[q] /\ tx[q].deficit \in Nat /\ tx[q].evicted \subseteq Stored
      BY <1>1, <2>2, TransactionEnds DEF StorageOK
    <3>2. tx[q].evicted # {} => evicted = {}
      <4>1. tx[q].evicted # {} => \A b \in Batch : batchLock[b] = q
        BY DEF IInv, TransactionOK
      <4>2. evicted # {} => \E b \in Batch : TRUE
        BY <1>2, <1>3, StorageAssumption
      <4> QED
        BY <1>2, <2>2, <4>1, <4>2
    <3> QED
      BY <1>3, <3>1, <3>2
  <2> QED
    BY <2>1, <2>2
<1> QED
  BY <1>1, <1>2, <1>8, <1>9, <1>10 DEF StorageOK, RoomFound

LEMMA InitStorage == Init => StorageOK
<1> SUFFICES ASSUME Init PROVE StorageOK
  OBVIOUS
<1>1. Stored = {} /\ InFlight = {} /\ StorageBytes \in Nat
  BY StorageAssumption DEF Init, Stored, InFlight
<1>2. StorageUsed = 0
  <2>1. OutputSum({}) = 0 /\ InputSum({}) = 0
    BY SumOfNone DEF OutputSum, InputSum
  <2> QED
    BY <1>1, <2>1 DEF StorageUsed
<1> QED
  BY <1>1, <1>2 DEF Init, StorageOK, RoomFound, Working, NoTx

LEMMA StepStorage == IInv /\ IInv' /\ StorageOK /\ [Next]_vars => StorageOK'
<1> SUFFICES ASSUME IInv, IInv', StorageOK, [Next]_vars PROVE StorageOK'
  OBVIOUS
<1>1. CASE \E f \in File : Upload(f) \/ Start(f) \/ Complete(f) \/ Fail(f) \/ Expire(f)
  BY <1>1, FileStorage
<1>2. CASE Midnight \/ UNCHANGED vars
  BY <1>2, StillStorage DEF Midnight, vars, files, locks, history, Stored, InFlight
<1>3. CASE \E r \in Request, b \in Batch : Begin(r, b)
  BY <1>3, BeginStorage
<1>4. ASSUME NEW r \in Request,
             \/ LockOwnerAndBatch(r) \/ ClaimAndMeasure(r) \/ LockOwnersBatches(r)
             \/ Evict(r) \/ RefuseStorage(r) \/ ReserveToday(r) \/ Commit(r) \/ RollBack(r)
      PROVE  StorageOK'
  <2>1. CASE RefuseStorage(r) \/ RollBack(r)
    BY <2>1, NothingStorage DEF RefuseStorage, RollBack
  <2> QED
    BY <1>4, <2>1, LockStorage, ClaimStorage, LockAllStorage, EvictStorage, CommitStorage
<1> QED
  BY <1>1, <1>2, <1>3, <1>4 DEF Next

(* For every plan and any number of parallel admissions, results and       *)
(* expiries: an owner's files stay within the plan's storage, but for what *)
(* results add by being larger than their inputs.  The usage is measured   *)
(* under the owner's advisory lock, and what is evicted is locked, so that *)
(* everything that happens before the commit only makes room.              *)
THEOREM StorageIsKept == Spec => []StorageKept
<1>1. StorageOK => StorageKept
  BY DEF StorageOK, StorageKept
<1> QED
  BY <1>1, InitIInv, StepIInv, InitStorage, StepStorage, PTL DEF Spec

-----------------------------------------------------------------------------
(* The outbox: OutboxPublisher over the rows of OutboxRows.  As it is      *)
(* instantiated, the library's finite sets have to be said to be its own.  *)
Outbox == INSTANCE OutboxPublisher

LEMMA SameCardinality == ASSUME NEW S PROVE Outbox!Cardinality(S) = Cardinality(S)
BY Zenon DEF Outbox!Cardinality, Cardinality, Outbox!IsFiniteSet, IsFiniteSet

Rows(s) == {s[i] : i \in 1..Len(s)}
FirstRows(s, n) == {s[i] : i \in 1..n}
Distinct(s) == \A i, j \in 1..Len(s) : s[i] = s[j] => i = j

OutboxTyped ==
    /\ row \in [Event -> {"none", "pending", "deleted"}]
    /\ due \in Seq(Event)
    /\ claimed \in [Publisher -> Seq(Event)]
    /\ delivered \in [Publisher -> SUBSET Event]
    /\ failed \in [Publisher -> SUBSET Event]
    /\ elapsed \in [Publisher -> Nat]
    /\ sent \in [Event -> Nat] /\ unsure \in [Event -> Nat]
    /\ unanswered \in 0..MaxUnanswered /\ cuts \in 0..MaxCuts

DuePending == Distinct(due) /\ \A e \in Rows(due) : row[e] = "pending"

(* Claimed rows are due, claimed by one instance and tried in their order. *)
ClaimsApart ==
    /\ \A p \in Publisher : Distinct(claimed[p]) /\ Rows(claimed[p]) \subseteq Rows(due)
    /\ \A p, q \in Publisher : p # q => Rows(claimed[p]) \cap Rows(claimed[q]) = {}

TriedInOrder ==
    \A p \in Publisher : \E k \in 0..Len(claimed[p]) :
      delivered[p] \cup failed[p] = FirstRows(claimed[p], k)

SentAccounted ==
    \A e \in Event : sent[e] = unsure[e] + IF Recorded(e) THEN 1 ELSE 0

OutboxInv == OutboxTyped /\ DuePending /\ ClaimsApart /\ TriedInOrder /\ SentAccounted

-----------------------------------------------------------------------------
(* Sequences without repetition.                                           *)
LEMMA CountedRows ==
    ASSUME NEW n \in Nat, NEW s, \A i, j \in 1..n : s[i] = s[j] => i = j
    PROVE  IsFiniteSet(FirstRows(s, n)) /\ Cardinality(FirstRows(s, n)) = n
<1> DEFINE T == FirstRows(s, n)
           f == [i \in 1..n |-> s[i]]
<1>1. f \in Bijection(1..n, T)
  <2>1. f \in [1..n -> T]
    BY DEF FirstRows
  <2>2. \A i, j \in 1..n : f[i] = f[j] => i = j
    OBVIOUS
  <2>3. \A e \in T : \E i \in 1..n : f[i] = e
    BY DEF FirstRows
  <2> QED
    BY <2>1, <2>2, <2>3, Fun_IsBij
<1> HIDE DEF f, T
<1>2. ExistsBijection(1..n, T)
  BY <1>1 DEF ExistsBijection
<1>3. IsFiniteSet(1..n) /\ Cardinality(1..n) = n
  BY FS_Interval
<1>4. IsFiniteSet(T) /\ Cardinality(T) = n
  BY <1>2, <1>3, FS_Bijection
<1> QED
  BY <1>4 DEF T

LEMMA RowsAreFirst == ASSUME NEW s PROVE Rows(s) = FirstRows(s, Len(s))
BY DEF Rows, FirstRows

LEMMA RowsAreTheSet == ASSUME NEW s \in Seq(Event) PROVE Outbox!ToSet(s) = Rows(s)
BY DEF Outbox!ToSet, Rows

LEMMA FunctionIsSeq ==
    ASSUME NEW S, NEW n \in Nat, NEW s \in [1..n -> S] PROVE s \in Seq(S) /\ Len(s) = n
OBVIOUS

(* What is listed in the order of `due` is listed once.                    *)
LEMMA InDueOrder ==
    ASSUME OutboxTyped, DuePending, NEW S \in SUBSET Rows(due),
           NEW s \in Outbox!InDueOrder(S)
    PROVE  s \in Seq(Event) /\ Distinct(s) /\ Rows(s) = S
<1>1. Len(due) \in Nat /\ \A i \in 1..Len(due) : due[i] \in Event
  BY DEF OutboxTyped
<1>2. IsFiniteSet(Rows(due))
  BY <1>1, CountedRows, RowsAreFirst DEF DuePending, Distinct
<1> DEFINE n == Cardinality(S)
<1>3. n \in Nat
  BY <1>2, FS_Subset, FS_CardinalityType
<1>4. s \in Outbox!Bijection(1..n, S)
  BY SameCardinality DEF Outbox!InDueOrder
<1> HIDE DEF n
<1>5. /\ s \in [1..n -> S]
      /\ \A i, j \in 1..n : s[i] = s[j] => i = j
      /\ \A e \in S : \E i \in 1..n : s[i] = e
  BY <1>4 DEF Outbox!Bijection, Outbox!Injection, Outbox!Surjection, Outbox!IsInjective
<1>6. S \subseteq Event
  BY <1>1 DEF Rows
<1>7. s \in [1..n -> Event]
  BY <1>5, <1>6
<1>8. s \in Seq(Event) /\ Len(s) = n
  BY <1>3, <1>7, FunctionIsSeq
<1> QED
  BY <1>5, <1>8 DEF Distinct, Rows

LEMMA FirstOf ==
    ASSUME ClaimBatchSize \in Nat, NEW s \in Seq(Event), Distinct(s)
    PROVE  LET t == Outbox!FirstOf(s) IN
           t \in Seq(Event) /\ Distinct(t) /\ Rows(t) \subseteq Rows(s)
<1>1. CASE Len(s) <= ClaimBatchSize
  BY <1>1 DEF Outbox!FirstOf
<1>2. CASE ~(Len(s) <= ClaimBatchSize)
  <2> DEFINE b == ClaimBatchSize
             t == SubSeq(s, 1, b)
  <2>1. Len(s) \in Nat /\ b \in Nat /\ b < Len(s)
    BY <1>2
  <2>2. \A i \in 1..b : s[i] \in Event
    <3> SUFFICES ASSUME NEW i \in 1..b PROVE s[i] \in Event
      OBVIOUS
    <3>1. i \in 1..Len(s)
      BY <2>1
    <3> QED
      BY <3>1, ElementOfSeq
  <2>3. /\ t \in Seq(Event) /\ Len(t) = (IF 1 <= b THEN b - 1 + 1 ELSE 0)
        /\ \A i \in 1..(b - 1 + 1) : t[i] = s[1 + i - 1]
    BY <2>1, <2>2, SubSeqProperties
  <2> HIDE DEF t
  <2>4. t \in Seq(Event) /\ Len(t) = b /\ \A i \in 1..b : t[i] = s[i]
    BY <2>1, <2>3
  <2>5. \A i \in 1..b : i \in 1..Len(s)
    BY <2>1
  <2>6. Distinct(t) /\ Rows(t) \subseteq Rows(s)
    BY <2>4, <2>5 DEF Distinct, Rows
  <2>7. Outbox!FirstOf(s) = t
    BY <1>2 DEF Outbox!FirstOf, t
  <2> QED
    BY <2>4, <2>6, <2>7
<1> QED
  BY <1>1, <1>2

-----------------------------------------------------------------------------
(* The row a transaction sends next is the first it has not tried.         *)
LEMMA NextIsUntried ==
    ASSUME OutboxInv, NEW p \in Publisher, Outbox!MaySend(p)
    PROVE  \E k \in 1..Len(claimed[p]) :
             /\ Outbox!NextEvent(p) = claimed[p][k]
             /\ claimed[p][k] \notin Outbox!Tried(p)
             /\ Outbox!Tried(p) \cup {claimed[p][k]} = FirstRows(claimed[p], k)
<1> DEFINE s == claimed[p]
           n == Len(s)
<1>1. s \in Seq(Event) /\ n \in Nat
  BY DEF OutboxInv, OutboxTyped
<1>2. PICK k \in 0..n : Outbox!Tried(p) = FirstRows(s, k)
  BY DEF OutboxInv, TriedInOrder, Outbox!Tried
<1>3. \A i, j \in 1..n : s[i] = s[j] => i = j
  BY DEF OutboxInv, ClaimsApart, Distinct
<1>4. Rows(s) # Outbox!Tried(p)
  BY <1>1, RowsAreTheSet DEF Outbox!MaySend, Outbox!Untried
<1> HIDE DEF n, s
<1>5. k # n
  BY <1>2, <1>4, RowsAreFirst DEF n
<1>6. k \in Nat /\ k + 1 \in 1..n
  BY <1>1, <1>2, <1>5
<1>7. \A i, j \in 1..k : s[i] = s[j] => i = j
  BY <1>1, <1>2, <1>3
<1>8. Outbox!Cardinality(Outbox!Tried(p)) = k
  BY <1>2, <1>6, <1>7, CountedRows, SameCardinality
<1>9. Outbox!NextEvent(p) = s[k + 1]
  BY <1>8 DEF Outbox!NextEvent, s
<1>10. s[k + 1] \notin Outbox!Tried(p)
  <2> SUFFICES ASSUME NEW i \in 1..k, s[i] = s[k + 1] PROVE FALSE
    BY <1>2 DEF FirstRows
  <2>1. i \in 1..n
    BY <1>1, <1>2
  <2> QED
    BY <1>3, <1>6, <2>1
<1>11. Outbox!Tried(p) \cup {s[k + 1]} = FirstRows(s, k + 1)
  <2>1. 1..(k + 1) = 1..k \cup {k + 1}
    BY <1>6
  <2> QED
    BY <1>2, <2>1 DEF FirstRows
<1> QED
  BY <1>6, <1>9, <1>10, <1>11 DEF s, n

(* A send adds the row to one of the two lists; no other changes.          *)
Tells(p, e) ==
    \/ delivered' = [delivered EXCEPT ![p] = @ \cup {e}] /\ failed' = failed
    \/ failed' = [failed EXCEPT ![p] = @ \cup {e}] /\ delivered' = delivered

LEMMA SendKeepsOrder ==
    ASSUME OutboxInv, NEW p \in Publisher, Outbox!MaySend(p),
           Tells(p, Outbox!NextEvent(p)), UNCHANGED <<row, due, claimed>>
    PROVE  DuePending' /\ ClaimsApart' /\ TriedInOrder'
<1>1. DuePending' /\ ClaimsApart'
  <2>1. DuePending'
    BY DEF OutboxInv, DuePending, Distinct, Rows
  <2>2. ClaimsApart'
    BY DEF OutboxInv, ClaimsApart
  <2> QED
    BY <2>1, <2>2
<1> DEFINE e == Outbox!NextEvent(p)
<1>2. PICK k \in 1..Len(claimed[p]) :
             /\ e = claimed[p][k]
             /\ Outbox!Tried(p) \cup {claimed[p][k]} = FirstRows(claimed[p], k)
  BY NextIsUntried
<1>3. delivered \in [Publisher -> SUBSET Event] /\ failed \in [Publisher -> SUBSET Event]
      /\ claimed \in [Publisher -> Seq(Event)]
  BY DEF OutboxInv, OutboxTyped
<1> HIDE DEF e
<1>4. ASSUME NEW q \in Publisher
      PROVE  \E j \in 0..Len(claimed[q]) :
               delivered'[q] \cup failed'[q] = FirstRows(claimed[q], j)
  <2>1. CASE q = p
    <3>1. delivered'[p] \cup failed'[p] = delivered[p] \cup failed[p] \cup {e}
      BY <1>3 DEF Tells, e
    <3>2. delivered'[p] \cup failed'[p] = FirstRows(claimed[p], k)
      BY <1>2, <3>1 DEF Outbox!Tried
    <3>3. k \in 0..Len(claimed[p])
      BY <1>3
    <3> QED
      BY <2>1, <3>2, <3>3
  <2>2. CASE q # p
    <3>1. delivered'[q] = delivered[q] /\ failed'[q] = failed[q]
      BY <1>3, <2>2 DEF Tells, e
    <3> QED
      BY <3>1 DEF OutboxInv, TriedInOrder
  <2> QED
    BY <2>1, <2>2
<1>5. TriedInOrder'
  BY <1>4 DEF TriedInOrder, FirstRows
<1> QED
  BY <1>1, <1>5

LEMMA TriedAreClaimed ==
    ASSUME OutboxInv, NEW p \in Publisher PROVE Outbox!Tried(p) \subseteq Rows(claimed[p])
<1>1. PICK k \in 0..Len(claimed[p]) : Outbox!Tried(p) = FirstRows(claimed[p], k)
  BY DEF OutboxInv, TriedInOrder, Outbox!Tried
<1>2. Len(claimed[p]) \in Nat
  BY DEF OutboxInv, OutboxTyped
<1>3. 1..k \subseteq 1..Len(claimed[p])
  BY <1>2
<1> QED
  BY <1>1, <1>3 DEF Rows, FirstRows

(* The row that is sent is pending and on nobody's list.                   *)
LEMMA NextIsUnrecorded ==
    ASSUME OutboxInv, NEW p \in Publisher, Outbox!MaySend(p)
    PROVE  Outbox!NextEvent(p) \in Event /\ ~Recorded(Outbox!NextEvent(p))
<1>1. PICK k \in 1..Len(claimed[p]) :
        Outbox!NextEvent(p) = claimed[p][k] /\ claimed[p][k] \notin Outbox!Tried(p)
  BY NextIsUntried
<1> DEFINE e == claimed[p][k]
<1>2. e \in Rows(claimed[p]) /\ e \in Rows(due)
  BY DEF OutboxInv, ClaimsApart, Rows
<1>3. e \in Event
  <2>1. due \in Seq(Event)
    BY DEF OutboxInv, OutboxTyped
  <2> QED
    BY <1>2, <2>1, ElementOfSeq DEF Rows
<1>4. row[e] = "pending"
  BY <1>2 DEF OutboxInv, DuePending
<1>5. ASSUME NEW q \in Publisher, e \in delivered[q] PROVE FALSE
  <2>1. e \in Rows(claimed[q])
    BY <1>5, TriedAreClaimed DEF Outbox!Tried
  <2>2. q = p
    BY <1>2, <2>1 DEF OutboxInv, ClaimsApart
  <2> QED
    BY <1>1, <1>5, <2>2 DEF Outbox!Tried
<1> QED
  BY <1>1, <1>3, <1>4, <1>5 DEF Recorded

LEMMA SpentTime ==
    ASSUME OutboxTyped, NEW p \in Publisher, Outbox!SpendTime(p)
    PROVE  elapsed' \in [Publisher -> Nat]
<1>1. PICK d \in SendTimes : elapsed' = [elapsed EXCEPT ![p] = @ + d]
  BY DEF Outbox!SpendTime
<1>2. d \in Nat
  BY OutboxAssumption
<1> QED
  BY <1>1, <1>2 DEF OutboxTyped

LEMMA SendAcceptedStep ==
    ASSUME OutboxInv, NEW p \in Publisher, Outbox!SendAccepted(p)
    PROVE  OutboxInv'
<1> DEFINE e == Outbox!NextEvent(p)
<1>1. /\ Outbox!MaySend(p) /\ UNCHANGED <<row, due, claimed, failed, unsure, unanswered, cuts>>
      /\ sent' = [sent EXCEPT ![e] = @ + 1]
      /\ delivered' = [delivered EXCEPT ![p] = @ \cup {e}]
  BY DEF Outbox!SendAccepted, Outbox!mishaps
<1>2. e \in Event /\ ~Recorded(e)
  BY <1>1, NextIsUnrecorded
<1>3. elapsed' \in [Publisher -> Nat]
  BY SpentTime DEF Outbox!SendAccepted, OutboxInv
<1>4. DuePending' /\ ClaimsApart' /\ TriedInOrder'
  BY <1>1, SendKeepsOrder DEF Tells
<1> HIDE DEF e
<1>5. OutboxTyped'
  <2>1. sent' \in [Event -> Nat] /\ delivered' \in [Publisher -> SUBSET Event]
    BY <1>1, <1>2 DEF OutboxInv, OutboxTyped
  <2> QED
    BY <1>1, <1>3, <2>1 DEF OutboxInv, OutboxTyped
<1>6. SentAccounted'
  <2> SUFFICES ASSUME NEW f \in Event
               PROVE  sent'[f] = unsure'[f] + IF Recorded(f)' THEN 1 ELSE 0
    BY DEF SentAccounted
  <2>1. sent \in [Event -> Nat] /\ unsure \in [Event -> Nat]
        /\ delivered \in [Publisher -> SUBSET Event]
    BY DEF OutboxInv, OutboxTyped
  <2>2. sent[f] = unsure[f] + IF Recorded(f) THEN 1 ELSE 0
    BY DEF OutboxInv, SentAccounted
  <2>3. CASE f = e
    <3>1. e \in delivered'[p]
      BY <1>1, <2>1
    <3>2. Recorded(f)'
      BY <2>3, <3>1 DEF Recorded
    <3> QED
      BY <1>1, <1>2, <2>1, <2>2, <2>3, <3>2
  <2>4. CASE f # e
    <3>1. \A q \in Publisher : f \in delivered'[q] <=> f \in delivered[q]
      BY <1>1, <2>1, <2>4
    <3>2. Recorded(f)' <=> Recorded(f)
      BY <1>1, <3>1 DEF Recorded
    <3> QED
      BY <1>1, <2>1, <2>2, <2>4, <3>2
  <2> QED
    BY <2>3, <2>4
<1> QED
  BY <1>4, <1>5, <1>6 DEF OutboxInv

LEMMA SendRefusedStep ==
    ASSUME OutboxInv, NEW p \in Publisher, Outbox!SendRefused(p)
    PROVE  OutboxInv'
<1> DEFINE e == Outbox!NextEvent(p)
<1>1. /\ Outbox!MaySend(p)
      /\ UNCHANGED <<row, due, claimed, delivered, sent, unsure, unanswered, cuts>>
      /\ failed' = [failed EXCEPT ![p] = @ \cup {e}]
  BY DEF Outbox!SendRefused, Outbox!mishaps
<1>2. e \in Event
  BY <1>1, NextIsUnrecorded
<1>3. elapsed' \in [Publisher -> Nat]
  BY SpentTime DEF Outbox!SendRefused, OutboxInv
<1>4. DuePending' /\ ClaimsApart' /\ TriedInOrder'
  BY <1>1, SendKeepsOrder DEF Tells
<1> HIDE DEF e
<1>5. OutboxTyped'
  <2>1. failed' \in [Publisher -> SUBSET Event]
    BY <1>1, <1>2 DEF OutboxInv, OutboxTyped
  <2> QED
    BY <1>1, <1>3, <2>1 DEF OutboxInv, OutboxTyped
<1>6. SentAccounted'
  BY <1>1 DEF OutboxInv, SentAccounted, Recorded
<1> QED
  BY <1>4, <1>5, <1>6 DEF OutboxInv

LEMMA SendUnansweredStep ==
    ASSUME OutboxInv, NEW p \in Publisher, Outbox!SendUnanswered(p)
    PROVE  OutboxInv'
<1> DEFINE e == Outbox!NextEvent(p)
<1>1. /\ Outbox!MaySend(p) /\ UNCHANGED <<row, due, claimed, delivered, cuts>>
      /\ unanswered < MaxUnanswered /\ unanswered' = unanswered + 1
      /\ sent' = [sent EXCEPT ![e] = @ + 1]
      /\ unsure' = [unsure EXCEPT ![e] = @ + 1]
      /\ failed' = [failed EXCEPT ![p] = @ \cup {e}]
  BY DEF Outbox!SendUnanswered
<1>2. e \in Event
  BY <1>1, NextIsUnrecorded
<1>3. elapsed' \in [Publisher -> Nat]
  BY SpentTime DEF Outbox!SendUnanswered, OutboxInv
<1>4. DuePending' /\ ClaimsApart' /\ TriedInOrder'
  BY <1>1, SendKeepsOrder DEF Tells
<1> HIDE DEF e
<1>5. OutboxTyped'
  <2>1. failed' \in [Publisher -> SUBSET Event]
    BY <1>1, <1>2 DEF OutboxInv, OutboxTyped
  <2>2. sent' \in [Event -> Nat] /\ unsure' \in [Event -> Nat]
    BY <1>1, <1>2 DEF OutboxInv, OutboxTyped
  <2>3. unanswered' \in 0..MaxUnanswered
    BY <1>1, OutboxAssumption DEF OutboxInv, OutboxTyped
  <2> QED
    BY <1>1, <1>3, <2>1, <2>2, <2>3 DEF OutboxInv, OutboxTyped
<1>6. SentAccounted'
  <2>1. sent \in [Event -> Nat] /\ unsure \in [Event -> Nat]
    BY DEF OutboxInv, OutboxTyped
  <2>2. ASSUME NEW f \in Event
        PROVE  sent'[f] - unsure'[f] = sent[f] - unsure[f] /\ sent'[f] \in Nat /\ unsure'[f] \in Nat
    BY <1>1, <1>2, <2>1
  <2>3. ASSUME NEW f \in Event PROVE Recorded(f)' <=> Recorded(f)
    BY <1>1 DEF Recorded
  <2>4. ASSUME NEW f \in Event
        PROVE  sent'[f] = unsure'[f] + IF Recorded(f)' THEN 1 ELSE 0
    <3>1. sent[f] = unsure[f] + IF Recorded(f) THEN 1 ELSE 0
      BY DEF OutboxInv, SentAccounted
    <3> QED
      BY <2>1, <2>2, <2>3, <3>1
  <2> QED
    BY <2>4 DEF SentAccounted
<1> QED
  BY <1>4, <1>5, <1>6 DEF OutboxInv

-----------------------------------------------------------------------------
(* A row becomes due.                                                      *)
LEMMA JoinsStep ==
    ASSUME OutboxInv, NEW e \in Event, e \notin Rows(due), due' = Append(due, e),
           row' \in [Event -> {"none", "pending", "deleted"}], row'[e] = "pending",
           \A f \in Event : row'[f] = row[f] \/ (f = e /\ row[f] # "deleted"),
           UNCHANGED <<claimed, delivered, failed, elapsed, sent, unsure, unanswered, cuts>>
    PROVE  OutboxInv'
<1>0. due \in Seq(Event) /\ Len(due) \in Nat
  BY DEF OutboxInv, OutboxTyped
<1>1. /\ due' \in Seq(Event) /\ Len(due') = Len(due) + 1
      /\ \A i \in 1..Len(due) : due'[i] = due[i]
      /\ due'[Len(due) + 1] = e
  BY <1>0
<1>2. OutboxTyped'
  BY <1>1 DEF OutboxInv, OutboxTyped
<1>3. Rows(due') = Rows(due) \cup {e}
  <2>1. 1..(Len(due) + 1) = 1..Len(due) \cup {Len(due) + 1}
    BY <1>0
  <2> QED
    BY <1>1, <2>1 DEF Rows
<1>4. Distinct(due')
  <2> SUFFICES ASSUME NEW i \in 1..(Len(due) + 1), NEW j \in 1..(Len(due) + 1),
                      due'[i] = due'[j]
               PROVE  i = j
    BY <1>1 DEF Distinct
  <2> DEFINE n == Len(due)
  <2>1. \A k \in 1..(n + 1) : k # n + 1 => k \in 1..n
    BY <1>0
  <2>2. \A k \in 1..n : due'[k] = due[k] /\ due[k] # e
    BY <1>1 DEF Rows
  <2>3. \A k, m \in 1..n : due[k] = due[m] => k = m
    BY DEF OutboxInv, DuePending, Distinct
  <2> HIDE DEF n
  <2>4. due'[n + 1] = e
    BY <1>1 DEF n
  <2> QED
    BY <2>1, <2>2, <2>3, <2>4 DEF n
<1>5. \A f \in Rows(due') : row'[f] = "pending"
  <2>1. Rows(due) \subseteq Event
    BY <1>0, ElementOfSeq DEF Rows
  <2> QED
    BY <1>3, <2>1 DEF OutboxInv, DuePending
<1>6. DuePending'
  BY <1>4, <1>5 DEF DuePending, Distinct, Rows
<1>7. ClaimsApart'
  <2>1. \A p \in Publisher : Distinct(claimed[p]) /\ Rows(claimed[p]) \subseteq Rows(due')
    BY <1>3 DEF OutboxInv, ClaimsApart
  <2>2. \A p, q \in Publisher : p # q => Rows(claimed[p]) \cap Rows(claimed[q]) = {}
    BY DEF OutboxInv, ClaimsApart
  <2> QED
    BY <2>1, <2>2 DEF ClaimsApart
<1>8. TriedInOrder'
  BY DEF OutboxInv, TriedInOrder, FirstRows
<1>9. SentAccounted'
  <2>1. \A f \in Event : Recorded(f)' <=> Recorded(f)
    BY DEF Recorded
  <2> QED
    BY <2>1 DEF OutboxInv, SentAccounted
<1> QED
  BY <1>2, <1>6, <1>7, <1>8, <1>9 DEF OutboxInv

LEMMA InsertStep == ASSUME OutboxInv, NEW e \in Event, Outbox!Insert(e) PROVE OutboxInv'
<1>1. /\ row[e] = "none" /\ row' = [row EXCEPT ![e] = "pending"] /\ due' = Append(due, e)
      /\ UNCHANGED <<claimed, delivered, failed, elapsed, sent, unsure, unanswered, cuts>>
  BY DEF Outbox!Insert, Outbox!tx, Outbox!mishaps
<1>2. row \in [Event -> {"none", "pending", "deleted"}]
  BY DEF OutboxInv, OutboxTyped
<1>3. e \notin Rows(due)
  BY <1>1 DEF OutboxInv, DuePending
<1>4. /\ row' \in [Event -> {"none", "pending", "deleted"}] /\ row'[e] = "pending"
      /\ \A f \in Event : row'[f] = row[f] \/ (f = e /\ row[f] # "deleted")
  BY <1>1, <1>2
<1> QED
  BY <1>1, <1>3, <1>4, JoinsStep

LEMMA BackoffEndsStep ==
    ASSUME OutboxInv, NEW e \in Event, Outbox!BackoffEnds(e) PROVE OutboxInv'
<1>1. /\ row[e] = "pending" /\ row' = row /\ due' = Append(due, e)
      /\ e \notin Outbox!ToSet(due)
      /\ UNCHANGED <<claimed, delivered, failed, elapsed, sent, unsure, unanswered, cuts>>
  BY DEF Outbox!BackoffEnds, Outbox!tx, Outbox!mishaps
<1>2. row \in [Event -> {"none", "pending", "deleted"}] /\ due \in Seq(Event)
  BY DEF OutboxInv, OutboxTyped
<1>3. e \notin Rows(due)
  BY <1>1, <1>2, RowsAreTheSet
<1>4. /\ row' \in [Event -> {"none", "pending", "deleted"}] /\ row'[e] = "pending"
      /\ \A f \in Event : row'[f] = row[f] \/ (f = e /\ row[f] # "deleted")
  BY <1>1, <1>2
<1> QED
  BY <1>1, <1>3, <1>4, JoinsStep

-----------------------------------------------------------------------------
LEMMA OutboxClaimStep ==
    ASSUME OutboxInv, NEW p \in Publisher, Outbox!Claim(p)
    PROVE  OutboxInv'
<1>1. PICK s \in Outbox!InDueOrder(Outbox!ToSet(due) \ Outbox!Locked) :
        claimed' = [claimed EXCEPT ![p] = Outbox!FirstOf(s)]
  BY DEF Outbox!Claim, Outbox!Claimable
<1>2. /\ claimed[p] = << >>
      /\ UNCHANGED <<row, due, delivered, failed, elapsed, sent, unsure, unanswered, cuts>>
  BY DEF Outbox!Claim, Outbox!mishaps
<1>3. /\ due \in Seq(Event) /\ claimed \in [Publisher -> Seq(Event)]
      /\ ClaimBatchSize \in Nat
  BY OutboxAssumption DEF OutboxInv, OutboxTyped
<1> DEFINE t == Outbox!FirstOf(s)
           free == Outbox!ToSet(due) \ Outbox!Locked
<1>4. free \subseteq Rows(due) /\ \A q \in Publisher : free \cap Rows(claimed[q]) = {}
  <2>1. Outbox!ToSet(due) = Rows(due)
    BY <1>3, RowsAreTheSet
  <2>2. ASSUME NEW q \in Publisher PROVE Rows(claimed[q]) \subseteq Outbox!Locked
    <3>1. claimed[q] \in Seq(Event)
      BY <1>3
    <3>2. Outbox!ToSet(claimed[q]) = Rows(claimed[q])
      BY <3>1, RowsAreTheSet
    <3> QED
      BY <3>2 DEF Outbox!Locked
  <2> QED
    BY <2>1, <2>2
<1>5. s \in Outbox!InDueOrder(free)
  OBVIOUS
<1> HIDE DEF free
<1>6. s \in Seq(Event) /\ Distinct(s) /\ Rows(s) = free
  BY <1>4, <1>5, InDueOrder DEF OutboxInv
<1>7. t \in Seq(Event) /\ Distinct(t) /\ Rows(t) \subseteq free
  BY <1>3, <1>6, FirstOf
<1>8. claimed' = [claimed EXCEPT ![p] = t]
  BY <1>1
<1> HIDE DEF t
<1>9. claimed' \in [Publisher -> Seq(Event)] /\ claimed'[p] = t
      /\ \A q \in Publisher : q # p => claimed'[q] = claimed[q]
  BY <1>3, <1>7, <1>8
<1>10. OutboxTyped' /\ DuePending'
  <2>1. OutboxTyped'
    BY <1>2, <1>9 DEF OutboxInv, OutboxTyped
  <2>2. DuePending'
    BY <1>2 DEF OutboxInv, DuePending
  <2> QED
    BY <2>1, <2>2
<1>11. ClaimsApart'
  <2>1. ASSUME NEW q \in Publisher
        PROVE  Distinct(claimed'[q]) /\ Rows(claimed'[q]) \subseteq Rows(due)
    <3>1. CASE q = p
      BY <1>4, <1>7, <1>9, <3>1
    <3>2. CASE q # p
      BY <1>9, <3>2 DEF OutboxInv, ClaimsApart
    <3> QED
      BY <3>1, <3>2
  <2>2. ASSUME NEW q \in Publisher, NEW r \in Publisher, q # r
        PROVE  Rows(claimed'[q]) \cap Rows(claimed'[r]) = {}
    <3>1. CASE q # p /\ r # p
      BY <1>9, <2>2, <3>1 DEF OutboxInv, ClaimsApart
    <3>2. CASE q = p
      <4>1. claimed'[r] = claimed[r] /\ claimed'[q] = t
        BY <1>9, <2>2, <3>2
      <4> QED
        BY <1>4, <1>7, <4>1
    <3>3. CASE r = p
      <4>1. claimed'[q] = claimed[q] /\ claimed'[r] = t
        BY <1>9, <2>2, <3>3
      <4> QED
        BY <1>4, <1>7, <4>1
    <3> QED
      BY <3>1, <3>2, <3>3
  <2> QED
    BY <1>2, <2>1, <2>2 DEF ClaimsApart
<1>12. TriedInOrder'
  <2>1. ASSUME NEW q \in Publisher
        PROVE  \E k \in 0..Len(claimed'[q]) :
                 delivered[q] \cup failed[q] = FirstRows(claimed'[q], k)
    <3>1. CASE q = p
      <4>1. PICK k \in 0..Len(claimed[p]) :
              delivered[p] \cup failed[p] = FirstRows(claimed[p], k)
        BY DEF OutboxInv, TriedInOrder
      <4>2. k = 0
        BY <1>2
      <4>3. delivered[p] \cup failed[p] = FirstRows(t, 0)
        BY <4>1, <4>2 DEF FirstRows
      <4>4. 0 \in 0..Len(t)
        BY <1>7
      <4> QED
        BY <1>9, <3>1, <4>3, <4>4
    <3>2. CASE q # p
      BY <1>9, <3>2 DEF OutboxInv, TriedInOrder
    <3> QED
      BY <3>1, <3>2
  <2> QED
    BY <1>2, <2>1 DEF TriedInOrder
<1>13. SentAccounted'
  BY <1>2 DEF OutboxInv, SentAccounted, Recorded
<1> QED
  BY <1>10, <1>11, <1>12, <1>13 DEF OutboxInv

-----------------------------------------------------------------------------
(* A transaction is over: its claim and its lists are gone.                *)
LEMMA EndedClaims ==
    ASSUME OutboxInv, NEW p \in Publisher, Outbox!EndTransaction(p)
    PROVE  /\ claimed' \in [Publisher -> Seq(Event)] /\ claimed'[p] = << >>
           /\ delivered' \in [Publisher -> SUBSET Event] /\ delivered'[p] = {}
           /\ failed' \in [Publisher -> SUBSET Event] /\ failed'[p] = {}
           /\ elapsed' \in [Publisher -> Nat]
           /\ \A q \in Publisher : q # p =>
                /\ claimed'[q] = claimed[q]
                /\ delivered'[q] = delivered[q] /\ failed'[q] = failed[q]
<1>1. << >> \in Seq(Event) /\ 0 \in Nat
  OBVIOUS
<1> QED
  BY <1>1 DEF Outbox!EndTransaction, OutboxInv, OutboxTyped

LEMMA EndedKeepsApart ==
    ASSUME OutboxInv, NEW p \in Publisher, Outbox!EndTransaction(p),
           \A q \in Publisher : q # p => Rows(claimed[q]) \subseteq Rows(due')
    PROVE  ClaimsApart' /\ TriedInOrder'
<1>1. /\ claimed'[p] = << >> /\ delivered'[p] = {} /\ failed'[p] = {}
      /\ \A q \in Publisher : q # p =>
                /\ claimed'[q] = claimed[q]
                /\ delivered'[q] = delivered[q] /\ failed'[q] = failed[q]
  BY EndedClaims
<1>2. Rows(<< >>) = {} /\ Distinct(<< >>) /\ FirstRows(<< >>, 0) = {} /\ 0 \in 0..Len(<< >>)
  BY DEF Rows, Distinct, FirstRows
<1>3. ASSUME NEW q \in Publisher
      PROVE  Distinct(claimed'[q]) /\ Rows(claimed'[q]) \subseteq Rows(due')
  <2>1. CASE q = p
    BY <1>1, <1>2, <2>1
  <2>2. CASE q # p
    BY <1>1, <2>2 DEF OutboxInv, ClaimsApart
  <2> QED
    BY <2>1, <2>2
<1>4. ASSUME NEW q \in Publisher, NEW r \in Publisher, q # r
      PROVE  Rows(claimed'[q]) \cap Rows(claimed'[r]) = {}
  <2>1. CASE q = p \/ r = p
    BY <1>1, <1>2, <2>1
  <2>2. CASE q # p /\ r # p
    BY <1>1, <1>4, <2>2 DEF OutboxInv, ClaimsApart
  <2> QED
    BY <2>1, <2>2
<1>5. ASSUME NEW q \in Publisher
      PROVE  \E k \in 0..Len(claimed'[q]) :
               delivered'[q] \cup failed'[q] = FirstRows(claimed'[q], k)
  <2>1. CASE q = p
    BY <1>1, <1>2, <2>1
  <2>2. CASE q # p
    BY <1>1, <2>2 DEF OutboxInv, TriedInOrder
  <2> QED
    BY <2>1, <2>2
<1> QED
  BY <1>3, <1>4, <1>5 DEF ClaimsApart, TriedInOrder

(* Nobody else has a delivered row on its list.                            *)
LEMMA DeliveredOnce ==
    ASSUME OutboxInv, NEW p \in Publisher, NEW e \in delivered[p]
    PROVE  e \in Rows(due) /\ row[e] = "pending"
           /\ \A q \in Publisher : q # p => e \notin delivered[q]
<1>1. \A q \in Publisher : delivered[q] \subseteq Rows(claimed[q])
  BY TriedAreClaimed DEF Outbox!Tried
<1>2. e \in Rows(due)
  BY <1>1 DEF OutboxInv, ClaimsApart
<1>3. row[e] = "pending"
  BY <1>2 DEF OutboxInv, DuePending
<1>4. ASSUME NEW q \in Publisher, q # p, e \in delivered[q] PROVE FALSE
  BY <1>1, <1>4 DEF OutboxInv, ClaimsApart
<1> QED
  BY <1>2, <1>3, <1>4

LEMMA OutboxCommitStep ==
    ASSUME OutboxInv, NEW p \in Publisher, Outbox!Commit(p) PROVE OutboxInv'
<1>1. /\ row' = [e \in Event |-> IF e \in delivered[p] THEN "deleted" ELSE row[e]]
      /\ due' \in Outbox!InDueOrder(Outbox!ToSet(due) \ Outbox!Tried(p))
      /\ Outbox!EndTransaction(p) /\ UNCHANGED <<sent, unsure, unanswered, cuts>>
  BY DEF Outbox!Commit, Outbox!RowsAfter, Outbox!StillDue, Outbox!mishaps
<1>2. row \in [Event -> {"none", "pending", "deleted"}] /\ due \in Seq(Event)
  BY DEF OutboxInv, OutboxTyped
<1> DEFINE still == Rows(due) \ Outbox!Tried(p)
           next == due'
<1>3. next \in Outbox!InDueOrder(still) /\ still \in SUBSET Rows(due)
  BY <1>1, <1>2, RowsAreTheSet
<1> HIDE DEF still, next
<1>4. next \in Seq(Event) /\ Distinct(next) /\ Rows(next) = still
  BY <1>3, InDueOrder DEF OutboxInv
<1> USE DEF next
<1>5. OutboxTyped'
  <2>1. row' \in [Event -> {"none", "pending", "deleted"}]
    BY <1>1, <1>2
  <2> QED
    BY <1>1, <1>4, <2>1, EndedClaims DEF OutboxInv, OutboxTyped
<1>6. DuePending'
  <2>1. ASSUME NEW e \in Rows(due') PROVE row'[e] = "pending"
    <3>1. e \in Rows(due) /\ e \notin delivered[p]
      BY <1>4 DEF still, Outbox!Tried
    <3>2. e \in Event
      BY <1>2, <3>1, ElementOfSeq DEF Rows
    <3> QED
      BY <1>1, <3>1, <3>2 DEF OutboxInv, DuePending
  <2> QED
    BY <1>4, <2>1 DEF DuePending
<1>7. ClaimsApart' /\ TriedInOrder'
  <2>1. ASSUME NEW q \in Publisher, q # p PROVE Rows(claimed[q]) \subseteq still
    <3>1. Outbox!Tried(p) \subseteq Rows(claimed[p])
      BY TriedAreClaimed
    <3>2. Rows(claimed[q]) \subseteq Rows(due) /\ Rows(claimed[p]) \cap Rows(claimed[q]) = {}
      BY <2>1 DEF OutboxInv, ClaimsApart
    <3> QED
      BY <3>1, <3>2 DEF still
  <2> QED
    BY <1>1, <1>4, <2>1, EndedKeepsApart
<1>8. SentAccounted'
  <2>1. ASSUME NEW e \in Event PROVE Recorded(e)' <=> Recorded(e)
    <3>1. CASE e \in delivered[p]
      BY <1>1, <3>1 DEF Recorded
    <3>2. CASE e \notin delivered[p]
      <4>1. row'[e] = row[e]
        BY <1>1, <3>2
      <4>2. \A q \in Publisher : e \in delivered'[q] <=> e \in delivered[q]
        BY <1>1, <3>2, EndedClaims
      <4> QED
        BY <4>1, <4>2 DEF Recorded
    <3> QED
      BY <3>1, <3>2
  <2> QED
    BY <1>1, <2>1 DEF OutboxInv, SentAccounted
<1> QED
  BY <1>5, <1>6, <1>7, <1>8 DEF OutboxInv

LEMMA RollBackStep ==
    ASSUME OutboxInv, NEW p \in Publisher, Outbox!RollBack(p)
    PROVE  OutboxInv'
<1>1. /\ unsure' = [e \in Event |-> IF e \in delivered[p] THEN unsure[e] + 1 ELSE unsure[e]]
      /\ cuts < MaxCuts /\ cuts' = cuts + 1
      /\ Outbox!EndTransaction(p) /\ UNCHANGED <<row, due, sent, unanswered>>
  BY DEF Outbox!RollBack
<1>2. sent \in [Event -> Nat] /\ unsure \in [Event -> Nat]
  BY DEF OutboxInv, OutboxTyped
<1>3. OutboxTyped'
  <2>1. unsure' \in [Event -> Nat]
    BY <1>1, <1>2
  <2>2. cuts' \in 0..MaxCuts
    BY <1>1, OutboxAssumption DEF OutboxInv, OutboxTyped
  <2> QED
    BY <1>1, <2>1, <2>2, EndedClaims DEF OutboxInv, OutboxTyped
<1>4. DuePending'
  BY <1>1 DEF OutboxInv, DuePending
<1>5. ClaimsApart' /\ TriedInOrder'
  BY <1>1, EndedKeepsApart DEF OutboxInv, ClaimsApart
<1>6. SentAccounted'
  <2>1. ASSUME NEW e \in Event
        PROVE  sent[e] = unsure'[e] + IF Recorded(e)' THEN 1 ELSE 0
    <3>1. sent[e] = unsure[e] + IF Recorded(e) THEN 1 ELSE 0
      BY DEF OutboxInv, SentAccounted
    <3>2. CASE e \in delivered[p]
      <4>1. Recorded(e)
        BY <3>2 DEF Recorded
      <4>2. row'[e] # "deleted" /\ \A q \in Publisher : e \notin delivered'[q]
        <5>1. row[e] = "pending" /\ \A q \in Publisher : q # p => e \notin delivered[q]
          BY <3>2, DeliveredOnce
        <5> QED
          BY <1>1, <5>1, EndedClaims
      <4>3. ~Recorded(e)'
        BY <4>2 DEF Recorded
      <4>4. unsure'[e] = unsure[e] + 1
        BY <1>1, <3>2
      <4> QED
        BY <1>2, <3>1, <4>1, <4>3, <4>4
    <3>3. CASE e \notin delivered[p]
      <4>1. \A q \in Publisher : e \in delivered'[q] <=> e \in delivered[q]
        BY <1>1, <3>3, EndedClaims
      <4>2. Recorded(e)' <=> Recorded(e)
        BY <1>1, <4>1 DEF Recorded
      <4>3. unsure'[e] = unsure[e]
        BY <1>1, <3>3
      <4> QED
        BY <3>1, <4>2, <4>3
    <3> QED
      BY <3>2, <3>3
  <2> QED
    BY <1>1, <2>1 DEF SentAccounted
<1> QED
  BY <1>3, <1>4, <1>5, <1>6 DEF OutboxInv

LEMMA OutboxStep ==
    ASSUME OutboxInv, [Outbox!Next]_(Outbox!vars) PROVE OutboxInv'
<1>1. CASE \E e \in Event : Outbox!Insert(e)
  BY <1>1, InsertStep
<1>2. CASE \E e \in Event : Outbox!BackoffEnds(e)
  BY <1>2, BackoffEndsStep
<1>3. CASE \E p \in Publisher : Outbox!Claim(p)
  BY <1>3, OutboxClaimStep
<1>4. CASE \E p \in Publisher : Outbox!SendAccepted(p)
  BY <1>4, SendAcceptedStep
<1>5. CASE \E p \in Publisher : Outbox!SendRefused(p)
  BY <1>5, SendRefusedStep
<1>6. CASE \E p \in Publisher : Outbox!SendUnanswered(p)
  BY <1>6, SendUnansweredStep
<1>7. CASE \E p \in Publisher : Outbox!Commit(p)
  BY <1>7, OutboxCommitStep
<1>8. CASE \E p \in Publisher : Outbox!RollBack(p)
  BY <1>8, RollBackStep
<1>9. CASE UNCHANGED Outbox!vars
  BY <1>9
  DEF Outbox!vars, Outbox!tx, Outbox!mishaps, OutboxInv, OutboxTyped, DuePending, ClaimsApart,
      TriedInOrder, SentAccounted, Recorded
<1> QED
  BY <1>1, <1>2, <1>3, <1>4, <1>5, <1>6, <1>7, <1>8, <1>9 DEF Outbox!Next

LEMMA InitOutbox == ASSUME Outbox!Init PROVE OutboxInv
<1>1. OutboxTyped
  BY OutboxAssumption DEF Outbox!Init, OutboxTyped
<1>2. DuePending
  BY DEF Outbox!Init, DuePending, Distinct, Rows
<1>3. ClaimsApart
  BY DEF Outbox!Init, ClaimsApart, Distinct, Rows
<1>4. TriedInOrder
  <2>1. FirstRows(<< >>, 0) = {} /\ 0 \in 0..Len(<< >>)
    BY DEF FirstRows
  <2> QED
    BY <2>1 DEF Outbox!Init, TriedInOrder
<1>5. SentAccounted
  BY DEF Outbox!Init, SentAccounted, Recorded
<1> QED
  BY <1>1, <1>2, <1>3, <1>4, <1>5 DEF OutboxInv

LEMMA OutboxInvHolds == Outbox!Spec => []OutboxInv
<1>1. Outbox!Init => OutboxInv
  BY InitOutbox
<1>2. OutboxInv /\ [Outbox!Next]_(Outbox!vars) => OutboxInv'
  BY OutboxStep
<1> QED
  BY <1>1, <1>2, PTL DEF Outbox!Spec

(* However many instances drain, and whatever is cut off or unanswered:    *)
(* beyond the sends the api could not record, an event is sent once, and   *)
(* has been when its row goes.                                             *)
THEOREM EventsAreSentOnce == Outbox!Spec => []SentOnceButForUnsure
<1>1. ASSUME OutboxInv PROVE SentOnceButForUnsure
  <2>1. due \in Seq(Event) /\ ToSet(due) = Rows(due)
    BY <1>1 DEF OutboxInv, OutboxTyped, ToSet, Rows
  <2>2. \A p \in Publisher : ToSet(claimed[p]) = Rows(claimed[p])
    <3>1. \A p \in Publisher : claimed[p] \in Seq(Event)
      BY <1>1 DEF OutboxInv, OutboxTyped
    <3> QED
      BY <3>1 DEF ToSet, Rows
  <2>3. IsInjective(due)
    BY <1>1, <2>1 DEF OutboxInv, DuePending, Distinct, IsInjective
  <2>4. \A p \in Publisher : Tried(p) \subseteq Rows(claimed[p])
    BY <1>1, TriedAreClaimed DEF Outbox!Tried, Tried
  <2>5. OutboxTypes
    BY <1>1, <2>1, <2>2, <2>3, <2>4
    DEF OutboxInv, OutboxTyped, DuePending, ClaimsApart, OutboxTypes
  <2> QED
    BY <1>1, <2>5 DEF OutboxInv, SentAccounted, SentOnceButForUnsure
<1> QED
  BY <1>1, OutboxInvHolds, PTL

(* The deadline and the slowest send together stay below the transaction's *)
(* timeout: 12 + 7 < 20 seconds in the code.                               *)
SlowestSendFits == TxTimeout > 0 /\ \A d \in SendTimes : SendDeadline + d < TxTimeout

(* When they do, no send, however slow, of however many rows runs into the *)
(* timeout of the transaction that claimed them.                           *)
THEOREM SendsEndBeforeTimeout ==
    ASSUME SlowestSendFits
    PROVE  Outbox!Spec => []SendsEndInTime
<1>1. ASSUME Outbox!Init PROVE SendsEndInTime
  BY <1>1 DEF Outbox!Init, SendsEndInTime, SlowestSendFits
<1>2. ASSUME OutboxInv, SendsEndInTime, [Outbox!Next]_(Outbox!vars)
      PROVE  SendsEndInTime'
  <2>1. elapsed \in [Publisher -> Nat]
    BY <1>2 DEF OutboxInv, OutboxTyped
  <2>2. TxTimeout \in Nat /\ SendDeadline \in Nat /\ SendTimes \subseteq Nat
    BY OutboxAssumption
  <2>3. ASSUME NEW p \in Publisher, Outbox!MaySend(p), Outbox!SpendTime(p)
        PROVE  SendsEndInTime'
    <3>1. PICK d \in SendTimes : elapsed' = [elapsed EXCEPT ![p] = @ + d]
      BY <2>3 DEF Outbox!SpendTime
    <3>2. elapsed[p] + d < TxTimeout
      <4>1. elapsed[p] \in Nat /\ elapsed[p] <= SendDeadline /\ d \in Nat
        BY <2>1, <2>2, <2>3 DEF Outbox!MaySend
      <4>2. SendDeadline + d < TxTimeout
        BY DEF SlowestSendFits
      <4> QED
        BY <2>2, <4>1, <4>2
    <3> QED
      BY <1>2, <2>1, <3>1, <3>2 DEF SendsEndInTime
  <2>4. ASSUME NEW p \in Publisher, Outbox!EndTransaction(p) PROVE SendsEndInTime'
    BY <1>2, <2>1, <2>4 DEF Outbox!EndTransaction, SendsEndInTime, SlowestSendFits
  <2>5. ASSUME elapsed' = elapsed PROVE SendsEndInTime'
    BY <1>2, <2>5 DEF SendsEndInTime
  <2>6. CASE \E p \in Publisher : Outbox!Commit(p) \/ Outbox!RollBack(p)
    BY <2>4, <2>6 DEF Outbox!Commit, Outbox!RollBack
  <2>7. CASE \E p \in Publisher :
               Outbox!SendAccepted(p) \/ Outbox!SendRefused(p) \/ Outbox!SendUnanswered(p)
    BY <2>3, <2>7 DEF Outbox!SendAccepted, Outbox!SendRefused, Outbox!SendUnanswered
  <2>8. CASE \/ \E e \in Event : Outbox!Insert(e) \/ Outbox!BackoffEnds(e)
             \/ \E p \in Publisher : Outbox!Claim(p)
             \/ UNCHANGED Outbox!vars
    BY <2>5, <2>8
    DEF Outbox!Insert, Outbox!BackoffEnds, Outbox!Claim, Outbox!vars, Outbox!tx
  <2> QED
    BY <1>2, <2>6, <2>7, <2>8 DEF Outbox!Next
<1> QED
  BY <1>1, <1>2, OutboxInvHolds, PTL DEF Outbox!Spec
=============================================================================
