-------------------------- MODULE StorageAdmission --------------------------
(***************************************************************************)
(* The limits admitReadyFiles enforces for one owner: the plan's storage   *)
(* (with eviction of the oldest stored results) and its files per day.     *)
(* The statements that measure, lock, evict, reserve and commit are steps, *)
(* between which worker results and expiry change what is stored.          *)
(*                                                                         *)
(* A file expires here in one step with the sweep.  In the code it stops   *)
(* counting when its expires_at passes, which a transaction sees as of its *)
(* own beginning; either way expiry only makes room.  Which batches may be *)
(* admitted at all is the subject of ConversionLifecycle.                  *)
(***************************************************************************)
EXTENDS Integers, FiniteSets, Functions

CONSTANTS
    Batch, File, BatchOf, Request, Nobody,
    InputBytes,     \* input_bytes of a file once it is READY
    OutputBytes,    \* the output_bytes its result may have
    Limited,        \* whether the plan has a storageBytes: the cases considered
    StorageBytes,   \* that limit
    DailyFiles,     \* the plan's dailyFiles
    MaxDay          \* bound: the last day

ASSUME StorageAssumption ==
    /\ BatchOf \in [File -> Batch]
    /\ InputBytes \in [File -> Nat]
    /\ OutputBytes \in [File -> SUBSET Nat]
    /\ Limited \subseteq BOOLEAN
    /\ StorageBytes \in Nat /\ DailyFiles \in Nat /\ MaxDay \in Nat \ {0}
    /\ Nobody \notin Request
    /\ IsFiniteSet(File)

Days == 1 .. MaxDay
FilesOf(b) == {f \in File : BatchOf[f] = b}

VARIABLES
    limited,    \* whether the owner's plan has a storage limit; it does not change here
    day,        \* the database's current date
    status,     \* conversion_files.status
    output,     \* conversion_files.output_bytes
    expires,    \* conversion_files.expires_at, as the rank of the admission that set it
    usage,      \* daily_usage.admitted_files; no row counts as 0
    pc,         \* the next statement of a request
    tx,         \* its transaction: batch, date, claimed files, deficit, evicted files
    ownerLock,  \* pg_advisory_xact_lock on the owner
    batchLock,  \* the request that holds a batch row
    usageLock,  \* the request that holds a daily_usage row
    admissions, \* history: admissions committed
    admitted,   \* history: files admitted on a day
    outgrown    \* history: bytes by which results exceeded their inputs

locks == <<ownerLock, batchLock, usageLock>>
files == <<status, output, expires>>
history == <<admissions, admitted, outgrown>>
vars == <<limited, day, files, usage, pc, tx, locks, history>>

NoTx == [batch |-> Nobody, date |-> 0, claimed |-> {}, deficit |-> 0, evicted |-> {}]

Init ==
    /\ limited \in Limited
    /\ day = 1
    /\ status = [f \in File |-> "UPLOADING"]
    /\ output = [f \in File |-> 0]
    /\ expires = [f \in File |-> 0]
    /\ usage = [d \in Days |-> 0]
    /\ pc = [r \in Request |-> "idle"]
    /\ tx = [r \in Request |-> NoTx]
    /\ ownerLock = Nobody
    /\ batchLock = [b \in Batch |-> Nobody]
    /\ usageLock = [d \in Days |-> Nobody]
    /\ admissions = 0
    /\ admitted = [d \in Days |-> {}]
    /\ outgrown = 0

-----------------------------------------------------------------------------
InFlight == {f \in File : status[f] \in {"QUEUED", "PROCESSING"}}
Stored == {f \in File : status[f] = "COMPLETED"}

InputSum(fs) == SumFunctionOnSet(InputBytes, fs)
OutputSum(fs) == SumFunctionOnSet(output, fs)

(* storageUsedFor: results count as stored, files in flight as received.   *)
StorageUsed == OutputSum(Stored) + InputSum(InFlight)

-----------------------------------------------------------------------------
Upload(f) ==
    /\ status[f] = "UPLOADING"
    /\ status' = [status EXCEPT ![f] = "READY"]
    /\ UNCHANGED <<limited, day, output, expires, usage, pc, tx, locks, history>>

Start(f) ==
    /\ status[f] = "QUEUED"
    /\ status' = [status EXCEPT ![f] = "PROCESSING"]
    /\ UNCHANGED <<limited, day, output, expires, usage, pc, tx, locks, history>>

(* A RESULT, in a transaction that waits for the batch row.                *)
Complete(f) ==
    /\ f \in InFlight
    /\ batchLock[BatchOf[f]] = Nobody
    /\ status' = [status EXCEPT ![f] = "COMPLETED"]
    /\ \E bytes \in OutputBytes[f] :
          /\ output' = [output EXCEPT ![f] = bytes]
          /\ outgrown' = outgrown + IF bytes > InputBytes[f] THEN bytes - InputBytes[f] ELSE 0
    /\ UNCHANGED <<limited, day, expires, usage, pc, tx, locks, admissions, admitted>>

Fail(f) ==
    /\ f \in InFlight
    /\ batchLock[BatchOf[f]] = Nobody
    /\ status' = [status EXCEPT ![f] = "FAILED"]
    /\ UNCHANGED <<limited, day, output, expires, usage, pc, tx, locks, history>>

Expire(f) ==
    /\ f \in InFlight \cup Stored
    /\ batchLock[BatchOf[f]] = Nobody
    /\ status' = [status EXCEPT ![f] = "EXPIRED"]
    /\ UNCHANGED <<limited, day, output, expires, usage, pc, tx, locks, history>>

Midnight ==
    /\ day < MaxDay
    /\ day' = day + 1
    /\ UNCHANGED <<limited, files, usage, pc, tx, locks, history>>

-----------------------------------------------------------------------------
Goto(r, label) == pc' = [pc EXCEPT ![r] = label]

EndTransaction(r) ==
    /\ pc' = [pc EXCEPT ![r] = "idle"]
    /\ tx' = [tx EXCEPT ![r] = NoTx]
    /\ ownerLock' = IF ownerLock = r THEN Nobody ELSE ownerLock
    /\ batchLock' = [b \in Batch |-> IF batchLock[b] = r THEN Nobody ELSE batchLock[b]]
    /\ usageLock' = [d \in Days |-> IF usageLock[d] = r THEN Nobody ELSE usageLock[d]]

(* The transaction begins, which fixes its now().                          *)
Begin(r, b) ==
    /\ pc[r] = "idle"
    /\ tx' = [tx EXCEPT ![r] = [NoTx EXCEPT !.batch = b, !.date = day]]
    /\ Goto(r, "lock")
    /\ UNCHANGED <<limited, day, files, usage, locks, history>>

LockOwnBatchOnly(r) ==
    LET b == tx[r].batch IN
    /\ pc[r] = "lock"
    /\ batchLock[b] = Nobody
    /\ batchLock' = [batchLock EXCEPT ![b] = r]
    /\ Goto(r, "claim")
    /\ UNCHANGED <<limited, day, files, usage, tx, ownerLock, usageLock, history>>

(* The owner's advisory lock, with a storage limit, then the batch row.    *)
LockOwnerAndBatch(r) ==
    LET b == tx[r].batch IN
    /\ pc[r] = "lock"
    /\ limited => ownerLock = Nobody
    /\ ownerLock' = IF limited THEN r ELSE ownerLock
    /\ batchLock[b] = Nobody
    /\ batchLock' = [batchLock EXCEPT ![b] = r]
    /\ Goto(r, "claim")
    /\ UNCHANGED <<limited, day, files, usage, tx, usageLock, history>>

(* Claims the READY files and measures.  Nothing but the request's own     *)
(* batch is locked while it does.                                          *)
ClaimAndMeasure(r) ==
    LET ready == {f \in FilesOf(tx[r].batch) : status[f] = "READY"}
        deficit == StorageUsed + InputSum(ready) - StorageBytes
        evicting == limited /\ deficit > 0
    IN
    /\ pc[r] = "claim"
    /\ ready # {}
    /\ tx' = [tx EXCEPT ![r] = [@ EXCEPT !.claimed = ready,
                                         !.deficit = IF evicting THEN deficit ELSE 0]]
    /\ Goto(r, IF evicting THEN "lockAll" ELSE "reserve")
    /\ UNCHANGED <<limited, day, files, usage, locks, history>>

LockOwnersBatches(r) ==
    /\ pc[r] = "lockAll"
    /\ \A b \in Batch : batchLock[b] \in {r, Nobody}
    /\ batchLock' = [b \in Batch |-> r]
    /\ Goto(r, "evict")
    /\ UNCHANGED <<limited, day, files, usage, tx, ownerLock, usageLock, history>>

(* The stored results by expires_at, until the measured deficit is met.    *)
OldestFirst(evicted) ==
    \A e \in evicted, kept \in Stored \ evicted : expires[e] <= expires[kept]

Evictions(deficit) ==
    {fs \in SUBSET Stored :
        /\ OldestFirst(fs)
        /\ OutputSum(fs) >= deficit
        /\ \E last \in fs : OldestFirst(fs \ {last}) /\ OutputSum(fs \ {last}) < deficit}

Evict(r) ==
    /\ pc[r] = "evict"
    /\ \E evicted \in Evictions(tx[r].deficit) : tx' = [tx EXCEPT ![r].evicted = evicted]
    /\ Goto(r, "reserve")
    /\ UNCHANGED <<limited, day, files, usage, locks, history>>

(* STORAGE_LIMIT_EXCEEDED.                                                 *)
RefuseStorage(r) ==
    /\ pc[r] = "evict"
    /\ OutputSum(Stored) < tx[r].deficit
    /\ EndTransaction(r)
    /\ UNCHANGED <<limited, day, files, usage, history>>

(* The upsert of the daily_usage row, which stays locked until the end.    *)
WithinToday(r) ==
    /\ Cardinality(tx[r].claimed) <= DailyFiles
    /\ usage[tx[r].date] + Cardinality(tx[r].claimed) <= DailyFiles

ReserveTodayUnlocked(r) ==
    /\ pc[r] = "reserve"
    /\ WithinToday(r)
    /\ Goto(r, "commit")
    /\ UNCHANGED <<limited, day, files, usage, tx, locks, history>>

ReserveToday(r) ==
    LET d == tx[r].date IN
    /\ pc[r] = "reserve"
    /\ usageLock[d] = Nobody
    /\ WithinToday(r)
    /\ usageLock' = [usageLock EXCEPT ![d] = r]
    /\ Goto(r, "commit")
    /\ UNCHANGED <<limited, day, files, usage, tx, ownerLock, batchLock, history>>

Commit(r) ==
    LET t == tx[r] IN
    /\ pc[r] = "commit"
    /\ status' = [f \in File |-> IF f \in t.claimed THEN "QUEUED"
                                 ELSE IF f \in t.evicted THEN "EXPIRED"
                                 ELSE status[f]]
    /\ expires' = [f \in File |-> IF f \in t.claimed THEN admissions + 1 ELSE expires[f]]
    /\ usage' = [usage EXCEPT ![t.date] = @ + Cardinality(t.claimed)]
    /\ admissions' = admissions + 1
    /\ admitted' = [admitted EXCEPT ![t.date] = @ \cup t.claimed]
    /\ EndTransaction(r)
    /\ UNCHANGED <<limited, day, output, outgrown>>

(* Nothing to claim, DAILY_QUOTA_EXCEEDED, another error, or a crash.      *)
RollBack(r) ==
    /\ pc[r] # "idle"
    /\ EndTransaction(r)
    /\ UNCHANGED <<limited, day, files, usage, history>>

-----------------------------------------------------------------------------
Next ==
    \/ \E f \in File : Upload(f) \/ Start(f) \/ Complete(f) \/ Fail(f) \/ Expire(f)
    \/ Midnight
    \/ \E r \in Request, b \in Batch : Begin(r, b)
    \/ \E r \in Request :
          \/ LockOwnerAndBatch(r) \/ ClaimAndMeasure(r) \/ LockOwnersBatches(r)
          \/ Evict(r) \/ RefuseStorage(r) \/ ReserveToday(r) \/ Commit(r) \/ RollBack(r)

Spec == Init /\ [][Next]_vars

-----------------------------------------------------------------------------
(***************************************************************************)
(* Types of the rows and locks.                                            *)
(***************************************************************************)
TypeOK ==
    /\ limited \in BOOLEAN
    /\ day \in Days
    /\ status \in [File -> {"UPLOADING", "READY", "QUEUED", "PROCESSING", "COMPLETED",
                            "FAILED", "EXPIRED"}]
    /\ output \in [File -> Nat] /\ expires \in [File -> Nat]
    /\ usage \in [Days -> 0 .. DailyFiles]
    /\ pc \in [Request -> {"idle", "lock", "claim", "lockAll", "evict", "reserve", "commit"}]
    /\ ownerLock \in Request \cup {Nobody}
    /\ batchLock \in [Batch -> Request \cup {Nobody}]
    /\ usageLock \in [Days -> Request \cup {Nobody}]

(***************************************************************************)
(* Admission keeps the owner within the plan's storage, however requests,  *)
(* results and expiry interleave, but for what results add by being larger *)
(* than their inputs (the worker's SANITIZED_LARGER), which nobody checks. *)
(***************************************************************************)
StorageKept == limited => StorageUsed <= StorageBytes + outgrown

(***************************************************************************)
(* admission.db.spec.ts:214, "enforces the daily quota exactly under       *)
(* parallel admission": the counter is the number of files admitted that   *)
(* day, each once, and never above the quota.                              *)
(***************************************************************************)
DailyQuotaExact ==
    /\ TypeOK
    /\ \A d \in Days : usage[d] = Cardinality(admitted[d]) /\ usage[d] <= DailyFiles
    /\ \A d, e \in Days : d # e => admitted[d] \cap admitted[e] = {}

=============================================================================
