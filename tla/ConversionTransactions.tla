------------------------ MODULE ConversionTransactions ------------------------
(***************************************************************************)
(* The statements conversion-api runs against PostgreSQL, with the row     *)
(* locks they take and the READ COMMITTED visibility they get: every       *)
(* admission, worker event, sweep and purge is a sequence of steps that    *)
(* interleaves with all others and may be cut off anywhere.  The module    *)
(* implements ConversionLifecycle: what commits looks as if each           *)
(* transaction had happened at once, at its commit.                        *)
(*                                                                         *)
(* The database, as far as the code relies on it: a statement sees what    *)
(* was committed when it started and the transaction's own writes; FOR     *)
(* UPDATE, UPDATE and DELETE wait for the row's lock and then look at the  *)
(* row again; locks go at commit or rollback; a rolled back transaction    *)
(* leaves nothing.  A file row is locked by the transaction that wrote it; *)
(* the FOR UPDATE on claimed and evictable files adds nothing, since their *)
(* other writers hold the batch row first.                                 *)
(***************************************************************************)
EXTENDS Integers, FiniteSets, BatchRollup

CONSTANTS
    Batch, File, Subject, BatchOf, SubjectOf, NoBatch,
    Request,   \* completeUploads calls
    Handler,   \* worker event messages being handled at a time
    Sweep,     \* instances running expireOverdueFiles
    Purge,     \* instances running purgeDeadRows
    Nobody,    \* the holder of a free lock
    MaxAttempt, MaxTime, UploadWindow, Retentions, PurgeGrace

Actor == Request \cup Handler \cup Sweep \cup Purge
Attempts == 1 .. MaxAttempt
NoRow == {"NONE", "PURGED"}
FilesOf(b) == {f \in File : BatchOf[f] = b}

ASSUME TransactionsAssumption ==
    /\ BatchOf \in [File -> Batch] /\ SubjectOf \in [Batch -> Subject]
    /\ \A b \in Batch : FilesOf(b) # {}   \* createBatch refuses fileCount < 1
    /\ NoBatch \notin Batch /\ Nobody \notin Actor
    /\ Request \cap (Handler \cup Sweep \cup Purge) = {}
    /\ Handler \cap (Sweep \cup Purge) = {} /\ Sweep \cap Purge = {}
    /\ IsFiniteSet(Handler)
    /\ MaxAttempt \in Nat /\ MaxTime \in Nat /\ UploadWindow \in Nat /\ PurgeGrace \in Nat
    /\ Retentions \subseteq Nat

VARIABLES
    now, batchStatus, batchExpires, fileStatus, fileExpires, attempt, output,
    requested,    \* committed rows, as in ConversionLifecycle
    pc,           \* what an actor does next
    job,          \* its local variables
    batchLock,    \* the transaction that holds a batch row
    ownerLock,    \* pg_advisory_xact_lock on a subject
    draftFiles,   \* file statuses an open transaction wrote
    draftBatches  \* batch statuses an open transaction wrote

rows == <<batchStatus, batchExpires, fileStatus, fileExpires, attempt, output, requested>>
locks == <<batchLock, ownerLock>>
drafts == <<draftFiles, draftBatches>>
vars == <<now, rows, pc, job, locks, drafts>>

Nothing == << >>  \* the function with no arguments: nothing drafted, no locals

Init ==
    /\ now = 0
    /\ batchStatus = [b \in Batch |-> "NONE"]
    /\ batchExpires = [b \in Batch |-> 0]
    /\ fileStatus = [f \in File |-> "NONE"]
    /\ fileExpires = [f \in File |-> 0]
    /\ attempt = [f \in File |-> 0]
    /\ output = [f \in File |-> 0]
    /\ requested = {}
    /\ pc = [x \in Actor |-> "idle"]
    /\ job = [x \in Actor |-> Nothing]
    /\ batchLock = [b \in Batch |-> Nobody]
    /\ ownerLock = [s \in Subject |-> Nobody]
    /\ draftFiles = [x \in Actor |-> Nothing]
    /\ draftBatches = [x \in Actor |-> Nothing]

-----------------------------------------------------------------------------
(* What a statement of actor x sees.                                       *)
Over(draft, committed) ==
    [k \in DOMAIN committed |-> IF k \in DOMAIN draft THEN draft[k] ELSE committed[k]]

FileView(x) == Over(draftFiles[x], fileStatus)
BatchView(x) == Over(draftBatches[x], batchStatus)
SeenOutsideTransaction(x, b) == {fileStatus[f] : f \in FilesOf(b)}

Seen(x, b) == {FileView(x)[f] : f \in FilesOf(b)}

FileFreeFor(x, f) == \A y \in Actor \ {x} : f \notin DOMAIN draftFiles[y]

Goto(x, label) == pc' = [pc EXCEPT ![x] = label]

(* Commit and rollback release every lock of x and forget its locals.      *)
Release(x, label, locals) ==
    /\ batchLock' = [b \in Batch |-> IF batchLock[b] = x THEN Nobody ELSE batchLock[b]]
    /\ ownerLock' = [s \in Subject |-> IF ownerLock[s] = x THEN Nobody ELSE ownerLock[s]]
    /\ draftFiles' = [draftFiles EXCEPT ![x] = Nothing]
    /\ draftBatches' = [draftBatches EXCEPT ![x] = Nothing]
    /\ job' = [job EXCEPT ![x] = locals]
    /\ Goto(x, label)

TakeBatchLock(x, b) ==
    /\ batchLock[b] = Nobody
    /\ batchLock' = [batchLock EXCEPT ![b] = x]

\* FOR UPDATE finds no row to lock once the batch is gone.
SkipMissingBatch(b) == batchStatus[b] \in NoRow /\ UNCHANGED batchLock

LockBatch(x, b) ==
    \/ batchStatus[b] \notin NoRow /\ TakeBatchLock(x, b)
    \/ SkipMissingBatch(b)

-----------------------------------------------------------------------------
(* createBatch and the per-file update of completeUploads commit alone.    *)
CreateBatch(b) ==
    /\ batchStatus[b] = "NONE"
    /\ now + UploadWindow + PurgeGrace <= MaxTime
    /\ batchStatus' = [batchStatus EXCEPT ![b] = "UPLOADING"]
    /\ batchExpires' = [batchExpires EXCEPT ![b] = now + UploadWindow]
    /\ fileStatus' = [f \in File |-> IF f \in FilesOf(b) THEN "UPLOADING" ELSE fileStatus[f]]
    /\ fileExpires' = [f \in File |-> IF f \in FilesOf(b) THEN now + UploadWindow
                                                          ELSE fileExpires[f]]
    /\ UNCHANGED <<now, attempt, output, requested, pc, job, locks, drafts>>

VerifyUpload(f) ==
    /\ fileStatus[f] = "UPLOADING"
    /\ FileFreeFor(Nobody, f)
    /\ fileStatus' = [fileStatus EXCEPT ![f] = "READY"]
    /\ UNCHANGED <<now, batchStatus, batchExpires, fileExpires, attempt, output, requested,
                   pc, job, locks, drafts>>

-----------------------------------------------------------------------------
(***************************************************************************)
(* admitReadyFiles.                                                        *)
(***************************************************************************)
AdmittableStatuses == {"UPLOADING", "QUEUED"}

(* The read before the transaction.  `limited`: the plan has a storage     *)
(* limit.  `at` and `wrote` are the two clock readings.                    *)
CheckAdmittable(r, b) ==
    /\ pc[r] = "idle"
    /\ batchStatus[b] \in AdmittableStatuses
    /\ batchExpires[b] > now
    /\ \E limited \in BOOLEAN :
           job' = [job EXCEPT ![r] = [batch |-> b, limited |-> limited, at |-> now,
                                      wrote |-> now, expires |-> 0,
                                      claimed |-> {}, evicted |-> {}]]
    /\ Goto(r, "lockOwner")
    /\ UNCHANGED <<now, rows, locks, drafts>>

(* With a storage limit, admissions of one owner are serialised.           *)
LockOwnerNot(r) ==
    /\ pc[r] = "lockOwner"
    /\ Goto(r, "lockOwnBatch")
    /\ UNCHANGED <<now, rows, job, locks, drafts>>

LockOwner(r) ==
    LET s == SubjectOf[job[r].batch] IN
    /\ pc[r] = "lockOwner"
    /\ job[r].limited => ownerLock[s] = Nobody
    /\ ownerLock' = IF job[r].limited THEN [ownerLock EXCEPT ![s] = r] ELSE ownerLock
    /\ Goto(r, "lockOwnBatch")
    /\ UNCHANGED <<now, rows, job, batchLock, drafts>>

LockOwnBatchNot(r) ==
    /\ pc[r] = "lockOwnBatch"
    /\ Goto(r, "claim")
    /\ UNCHANGED <<now, rows, job, locks, drafts>>

LockOwnBatch(r) ==
    /\ pc[r] = "lockOwnBatch"
    /\ LockBatch(r, job[r].batch)
    /\ Goto(r, "claim")
    /\ UNCHANGED <<now, rows, job, ownerLock, drafts>>

(* Claims what is READY now.  Usage decides whether results must go: bytes *)
(* are not modelled here, so both answers are possible.                    *)
ClaimReadyFiles(r) ==
    LET ready == {f \in FilesOf(job[r].batch) : fileStatus[f] = "READY"} IN
    /\ pc[r] = "claim"
    /\ ready # {}
    /\ job' = [job EXCEPT ![r].claimed = ready]
    /\ \/ job[r].limited /\ Goto(r, "lockOwnersBatches")
       \/ Goto(r, "write")
    /\ UNCHANGED <<now, rows, locks, drafts>>

OwnersBatches(r) ==
    {b \in Batch : SubjectOf[b] = SubjectOf[job[r].batch] /\ batchStatus[b] \notin NoRow}

(* SELECT ... FOR UPDATE locks the owner's batches one by one, in no       *)
(* stated order.                                                           *)
LockNextOwnersBatch(r, b) ==
    /\ pc[r] = "lockOwnersBatches"
    /\ b \in OwnersBatches(r)
    /\ TakeBatchLock(r, b)
    /\ UNCHANGED <<now, rows, pc, job, ownerLock, drafts>>

(* All locked: pick stored results that are unexpired by the transaction's *)
(* now(), which is no earlier than the check.                              *)
ChooseEvicted(r) ==
    /\ pc[r] = "lockOwnersBatches"
    /\ \A b \in OwnersBatches(r) : batchLock[b] = r
    /\ \E evicted \in SUBSET {f \in File : /\ BatchOf[f] \in OwnersBatches(r)
                                           /\ fileStatus[f] = "COMPLETED"
                                           /\ fileExpires[f] > job[r].at} :
          evicted # {} /\ job' = [job EXCEPT ![r].evicted = evicted]
    /\ Goto(r, "write")
    /\ UNCHANGED <<now, rows, locks, drafts>>

(* Expire the evicted, roll their batches up, queue the claimed and their  *)
(* batch.  Every row involved is locked, so the order of these statements  *)
(* does not show.                                                          *)
WriteAdmission(r) ==
    LET b == job[r].batch
        files == [f \in job[r].claimed \cup job[r].evicted |->
                     IF f \in job[r].claimed THEN "QUEUED" ELSE "EXPIRED"]
        view == Over(files, fileStatus)
        batches == [c \in {b} \cup {BatchOf[f] : f \in job[r].evicted} |->
                       IF c = b THEN "QUEUED"
                       ELSE RollUp(batchStatus[c], {view[f] : f \in FilesOf(c)})]
    IN
    /\ pc[r] = "write"
    /\ batchStatus[b] \in AdmittableStatuses
    /\ \E retention \in Retentions :
          /\ now + retention + PurgeGrace <= MaxTime
          /\ job' = [job EXCEPT ![r].wrote = now, ![r].expires = now + retention]
    /\ draftFiles' = [draftFiles EXCEPT ![r] = files]
    /\ draftBatches' = [draftBatches EXCEPT ![r] = batches]
    /\ Goto(r, "commit")
    /\ UNCHANGED <<now, rows, locks>>

(* Commits the rows and one outbox event per claimed file.                 *)
CommitAdmission(r) ==
    LET claimed == job[r].claimed
        evicted == job[r].evicted
        b == job[r].batch
    IN
    /\ r \in Request /\ pc[r] = "commit"
    /\ fileStatus' = FileView(r)
    /\ batchStatus' = BatchView(r)
    /\ fileExpires' = [f \in File |-> IF f \in claimed THEN job[r].expires
                                      ELSE IF f \in evicted THEN job[r].wrote
                                      ELSE fileExpires[f]]
    /\ batchExpires' = [batchExpires EXCEPT ![b] = job[r].expires]
    /\ requested' = requested \cup claimed
    /\ Release(r, "idle", Nothing)
    /\ UNCHANGED <<now, attempt, output>>

(* Nothing to claim, a limit exceeded, a status that moved on, a timeout   *)
(* or a stopped process.                                                   *)
AbortAdmission(r) ==
    /\ pc[r] # "idle"
    /\ Release(r, "idle", Nothing)
    /\ UNCHANGED <<now, rows>>

-----------------------------------------------------------------------------
(***************************************************************************)
(* WorkerEventProcessorService.apply.                                      *)
(***************************************************************************)
EventAcceptingStatuses == {"QUEUED", "PROCESSING"}

(* STARTED: two statements, each its own transaction.                      *)
StartFile(h, f, a) ==
    /\ pc[h] = "idle"
    /\ f \in requested
    /\ FileFreeFor(h, f)
    /\ fileStatus[f] \in EventAcceptingStatuses
    /\ attempt[f] < a
    /\ fileStatus' = [fileStatus EXCEPT ![f] = "PROCESSING"]
    /\ attempt' = [attempt EXCEPT ![f] = a]
    /\ job' = [job EXCEPT ![h] = [file |-> f, attempt |-> a, outcome |-> "STARTED",
                                  seen |-> {}]]
    /\ Goto(h, "startBatch")
    /\ UNCHANGED <<now, batchStatus, batchExpires, fileExpires, output, requested, locks,
                   drafts>>

StartBatch(h) ==
    LET b == BatchOf[job[h].file] IN
    /\ pc[h] = "startBatch"
    /\ batchLock[b] = Nobody
    /\ batchStatus' = [batchStatus EXCEPT ![b] = IF @ = "QUEUED" THEN "PROCESSING" ELSE @]
    /\ job' = [job EXCEPT ![h] = Nothing]
    /\ Goto(h, "idle")
    /\ UNCHANGED <<now, batchExpires, fileStatus, fileExpires, attempt, output, requested,
                   locks, drafts>>

(* RESULT: one transaction.                                                *)
BeginResult(h, f, a, outcome) ==
    /\ pc[h] = "idle"
    /\ f \in requested
    /\ job' = [job EXCEPT ![h] = [file |-> f, attempt |-> a, outcome |-> outcome,
                                  seen |-> {}]]
    /\ Goto(h, "lockBatch")
    /\ UNCHANGED <<now, rows, locks, drafts>>

LockResultBatch(h) ==
    /\ pc[h] = "lockBatch"
    /\ LockBatch(h, BatchOf[job[h].file])
    /\ Goto(h, "claimFile")
    /\ UNCHANGED <<now, rows, job, ownerLock, drafts>>

ClaimFile(h) ==
    LET f == job[h].file IN
    /\ pc[h] = "claimFile"
    /\ FileFreeFor(h, f)
    /\ fileStatus[f] \in EventAcceptingStatuses
    /\ attempt[f] <= job[h].attempt
    /\ draftFiles' = [draftFiles EXCEPT ![h] = [g \in {f} |-> job[h].outcome]]
    /\ Goto(h, "readFiles")
    /\ UNCHANGED <<now, rows, job, locks, draftBatches>>

CommitResult(h) ==
    /\ h \in Handler /\ pc[h] = "commit"
    /\ fileStatus' = FileView(h)
    /\ batchStatus' = BatchView(h)
    /\ output' = IF job[h].outcome = "COMPLETED"
                 THEN [output EXCEPT ![job[h].file] = job[h].attempt] ELSE output
    /\ Release(h, "idle", Nothing)
    /\ UNCHANGED <<now, batchExpires, fileExpires, attempt, requested>>

(* The event is dropped (its file accepts no result, or not this attempt), *)
(* or the handler dies; SQS delivers the message again later.              *)
AbortEvent(h) ==
    /\ pc[h] # "idle"
    /\ Release(h, "idle", Nothing)
    /\ UNCHANGED <<now, rows>>

-----------------------------------------------------------------------------
(***************************************************************************)
(* rollUpBatch inside a transaction on batch b: read the files, then       *)
(* update the batch.                                                       *)
(***************************************************************************)
RollUpTarget(x) == IF x \in Handler THEN BatchOf[job[x].file] ELSE job[x].batch

ReadFiles(x) ==
    /\ pc[x] = "readFiles"
    /\ job' = [job EXCEPT ![x].seen = Seen(x, RollUpTarget(x))]
    /\ Goto(x, "rollUp")
    /\ UNCHANGED <<now, rows, locks, drafts>>

UpdateBatch(x) ==
    LET b == RollUpTarget(x) IN
    /\ pc[x] = "rollUp"
    /\ batchLock[b] \in {x, Nobody}
    /\ LET status == RollUp(batchStatus[b], job[x].seen) IN
       IF status = batchStatus[b]
       THEN UNCHANGED <<draftBatches, batchLock>>
       ELSE /\ draftBatches' = [draftBatches EXCEPT ![x] = [c \in {b} |-> status]]
            /\ batchLock' = [batchLock EXCEPT ![b] = x]
    /\ Goto(x, "commit")
    /\ UNCHANGED <<now, rows, job, ownerLock, draftFiles>>

-----------------------------------------------------------------------------
(***************************************************************************)
(* expireOverdueFiles: the clock and the two lists are read once, then one *)
(* transaction per listed batch.                                           *)
(***************************************************************************)
OverdueFile(f, cutoff) == fileStatus[f] \in LiveFileStatuses /\ fileExpires[f] <= cutoff

BeginSweep(s) ==
    LET listed == {b \in Batch : \/ \E f \in FilesOf(b) : OverdueFile(f, now)
                                 \/ batchStatus[b] \in OpenBatchStatuses /\ batchExpires[b] <= now}
    IN
    /\ pc[s] = "idle"
    /\ listed # {}
    /\ job' = [job EXCEPT ![s] = [cutoff |-> now, todo |-> listed, batch |-> NoBatch,
                                  seen |-> {}]]
    /\ Goto(s, "sweep")
    /\ UNCHANGED <<now, rows, locks, drafts>>

LockSweptBatch(s, b) ==
    /\ pc[s] = "sweep"
    /\ b \in job[s].todo
    /\ LockBatch(s, b)
    /\ job' = [job EXCEPT ![s].todo = @ \ {b}, ![s].batch = b]
    /\ Goto(s, "expire")
    /\ UNCHANGED <<now, rows, ownerLock, drafts>>

ExpireFiles(s) ==
    LET overdue == {f \in FilesOf(job[s].batch) : OverdueFile(f, job[s].cutoff)} IN
    /\ pc[s] = "expire"
    /\ \A f \in overdue : FileFreeFor(s, f)
    /\ draftFiles' = [draftFiles EXCEPT ![s] = [f \in overdue |-> "EXPIRED"]]
    /\ Goto(s, "readFiles")
    /\ UNCHANGED <<now, rows, job, locks, draftBatches>>

NextSweep(s) == IF job[s].todo = {} THEN "idle" ELSE "sweep"
SweepLocals(s) == IF job[s].todo = {} THEN Nothing
                  ELSE [job[s] EXCEPT !.batch = NoBatch, !.seen = {}]

CommitSweep(s) ==
    /\ s \in Sweep /\ pc[s] = "commit"
    /\ fileStatus' = FileView(s)
    /\ batchStatus' = BatchView(s)
    /\ Release(s, NextSweep(s), SweepLocals(s))
    /\ UNCHANGED <<now, batchExpires, fileExpires, attempt, output, requested>>

(* A failed batch is logged and the sweep goes on with the next.           *)
SkipBatch(s) ==
    /\ pc[s] \notin {"idle", "sweep"}
    /\ Release(s, NextSweep(s), SweepLocals(s))
    /\ UNCHANGED <<now, rows>>

-----------------------------------------------------------------------------
(***************************************************************************)
(* purgeDeadRows: one DELETE that locks the rows it found one by one, in   *)
(* no stated order.                                                        *)
(***************************************************************************)
Purgeable(b) ==
    /\ batchStatus[b] \notin NoRow
    /\ batchExpires[b] + PurgeGrace <= now
    /\ \A f \in FilesOf(b) : fileStatus[f] \notin LiveFileStatuses

BeginPurge(p) ==
    LET dead == {b \in Batch : Purgeable(b)} IN
    /\ pc[p] = "idle"
    /\ dead # {}
    /\ job' = [job EXCEPT ![p] = [dead |-> dead]]
    /\ Goto(p, "purge")
    /\ UNCHANGED <<now, rows, locks, drafts>>

LockDeadBatch(p, b) ==
    /\ pc[p] = "purge"
    /\ b \in job[p].dead
    /\ LockBatch(p, b)
    /\ UNCHANGED <<now, rows, pc, job, ownerLock, drafts>>

CommitPurge(p) ==
    LET gone == {b \in job[p].dead : Purgeable(b)} IN
    /\ pc[p] = "purge"
    /\ \A b \in gone : batchLock[b] = p
    /\ batchStatus' = [b \in Batch |-> IF b \in gone THEN "PURGED" ELSE batchStatus[b]]
    /\ batchExpires' = [b \in Batch |-> IF b \in gone THEN 0 ELSE batchExpires[b]]
    /\ fileStatus' = [f \in File |-> IF BatchOf[f] \in gone THEN "PURGED" ELSE fileStatus[f]]
    /\ fileExpires' = [f \in File |-> IF BatchOf[f] \in gone THEN 0 ELSE fileExpires[f]]
    /\ attempt' = [f \in File |-> IF BatchOf[f] \in gone THEN 0 ELSE attempt[f]]
    /\ output' = [f \in File |-> IF BatchOf[f] \in gone THEN 0 ELSE output[f]]
    /\ Release(p, "idle", Nothing)
    /\ UNCHANGED <<now, requested>>

AbortPurge(p) ==
    /\ pc[p] # "idle"
    /\ Release(p, "idle", Nothing)
    /\ UNCHANGED <<now, rows>>

Tick ==
    /\ now < MaxTime
    /\ now' = now + 1
    /\ UNCHANGED <<rows, pc, job, locks, drafts>>

-----------------------------------------------------------------------------
Admission(r) ==
    \/ \E b \in Batch : CheckAdmittable(r, b) \/ LockNextOwnersBatch(r, b)
    \/ LockOwner(r) \/ LockOwnBatch(r) \/ ClaimReadyFiles(r) \/ ChooseEvicted(r)
    \/ WriteAdmission(r) \/ CommitAdmission(r) \/ AbortAdmission(r)

Event(h) ==
    \/ \E f \in File, a \in Attempts :
          StartFile(h, f, a) \/ \E o \in {"COMPLETED", "FAILED"} : BeginResult(h, f, a, o)
    \/ StartBatch(h) \/ LockResultBatch(h) \/ ClaimFile(h)
    \/ ReadFiles(h) \/ UpdateBatch(h) \/ CommitResult(h) \/ AbortEvent(h)

Retention(s) ==
    \/ \E b \in Batch : LockSweptBatch(s, b)
    \/ BeginSweep(s) \/ ExpireFiles(s) \/ ReadFiles(s) \/ UpdateBatch(s)
    \/ CommitSweep(s) \/ SkipBatch(s)

Purging(p) ==
    \/ \E b \in Batch : LockDeadBatch(p, b)
    \/ BeginPurge(p) \/ CommitPurge(p) \/ AbortPurge(p)

Next ==
    \/ \E b \in Batch : CreateBatch(b)
    \/ \E f \in File : VerifyUpload(f)
    \/ \E r \in Request : Admission(r)
    \/ \E h \in Handler : Event(h)
    \/ \E s \in Sweep : Retention(s)
    \/ \E p \in Purge : Purging(p)
    \/ Tick

Spec == Init /\ [][Next]_vars

-----------------------------------------------------------------------------
(***************************************************************************)
(* Every transaction, statement by statement and under any interleaving,   *)
(* is one step of ConversionLifecycle, taken when it commits: no lost      *)
(* update, no roll-up computed from files another transaction is changing, *)
(* no trace of what rolled back.  About the FOR UPDATE on the batch row in *)
(* apply(RESULT), expireOverdueFiles and admitReadyFiles.                  *)
(***************************************************************************)
Lifecycle == INSTANCE ConversionLifecycle WITH
    admitting <- [r \in Request |-> IF pc[r] = "idle" THEN NoBatch ELSE job[r].batch],
    checkedAt <- [r \in Request |-> IF pc[r] = "idle" THEN 0 ELSE job[r].at],
    starting <- {<<job[h].file, job[h].attempt>> : h \in {k \in Handler : pc[k] = "startBatch"}},
    MaxInFlight <- Cardinality(Handler)

ImplementsLifecycle == Lifecycle!Spec

(***************************************************************************)
(* Only the purge can be part of a deadlock.  Admissions, events and       *)
(* sweeps never wait for each other in a circle: an eviction locks many    *)
(* batches in no stated order, but the advisory lock lets one eviction per *)
(* owner do so, and everyone else holds at most the batch it waits with.   *)
(***************************************************************************)
AwaitedBatches(x) ==
    IF pc[x] \in {"lockOwnBatch"} THEN {job[x].batch}
    ELSE IF pc[x] = "lockOwnersBatches" THEN OwnersBatches(x)
    ELSE IF pc[x] = "sweep" THEN job[x].todo
    ELSE IF pc[x] \in {"startBatch", "lockBatch", "rollUp"} THEN {RollUpTarget(x)}
    ELSE {}

AwaitedFiles(x) ==
    IF pc[x] = "claimFile" THEN {job[x].file}
    ELSE IF pc[x] = "expire" THEN FilesOf(job[x].batch)
    ELSE {}

WaitsFor(x, y) ==
    /\ x # y
    /\ \/ \E b \in AwaitedBatches(x) : batchLock[b] = y
       \/ \E f \in AwaitedFiles(x) : f \in DOMAIN draftFiles[y]
       \/ /\ pc[x] = "lockOwner" /\ job[x].limited
          /\ ownerLock[SubjectOf[job[x].batch]] = y

CyclesNeedThePurge ==
    \A waiting \in (SUBSET (Actor \ Purge)) \ {{}} :
        \E x \in waiting : \A y \in waiting : ~ WaitsFor(x, y)

=============================================================================
