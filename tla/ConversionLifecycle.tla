------------------------- MODULE ConversionLifecycle -------------------------
(***************************************************************************)
(* What conversion-api promises about the rows of conversion_batches and   *)
(* conversion_files, one committed transaction per step: batch creation,   *)
(* upload verification, admission (with eviction of stored results),       *)
(* worker events, the retention sweep and the purge.                       *)
(*                                                                         *)
(* Two things are NOT one step, because the code does not make them one:   *)
(* admission reads the batch before it opens its transaction, and a        *)
(* STARTED event is applied by two statements that commit separately, so   *)
(* the process may stop between them.  Locks and statements inside a       *)
(* transaction are the subject of ConversionTransactions, which refines    *)
(* this module; bytes and quotas are the subject of StorageAdmission.      *)
(*                                                                         *)
(* Worker events need no queue here: SQS delivers them late, repeatedly    *)
(* and in any order, so any event a worker may send about a requested      *)
(* file may be applied at any moment.                                      *)
(***************************************************************************)
EXTENDS Integers, FiniteSets, BatchRollup

CONSTANTS
    Batch, File, Subject, \* identities of rows and of their owner
    Request,              \* completeUploads calls that may run at once
    NoBatch,              \* the value of an idle request
    BatchOf,              \* the batch a file row references
    SubjectOf,            \* the owner of a batch
    MaxAttempt,           \* bound: how often a request message is received
    MaxInFlight,          \* STARTED events between their statements at a time: the
                          \* consumers' RECEIVE_BATCH_SIZE, smaller to bound a model
    MaxTime,              \* bound: the last instant of the clock
    UploadWindow,         \* UPLOAD_WINDOW_MS
    Retentions,           \* the plans' outputRetentionHours
    PurgeGrace            \* PURGE_GRACE_MS

FilesOf(b) == {f \in File : BatchOf[f] = b}

ASSUME LifecycleAssumption ==
    /\ BatchOf \in [File -> Batch]
    /\ SubjectOf \in [Batch -> Subject]
    /\ \A b \in Batch : FilesOf(b) # {}   \* createBatch refuses fileCount < 1
    /\ NoBatch \notin Batch
    /\ MaxAttempt \in Nat /\ MaxInFlight \in Nat /\ MaxTime \in Nat
    /\ UploadWindow \in Nat /\ PurgeGrace \in Nat
    /\ Retentions \subseteq Nat

VARIABLES
    now,          \* the clock both the process and the database read
    batchStatus,  \* conversion_batches.status, "NONE" before and "PURGED" after the row
    batchExpires, \* conversion_batches.expires_at
    fileStatus,   \* conversion_files.status, "NONE" and "PURGED" likewise
    fileExpires,  \* conversion_files.expires_at
    attempt,      \* conversion_files.attempt
    output,       \* the attempt in conversion_files.output_object_key, 0 when null
    requested,    \* files whose conversion request was written to the outbox
    admitting,    \* the batch a request found admittable before its transaction
    checkedAt,    \* when that request looked
    starting      \* STARTED events whose file update committed, batch update pending

rows == <<batchStatus, batchExpires, fileStatus, fileExpires, attempt, output, requested>>
vars == <<now, rows, admitting, checkedAt, starting>>

NoRow == {"NONE", "PURGED"}
Attempts == 1 .. MaxAttempt

Init ==
    /\ now = 0
    /\ batchStatus = [b \in Batch |-> "NONE"]
    /\ batchExpires = [b \in Batch |-> 0]
    /\ fileStatus = [f \in File |-> "NONE"]
    /\ fileExpires = [f \in File |-> 0]
    /\ attempt = [f \in File |-> 0]
    /\ output = [f \in File |-> 0]
    /\ requested = {}
    /\ admitting = [r \in Request |-> NoBatch]
    /\ checkedAt = [r \in Request |-> 0]
    /\ starting = {}

-----------------------------------------------------------------------------
(***************************************************************************)
(* The statuses of b's files when the file rows are fs, and the batch rows *)
(* after rollUpBatch ran for the batches bs over those file rows.          *)
(***************************************************************************)
Statuses(fs, b) == {fs[f] : f \in FilesOf(b)}

RolledUp(bs, fs) ==
    [b \in Batch |-> IF b \in bs THEN RollUp(batchStatus[b], Statuses(fs, b))
                                 ELSE batchStatus[b]]

-----------------------------------------------------------------------------
(* createBatch: the batch and its files, one insert.  A replay with the    *)
(* same idempotency key finds the row and changes nothing.                 *)
CreateBatch(b) ==
    /\ batchStatus[b] = "NONE"
    /\ now + UploadWindow + PurgeGrace <= MaxTime
    /\ batchStatus' = [batchStatus EXCEPT ![b] = "UPLOADING"]
    /\ batchExpires' = [batchExpires EXCEPT ![b] = now + UploadWindow]
    /\ fileStatus' = [f \in File |-> IF f \in FilesOf(b) THEN "UPLOADING" ELSE fileStatus[f]]
    /\ fileExpires' = [f \in File |-> IF f \in FilesOf(b) THEN now + UploadWindow
                                                          ELSE fileExpires[f]]
    /\ UNCHANGED <<now, attempt, output, requested, admitting, checkedAt, starting>>

(* completeUploads, per file: the object is in the bucket (the client may  *)
(* have put it at any time) and the row is still UPLOADING.  Neither the   *)
(* batch's status nor any deadline is looked at.                           *)
VerifyUpload(f) ==
    /\ fileStatus[f] = "UPLOADING"
    /\ fileStatus' = [fileStatus EXCEPT ![f] = "READY"]
    /\ UNCHANGED <<now, batchStatus, batchExpires, fileExpires, attempt, output,
                   requested, admitting, checkedAt, starting>>

-----------------------------------------------------------------------------
(* admitReadyFiles, before the transaction: the read of the batch.         *)
AdmittableStatuses == {"UPLOADING", "QUEUED"}

CheckAdmittable(r, b) ==
    /\ admitting[r] = NoBatch
    /\ batchStatus[b] \in AdmittableStatuses
    /\ batchExpires[b] > now
    /\ admitting' = [admitting EXCEPT ![r] = b]
    /\ checkedAt' = [checkedAt EXCEPT ![r] = now]
    /\ UNCHANGED <<now, rows, starting>>

ReadyFiles(b) == {f \in FilesOf(b) : fileStatus[f] = "READY"}

\* Stored results of the batch's owner, as the transaction's now() sees them.
Evictable(r) ==
    {f \in File : /\ SubjectOf[BatchOf[f]] = SubjectOf[admitting[r]]
                  /\ fileStatus[f] = "COMPLETED"
                  /\ fileExpires[f] > checkedAt[r]}

(* The transaction.  It claims the READY files it saw, expires the results *)
(* it evicts and rolls their batches up, then queues the claimed files and *)
(* their batch under the plan's retention and writes one request per file. *)
(* t is when it read the clock.                                            *)
AfterAdmission(claimed, evicted) ==
    [f \in File |-> IF f \in claimed THEN "QUEUED"
                    ELSE IF f \in evicted THEN "EXPIRED"
                    ELSE fileStatus[f]]

Admit(r, claimed, evicted, t, retention) ==
    LET b == admitting[r]
        fs == AfterAdmission(claimed, evicted)
    IN
    /\ claimed # {}
    /\ batchStatus[b] \in AdmittableStatuses
    /\ t + retention + PurgeGrace <= MaxTime
    /\ fileStatus' = fs
    /\ fileExpires' = [f \in File |-> IF f \in claimed THEN t + retention
                                      ELSE IF f \in evicted THEN t
                                      ELSE fileExpires[f]]
    /\ batchStatus' = [RolledUp({BatchOf[f] : f \in evicted}, fs) EXCEPT ![b] = "QUEUED"]
    /\ batchExpires' = [batchExpires EXCEPT ![b] = t + retention]
    /\ requested' = requested \cup claimed
    /\ admitting' = [admitting EXCEPT ![r] = NoBatch]
    /\ checkedAt' = [checkedAt EXCEPT ![r] = 0]
    /\ UNCHANGED <<now, attempt, output, starting>>

AdmitReadyFiles(r) ==
    /\ admitting[r] # NoBatch
    /\ \E claimed \in SUBSET ReadyFiles(admitting[r]), evicted \in SUBSET Evictable(r),
          t \in checkedAt[r] .. now, retention \in Retentions :
           Admit(r, claimed, evicted, t, retention)

(* No READY file, a limit exceeded, the batch no longer admittable, or the *)
(* process gone: the transaction leaves no trace.                          *)
LeaveUnadmitted(r) ==
    /\ admitting[r] # NoBatch
    /\ admitting' = [admitting EXCEPT ![r] = NoBatch]
    /\ checkedAt' = [checkedAt EXCEPT ![r] = 0]
    /\ UNCHANGED <<now, rows, starting>>

-----------------------------------------------------------------------------
EventAcceptingStatuses == {"QUEUED", "PROCESSING"}

(* apply(STARTED), first statement.                                        *)
AcceptsStarted(f, a) ==
    /\ fileStatus[f] \in EventAcceptingStatuses
    /\ attempt[f] < a

ApplyStarted(f, a) ==
    /\ f \in requested
    /\ AcceptsStarted(f, a)
    /\ Cardinality(starting) < MaxInFlight
    /\ fileStatus' = [fileStatus EXCEPT ![f] = "PROCESSING"]
    /\ attempt' = [attempt EXCEPT ![f] = a]
    /\ starting' = starting \cup {<<f, a>>}
    /\ UNCHANGED <<now, batchStatus, batchExpires, fileExpires, output, requested,
                   admitting, checkedAt>>

(* apply(STARTED), second statement.                                       *)
MarkBatchProcessing(f, a) ==
    LET b == BatchOf[f] IN
    /\ <<f, a>> \in starting
    /\ batchStatus' = [batchStatus EXCEPT ![b] = IF @ = "QUEUED" THEN "PROCESSING" ELSE @]
    /\ starting' = starting \ {<<f, a>>}
    /\ UNCHANGED <<now, batchExpires, fileStatus, fileExpires, attempt, output,
                   requested, admitting, checkedAt>>

(* The process stops, or the database refuses, between the two statements. *)
(* The message comes back, but its attempt is no longer newer.             *)
LoseStartedHandler(f, a) ==
    /\ <<f, a>> \in starting
    /\ starting' = starting \ {<<f, a>>}
    /\ UNCHANGED <<now, rows, admitting, checkedAt>>

(* apply(RESULT): the file takes the outcome and its batch is rolled up.   *)
AcceptsAnyResult(f, a) == fileStatus[f] \in EventAcceptingStatuses

AcceptsResult(f, a) ==
    /\ fileStatus[f] \in EventAcceptingStatuses
    /\ attempt[f] <= a

ApplyResult(f, a, outcome) ==
    LET fs == [fileStatus EXCEPT ![f] = outcome] IN
    /\ f \in requested
    /\ AcceptsResult(f, a)
    /\ fileStatus' = fs
    /\ output' = IF outcome = "COMPLETED" THEN [output EXCEPT ![f] = a] ELSE output
    /\ batchStatus' = RolledUp({BatchOf[f]}, fs)
    /\ UNCHANGED <<now, batchExpires, fileExpires, attempt, requested, admitting,
                   checkedAt, starting>>

-----------------------------------------------------------------------------
(* expireOverdueFiles, for one batch of the sweep's list.  The sweep read  *)
(* the clock once, at cutoff, before its first batch.  A listed batch      *)
(* without an overdue file is left as it is.                               *)
OverdueFiles(b, cutoff) ==
    {f \in FilesOf(b) : fileStatus[f] \in LiveFileStatuses /\ fileExpires[f] <= cutoff}

ExpireOverdueFiles(b) ==
    \E cutoff \in 0 .. now :
        LET overdue == OverdueFiles(b, cutoff)
            fs == [f \in File |-> IF f \in overdue THEN "EXPIRED" ELSE fileStatus[f]]
        IN
        /\ overdue # {}
        /\ fileStatus' = fs
        /\ batchStatus' = RolledUp({b}, fs)
        /\ UNCHANGED <<now, batchExpires, fileExpires, attempt, output, requested,
                       admitting, checkedAt, starting>>

(* purgeDeadRows: one delete, cascading to the files.                      *)
PurgeableWhenExpired(b) ==
    /\ batchStatus[b] = "EXPIRED"
    /\ batchExpires[b] + PurgeGrace <= now

Purgeable(b) ==
    /\ batchStatus[b] \notin NoRow
    /\ batchExpires[b] + PurgeGrace <= now
    /\ Statuses(fileStatus, b) \cap LiveFileStatuses = {}

PurgeDeadRows ==
    \E bs \in SUBSET {b \in Batch : Purgeable(b)} :
        /\ bs # {}
        /\ batchStatus' = [b \in Batch |-> IF b \in bs THEN "PURGED" ELSE batchStatus[b]]
        /\ batchExpires' = [b \in Batch |-> IF b \in bs THEN 0 ELSE batchExpires[b]]
        /\ fileStatus' = [f \in File |-> IF BatchOf[f] \in bs THEN "PURGED" ELSE fileStatus[f]]
        /\ fileExpires' = [f \in File |-> IF BatchOf[f] \in bs THEN 0 ELSE fileExpires[f]]
        /\ attempt' = [f \in File |-> IF BatchOf[f] \in bs THEN 0 ELSE attempt[f]]
        /\ output' = [f \in File |-> IF BatchOf[f] \in bs THEN 0 ELSE output[f]]
        /\ UNCHANGED <<now, requested, admitting, checkedAt, starting>>

Tick ==
    /\ now < MaxTime
    /\ now' = now + 1
    /\ UNCHANGED <<rows, admitting, checkedAt, starting>>

-----------------------------------------------------------------------------
Next ==
    \/ \E b \in Batch : CreateBatch(b)
    \/ \E f \in File : VerifyUpload(f)
    \/ \E r \in Request, b \in Batch : CheckAdmittable(r, b)
    \/ \E r \in Request : AdmitReadyFiles(r)
    \/ \E r \in Request : LeaveUnadmitted(r)
    \/ \E f \in File, a \in Attempts : ApplyStarted(f, a)
    \/ \E f \in File, a \in Attempts : MarkBatchProcessing(f, a)
    \/ \E f \in File, a \in Attempts : LoseStartedHandler(f, a)
    \/ \E f \in File, a \in Attempts, o \in {"COMPLETED", "FAILED"} : ApplyResult(f, a, o)
    \/ \E b \in Batch : ExpireOverdueFiles(b)
    \/ PurgeDeadRows
    \/ Tick

Spec == Init /\ [][Next]_vars

(***************************************************************************)
(* The two cron jobs run for as long as one instance of the api does, and  *)
(* time passes.  Nothing is assumed of clients, workers or queues.         *)
(***************************************************************************)
Fairness ==
    /\ WF_vars(Tick)
    /\ \A b \in Batch : WF_vars(ExpireOverdueFiles(b))
    /\ WF_vars(PurgeDeadRows)

FairSpec == Spec /\ Fairness

-----------------------------------------------------------------------------
(***************************************************************************)
(* Types, and the foreign key: a file row exists exactly while its batch   *)
(* row does (the schema's onDelete: Cascade).                              *)
(***************************************************************************)
TypeOK ==
    /\ now \in 0 .. MaxTime
    /\ batchStatus \in [Batch -> BatchStatuses \cup NoRow]
    /\ batchExpires \in [Batch -> Nat]
    /\ fileStatus \in [File -> FileStatuses \cup NoRow]
    /\ fileExpires \in [File -> Nat]
    /\ attempt \in [File -> 0 .. MaxAttempt]
    /\ output \in [File -> 0 .. MaxAttempt]
    /\ requested \subseteq File
    /\ admitting \in [Request -> Batch \cup {NoBatch}]
    /\ checkedAt \in [Request -> Nat]
    /\ starting \subseteq File \X Attempts
    /\ \A f \in File, s \in NoRow : fileStatus[f] = s <=> batchStatus[BatchOf[f]] = s

(***************************************************************************)
(* The status a batch shows is the one its files justify, whatever events, *)
(* admissions, evictions and sweeps came in whatever order: it is open     *)
(* exactly while some file may still change, COMPLETED only when every     *)
(* file was delivered, FAILED only when none is and one failed, EXPIRED    *)
(* exactly when nothing is left.  About rollUpBatch and all its callers.   *)
(***************************************************************************)
Justified(status, S) ==
    /\ status \in OpenBatchStatuses <=> ~ S \subseteq TerminalFileStatuses
    /\ status = "EXPIRED" <=> S = {"EXPIRED"}
    /\ status = "COMPLETED" => S \subseteq {"COMPLETED", "EXPIRED"}
    /\ status = "FAILED" => "COMPLETED" \notin S
    /\ status = "PARTIAL" => S # {"COMPLETED"}
    /\ status # "CANCELLED"

BatchStatusJustified ==
    \A b \in Batch : batchStatus[b] \notin NoRow => Justified(batchStatus[b], Statuses(fileStatus, b))

(***************************************************************************)
(* A finished file stays finished: late, duplicated or reordered events    *)
(* and admissions leave it alone; only a stored result may expire, and     *)
(* only rows without a result are purged.  A closed batch never reopens    *)
(* and never trades one outcome for another, except that a delivered one   *)
(* expires.  (worker-event-processor.db.spec.ts:200, retention.db.spec.ts: *)
(* 155 and 221.)                                                           *)
(***************************************************************************)
FinishedFileStays(f) ==
    fileStatus[f] \in TerminalFileStatuses =>
        \/ fileStatus'[f] = fileStatus[f]
        \/ fileStatus[f] = "COMPLETED" /\ fileStatus'[f] = "EXPIRED"
        \/ fileStatus[f] # "COMPLETED" /\ fileStatus'[f] = "PURGED"

ClosedBatchStays(b) ==
    batchStatus[b] \in BatchStatuses \ OpenBatchStatuses =>
        \/ batchStatus'[b] = batchStatus[b]
        \/ batchStatus[b] \in {"COMPLETED", "PARTIAL"} /\ batchStatus'[b] = "EXPIRED"
        \/ batchStatus'[b] = "PURGED"

OutcomesAreFinal ==
    [][(\A f \in File : FinishedFileStays(f)) /\ (\A b \in Batch : ClosedBatchStays(b))]_rows

(***************************************************************************)
(* The result a file shows is never older than an attempt the api already  *)
(* saw start: a superseded attempt's late result is dropped, and a start   *)
(* that arrives after a result does not restart the file.                  *)
(* (worker-event-processor.db.spec.ts:212.)                                *)
(***************************************************************************)
ResultFromLatestStart ==
    \A f \in File : fileStatus[f] = "COMPLETED" => output[f] >= attempt[f] /\ output[f] > 0

(***************************************************************************)
(* Retention ends everything, with no help from clients, workers or        *)
(* queues: even if every message is lost each batch closes, and its row is *)
(* purged in the end.  About expireOverdueFiles and purgeDeadRows.         *)
(***************************************************************************)
EveryBatchIsPurged ==
    \A b \in Batch : batchStatus[b] # "NONE" ~> batchStatus[b] = "PURGED"

==============================================================================
