------------------- MODULE ConversionTransactions_proofs --------------------
(***************************************************************************)
(* ConversionTransactions implements ConversionLifecycle, and admissions,  *)
(* events and sweeps never wait for each other in a circle, for any rows,  *)
(* owners, clocks and numbers of processes.                                *)
(*                                                                         *)
(* A transaction reads in one statement what it writes or commits in       *)
(* another.  So the invariant says of every actor, at each of its labels,  *)
(* which locks it holds and what the rows under them still are: an         *)
(* admission's claimed files are READY, an event's file accepts it, a      *)
(* sweep's files are overdue, and a roll-up decides what it would decide   *)
(* now.  A commit then is the abstract action with the draft as its        *)
(* witness; every other step is a stutter, or changes rows that nobody     *)
(* else relies on.                                                         *)
(***************************************************************************)
EXTENDS ConversionTransactions, FiniteSetTheorems, TLAPS

(* The atomic specification's own proofs, about the state it is given here. *)
Admitting == [r \in Request |-> IF pc[r] = "idle" THEN NoBatch ELSE job[r].batch]
CheckedAt == [r \in Request |-> IF pc[r] = "idle" THEN 0 ELSE job[r].at]
Starting == {<<job[h].file, job[h].attempt>> : h \in {k \in Handler : pc[k] = "startBatch"}}

Atomic == INSTANCE ConversionLifecycle_proofs WITH
    admitting <- Admitting, checkedAt <- CheckedAt, starting <- Starting,
    MaxInFlight <- Cardinality(Handler)

(* What the variables hold, and which locks stand for which rows.          *)
StateTypes ==
    /\ DOMAIN pc = Actor /\ DOMAIN job = Actor
    /\ DOMAIN draftFiles = Actor /\ DOMAIN draftBatches = Actor
    /\ batchLock \in [Batch -> Actor \cup {Nobody}]
    /\ ownerLock \in [Subject -> Actor \cup {Nobody}]

LockedRowsExist == \A b \in Batch : batchLock[b] # Nobody => batchStatus[b] \notin NoRow

RequestedRowsExisted == \A f \in requested : batchStatus[BatchOf[f]] # "NONE"

(* Past its lock statement x has the batch, unless it was purged before.   *)
Secured(x, b) == batchLock[b] = x \/ batchStatus[b] = "PURGED"

NothingDrafted(x) == draftFiles[x] = Nothing /\ draftBatches[x] = Nothing

-----------------------------------------------------------------------------
(* An admission: what it claimed and evicts is as it was, under its locks, *)
(* and what it drafted is what the rows still justify.                     *)
AdmissionLocals ==
    [batch : Batch, limited : BOOLEAN, at : Nat, wrote : Nat, expires : Nat,
     claimed : SUBSET File, evicted : SUBSET File]

Claimed(r) ==
    /\ batchLock[job[r].batch] = r
    /\ job[r].claimed # {}
    /\ \A f \in job[r].claimed : BatchOf[f] = job[r].batch /\ fileStatus[f] = "READY"

Evicted(r) ==
    \A f \in job[r].evicted :
        /\ batchLock[BatchOf[f]] = r
        /\ SubjectOf[BatchOf[f]] = SubjectOf[job[r].batch]
        /\ fileStatus[f] = "COMPLETED" /\ fileExpires[f] > job[r].at

AdmittedFiles(r) ==
    [f \in job[r].claimed \cup job[r].evicted |->
        IF f \in job[r].claimed THEN "QUEUED" ELSE "EXPIRED"]

AdmittedBatches(r) ==
    [c \in {job[r].batch} \cup {BatchOf[f] : f \in job[r].evicted} |->
        IF c = job[r].batch THEN "QUEUED" ELSE RollUp(batchStatus[c], Seen(r, c))]

Written(r) ==
    /\ batchStatus[job[r].batch] \in AdmittableStatuses
    /\ job[r].wrote \in job[r].at .. now
    /\ \E retention \in Retentions : /\ job[r].expires = job[r].wrote + retention
                                     /\ job[r].expires + PurgeGrace <= MaxTime
    /\ draftFiles[r] = AdmittedFiles(r)
    /\ draftBatches[r] = AdmittedBatches(r)

AdmissionOK(r) ==
    /\ pc[r] \in {"idle", "lockOwner", "lockOwnBatch", "claim", "lockOwnersBatches",
                  "write", "commit"}
    /\ pc[r] # "idle" => /\ job[r] \in AdmissionLocals
                         /\ job[r].at <= now
                         /\ batchStatus[job[r].batch] # "NONE"
    /\ pc[r] \in {"lockOwner", "lockOwnBatch", "claim"} => job[r].evicted = {}
    /\ pc[r] = "claim" => Secured(r, job[r].batch)
    /\ pc[r] = "lockOwnersBatches" => job[r].limited
    /\ pc[r] \in {"lockOwnersBatches", "write", "commit"} => Claimed(r)
    /\ pc[r] \in {"write", "commit"} => Evicted(r)
    /\ IF pc[r] = "commit" THEN Written(r) ELSE NothingDrafted(r)

(* Which locks it holds when.                                              *)
AdmissionLocks(r) ==
    /\ pc[r] \notin {"idle", "lockOwner"} /\ job[r].limited =>
           ownerLock[SubjectOf[job[r].batch]] = r
    /\ \A s \in Subject : ownerLock[s] = r => pc[r] \notin {"idle", "lockOwner"}
    /\ \A b \in Batch : batchLock[b] = r =>
           /\ pc[r] \in {"claim", "lockOwnersBatches", "write", "commit"}
           /\ SubjectOf[b] = SubjectOf[job[r].batch]

-----------------------------------------------------------------------------
(* rollUpBatch of x on batch b: what it read still decides the same.       *)
Read(x, b) == RollUp(batchStatus[b], job[x].seen) = RollUp(batchStatus[b], Seen(x, b))

RolledUpTo(x, b) ==
    LET status == RollUp(batchStatus[b], Seen(x, b)) IN
    draftBatches[x] = IF status = batchStatus[b] THEN Nothing ELSE [c \in {b} |-> status]

RollingUp(x, b) ==
    /\ pc[x] = "rollUp" => Read(x, b)
    /\ IF pc[x] = "commit" THEN RolledUpTo(x, b) ELSE draftBatches[x] = Nothing

(* A worker event.                                                         *)
EventLocals ==
    [file : File, attempt : Attempts, outcome : {"STARTED", "COMPLETED", "FAILED"},
     seen : SUBSET (FileStatuses \cup NoRow)]

Accepted(h) ==
    LET f == job[h].file IN
    /\ batchLock[BatchOf[f]] = h
    /\ job[h].outcome \in {"COMPLETED", "FAILED"}
    /\ fileStatus[f] \in EventAcceptingStatuses
    /\ attempt[f] <= job[h].attempt
    /\ draftFiles[h] = [g \in {f} |-> job[h].outcome]

EventOK(h) ==
    /\ pc[h] \in {"idle", "startBatch", "lockBatch", "claimFile", "readFiles", "rollUp", "commit"}
    /\ pc[h] # "idle" => job[h] \in EventLocals /\ job[h].file \in requested
    /\ pc[h] = "startBatch" => \/ attempt[job[h].file] >= job[h].attempt
                               \/ fileStatus[job[h].file] = "PURGED"
    /\ pc[h] \in {"lockBatch", "claimFile"} => job[h].outcome \in {"COMPLETED", "FAILED"}
    /\ pc[h] = "claimFile" => Secured(h, BatchOf[job[h].file])
    /\ IF pc[h] \in {"readFiles", "rollUp", "commit"} THEN Accepted(h)
                                                      ELSE draftFiles[h] = Nothing
    /\ RollingUp(h, BatchOf[job[h].file])

EventLocks(h) ==
    /\ \A s \in Subject : ownerLock[s] # h
    /\ \A b \in Batch : batchLock[b] = h =>
           /\ pc[h] \in {"claimFile", "readFiles", "rollUp", "commit"}
           /\ b = BatchOf[job[h].file]

StartsApart ==
    \A h, k \in Handler : h # k /\ pc[h] = "startBatch" /\ pc[k] = "startBatch" =>
        <<job[h].file, job[h].attempt>> # <<job[k].file, job[k].attempt>>

-----------------------------------------------------------------------------
(* A sweep: what it drafted is what is overdue.                            *)
SweepLocalsType ==
    [cutoff : Nat, todo : SUBSET Batch, batch : Batch \cup {NoBatch},
     seen : SUBSET (FileStatuses \cup NoRow)]

Overdue(s) == {f \in FilesOf(job[s].batch) : OverdueFile(f, job[s].cutoff)}

SweepOK(s) ==
    /\ pc[s] \in {"idle", "sweep", "expire", "readFiles", "rollUp", "commit"}
    /\ pc[s] # "idle" => /\ job[s] \in SweepLocalsType
                         /\ job[s].cutoff <= now
                         /\ \A b \in job[s].todo : batchStatus[b] # "NONE"
    /\ pc[s] \in {"expire", "readFiles", "rollUp", "commit"} =>
           job[s].batch \in Batch /\ Secured(s, job[s].batch)
    /\ draftFiles[s] = IF pc[s] \in {"readFiles", "rollUp", "commit"}
                       THEN [f \in Overdue(s) |-> "EXPIRED"] ELSE Nothing
    /\ RollingUp(s, job[s].batch)

SweepLocks(s) ==
    /\ \A u \in Subject : ownerLock[u] # s
    /\ \A b \in Batch : batchLock[b] = s =>
           pc[s] \in {"expire", "readFiles", "rollUp", "commit"} /\ b = job[s].batch

(* A purge.                                                                *)
PurgeOK(p) ==
    /\ pc[p] \in {"idle", "purge"}
    /\ pc[p] = "purge" => job[p] \in [dead : SUBSET Batch]
    /\ NothingDrafted(p)

PurgeLocks(p) ==
    /\ \A s \in Subject : ownerLock[s] # p
    /\ \A b \in Batch : batchLock[b] = p => pc[p] = "purge"

AtomicInv == Atomic!TypeOK /\ Atomic!BatchStatusJustified

(* What holds of an actor between any two steps.                           *)
ActorOK(x) ==
    /\ x \in Request => AdmissionOK(x) /\ AdmissionLocks(x)
    /\ x \in Handler => EventOK(x) /\ EventLocks(x)
    /\ x \in Sweep => SweepOK(x) /\ SweepLocks(x)
    /\ x \in Purge => PurgeOK(x) /\ PurgeLocks(x)

Inv ==
    /\ AtomicInv
    /\ StateTypes /\ LockedRowsExist /\ RequestedRowsExisted /\ StartsApart
    /\ \A x \in Actor : ActorOK(x)

-----------------------------------------------------------------------------
(* The atomic specification's operators are this module's.                 *)
LEMMA AtomicAssumption == Atomic!LifecycleAssumption
BY TransactionsAssumption, FS_CardinalityType
DEF TransactionsAssumption, Atomic!LifecycleAssumption, FilesOf, Atomic!FilesOf

LEMMA SameRollUp ==
    ASSUME NEW status, NEW S PROVE Atomic!RollUp(status, S) = RollUp(status, S)
BY DEF RollUp, Replaceable, Outcome, OpenBatchStatuses, TerminalFileStatuses,
       Atomic!RollUp, Atomic!Replaceable, Atomic!Outcome, Atomic!OpenBatchStatuses,
       Atomic!TerminalFileStatuses

(* The types of the rows, and the foreign key.                             *)
RowTypes ==
    /\ now \in 0 .. MaxTime
    /\ batchStatus \in [Batch -> BatchStatuses \cup NoRow]
    /\ batchExpires \in [Batch -> Nat]
    /\ fileStatus \in [File -> FileStatuses \cup NoRow]
    /\ fileExpires \in [File -> Nat]
    /\ attempt \in [File -> 0 .. MaxAttempt]
    /\ output \in [File -> 0 .. MaxAttempt]
    /\ requested \subseteq File
    /\ \A f \in File, s \in NoRow : fileStatus[f] = s <=> batchStatus[BatchOf[f]] = s

LEMMA AtomicTypes ==
    /\ AtomicInv => RowTypes
    /\ AtomicInv' => RowTypes'
BY DEF AtomicInv, Atomic!TypeOK, RowTypes, NoRow, BatchStatuses, FileStatuses, OpenBatchStatuses,
       LiveFileStatuses, TerminalFileStatuses, Atomic!NoRow, Atomic!BatchStatuses,
       Atomic!FileStatuses, Atomic!OpenBatchStatuses, Atomic!LiveFileStatuses,
       Atomic!TerminalFileStatuses

LEMMA Constants ==
    /\ BatchOf \in [File -> Batch] /\ SubjectOf \in [Batch -> Subject]
    /\ \A b \in Batch : FilesOf(b) # {} /\ FilesOf(b) \subseteq File
    /\ NoBatch \notin Batch /\ Nobody \notin Actor
    /\ \A f \in File : BatchOf[f] \in Batch /\ f \in FilesOf(BatchOf[f])
    /\ \A b \in Batch : \A f \in FilesOf(b) : BatchOf[f] = b
BY TransactionsAssumption DEF TransactionsAssumption, FilesOf

LEMMA ActorsApart ==
    ASSUME NEW x
    PROVE  /\ x \in Request => x \in Actor /\ x \notin Handler /\ x \notin Sweep /\ x \notin Purge
           /\ x \in Handler => x \in Actor /\ x \notin Request /\ x \notin Sweep /\ x \notin Purge
           /\ x \in Sweep => x \in Actor /\ x \notin Request /\ x \notin Handler /\ x \notin Purge
           /\ x \in Purge => x \in Actor /\ x \notin Request /\ x \notin Handler /\ x \notin Sweep
BY TransactionsAssumption DEF TransactionsAssumption, Actor

-----------------------------------------------------------------------------
(* What a step leaves to an actor that does not take it.                   *)
Untouched(y) ==
    /\ pc'[y] = pc[y] /\ job'[y] = job[y]
    /\ draftFiles'[y] = draftFiles[y] /\ draftBatches'[y] = draftBatches[y]
    /\ \A b \in Batch : batchLock'[b] = y <=> batchLock[b] = y
    /\ \A s \in Subject : ownerLock'[s] = y <=> ownerLock[s] = y

(* A file row may change under its batch's lock, but only on its way to an *)
(* outcome, and not when the holder drafted a change of it.                *)
Progressed(f) ==
    \/ fileStatus[f] = "UPLOADING" /\ fileStatus'[f] = "READY"
    \/ fileStatus[f] \in EventAcceptingStatuses /\ fileStatus'[f] = "PROCESSING"

Respected(y) ==
    \A b \in Batch : batchLock[b] = y =>
        /\ batchStatus'[b] = batchStatus[b]
        /\ \A f \in FilesOf(b) :
              /\ fileExpires'[f] = fileExpires[f]
              /\ \/ fileStatus'[f] = fileStatus[f] /\ attempt'[f] = attempt[f]
                 \/ f \notin DOMAIN draftFiles[y] /\ Progressed(f)

(* What never goes back.                                                   *)
Monotone ==
    /\ now <= now' /\ requested \subseteq requested'
    /\ \A b \in Batch : /\ batchStatus[b] # "NONE" => batchStatus'[b] # "NONE"
                        /\ batchStatus[b] = "PURGED" => batchStatus'[b] = "PURGED"
    /\ \A f \in File : /\ attempt[f] <= attempt'[f] \/ fileStatus'[f] = "PURGED"
                       /\ fileStatus[f] = "PURGED" => fileStatus'[f] = "PURGED"

Spared(y) == Untouched(y) /\ Respected(y)

Unfinished == {"UPLOADING", "READY", "QUEUED", "PROCESSING"}

LEMMA ViewType ==
    ASSUME RowTypes, NEW x
    PROVE  \A f \in File : FileView(x)[f] = IF f \in DOMAIN draftFiles[x] THEN draftFiles[x][f]
                                                                        ELSE fileStatus[f]
BY DEF RowTypes, FileView, Over

(* A batch's files decide its roll-up alike before and after the others'   *)
(* steps, as long as its row is locked.                                    *)
LEMMA RollUpKept ==
    ASSUME RowTypes, RowTypes', NEW y, NEW b \in Batch, Spared(y), batchLock[b] = y, NEW status
    PROVE  RollUp(status, Seen(y, b)') = RollUp(status, Seen(y, b))
<1>1. \A f \in FilesOf(b) : f \in File
  BY Constants
<1>2. ASSUME NEW f \in FilesOf(b)
      PROVE  \/ FileView(y)'[f] = FileView(y)[f]
             \/ FileView(y)[f] \in Unfinished /\ FileView(y)'[f] \in Unfinished
  <2>1. /\ FileView(y)[f] = IF f \in DOMAIN draftFiles[y] THEN draftFiles[y][f] ELSE fileStatus[f]
        /\ FileView(y)'[f] = IF f \in DOMAIN draftFiles[y] THEN draftFiles[y][f]
                                                         ELSE fileStatus'[f]
    BY <1>1 DEF RowTypes, FileView, Over, Spared, Untouched
  <2>2. \/ fileStatus'[f] = fileStatus[f]
        \/ f \notin DOMAIN draftFiles[y] /\ Progressed(f)
    BY DEF Spared, Respected
  <2> QED
    BY <2>1, <2>2 DEF Progressed, EventAcceptingStatuses, Unfinished
<1>3. CASE \E f \in FilesOf(b) : FileView(y)[f] \in Unfinished
  <2>1. PICK f \in FilesOf(b) : FileView(y)[f] \in Unfinished
    BY <1>3
  <2>2. FileView(y)'[f] \in Unfinished
    BY <1>2, <2>1
  <2>3. Unfinished \cap TerminalFileStatuses = {}
    BY DEF Unfinished, TerminalFileStatuses
  <2>4. FileView(y)[f] \in Seen(y, b) /\ FileView(y)'[f] \in Seen(y, b)'
    BY DEF Seen
  <2> QED
    BY <2>1, <2>2, <2>3, <2>4 DEF RollUp
<1>4. CASE \A f \in FilesOf(b) : FileView(y)'[f] = FileView(y)[f]
  <2>1. Seen(y, b)' = Seen(y, b)
    BY <1>4 DEF Seen
  <2> QED
    BY <2>1
<1> QED
  BY <1>2, <1>3, <1>4

LEMMA GoneStaysSecured ==
    ASSUME NEW y, NEW b \in Batch, Spared(y), Monotone, Secured(y, b)
    PROVE  Secured(y, b)'
BY DEF Spared, Untouched, Monotone, Secured

(* A row that was purged is rolled up to itself.                           *)
LEMMA PurgedStays == ASSUME NEW S PROVE RollUp("PURGED", S) = "PURGED"
BY DEF RollUp, Replaceable, OpenBatchStatuses

LEMMA RollingUpKept ==
    ASSUME RowTypes, RowTypes', NEW y, NEW b \in Batch, Spared(y), Monotone,
           pc[y] \in {"rollUp", "commit"} => Secured(y, b), RollingUp(y, b)
    PROVE  RollingUp(y, b)'
<1>1. pc'[y] = pc[y] /\ job'[y] = job[y] /\ draftBatches'[y] = draftBatches[y]
  BY DEF Spared, Untouched
<1>2. ASSUME pc[y] \in {"rollUp", "commit"}
      PROVE  /\ batchStatus'[b] = batchStatus[b]
             /\ RollUp(batchStatus[b], Seen(y, b)') = RollUp(batchStatus[b], Seen(y, b))
  <2>1. CASE batchLock[b] = y
    BY <2>1, RollUpKept DEF Spared, Respected
  <2>2. CASE batchStatus[b] = "PURGED"
    BY <2>2, PurgedStays DEF Monotone
  <2> QED
    BY <1>2, <2>1, <2>2 DEF Secured
<1>3. CASE pc[y] = "rollUp"
  <2>1. Read(y, b)'
    BY <1>1, <1>2, <1>3 DEF RollingUp, Read
  <2> QED
    BY <1>1, <1>3, <2>1 DEF RollingUp
<1>4. CASE pc[y] = "commit"
  <2>1. RolledUpTo(y, b)'
    BY <1>1, <1>2, <1>4 DEF RollingUp, RolledUpTo
  <2> QED
    BY <1>1, <1>4, <2>1 DEF RollingUp
<1>5. CASE pc[y] \notin {"rollUp", "commit"}
  BY <1>1, <1>5 DEF RollingUp
<1> QED
  BY <1>3, <1>4, <1>5

LEMMA AdmissionKept ==
    ASSUME RowTypes, RowTypes', NEW r \in Request, Spared(r), Monotone,
           AdmissionOK(r), AdmissionLocks(r)
    PROVE  AdmissionOK(r)' /\ AdmissionLocks(r)'
<1>1. /\ pc'[r] = pc[r] /\ job'[r] = job[r]
      /\ draftFiles'[r] = draftFiles[r] /\ draftBatches'[r] = draftBatches[r]
  BY DEF Spared, Untouched
<1>2. pc[r] # "idle" => /\ job[r].batch \in Batch /\ job[r].claimed \in SUBSET File
                        /\ job[r].evicted \in SUBSET File /\ job[r].at \in Nat
                        /\ job[r].at <= now /\ batchStatus[job[r].batch] # "NONE"
  BY DEF AdmissionOK, AdmissionLocals
<1>3. now \in Nat /\ now' \in Nat /\ now <= now'
  BY TransactionsAssumption DEF RowTypes, Monotone, TransactionsAssumption
<1>4. \A f \in File : batchLock[BatchOf[f]] = r =>
          /\ batchLock'[BatchOf[f]] = r /\ fileExpires'[f] = fileExpires[f]
          /\ fileStatus[f] \in {"READY", "COMPLETED"} => fileStatus'[f] = fileStatus[f]
  <2> SUFFICES ASSUME NEW f \in File, batchLock[BatchOf[f]] = r
               PROVE  /\ batchLock'[BatchOf[f]] = r /\ fileExpires'[f] = fileExpires[f]
                      /\ fileStatus[f] \in {"READY", "COMPLETED"} => fileStatus'[f] = fileStatus[f]
    OBVIOUS
  <2>1. BatchOf[f] \in Batch /\ f \in FilesOf(BatchOf[f])
    BY Constants
  <2> QED
    BY <2>1 DEF Spared, Untouched, Respected, Progressed, EventAcceptingStatuses
<1>5. ASSUME pc[r] \in {"lockOwnersBatches", "write", "commit"}
      PROVE  Claimed(r) /\ Claimed(r)'
  <2>1. Claimed(r)
    BY <1>5 DEF AdmissionOK
  <2>2. batchLock'[job[r].batch] = r
    BY <1>2, <1>5, <2>1 DEF Claimed, Spared, Untouched
  <2> QED
    BY <1>1, <1>2, <1>4, <1>5, <2>1, <2>2 DEF Claimed
<1>6. ASSUME pc[r] \in {"write", "commit"}
      PROVE  Evicted(r) /\ Evicted(r)'
  <2>1. Evicted(r)
    BY <1>6 DEF AdmissionOK
  <2> QED
    BY <1>1, <1>2, <1>4, <1>6, <2>1 DEF Evicted
<1>7. ASSUME pc[r] = "commit"
      PROVE  Written(r)'
  <2>1. Written(r)
    BY <1>7 DEF AdmissionOK
  <2>2. batchStatus'[job[r].batch] = batchStatus[job[r].batch]
    BY <1>2, <1>5, <1>7 DEF Claimed, Spared, Respected
  <2>3. job[r].wrote \in job[r].at .. now'
    BY <1>2, <1>3, <1>7, <2>1 DEF Written
  <2>4. AdmittedFiles(r)' = AdmittedFiles(r)
    BY <1>1 DEF AdmittedFiles
  <2>5. ASSUME NEW f \in job[r].evicted
        PROVE  LET c == BatchOf[f] IN
               RollUp(batchStatus'[c], Seen(r, c)') = RollUp(batchStatus[c], Seen(r, c))
    <3>1. BatchOf[f] \in Batch /\ batchLock[BatchOf[f]] = r
      BY <1>2, <1>6, <1>7, <2>5, Constants DEF Evicted
    <3>2. batchStatus'[BatchOf[f]] = batchStatus[BatchOf[f]]
      BY <3>1 DEF Spared, Respected
    <3> QED
      BY <3>1, <3>2, RollUpKept
  <2>6. AdmittedBatches(r)' = AdmittedBatches(r)
    BY <1>1, <2>5 DEF AdmittedBatches
  <2> QED
    BY <1>1, <2>1, <2>2, <2>3, <2>4, <2>6 DEF Written
<1>8. pc[r] = "claim" => Secured(r, job[r].batch)'
  BY <1>1, <1>2, GoneStaysSecured DEF AdmissionOK
<1>9. pc[r] # "idle" => batchStatus'[job[r].batch] # "NONE"
  BY <1>2 DEF Monotone
<1>10. AdmissionOK(r)'
  <2>1. pc[r] # "idle" => job[r] \in AdmissionLocals /\ job[r].at <= now'
    BY <1>2, <1>3 DEF AdmissionOK
  <2>2. pc[r] # "commit" => NothingDrafted(r)'
    BY <1>1 DEF AdmissionOK, NothingDrafted
  <2>3. pc[r] = "claim" => Secured(r, job[r].batch)'
    BY <1>8
  <2> QED
    BY <1>1, <1>5, <1>6, <1>7, <1>8, <1>9, <2>1, <2>2 DEF AdmissionOK, Secured
<1>11. AdmissionLocks(r)'
  <2>1. pc[r] # "idle" => SubjectOf[job[r].batch] \in Subject
    BY <1>2, Constants
  <2> QED
    BY <1>1, <2>1 DEF AdmissionLocks, Spared, Untouched
<1> QED
  BY <1>10, <1>11

LEMMA EventKept ==
    ASSUME RowTypes, RowTypes', NEW h \in Handler, Spared(h), Monotone, EventOK(h), EventLocks(h)
    PROVE  EventOK(h)' /\ EventLocks(h)'
<1>1. /\ pc'[h] = pc[h] /\ job'[h] = job[h]
      /\ draftFiles'[h] = draftFiles[h] /\ draftBatches'[h] = draftBatches[h]
  BY DEF Spared, Untouched
<1>2. pc[h] # "idle" => /\ job[h].file \in File /\ job[h].attempt \in Attempts
                        /\ BatchOf[job[h].file] \in Batch
                        /\ job[h].file \in FilesOf(BatchOf[job[h].file])
                        /\ job[h].file \in requested'
  BY Constants DEF EventOK, EventLocals, Monotone
<1>3. ASSUME pc[h] \in {"readFiles", "rollUp", "commit"}
      PROVE  Accepted(h) /\ Accepted(h)'
  <2>1. Accepted(h)
    BY <1>3 DEF EventOK
  <2>2. job[h].file \in DOMAIN draftFiles[h]
    BY <2>1 DEF Accepted
  <2>3. /\ batchLock'[BatchOf[job[h].file]] = h
        /\ fileStatus'[job[h].file] = fileStatus[job[h].file]
        /\ attempt'[job[h].file] = attempt[job[h].file]
    BY <1>2, <1>3, <2>1, <2>2 DEF Accepted, Spared, Untouched, Respected
  <2> QED
    BY <1>1, <2>1, <2>3 DEF Accepted
<1>4. ASSUME pc[h] = "startBatch"
      PROVE  attempt'[job[h].file] >= job[h].attempt \/ fileStatus'[job[h].file] = "PURGED"
  <2>1. /\ attempt[job[h].file] \in Nat /\ attempt'[job[h].file] \in Nat
        /\ job[h].attempt \in Nat
    BY <1>2, <1>4, TransactionsAssumption DEF RowTypes, Attempts, TransactionsAssumption
  <2> QED
    BY <1>2, <1>4, <2>1 DEF EventOK, Monotone
<1>5. pc[h] = "claimFile" => Secured(h, BatchOf[job[h].file])'
  BY <1>1, <1>2, GoneStaysSecured DEF EventOK
<1>6. RollingUp(h, BatchOf[job[h].file])'
  <2>1. CASE pc[h] = "idle"
    BY <1>1, <2>1 DEF EventOK, RollingUp
  <2>2. CASE pc[h] # "idle"
    <3>1. pc[h] \in {"rollUp", "commit"} => Secured(h, BatchOf[job[h].file])
      BY <1>3 DEF Accepted, Secured
    <3>2. RollingUp(h, BatchOf[job[h].file])
      BY DEF EventOK
    <3> DEFINE b == BatchOf[job[h].file]
    <3>3. b \in Batch
      BY <1>2, <2>2
    <3>4. BatchOf[job'[h].file] = b
      BY <1>1
    <3> HIDE DEF b
    <3> QED
      BY <3>1, <3>2, <3>3, <3>4, RollingUpKept DEF b
  <2> QED
    BY <2>1, <2>2
<1>7. EventOK(h)'
  <2>1. pc[h] # "idle" => job[h] \in EventLocals
    BY DEF EventOK
  <2> QED
    BY <1>1, <1>2, <1>3, <1>4, <1>5, <1>6, <2>1 DEF EventOK, Secured
<1>8. EventLocks(h)'
  BY <1>1 DEF EventLocks, Spared, Untouched
<1> QED
  BY <1>7, <1>8

LEMMA SweepKept ==
    ASSUME RowTypes, RowTypes', NEW s \in Sweep, Spared(s), Monotone, SweepOK(s), SweepLocks(s)
    PROVE  SweepOK(s)' /\ SweepLocks(s)'
<1>1. /\ pc'[s] = pc[s] /\ job'[s] = job[s]
      /\ draftFiles'[s] = draftFiles[s] /\ draftBatches'[s] = draftBatches[s]
  BY DEF Spared, Untouched
<1> DEFINE b == job[s].batch
           past == pc[s] \in {"expire", "readFiles", "rollUp", "commit"}
<1>2. pc[s] # "idle" => /\ job[s] \in SweepLocalsType /\ job[s].cutoff \in Nat
                        /\ job[s].cutoff <= now' /\ job[s].todo \subseteq Batch
                        /\ \A c \in job[s].todo : batchStatus'[c] # "NONE"
  <2>1. now \in Nat /\ now' \in Nat /\ now <= now'
    BY TransactionsAssumption DEF RowTypes, Monotone, TransactionsAssumption
  <2>2. pc[s] # "idle" => job[s].cutoff \in Nat /\ job[s].cutoff <= now
    BY DEF SweepOK, SweepLocalsType
  <2> QED
    BY <2>1, <2>2 DEF SweepOK, SweepLocalsType, Monotone
<1>3. past => b \in Batch /\ Secured(s, b)
  BY DEF SweepOK
<1>4. past => Secured(s, b)'
  <2>1. \A c \in Batch : Secured(s, c) => Secured(s, c)'
    BY GoneStaysSecured
  <2> QED
    BY <1>1, <1>3, <2>1 DEF Secured
<1>5. ASSUME pc[s] \in {"readFiles", "rollUp", "commit"}
      PROVE  Overdue(s)' = Overdue(s)
  <2>1. draftFiles[s] = [f \in Overdue(s) |-> "EXPIRED"]
    BY <1>5 DEF SweepOK
  <2>2. DOMAIN draftFiles[s] = Overdue(s)
    BY <2>1
  <2>3. ASSUME NEW f \in FilesOf(b)
        PROVE  OverdueFile(f, job[s].cutoff)' <=> OverdueFile(f, job[s].cutoff)
    <3>1. CASE batchLock[b] = s
      <4>1. /\ fileExpires'[f] = fileExpires[f]
            /\ \/ fileStatus'[f] = fileStatus[f]
               \/ f \notin Overdue(s) /\ Progressed(f)
        BY <1>3, <1>5, <2>2, <3>1 DEF Spared, Respected
      <4>2. CASE fileStatus'[f] = fileStatus[f]
        BY <1>1, <4>1, <4>2 DEF OverdueFile
      <4>3. CASE f \notin Overdue(s) /\ Progressed(f)
        <5>1. ~(fileExpires[f] <= job[s].cutoff)
          BY <2>3, <4>3
          DEF Overdue, OverdueFile, Progressed, EventAcceptingStatuses, LiveFileStatuses
        <5> QED
          BY <1>1, <4>1, <4>3, <5>1 DEF Overdue, OverdueFile
      <4> QED
        BY <4>1, <4>2, <4>3
    <3>2. CASE batchStatus[b] = "PURGED"
      <4>1. f \in File /\ BatchOf[f] = b
        BY <1>3, <1>5, Constants
      <4>2. fileStatus[f] = "PURGED"
        BY <3>2, <4>1 DEF RowTypes, NoRow
      <4>3. fileStatus'[f] = "PURGED"
        BY <4>1, <4>2 DEF Monotone
      <4> QED
        BY <4>2, <4>3 DEF OverdueFile, LiveFileStatuses
    <3> QED
      BY <1>3, <1>5, <3>1, <3>2 DEF Secured
  <2> QED
    BY <1>1, <2>3 DEF Overdue
<1>6. RollingUp(s, b)'
  <2>1. CASE ~past
    BY <1>1, <2>1 DEF SweepOK, RollingUp
  <2>2. CASE past
    <3>1. \A c \in Batch : Secured(s, c) /\ RollingUp(s, c) => RollingUp(s, c)'
      BY RollingUpKept
    <3>2. RollingUp(s, b)
      BY DEF SweepOK
    <3> QED
      BY <1>1, <1>3, <2>2, <3>1, <3>2 DEF RollingUp, RolledUpTo, Read, Seen, FileView
  <2> QED
    BY <2>1, <2>2
<1>7. SweepOK(s)'
  <2>1. draftFiles'[s] = IF pc'[s] \in {"readFiles", "rollUp", "commit"}
                         THEN [f \in Overdue(s)' |-> "EXPIRED"] ELSE Nothing
    BY <1>1, <1>5 DEF SweepOK
  <2>2. pc'[s] \in {"idle", "sweep", "expire", "readFiles", "rollUp", "commit"}
    BY <1>1 DEF SweepOK
  <2> QED
    BY <1>1, <1>2, <1>3, <1>4, <1>6, <2>1, <2>2 DEF SweepOK
<1>8. SweepLocks(s)'
  BY <1>1 DEF SweepLocks, Spared, Untouched
<1> QED
  BY <1>7, <1>8

LEMMA PurgeKept ==
    ASSUME NEW p \in Purge, Spared(p), PurgeOK(p), PurgeLocks(p)
    PROVE  PurgeOK(p)' /\ PurgeLocks(p)'
BY DEF Spared, Untouched, PurgeOK, PurgeLocks, NothingDrafted

LEMMA ActorKept ==
    ASSUME RowTypes, RowTypes', NEW y \in Actor, Spared(y), Monotone, ActorOK(y)
    PROVE  ActorOK(y)'
<1>1. y \in Request => AdmissionOK(y)' /\ AdmissionLocks(y)'
  BY AdmissionKept DEF ActorOK
<1>2. y \in Handler => EventOK(y)' /\ EventLocks(y)'
  BY EventKept DEF ActorOK
<1>3. y \in Sweep => SweepOK(y)' /\ SweepLocks(y)'
  BY SweepKept DEF ActorOK
<1>4. y \in Purge => PurgeOK(y)' /\ PurgeLocks(y)'
  BY PurgeKept DEF ActorOK
<1> QED
  BY <1>1, <1>2, <1>3, <1>4 DEF ActorOK

-----------------------------------------------------------------------------
(* The invariant holds after a step of x (of Nobody: of no transaction) if *)
(* the atomic specification allows the step, it spares the other actors,   *)
(* and x's own state is as it should be.                                   *)
SpareOthers(x) == \A y \in Actor \ {x} : Spared(y)

LocksExisting(x) == \A b \in Batch : batchLock'[b] = x => batchStatus'[b] \notin NoRow

NoNewStart(x) ==
    x \in Handler /\ pc'[x] = "startBatch" =>
        /\ pc[x] = "startBatch"
        /\ job'[x].file = job[x].file /\ job'[x].attempt = job[x].attempt

LEMMA AtomicStep == ASSUME AtomicInv, [Atomic!Next]_(Atomic!vars) PROVE AtomicInv'
BY AtomicAssumption, Atomic!NextTypeOK, Atomic!NextJustified
DEF Atomic!NextTypeOK, Atomic!NextJustified, AtomicInv, Atomic!IInv

LEMMA StepKeepsInv ==
    ASSUME Inv, [Atomic!Next]_(Atomic!vars), Monotone, NEW x, SpareOthers(x), StateTypes',
           x \in Actor => ActorOK(x)' /\ LocksExisting(x),
           x \in Actor \/ x = Nobody,
           requested' \ requested \subseteq {f \in File : batchStatus'[BatchOf[f]] # "NONE"},
           StartsApart'
    PROVE  Inv'
<1>1. AtomicInv /\ AtomicInv'
  BY AtomicStep DEF Inv
<1>2. RowTypes /\ RowTypes'
  BY <1>1, AtomicTypes
<1>3. ASSUME NEW y \in Actor PROVE ActorOK(y)'
  BY <1>2, <1>3, ActorKept DEF Inv, SpareOthers
<1>4. LockedRowsExist'
  <2> SUFFICES ASSUME NEW b \in Batch, batchLock'[b] # Nobody PROVE batchStatus'[b] \notin NoRow
    BY DEF LockedRowsExist
  <2>1. batchLock'[b] \in Actor
    BY DEF StateTypes
  <2>2. CASE batchLock'[b] = x
    BY <2>1, <2>2 DEF LocksExisting
  <2>3. CASE batchLock'[b] # x
    <3>1. batchLock[b] = batchLock'[b] /\ batchStatus'[b] = batchStatus[b]
      BY <2>1, <2>3 DEF SpareOthers, Spared, Untouched, Respected
    <3> QED
      BY <3>1 DEF Inv, LockedRowsExist
  <2> QED
    BY <2>2, <2>3
<1>5. RequestedRowsExisted'
  <2> SUFFICES ASSUME NEW f \in requested' PROVE batchStatus'[BatchOf[f]] # "NONE"
    BY DEF RequestedRowsExisted
  <2>1. CASE f \in requested
    <3>1. BatchOf[f] \in Batch /\ batchStatus[BatchOf[f]] # "NONE"
      BY <1>2, <2>1, Constants DEF Inv, RequestedRowsExisted, RowTypes
    <3> QED
      BY <3>1 DEF Monotone
  <2>2. CASE f \notin requested
    BY <2>2
  <2> QED
    BY <2>1, <2>2
<1> QED
  BY <1>1, <1>3, <1>4, <1>5 DEF Inv

LEMMA StartsStayApart ==
    ASSUME StartsApart, NEW x, SpareOthers(x), NoNewStart(x) PROVE StartsApart'
<1> SUFFICES ASSUME NEW h \in Handler, NEW k \in Handler, h # k,
                    pc'[h] = "startBatch", pc'[k] = "startBatch"
             PROVE  <<job'[h].file, job'[h].attempt>> # <<job'[k].file, job'[k].attempt>>
  BY DEF StartsApart
<1>1. ASSUME NEW g \in Handler, pc'[g] = "startBatch"
      PROVE  /\ pc[g] = "startBatch"
             /\ job'[g].file = job[g].file /\ job'[g].attempt = job[g].attempt
  BY <1>1, ActorsApart DEF NoNewStart, SpareOthers, Spared, Untouched
<1>2. <<job[h].file, job[h].attempt>> # <<job[k].file, job[k].attempt>>
  BY <1>1 DEF StartsApart
<1> QED
  BY <1>1, <1>2

(* A step that changes no row.                                             *)
LEMMA QuietStepKeepsInv ==
    ASSUME Inv, [Atomic!Next]_(Atomic!vars), UNCHANGED <<now, rows>>, NEW x \in Actor,
           \A y \in Actor \ {x} : Untouched(y), StateTypes', ActorOK(x)',
           LocksExisting(x), NoNewStart(x)
    PROVE  Inv'
<1>1. RowTypes
  BY AtomicTypes DEF Inv
<1>2. Monotone
  <2>1. now \in Int /\ \A f \in File : attempt[f] \in Int
    BY <1>1, TransactionsAssumption DEF RowTypes, TransactionsAssumption
  <2> QED
    BY <2>1 DEF Monotone, rows
<1>3. SpareOthers(x)
  BY DEF SpareOthers, Spared, Respected, rows
<1>4. StartsApart'
  BY <1>3, StartsStayApart DEF Inv
<1>5. requested' \ requested \subseteq {f \in File : batchStatus'[BatchOf[f]] # "NONE"}
  BY DEF rows
<1> QED
  BY <1>2, <1>3, <1>4, <1>5, StepKeepsInv

(* A step the atomic specification does not see.                           *)
SameRequest(r) ==
    /\ pc'[r] = "idle" <=> pc[r] = "idle"
    /\ pc[r] # "idle" => job'[r].batch = job[r].batch /\ job'[r].at = job[r].at

SameStart(h) ==
    /\ pc'[h] = "startBatch" <=> pc[h] = "startBatch"
    /\ pc[h] = "startBatch" => job'[h].file = job[h].file /\ job'[h].attempt = job[h].attempt

LEMMA SameRequests ==
    ASSUME \A r \in Request : SameRequest(r)
    PROVE  UNCHANGED <<Admitting, CheckedAt>>
BY DEF SameRequest, Admitting, CheckedAt

LEMMA SameStarts ==
    ASSUME \A h \in Handler : SameStart(h)
    PROVE  UNCHANGED Starting
BY DEF SameStart, Starting

LEMMA UntouchedSame ==
    ASSUME NEW x, \A y \in Actor \ {x} : Untouched(y)
    PROVE  /\ \A r \in Request \ {x} : SameRequest(r)
           /\ \A h \in Handler \ {x} : SameStart(h)
BY ActorsApart DEF Untouched, SameRequest, SameStart

LEMMA HiddenStep ==
    ASSUME UNCHANGED <<now, rows>>, NEW x, \A y \in Actor \ {x} : Untouched(y),
           x \in Request => SameRequest(x), x \in Handler => SameStart(x)
    PROVE  UNCHANGED Atomic!vars
<1>1. /\ \A r \in Request : SameRequest(r)
      /\ \A h \in Handler : SameStart(h)
  BY UntouchedSame
<1>2. UNCHANGED <<Admitting, CheckedAt, Starting>>
  BY <1>1, SameRequests, SameStarts
<1> QED
  BY <1>2 DEF Atomic!vars, Atomic!rows, rows

LEMMA OneRequestMoves ==
    ASSUME NEW r \in Request, \A q \in Request \ {r} : SameRequest(q), NEW b, NEW t,
           IF pc'[r] = "idle" THEN b = NoBatch /\ t = 0
                              ELSE b = job'[r].batch /\ t = job'[r].at
    PROVE  /\ Admitting' = [Admitting EXCEPT ![r] = b]
           /\ CheckedAt' = [CheckedAt EXCEPT ![r] = t]
<1>1. /\ Admitting \in [Request -> {Admitting[q] : q \in Request}]
      /\ CheckedAt \in [Request -> {CheckedAt[q] : q \in Request}]
  BY DEF Admitting, CheckedAt
<1>2. /\ Admitting' = [q \in Request |-> Admitting'[q]]
      /\ CheckedAt' = [q \in Request |-> CheckedAt'[q]]
  BY DEF Admitting, CheckedAt
<1>3. Admitting'[r] = b /\ CheckedAt'[r] = t
  BY DEF Admitting, CheckedAt
<1>4. ASSUME NEW q \in Request \ {r}
      PROVE  Admitting'[q] = Admitting[q] /\ CheckedAt'[q] = CheckedAt[q]
  BY <1>4 DEF Admitting, CheckedAt, SameRequest
<1>5. [Admitting EXCEPT ![r] = b] = [q \in Request |-> IF q = r THEN b ELSE Admitting[q]]
  BY <1>1
<1>6. [CheckedAt EXCEPT ![r] = t] = [q \in Request |-> IF q = r THEN t ELSE CheckedAt[q]]
  BY <1>1
<1> QED
  BY <1>2, <1>3, <1>4, <1>5, <1>6

-----------------------------------------------------------------------------
(* Admissions.                                                             *)
LEMMA InvOf ==
    ASSUME Inv, NEW x \in Actor
    PROVE  /\ RowTypes /\ StateTypes /\ ActorOK(x) /\ x # Nobody
           /\ batchLock \in [Batch -> Actor \cup {Nobody}]
           /\ ownerLock \in [Subject -> Actor \cup {Nobody}]
BY AtomicTypes, Constants DEF Inv, StateTypes

LEMMA CheckAdmittableStep ==
    ASSUME Inv, NEW r \in Request, NEW b \in Batch, CheckAdmittable(r, b)
    PROVE  Inv' /\ [Atomic!Next]_(Atomic!vars)
<1> r \in Actor /\ r \notin Handler /\ r \notin Sweep /\ r \notin Purge
  BY ActorsApart
<1>0. RowTypes /\ StateTypes /\ AdmissionOK(r) /\ AdmissionLocks(r)
  BY InvOf DEF ActorOK
<1>1. PICK limited \in BOOLEAN :
        /\ pc[r] = "idle" /\ batchStatus[b] \in AdmittableStatuses /\ batchExpires[b] > now
        /\ job' = [job EXCEPT ![r] = [batch |-> b, limited |-> limited, at |-> now,
                                      wrote |-> now, expires |-> 0,
                                      claimed |-> {}, evicted |-> {}]]
        /\ pc' = [pc EXCEPT ![r] = "lockOwner"]
        /\ UNCHANGED <<now, rows, locks, drafts>>
  BY DEF CheckAdmittable, Goto
<1>2. \A y \in Actor \ {r} : Untouched(y)
  BY <1>0, <1>1 DEF StateTypes, Untouched, locks, drafts
<1>3. StateTypes'
  BY <1>0, <1>1 DEF StateTypes, locks, drafts
<1>4. /\ pc'[r] = "lockOwner" /\ job'[r].batch = b /\ job'[r].at = now
      /\ job'[r] \in AdmissionLocals /\ job'[r].evicted = {}
  <2>1. now \in Nat
    BY <1>0, TransactionsAssumption DEF RowTypes, TransactionsAssumption
  <2> QED
    BY <1>0, <1>1, <2>1 DEF StateTypes, AdmissionLocals
<1>5. ActorOK(r)'
  <2>1. AdmissionOK(r)'
    <3>1. now <= now
      BY <1>0 DEF RowTypes
    <3> QED
      BY <1>0, <1>1, <1>4, <3>1
      DEF AdmissionOK, NothingDrafted, AdmittableStatuses, rows, drafts
  <2>2. AdmissionLocks(r)'
    BY <1>0, <1>1, <1>4 DEF AdmissionLocks, locks
  <2> QED
    BY <2>1, <2>2 DEF ActorOK
<1>6. LocksExisting(r) /\ NoNewStart(r)
  BY <1>0, <1>1 DEF LocksExisting, NoNewStart, AdmissionLocks, locks
<1>7. Atomic!CheckAdmittable(r, b)
  <2>1. \A q \in Request \ {r} : SameRequest(q)
    BY <1>2, UntouchedSame
  <2>2. /\ Admitting[r] = NoBatch
        /\ Admitting' = [Admitting EXCEPT ![r] = b]
        /\ CheckedAt' = [CheckedAt EXCEPT ![r] = now]
    BY <1>1, <1>4, <2>1, OneRequestMoves DEF Admitting
  <2>3. UNCHANGED Starting
    BY <1>2, UntouchedSame, SameStarts
  <2> QED
    BY <1>1, <2>2, <2>3
    DEF Atomic!CheckAdmittable, Atomic!AdmittableStatuses, AdmittableStatuses, Atomic!rows, rows
<1>8. [Atomic!Next]_(Atomic!vars)
  BY <1>7 DEF Atomic!Next
<1> QED
  BY <1>1, <1>2, <1>3, <1>5, <1>6, <1>8, QuietStepKeepsInv

(* Its statements before the commit are not seen from outside.             *)
LEMMA HiddenAdmissionStep ==
    ASSUME Inv, NEW r \in Request, UNCHANGED <<now, rows>>,
           pc[r] # "idle", pc'[r] # "idle",
           job'[r].batch = job[r].batch, job'[r].at = job[r].at,
           \A y \in Actor \ {r} : Untouched(y), StateTypes',
           AdmissionOK(r)', AdmissionLocks(r)', LocksExisting(r)
    PROVE  Inv' /\ [Atomic!Next]_(Atomic!vars)
<1>0. r \in Actor /\ r \notin Handler /\ r \notin Sweep /\ r \notin Purge
  BY ActorsApart
<1>1. UNCHANGED Atomic!vars
  BY <1>0, HiddenStep DEF SameRequest
<1>2. ActorOK(r)' /\ NoNewStart(r)
  BY <1>0 DEF ActorOK, NoNewStart
<1> QED
  BY <1>0, <1>1, <1>2, QuietStepKeepsInv

LEMMA RequestFacts ==
    ASSUME Inv, NEW r \in Request
    PROVE  /\ r \in Actor /\ r \notin Handler /\ r \notin Sweep /\ r \notin Purge /\ r # Nobody
           /\ RowTypes /\ StateTypes /\ AdmissionOK(r) /\ AdmissionLocks(r)
           /\ LockedRowsExist
           /\ \A b \in Batch : batchLock[b] = r => batchStatus[b] \notin NoRow
           /\ pc[r] # "idle" =>
                /\ job[r].batch \in Batch /\ SubjectOf[job[r].batch] \in Subject
                /\ job[r].claimed \in SUBSET File /\ job[r].evicted \in SUBSET File
                /\ job[r].limited \in BOOLEAN /\ job[r].at \in Nat /\ job[r].at <= now
                /\ job[r] \in AdmissionLocals
<1>1. /\ r \in Actor /\ r \notin Handler /\ r \notin Sweep /\ r \notin Purge
  BY ActorsApart
<1>2. /\ r # Nobody /\ RowTypes /\ StateTypes /\ AdmissionOK(r) /\ AdmissionLocks(r)
  BY <1>1, InvOf DEF ActorOK
<1>3. LockedRowsExist
  BY DEF Inv
<1>4. \A b \in Batch : batchLock[b] = r => batchStatus[b] \notin NoRow
  BY <1>2, <1>3 DEF LockedRowsExist
<1>5. pc[r] # "idle" =>
                /\ job[r].batch \in Batch /\ SubjectOf[job[r].batch] \in Subject
                /\ job[r].claimed \in SUBSET File /\ job[r].evicted \in SUBSET File
                /\ job[r].limited \in BOOLEAN /\ job[r].at \in Nat /\ job[r].at <= now
                /\ job[r] \in AdmissionLocals
  BY <1>2, Constants DEF AdmissionOK, AdmissionLocals
<1> QED
  BY <1>1, <1>2, <1>3, <1>4, <1>5

LEMMA LockOwnerStep ==
    ASSUME Inv, NEW r \in Request, LockOwner(r)
    PROVE  Inv' /\ [Atomic!Next]_(Atomic!vars)
<1>0. /\ r \in Actor /\ r # Nobody /\ RowTypes /\ StateTypes /\ AdmissionOK(r)
      /\ AdmissionLocks(r)
      /\ \A b \in Batch : batchLock[b] = r => batchStatus[b] \notin NoRow
  BY RequestFacts
<1>1. /\ pc[r] = "lockOwner" /\ pc' = [pc EXCEPT ![r] = "lockOwnBatch"]
      /\ UNCHANGED <<now, rows, job, batchLock, drafts>>
  BY DEF LockOwner, Goto
<1> DEFINE s == SubjectOf[job[r].batch]
<1>2. /\ s \in Subject /\ job[r].limited \in BOOLEAN
      /\ job[r].limited => ownerLock[s] = Nobody
      /\ ownerLock' = IF job[r].limited THEN [ownerLock EXCEPT ![s] = r] ELSE ownerLock
  BY <1>1, RequestFacts DEF LockOwner
<1> HIDE DEF s
<1>3. \A y \in Actor \ {r} : Untouched(y)
  BY <1>0, <1>1, <1>2, Constants DEF StateTypes, Untouched, drafts
<1>4. StateTypes'
  BY <1>0, <1>1, <1>2 DEF StateTypes, drafts
<1>5. pc'[r] = "lockOwnBatch" /\ job'[r] = job[r]
  BY <1>0, <1>1 DEF StateTypes
<1>6. AdmissionOK(r)'
  BY <1>0, <1>1, <1>5 DEF AdmissionOK, NothingDrafted, rows, drafts
<1>7. AdmissionLocks(r)'
  <2>1. job[r].limited => ownerLock'[s] = r
    BY <1>0, <1>2 DEF StateTypes
  <2>2. \A b \in Batch : batchLock[b] # r
    BY <1>0, <1>1 DEF AdmissionLocks
  <2> QED
    BY <1>1, <1>5, <2>1, <2>2 DEF AdmissionLocks, s
<1> QED
  BY <1>0, <1>1, <1>3, <1>4, <1>5, <1>6, <1>7, HiddenAdmissionStep DEF LocksExisting, rows

LEMMA LockOwnBatchStep ==
    ASSUME Inv, NEW r \in Request, LockOwnBatch(r)
    PROVE  Inv' /\ [Atomic!Next]_(Atomic!vars)
<1>0. /\ r \in Actor /\ r # Nobody /\ RowTypes /\ StateTypes /\ AdmissionOK(r)
      /\ AdmissionLocks(r)
  BY RequestFacts
<1>1. /\ pc[r] = "lockOwnBatch" /\ pc' = [pc EXCEPT ![r] = "claim"]
      /\ UNCHANGED <<now, rows, job, ownerLock, drafts>>
  BY DEF LockOwnBatch, Goto
<1> DEFINE c == job[r].batch
<1>2. /\ c \in Batch /\ batchStatus[c] # "NONE"
      /\ \/ /\ batchStatus[c] \notin NoRow /\ batchLock[c] = Nobody
            /\ batchLock' = [batchLock EXCEPT ![c] = r]
         \/ batchStatus[c] \in NoRow /\ batchLock' = batchLock
  BY <1>0, <1>1, RequestFacts
  DEF LockOwnBatch, LockBatch, TakeBatchLock, SkipMissingBatch, AdmissionOK
<1> HIDE DEF c
<1>3. \A y \in Actor \ {r} : Untouched(y)
  BY <1>0, <1>1, <1>2, Constants DEF StateTypes, Untouched, drafts
<1>4. StateTypes'
  BY <1>0, <1>1, <1>2 DEF StateTypes, drafts
<1>5. pc'[r] = "claim" /\ job'[r] = job[r]
  BY <1>0, <1>1 DEF StateTypes
<1>6. \A b \in Batch : batchLock[b] # r
  BY <1>0, <1>1 DEF AdmissionLocks
<1>7. AdmissionOK(r)'
  <2>1. batchLock'[c] = r \/ batchStatus[c] = "PURGED"
    BY <1>0, <1>2 DEF StateTypes, NoRow
  <2> QED
    BY <1>0, <1>1, <1>5, <2>1 DEF AdmissionOK, NothingDrafted, Secured, rows, drafts, c
<1>8. AdmissionLocks(r)'
  <2>1. \A b \in Batch : batchLock'[b] = r => b = c
    BY <1>0, <1>2, <1>6 DEF StateTypes
  <2> QED
    BY <1>0, <1>1, <1>5, <2>1 DEF AdmissionLocks, c
<1>9. LocksExisting(r)
  BY <1>0, <1>1, <1>2, <1>6 DEF LocksExisting, StateTypes, rows
<1> QED
  BY <1>0, <1>1, <1>3, <1>4, <1>5, <1>7, <1>8, <1>9, HiddenAdmissionStep DEF rows

LEMMA ClaimReadyFilesStep ==
    ASSUME Inv, NEW r \in Request, ClaimReadyFiles(r)
    PROVE  Inv' /\ [Atomic!Next]_(Atomic!vars)
<1>0. /\ r \in Actor /\ r # Nobody /\ RowTypes /\ StateTypes /\ AdmissionOK(r)
      /\ AdmissionLocks(r)
      /\ \A b \in Batch : batchLock[b] = r => batchStatus[b] \notin NoRow
  BY RequestFacts
<1> DEFINE c == job[r].batch
           ready == {f \in FilesOf(c) : fileStatus[f] = "READY"}
<1>1. /\ pc[r] = "claim" /\ ready # {}
      /\ job' = [job EXCEPT ![r] = [job[r] EXCEPT !.claimed = ready]]
      /\ UNCHANGED <<now, rows, locks, drafts>>
      /\ \/ job[r].limited /\ pc' = [pc EXCEPT ![r] = "lockOwnersBatches"]
         \/ pc' = [pc EXCEPT ![r] = "write"]
  BY DEF ClaimReadyFiles, Goto
<1>2. /\ c \in Batch /\ job[r] \in AdmissionLocals /\ job[r].evicted = {}
      /\ job[r].at <= now /\ batchStatus[c] # "NONE" /\ Secured(r, c)
  BY <1>0, <1>1 DEF AdmissionOK, AdmissionLocals
<1>3. ready \in SUBSET File /\ \A f \in ready : BatchOf[f] = c /\ fileStatus[f] = "READY"
  BY <1>2, Constants
<1> HIDE DEF ready, c
<1>4. \A y \in Actor \ {r} : Untouched(y)
  BY <1>0, <1>1 DEF StateTypes, Untouched, locks, drafts
<1>5. StateTypes'
  BY <1>0, <1>1 DEF StateTypes, locks, drafts
<1>6. /\ pc'[r] \in {"lockOwnersBatches", "write"}
      /\ pc'[r] = "lockOwnersBatches" => job[r].limited
      /\ job'[r] = [job[r] EXCEPT !.claimed = ready]
  BY <1>0, <1>1 DEF StateTypes
<1>7. /\ job'[r] \in AdmissionLocals /\ job'[r].claimed = ready
      /\ job'[r].batch = c /\ job'[r].at = job[r].at /\ job'[r].evicted = {}
      /\ job'[r].limited = job[r].limited
  BY <1>2, <1>3, <1>6 DEF AdmissionLocals, c
<1>8. batchLock[c] = r
  <2>1. PICK f \in ready : TRUE
    BY <1>1
  <2>2. f \in File /\ BatchOf[f] = c /\ fileStatus[f] = "READY"
    BY <1>3
  <2>3. batchStatus[c] # "PURGED"
    BY <1>0, <2>2 DEF RowTypes, NoRow
  <2> QED
    BY <1>2, <2>3 DEF Secured
<1>9. Claimed(r)' /\ Evicted(r)'
  BY <1>1, <1>3, <1>7, <1>8 DEF Claimed, Evicted, locks, rows
<1>10. AdmissionOK(r)'
  BY <1>0, <1>1, <1>2, <1>6, <1>7, <1>9 DEF AdmissionOK, NothingDrafted, rows, drafts
<1>11. AdmissionLocks(r)'
  BY <1>0, <1>1, <1>6, <1>7 DEF AdmissionLocks, locks, c
<1> QED
  BY <1>0, <1>1, <1>4, <1>5, <1>6, <1>7, <1>10, <1>11, HiddenAdmissionStep
  DEF LocksExisting, locks, rows, c

LEMMA LockNextOwnersBatchStep ==
    ASSUME Inv, NEW r \in Request, NEW b \in Batch, LockNextOwnersBatch(r, b)
    PROVE  Inv' /\ [Atomic!Next]_(Atomic!vars)
<1>0. /\ r \in Actor /\ r # Nobody /\ RowTypes /\ StateTypes /\ AdmissionOK(r)
      /\ AdmissionLocks(r)
      /\ \A c \in Batch : batchLock[c] = r => batchStatus[c] \notin NoRow
  BY RequestFacts
<1>1. /\ pc[r] = "lockOwnersBatches" /\ batchLock[b] = Nobody
      /\ SubjectOf[b] = SubjectOf[job[r].batch] /\ batchStatus[b] \notin NoRow
      /\ batchLock' = [batchLock EXCEPT ![b] = r]
      /\ UNCHANGED <<now, rows, pc, job, ownerLock, drafts>>
  BY DEF LockNextOwnersBatch, TakeBatchLock, OwnersBatches
<1>2. \A y \in Actor \ {r} : Untouched(y)
  BY <1>0, <1>1, Constants DEF StateTypes, Untouched, drafts
<1>3. StateTypes'
  BY <1>0, <1>1 DEF StateTypes, drafts
<1>4. \A c \in Batch : batchLock'[c] = r <=> c = b \/ batchLock[c] = r
  BY <1>0, <1>1 DEF StateTypes
<1>5. AdmissionOK(r)'
  <2>1. Claimed(r)'
    <3>1. job[r].batch \in Batch
      BY <1>1, RequestFacts
    <3> QED
      BY <1>0, <1>1, <1>4, <3>1 DEF AdmissionOK, Claimed, rows
  <2> QED
    BY <1>0, <1>1, <2>1 DEF AdmissionOK, NothingDrafted, rows, drafts
<1>6. AdmissionLocks(r)'
  BY <1>0, <1>1, <1>4 DEF AdmissionLocks
<1>7. LocksExisting(r)
  BY <1>0, <1>1, <1>4 DEF LocksExisting, rows
<1> QED
  BY <1>0, <1>1, <1>2, <1>3, <1>5, <1>6, <1>7, HiddenAdmissionStep DEF rows

LEMMA ChooseEvictedStep ==
    ASSUME Inv, NEW r \in Request, ChooseEvicted(r)
    PROVE  Inv' /\ [Atomic!Next]_(Atomic!vars)
<1>0. /\ r \in Actor /\ r # Nobody /\ RowTypes /\ StateTypes /\ AdmissionOK(r)
      /\ AdmissionLocks(r)
      /\ \A c \in Batch : batchLock[c] = r => batchStatus[c] \notin NoRow
  BY RequestFacts
<1>1. PICK evicted \in SUBSET {f \in File : /\ BatchOf[f] \in OwnersBatches(r)
                                            /\ fileStatus[f] = "COMPLETED"
                                            /\ fileExpires[f] > job[r].at} :
        job' = [job EXCEPT ![r] = [job[r] EXCEPT !.evicted = evicted]]
  BY DEF ChooseEvicted
<1>2. /\ pc[r] = "lockOwnersBatches" /\ pc' = [pc EXCEPT ![r] = "write"]
      /\ \A b \in OwnersBatches(r) : batchLock[b] = r
      /\ UNCHANGED <<now, rows, locks, drafts>>
  BY DEF ChooseEvicted, Goto
<1>3. job[r] \in AdmissionLocals /\ Claimed(r)
  BY <1>0, <1>2 DEF AdmissionOK
<1>4. \A y \in Actor \ {r} : Untouched(y)
  BY <1>0, <1>1, <1>2 DEF StateTypes, Untouched, locks, drafts
<1>5. StateTypes'
  BY <1>0, <1>1, <1>2 DEF StateTypes, locks, drafts
<1>6. pc'[r] = "write" /\ job'[r] = [job[r] EXCEPT !.evicted = evicted]
  BY <1>0, <1>1, <1>2 DEF StateTypes
<1>7. /\ job'[r] \in AdmissionLocals /\ job'[r].evicted = evicted
      /\ job'[r].batch = job[r].batch /\ job'[r].at = job[r].at
      /\ job'[r].claimed = job[r].claimed /\ job'[r].limited = job[r].limited
  BY <1>3, <1>6 DEF AdmissionLocals
<1>8. Claimed(r)' /\ Evicted(r)'
  <2>1. \A f \in evicted : /\ batchLock[BatchOf[f]] = r
                           /\ SubjectOf[BatchOf[f]] = SubjectOf[job[r].batch]
                           /\ fileStatus[f] = "COMPLETED" /\ fileExpires[f] > job[r].at
    BY <1>2 DEF OwnersBatches
  <2> QED
    BY <1>2, <1>3, <1>7, <2>1 DEF Claimed, Evicted, locks, rows
<1>9. AdmissionOK(r)'
  BY <1>0, <1>2, <1>6, <1>7, <1>8 DEF AdmissionOK, NothingDrafted, rows, drafts
<1>10. AdmissionLocks(r)'
  BY <1>0, <1>2, <1>6, <1>7 DEF AdmissionLocks, locks
<1> QED
  BY <1>0, <1>2, <1>4, <1>5, <1>6, <1>7, <1>9, <1>10, HiddenAdmissionStep
  DEF LocksExisting, locks, rows

LEMMA WriteAdmissionStep ==
    ASSUME Inv, NEW r \in Request, WriteAdmission(r)
    PROVE  Inv' /\ [Atomic!Next]_(Atomic!vars)
<1>0. /\ r \in Actor /\ r # Nobody /\ RowTypes /\ StateTypes /\ AdmissionOK(r)
      /\ AdmissionLocks(r)
      /\ \A c \in Batch : batchLock[c] = r => batchStatus[c] \notin NoRow
  BY RequestFacts
<1> DEFINE b == job[r].batch
           files == AdmittedFiles(r)
           view == Over(files, fileStatus)
           batches == [c \in {b} \cup {BatchOf[f] : f \in job[r].evicted} |->
                          IF c = b THEN "QUEUED"
                          ELSE RollUp(batchStatus[c], {view[f] : f \in FilesOf(c)})]
<1>1. PICK retention \in Retentions :
        /\ now + retention + PurgeGrace <= MaxTime
        /\ job' = [job EXCEPT ![r] = [job[r] EXCEPT !.wrote = now, !.expires = now + retention]]
  BY DEF WriteAdmission
<1>2. /\ pc[r] = "write" /\ batchStatus[b] \in AdmittableStatuses
      /\ draftFiles' = [draftFiles EXCEPT ![r] = files]
      /\ draftBatches' = [draftBatches EXCEPT ![r] = batches]
      /\ pc' = [pc EXCEPT ![r] = "commit"]
      /\ UNCHANGED <<now, rows, locks>>
  BY DEF WriteAdmission, AdmittedFiles, Goto
<1>3. /\ job[r] \in AdmissionLocals /\ Claimed(r) /\ Evicted(r) /\ job[r].at <= now
      /\ batchStatus[b] # "NONE"
  BY <1>0, <1>2 DEF AdmissionOK
<1>4. now \in Nat /\ retention \in Nat /\ MaxTime \in Nat
  BY <1>0, TransactionsAssumption DEF RowTypes, TransactionsAssumption
<1> HIDE DEF batches, files
<1>5. \A y \in Actor \ {r} : Untouched(y)
  BY <1>0, <1>1, <1>2 DEF StateTypes, Untouched, locks
<1>6. StateTypes'
  BY <1>0, <1>1, <1>2 DEF StateTypes, locks
<1>7. /\ pc'[r] = "commit" /\ draftFiles'[r] = files /\ draftBatches'[r] = batches
      /\ job'[r] = [job[r] EXCEPT !.wrote = now, !.expires = now + retention]
  BY <1>0, <1>1, <1>2 DEF StateTypes
<1>8. /\ job'[r] \in AdmissionLocals /\ job'[r].evicted = job[r].evicted
      /\ job'[r].wrote = now /\ job'[r].expires = now + retention
      /\ job'[r].batch = b /\ job'[r].at = job[r].at
      /\ job'[r].claimed = job[r].claimed /\ job'[r].limited = job[r].limited
  <2> DEFINE expires == now + retention
  <2>1. expires \in Nat
    BY <1>4
  <2>2. job'[r] = [job[r] EXCEPT !.wrote = now, !.expires = expires]
    BY <1>7
  <2> HIDE DEF expires
  <2>3. job[r] \in AdmissionLocals /\ now \in Nat
    BY <1>3, <1>4
  <2>4. /\ job'[r] \in AdmissionLocals
        /\ job'[r].wrote = now /\ job'[r].expires = expires
    BY <2>1, <2>2, <2>3 DEF AdmissionLocals
  <2>5. /\ job'[r].evicted = job[r].evicted /\ job'[r].batch = b /\ job'[r].at = job[r].at
        /\ job'[r].claimed = job[r].claimed /\ job'[r].limited = job[r].limited
    BY <2>2, <2>3 DEF AdmissionLocals
  <2> QED
    BY <2>4, <2>5 DEF expires
<1>9. Claimed(r)' /\ Evicted(r)'
  BY <1>2, <1>3, <1>8 DEF Claimed, Evicted, locks, rows
<1>10. AdmittedFiles(r)' = files
  BY <1>8 DEF AdmittedFiles, files
<1>11. AdmittedBatches(r)' = batches
  <2>1. \A c \in Batch : Seen(r, c)' = {view[f] : f \in FilesOf(c)}
    BY <1>2, <1>7 DEF Seen, FileView, rows
  <2>2. \A f \in job[r].evicted : BatchOf[f] \in Batch
    BY <1>3, Constants DEF AdmissionLocals
  <2>3. \A c \in {b} \cup {BatchOf[f] : f \in job[r].evicted} :
          (IF c = b THEN "QUEUED" ELSE RollUp(batchStatus'[c], Seen(r, c)'))
            = (IF c = b THEN "QUEUED"
               ELSE RollUp(batchStatus[c], {view[f] : f \in FilesOf(c)}))
    BY <1>2, <2>1, <2>2 DEF rows
  <2> QED
    BY <1>8, <2>3 DEF AdmittedBatches, batches
<1>12. Written(r)'
  <2>1. now \in job[r].at .. now
    BY <1>3, <1>4 DEF AdmissionLocals
  <2> QED
    BY <1>1, <1>2, <1>7, <1>8, <1>10, <1>11, <2>1 DEF Written, rows
<1>13. AdmissionOK(r)'
  BY <1>2, <1>3, <1>7, <1>8, <1>9, <1>12 DEF AdmissionOK, rows
<1>14. AdmissionLocks(r)'
  BY <1>0, <1>2, <1>7, <1>8 DEF AdmissionLocks, locks
<1> QED
  BY <1>0, <1>2, <1>5, <1>6, <1>7, <1>8, <1>13, <1>14, HiddenAdmissionStep
  DEF LocksExisting, locks, rows


-----------------------------------------------------------------------------
(* Commits.  Nothing goes back in a step of the atomic specification.      *)
LEMMA NeverBack == ASSUME AtomicInv, [Atomic!Next]_(Atomic!vars) PROVE Monotone
<1>0. RowTypes /\ Atomic!TypeOK
  BY AtomicTypes DEF AtomicInv
<1>1. /\ now \in Int /\ \A f \in File : attempt[f] \in Int
      /\ Atomic!NoRow = NoRow /\ Atomic!BatchStatuses = BatchStatuses
  BY <1>0, TransactionsAssumption
  DEF RowTypes, TransactionsAssumption, NoRow, Atomic!NoRow, BatchStatuses, OpenBatchStatuses,
      Atomic!BatchStatuses, Atomic!OpenBatchStatuses
<1> DEFINE BatchStays == \A b \in Batch :
              /\ batchStatus[b] # "NONE" => batchStatus'[b] # "NONE"
              /\ batchStatus[b] = "PURGED" => batchStatus'[b] = "PURGED"
           FileStays == \A f \in File : fileStatus[f] = "PURGED" => fileStatus'[f] = "PURGED"
<1>2. ASSUME NEW bs, NEW fs
      PROVE  /\ Atomic!RolledUp(bs, fs) \in [Batch -> BatchStatuses \cup NoRow]
             /\ \A b \in Batch, s \in NoRow :
                    Atomic!RolledUp(bs, fs)[b] = s <=> batchStatus[b] = s
  BY <1>0, <1>1, AtomicAssumption, Atomic!RolledUpTyped
  DEF RowTypes, Atomic!RolledUpTyped
<1>3. ASSUME NEW b \in Batch, Atomic!CreateBatch(b) PROVE Monotone
  BY <1>0, <1>1, <1>3 DEF Monotone, RowTypes, NoRow, Atomic!CreateBatch, Atomic!FilesOf
<1>4. ASSUME NEW f \in File, Atomic!VerifyUpload(f) PROVE Monotone
  BY <1>0, <1>1, <1>4 DEF Monotone, RowTypes, Atomic!VerifyUpload
<1>5. ASSUME UNCHANGED <<now, rows>> PROVE Monotone
  BY <1>1, <1>5 DEF Monotone, rows
<1>6. ASSUME NEW r \in Request, Atomic!AdmitReadyFiles(r) PROVE Monotone
  <2>1. PICK claimed \in SUBSET Atomic!ReadyFiles(Admitting[r]),
             evicted \in SUBSET Atomic!Evictable(r),
             t \in CheckedAt[r] .. now, retention \in Retentions :
               Atomic!Admit(r, claimed, evicted, t, retention)
    BY <1>6 DEF Atomic!AdmitReadyFiles
  <2> DEFINE b == Admitting[r]
             fs == Atomic!AfterAdmission(claimed, evicted)
             rolled == Atomic!RolledUp({BatchOf[f] : f \in evicted}, fs)
  <2>2. /\ batchStatus[b] \in Atomic!AdmittableStatuses
        /\ fileStatus' = fs /\ batchStatus' = [rolled EXCEPT ![b] = "QUEUED"]
        /\ requested' = requested \cup claimed /\ UNCHANGED <<now, attempt>>
    BY <2>1 DEF Atomic!Admit
  <2>3. FileStays
    BY <2>1, <2>2 DEF Atomic!AfterAdmission, Atomic!ReadyFiles, Atomic!Evictable
  <2>4. BatchStays
    <3>1. /\ rolled \in [Batch -> BatchStatuses \cup NoRow]
          /\ \A c \in Batch, s \in NoRow : rolled[c] = s <=> batchStatus[c] = s
      BY <1>2
    <3> HIDE DEF rolled, b
    <3>2. \A c \in Batch : batchStatus'[c] = IF c = b THEN "QUEUED" ELSE rolled[c]
      BY <2>2, <3>1
    <3> QED
      BY <2>2, <3>1, <3>2 DEF NoRow, Atomic!AdmittableStatuses
  <2> QED
    BY <1>1, <2>2, <2>3, <2>4 DEF Monotone
<1>7. ASSUME NEW f \in File, NEW a \in Attempts, Atomic!ApplyStarted(f, a) PROVE Monotone
  <2>1. a \in Int
    BY DEF Attempts
  <2> QED
    BY <1>0, <1>1, <1>7, <2>1
    DEF Monotone, RowTypes, Atomic!ApplyStarted, Atomic!AcceptsStarted,
        Atomic!EventAcceptingStatuses
<1>8. ASSUME NEW f \in File, NEW a \in Attempts, Atomic!MarkBatchProcessing(f, a)
      PROVE  Monotone
  BY <1>0, <1>1, <1>8 DEF Monotone, RowTypes, Atomic!MarkBatchProcessing
<1>9. ASSUME NEW f \in File, NEW a \in Attempts, NEW o \in {"COMPLETED", "FAILED"},
             Atomic!ApplyResult(f, a, o)
      PROVE  Monotone
  <2>1. /\ fileStatus' = [fileStatus EXCEPT ![f] = o]
        /\ fileStatus[f] \in Atomic!EventAcceptingStatuses
        /\ batchStatus' = Atomic!RolledUp({BatchOf[f]}, [fileStatus EXCEPT ![f] = o])
        /\ UNCHANGED <<now, attempt, requested>>
    BY <1>9 DEF Atomic!ApplyResult, Atomic!AcceptsResult
  <2>2. FileStays
    BY <1>0, <2>1 DEF RowTypes, Atomic!EventAcceptingStatuses
  <2>3. BatchStays
    BY <1>2, <2>1 DEF NoRow
  <2>4. now' = now /\ attempt' = attempt /\ requested' = requested
    BY <2>1
  <2> QED
    BY <1>1, <2>2, <2>3, <2>4 DEF Monotone
<1>10. ASSUME NEW b \in Batch, Atomic!ExpireOverdueFiles(b) PROVE Monotone
  <2>1. PICK cutoff \in 0 .. now :
          LET overdue == Atomic!OverdueFiles(b, cutoff)
              fs == [f \in File |-> IF f \in overdue THEN "EXPIRED" ELSE fileStatus[f]]
          IN  /\ fileStatus' = fs /\ batchStatus' = Atomic!RolledUp({b}, fs)
              /\ UNCHANGED <<now, attempt, requested>>
    BY <1>10 DEF Atomic!ExpireOverdueFiles
  <2>2. FileStays
    BY <2>1 DEF Atomic!OverdueFiles, Atomic!LiveFileStatuses
  <2>3. BatchStays
    BY <1>2, <2>1 DEF NoRow
  <2> QED
    BY <1>1, <2>1, <2>2, <2>3 DEF Monotone
<1>11. ASSUME Atomic!PurgeDeadRows PROVE Monotone
  BY <1>0, <1>1, <1>11 DEF Monotone, RowTypes, Atomic!PurgeDeadRows
<1>12. ASSUME Atomic!Tick PROVE Monotone
  BY <1>1, <1>12 DEF Monotone, Atomic!Tick, Atomic!rows
<1>13. CASE UNCHANGED Atomic!vars
  BY <1>5, <1>13 DEF Atomic!vars, Atomic!rows, rows
<1>14. ASSUME NEW r \in Request, NEW b \in Batch,
              Atomic!CheckAdmittable(r, b) \/ Atomic!LeaveUnadmitted(r)
       PROVE  Monotone
  BY <1>5, <1>14 DEF Atomic!CheckAdmittable, Atomic!LeaveUnadmitted, Atomic!rows, rows
<1>15. ASSUME NEW r \in Request, Atomic!LeaveUnadmitted(r) PROVE Monotone
  BY <1>5, <1>15 DEF Atomic!LeaveUnadmitted, Atomic!rows, rows
<1>16. ASSUME NEW f \in File, NEW a \in Attempts, Atomic!LoseStartedHandler(f, a)
       PROVE  Monotone
  BY <1>5, <1>16 DEF Atomic!LoseStartedHandler, Atomic!rows, rows
<1> HIDE DEF BatchStays, FileStays
<1> QED
  BY <1>3, <1>4, <1>6, <1>7, <1>8, <1>9, <1>10, <1>11, <1>12, <1>13, <1>14, <1>15, <1>16
  DEF Atomic!Next, Attempts, Atomic!Attempts

(* Rollback and commit leave nothing behind.                               *)
LEMMA Released ==
    ASSUME StateTypes, NEW x \in Actor, NEW label, NEW locals, Release(x, label, locals)
    PROVE  /\ StateTypes' /\ pc'[x] = label /\ job'[x] = locals /\ NothingDrafted(x)'
           /\ \A b \in Batch : batchLock'[b] # x
           /\ \A s \in Subject : ownerLock'[s] # x
           /\ \A y \in Actor \ {x} : Untouched(y)
<1>1. Nobody # x /\ Nobody \notin Actor
  BY Constants
<1>2. StateTypes'
  BY DEF StateTypes, Release, Goto
<1>3. /\ pc'[x] = label /\ job'[x] = locals
      /\ draftFiles'[x] = Nothing /\ draftBatches'[x] = Nothing
  BY DEF StateTypes, Release, Goto
<1>4. /\ \A b \in Batch : batchLock'[b] # x
      /\ \A s \in Subject : ownerLock'[s] # x
  BY <1>1 DEF Release
<1>5. ASSUME NEW y \in Actor \ {x} PROVE Untouched(y)
  BY <1>1 DEF StateTypes, Release, Goto, Untouched
<1> QED
  BY <1>2, <1>3, <1>4, <1>5 DEF NothingDrafted

LEMMA IdleIsOK ==
    ASSUME NEW x \in Actor, pc'[x] = "idle", NothingDrafted(x)',
           \A b \in Batch : batchLock'[b] # x, \A s \in Subject : ownerLock'[s] # x
    PROVE  ActorOK(x)' /\ LocksExisting(x) /\ NoNewStart(x)
<1>1. AdmissionOK(x)' /\ AdmissionLocks(x)'
  BY DEF AdmissionOK, AdmissionLocks
<1>2. EventOK(x)' /\ EventLocks(x)'
  BY DEF EventOK, EventLocks, RollingUp, NothingDrafted
<1>3. SweepOK(x)' /\ SweepLocks(x)'
  BY DEF SweepOK, SweepLocks, RollingUp, NothingDrafted
<1>4. PurgeOK(x)' /\ PurgeLocks(x)'
  BY DEF PurgeOK, PurgeLocks
<1> QED
  BY <1>1, <1>2, <1>3, <1>4 DEF ActorOK, LocksExisting, NoNewStart

(* A transaction that drafted only what it locked spares the others.       *)
LEMMA CommitSpares ==
    ASSUME RowTypes, NEW x \in Actor, \A y \in Actor \ {x} : Untouched(y),
           fileStatus' = FileView(x), batchStatus' = BatchView(x), attempt' = attempt,
           \A b \in Batch : b \in DOMAIN draftBatches[x] => batchLock[b] = x,
           \A f \in File : f \in DOMAIN draftFiles[x] => batchLock[BatchOf[f]] = x,
           \A f \in File : batchLock[BatchOf[f]] # x => fileExpires'[f] = fileExpires[f]
    PROVE  SpareOthers(x)
<1> SUFFICES ASSUME NEW y \in Actor \ {x}, NEW b \in Batch, batchLock[b] = y
             PROVE  /\ batchStatus'[b] = batchStatus[b]
                    /\ \A f \in FilesOf(b) : /\ fileExpires'[f] = fileExpires[f]
                                             /\ fileStatus'[f] = fileStatus[f]
                                             /\ attempt'[f] = attempt[f]
  BY DEF SpareOthers, Spared, Respected
<1>1. batchStatus'[b] = batchStatus[b]
  BY DEF BatchView, Over, RowTypes
<1>2. ASSUME NEW f \in FilesOf(b)
      PROVE  fileExpires'[f] = fileExpires[f] /\ fileStatus'[f] = fileStatus[f]
  BY Constants, ViewType
<1> QED
  BY <1>1, <1>2

(* An actor that ends its transaction, and what the atomic specification   *)
(* must then allow.                                                        *)
LEMMA EndKeepsInv ==
    ASSUME Inv, NEW x \in Actor, Release(x, "idle", Nothing), SpareOthers(x),
           [Atomic!Next]_(Atomic!vars),
           requested' \ requested \subseteq {f \in File : batchStatus'[BatchOf[f]] # "NONE"}
    PROVE  Inv'
<1>1. StateTypes
  BY InvOf
<1>2. /\ StateTypes' /\ ActorOK(x)' /\ LocksExisting(x) /\ NoNewStart(x)
  <2> HIDE DEF StateTypes
  <2>1. /\ StateTypes' /\ pc'[x] = "idle" /\ NothingDrafted(x)'
        /\ \A b \in Batch : batchLock'[b] # x
        /\ \A s \in Subject : ownerLock'[s] # x
    BY <1>1, Released
  <2> QED
    BY <2>1, IdleIsOK
<1>3. Monotone
  BY NeverBack DEF Inv
<1>4. StartsApart'
  BY <1>2, StartsStayApart DEF Inv
<1> QED
  BY <1>2, <1>3, <1>4, StepKeepsInv

LEMMA AbortAdmissionStep ==
    ASSUME Inv, NEW r \in Request, AbortAdmission(r)
    PROVE  Inv' /\ [Atomic!Next]_(Atomic!vars)
<1>0. /\ r \in Actor /\ RowTypes /\ StateTypes
      /\ pc[r] # "idle" /\ job[r].batch \in Batch
      /\ Release(r, "idle", Nothing) /\ UNCHANGED <<now, rows>>
  BY RequestFacts DEF AbortAdmission
<1>1. pc'[r] = "idle" /\ \A y \in Actor \ {r} : Untouched(y)
  BY <1>0, Released
<1>2. SpareOthers(r)
  BY <1>0, <1>1 DEF SpareOthers, Spared, Respected, rows
<1>3. Atomic!LeaveUnadmitted(r)
  <2>1. /\ \A q \in Request \ {r} : SameRequest(q)
        /\ UNCHANGED Starting
    <3>1. r \notin Handler
      BY ActorsApart
    <3> QED
      BY <1>1, <3>1, UntouchedSame, SameStarts
  <2>2. /\ Admitting' = [Admitting EXCEPT ![r] = NoBatch]
        /\ CheckedAt' = [CheckedAt EXCEPT ![r] = 0]
    BY <1>1, <2>1, OneRequestMoves
  <2>3. Admitting[r] # NoBatch
    BY <1>0, Constants DEF Admitting
  <2> QED
    BY <1>0, <2>1, <2>2, <2>3 DEF Atomic!LeaveUnadmitted, Atomic!rows, rows
<1>4. Atomic!Next
  BY <1>3 DEF Atomic!Next
<1> QED
  BY <1>0, <1>2, <1>4, EndKeepsInv DEF rows

LEMMA CommitAdmissionStep ==
    ASSUME Inv, NEW r \in Request, CommitAdmission(r)
    PROVE  Inv' /\ [Atomic!Next]_(Atomic!vars)
<1>0. /\ r \in Actor /\ r \notin Handler /\ RowTypes /\ StateTypes /\ AdmissionOK(r)
  BY RequestFacts
<1> DEFINE claimed == job[r].claimed
           evicted == job[r].evicted
           b == job[r].batch
<1>1. /\ pc[r] = "commit" /\ fileStatus' = FileView(r) /\ batchStatus' = BatchView(r)
      /\ fileExpires' = [f \in File |-> IF f \in claimed THEN job[r].expires
                                        ELSE IF f \in evicted THEN job[r].wrote
                                        ELSE fileExpires[f]]
      /\ batchExpires' = [batchExpires EXCEPT ![b] = job[r].expires]
      /\ requested' = requested \cup claimed
      /\ Release(r, "idle", Nothing)
      /\ UNCHANGED <<now, attempt, output>>
  BY DEF CommitAdmission
<1>2. /\ b \in Batch /\ claimed \in SUBSET File /\ evicted \in SUBSET File
      /\ job[r].at \in Nat /\ job[r].at <= now
      /\ Claimed(r) /\ Evicted(r) /\ Written(r)
  BY <1>0, <1>1, RequestFacts DEF AdmissionOK
<1>3. /\ claimed # {} /\ batchLock[b] = r
      /\ \A f \in claimed : BatchOf[f] = b /\ fileStatus[f] = "READY"
      /\ \A f \in evicted : /\ batchLock[BatchOf[f]] = r /\ BatchOf[f] \in Batch
                            /\ SubjectOf[BatchOf[f]] = SubjectOf[b]
                            /\ fileStatus[f] = "COMPLETED" /\ fileExpires[f] > job[r].at
  BY <1>2, Constants DEF Claimed, Evicted
<1>4. /\ draftFiles[r] = AdmittedFiles(r) /\ draftBatches[r] = AdmittedBatches(r)
      /\ batchStatus[b] \in AdmittableStatuses
      /\ job[r].wrote \in job[r].at .. now
  BY <1>2 DEF Written
<1>5. PICK retention \in Retentions : /\ job[r].expires = job[r].wrote + retention
                                      /\ job[r].expires + PurgeGrace <= MaxTime
  BY <1>2 DEF Written
<1>6. pc'[r] = "idle" /\ \A y \in Actor \ {r} : Untouched(y)
  BY <1>0, <1>1, Released
<1> DEFINE fs == Atomic!AfterAdmission(claimed, evicted)
<1>7. fileStatus' = fs
  <2>1. DOMAIN draftFiles[r] = claimed \cup evicted
    BY <1>4 DEF AdmittedFiles
  <2>2. \A f \in claimed \cup evicted :
          draftFiles[r][f] = IF f \in claimed THEN "QUEUED" ELSE "EXPIRED"
    BY <1>4 DEF AdmittedFiles
  <2>3. \A f \in File : FileView(r)[f] = fs[f]
    BY <1>0, <2>1, <2>2, ViewType DEF Atomic!AfterAdmission
  <2>4. FileView(r) = [f \in File |-> FileView(r)[f]]
    BY <1>0 DEF FileView, Over, RowTypes
  <2>5. fs = [f \in File |-> fs[f]]
    BY DEF Atomic!AfterAdmission
  <2> HIDE DEF fs
  <2> QED
    BY <1>1, <2>3, <2>4, <2>5
<1> DEFINE evictedFrom == {BatchOf[f] : f \in evicted}
           rolled == Atomic!RolledUp(evictedFrom, fs)
<1>8. DOMAIN draftBatches[r] = {b} \cup evictedFrom
  BY <1>4 DEF AdmittedBatches
<1>9. batchStatus' = [rolled EXCEPT ![b] = "QUEUED"]
  <2>1. ASSUME NEW c \in Batch
        PROVE  /\ Seen(r, c) = Atomic!Statuses(fs, c)
               /\ BatchView(r)[c] = IF c = b THEN "QUEUED" ELSE rolled[c]
    <3>1. Seen(r, c) = Atomic!Statuses(fs, c)
      BY <1>1, <1>7 DEF Seen, Atomic!Statuses, FilesOf, Atomic!FilesOf
    <3>2. BatchView(r)[c] = IF c \in DOMAIN draftBatches[r] THEN draftBatches[r][c]
                                                            ELSE batchStatus[c]
      BY <1>0 DEF RowTypes, BatchView, Over
    <3>3. c \in {b} \cup evictedFrom =>
            draftBatches[r][c] = IF c = b THEN "QUEUED" ELSE RollUp(batchStatus[c], Seen(r, c))
      BY <1>4 DEF AdmittedBatches
    <3>4. rolled[c] = IF c \in evictedFrom THEN RollUp(batchStatus[c], Seen(r, c))
                                           ELSE batchStatus[c]
      BY <3>1, SameRollUp DEF Atomic!RolledUp
    <3> HIDE DEF rolled, evictedFrom
    <3> QED
      BY <1>8, <3>1, <3>2, <3>3, <3>4
  <2>2. BatchView(r) = [c \in Batch |-> BatchView(r)[c]]
    BY <1>0 DEF BatchView, Over, RowTypes
  <2>3. rolled = [c \in Batch |-> rolled[c]]
    BY DEF Atomic!RolledUp
  <2> HIDE DEF rolled
  <2> QED
    BY <1>1, <1>2, <2>1, <2>2, <2>3
<1>10. Atomic!AdmitReadyFiles(r)
  <2>1. /\ \A q \in Request \ {r} : SameRequest(q)
        /\ UNCHANGED Starting
    BY <1>0, <1>6, UntouchedSame, SameStarts
  <2>2. /\ Admitting' = [Admitting EXCEPT ![r] = NoBatch]
        /\ CheckedAt' = [CheckedAt EXCEPT ![r] = 0]
    BY <1>6, <2>1, OneRequestMoves
  <2>3. Admitting[r] = b /\ CheckedAt[r] = job[r].at
    BY <1>1 DEF Admitting, CheckedAt
  <2>4. Admitting[r] # NoBatch
    BY <1>2, <2>3, Constants
  <2>5. claimed \in SUBSET Atomic!ReadyFiles(Admitting[r])
    BY <1>2, <1>3, <2>3 DEF Atomic!ReadyFiles, Atomic!FilesOf
  <2>6. evicted \in SUBSET Atomic!Evictable(r)
    BY <1>2, <1>3, <2>3 DEF Atomic!Evictable
  <2>7. job[r].wrote \in CheckedAt[r] .. now
    BY <1>4, <2>3
  <2> HIDE DEF rolled, fs
  <2>8. Atomic!Admit(r, claimed, evicted, job[r].wrote, retention)
    BY <1>1, <1>3, <1>4, <1>5, <1>7, <1>9, <2>1, <2>2, <2>3
    DEF Atomic!Admit, Atomic!AdmittableStatuses, AdmittableStatuses, fs, rolled
  <2> QED
    BY <2>4, <2>5, <2>6, <2>7, <2>8 DEF Atomic!AdmitReadyFiles
<1>11. SpareOthers(r)
  <2>1. \A f \in File : f \in DOMAIN draftFiles[r] => batchLock[BatchOf[f]] = r
    BY <1>3, <1>4 DEF AdmittedFiles
  <2>2. \A c \in Batch : c \in DOMAIN draftBatches[r] => batchLock[c] = r
    BY <1>3, <1>8
  <2>3. \A f \in File : batchLock[BatchOf[f]] # r => fileExpires'[f] = fileExpires[f]
    BY <1>1, <1>3
  <2> QED
    BY <1>0, <1>1, <1>6, <2>1, <2>2, <2>3, CommitSpares
<1>12. requested' \ requested \subseteq {f \in File : batchStatus'[BatchOf[f]] # "NONE"}
  <2>1. batchStatus'[b] = "QUEUED"
    <3>1. rolled = [c \in Batch |-> rolled[c]]
      BY DEF Atomic!RolledUp
    <3> HIDE DEF rolled
    <3> QED
      BY <1>2, <1>9, <3>1
  <2> QED
    BY <1>1, <1>2, <1>3, <2>1
<1>13. Atomic!Next
  BY <1>10 DEF Atomic!Next
<1> QED
  BY <1>0, <1>1, <1>11, <1>12, <1>13, EndKeepsInv

LEMMA AdmissionStep ==
    ASSUME Inv, NEW r \in Request, Admission(r)
    PROVE  Inv' /\ [Atomic!Next]_(Atomic!vars)
BY CheckAdmittableStep, LockOwnerStep, LockOwnBatchStep, ClaimReadyFilesStep,
   LockNextOwnersBatchStep, ChooseEvictedStep, WriteAdmissionStep, CommitAdmissionStep,
   AbortAdmissionStep
DEF Admission

-----------------------------------------------------------------------------
(* Worker events.                                                          *)
LEMMA HandlerFacts ==
    ASSUME Inv, NEW h \in Handler
    PROVE  /\ h \in Actor /\ h \notin Request /\ h \notin Sweep /\ h \notin Purge /\ h # Nobody
           /\ RowTypes /\ StateTypes /\ EventOK(h) /\ EventLocks(h)
           /\ \A b \in Batch : batchLock[b] = h => batchStatus[b] \notin NoRow
           /\ \A f \in requested :
                f \in File /\ BatchOf[f] \in Batch /\ batchStatus[BatchOf[f]] # "NONE"
           /\ pc[h] # "idle" => /\ job[h] \in EventLocals /\ job[h].file \in requested
                                /\ job[h].file \in File /\ job[h].attempt \in Attempts
                                /\ BatchOf[job[h].file] \in Batch
<1>1. h \in Actor /\ h \notin Request /\ h \notin Sweep /\ h \notin Purge
  BY ActorsApart
<1>2. h # Nobody /\ RowTypes /\ StateTypes /\ EventOK(h) /\ EventLocks(h)
  BY <1>1, InvOf DEF ActorOK
<1>3. \A b \in Batch : batchLock[b] = h => batchStatus[b] \notin NoRow
  BY <1>2 DEF Inv, LockedRowsExist
<1>4. \A f \in requested :
        f \in File /\ BatchOf[f] \in Batch /\ batchStatus[BatchOf[f]] # "NONE"
  BY <1>2, Constants DEF Inv, RequestedRowsExisted, RowTypes
<1>5. pc[h] # "idle" => /\ job[h] \in EventLocals /\ job[h].file \in requested
                        /\ job[h].attempt \in Attempts
  BY <1>2 DEF EventOK, EventLocals
<1> QED
  BY <1>1, <1>2, <1>3, <1>4, <1>5

LEMMA HiddenEventStep ==
    ASSUME Inv, NEW h \in Handler, UNCHANGED <<now, rows>>,
           pc[h] # "startBatch", pc'[h] # "startBatch",
           \A y \in Actor \ {h} : Untouched(y), StateTypes',
           EventOK(h)', EventLocks(h)', LocksExisting(h)
    PROVE  Inv' /\ [Atomic!Next]_(Atomic!vars)
<1>0. h \in Actor /\ h \notin Request /\ h \notin Sweep /\ h \notin Purge
  BY ActorsApart
<1>1. UNCHANGED Atomic!vars
  BY <1>0, HiddenStep DEF SameStart
<1>2. ActorOK(h)' /\ NoNewStart(h)
  BY <1>0 DEF ActorOK, NoNewStart
<1> QED
  BY <1>0, <1>1, <1>2, QuietStepKeepsInv

(* A handler about to start a file is one more than those in between.      *)
LEMMA RoomToStart ==
    ASSUME NEW h \in Handler, pc[h] # "startBatch"
    PROVE  Cardinality(Starting) < Cardinality(Handler)
<1> DEFINE H == {k \in Handler : pc[k] = "startBatch"}
           f == [k \in H |-> <<job[k].file, job[k].attempt>>]
<1>1. IsFiniteSet(Handler)
  BY TransactionsAssumption DEF TransactionsAssumption
<1>2. /\ IsFiniteSet(Handler \ {h})
      /\ Cardinality(Handler \ {h}) = Cardinality(Handler) - 1
      /\ Cardinality(Handler) \in Nat
  BY <1>1, FS_RemoveElement, FS_CardinalityType
<1>3. IsFiniteSet(H) /\ Cardinality(H) <= Cardinality(Handler) - 1
  <2>1. H \in SUBSET (Handler \ {h})
    OBVIOUS
  <2> HIDE DEF H
  <2> QED
    BY <1>2, <2>1, FS_Subset
<1>4. f \in Surjection(H, Starting)
  BY DEF Surjection, Starting
<1>5. IsFiniteSet(Starting) /\ Cardinality(Starting) <= Cardinality(H)
  <2> HIDE DEF H, f
  <2> QED
    BY <1>3, <1>4, FS_Surjection
<1>6. Cardinality(H) \in Nat /\ Cardinality(Starting) \in Nat
  BY <1>3, <1>5, FS_CardinalityType
<1> HIDE DEF H, f
<1> QED
  BY <1>2, <1>3, <1>5, <1>6

LEMMA SameCardinality == ASSUME NEW S PROVE Atomic!Cardinality(S) = Cardinality(S)
BY Zenon DEF Atomic!Cardinality, Cardinality, Atomic!IsFiniteSet, IsFiniteSet

LEMMA StartFileStep ==
    ASSUME Inv, NEW h \in Handler, NEW f \in File, NEW a \in Attempts, StartFile(h, f, a)
    PROVE  Inv' /\ [Atomic!Next]_(Atomic!vars)
<1>0. /\ h \in Actor /\ h \notin Request /\ h \notin Sweep /\ h \notin Purge
      /\ RowTypes /\ StateTypes /\ EventOK(h) /\ EventLocks(h)
  BY HandlerFacts
<1> DEFINE locals == [file |-> f, attempt |-> a, outcome |-> "STARTED", seen |-> {}]
<1>1. /\ pc[h] = "idle" /\ f \in requested /\ FileFreeFor(h, f)
      /\ fileStatus[f] \in EventAcceptingStatuses /\ attempt[f] < a
      /\ fileStatus' = [fileStatus EXCEPT ![f] = "PROCESSING"]
      /\ attempt' = [attempt EXCEPT ![f] = a]
      /\ job' = [job EXCEPT ![h] = locals]
      /\ pc' = [pc EXCEPT ![h] = "startBatch"]
      /\ UNCHANGED <<now, batchStatus, batchExpires, fileExpires, output, requested, locks,
                     drafts>>
  BY DEF StartFile, Goto
<1>2. /\ locals \in EventLocals /\ locals.file = f /\ locals.attempt = a
  BY DEF EventLocals, Attempts
<1> HIDE DEF locals
<1>3. \A y \in Actor \ {h} : Untouched(y)
  BY <1>0, <1>1 DEF StateTypes, Untouched, locks, drafts
<1>4. StateTypes'
  BY <1>0, <1>1 DEF StateTypes, locks, drafts
<1>5. pc'[h] = "startBatch" /\ job'[h] = locals
  BY <1>0, <1>1 DEF StateTypes
<1>6. /\ attempt[f] \in Int /\ attempt'[f] = a /\ a \in Nat
      /\ fileStatus'[f] = "PROCESSING"
      /\ \A g \in File \ {f} : fileStatus'[g] = fileStatus[g] /\ attempt'[g] = attempt[g]
  BY <1>0, <1>1, TransactionsAssumption DEF RowTypes, TransactionsAssumption, Attempts
<1>7. ActorOK(h)'
  <2>1. draftFiles[h] = Nothing /\ draftBatches[h] = Nothing
    BY <1>0, <1>1 DEF EventOK, RollingUp
  <2>2. EventOK(h)'
    BY <1>1, <1>2, <1>5, <1>6, <2>1 DEF EventOK, RollingUp, drafts
  <2>3. EventLocks(h)'
    BY <1>0, <1>1 DEF EventLocks, locks
  <2> QED
    BY <1>0, <2>2, <2>3 DEF ActorOK
<1>8. LocksExisting(h)
  BY <1>0, <1>1 DEF LocksExisting, EventLocks, locks
<1>9. SpareOthers(h)
  <2> SUFFICES ASSUME NEW y \in Actor \ {h}, NEW b \in Batch, batchLock[b] = y,
                      NEW g \in FilesOf(b)
               PROVE  \/ fileStatus'[g] = fileStatus[g] /\ attempt'[g] = attempt[g]
                      \/ g \notin DOMAIN draftFiles[y] /\ Progressed(g)
    BY <1>1, <1>3 DEF SpareOthers, Spared, Respected
  <2>1. g \in File
    BY Constants
  <2>2. CASE g # f
    BY <1>6, <2>1, <2>2
  <2>3. CASE g = f
    BY <1>1, <1>6, <2>3 DEF FileFreeFor, Progressed
  <2> QED
    BY <2>2, <2>3
<1>10. StartsApart'
  <2>1. ASSUME NEW k \in Handler, k # h, pc'[k] = "startBatch"
        PROVE  <<job'[k].file, job'[k].attempt>> # <<f, a>>
    <3>1. EventOK(k) /\ k \in Actor \ {h}
      BY <2>1, HandlerFacts
    <3>2. pc[k] = "startBatch" /\ job'[k] = job[k]
      BY <1>3, <2>1, <3>1 DEF Untouched
    <3>3. attempt[job[k].file] >= job[k].attempt \/ fileStatus[job[k].file] = "PURGED"
      BY <3>1, <3>2 DEF EventOK
    <3>4. ~(attempt[f] >= a \/ fileStatus[f] = "PURGED")
      BY <1>1, <1>6 DEF EventAcceptingStatuses
    <3> QED
      BY <3>2, <3>3, <3>4
  <2>2. ASSUME NEW k \in Handler, NEW m \in Handler, k # h, m # h, k # m,
               pc'[k] = "startBatch", pc'[m] = "startBatch"
        PROVE  <<job'[k].file, job'[k].attempt>> # <<job'[m].file, job'[m].attempt>>
    <3>1. k \in Actor \ {h} /\ m \in Actor \ {h}
      BY <2>2, ActorsApart
    <3>2. /\ pc[k] = "startBatch" /\ job'[k] = job[k]
          /\ pc[m] = "startBatch" /\ job'[m] = job[m]
      BY <1>3, <2>2, <3>1 DEF Untouched
    <3> QED
      BY <2>2, <3>2 DEF Inv, StartsApart
  <2>3. job'[h].file = f /\ job'[h].attempt = a
    BY <1>2, <1>5
  <2> QED
    BY <2>1, <2>2, <2>3 DEF StartsApart
<1>11. Atomic!ApplyStarted(f, a)
  <2>1. UNCHANGED <<Admitting, CheckedAt>>
    BY <1>0, <1>3, UntouchedSame, SameRequests
  <2>2. Starting' = Starting \cup {<<f, a>>}
    <3>1. \A k \in Handler \ {h} : SameStart(k)
      BY <1>3, UntouchedSame
    <3>2. job'[h].file = f /\ job'[h].attempt = a
      BY <1>2, <1>5
    <3> QED
      BY <1>1, <1>5, <3>1, <3>2 DEF Starting, SameStart
  <2>3. Atomic!Cardinality(Starting) < Cardinality(Handler)
    BY <1>1, RoomToStart, SameCardinality
  <2> QED
    BY <1>1, <2>1, <2>2, <2>3
    DEF Atomic!ApplyStarted, Atomic!AcceptsStarted, Atomic!EventAcceptingStatuses,
        EventAcceptingStatuses
<1>12. Atomic!Next
  BY <1>11 DEF Atomic!Next, Attempts, Atomic!Attempts
<1>13. Monotone
  BY <1>12, NeverBack DEF Inv
<1>14. requested' \ requested = {}
  BY <1>1
<1> QED
  BY <1>0, <1>4, <1>7, <1>8, <1>9, <1>10, <1>12, <1>13, <1>14, StepKeepsInv

LEMMA StartBatchStep ==
    ASSUME Inv, NEW h \in Handler, StartBatch(h)
    PROVE  Inv' /\ [Atomic!Next]_(Atomic!vars)
<1>0. /\ h \in Actor /\ h \notin Request /\ h \notin Sweep /\ h \notin Purge /\ h # Nobody
      /\ RowTypes /\ StateTypes /\ EventOK(h) /\ EventLocks(h)
  BY HandlerFacts
<1> DEFINE f == job[h].file
           a == job[h].attempt
           b == BatchOf[f]
<1>1. /\ pc[h] = "startBatch" /\ batchLock[b] = Nobody
      /\ batchStatus' = [batchStatus EXCEPT ![b] = IF @ = "QUEUED" THEN "PROCESSING" ELSE @]
      /\ job' = [job EXCEPT ![h] = Nothing]
      /\ pc' = [pc EXCEPT ![h] = "idle"]
      /\ UNCHANGED <<now, batchExpires, fileStatus, fileExpires, attempt, output, requested,
                     locks, drafts>>
  BY DEF StartBatch, Goto
<1>2. f \in File /\ a \in Attempts /\ b \in Batch
  BY <1>1, HandlerFacts
<1> HIDE DEF f, a, b
<1>3. \A y \in Actor \ {h} : Untouched(y)
  BY <1>0, <1>1 DEF StateTypes, Untouched, locks, drafts
<1>4. StateTypes'
  BY <1>0, <1>1 DEF StateTypes, locks, drafts
<1>5. pc'[h] = "idle"
  BY <1>0, <1>1 DEF StateTypes
<1>6. ActorOK(h)' /\ LocksExisting(h) /\ NoNewStart(h)
  <2>1. NothingDrafted(h)'
    BY <1>0, <1>1 DEF EventOK, RollingUp, NothingDrafted, drafts
  <2>2. /\ \A c \in Batch : batchLock'[c] # h
        /\ \A s \in Subject : ownerLock'[s] # h
    BY <1>0, <1>1 DEF EventLocks, locks
  <2> QED
    BY <1>0, <1>5, <2>1, <2>2, IdleIsOK
<1>7. SpareOthers(h)
  <2>1. \A c \in Batch : c # b => batchStatus'[c] = batchStatus[c]
    BY <1>0, <1>1 DEF RowTypes
  <2>2. \A y \in Actor : y # Nobody
    BY Constants
  <2> QED
    BY <1>1, <1>3, <2>1, <2>2 DEF SpareOthers, Spared, Respected
<1>8. Atomic!MarkBatchProcessing(f, a)
  <2>1. UNCHANGED <<Admitting, CheckedAt>>
    BY <1>0, <1>3, UntouchedSame, SameRequests
  <2>2. <<f, a>> \in Starting /\ Starting' = Starting \ {<<f, a>>}
    <3>1. \A k \in Handler \ {h} : SameStart(k)
      BY <1>3, UntouchedSame
    <3>2. \A k \in Handler \ {h} : pc[k] = "startBatch" =>
              <<job[k].file, job[k].attempt>> # <<f, a>>
      BY <1>1 DEF Inv, StartsApart, f, a
    <3>3. Starting = {<<job[k].file, job[k].attempt>> :
                          k \in {m \in Handler \ {h} : pc[m] = "startBatch"}} \cup {<<f, a>>}
      BY <1>1 DEF Starting, f, a
    <3>4. Starting' = {<<job[k].file, job[k].attempt>> :
                          k \in {m \in Handler \ {h} : pc[m] = "startBatch"}}
      BY <1>5, <3>1 DEF Starting, SameStart
    <3> QED
      BY <3>2, <3>3, <3>4
  <2> QED
    BY <1>1, <2>1, <2>2 DEF Atomic!MarkBatchProcessing, b
<1>9. Atomic!Next
  BY <1>2, <1>8 DEF Atomic!Next, Attempts, Atomic!Attempts
<1>10. Monotone
  BY <1>9, NeverBack DEF Inv
<1>11. StartsApart'
  BY <1>6, <1>7, StartsStayApart DEF Inv
<1>12. requested' \ requested = {}
  BY <1>1
<1> QED
  BY <1>0, <1>4, <1>6, <1>7, <1>9, <1>10, <1>11, <1>12, StepKeepsInv

LEMMA BeginResultStep ==
    ASSUME Inv, NEW h \in Handler, NEW f \in File, NEW a \in Attempts,
           NEW outcome \in {"COMPLETED", "FAILED"}, BeginResult(h, f, a, outcome)
    PROVE  Inv' /\ [Atomic!Next]_(Atomic!vars)
<1>0. h \in Actor /\ RowTypes /\ StateTypes /\ EventOK(h) /\ EventLocks(h)
  BY HandlerFacts
<1> DEFINE locals == [file |-> f, attempt |-> a, outcome |-> outcome, seen |-> {}]
<1>1. /\ pc[h] = "idle" /\ f \in requested
      /\ job' = [job EXCEPT ![h] = locals]
      /\ pc' = [pc EXCEPT ![h] = "lockBatch"]
      /\ UNCHANGED <<now, rows, locks, drafts>>
  BY DEF BeginResult, Goto
<1>2. locals \in EventLocals /\ locals.file = f /\ locals.outcome = outcome
  BY DEF EventLocals, Attempts
<1> HIDE DEF locals
<1>3. \A y \in Actor \ {h} : Untouched(y)
  BY <1>0, <1>1 DEF StateTypes, Untouched, locks, drafts
<1>4. StateTypes'
  BY <1>0, <1>1 DEF StateTypes, locks, drafts
<1>5. pc'[h] = "lockBatch" /\ job'[h] = locals
  BY <1>0, <1>1 DEF StateTypes
<1>6. EventOK(h)'
  <2>1. draftFiles[h] = Nothing /\ draftBatches[h] = Nothing
    BY <1>0, <1>1 DEF EventOK, RollingUp
  <2> QED
    BY <1>1, <1>2, <1>5, <2>1 DEF EventOK, RollingUp, drafts, rows
<1>7. EventLocks(h)' /\ LocksExisting(h)
  BY <1>0, <1>1 DEF EventLocks, LocksExisting, locks
<1> QED
  BY <1>1, <1>3, <1>4, <1>5, <1>6, <1>7, HiddenEventStep

LEMMA LockResultBatchStep ==
    ASSUME Inv, NEW h \in Handler, LockResultBatch(h)
    PROVE  Inv' /\ [Atomic!Next]_(Atomic!vars)
<1>0. /\ h \in Actor /\ h # Nobody /\ RowTypes /\ StateTypes /\ EventOK(h) /\ EventLocks(h)
  BY HandlerFacts
<1> DEFINE c == BatchOf[job[h].file]
<1>1. /\ pc[h] = "lockBatch" /\ pc' = [pc EXCEPT ![h] = "claimFile"]
      /\ UNCHANGED <<now, rows, job, ownerLock, drafts>>
  BY DEF LockResultBatch, Goto
<1>2. /\ c \in Batch /\ batchStatus[c] # "NONE"
      /\ \/ /\ batchStatus[c] \notin NoRow /\ batchLock[c] = Nobody
            /\ batchLock' = [batchLock EXCEPT ![c] = h]
         \/ batchStatus[c] \in NoRow /\ batchLock' = batchLock
  BY <1>1, HandlerFacts DEF LockResultBatch, LockBatch, TakeBatchLock, SkipMissingBatch
<1> HIDE DEF c
<1>3. \A y \in Actor \ {h} : Untouched(y)
  BY <1>0, <1>1, <1>2, Constants DEF StateTypes, Untouched, drafts
<1>4. StateTypes'
  BY <1>0, <1>1, <1>2 DEF StateTypes, drafts
<1>5. pc'[h] = "claimFile" /\ job'[h] = job[h]
  BY <1>0, <1>1 DEF StateTypes
<1>6. \A b \in Batch : batchLock[b] # h
  BY <1>0, <1>1 DEF EventLocks
<1>7. EventOK(h)'
  <2>1. batchLock'[c] = h \/ batchStatus[c] = "PURGED"
    BY <1>0, <1>2 DEF StateTypes, NoRow
  <2>2. draftBatches[h] = Nothing
    BY <1>0, <1>1 DEF EventOK, RollingUp
  <2> QED
    BY <1>0, <1>1, <1>5, <2>1, <2>2 DEF EventOK, RollingUp, Secured, rows, drafts, c
<1>8. EventLocks(h)'
  <2>1. \A b \in Batch : batchLock'[b] = h => b = c
    BY <1>0, <1>2, <1>6 DEF StateTypes
  <2> QED
    BY <1>0, <1>1, <1>5, <2>1 DEF EventLocks, c
<1>9. LocksExisting(h)
  BY <1>0, <1>1, <1>2, <1>6 DEF LocksExisting, StateTypes, rows
<1> QED
  BY <1>1, <1>3, <1>4, <1>5, <1>7, <1>8, <1>9, HiddenEventStep

LEMMA ClaimFileStep ==
    ASSUME Inv, NEW h \in Handler, ClaimFile(h)
    PROVE  Inv' /\ [Atomic!Next]_(Atomic!vars)
<1>0. /\ h \in Actor /\ RowTypes /\ StateTypes /\ EventOK(h) /\ EventLocks(h)
      /\ \A b \in Batch : batchLock[b] = h => batchStatus[b] \notin NoRow
  BY HandlerFacts
<1> DEFINE f == job[h].file
           claim == [g \in {f} |-> job[h].outcome]
<1>1. /\ pc[h] = "claimFile" /\ fileStatus[f] \in EventAcceptingStatuses
      /\ attempt[f] <= job[h].attempt
      /\ draftFiles' = [draftFiles EXCEPT ![h] = claim]
      /\ pc' = [pc EXCEPT ![h] = "readFiles"]
      /\ UNCHANGED <<now, rows, job, locks, draftBatches>>
  BY DEF ClaimFile, Goto
<1>2. f \in File /\ BatchOf[f] \in Batch
  BY <1>1, HandlerFacts
<1>3. batchLock[BatchOf[f]] = h
  <2>1. batchStatus[BatchOf[f]] # "PURGED"
    BY <1>0, <1>1, <1>2 DEF RowTypes, NoRow, EventAcceptingStatuses
  <2> QED
    BY <1>0, <1>1, <2>1 DEF EventOK, Secured
<1> HIDE DEF claim
<1>4. \A y \in Actor \ {h} : Untouched(y)
  BY <1>0, <1>1 DEF StateTypes, Untouched, locks
<1>5. StateTypes'
  BY <1>0, <1>1 DEF StateTypes, locks
<1>6. pc'[h] = "readFiles" /\ job'[h] = job[h] /\ draftFiles'[h] = claim
  BY <1>0, <1>1 DEF StateTypes
<1>7. EventOK(h)'
  <2>1. Accepted(h)'
    BY <1>0, <1>1, <1>3, <1>6 DEF EventOK, Accepted, claim, locks, rows
  <2>2. draftBatches'[h] = Nothing
    BY <1>0, <1>1 DEF EventOK, RollingUp
  <2> QED
    BY <1>0, <1>1, <1>6, <2>1, <2>2 DEF EventOK, RollingUp, rows
<1>8. EventLocks(h)' /\ LocksExisting(h)
  BY <1>0, <1>1, <1>6 DEF EventLocks, LocksExisting, locks, rows
<1> QED
  BY <1>1, <1>4, <1>5, <1>6, <1>7, <1>8, HiddenEventStep

-----------------------------------------------------------------------------
(* rollUpBatch inside a transaction, of a handler or a sweep.              *)
LEMMA SeenTyped ==
    ASSUME RowTypes, NEW x, NEW b \in Batch,
           \A f \in DOMAIN draftFiles[x] : draftFiles[x][f] \in FileStatuses \cup NoRow
    PROVE  Seen(x, b) \in SUBSET (FileStatuses \cup NoRow)
BY Constants, ViewType DEF Seen, RowTypes

LEMMA ReadFilesRollsUp ==
    ASSUME StateTypes, NEW x \in Actor, NEW b \in Batch, b = RollUpTarget(x),
           ReadFiles(x), RollingUp(x, b)
    PROVE  /\ pc[x] = "readFiles" /\ pc'[x] = "rollUp"
           /\ job'[x] = [job[x] EXCEPT !.seen = Seen(x, b)]
           /\ UNCHANGED <<now, rows, locks, drafts>>
           /\ StateTypes' /\ \A y \in Actor \ {x} : Untouched(y)
           /\ Seen(x, b)' = Seen(x, b)
           /\ job'[x].seen = Seen(x, b) => RollingUp(x, b)'
<1>1. /\ pc[x] = "readFiles" /\ pc' = [pc EXCEPT ![x] = "rollUp"]
      /\ job' = [job EXCEPT ![x] = [job[x] EXCEPT !.seen = Seen(x, b)]]
      /\ UNCHANGED <<now, rows, locks, drafts>>
  BY DEF ReadFiles, Goto
<1>2. /\ pc'[x] = "rollUp" /\ job'[x] = [job[x] EXCEPT !.seen = Seen(x, b)]
  BY <1>1 DEF StateTypes
<1>3. StateTypes' /\ \A y \in Actor \ {x} : Untouched(y)
  BY <1>1 DEF StateTypes, Untouched, locks, drafts
<1>4. Seen(x, b)' = Seen(x, b) /\ draftBatches'[x] = draftBatches[x]
      /\ batchStatus' = batchStatus
  BY <1>1 DEF Seen, FileView, drafts, rows
<1>5. job'[x].seen = Seen(x, b) => RollingUp(x, b)'
  BY <1>1, <1>2, <1>4 DEF RollingUp, Read
<1> QED
  BY <1>1, <1>2, <1>3, <1>4, <1>5

LEMMA UpdateBatchRollsUp ==
    ASSUME StateTypes, NEW x \in Actor, NEW b \in Batch, b = RollUpTarget(x),
           UpdateBatch(x), RollingUp(x, b), Secured(x, b)
    PROVE  /\ pc[x] = "rollUp" /\ pc'[x] = "commit" /\ job' = job
           /\ UNCHANGED <<now, rows, locks, draftFiles>>
           /\ StateTypes' /\ \A y \in Actor \ {x} : Untouched(y)
           /\ RollingUp(x, b)'
<1> DEFINE status == RollUp(batchStatus[b], job[x].seen)
<1>1. /\ pc[x] = "rollUp" /\ pc' = [pc EXCEPT ![x] = "commit"]
      /\ UNCHANGED <<now, rows, job, ownerLock, draftFiles>>
      /\ IF status = batchStatus[b]
         THEN UNCHANGED <<draftBatches, batchLock>>
         ELSE /\ draftBatches' = [draftBatches EXCEPT ![x] = [c \in {b} |-> status]]
              /\ batchLock' = [batchLock EXCEPT ![b] = x]
  BY DEF UpdateBatch, Goto
<1>2. status = RollUp(batchStatus[b], Seen(x, b)) /\ draftBatches[x] = Nothing
  BY <1>1 DEF RollingUp, Read
<1>3. status # batchStatus[b] => batchLock[b] = x
  BY PurgedStays DEF Secured
<1> HIDE DEF status
<1>4. batchLock' = batchLock
  BY <1>1, <1>3 DEF StateTypes
<1>5. pc'[x] = "commit"
  BY <1>1 DEF StateTypes
<1>6. StateTypes' /\ \A y \in Actor \ {x} : Untouched(y)
  BY <1>1, <1>4 DEF StateTypes, Untouched
<1>7. RollingUp(x, b)'
  <2>1. Seen(x, b)' = Seen(x, b) /\ batchStatus' = batchStatus
    BY <1>1 DEF Seen, FileView, rows
  <2>2. draftBatches'[x] = IF status = batchStatus[b] THEN Nothing ELSE [c \in {b} |-> status]
    BY <1>1, <1>2 DEF StateTypes
  <2> QED
    BY <1>2, <1>5, <2>1, <2>2 DEF RollingUp, RolledUpTo
<1> QED
  BY <1>1, <1>4, <1>5, <1>6, <1>7 DEF locks

LEMMA ReadResultFilesStep ==
    ASSUME Inv, NEW h \in Handler, ReadFiles(h)
    PROVE  Inv' /\ [Atomic!Next]_(Atomic!vars)
<1>0. /\ h \in Actor /\ RowTypes /\ StateTypes /\ EventOK(h) /\ EventLocks(h)
      /\ \A b \in Batch : batchLock[b] = h => batchStatus[b] \notin NoRow
  BY HandlerFacts
<1>1. pc[h] = "readFiles" /\ RollUpTarget(h) = BatchOf[job[h].file]
  BY DEF ReadFiles, RollUpTarget
<1>2. PICK b \in Batch : b = BatchOf[job[h].file]
  BY <1>1, HandlerFacts
<1>3. job[h] \in EventLocals /\ Accepted(h) /\ RollingUp(h, b)
  BY <1>0, <1>1, <1>2 DEF EventOK
<1>4. /\ pc'[h] = "rollUp" /\ job'[h] = [job[h] EXCEPT !.seen = Seen(h, b)]
      /\ UNCHANGED <<now, rows, locks, drafts>>
      /\ StateTypes' /\ \A y \in Actor \ {h} : Untouched(y)
      /\ job'[h].seen = Seen(h, b) => RollingUp(h, b)'
  BY <1>0, <1>1, <1>2, <1>3, ReadFilesRollsUp
<1>5. Seen(h, b) \in SUBSET (FileStatuses \cup NoRow)
  <2>1. \A f \in DOMAIN draftFiles[h] : draftFiles[h][f] \in FileStatuses \cup NoRow
    BY <1>3 DEF Accepted, FileStatuses, LiveFileStatuses, TerminalFileStatuses
  <2> QED
    BY <1>0, <2>1, SeenTyped
<1>6. /\ job'[h] \in EventLocals /\ job'[h].seen = Seen(h, b) /\ job'[h].file = job[h].file
      /\ job'[h].attempt = job[h].attempt /\ job'[h].outcome = job[h].outcome
  BY <1>3, <1>4, <1>5 DEF EventLocals
<1>7. EventOK(h)'
  <2>1. Accepted(h)'
    BY <1>3, <1>4, <1>6 DEF Accepted, locks, rows, drafts
  <2>2. RollingUp(h, b)' /\ BatchOf[job'[h].file] = b
    BY <1>2, <1>4, <1>6
  <2>3. job'[h].file \in requested'
    BY <1>0, <1>1, <1>4, <1>6 DEF EventOK, rows
  <2> QED
    BY <1>4, <1>6, <2>1, <2>2, <2>3 DEF EventOK
<1>8. EventLocks(h)' /\ LocksExisting(h)
  BY <1>0, <1>1, <1>4, <1>6 DEF EventLocks, LocksExisting, locks, rows
<1> QED
  BY <1>1, <1>4, <1>7, <1>8, HiddenEventStep

LEMMA UpdateResultBatchStep ==
    ASSUME Inv, NEW h \in Handler, UpdateBatch(h)
    PROVE  Inv' /\ [Atomic!Next]_(Atomic!vars)
<1>0. /\ h \in Actor /\ RowTypes /\ StateTypes /\ EventOK(h) /\ EventLocks(h)
      /\ \A b \in Batch : batchLock[b] = h => batchStatus[b] \notin NoRow
  BY HandlerFacts
<1>1. pc[h] = "rollUp" /\ RollUpTarget(h) = BatchOf[job[h].file]
  BY DEF UpdateBatch, RollUpTarget
<1>2. PICK b \in Batch : b = BatchOf[job[h].file]
  BY <1>1, HandlerFacts
<1>3. Accepted(h) /\ RollingUp(h, b) /\ Secured(h, b)
  BY <1>0, <1>1, <1>2 DEF EventOK, Accepted, Secured
<1>4. /\ pc'[h] = "commit" /\ job' = job /\ UNCHANGED <<now, rows, locks, draftFiles>>
      /\ StateTypes' /\ RollingUp(h, b)' /\ \A y \in Actor \ {h} : Untouched(y)
  BY <1>0, <1>1, <1>2, <1>3, UpdateBatchRollsUp
<1>5. EventOK(h)'
  <2>1. Accepted(h)'
    BY <1>3, <1>4 DEF Accepted, locks, rows
  <2>2. job'[h] = job[h] /\ requested' = requested
    BY <1>4 DEF rows
  <2>3. BatchOf[job'[h].file] = b
    BY <1>2, <2>2
  <2>4. RollingUp(h, b)'
    BY <1>4
  <2>5. job[h] \in EventLocals /\ job[h].file \in requested
    BY <1>1, HandlerFacts
  <2> QED
    BY <1>4, <2>1, <2>2, <2>3, <2>4, <2>5 DEF EventOK
<1>6. EventLocks(h)' /\ LocksExisting(h)
  BY <1>0, <1>1, <1>4 DEF EventLocks, LocksExisting, locks, rows
<1> QED
  BY <1>1, <1>4, <1>5, <1>6, HiddenEventStep

(* What a transaction that rolled up one batch commits.                    *)
LEMMA RolledUpView ==
    ASSUME RowTypes, NEW x, NEW b \in Batch, RolledUpTo(x, b), Secured(x, b),
           NEW fs, fs = FileView(x)
    PROVE  /\ BatchView(x) = Atomic!RolledUp({b}, fs)
           /\ \A c \in Batch : c \in DOMAIN draftBatches[x] => batchLock[c] = x
<1> DEFINE status == RollUp(batchStatus[b], Seen(x, b))
<1>1. draftBatches[x] = IF status = batchStatus[b] THEN Nothing ELSE [c \in {b} |-> status]
  BY DEF RolledUpTo
<1>2. Seen(x, b) = Atomic!Statuses(fs, b)
  BY DEF Seen, Atomic!Statuses, FilesOf, Atomic!FilesOf
<1>3. Atomic!RolledUp({b}, fs) = [c \in Batch |-> IF c = b THEN status ELSE batchStatus[c]]
  BY <1>2, SameRollUp DEF Atomic!RolledUp
<1>4. status # batchStatus[b] => batchLock[b] = x
  BY PurgedStays DEF Secured
<1> HIDE DEF status
<1>5. DOMAIN Nothing = {}
  BY DEF Nothing
<1>6. \A c \in Batch : BatchView(x)[c] = IF c = b THEN status ELSE batchStatus[c]
  BY <1>1, <1>5 DEF BatchView, Over, RowTypes
<1>7. BatchView(x) = [c \in Batch |-> BatchView(x)[c]]
  BY DEF BatchView, Over, RowTypes
<1> QED
  BY <1>1, <1>3, <1>4, <1>5, <1>6, <1>7

LEMMA CommitResultStep ==
    ASSUME Inv, NEW h \in Handler, CommitResult(h)
    PROVE  Inv' /\ [Atomic!Next]_(Atomic!vars)
<1>0. /\ h \in Actor /\ h \notin Request /\ RowTypes /\ StateTypes /\ EventOK(h)
  BY HandlerFacts
<1> DEFINE f == job[h].file
           outcome == job[h].outcome
           fs == [fileStatus EXCEPT ![f] = outcome]
<1>1. /\ pc[h] = "commit" /\ fileStatus' = FileView(h) /\ batchStatus' = BatchView(h)
      /\ output' = IF outcome = "COMPLETED" THEN [output EXCEPT ![f] = job[h].attempt]
                                            ELSE output
      /\ Release(h, "idle", Nothing)
      /\ UNCHANGED <<now, batchExpires, fileExpires, attempt, requested>>
  BY DEF CommitResult
<1>2. PICK b \in Batch : b = BatchOf[f]
  BY <1>1, HandlerFacts
<1>3. /\ f \in File /\ f \in requested /\ job[h].attempt \in Attempts
      /\ batchLock[b] = h /\ outcome \in {"COMPLETED", "FAILED"}
      /\ fileStatus[f] \in EventAcceptingStatuses /\ attempt[f] <= job[h].attempt
      /\ draftFiles[h] = [g \in {f} |-> outcome] /\ RolledUpTo(h, b)
  BY <1>0, <1>1, <1>2, HandlerFacts DEF EventOK, Accepted, RollingUp
<1>4. pc'[h] = "idle" /\ \A y \in Actor \ {h} : Untouched(y)
  BY <1>0, <1>1, Released
<1>5. FileView(h) = fs
  <2>1. \A g \in File : FileView(h)[g] = fs[g]
    BY <1>0, <1>3, ViewType DEF RowTypes
  <2>2. FileView(h) = [g \in File |-> FileView(h)[g]] /\ fs = [g \in File |-> fs[g]]
    BY <1>0 DEF FileView, Over, RowTypes
  <2> HIDE DEF fs
  <2> QED
    BY <2>1, <2>2
<1>6. /\ BatchView(h) = Atomic!RolledUp({b}, fs)
      /\ \A c \in Batch : c \in DOMAIN draftBatches[h] => batchLock[c] = h
  <2>1. Secured(h, b)
    BY <1>3 DEF Secured
  <2> HIDE DEF fs
  <2> QED
    BY <1>0, <1>3, <1>5, <2>1, RolledUpView
<1>7. Atomic!ApplyResult(f, job[h].attempt, outcome)
  <2>1. UNCHANGED <<Admitting, CheckedAt>>
    BY <1>0, <1>4, UntouchedSame, SameRequests
  <2>2. UNCHANGED Starting
    <3>1. SameStart(h)
      BY <1>1, <1>4 DEF SameStart
    <3> QED
      BY <1>4, <3>1, UntouchedSame, SameStarts
  <2>3. batchStatus' = Atomic!RolledUp({BatchOf[f]}, fs) /\ fileStatus' = fs
    BY <1>1, <1>2, <1>5, <1>6
  <2> QED
    BY <1>1, <1>3, <2>1, <2>2, <2>3
    DEF Atomic!ApplyResult, Atomic!AcceptsResult, Atomic!EventAcceptingStatuses,
        EventAcceptingStatuses
<1>8. Atomic!Next
  BY <1>3, <1>7 DEF Atomic!Next, Attempts, Atomic!Attempts
<1>9. SpareOthers(h)
  <2>1. \A g \in File : g \in DOMAIN draftFiles[h] => batchLock[BatchOf[g]] = h
    BY <1>2, <1>3
  <2>2. attempt' = attempt /\ \A g \in File : fileExpires'[g] = fileExpires[g]
    BY <1>1
  <2> QED
    BY <1>0, <1>1, <1>4, <1>6, <2>1, <2>2, CommitSpares
<1>10. requested' \ requested = {}
  BY <1>1
<1> QED
  BY <1>0, <1>1, <1>8, <1>9, <1>10, EndKeepsInv

LEMMA AbortEventStep ==
    ASSUME Inv, NEW h \in Handler, AbortEvent(h)
    PROVE  Inv' /\ [Atomic!Next]_(Atomic!vars)
<1>0. /\ h \in Actor /\ h \notin Request /\ RowTypes /\ StateTypes
      /\ pc[h] # "idle" /\ Release(h, "idle", Nothing) /\ UNCHANGED <<now, rows>>
      /\ job[h].file \in File /\ job[h].attempt \in Attempts
  BY HandlerFacts DEF AbortEvent
<1>1. pc'[h] = "idle" /\ \A y \in Actor \ {h} : Untouched(y)
  BY <1>0, Released
<1>2. SpareOthers(h)
  BY <1>0, <1>1 DEF SpareOthers, Spared, Respected, rows
<1>3. [Atomic!Next]_(Atomic!vars)
  <2>1. CASE pc[h] # "startBatch"
    <3>1. SameStart(h)
      BY <1>1, <2>1 DEF SameStart
    <3> QED
      BY <1>0, <1>1, <3>1, HiddenStep
  <2>2. CASE pc[h] = "startBatch"
    <3> DEFINE f == job[h].file
               a == job[h].attempt
    <3>1. UNCHANGED <<Admitting, CheckedAt>>
      BY <1>0, <1>1, UntouchedSame, SameRequests
    <3>2. \A k \in Handler \ {h} : SameStart(k)
      BY <1>1, UntouchedSame
    <3>3. \A k \in Handler \ {h} : pc[k] = "startBatch" =>
              <<job[k].file, job[k].attempt>> # <<f, a>>
      BY <2>2 DEF Inv, StartsApart
    <3>4. Starting = {<<job[k].file, job[k].attempt>> :
                          k \in {m \in Handler \ {h} : pc[m] = "startBatch"}} \cup {<<f, a>>}
      BY <2>2 DEF Starting
    <3>5. Starting' = {<<job[k].file, job[k].attempt>> :
                          k \in {m \in Handler \ {h} : pc[m] = "startBatch"}}
      BY <1>1, <3>2 DEF Starting, SameStart
    <3> HIDE DEF f, a
    <3>6. <<f, a>> \in Starting /\ Starting' = Starting \ {<<f, a>>}
      BY <3>3, <3>4, <3>5
    <3>7. Atomic!LoseStartedHandler(f, a)
      BY <1>0, <3>1, <3>6 DEF Atomic!LoseStartedHandler, Atomic!rows, rows
    <3> QED
      BY <1>0, <3>7 DEF Atomic!Next, Attempts, Atomic!Attempts, f, a
  <2> QED
    BY <2>1, <2>2
<1> QED
  BY <1>0, <1>2, <1>3, EndKeepsInv DEF rows

LEMMA EventStep ==
    ASSUME Inv, NEW h \in Handler, Event(h)
    PROVE  Inv' /\ [Atomic!Next]_(Atomic!vars)
BY StartFileStep, StartBatchStep, BeginResultStep, LockResultBatchStep, ClaimFileStep,
   ReadResultFilesStep, UpdateResultBatchStep, CommitResultStep, AbortEventStep
DEF Event

-----------------------------------------------------------------------------
(* Sweeps.                                                                 *)
LEMMA SweepFacts ==
    ASSUME Inv, NEW s \in Sweep
    PROVE  /\ s \in Actor /\ s \notin Request /\ s \notin Handler /\ s \notin Purge /\ s # Nobody
           /\ RowTypes /\ StateTypes /\ SweepOK(s) /\ SweepLocks(s)
           /\ \A b \in Batch : batchLock[b] = s => batchStatus[b] \notin NoRow
           /\ pc[s] # "idle" => /\ job[s] \in SweepLocalsType /\ job[s].cutoff \in Nat
                                /\ job[s].cutoff <= now /\ job[s].todo \in SUBSET Batch
                                /\ \A b \in job[s].todo : batchStatus[b] # "NONE"
           /\ pc[s] \notin {"idle", "sweep"} => job[s].batch \in Batch
<1>1. s \in Actor /\ s \notin Request /\ s \notin Handler /\ s \notin Purge
  BY ActorsApart
<1>2. s # Nobody /\ RowTypes /\ StateTypes /\ SweepOK(s) /\ SweepLocks(s)
  BY <1>1, InvOf DEF ActorOK
<1>3. \A b \in Batch : batchLock[b] = s => batchStatus[b] \notin NoRow
  BY <1>2 DEF Inv, LockedRowsExist
<1>4. pc[s] # "idle" => /\ job[s] \in SweepLocalsType /\ job[s].cutoff \in Nat
                        /\ job[s].cutoff <= now /\ job[s].todo \in SUBSET Batch
                        /\ \A b \in job[s].todo : batchStatus[b] # "NONE"
  BY <1>2 DEF SweepOK, SweepLocalsType
<1>5. pc[s] \notin {"idle", "sweep"} => job[s].batch \in Batch
  BY <1>2 DEF SweepOK
<1> QED
  BY <1>1, <1>2, <1>3, <1>4, <1>5

LEMMA HiddenSweepStep ==
    ASSUME Inv, NEW s \in Sweep, UNCHANGED <<now, rows>>,
           \A y \in Actor \ {s} : Untouched(y), StateTypes',
           SweepOK(s)', SweepLocks(s)', LocksExisting(s)
    PROVE  Inv' /\ [Atomic!Next]_(Atomic!vars)
<1>0. s \in Actor /\ s \notin Request /\ s \notin Handler /\ s \notin Purge
  BY ActorsApart
<1>1. UNCHANGED Atomic!vars
  BY <1>0, HiddenStep
<1>2. ActorOK(s)' /\ NoNewStart(s)
  BY <1>0 DEF ActorOK, NoNewStart
<1> QED
  BY <1>0, <1>1, <1>2, QuietStepKeepsInv

LEMMA BeginSweepStep ==
    ASSUME Inv, NEW s \in Sweep, BeginSweep(s)
    PROVE  Inv' /\ [Atomic!Next]_(Atomic!vars)
<1>0. /\ s \in Actor /\ RowTypes /\ StateTypes /\ SweepOK(s) /\ SweepLocks(s)
  BY SweepFacts
<1> DEFINE listed == {b \in Batch : \/ \E f \in FilesOf(b) : OverdueFile(f, now)
                                    \/ batchStatus[b] \in OpenBatchStatuses /\ batchExpires[b] <= now}
           locals == [cutoff |-> now, todo |-> listed, batch |-> NoBatch, seen |-> {}]
<1>1. /\ pc[s] = "idle"
      /\ job' = [job EXCEPT ![s] = locals] /\ pc' = [pc EXCEPT ![s] = "sweep"]
      /\ UNCHANGED <<now, rows, locks, drafts>>
  BY DEF BeginSweep, Goto
<1>2. ASSUME NEW b \in listed PROVE batchStatus[b] # "NONE"
  <2>1. CASE \E f \in FilesOf(b) : OverdueFile(f, now)
    <3>1. PICK f \in File : BatchOf[f] = b /\ fileStatus[f] \in LiveFileStatuses
      BY <2>1, Constants DEF OverdueFile
    <3> QED
      BY <1>0, <3>1 DEF RowTypes, NoRow, LiveFileStatuses
  <2>2. CASE batchStatus[b] \in OpenBatchStatuses
    BY <2>2 DEF OpenBatchStatuses
  <2> QED
    BY <2>1, <2>2
<1>3. listed \in SUBSET Batch /\ now \in Nat /\ now <= now
  BY <1>0, TransactionsAssumption DEF RowTypes, TransactionsAssumption
<1> HIDE DEF listed
<1>4. locals \in SweepLocalsType /\ locals.cutoff = now /\ locals.todo = listed
  BY <1>3 DEF SweepLocalsType
<1> HIDE DEF locals
<1>5. \A y \in Actor \ {s} : Untouched(y)
  BY <1>0, <1>1 DEF StateTypes, Untouched, locks, drafts
<1>6. StateTypes'
  BY <1>0, <1>1 DEF StateTypes, locks, drafts
<1>7. pc'[s] = "sweep" /\ job'[s] = locals
  BY <1>0, <1>1 DEF StateTypes
<1>8. SweepOK(s)'
  <2>1. draftFiles[s] = Nothing /\ draftBatches[s] = Nothing
    BY <1>0, <1>1 DEF SweepOK, RollingUp
  <2> QED
    BY <1>1, <1>2, <1>3, <1>4, <1>7, <2>1 DEF SweepOK, RollingUp, drafts, rows
<1>9. SweepLocks(s)' /\ LocksExisting(s)
  BY <1>0, <1>1 DEF SweepLocks, LocksExisting, locks
<1> QED
  BY <1>1, <1>5, <1>6, <1>8, <1>9, HiddenSweepStep

LEMMA LockSweptBatchStep ==
    ASSUME Inv, NEW s \in Sweep, NEW b \in Batch, LockSweptBatch(s, b)
    PROVE  Inv' /\ [Atomic!Next]_(Atomic!vars)
<1>0. /\ s \in Actor /\ s # Nobody /\ RowTypes /\ StateTypes /\ SweepOK(s) /\ SweepLocks(s)
  BY SweepFacts
<1> DEFINE todo == job[s].todo \ {b}
<1>1. /\ pc[s] = "sweep" /\ b \in job[s].todo
      /\ job' = [job EXCEPT ![s] = [job[s] EXCEPT !.todo = todo, !.batch = b]]
      /\ pc' = [pc EXCEPT ![s] = "expire"]
      /\ UNCHANGED <<now, rows, ownerLock, drafts>>
  BY DEF LockSweptBatch, Goto
<1>2. /\ batchStatus[b] # "NONE"
      /\ \/ /\ batchStatus[b] \notin NoRow /\ batchLock[b] = Nobody
            /\ batchLock' = [batchLock EXCEPT ![b] = s]
         \/ batchStatus[b] \in NoRow /\ batchLock' = batchLock
  BY <1>1, SweepFacts DEF LockSweptBatch, LockBatch, TakeBatchLock, SkipMissingBatch
<1>3. /\ job[s] \in SweepLocalsType /\ job[s].cutoff <= now /\ todo \in SUBSET Batch
      /\ \A c \in todo : batchStatus[c] # "NONE"
  BY <1>1, SweepFacts
<1> HIDE DEF todo
<1>4. \A y \in Actor \ {s} : Untouched(y)
  BY <1>0, <1>1, <1>2, Constants DEF StateTypes, Untouched, drafts
<1>5. StateTypes'
  BY <1>0, <1>1, <1>2 DEF StateTypes, drafts
<1>6. pc'[s] = "expire" /\ job'[s] = [job[s] EXCEPT !.todo = todo, !.batch = b]
  BY <1>0, <1>1 DEF StateTypes
<1>7. /\ job'[s] \in SweepLocalsType /\ job'[s].batch = b
      /\ job'[s].cutoff = job[s].cutoff /\ job'[s].todo = todo
  BY <1>3, <1>6 DEF SweepLocalsType
<1>8. \A c \in Batch : batchLock[c] # s
  BY <1>0, <1>1 DEF SweepLocks
<1>9. SweepOK(s)'
  <2>1. batchLock'[b] = s \/ batchStatus[b] = "PURGED"
    BY <1>0, <1>2 DEF StateTypes, NoRow
  <2>2. draftFiles[s] = Nothing /\ draftBatches[s] = Nothing
    BY <1>0, <1>1 DEF SweepOK, RollingUp
  <2> QED
    BY <1>1, <1>3, <1>6, <1>7, <2>1, <2>2 DEF SweepOK, RollingUp, Secured, drafts, rows
<1>10. SweepLocks(s)'
  <2>1. \A c \in Batch : batchLock'[c] = s => c = b
    BY <1>0, <1>2, <1>8 DEF StateTypes
  <2> QED
    BY <1>0, <1>1, <1>6, <1>7, <2>1 DEF SweepLocks
<1>11. LocksExisting(s)
  BY <1>0, <1>1, <1>2, <1>8 DEF LocksExisting, StateTypes, rows
<1> QED
  BY <1>1, <1>4, <1>5, <1>9, <1>10, <1>11, HiddenSweepStep

LEMMA ExpireFilesStep ==
    ASSUME Inv, NEW s \in Sweep, ExpireFiles(s)
    PROVE  Inv' /\ [Atomic!Next]_(Atomic!vars)
<1>0. /\ s \in Actor /\ RowTypes /\ StateTypes /\ SweepOK(s) /\ SweepLocks(s)
      /\ \A b \in Batch : batchLock[b] = s => batchStatus[b] \notin NoRow
  BY SweepFacts
<1> DEFINE expired == [f \in Overdue(s) |-> "EXPIRED"]
<1>1. /\ pc[s] = "expire"
      /\ draftFiles' = [draftFiles EXCEPT ![s] = expired]
      /\ pc' = [pc EXCEPT ![s] = "readFiles"]
      /\ UNCHANGED <<now, rows, job, locks, draftBatches>>
  BY DEF ExpireFiles, Overdue, Goto
<1>2. expired' = expired
  BY <1>1 DEF Overdue, FilesOf, OverdueFile, rows
<1> HIDE DEF expired
<1>3. \A y \in Actor \ {s} : Untouched(y)
  BY <1>0, <1>1 DEF StateTypes, Untouched, locks
<1>4. StateTypes'
  BY <1>0, <1>1 DEF StateTypes, locks
<1>5. pc'[s] = "readFiles" /\ job'[s] = job[s] /\ draftFiles'[s] = expired'
  BY <1>0, <1>1, <1>2 DEF StateTypes
<1>6. SweepOK(s)'
  <2>1. draftBatches[s] = Nothing
    BY <1>0, <1>1 DEF SweepOK, RollingUp
  <2>2. draftFiles'[s] = [f \in Overdue(s)' |-> "EXPIRED"]
    BY <1>5 DEF expired
  <2> QED
    BY <1>0, <1>1, <1>5, <2>1, <2>2 DEF SweepOK, RollingUp, Secured, locks, rows
<1>7. SweepLocks(s)' /\ LocksExisting(s)
  BY <1>0, <1>1, <1>5 DEF SweepLocks, LocksExisting, locks, rows
<1> QED
  BY <1>1, <1>3, <1>4, <1>6, <1>7, HiddenSweepStep

LEMMA ReadSweptFilesStep ==
    ASSUME Inv, NEW s \in Sweep, ReadFiles(s)
    PROVE  Inv' /\ [Atomic!Next]_(Atomic!vars)
<1>0. /\ s \in Actor /\ s \notin Handler /\ RowTypes /\ StateTypes /\ SweepOK(s)
      /\ SweepLocks(s)
      /\ \A b \in Batch : batchLock[b] = s => batchStatus[b] \notin NoRow
  BY SweepFacts
<1>1. pc[s] = "readFiles" /\ RollUpTarget(s) = job[s].batch
  BY <1>0 DEF ReadFiles, RollUpTarget
<1>2. PICK b \in Batch : b = job[s].batch
  BY <1>1, SweepFacts
<1>3. /\ job[s] \in SweepLocalsType /\ Secured(s, b) /\ RollingUp(s, b)
      /\ draftFiles[s] = [f \in Overdue(s) |-> "EXPIRED"]
  BY <1>0, <1>1, <1>2 DEF SweepOK
<1>4. /\ pc'[s] = "rollUp" /\ job'[s] = [job[s] EXCEPT !.seen = Seen(s, b)]
      /\ UNCHANGED <<now, rows, locks, drafts>>
      /\ StateTypes' /\ \A y \in Actor \ {s} : Untouched(y)
      /\ job'[s].seen = Seen(s, b) => RollingUp(s, b)'
  BY <1>0, <1>1, <1>2, <1>3, ReadFilesRollsUp
<1>5. Seen(s, b) \in SUBSET (FileStatuses \cup NoRow)
  <2>1. \A f \in DOMAIN draftFiles[s] : draftFiles[s][f] \in FileStatuses \cup NoRow
    BY <1>3 DEF FileStatuses, TerminalFileStatuses
  <2> QED
    BY <1>0, <2>1, SeenTyped
<1>6. /\ job'[s] \in SweepLocalsType /\ job'[s].seen = Seen(s, b) /\ job'[s].batch = b
      /\ job'[s].cutoff = job[s].cutoff /\ job'[s].todo = job[s].todo
  BY <1>2, <1>3, <1>4, <1>5 DEF SweepLocalsType
<1>7. SweepOK(s)'
  <2>1. Overdue(s)' = Overdue(s)
    BY <1>2, <1>4, <1>6 DEF Overdue, FilesOf, OverdueFile, rows
  <2>2. RollingUp(s, job[s].batch)'
    BY <1>4, <1>6 DEF RollingUp, Read, RolledUpTo, Seen, FileView
  <2>3. draftFiles'[s] = [f \in Overdue(s)' |-> "EXPIRED"]
    BY <1>3, <1>4, <2>1 DEF drafts
  <2>4. Secured(s, b)'
    BY <1>3, <1>4 DEF Secured, locks, rows
  <2>5. job[s].cutoff <= now /\ \A c \in job[s].todo : batchStatus[c] # "NONE"
    BY <1>1, SweepFacts
  <2> QED
    BY <1>4, <1>6, <2>2, <2>3, <2>4, <2>5 DEF SweepOK, Secured, rows
<1>8. SweepLocks(s)' /\ LocksExisting(s)
  BY <1>0, <1>1, <1>2, <1>4, <1>6 DEF SweepLocks, LocksExisting, locks, rows
<1> QED
  BY <1>4, <1>7, <1>8, HiddenSweepStep

LEMMA UpdateSweptBatchStep ==
    ASSUME Inv, NEW s \in Sweep, UpdateBatch(s)
    PROVE  Inv' /\ [Atomic!Next]_(Atomic!vars)
<1>0. /\ s \in Actor /\ s \notin Handler /\ RowTypes /\ StateTypes /\ SweepOK(s)
      /\ SweepLocks(s)
      /\ \A b \in Batch : batchLock[b] = s => batchStatus[b] \notin NoRow
  BY SweepFacts
<1>1. pc[s] = "rollUp" /\ RollUpTarget(s) = job[s].batch
  BY <1>0 DEF UpdateBatch, RollUpTarget
<1>2. PICK b \in Batch : b = job[s].batch
  BY <1>1, SweepFacts
<1>3. /\ Secured(s, b) /\ RollingUp(s, b)
      /\ draftFiles[s] = [f \in Overdue(s) |-> "EXPIRED"]
  BY <1>0, <1>1, <1>2 DEF SweepOK
<1>4. /\ pc'[s] = "commit" /\ job' = job /\ UNCHANGED <<now, rows, locks, draftFiles>>
      /\ StateTypes' /\ RollingUp(s, b)' /\ \A y \in Actor \ {s} : Untouched(y)
  BY <1>0, <1>1, <1>2, <1>3, UpdateBatchRollsUp
<1>5. SweepOK(s)'
  <2>1. Overdue(s)' = Overdue(s)
    BY <1>4 DEF Overdue, FilesOf, OverdueFile, rows
  <2>2. draftFiles'[s] = [f \in Overdue(s)' |-> "EXPIRED"]
    BY <1>3, <1>4, <2>1
  <2>3. job'[s] = job[s] /\ Secured(s, b)'
    BY <1>3, <1>4 DEF Secured, locks, rows
  <2>4. RollingUp(s, job[s].batch)'
    BY <1>2, <1>4, <2>3 DEF RollingUp, Read, RolledUpTo, Seen, FileView
  <2>5. /\ job[s] \in SweepLocalsType /\ job[s].cutoff <= now
        /\ \A c \in job[s].todo : batchStatus[c] # "NONE"
    BY <1>1, SweepFacts
  <2> QED
    BY <1>2, <1>4, <2>2, <2>3, <2>4, <2>5 DEF SweepOK, Secured, rows
<1>6. SweepLocks(s)' /\ LocksExisting(s)
  BY <1>0, <1>1, <1>4 DEF SweepLocks, LocksExisting, locks, rows
<1> QED
  BY <1>4, <1>5, <1>6, HiddenSweepStep

LEMMA SweepEndKeepsInv ==
    ASSUME Inv, NEW s \in Sweep, pc[s] # "idle", Release(s, NextSweep(s), SweepLocals(s)),
           SpareOthers(s), [Atomic!Next]_(Atomic!vars), now' = now, requested' = requested
    PROVE  Inv'
<1>0. /\ s \in Actor /\ s \notin Request /\ s \notin Handler /\ s \notin Purge
      /\ RowTypes /\ StateTypes
      /\ job[s] \in SweepLocalsType /\ job[s].cutoff <= now /\ job[s].todo \in SUBSET Batch
      /\ \A b \in job[s].todo : batchStatus[b] # "NONE"
  BY SweepFacts
<1> DEFINE label == NextSweep(s)
           locals == SweepLocals(s)
<1>1. /\ label \in {"idle", "sweep"}
      /\ label = "sweep" => /\ locals \in SweepLocalsType
                            /\ locals.cutoff = job[s].cutoff /\ locals.todo = job[s].todo
  BY <1>0 DEF NextSweep, SweepLocals, SweepLocalsType
<1> HIDE DEF label, locals
<1>2. /\ StateTypes' /\ pc'[s] = label /\ job'[s] = locals /\ NothingDrafted(s)'
      /\ \A b \in Batch : batchLock'[b] # s
      /\ \A u \in Subject : ownerLock'[u] # s
  BY <1>0, Released DEF label, locals
<1>3. Monotone
  BY NeverBack DEF Inv
<1>4. ActorOK(s)' /\ LocksExisting(s) /\ NoNewStart(s)
  <2>1. CASE label = "idle"
    BY <1>0, <1>2, <2>1, IdleIsOK
  <2>2. CASE label = "sweep"
    <3>1. SweepOK(s)'
      BY <1>0, <1>1, <1>2, <1>3, <2>2 DEF SweepOK, RollingUp, NothingDrafted, Monotone
    <3>2. SweepLocks(s)'
      BY <1>2 DEF SweepLocks
    <3> QED
      BY <1>0, <1>2, <3>1, <3>2 DEF ActorOK, LocksExisting, NoNewStart
  <2> QED
    BY <1>1, <2>1, <2>2
<1>5. StartsApart'
  BY <1>4, StartsStayApart DEF Inv
<1>6. requested' \ requested = {}
  OBVIOUS
<1> QED
  BY <1>0, <1>2, <1>3, <1>4, <1>5, <1>6, StepKeepsInv

LEMMA SkipBatchStep ==
    ASSUME Inv, NEW s \in Sweep, SkipBatch(s)
    PROVE  Inv' /\ [Atomic!Next]_(Atomic!vars)
<1>0. /\ s \in Actor /\ s \notin Request /\ s \notin Handler /\ RowTypes /\ StateTypes
      /\ pc[s] # "idle" /\ Release(s, NextSweep(s), SweepLocals(s))
      /\ UNCHANGED <<now, rows>>
  BY SweepFacts DEF SkipBatch
<1>1. \A y \in Actor \ {s} : Untouched(y)
  BY <1>0, Released
<1>2. SpareOthers(s)
  BY <1>0, <1>1 DEF SpareOthers, Spared, Respected, rows
<1>3. UNCHANGED Atomic!vars
  BY <1>0, <1>1, HiddenStep
<1> QED
  BY <1>0, <1>2, <1>3, SweepEndKeepsInv DEF rows

(* Rolling up a batch none of whose files changed changes nothing.         *)
LEMMA NothingToRollUp ==
    ASSUME AtomicInv, NEW b \in Batch
    PROVE  RollUp(batchStatus[b], Atomic!Statuses(fileStatus, b)) = batchStatus[b]
<1> DEFINE S == Atomic!Statuses(fileStatus, b)
<1>1. CASE batchStatus[b] \in NoRow
  BY <1>1 DEF NoRow, RollUp, Replaceable, OpenBatchStatuses
<1>2. CASE batchStatus[b] \notin NoRow
  <2>1. Atomic!Justified(batchStatus[b], S)
    BY <1>2 DEF AtomicInv, Atomic!BatchStatusJustified, NoRow, Atomic!NoRow
  <2> HIDE DEF S
  <2>2. /\ batchStatus[b] \in OpenBatchStatuses <=> ~ S \subseteq TerminalFileStatuses
        /\ S = {"EXPIRED"} => batchStatus[b] = "EXPIRED"
    BY <2>1 DEF Atomic!Justified, Atomic!OpenBatchStatuses, Atomic!TerminalFileStatuses,
                OpenBatchStatuses, TerminalFileStatuses
  <2>3. S \subseteq TerminalFileStatuses => batchStatus[b] \notin Replaceable(S)
    <3>1. CASE S = {"EXPIRED"}
      BY <2>2, <3>1 DEF Replaceable, OpenBatchStatuses
    <3>2. CASE S # {"EXPIRED"}
      BY <2>2, <3>2 DEF Replaceable
    <3> QED
      BY <3>1, <3>2
  <2> QED
    BY <2>3 DEF RollUp, S
<1> QED
  BY <1>1, <1>2

LEMMA CommitSweepStep ==
    ASSUME Inv, NEW s \in Sweep, CommitSweep(s)
    PROVE  Inv' /\ [Atomic!Next]_(Atomic!vars)
<1>0. /\ s \in Actor /\ s \notin Request /\ s \notin Handler /\ RowTypes /\ StateTypes
      /\ SweepOK(s)
  BY SweepFacts
<1>1. /\ pc[s] = "commit" /\ fileStatus' = FileView(s) /\ batchStatus' = BatchView(s)
      /\ Release(s, NextSweep(s), SweepLocals(s))
      /\ UNCHANGED <<now, batchExpires, fileExpires, attempt, output, requested>>
  BY DEF CommitSweep
<1>2. PICK b \in Batch : b = job[s].batch
  BY <1>1, SweepFacts
<1>3. /\ Secured(s, b) /\ RolledUpTo(s, b)
      /\ draftFiles[s] = [f \in Overdue(s) |-> "EXPIRED"]
  BY <1>0, <1>1, <1>2 DEF SweepOK, RollingUp
<1>4. \A y \in Actor \ {s} : Untouched(y)
  BY <1>0, <1>1, Released
<1> DEFINE fs == [f \in File |-> IF f \in Overdue(s) THEN "EXPIRED" ELSE fileStatus[f]]
<1>5. FileView(s) = fs
  <2>1. \A f \in File : FileView(s)[f] = fs[f]
    BY <1>0, <1>3, ViewType
  <2>2. FileView(s) = [f \in File |-> FileView(s)[f]] /\ fs = [f \in File |-> fs[f]]
    BY <1>0 DEF FileView, Over, RowTypes
  <2> HIDE DEF fs
  <2> QED
    BY <2>1, <2>2
<1>6. /\ BatchView(s) = Atomic!RolledUp({b}, fs)
      /\ \A c \in Batch : c \in DOMAIN draftBatches[s] => batchLock[c] = s
  <2> HIDE DEF fs
  <2> QED
    BY <1>0, <1>3, <1>5, RolledUpView
<1>7. ASSUME Overdue(s) # {}
      PROVE  [Atomic!Next]_(Atomic!vars)
  <2>1. Atomic!OverdueFiles(b, job[s].cutoff) = Overdue(s)
    BY <1>2 DEF Atomic!OverdueFiles, Atomic!FilesOf, Atomic!LiveFileStatuses, Overdue, FilesOf,
                OverdueFile, LiveFileStatuses
  <2>2. job[s].cutoff \in 0 .. now
    BY <1>0, <1>1, SweepFacts DEF RowTypes
  <2>3. UNCHANGED <<Admitting, CheckedAt, Starting>>
    BY <1>0, <1>4, UntouchedSame, SameRequests, SameStarts
  <2>4. fileStatus' = fs /\ batchStatus' = Atomic!RolledUp({b}, fs)
    BY <1>1, <1>5, <1>6
  <2>5. PICK cutoff \in 0 .. now : cutoff = job[s].cutoff
    BY <2>2
  <2>6. fs = [f \in File |-> IF f \in Atomic!OverdueFiles(b, cutoff) THEN "EXPIRED"
                                                                  ELSE fileStatus[f]]
    BY <2>1, <2>5
  <2> HIDE DEF fs
  <2>7. Atomic!ExpireOverdueFiles(b)
    BY <1>1, <1>7, <2>1, <2>3, <2>4, <2>5, <2>6 DEF Atomic!ExpireOverdueFiles
  <2> QED
    BY <2>7 DEF Atomic!Next
<1>8. ASSUME Overdue(s) = {}
      PROVE  [Atomic!Next]_(Atomic!vars)
  <2>1. fileStatus' = fileStatus
    <3>1. fs = [f \in File |-> fileStatus[f]]
      BY <1>8
    <3> QED
      BY <1>0, <1>1, <1>5, <3>1 DEF RowTypes
  <2>2. batchStatus' = batchStatus
    <3>1. AtomicInv
      BY DEF Inv
    <3>2. fs = fileStatus
      BY <1>1, <1>5, <2>1
    <3> HIDE DEF fs
    <3>3. \A c \in Batch : Atomic!RolledUp({b}, fs)[c] = batchStatus[c]
      BY <3>1, <3>2, NothingToRollUp, SameRollUp DEF Atomic!RolledUp
    <3>4. Atomic!RolledUp({b}, fs) = [c \in Batch |-> Atomic!RolledUp({b}, fs)[c]]
      BY DEF Atomic!RolledUp
    <3>5. batchStatus = [c \in Batch |-> batchStatus[c]]
      BY <1>0 DEF RowTypes
    <3> QED
      BY <1>1, <1>6, <3>3, <3>4, <3>5
  <2>3. UNCHANGED <<now, rows>>
    BY <1>1, <2>1, <2>2 DEF rows
  <2> QED
    BY <1>0, <1>4, <2>3, HiddenStep
<1>9. SpareOthers(s)
  <2>1. \A f \in File : f \in DOMAIN draftFiles[s] => batchLock[BatchOf[f]] = s
    <3> SUFFICES ASSUME NEW f \in File, f \in Overdue(s) PROVE batchLock[BatchOf[f]] = s
      BY <1>3
    <3>1. BatchOf[f] = b /\ fileStatus[f] \in LiveFileStatuses
      BY <1>2, Constants DEF Overdue, OverdueFile
    <3>2. batchStatus[b] # "PURGED"
      BY <1>0, <3>1 DEF RowTypes, NoRow, LiveFileStatuses
    <3> QED
      BY <1>3, <3>1, <3>2 DEF Secured
  <2>2. attempt' = attempt /\ \A f \in File : fileExpires'[f] = fileExpires[f]
    BY <1>1
  <2> QED
    BY <1>0, <1>1, <1>4, <1>6, <2>1, <2>2, CommitSpares
<1> QED
  BY <1>1, <1>7, <1>8, <1>9, SweepEndKeepsInv

LEMMA RetentionStep ==
    ASSUME Inv, NEW s \in Sweep, Retention(s)
    PROVE  Inv' /\ [Atomic!Next]_(Atomic!vars)
BY BeginSweepStep, LockSweptBatchStep, ExpireFilesStep, ReadSweptFilesStep,
   UpdateSweptBatchStep, CommitSweepStep, SkipBatchStep
DEF Retention

-----------------------------------------------------------------------------
(* Purges.                                                                 *)
LEMMA PurgeFacts ==
    ASSUME Inv, NEW p \in Purge
    PROVE  /\ p \in Actor /\ p \notin Request /\ p \notin Handler /\ p \notin Sweep /\ p # Nobody
           /\ RowTypes /\ StateTypes /\ PurgeOK(p) /\ PurgeLocks(p)
           /\ \A b \in Batch : batchLock[b] = p => batchStatus[b] \notin NoRow
<1>1. p \in Actor /\ p \notin Request /\ p \notin Handler /\ p \notin Sweep
  BY ActorsApart
<1>2. p # Nobody /\ RowTypes /\ StateTypes /\ PurgeOK(p) /\ PurgeLocks(p)
  BY <1>1, InvOf DEF ActorOK
<1> QED
  BY <1>1, <1>2 DEF Inv, LockedRowsExist

LEMMA HiddenPurgeStep ==
    ASSUME Inv, NEW p \in Purge, UNCHANGED <<now, rows>>,
           \A y \in Actor \ {p} : Untouched(y), StateTypes',
           PurgeOK(p)', PurgeLocks(p)', LocksExisting(p)
    PROVE  Inv' /\ [Atomic!Next]_(Atomic!vars)
<1>0. p \in Actor /\ p \notin Request /\ p \notin Handler /\ p \notin Sweep
  BY ActorsApart
<1>1. UNCHANGED Atomic!vars
  BY <1>0, HiddenStep
<1>2. ActorOK(p)' /\ NoNewStart(p)
  BY <1>0 DEF ActorOK, NoNewStart
<1> QED
  BY <1>0, <1>1, <1>2, QuietStepKeepsInv

LEMMA BeginPurgeStep ==
    ASSUME Inv, NEW p \in Purge, BeginPurge(p)
    PROVE  Inv' /\ [Atomic!Next]_(Atomic!vars)
<1>0. p \in Actor /\ StateTypes /\ PurgeOK(p) /\ PurgeLocks(p)
  BY PurgeFacts
<1>1. PICK dead \in SUBSET Batch :
        /\ pc[p] = "idle" /\ job' = [job EXCEPT ![p] = [dead |-> dead]]
        /\ pc' = [pc EXCEPT ![p] = "purge"]
        /\ UNCHANGED <<now, rows, locks, drafts>>
  BY DEF BeginPurge, Goto
<1>2. \A y \in Actor \ {p} : Untouched(y)
  BY <1>0, <1>1 DEF StateTypes, Untouched, locks, drafts
<1>3. StateTypes'
  BY <1>0, <1>1 DEF StateTypes, locks, drafts
<1>4. pc'[p] = "purge" /\ job'[p] = [dead |-> dead]
  BY <1>0, <1>1 DEF StateTypes
<1>5. PurgeOK(p)' /\ PurgeLocks(p)' /\ LocksExisting(p)
  BY <1>0, <1>1, <1>4 DEF PurgeOK, PurgeLocks, LocksExisting, NothingDrafted, locks, drafts
<1> QED
  BY <1>1, <1>2, <1>3, <1>5, HiddenPurgeStep

LEMMA LockDeadBatchStep ==
    ASSUME Inv, NEW p \in Purge, NEW b \in Batch, LockDeadBatch(p, b)
    PROVE  Inv' /\ [Atomic!Next]_(Atomic!vars)
<1>0. /\ p \in Actor /\ p # Nobody /\ StateTypes /\ PurgeOK(p) /\ PurgeLocks(p)
      /\ \A c \in Batch : batchLock[c] = p => batchStatus[c] \notin NoRow
  BY PurgeFacts
<1>1. /\ pc[p] = "purge" /\ UNCHANGED <<now, rows, pc, job, ownerLock, drafts>>
      /\ \/ /\ batchStatus[b] \notin NoRow /\ batchLock[b] = Nobody
            /\ batchLock' = [batchLock EXCEPT ![b] = p]
         \/ batchLock' = batchLock
  BY DEF LockDeadBatch, LockBatch, TakeBatchLock, SkipMissingBatch
<1>2. \A y \in Actor \ {p} : Untouched(y)
  BY <1>0, <1>1, Constants DEF StateTypes, Untouched, drafts
<1>3. StateTypes'
  BY <1>0, <1>1 DEF StateTypes, drafts
<1>4. PurgeOK(p)' /\ PurgeLocks(p)'
  BY <1>0, <1>1 DEF PurgeOK, PurgeLocks, NothingDrafted, drafts
<1>5. LocksExisting(p)
  BY <1>0, <1>1 DEF LocksExisting, StateTypes, rows
<1> QED
  BY <1>1, <1>2, <1>3, <1>4, <1>5, HiddenPurgeStep

LEMMA CommitPurgeStep ==
    ASSUME Inv, NEW p \in Purge, CommitPurge(p)
    PROVE  Inv' /\ [Atomic!Next]_(Atomic!vars)
<1>0. /\ p \in Actor /\ p \notin Request /\ p \notin Handler /\ RowTypes /\ StateTypes
      /\ PurgeOK(p)
  BY PurgeFacts
<1>p. PICK gone : gone = {b \in job[p].dead : Purgeable(b)}
  OBVIOUS
<1>1. /\ pc[p] = "purge" /\ \A b \in gone : batchLock[b] = p
      /\ batchStatus' = [b \in Batch |-> IF b \in gone THEN "PURGED" ELSE batchStatus[b]]
      /\ batchExpires' = [b \in Batch |-> IF b \in gone THEN 0 ELSE batchExpires[b]]
      /\ fileStatus' = [f \in File |-> IF BatchOf[f] \in gone THEN "PURGED" ELSE fileStatus[f]]
      /\ fileExpires' = [f \in File |-> IF BatchOf[f] \in gone THEN 0 ELSE fileExpires[f]]
      /\ attempt' = [f \in File |-> IF BatchOf[f] \in gone THEN 0 ELSE attempt[f]]
      /\ output' = [f \in File |-> IF BatchOf[f] \in gone THEN 0 ELSE output[f]]
      /\ Release(p, "idle", Nothing) /\ UNCHANGED <<now, requested>>
  BY <1>p DEF CommitPurge
<1>2. gone \in SUBSET {b \in Batch : Atomic!Purgeable(b)}
  BY <1>0, <1>1, <1>p
  DEF PurgeOK, Purgeable, Atomic!Purgeable, NoRow, Atomic!NoRow, Atomic!Statuses, FilesOf,
      Atomic!FilesOf, LiveFileStatuses, Atomic!LiveFileStatuses
<1>3. pc'[p] = "idle" /\ \A y \in Actor \ {p} : Untouched(y)
  BY <1>0, <1>1, Released
<1>4. ASSUME gone # {}
      PROVE  [Atomic!Next]_(Atomic!vars)
  <2>1. UNCHANGED <<Admitting, CheckedAt, Starting>>
    BY <1>0, <1>3, UntouchedSame, SameRequests, SameStarts
  <2>2. Atomic!PurgeDeadRows
    BY <1>1, <1>2, <1>4, <2>1 DEF Atomic!PurgeDeadRows
  <2> QED
    BY <2>2 DEF Atomic!Next
<1>5. ASSUME gone = {}
      PROVE  [Atomic!Next]_(Atomic!vars)
  <2>1. UNCHANGED <<now, rows>>
    BY <1>0, <1>1, <1>5 DEF rows, RowTypes
  <2> QED
    BY <1>0, <1>3, <2>1, HiddenStep
<1>6. SpareOthers(p)
  <2> SUFFICES ASSUME NEW y \in Actor \ {p}, NEW b \in Batch, batchLock[b] = y
               PROVE  /\ batchStatus'[b] = batchStatus[b]
                      /\ \A f \in FilesOf(b) : /\ fileExpires'[f] = fileExpires[f]
                                               /\ fileStatus'[f] = fileStatus[f]
                                               /\ attempt'[f] = attempt[f]
    BY <1>3 DEF SpareOthers, Spared, Respected
  <2>1. b \notin gone
    BY <1>1
  <2> QED
    BY <1>1, <2>1, Constants
<1>7. requested' \ requested = {}
  BY <1>1
<1> QED
  BY <1>0, <1>1, <1>4, <1>5, <1>6, <1>7, EndKeepsInv

LEMMA AbortPurgeStep ==
    ASSUME Inv, NEW p \in Purge, AbortPurge(p)
    PROVE  Inv' /\ [Atomic!Next]_(Atomic!vars)
<1>0. /\ p \in Actor /\ p \notin Request /\ p \notin Handler /\ StateTypes
      /\ Release(p, "idle", Nothing) /\ UNCHANGED <<now, rows>>
  BY PurgeFacts DEF AbortPurge
<1>1. \A y \in Actor \ {p} : Untouched(y)
  BY <1>0, Released
<1>2. SpareOthers(p)
  BY <1>0, <1>1 DEF SpareOthers, Spared, Respected, rows
<1>3. UNCHANGED Atomic!vars
  BY <1>0, <1>1, HiddenStep
<1> QED
  BY <1>0, <1>2, <1>3, EndKeepsInv DEF rows

LEMMA PurgingStep ==
    ASSUME Inv, NEW p \in Purge, Purging(p)
    PROVE  Inv' /\ [Atomic!Next]_(Atomic!vars)
BY BeginPurgeStep, LockDeadBatchStep, CommitPurgeStep, AbortPurgeStep DEF Purging

-----------------------------------------------------------------------------
(* What is done without a transaction: a single statement, and the clock.  *)
LEMMA LoneStepKeepsInv ==
    ASSUME Inv, [Atomic!Next]_(Atomic!vars), UNCHANGED <<pc, job, locks, drafts, requested>>,
           \A y \in Actor : Respected(y)
    PROVE  Inv'
<1>1. StateTypes'
  BY DEF Inv, StateTypes, locks, drafts
<1>2. Monotone
  BY NeverBack DEF Inv
<1>3. SpareOthers(Nobody)
  BY DEF SpareOthers, Spared, Untouched, locks, drafts
<1>4. StartsApart'
  BY DEF Inv, StartsApart
<1>5. requested' \ requested = {} /\ Nobody \notin Actor
  BY Constants
<1> QED
  BY <1>1, <1>2, <1>3, <1>4, <1>5, StepKeepsInv

LEMMA SameProcesses ==
    ASSUME UNCHANGED <<pc, job>> PROVE UNCHANGED <<Admitting, CheckedAt, Starting>>
BY DEF Admitting, CheckedAt, Starting

LEMMA CreateBatchStep ==
    ASSUME Inv, NEW b \in Batch, CreateBatch(b)
    PROVE  Inv' /\ [Atomic!Next]_(Atomic!vars)
<1>0. RowTypes
  BY AtomicTypes DEF Inv
<1>1. UNCHANGED <<pc, job, locks, drafts, requested>>
  BY DEF CreateBatch
<1>2. Atomic!CreateBatch(b)
  BY <1>1, SameProcesses DEF CreateBatch, Atomic!CreateBatch, FilesOf, Atomic!FilesOf
<1>3. \A y \in Actor : Respected(y)
  <2> SUFFICES ASSUME NEW y \in Actor, NEW c \in Batch, batchLock[c] = y
               PROVE  /\ batchStatus'[c] = batchStatus[c]
                      /\ \A f \in FilesOf(c) : /\ fileExpires'[f] = fileExpires[f]
                                               /\ fileStatus'[f] = fileStatus[f]
                                               /\ attempt'[f] = attempt[f]
    BY DEF Respected
  <2>1. c # b
    BY Constants DEF Inv, LockedRowsExist, NoRow, CreateBatch
  <2>2. batchStatus'[c] = batchStatus[c]
    BY <1>0, <2>1 DEF CreateBatch, RowTypes
  <2>3. ASSUME NEW f \in FilesOf(c)
        PROVE  /\ fileExpires'[f] = fileExpires[f] /\ fileStatus'[f] = fileStatus[f]
               /\ attempt'[f] = attempt[f]
    <3>1. f \in File /\ f \notin FilesOf(b)
      BY <2>1, Constants
    <3> QED
      BY <3>1 DEF CreateBatch
  <2> QED
    BY <2>2, <2>3
<1>4. Atomic!Next
  BY <1>2 DEF Atomic!Next
<1> QED
  BY <1>1, <1>3, <1>4, LoneStepKeepsInv

LEMMA VerifyUploadStep ==
    ASSUME Inv, NEW f \in File, VerifyUpload(f)
    PROVE  Inv' /\ [Atomic!Next]_(Atomic!vars)
<1>0. RowTypes
  BY AtomicTypes DEF Inv
<1>1. /\ UNCHANGED <<pc, job, locks, drafts, requested>>
      /\ fileStatus[f] = "UPLOADING" /\ FileFreeFor(Nobody, f)
      /\ fileStatus' = [fileStatus EXCEPT ![f] = "READY"]
      /\ UNCHANGED <<batchStatus, fileExpires, attempt>>
  BY DEF VerifyUpload
<1>2. Atomic!VerifyUpload(f)
  BY <1>1, SameProcesses DEF VerifyUpload, Atomic!VerifyUpload
<1>3. \A y \in Actor : Respected(y)
  <2> SUFFICES ASSUME NEW y \in Actor, NEW c \in Batch, batchLock[c] = y, NEW g \in FilesOf(c)
               PROVE  \/ fileStatus'[g] = fileStatus[g]
                      \/ g \notin DOMAIN draftFiles[y] /\ Progressed(g)
    BY <1>1 DEF Respected
  <2>1. g \in File /\ y # Nobody
    BY Constants
  <2>2. CASE g # f
    BY <1>0, <1>1, <2>1, <2>2 DEF RowTypes
  <2>3. CASE g = f
    BY <1>0, <1>1, <2>1, <2>3 DEF RowTypes, FileFreeFor, Progressed
  <2> QED
    BY <2>2, <2>3
<1>4. Atomic!Next
  BY <1>2 DEF Atomic!Next
<1> QED
  BY <1>1, <1>3, <1>4, LoneStepKeepsInv

LEMMA TickStep ==
    ASSUME Inv, Tick
    PROVE  Inv' /\ [Atomic!Next]_(Atomic!vars)
<1>1. UNCHANGED <<pc, job, locks, drafts, rows>>
  BY DEF Tick
<1>2. Atomic!Tick
  BY <1>1, SameProcesses DEF Tick, Atomic!Tick, Atomic!rows, rows
<1>3. \A y \in Actor : Respected(y)
  BY <1>1 DEF Respected, rows
<1>4. Atomic!Next
  BY <1>2 DEF Atomic!Next
<1> QED
  BY <1>1, <1>3, <1>4, LoneStepKeepsInv DEF rows

LEMMA StutterStep ==
    ASSUME Inv, UNCHANGED vars
    PROVE  Inv' /\ [Atomic!Next]_(Atomic!vars)
<1>1. UNCHANGED <<now, pc, job, locks, drafts, rows>>
  BY DEF vars
<1>2. UNCHANGED Atomic!vars
  BY <1>1, SameProcesses DEF Atomic!vars, Atomic!rows, rows
<1>3. \A y \in Actor : Respected(y)
  BY <1>1 DEF Respected, rows
<1> QED
  BY <1>1, <1>2, <1>3, LoneStepKeepsInv DEF rows

LEMMA NextStep == Inv /\ [Next]_vars => Inv' /\ [Atomic!Next]_(Atomic!vars)
BY CreateBatchStep, VerifyUploadStep, AdmissionStep, EventStep, RetentionStep, PurgingStep,
   TickStep, StutterStep
DEF Next

-----------------------------------------------------------------------------
(* The atomic specification, as ConversionTransactions instantiates it, is *)
(* the one its proofs are about.                                           *)
LEMMA SameSets ==
    /\ Lifecycle!NoRow = Atomic!NoRow /\ Lifecycle!Attempts = Atomic!Attempts
    /\ Lifecycle!AdmittableStatuses = Atomic!AdmittableStatuses
    /\ Lifecycle!EventAcceptingStatuses = Atomic!EventAcceptingStatuses
    /\ Lifecycle!LiveFileStatuses = Atomic!LiveFileStatuses
    /\ Lifecycle!OpenBatchStatuses = Atomic!OpenBatchStatuses
    /\ Lifecycle!TerminalFileStatuses = Atomic!TerminalFileStatuses
BY DEF Lifecycle!NoRow, Atomic!NoRow, Lifecycle!Attempts, Atomic!Attempts,
       Lifecycle!AdmittableStatuses, Atomic!AdmittableStatuses,
       Lifecycle!EventAcceptingStatuses, Atomic!EventAcceptingStatuses,
       Lifecycle!LiveFileStatuses, Atomic!LiveFileStatuses,
       Lifecycle!OpenBatchStatuses, Atomic!OpenBatchStatuses,
       Lifecycle!TerminalFileStatuses, Atomic!TerminalFileStatuses

LEMMA SameFilesOf == ASSUME NEW b PROVE Lifecycle!FilesOf(b) = Atomic!FilesOf(b)
BY DEF Lifecycle!FilesOf, Atomic!FilesOf

LEMMA SameAtomicRollUp ==
    ASSUME NEW status, NEW S PROVE Lifecycle!RollUp(status, S) = Atomic!RollUp(status, S)
BY DEF Lifecycle!RollUp, Lifecycle!Replaceable, Lifecycle!Outcome,
       Lifecycle!OpenBatchStatuses, Lifecycle!TerminalFileStatuses,
       Atomic!RollUp, Atomic!Replaceable, Atomic!Outcome, Atomic!OpenBatchStatuses,
       Atomic!TerminalFileStatuses

LEMMA SameRolledUp ==
    ASSUME NEW bs, NEW fs PROVE Lifecycle!RolledUp(bs, fs) = Atomic!RolledUp(bs, fs)
BY SameFilesOf, SameAtomicRollUp
DEF Lifecycle!RolledUp, Atomic!RolledUp, Lifecycle!Statuses, Atomic!Statuses

LEMMA SameAtomicCardinality ==
    ASSUME NEW S PROVE Lifecycle!Cardinality(S) = Atomic!Cardinality(S)
BY Zenon DEF Lifecycle!Cardinality, Atomic!Cardinality, Lifecycle!IsFiniteSet,
             Atomic!IsFiniteSet

LEMMA SameVars ==
    ASSUME UNCHANGED Atomic!vars PROVE UNCHANGED Lifecycle!vars
BY DEF Atomic!vars, Atomic!rows, Lifecycle!vars, Lifecycle!rows, Admitting, CheckedAt, Starting

LEMMA SameNext == ASSUME Atomic!Next PROVE Lifecycle!Next
<1> USE DEF Admitting, CheckedAt, Starting
<1>1. ASSUME NEW b \in Batch, Atomic!CreateBatch(b) PROVE Lifecycle!CreateBatch(b)
  BY <1>1 DEF Atomic!CreateBatch, Lifecycle!CreateBatch, Atomic!FilesOf, Lifecycle!FilesOf
<1>2. ASSUME NEW f \in File, Atomic!VerifyUpload(f) PROVE Lifecycle!VerifyUpload(f)
  BY <1>2 DEF Atomic!VerifyUpload, Lifecycle!VerifyUpload
<1>3. ASSUME NEW r \in Request, NEW b \in Batch, Atomic!CheckAdmittable(r, b)
      PROVE  Lifecycle!CheckAdmittable(r, b)
  BY <1>3 DEF Atomic!CheckAdmittable, Lifecycle!CheckAdmittable, Atomic!AdmittableStatuses,
              Lifecycle!AdmittableStatuses, Atomic!rows, Lifecycle!rows
<1>4. ASSUME NEW r \in Request, Atomic!AdmitReadyFiles(r) PROVE Lifecycle!AdmitReadyFiles(r)
  <2>1. ASSUME NEW claimed, NEW evicted, NEW t, NEW retention,
               Atomic!Admit(r, claimed, evicted, t, retention)
        PROVE  Lifecycle!Admit(r, claimed, evicted, t, retention)
    BY <2>1, SameRolledUp, SameSets
    DEF Atomic!Admit, Lifecycle!Admit, Atomic!AfterAdmission, Lifecycle!AfterAdmission
  <2>2. Lifecycle!ReadyFiles(Admitting[r]) = Atomic!ReadyFiles(Admitting[r])
    BY DEF Lifecycle!ReadyFiles, Atomic!ReadyFiles, Lifecycle!FilesOf, Atomic!FilesOf
  <2>3. Lifecycle!Evictable(r) = Atomic!Evictable(r)
    BY DEF Lifecycle!Evictable, Atomic!Evictable
  <2> QED
    BY <1>4, <2>1, <2>2, <2>3 DEF Atomic!AdmitReadyFiles, Lifecycle!AdmitReadyFiles
<1>5. ASSUME NEW r \in Request, Atomic!LeaveUnadmitted(r) PROVE Lifecycle!LeaveUnadmitted(r)
  BY <1>5 DEF Atomic!LeaveUnadmitted, Lifecycle!LeaveUnadmitted, Atomic!rows, Lifecycle!rows
<1>6. ASSUME NEW f \in File, NEW a \in Atomic!Attempts, Atomic!ApplyStarted(f, a)
      PROVE  Lifecycle!ApplyStarted(f, a)
  BY <1>6, SameAtomicCardinality, SameSets
  DEF Atomic!ApplyStarted, Lifecycle!ApplyStarted, Atomic!AcceptsStarted,
      Lifecycle!AcceptsStarted
<1>7. ASSUME NEW f \in File, NEW a \in Atomic!Attempts, Atomic!MarkBatchProcessing(f, a)
      PROVE  Lifecycle!MarkBatchProcessing(f, a)
  BY <1>7 DEF Atomic!MarkBatchProcessing, Lifecycle!MarkBatchProcessing
<1>8. ASSUME NEW f \in File, NEW a \in Atomic!Attempts, Atomic!LoseStartedHandler(f, a)
      PROVE  Lifecycle!LoseStartedHandler(f, a)
  BY <1>8 DEF Atomic!LoseStartedHandler, Lifecycle!LoseStartedHandler, Atomic!rows,
              Lifecycle!rows
<1>9. ASSUME NEW f \in File, NEW a \in Atomic!Attempts, NEW o \in {"COMPLETED", "FAILED"},
             Atomic!ApplyResult(f, a, o)
      PROVE  Lifecycle!ApplyResult(f, a, o)
  BY <1>9, SameRolledUp, SameSets
  DEF Atomic!ApplyResult, Lifecycle!ApplyResult, Atomic!AcceptsResult, Lifecycle!AcceptsResult
<1>10. ASSUME NEW b \in Batch, Atomic!ExpireOverdueFiles(b)
       PROVE  Lifecycle!ExpireOverdueFiles(b)
  <2>1. \A cutoff : Lifecycle!OverdueFiles(b, cutoff) = Atomic!OverdueFiles(b, cutoff)
    BY SameFilesOf, SameSets DEF Lifecycle!OverdueFiles, Atomic!OverdueFiles
  <2> QED
    BY <1>10, <2>1, SameRolledUp
    DEF Atomic!ExpireOverdueFiles, Lifecycle!ExpireOverdueFiles
<1>11. ASSUME Atomic!PurgeDeadRows PROVE Lifecycle!PurgeDeadRows
  <2>1. \A b \in Batch : Lifecycle!Purgeable(b) = Atomic!Purgeable(b)
    BY SameFilesOf, SameSets
    DEF Lifecycle!Purgeable, Atomic!Purgeable, Lifecycle!Statuses, Atomic!Statuses
  <2>2. {b \in Batch : Lifecycle!Purgeable(b)} = {b \in Batch : Atomic!Purgeable(b)}
    BY <2>1
  <2> QED
    BY <1>11, <2>2 DEF Atomic!PurgeDeadRows, Lifecycle!PurgeDeadRows
<1>12. ASSUME Atomic!Tick PROVE Lifecycle!Tick
  BY <1>12 DEF Atomic!Tick, Lifecycle!Tick, Atomic!rows, Lifecycle!rows
<1> QED
  BY <1>1, <1>2, <1>3, <1>4, <1>5, <1>6, <1>7, <1>8, <1>9, <1>10, <1>11, <1>12, SameSets
  DEF Atomic!Next, Lifecycle!Next

LEMMA NoneStarting == ASSUME Init PROVE Starting = {}
BY DEF Init, Starting, Actor

LEMMA InitImplements ==
    ASSUME Init PROVE Atomic!Init /\ Lifecycle!Init
<1>1. \A x \in Actor : pc[x] = "idle"
  BY DEF Init
<1>2. Admitting = [r \in Request |-> NoBatch] /\ CheckedAt = [r \in Request |-> 0]
  BY <1>1, ActorsApart DEF Admitting, CheckedAt
<1>3. Atomic!Init
  BY <1>2, NoneStarting DEF Init, Atomic!Init
<1> QED
  BY <1>3 DEF Atomic!Init, Lifecycle!Init, Admitting, CheckedAt, Starting

LEMMA InitInv == Init => Inv
<1> SUFFICES ASSUME Init PROVE Inv
  OBVIOUS
<1>1. AtomicInv
  <2>1. Atomic!Init
    BY InitImplements
  <2>2. Atomic!TypeOK
    BY <2>1, AtomicAssumption, Atomic!InitTypeOK DEF Atomic!InitTypeOK
  <2>3. Atomic!BatchStatusJustified
    BY <2>1 DEF Atomic!Init, Atomic!BatchStatusJustified, Atomic!NoRow
  <2> QED
    BY <2>2, <2>3 DEF AtomicInv
<1>2. StateTypes
  BY DEF Init, StateTypes
<1>3. LockedRowsExist /\ RequestedRowsExisted
  BY DEF Init, LockedRowsExist, RequestedRowsExisted
<1>4. ASSUME NEW x \in Actor
      PROVE  /\ pc[x] = "idle" /\ NothingDrafted(x)
             /\ \A b \in Batch : batchLock[b] # x
             /\ \A s \in Subject : ownerLock[s] # x
  BY Constants DEF Init, NothingDrafted
<1>5. StartsApart
  BY <1>4, ActorsApart DEF StartsApart
<1>6. ASSUME NEW x \in Actor PROVE ActorOK(x)
  <2>1. AdmissionOK(x) /\ AdmissionLocks(x)
    BY <1>4 DEF AdmissionOK, AdmissionLocks
  <2>2. EventOK(x) /\ EventLocks(x)
    BY <1>4 DEF EventOK, EventLocks, RollingUp, NothingDrafted
  <2>3. SweepOK(x) /\ SweepLocks(x)
    BY <1>4 DEF SweepOK, SweepLocks, RollingUp, NothingDrafted
  <2>4. PurgeOK(x) /\ PurgeLocks(x)
    BY <1>4 DEF PurgeOK, PurgeLocks
  <2> QED
    BY <2>1, <2>2, <2>3, <2>4 DEF ActorOK
<1> QED
  BY <1>1, <1>2, <1>3, <1>5, <1>6 DEF Inv

LEMMA InvHolds == Spec => []Inv
BY InitInv, NextStep, PTL DEF Spec

(***************************************************************************)
(* The statements of completeUploads, the worker events, the sweep and the *)
(* purge, interleaved in any way under their row locks, do what the same   *)
(* transactions do when each happens at once.  About the FOR UPDATE in     *)
(* admitReadyFiles, apply(RESULT) and expireOverdueFiles: a transaction    *)
(* takes effect at its commit, on rows nobody changed since it read them.  *)
(***************************************************************************)
THEOREM TransactionsAreAtomic == Spec => ImplementsLifecycle
<1>1. Inv /\ [Next]_vars => [Lifecycle!Next]_(Lifecycle!vars)
  BY NextStep, SameNext, SameVars
<1>2. Init => Lifecycle!Init
  BY InitImplements
<1> QED
  BY <1>1, <1>2, InvHolds, PTL DEF Spec, ImplementsLifecycle, Lifecycle!Spec

-----------------------------------------------------------------------------
(* Who waits for whom.  Locks are taken in the order owner, first batch,   *)
(* the owner's other batches, files; an actor waits only for one that is   *)
(* further on.                                                             *)
Ahead(x) ==
    IF pc[x] = "lockOwner" THEN 3
    ELSE IF pc[x] \in {"lockOwnBatch", "startBatch", "lockBatch", "sweep"} THEN 2
    ELSE IF pc[x] = "lockOwnersBatches" THEN 1
    ELSE 0

(* Whoever drafted a change of a file holds its batch.                     *)
LEMMA DraftsAreLocked ==
    ASSUME Inv, NEW y \in Actor \ Purge, NEW f \in File, f \in DOMAIN draftFiles[y]
    PROVE  batchLock[BatchOf[f]] = y
<1>1. DOMAIN Nothing = {}
  BY DEF Nothing
<1>2. CASE y \in Request
  <2>1. AdmissionOK(y)
    BY <1>2, RequestFacts
  <2>2. pc[y] = "commit" /\ draftFiles[y] = AdmittedFiles(y) /\ Claimed(y) /\ Evicted(y)
    BY <1>1, <2>1 DEF AdmissionOK, Written, NothingDrafted
  <2>3. f \in job[y].claimed \/ f \in job[y].evicted
    BY <2>2 DEF AdmittedFiles
  <2> QED
    BY <2>2, <2>3 DEF Claimed, Evicted
<1>3. CASE y \in Handler
  <2>1. EventOK(y)
    BY <1>3, HandlerFacts
  <2>2. Accepted(y)
    BY <1>1, <2>1 DEF EventOK
  <2> QED
    BY <2>2 DEF Accepted
<1>4. CASE y \in Sweep
  <2>1. SweepOK(y) /\ RowTypes
    BY <1>4, SweepFacts
  <2>2. pc[y] \in {"readFiles", "rollUp", "commit"} /\ f \in Overdue(y)
    BY <1>1, <2>1 DEF SweepOK
  <2>3. /\ job[y].batch \in Batch /\ Secured(y, job[y].batch)
        /\ BatchOf[f] = job[y].batch /\ fileStatus[f] \in LiveFileStatuses
    BY <2>1, <2>2, Constants DEF SweepOK, Overdue, OverdueFile
  <2>4. batchStatus[BatchOf[f]] # "PURGED"
    BY <2>1, <2>3 DEF RowTypes, NoRow, LiveFileStatuses
  <2> QED
    BY <2>3, <2>4 DEF Secured
<1> QED
  BY <1>2, <1>3, <1>4 DEF Actor

(* How far the holder of a lock is.                                        *)
LEMMA LockersAreAhead ==
    ASSUME Inv, NEW y \in Actor \ Purge, NEW b \in Batch, batchLock[b] = y
    PROVE  /\ Ahead(y) \in {0, 1}
           /\ Ahead(y) = 1 => /\ y \in Request /\ job[y].limited
                              /\ SubjectOf[b] = SubjectOf[job[y].batch]
                              /\ ownerLock[SubjectOf[job[y].batch]] = y
<1>1. CASE y \in Request
  <2>1. AdmissionOK(y) /\ AdmissionLocks(y)
    BY <1>1, RequestFacts
  <2>2. /\ pc[y] \in {"claim", "lockOwnersBatches", "write", "commit"}
        /\ SubjectOf[b] = SubjectOf[job[y].batch]
    BY <2>1 DEF AdmissionLocks
  <2> QED
    BY <1>1, <2>1, <2>2 DEF AdmissionOK, AdmissionLocks, Ahead
<1>2. CASE y \in Handler
  <2>1. pc[y] \in {"claimFile", "readFiles", "rollUp", "commit"}
    BY <1>2, HandlerFacts DEF EventLocks
  <2> QED
    BY <2>1 DEF Ahead
<1>3. CASE y \in Sweep
  <2>1. pc[y] \in {"expire", "readFiles", "rollUp", "commit"}
    BY <1>3, SweepFacts DEF SweepLocks
  <2> QED
    BY <2>1 DEF Ahead
<1> QED
  BY <1>1, <1>2, <1>3 DEF Actor

(* An actor that holds the batch it works on waits for nobody.             *)
LEMMA SecuredWaitsForNobody ==
    ASSUME Inv, NEW x \in Actor, NEW y \in Actor \ Purge, x # y, NEW b \in Batch, Secured(x, b)
    PROVE  batchLock[b] # y /\ \A f \in FilesOf(b) : f \notin DOMAIN draftFiles[y]
<1>1. batchLock[b] # y
  BY Constants DEF Secured, Inv, LockedRowsExist, NoRow
<1> QED
  BY <1>1, DraftsAreLocked, Constants

LEMMA WaitingIsBehind ==
    ASSUME Inv, NEW x \in Actor \ Purge, NEW y \in Actor \ Purge, WaitsFor(x, y)
    PROVE  Ahead(y) < Ahead(x)
<1>1. x # y
  BY DEF WaitsFor
<1>2. ASSUME NEW b \in Batch, batchLock[b] = y, b \in AwaitedBatches(x)
      PROVE  Ahead(y) < Ahead(x)
  <2>1. Ahead(y) \in {0, 1}
    BY <1>2, LockersAreAhead
  <2>2. CASE pc[x] \in {"lockOwnBatch", "startBatch", "lockBatch", "sweep"}
    BY <2>1, <2>2 DEF Ahead
  <2>3. CASE pc[x] = "lockOwnersBatches"
    <3>1. x \in Request
      BY <2>3, HandlerFacts, SweepFacts DEF Actor, EventOK, SweepOK
    <3>2. job[x].limited /\ SubjectOf[b] = SubjectOf[job[x].batch]
      BY <1>2, <2>3, <3>1, RequestFacts DEF AdmissionOK, AwaitedBatches, OwnersBatches
    <3>3. ownerLock[SubjectOf[b]] = x
      BY <2>3, <3>1, <3>2, RequestFacts DEF AdmissionLocks
    <3>4. Ahead(y) # 1
      BY <1>1, <1>2, <3>3, LockersAreAhead
    <3> QED
      BY <2>1, <2>3, <3>4 DEF Ahead
  <2>4. CASE pc[x] = "rollUp"
    <3>1. Secured(x, RollUpTarget(x)) /\ RollUpTarget(x) \in Batch
      <4>1. CASE x \in Handler
        BY <2>4, <4>1, HandlerFacts DEF EventOK, Accepted, Secured, RollUpTarget
      <4>2. CASE x \in Sweep
        BY <2>4, <4>2, SweepFacts DEF SweepOK, RollUpTarget
      <4>3. CASE x \in Request
        BY <2>4, <4>3, RequestFacts DEF AdmissionOK
      <4> QED
        BY <4>1, <4>2, <4>3 DEF Actor
    <3>2. b = RollUpTarget(x)
      BY <1>2, <2>4 DEF AwaitedBatches
    <3> QED
      BY <1>1, <1>2, <3>1, <3>2, SecuredWaitsForNobody
  <2> QED
    BY <1>2, <2>2, <2>3, <2>4 DEF AwaitedBatches
<1>3. ASSUME NEW f, f \in AwaitedFiles(x), f \in DOMAIN draftFiles[y]
      PROVE  FALSE
  <2>1. CASE pc[x] = "claimFile"
    <3>1. x \in Handler
      BY <2>1, RequestFacts, SweepFacts DEF Actor, AdmissionOK, SweepOK
    <3>2. /\ Secured(x, BatchOf[job[x].file]) /\ BatchOf[job[x].file] \in Batch
          /\ job[x].file \in File
      BY <2>1, <3>1, HandlerFacts DEF EventOK
    <3>3. f = job[x].file
      BY <1>3, <2>1 DEF AwaitedFiles
    <3> QED
      BY <1>1, <1>3, <3>2, <3>3, SecuredWaitsForNobody, Constants
  <2>2. CASE pc[x] = "expire"
    <3>1. x \in Sweep
      BY <2>2, RequestFacts, HandlerFacts DEF Actor, AdmissionOK, EventOK
    <3>2. job[x].batch \in Batch /\ Secured(x, job[x].batch)
      BY <2>2, <3>1, SweepFacts DEF SweepOK
    <3>3. f \in FilesOf(job[x].batch)
      BY <1>3, <2>2 DEF AwaitedFiles
    <3> QED
      BY <1>1, <1>3, <3>2, <3>3, SecuredWaitsForNobody
  <2> QED
    BY <1>3, <2>1, <2>2 DEF AwaitedFiles
<1>4. ASSUME pc[x] = "lockOwner", ownerLock[SubjectOf[job[x].batch]] = y
      PROVE  Ahead(y) < Ahead(x)
  <2>1. x \in Request
    BY <1>4, HandlerFacts, SweepFacts DEF Actor, EventOK, SweepOK
  <2>2. SubjectOf[job[x].batch] \in Subject
    BY <1>4, <2>1, RequestFacts
  <2>3. y \in Request
    BY <1>4, <2>2, HandlerFacts, SweepFacts DEF Actor, EventLocks, SweepLocks
  <2>4. pc[y] # "lockOwner"
    BY <1>4, <2>2, <2>3, RequestFacts DEF AdmissionLocks
  <2> QED
    BY <1>4, <2>4 DEF Ahead
<1>5. \A b \in AwaitedBatches(x) : batchLock[b] = y => b \in Batch
  <2>1. ASSUME NEW b \in AwaitedBatches(x), batchLock[b] = y PROVE b \in Batch
    <3>1. CASE x \in Request
      BY <2>1, <3>1, RequestFacts DEF AwaitedBatches, OwnersBatches, AdmissionOK
    <3>2. CASE x \in Handler
      BY <2>1, <3>2, HandlerFacts DEF AwaitedBatches, RollUpTarget, EventOK
    <3>3. CASE x \in Sweep
      BY <2>1, <3>3, SweepFacts, ActorsApart DEF AwaitedBatches, RollUpTarget, SweepOK
    <3> QED
      BY <3>1, <3>2, <3>3 DEF Actor
  <2> QED
    BY <2>1
<1> QED
  BY <1>2, <1>3, <1>4, <1>5 DEF WaitsFor

(***************************************************************************)
(* Among admissions, worker events and sweeps somebody can always go on:   *)
(* of any set of them, the one that is furthest on waits for none of the   *)
(* others.  About the lock order of admitReadyFiles (advisory lock, own    *)
(* batch, the owner's batches) against the one batch that apply and        *)
(* expireOverdueFiles hold.                                                *)
(***************************************************************************)
THEOREM DeadlockNeedsThePurge == Spec => []CyclesNeedThePurge
<1>1. Inv => CyclesNeedThePurge
  <2> SUFFICES ASSUME Inv, NEW waiting \in (SUBSET (Actor \ Purge)) \ {{}}
               PROVE  \E x \in waiting : \A y \in waiting : ~ WaitsFor(x, y)
    BY DEF CyclesNeedThePurge
  <2>1. PICK some \in waiting : TRUE
    OBVIOUS
  <2>2. \A x \in waiting : Ahead(x) \in {0, 1, 2, 3}
    BY DEF Ahead
  <2>3. PICK x \in waiting : \A y \in waiting : Ahead(x) <= Ahead(y)
    BY <2>1, <2>2
  <2>4. ASSUME NEW y \in waiting PROVE ~ WaitsFor(x, y)
    <3>1. Ahead(x) \in Int /\ Ahead(y) \in Int /\ Ahead(x) <= Ahead(y)
      BY <2>2, <2>3
    <3> QED
      BY <3>1, WaitingIsBehind
  <2> QED
    BY <2>4
<1> QED
  BY <1>1, InvHolds, PTL
=============================================================================
