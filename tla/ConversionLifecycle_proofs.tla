---------------------- MODULE ConversionLifecycle_proofs ----------------------
(***************************************************************************)
(* Proofs about ConversionLifecycle for any number of batches, files,      *)
(* requests and attempts, and any retention times.                         *)
(*                                                                         *)
(* The status a batch shows cannot be shown justified on its own: the      *)
(* roll-up reads the files, so the argument needs the row types and the    *)
(* foreign key with it.  IInv is their conjunction and is inductive.  The  *)
(* two facts that carry every step are RollUpJustified (the roll-up of a   *)
(* batch whose outcome was justified is justified, if a closed batch's     *)
(* files only went from COMPLETED to EXPIRED) and StatusesCongruent (a     *)
(* batch none of whose files changed has the statuses it had).             *)
(***************************************************************************)
EXTENDS ConversionLifecycle, TLAPS

IInv == TypeOK /\ BatchStatusJustified

(* The roll-up gives a status the files justify.                           *)
LEMMA RollUpJustified ==
    ASSUME NEW current \in BatchStatuses,
           NEW S0, NEW S, S0 # {}, S # {},
           Justified(current, S0),
           current \notin OpenBatchStatuses =>
               /\ S \subseteq S0 \cup {"EXPIRED"}
               /\ S0 \ {"COMPLETED"} \subseteq S
    PROVE  /\ RollUp(current, S) \in BatchStatuses
           /\ Justified(RollUp(current, S), S)
<1>1. CASE current \in OpenBatchStatuses
  BY <1>1 DEF RollUp, Outcome, Replaceable, Justified, BatchStatuses, OpenBatchStatuses,
              TerminalFileStatuses
<1>2. CASE current \notin OpenBatchStatuses
  <2>1. S \subseteq TerminalFileStatuses
    BY <1>2 DEF Justified, TerminalFileStatuses
  <2>2. CASE S = {"EXPIRED"}
    BY <1>2, <2>1, <2>2 DEF RollUp, Outcome, Replaceable, Justified, BatchStatuses,
                            OpenBatchStatuses, TerminalFileStatuses
  <2>3. CASE S # {"EXPIRED"}
    <3>1. RollUp(current, S) = current
      BY <1>2, <2>3 DEF RollUp, Replaceable
    <3>2. current # "EXPIRED"
      BY <1>2, <2>3 DEF Justified
    <3>3. current = "PARTIAL" => S # {"COMPLETED"}
      BY <1>2 DEF Justified
    <3>4. QED
      BY <1>2, <2>1, <2>3, <3>1, <3>2, <3>3 DEF Justified, BatchStatuses
  <2>4. QED
    BY <2>2, <2>3
<1>3. QED
  BY <1>1, <1>2

(* Files that did not change leave their batch's statuses alone.           *)
LEMMA StatusesCongruent ==
    ASSUME NEW b \in Batch, NEW fs, NEW gs, \A f \in FilesOf(b) : fs[f] = gs[f]
    PROVE  Statuses(fs, b) = Statuses(gs, b)
BY DEF Statuses

LEMMA StatusesNonEmpty ==
    ASSUME NEW b \in Batch, NEW fs
    PROVE  Statuses(fs, b) # {}
<1>1. PICK f \in FilesOf(b) : TRUE
  BY LifecycleAssumption
<1>2. fs[f] \in Statuses(fs, b)
  BY <1>1 DEF Statuses
<1>3. QED
  BY <1>2

(* A batch justified as open or closed stays so while one of its files is  *)
(* unfinished before and after.                                            *)
LEMMA OpenStaysJustified ==
    ASSUME NEW status \in OpenBatchStatuses, NEW S, ~ S \subseteq TerminalFileStatuses
    PROVE  Justified(status, S)
BY DEF Justified, OpenBatchStatuses, TerminalFileStatuses

(* What rollUpBatch does to a status: it keeps the row, and a row that does *)
(* not exist is not touched.                                               *)
LEMMA RollUpTyped ==
    ASSUME NEW current \in BatchStatuses \cup NoRow, NEW S
    PROVE  /\ RollUp(current, S) \in BatchStatuses \cup NoRow
           /\ \A s \in NoRow : RollUp(current, S) = s <=> current = s
BY DEF RollUp, Outcome, Replaceable, BatchStatuses, OpenBatchStatuses, NoRow

LEMMA RolledUpTyped ==
    ASSUME batchStatus \in [Batch -> BatchStatuses \cup NoRow], NEW bs, NEW fs
    PROVE  /\ RolledUp(bs, fs) \in [Batch -> BatchStatuses \cup NoRow]
           /\ \A b \in Batch, s \in NoRow : RolledUp(bs, fs)[b] = s <=> batchStatus[b] = s
<1>1. ASSUME NEW b \in Batch
      PROVE  /\ RolledUp(bs, fs)[b] \in BatchStatuses \cup NoRow
             /\ \A s \in NoRow : RolledUp(bs, fs)[b] = s <=> batchStatus[b] = s
  BY RollUpTyped DEF RolledUp
<1>2. RolledUp(bs, fs) = [b \in Batch |-> RolledUp(bs, fs)[b]]
  BY DEF RolledUp
<1>3. QED
  BY <1>1, <1>2

(* A transaction that rolls up the batches bs over the file rows fs leaves *)
(* every batch justified whose files it changed only in ways that bs       *)
(* covers.                                                                 *)
LEMMA RolledUpJustified ==
    ASSUME TypeOK, BatchStatusJustified, NEW bs, NEW fs, NEW b \in Batch,
           batchStatus[b] \notin NoRow,
           b \notin bs => \A f \in FilesOf(b) : fs[f] = fileStatus[f],
           batchStatus[b] \notin OpenBatchStatuses =>
               \A f \in FilesOf(b) : \/ fs[f] = fileStatus[f]
                                     \/ fileStatus[f] = "COMPLETED" /\ fs[f] = "EXPIRED"
    PROVE  Justified(RolledUp(bs, fs)[b], Statuses(fs, b))
<1> DEFINE S0 == Statuses(fileStatus, b)
           S == Statuses(fs, b)
<1>1. Justified(batchStatus[b], S0) /\ batchStatus[b] \in BatchStatuses
  BY DEF BatchStatusJustified, TypeOK
<1>2. CASE b \notin bs
  <2>1. S = S0
    BY <1>2, StatusesCongruent
  <2>2. RolledUp(bs, fs)[b] = batchStatus[b]
    BY <1>2 DEF RolledUp
  <2>3. QED
    BY <1>1, <2>1, <2>2
<1>3. CASE b \in bs
  <2>1. S0 # {} /\ S # {}
    BY StatusesNonEmpty
  <2>2. batchStatus[b] \notin OpenBatchStatuses =>
            S \subseteq S0 \cup {"EXPIRED"} /\ S0 \ {"COMPLETED"} \subseteq S
    BY DEF Statuses
  <2>3. Justified(RollUp(batchStatus[b], S), S)
    <3> HIDE DEF S, S0
    <3> QED BY <1>1, <2>1, <2>2, RollUpJustified
  <2>4. RolledUp(bs, fs)[b] = RollUp(batchStatus[b], S)
    BY <1>3 DEF RolledUp
  <2>5. QED
    BY <2>3, <2>4
<1>4. QED
  BY <1>2, <1>3

(* A batch with an unfinished file is open.                                *)
LEMMA UnfinishedFileOpensBatch ==
    ASSUME TypeOK, BatchStatusJustified, NEW f \in File,
           fileStatus[f] \in FileStatuses \ TerminalFileStatuses
    PROVE  batchStatus[BatchOf[f]] \in OpenBatchStatuses
<1>1. BatchOf[f] \in Batch /\ f \in FilesOf(BatchOf[f])
  BY LifecycleAssumption DEF FilesOf
<1>2. fileStatus[f] \notin NoRow
  BY DEF FileStatuses, LiveFileStatuses, TerminalFileStatuses, NoRow
<1>3. batchStatus[BatchOf[f]] \notin NoRow
  BY <1>1, <1>2 DEF TypeOK
<1>4. fileStatus[f] \in Statuses(fileStatus, BatchOf[f])
  BY <1>1 DEF Statuses
<1>5. QED
  BY <1>1, <1>3, <1>4 DEF BatchStatusJustified, Justified

-----------------------------------------------------------------------------
(***************************************************************************)
(* Type correctness and the foreign key.                                   *)
(***************************************************************************)
LEMMA InitTypeOK == Init => TypeOK
BY LifecycleAssumption DEF Init, TypeOK, NoRow, rows

LEMMA NextTypeOK == TypeOK /\ [Next]_vars => TypeOK'
<1> SUFFICES ASSUME TypeOK, [Next]_vars PROVE TypeOK'
  OBVIOUS
<1> USE LifecycleAssumption
<1>1. ASSUME NEW b \in Batch, CreateBatch(b) PROVE TypeOK'
  <2>1. now + UploadWindow \in Nat
    BY DEF TypeOK
  <2>2. \A f \in File : f \in FilesOf(b) <=> BatchOf[f] = b
    BY DEF FilesOf
  <2>3. \A f \in File, s \in NoRow : fileStatus'[f] = s <=> batchStatus'[BatchOf[f]] = s
    BY <1>1, <2>2 DEF CreateBatch, TypeOK, NoRow, FileStatuses, LiveFileStatuses
  <2>4. QED
    BY <1>1, <2>1, <2>3 DEF CreateBatch, TypeOK, BatchStatuses, OpenBatchStatuses,
                            FileStatuses, LiveFileStatuses
<1>2. ASSUME NEW f \in File, VerifyUpload(f) PROVE TypeOK'
  BY <1>2 DEF VerifyUpload, TypeOK, FileStatuses, LiveFileStatuses, NoRow
<1>3. ASSUME NEW r \in Request, NEW b \in Batch, CheckAdmittable(r, b) PROVE TypeOK'
  BY <1>3 DEF CheckAdmittable, TypeOK, rows
<1>4. ASSUME NEW r \in Request, AdmitReadyFiles(r) PROVE TypeOK'
  <2> DEFINE b == admitting[r]
  <2>1. PICK claimed \in SUBSET ReadyFiles(b), evicted \in SUBSET Evictable(r),
             t \in checkedAt[r] .. now, retention \in Retentions :
          Admit(r, claimed, evicted, t, retention)
    BY <1>4 DEF AdmitReadyFiles
  <2>2. t \in Nat /\ t + retention \in Nat
    BY DEF TypeOK
  <2>3. b \in Batch
    BY <1>4 DEF AdmitReadyFiles, TypeOK
  <2>4. claimed \subseteq File /\ evicted \subseteq File
    BY DEF ReadyFiles, Evictable, FilesOf
  <2>5. \A f \in claimed : fileStatus[f] = "READY" /\ BatchOf[f] = b
    BY DEF ReadyFiles, FilesOf
  <2>6. \A f \in evicted : fileStatus[f] = "COMPLETED"
    BY DEF Evictable
  <2> DEFINE bs == {BatchOf[f] : f \in evicted}
             fs == AfterAdmission(claimed, evicted)
             rolled == RolledUp(bs, fs)
  <2>7. /\ rolled \in [Batch -> BatchStatuses \cup NoRow]
        /\ \A c \in Batch, s \in NoRow : rolled[c] = s <=> batchStatus[c] = s
    BY RolledUpTyped DEF TypeOK
  <2>8. batchStatus' = [rolled EXCEPT ![b] = "QUEUED"] /\ fileStatus' = fs
    BY <2>1 DEF Admit
  <2>9. fs \in [File -> FileStatuses \cup NoRow]
    BY DEF AfterAdmission, TypeOK, FileStatuses, LiveFileStatuses, TerminalFileStatuses
  <2>10. \A f \in File, s \in NoRow : fs[f] = s <=> fileStatus[f] = s
    BY <2>5, <2>6 DEF AfterAdmission, NoRow
  <2> HIDE DEF rolled, fs
  <2>11. /\ batchStatus' \in [Batch -> BatchStatuses \cup NoRow]
         /\ \A c \in Batch, s \in NoRow : batchStatus'[c] = s <=> batchStatus[c] = s
    BY <2>1, <2>3, <2>7, <2>8 DEF Admit, BatchStatuses, OpenBatchStatuses, AdmittableStatuses,
                                  NoRow
  <2>12. \A f \in File, s \in NoRow : fileStatus'[f] = s <=> batchStatus'[BatchOf[f]] = s
    BY <2>8, <2>10, <2>11 DEF TypeOK
  <2>13. fileExpires' \in [File -> Nat] /\ batchExpires' \in [Batch -> Nat]
    BY <2>1, <2>2 DEF Admit, TypeOK
  <2>14. /\ admitting' \in [Request -> Batch \cup {NoBatch}]
         /\ checkedAt' \in [Request -> Nat]
         /\ UNCHANGED <<now, attempt, output, starting>>
    BY <2>1 DEF Admit, TypeOK
  <2>15. requested' \subseteq File
    BY <2>1, <2>4 DEF Admit, TypeOK
  <2>16. QED
    BY <2>8, <2>9, <2>11, <2>12, <2>13, <2>14, <2>15 DEF TypeOK
<1>5. ASSUME NEW r \in Request, LeaveUnadmitted(r) PROVE TypeOK'
  BY <1>5 DEF LeaveUnadmitted, TypeOK, rows
<1>6. ASSUME NEW f \in File, NEW a \in Attempts, ApplyStarted(f, a) PROVE TypeOK'
  BY <1>6 DEF ApplyStarted, AcceptsStarted, EventAcceptingStatuses, TypeOK, Attempts,
              FileStatuses, LiveFileStatuses, NoRow
<1>7. ASSUME NEW f \in File, NEW a \in Attempts, MarkBatchProcessing(f, a) PROVE TypeOK'
  BY <1>7 DEF MarkBatchProcessing, TypeOK, BatchStatuses, OpenBatchStatuses, NoRow
<1>8. ASSUME NEW f \in File, NEW a \in Attempts, LoseStartedHandler(f, a) PROVE TypeOK'
  BY <1>8 DEF LoseStartedHandler, TypeOK, rows
<1>9. ASSUME NEW f \in File, NEW a \in Attempts, NEW o \in {"COMPLETED", "FAILED"},
             ApplyResult(f, a, o)
      PROVE  TypeOK'
  <2>1. batchStatus' = RolledUp({BatchOf[f]}, fileStatus')
    BY <1>9 DEF ApplyResult
  <2>2. /\ batchStatus' \in [Batch -> BatchStatuses \cup NoRow]
        /\ \A c \in Batch, s \in NoRow : batchStatus'[c] = s <=> batchStatus[c] = s
    BY <2>1, RolledUpTyped DEF TypeOK
  <2>3. /\ fileStatus' \in [File -> FileStatuses \cup NoRow]
        /\ \A g \in File, s \in NoRow : fileStatus'[g] = s <=> fileStatus[g] = s
    BY <1>9 DEF ApplyResult, AcceptsResult, EventAcceptingStatuses, TypeOK, FileStatuses,
                LiveFileStatuses, TerminalFileStatuses, NoRow
  <2>4. output' \in [File -> 0 .. MaxAttempt]
    BY <1>9 DEF ApplyResult, TypeOK, Attempts
  <2>5. UNCHANGED <<now, batchExpires, fileExpires, attempt, requested, admitting,
                    checkedAt, starting>>
    BY <1>9 DEF ApplyResult
  <2>6. QED
    BY <2>2, <2>3, <2>4, <2>5 DEF TypeOK
<1>10. ASSUME NEW b \in Batch, ExpireOverdueFiles(b) PROVE TypeOK'
  <2>1. PICK cutoff \in 0 .. now :
          /\ fileStatus' = [f \in File |-> IF f \in OverdueFiles(b, cutoff) THEN "EXPIRED"
                                            ELSE fileStatus[f]]
          /\ batchStatus' = RolledUp({b}, fileStatus')
          /\ UNCHANGED <<now, batchExpires, fileExpires, attempt, output, requested,
                         admitting, checkedAt, starting>>
    BY <1>10 DEF ExpireOverdueFiles
  <2>2. /\ batchStatus' \in [Batch -> BatchStatuses \cup NoRow]
        /\ \A c \in Batch, s \in NoRow : batchStatus'[c] = s <=> batchStatus[c] = s
    BY <2>1, RolledUpTyped DEF TypeOK
  <2>3. \A f \in OverdueFiles(b, cutoff) : fileStatus[f] \in LiveFileStatuses
    BY DEF OverdueFiles
  <2>4. /\ fileStatus' \in [File -> FileStatuses \cup NoRow]
        /\ \A g \in File, s \in NoRow : fileStatus'[g] = s <=> fileStatus[g] = s
    BY <2>1, <2>3 DEF TypeOK, FileStatuses, LiveFileStatuses, TerminalFileStatuses, NoRow
  <2>5. QED
    BY <2>1, <2>2, <2>4 DEF TypeOK
<1>11. ASSUME PurgeDeadRows PROVE TypeOK'
  <2>1. PICK bs \in SUBSET {b \in Batch : Purgeable(b)} :
          /\ batchStatus' = [b \in Batch |-> IF b \in bs THEN "PURGED" ELSE batchStatus[b]]
          /\ batchExpires' = [b \in Batch |-> IF b \in bs THEN 0 ELSE batchExpires[b]]
          /\ fileStatus' = [f \in File |-> IF BatchOf[f] \in bs THEN "PURGED"
                                            ELSE fileStatus[f]]
          /\ fileExpires' = [f \in File |-> IF BatchOf[f] \in bs THEN 0 ELSE fileExpires[f]]
          /\ attempt' = [f \in File |-> IF BatchOf[f] \in bs THEN 0 ELSE attempt[f]]
          /\ output' = [f \in File |-> IF BatchOf[f] \in bs THEN 0 ELSE output[f]]
          /\ UNCHANGED <<now, requested, admitting, checkedAt, starting>>
    BY <1>11 DEF PurgeDeadRows
  <2>2. \A f \in File, s \in NoRow : fileStatus'[f] = s <=> batchStatus'[BatchOf[f]] = s
    BY <2>1 DEF TypeOK, NoRow
  <2>3. QED
    BY <2>1, <2>2 DEF TypeOK, NoRow
<1>12. ASSUME Tick PROVE TypeOK'
  BY <1>12 DEF Tick, TypeOK, rows
<1>13. CASE UNCHANGED vars
  BY <1>13 DEF vars, rows, TypeOK
<1>14. QED
  BY <1>1, <1>2, <1>3, <1>4, <1>5, <1>6, <1>7, <1>8, <1>9, <1>10, <1>11, <1>12, <1>13
     DEF Next

(* Rows have their types and a file row exists exactly while its batch row *)
(* does, whatever the number of batches, files and requests.               *)
THEOREM TypeCorrect == Spec => []TypeOK
<1>1. Init => TypeOK
  BY InitTypeOK
<1>2. TypeOK /\ [Next]_vars => TypeOK'
  BY NextTypeOK
<1>3. QED
  BY <1>1, <1>2, PTL DEF Spec

-----------------------------------------------------------------------------
(***************************************************************************)
(* The status of every batch is justified by its files.                    *)
(***************************************************************************)

(* A step that changes no batch row, and leaves every changed file as      *)
(* unfinished as it was, keeps the batches justified.                      *)
LEMMA UnfinishedChangeKeepsJustified ==
    ASSUME IInv, batchStatus' = batchStatus, NEW f \in File,
           fileStatus[f] \in FileStatuses \ TerminalFileStatuses,
           NEW s \in FileStatuses \ TerminalFileStatuses,
           fileStatus' = [fileStatus EXCEPT ![f] = s]
    PROVE  BatchStatusJustified'
<1> SUFFICES ASSUME NEW c \in Batch, batchStatus[c] \notin NoRow
             PROVE  Justified(batchStatus[c], Statuses(fileStatus', c))
  BY DEF BatchStatusJustified
<1>1. CASE c = BatchOf[f]
  <2>1. batchStatus[c] \in OpenBatchStatuses
    BY <1>1, UnfinishedFileOpensBatch DEF IInv
  <2>2. fileStatus'[f] = s
    BY DEF IInv, TypeOK
  <2>3. s \in Statuses(fileStatus', c)
    BY <1>1, <2>2 DEF Statuses, FilesOf
  <2>4. QED
    BY <2>1, <2>3, OpenStaysJustified
<1>2. CASE c # BatchOf[f]
  <2>1. \A g \in FilesOf(c) : fileStatus'[g] = fileStatus[g]
    BY <1>2 DEF FilesOf, IInv, TypeOK
  <2>2. Statuses(fileStatus', c) = Statuses(fileStatus, c)
    BY <2>1, StatusesCongruent
  <2>3. QED
    BY <2>2 DEF IInv, BatchStatusJustified
<1>3. QED
  BY <1>1, <1>2

LEMMA NextJustified == IInv /\ [Next]_vars => BatchStatusJustified'
<1> SUFFICES ASSUME IInv, [Next]_vars PROVE BatchStatusJustified'
  OBVIOUS
<1> USE LifecycleAssumption
<1>0. TypeOK /\ BatchStatusJustified
  BY DEF IInv
<1>1. ASSUME NEW b \in Batch, CreateBatch(b) PROVE BatchStatusJustified'
  <2> SUFFICES ASSUME NEW c \in Batch, batchStatus'[c] \notin NoRow
               PROVE  Justified(batchStatus'[c], Statuses(fileStatus', c))
    BY DEF BatchStatusJustified
  <2>1. CASE c = b
    <3>1. batchStatus'[c] = "UPLOADING"
      BY <1>0, <1>1, <2>1 DEF CreateBatch, TypeOK
    <3>2. PICK f \in FilesOf(b) : TRUE
      OBVIOUS
    <3>3. fileStatus'[f] = "UPLOADING"
      BY <1>1, <3>2 DEF CreateBatch, FilesOf
    <3>4. "UPLOADING" \in Statuses(fileStatus', c)
      BY <2>1, <3>2, <3>3 DEF Statuses
    <3>5. QED
      BY <3>1, <3>4, OpenStaysJustified DEF OpenBatchStatuses, TerminalFileStatuses
  <2>2. CASE c # b
    <3>1. \A g \in FilesOf(c) : fileStatus'[g] = fileStatus[g]
      BY <1>1, <2>2 DEF CreateBatch, FilesOf
    <3>2. batchStatus'[c] = batchStatus[c]
      BY <1>0, <1>1, <2>2 DEF CreateBatch, TypeOK
    <3>3. QED
      BY <1>0, <3>1, <3>2, StatusesCongruent DEF BatchStatusJustified
  <2>3. QED
    BY <2>1, <2>2
<1>2. ASSUME NEW f \in File, VerifyUpload(f) PROVE BatchStatusJustified'
  BY <1>2, UnfinishedChangeKeepsJustified
     DEF VerifyUpload, FileStatuses, LiveFileStatuses, TerminalFileStatuses
<1>3. ASSUME NEW r \in Request, NEW b \in Batch, CheckAdmittable(r, b)
      PROVE  BatchStatusJustified'
  BY <1>0, <1>3 DEF CheckAdmittable, rows, BatchStatusJustified, Statuses
<1>4. ASSUME NEW r \in Request, AdmitReadyFiles(r) PROVE BatchStatusJustified'
  <2> DEFINE b == admitting[r]
  <2>1. PICK claimed \in SUBSET ReadyFiles(b), evicted \in SUBSET Evictable(r),
             t \in checkedAt[r] .. now, retention \in Retentions :
          Admit(r, claimed, evicted, t, retention)
    BY <1>4 DEF AdmitReadyFiles
  <2> DEFINE fs == AfterAdmission(claimed, evicted)
             bs == {BatchOf[f] : f \in evicted}
  <2>2. /\ fileStatus' = fs
        /\ batchStatus' = [RolledUp(bs, fs) EXCEPT ![b] = "QUEUED"]
    BY <2>1 DEF Admit
  <2>3. b \in Batch
    BY <1>0, <1>4 DEF AdmitReadyFiles, TypeOK
  <2>4. PICK ready \in claimed : TRUE
    BY <2>1 DEF Admit
  <2>5. \A f \in claimed : f \in File /\ BatchOf[f] = b /\ fileStatus[f] = "READY"
    BY DEF ReadyFiles, FilesOf
  <2>6. \A f \in evicted : f \in File /\ fileStatus[f] = "COMPLETED"
    BY DEF Evictable
  <2>7. RolledUp(bs, fs) \in [Batch -> BatchStatuses \cup NoRow]
    BY <1>0, RolledUpTyped DEF TypeOK
  <2> SUFFICES ASSUME NEW c \in Batch, batchStatus'[c] \notin NoRow
               PROVE  Justified(batchStatus'[c], Statuses(fileStatus', c))
    BY DEF BatchStatusJustified
  <2>8. CASE c = b
    <3>1. batchStatus'[c] = "QUEUED"
      BY <2>2, <2>7, <2>8
    <3>2. fs[ready] = "QUEUED" /\ ready \in FilesOf(c)
      BY <2>4, <2>5, <2>8 DEF AfterAdmission, FilesOf
    <3>3. "QUEUED" \in Statuses(fileStatus', c)
      BY <2>2, <3>2 DEF Statuses
    <3>4. QED
      BY <3>1, <3>3, OpenStaysJustified DEF OpenBatchStatuses, TerminalFileStatuses
  <2>9. CASE c # b
    <3>1. batchStatus'[c] = RolledUp(bs, fs)[c]
      BY <2>2, <2>7, <2>9
    <3>2. batchStatus[c] \notin NoRow
      BY <1>0, <3>1, RolledUpTyped DEF TypeOK
    <3>3. \A f \in FilesOf(c) : \/ fs[f] = fileStatus[f]
                                \/ f \in evicted /\ fileStatus[f] = "COMPLETED" /\ fs[f] = "EXPIRED"
      BY <2>5, <2>6, <2>9 DEF AfterAdmission, FilesOf
    <3>4. c \notin bs => \A f \in FilesOf(c) : fs[f] = fileStatus[f]
      BY <3>3 DEF FilesOf
    <3>5. Justified(RolledUp(bs, fs)[c], Statuses(fs, c))
      <4> HIDE DEF fs, bs
      <4> QED BY <1>0, <3>2, <3>3, <3>4, RolledUpJustified
    <3>6. QED
      BY <2>2, <3>1, <3>5
  <2>10. QED
    BY <2>8, <2>9
<1>5. ASSUME NEW r \in Request, LeaveUnadmitted(r) PROVE BatchStatusJustified'
  BY <1>0, <1>5 DEF LeaveUnadmitted, rows, BatchStatusJustified, Statuses
<1>6. ASSUME NEW f \in File, NEW a \in Attempts, ApplyStarted(f, a) PROVE BatchStatusJustified'
  BY <1>6, UnfinishedChangeKeepsJustified
     DEF ApplyStarted, AcceptsStarted, EventAcceptingStatuses, FileStatuses, LiveFileStatuses,
         TerminalFileStatuses
<1>7. ASSUME NEW f \in File, NEW a \in Attempts, MarkBatchProcessing(f, a)
      PROVE  BatchStatusJustified'
  <2> SUFFICES ASSUME NEW c \in Batch, batchStatus'[c] \notin NoRow
               PROVE  Justified(batchStatus'[c], Statuses(fileStatus', c))
    BY DEF BatchStatusJustified
  <2>1. Statuses(fileStatus', c) = Statuses(fileStatus, c)
    BY <1>7 DEF MarkBatchProcessing
  <2>2. \/ batchStatus'[c] = batchStatus[c]
        \/ batchStatus[c] = "QUEUED" /\ batchStatus'[c] = "PROCESSING"
    BY <1>0, <1>7 DEF MarkBatchProcessing, TypeOK
  <2>3. Justified(batchStatus[c], Statuses(fileStatus, c))
    BY <1>0, <2>2 DEF BatchStatusJustified, NoRow
  <2>4. QED
    BY <2>1, <2>2, <2>3 DEF Justified, OpenBatchStatuses
<1>8. ASSUME NEW f \in File, NEW a \in Attempts, LoseStartedHandler(f, a)
      PROVE  BatchStatusJustified'
  BY <1>0, <1>8 DEF LoseStartedHandler, rows, BatchStatusJustified, Statuses
<1>9. ASSUME NEW f \in File, NEW a \in Attempts, NEW o \in {"COMPLETED", "FAILED"},
             ApplyResult(f, a, o)
      PROVE  BatchStatusJustified'
  <2> SUFFICES ASSUME NEW c \in Batch, batchStatus'[c] \notin NoRow
               PROVE  Justified(batchStatus'[c], Statuses(fileStatus', c))
    BY DEF BatchStatusJustified
  <2> DEFINE bs == {BatchOf[f]}
             fs == [fileStatus EXCEPT ![f] = o]
  <2>1. fileStatus' = fs /\ batchStatus' = RolledUp(bs, fs)
    BY <1>9 DEF ApplyResult
  <2>2. batchStatus[c] \notin NoRow
    BY <1>0, <2>1, RolledUpTyped DEF TypeOK
  <2>3. \A g \in FilesOf(c) : g # f => fs[g] = fileStatus[g]
    BY <1>0 DEF FilesOf, TypeOK
  <2>4. batchStatus[BatchOf[f]] \in OpenBatchStatuses
    BY <1>0, <1>9, UnfinishedFileOpensBatch
       DEF ApplyResult, AcceptsResult, EventAcceptingStatuses, FileStatuses, LiveFileStatuses,
           TerminalFileStatuses
  <2>5. c \notin bs => \A g \in FilesOf(c) : fs[g] = fileStatus[g]
    BY <2>3 DEF FilesOf
  <2>6. batchStatus[c] \notin OpenBatchStatuses => \A g \in FilesOf(c) : fs[g] = fileStatus[g]
    BY <2>3, <2>4 DEF FilesOf
  <2>7. Justified(RolledUp(bs, fs)[c], Statuses(fs, c))
    <3> HIDE DEF bs, fs
    <3> QED BY <1>0, <2>2, <2>5, <2>6, RolledUpJustified
  <2>8. QED
    BY <2>1, <2>7
<1>10. ASSUME NEW b \in Batch, ExpireOverdueFiles(b) PROVE BatchStatusJustified'
  <2> SUFFICES ASSUME NEW c \in Batch, batchStatus'[c] \notin NoRow
               PROVE  Justified(batchStatus'[c], Statuses(fileStatus', c))
    BY DEF BatchStatusJustified
  <2>1. PICK cutoff \in 0 .. now :
          /\ fileStatus' = [f \in File |-> IF f \in OverdueFiles(b, cutoff) THEN "EXPIRED"
                                            ELSE fileStatus[f]]
          /\ batchStatus' = RolledUp({b}, fileStatus')
    BY <1>10 DEF ExpireOverdueFiles
  <2>2. batchStatus[c] \notin NoRow
    BY <1>0, <2>1, RolledUpTyped DEF TypeOK
  <2>3. \A f \in OverdueFiles(b, cutoff) : f \in FilesOf(b) /\ fileStatus[f] \in LiveFileStatuses
    BY DEF OverdueFiles
  <2>4. c \notin {b} => \A f \in FilesOf(c) : fileStatus'[f] = fileStatus[f]
    BY <2>1, <2>3 DEF FilesOf
  <2>5. ASSUME batchStatus[c] \notin OpenBatchStatuses, NEW f \in FilesOf(c)
        PROVE  \/ fileStatus'[f] = fileStatus[f]
               \/ fileStatus[f] = "COMPLETED" /\ fileStatus'[f] = "EXPIRED"
    <3>1. fileStatus[f] \in TerminalFileStatuses
      BY <1>0, <2>2, <2>5 DEF BatchStatusJustified, Justified, Statuses
    <3>2. f \in OverdueFiles(b, cutoff) => fileStatus[f] = "COMPLETED"
      BY <2>3, <3>1 DEF LiveFileStatuses, TerminalFileStatuses
    <3>3. QED
      BY <2>1, <3>2 DEF FilesOf
  <2>6. Justified(RolledUp({b}, fileStatus')[c], Statuses(fileStatus', c))
    BY <1>0, <2>2, <2>4, <2>5, RolledUpJustified
  <2>7. QED
    BY <2>1, <2>6
<1>11. ASSUME PurgeDeadRows PROVE BatchStatusJustified'
  <2> SUFFICES ASSUME NEW c \in Batch, batchStatus'[c] \notin NoRow
               PROVE  Justified(batchStatus'[c], Statuses(fileStatus', c))
    BY DEF BatchStatusJustified
  <2>1. PICK bs \in SUBSET {b \in Batch : Purgeable(b)} :
          /\ batchStatus' = [b \in Batch |-> IF b \in bs THEN "PURGED" ELSE batchStatus[b]]
          /\ fileStatus' = [f \in File |-> IF BatchOf[f] \in bs THEN "PURGED"
                                            ELSE fileStatus[f]]
    BY <1>11 DEF PurgeDeadRows
  <2>2. c \notin bs /\ batchStatus'[c] = batchStatus[c]
    BY <2>1 DEF NoRow
  <2>3. \A f \in FilesOf(c) : fileStatus'[f] = fileStatus[f]
    BY <2>1, <2>2 DEF FilesOf
  <2>4. QED
    BY <1>0, <2>2, <2>3, StatusesCongruent DEF BatchStatusJustified
<1>12. ASSUME Tick PROVE BatchStatusJustified'
  BY <1>0, <1>12 DEF Tick, rows, BatchStatusJustified, Statuses
<1>13. CASE UNCHANGED vars
  BY <1>0, <1>13 DEF vars, rows, BatchStatusJustified, Statuses
<1>14. QED
  BY <1>1, <1>2, <1>3, <1>4, <1>5, <1>6, <1>7, <1>8, <1>9, <1>10, <1>11, <1>12, <1>13
     DEF Next

LEMMA InductiveInvariant == Spec => []IInv
<1>1. Init => IInv
  <2>1. Init => BatchStatusJustified
    BY DEF Init, BatchStatusJustified, NoRow
  <2>2. QED
    BY <2>1, InitTypeOK DEF IInv
<1>2. IInv /\ [Next]_vars => IInv'
  BY NextTypeOK, NextJustified DEF IInv
<1>3. QED
  BY <1>1, <1>2, PTL DEF Spec

(* A batch is open exactly while some file may still change, and shows     *)
(* COMPLETED, FAILED, PARTIAL or EXPIRED only when its files justify it.   *)
THEOREM BatchOutcomeJustified == Spec => []BatchStatusJustified
<1>1. IInv => BatchStatusJustified
  BY DEF IInv
<1>2. QED
  BY <1>1, InductiveInvariant, PTL

-----------------------------------------------------------------------------
(***************************************************************************)
(* Outcomes are final.                                                     *)
(***************************************************************************)

(* rollUpBatch never reopens a batch; it replaces a closed status only by  *)
(* EXPIRED, and only a delivered one.                                      *)
LEMMA RollUpFinal ==
    ASSUME NEW current \in BatchStatuses \ OpenBatchStatuses, NEW S
    PROVE  \/ RollUp(current, S) = current
           \/ current \in {"COMPLETED", "PARTIAL"} /\ RollUp(current, S) = "EXPIRED"
BY DEF RollUp, Outcome, Replaceable, BatchStatuses, OpenBatchStatuses

LEMMA RolledUpFinal ==
    ASSUME NEW bs, NEW fs, NEW b \in Batch,
           batchStatus[b] \in BatchStatuses \ OpenBatchStatuses
    PROVE  \/ RolledUp(bs, fs)[b] = batchStatus[b]
           \/ /\ batchStatus[b] \in {"COMPLETED", "PARTIAL"}
              /\ RolledUp(bs, fs)[b] = "EXPIRED"
BY RollUpFinal DEF RolledUp

LEMMA NextFinalFiles ==
    ASSUME IInv, Next, NEW f \in File
    PROVE  FinishedFileStays(f)
<1> SUFFICES ASSUME fileStatus[f] \in TerminalFileStatuses, fileStatus'[f] # fileStatus[f]
             PROVE  \/ fileStatus[f] = "COMPLETED" /\ fileStatus'[f] = "EXPIRED"
                    \/ fileStatus[f] # "COMPLETED" /\ fileStatus'[f] = "PURGED"
  BY DEF FinishedFileStays
<1> USE LifecycleAssumption
<1>0. TypeOK /\ fileStatus[f] \notin {"NONE", "UPLOADING", "READY", "QUEUED", "PROCESSING"}
  BY DEF IInv, TerminalFileStatuses
<1>1. ASSUME NEW b \in Batch, CreateBatch(b) PROVE FALSE
  <2>1. f \in FilesOf(b)
    BY <1>1 DEF CreateBatch
  <2>2. fileStatus[f] = "NONE"
    BY <1>0, <1>1, <2>1 DEF CreateBatch, TypeOK, NoRow, FilesOf
  <2>3. QED
    BY <1>0, <2>2
<1>2. ASSUME NEW g \in File, VerifyUpload(g) PROVE FALSE
  BY <1>0, <1>2 DEF VerifyUpload, TypeOK
<1>3. ASSUME NEW r \in Request, AdmitReadyFiles(r)
      PROVE  fileStatus[f] = "COMPLETED" /\ fileStatus'[f] = "EXPIRED"
  <2>1. PICK claimed \in SUBSET ReadyFiles(admitting[r]), evicted \in SUBSET Evictable(r),
             t \in checkedAt[r] .. now, retention \in Retentions :
          Admit(r, claimed, evicted, t, retention)
    BY <1>3 DEF AdmitReadyFiles
  <2>2. fileStatus' = AfterAdmission(claimed, evicted)
    BY <2>1 DEF Admit
  <2>3. f \notin claimed
    BY <1>0 DEF ReadyFiles
  <2>4. f \in evicted
    BY <2>2, <2>3 DEF AfterAdmission
  <2>5. QED
    BY <2>2, <2>3, <2>4 DEF AfterAdmission, Evictable
<1>4. ASSUME NEW g \in File, NEW a \in Attempts, ApplyStarted(g, a) PROVE FALSE
  BY <1>0, <1>4 DEF ApplyStarted, AcceptsStarted, EventAcceptingStatuses, TypeOK
<1>5. ASSUME NEW g \in File, NEW a \in Attempts, NEW o \in {"COMPLETED", "FAILED"},
             ApplyResult(g, a, o)
      PROVE  FALSE
  BY <1>0, <1>5 DEF ApplyResult, AcceptsResult, EventAcceptingStatuses, TypeOK
<1>6. ASSUME NEW b \in Batch, ExpireOverdueFiles(b)
      PROVE  fileStatus[f] = "COMPLETED" /\ fileStatus'[f] = "EXPIRED"
  BY <1>0, <1>6 DEF ExpireOverdueFiles, OverdueFiles, LiveFileStatuses
<1>7. ASSUME PurgeDeadRows PROVE fileStatus[f] # "COMPLETED" /\ fileStatus'[f] = "PURGED"
  <2>1. PICK bs \in SUBSET {b \in Batch : Purgeable(b)} :
          fileStatus' = [g \in File |-> IF BatchOf[g] \in bs THEN "PURGED" ELSE fileStatus[g]]
    BY <1>7 DEF PurgeDeadRows
  <2>2. BatchOf[f] \in bs /\ fileStatus'[f] = "PURGED"
    BY <2>1
  <2>3. fileStatus[f] \in Statuses(fileStatus, BatchOf[f])
    BY DEF Statuses, FilesOf
  <2>4. QED
    BY <2>2, <2>3 DEF Purgeable, LiveFileStatuses
<1>8. QED
  BY <1>1, <1>2, <1>3, <1>4, <1>5, <1>6, <1>7
     DEF Next, CheckAdmittable, LeaveUnadmitted, MarkBatchProcessing, LoseStartedHandler, Tick,
         rows

LEMMA NextFinalBatches ==
    ASSUME IInv, Next, NEW b \in Batch
    PROVE  ClosedBatchStays(b)
<1> SUFFICES ASSUME batchStatus[b] \in BatchStatuses \ OpenBatchStatuses,
                    batchStatus'[b] # batchStatus[b]
             PROVE  \/ batchStatus[b] \in {"COMPLETED", "PARTIAL"} /\ batchStatus'[b] = "EXPIRED"
                    \/ batchStatus'[b] = "PURGED"
  BY DEF ClosedBatchStays
<1>0. TypeOK /\ batchStatus[b] \notin {"NONE", "UPLOADING", "QUEUED", "PROCESSING"}
  BY DEF IInv, OpenBatchStatuses, BatchStatuses
<1>1. ASSUME NEW c \in Batch, CreateBatch(c) PROVE FALSE
  BY <1>0, <1>1 DEF CreateBatch, TypeOK
<1>2. ASSUME NEW r \in Request, AdmitReadyFiles(r)
      PROVE  batchStatus[b] \in {"COMPLETED", "PARTIAL"} /\ batchStatus'[b] = "EXPIRED"
  <2>1. PICK claimed \in SUBSET ReadyFiles(admitting[r]), evicted \in SUBSET Evictable(r),
             t \in checkedAt[r] .. now, retention \in Retentions :
          Admit(r, claimed, evicted, t, retention)
    BY <1>2 DEF AdmitReadyFiles
  <2> DEFINE rolled == RolledUp({BatchOf[f] : f \in evicted}, AfterAdmission(claimed, evicted))
  <2>2. batchStatus' = [rolled EXCEPT ![admitting[r]] = "QUEUED"]
    BY <2>1 DEF Admit
  <2>3. b # admitting[r]
    BY <1>0, <2>1 DEF Admit, AdmittableStatuses
  <2>4. rolled \in [Batch -> BatchStatuses \cup NoRow]
    BY <1>0, RolledUpTyped DEF TypeOK
  <2>5. batchStatus'[b] = rolled[b]
    BY <2>2, <2>3, <2>4
  <2>6. QED
    BY <2>5, RolledUpFinal
<1>3. ASSUME NEW f \in File, NEW a \in Attempts, MarkBatchProcessing(f, a) PROVE FALSE
  BY <1>0, <1>3 DEF MarkBatchProcessing, TypeOK
<1>4. ASSUME NEW f \in File, NEW a \in Attempts, NEW o \in {"COMPLETED", "FAILED"},
             ApplyResult(f, a, o)
      PROVE  batchStatus[b] \in {"COMPLETED", "PARTIAL"} /\ batchStatus'[b] = "EXPIRED"
  <2>1. batchStatus' = RolledUp({BatchOf[f]}, fileStatus')
    BY <1>4 DEF ApplyResult
  <2>2. QED
    BY <2>1, RolledUpFinal
<1>5. ASSUME NEW c \in Batch, ExpireOverdueFiles(c)
      PROVE  batchStatus[b] \in {"COMPLETED", "PARTIAL"} /\ batchStatus'[b] = "EXPIRED"
  <2>1. batchStatus' = RolledUp({c}, fileStatus')
    BY <1>5 DEF ExpireOverdueFiles
  <2>2. QED
    BY <2>1, RolledUpFinal
<1>6. ASSUME PurgeDeadRows PROVE batchStatus'[b] = "PURGED"
  BY <1>6 DEF PurgeDeadRows
<1>7. QED
  BY <1>1, <1>2, <1>3, <1>4, <1>5, <1>6
     DEF Next, VerifyUpload, CheckAdmittable, LeaveUnadmitted, ApplyStarted,
         LoseStartedHandler, Tick, rows

(* No event, admission, sweep or purge changes a finished file or a closed *)
(* batch, except that stored results and delivered batches expire and dead *)
(* rows are purged.                                                        *)
THEOREM FinalOutcomes == Spec => OutcomesAreFinal
<1>1. IInv /\ [Next]_vars =>
        [(\A f \in File : FinishedFileStays(f)) /\ (\A b \in Batch : ClosedBatchStays(b))]_rows
  <2> SUFFICES ASSUME IInv, [Next]_vars, ~ UNCHANGED rows
               PROVE  /\ \A f \in File : FinishedFileStays(f)
                      /\ \A b \in Batch : ClosedBatchStays(b)
    OBVIOUS
  <2>1. Next
    BY DEF vars
  <2>2. QED
    BY <2>1, NextFinalFiles, NextFinalBatches
<1>2. QED
  BY <1>1, InductiveInvariant, PTL DEF Spec, OutcomesAreFinal

-----------------------------------------------------------------------------
(***************************************************************************)
(* A stored result belongs to the latest attempt the api saw start.        *)
(***************************************************************************)
LEMMA NextResultFromLatestStart ==
    IInv /\ ResultFromLatestStart /\ [Next]_vars => ResultFromLatestStart'
<1> SUFFICES ASSUME IInv, ResultFromLatestStart, [Next]_vars, NEW f \in File,
                    fileStatus'[f] = "COMPLETED"
             PROVE  output'[f] >= attempt'[f] /\ output'[f] > 0
  BY DEF ResultFromLatestStart
<1>0. TypeOK
  BY DEF IInv
<1>1. CASE fileStatus[f] = "COMPLETED" /\ output'[f] = output[f] /\ attempt'[f] = attempt[f]
  BY <1>1 DEF ResultFromLatestStart
<1>2. ASSUME NEW g \in File, NEW a \in Attempts, ApplyStarted(g, a)
      PROVE  fileStatus[f] = "COMPLETED" /\ output'[f] = output[f] /\ attempt'[f] = attempt[f]
  BY <1>0, <1>2 DEF ApplyStarted, AcceptsStarted, EventAcceptingStatuses, TypeOK
<1>3. ASSUME NEW g \in File, NEW a \in Attempts, NEW o \in {"COMPLETED", "FAILED"},
             ApplyResult(g, a, o)
      PROVE  output'[f] >= attempt'[f] /\ output'[f] > 0
  <2>1. CASE g # f
    BY <1>0, <1>1, <1>3, <2>1 DEF ApplyResult, TypeOK
  <2>2. CASE g = f
    BY <1>0, <1>3, <2>2 DEF ApplyResult, AcceptsResult, TypeOK, Attempts
  <2>3. QED
    BY <2>1, <2>2
<1>4. ASSUME NEW r \in Request, AdmitReadyFiles(r)
      PROVE  fileStatus[f] = "COMPLETED" /\ output'[f] = output[f] /\ attempt'[f] = attempt[f]
  BY <1>4 DEF AdmitReadyFiles, Admit, AfterAdmission
<1>5. ASSUME PurgeDeadRows
      PROVE  fileStatus[f] = "COMPLETED" /\ output'[f] = output[f] /\ attempt'[f] = attempt[f]
  BY <1>5 DEF PurgeDeadRows
<1>6. ASSUME NEW b \in Batch, CreateBatch(b) \/ ExpireOverdueFiles(b)
      PROVE  fileStatus[f] = "COMPLETED" /\ output'[f] = output[f] /\ attempt'[f] = attempt[f]
  BY <1>6 DEF CreateBatch, ExpireOverdueFiles
<1>7. ASSUME NEW g \in File, VerifyUpload(g)
      PROVE  fileStatus[f] = "COMPLETED" /\ output'[f] = output[f] /\ attempt'[f] = attempt[f]
  BY <1>0, <1>7 DEF VerifyUpload, TypeOK
<1>8. QED
  BY <1>1, <1>2, <1>3, <1>4, <1>5, <1>6, <1>7
     DEF Next, vars, rows, CheckAdmittable, LeaveUnadmitted, MarkBatchProcessing,
         LoseStartedHandler, Tick

(* A stored result is never older than the latest attempt seen starting.   *)
THEOREM StoredResultIsLatest == Spec => []ResultFromLatestStart
<1>1. Init => ResultFromLatestStart
  BY DEF Init, ResultFromLatestStart
<1>2. QED
  BY <1>1, NextResultFromLatestStart, InductiveInvariant, PTL DEF Spec
==============================================================================
