----------------------------- MODULE BatchRollup -----------------------------
(***************************************************************************)
(* The status sets and the roll-up rule of conversion-api's                *)
(* lifecycle/batch-rollup.ts: how the statuses of a batch's files decide   *)
(* the status of the batch.  Pure operators; the modules that own the rows *)
(* say when the rule is applied and what is locked while it is.            *)
(***************************************************************************)
OpenBatchStatuses == {"UPLOADING", "QUEUED", "PROCESSING"}

BatchStatuses ==
    OpenBatchStatuses \cup {"COMPLETED", "PARTIAL", "FAILED", "CANCELLED", "EXPIRED"}

\* A live file still has, or may still get, an object that expiry must end.
LiveFileStatuses == {"UPLOADING", "READY", "QUEUED", "PROCESSING", "COMPLETED"}

TerminalFileStatuses == {"COMPLETED", "FAILED", "CANCELLED", "EXPIRED"}

FileStatuses == LiveFileStatuses \cup TerminalFileStatuses

(***************************************************************************)
(* The outcome of a batch whose files have the statuses S, all terminal.   *)
(***************************************************************************)
Outcome(S) ==
    IF S = {"EXPIRED"} THEN "EXPIRED"
    ELSE IF S = {"COMPLETED"} THEN "COMPLETED"
    ELSE IF "COMPLETED" \notin S THEN "FAILED"
    ELSE "PARTIAL"

(***************************************************************************)
(* The batch statuses an outcome may replace: an expired batch supersedes  *)
(* a delivered one, anything else closes an open batch only.               *)
(***************************************************************************)
Replaceable(S) ==
    IF S = {"EXPIRED"} THEN OpenBatchStatuses \cup {"COMPLETED", "PARTIAL"}
    ELSE OpenBatchStatuses

(***************************************************************************)
(* rollUpBatch: the status the batch row has afterwards.                   *)
(***************************************************************************)
RollUpReplacingAny(current, S) ==
    IF S \subseteq TerminalFileStatuses THEN Outcome(S) ELSE current

RollUpLeavingDelivered(current, S) ==
    IF S \subseteq TerminalFileStatuses /\ current \in OpenBatchStatuses
    THEN Outcome(S) ELSE current

RollUp(current, S) ==
    IF S \subseteq TerminalFileStatuses /\ current \in Replaceable(S)
    THEN Outcome(S)
    ELSE current
==============================================================================
