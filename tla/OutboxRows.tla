----------------------------- MODULE OutboxRows ------------------------------
(***************************************************************************)
(* The outbox rows of conversion-api, what an instance of                  *)
(* outbox/outbox-publisher.service.ts keeps of them while it sends, and    *)
(* what is promised of both.  OutboxPublisher has the steps.               *)
(***************************************************************************)
EXTENDS Integers, Sequences, FiniteSets, SequencesExt

CONSTANTS
    Event,          \* outbox rows
    Poison,         \* rows whose send SQS always refuses
    Publisher,      \* instances: drain coalesces the calls within one
    ClaimBatchSize, \* CLAIM_BATCH_SIZE
    SendDeadline,   \* SEND_DEADLINE_MS, in seconds
    SendTimes,      \* how long a send may take: up to connectionTimeout + requestTimeout
    TxTimeout,      \* CLAIM_TRANSACTION_TIMEOUT_MS, in seconds
    MaxUnanswered,  \* bound: sends SQS accepted without the api learning of it
    MaxCuts         \* bound: transactions that are cut off

ASSUME OutboxAssumption ==
    /\ Poison \subseteq Event
    /\ SendTimes \subseteq Nat
    /\ ClaimBatchSize \in Nat /\ SendDeadline \in Nat /\ TxTimeout \in Nat
    /\ MaxUnanswered \in Nat /\ MaxCuts \in Nat

VARIABLES
    row,       \* "none", "pending" or "deleted"
    due,       \* pending rows that may be claimed, by next_attempt_at
    claimed,   \* the rows each publisher's transaction has locked, in sending order
    delivered, \* deliveredIds
    failed,    \* failedIds
    elapsed,   \* seconds since the transaction began to send
    sent,      \* history: messages SQS accepted for a row
    unsure,    \* history: of those, the ones the api did not record
    unanswered, cuts  \* how often either thing happened

Tried(p) == delivered[p] \cup failed[p]

-----------------------------------------------------------------------------
(***************************************************************************)
(* Types; what is due or claimed is pending, and no row is there twice or  *)
(* claimed by two instances.                                               *)
(***************************************************************************)
OutboxTypes ==
    /\ row \in [Event -> {"none", "pending", "deleted"}]
    /\ due \in Seq(Event) /\ IsInjective(due)
    /\ claimed \in [Publisher -> Seq(Event)]
    /\ delivered \in [Publisher -> SUBSET Event]
    /\ failed \in [Publisher -> SUBSET Event]
    /\ elapsed \in [Publisher -> Nat]
    /\ sent \in [Event -> Nat] /\ unsure \in [Event -> Nat]
    /\ unanswered \in 0 .. MaxUnanswered /\ cuts \in 0 .. MaxCuts
    /\ \A e \in ToSet(due) : row[e] = "pending"
    /\ \A p \in Publisher : /\ Tried(p) \subseteq ToSet(claimed[p])
                           /\ ToSet(claimed[p]) \subseteq ToSet(due)
    /\ \A p, q \in Publisher : p # q => ToSet(claimed[p]) \cap ToSet(claimed[q]) = {}

(***************************************************************************)
(* Each event is sent exactly once, however many instances drain           *)
(* (outbox-publisher.db.spec.ts:160), but for the sends the api could not  *)
(* record; and no row goes before its message is out.                      *)
(***************************************************************************)
Recorded(e) == row[e] = "deleted" \/ \E p \in Publisher : e \in delivered[p]

SentOnceButForUnsure ==
    /\ OutboxTypes
    /\ \A e \in Event : sent[e] = unsure[e] + IF Recorded(e) THEN 1 ELSE 0

(***************************************************************************)
(* Sending never runs into the transaction's own timeout, which would roll *)
(* back after sends that were accepted: the deadline leaves room for the   *)
(* slowest send.                                                           *)
(***************************************************************************)
SendsEndInTime == \A p \in Publisher : elapsed[p] < TxTimeout
==============================================================================
