--------------------------- MODULE OutboxPublisher ---------------------------
(***************************************************************************)
(* conversion-api's outbox/outbox-publisher.service.ts: instances that     *)
(* claim the due outbox rows with FOR UPDATE SKIP LOCKED, send them to SQS *)
(* inside the transaction, and delete what was sent.                       *)
(*                                                                         *)
(* `due` holds the rows whose next_attempt_at has come, in that order: a   *)
(* row joins it at its end, when its time comes.  How long a row backs off *)
(* is left open.  Time is counted inside a transaction only, in seconds    *)
(* of sending; the database's own statements take none of it.              *)
(***************************************************************************)
EXTENDS OutboxRows

tx == <<claimed, delivered, failed, elapsed>>
mishaps == <<unanswered, cuts>>
vars == <<row, due, tx, sent, unsure, mishaps>>

Init ==
    /\ row = [e \in Event |-> "none"]
    /\ due = << >>
    /\ claimed = [p \in Publisher |-> << >>]
    /\ delivered = [p \in Publisher |-> {}]
    /\ failed = [p \in Publisher |-> {}]
    /\ elapsed = [p \in Publisher |-> 0]
    /\ sent = [e \in Event |-> 0]
    /\ unsure = [e \in Event |-> 0]
    /\ unanswered = 0
    /\ cuts = 0

Locked == UNION {ToSet(claimed[p]) : p \in Publisher}

-----------------------------------------------------------------------------
(* An admission commits its events.                                        *)
Insert(e) ==
    /\ row[e] = "none"
    /\ row' = [row EXCEPT ![e] = "pending"]
    /\ due' = Append(due, e)
    /\ UNCHANGED <<tx, sent, unsure, mishaps>>

(* A failed row's next_attempt_at has come.                                *)
BackoffEnds(e) ==
    /\ row[e] = "pending"
    /\ e \notin ToSet(due)
    /\ due' = Append(due, e)
    /\ UNCHANGED <<row, tx, sent, unsure, mishaps>>

-----------------------------------------------------------------------------
(* Some due rows, in the order in which they are due.                      *)
IsDueBefore(e, f) == \E i, j \in DOMAIN due : i < j /\ due[i] = e /\ due[j] = f

InDueOrder(rows) ==
    {s \in Bijection(1 .. Cardinality(rows), rows) :
        \A i, j \in DOMAIN s : i < j => IsDueBefore(s[i], s[j])}

(* drain: a transaction claims the first due rows nobody has locked.       *)
Claimable == InDueOrder(ToSet(due) \ Locked)

FirstOf(s) == IF Len(s) <= ClaimBatchSize THEN s ELSE SubSeq(s, 1, ClaimBatchSize)

Claim(p) ==
    /\ claimed[p] = << >>
    /\ ToSet(due) \ Locked # {}
    /\ \E s \in Claimable : claimed' = [claimed EXCEPT ![p] = FirstOf(s)]
    /\ UNCHANGED <<row, due, delivered, failed, elapsed, sent, unsure, mishaps>>

Untried(p) == ToSet(claimed[p]) \ Tried(p)

\* The rows are tried in claim order, until the deadline has passed.
MaySendWithoutDeadline(p) == Untried(p) # {}

MaySend(p) == Untried(p) # {} /\ elapsed[p] <= SendDeadline

NextEvent(p) == claimed[p][Cardinality(Tried(p)) + 1]

SpendTime(p) == \E d \in SendTimes : elapsed' = [elapsed EXCEPT ![p] = @ + d]

(* SQS accepted the message and said so.                                   *)
SendAccepted(p) ==
    LET e == NextEvent(p) IN
    /\ MaySend(p)
    /\ e \notin Poison
    /\ SpendTime(p)
    /\ sent' = [sent EXCEPT ![e] = @ + 1]
    /\ delivered' = [delivered EXCEPT ![p] = @ \cup {e}]
    /\ UNCHANGED <<row, due, claimed, failed, unsure, mishaps>>

(* SQS refused, or could not be reached.                                   *)
SendRefused(p) ==
    /\ MaySend(p)
    /\ SpendTime(p)
    /\ failed' = [failed EXCEPT ![p] = @ \cup {NextEvent(p)}]
    /\ UNCHANGED <<row, due, claimed, delivered, sent, unsure, mishaps>>

(* SQS accepted the message, but the answer was lost or came too late.     *)
SendUnanswered(p) ==
    LET e == NextEvent(p) IN
    /\ MaySend(p)
    /\ e \notin Poison
    /\ unanswered < MaxUnanswered
    /\ unanswered' = unanswered + 1
    /\ SpendTime(p)
    /\ sent' = [sent EXCEPT ![e] = @ + 1]
    /\ unsure' = [unsure EXCEPT ![e] = @ + 1]
    /\ failed' = [failed EXCEPT ![p] = @ \cup {e}]
    /\ UNCHANGED <<row, due, claimed, delivered, cuts>>

EndTransaction(p) ==
    /\ claimed' = [claimed EXCEPT ![p] = << >>]
    /\ delivered' = [delivered EXCEPT ![p] = {}]
    /\ failed' = [failed EXCEPT ![p] = {}]
    /\ elapsed' = [elapsed EXCEPT ![p] = 0]

(* Deletes the delivered rows, postpones the failed ones and commits.      *)
(* Rows the deadline left untried stay where they are.                     *)
StillDueKeepingFailed(p) == InDueOrder(ToSet(due) \ delivered[p])

StillDue(p) == InDueOrder(ToSet(due) \ Tried(p))

RowsDeletingClaimed(p) ==
    [e \in Event |-> IF e \in ToSet(claimed[p]) THEN "deleted" ELSE row[e]]

RowsAfter(p) == [e \in Event |-> IF e \in delivered[p] THEN "deleted" ELSE row[e]]

Commit(p) ==
    /\ claimed[p] # << >>
    /\ ~ MaySend(p)
    /\ row' = RowsAfter(p)
    /\ due' \in StillDue(p)
    /\ EndTransaction(p)
    /\ UNCHANGED <<sent, unsure, mishaps>>

(* The process stops, or the database does: the rows are as before, and    *)
(* what was sent was sent.                                                 *)
RollBack(p) ==
    /\ claimed[p] # << >>
    /\ cuts < MaxCuts
    /\ cuts' = cuts + 1
    /\ unsure' = [e \in Event |-> IF e \in delivered[p] THEN unsure[e] + 1 ELSE unsure[e]]
    /\ EndTransaction(p)
    /\ UNCHANGED <<row, due, sent, unanswered>>

-----------------------------------------------------------------------------
Next ==
    \/ \E e \in Event : Insert(e)
    \/ \E e \in Event : BackoffEnds(e)
    \/ \E p \in Publisher : Claim(p)
    \/ \E p \in Publisher : SendAccepted(p)
    \/ \E p \in Publisher : SendRefused(p)
    \/ \E p \in Publisher : SendUnanswered(p)
    \/ \E p \in Publisher : Commit(p)
    \/ \E p \in Publisher : RollBack(p)

Spec == Init /\ [][Next]_vars

(***************************************************************************)
(* The cron fires every five seconds, every send, commit and backoff ends, *)
(* and SQS does not refuse every send of a row that is no poison.          *)
(* Transactions are cut off MaxCuts times at most.                         *)
(***************************************************************************)
Fairness ==
    /\ \A p \in Publisher : /\ WF_vars(Claim(p))
                            /\ WF_vars(SendAccepted(p) \/ SendRefused(p))
                            /\ WF_vars(Commit(p))
    /\ \A e \in Event :
          /\ WF_vars(BackoffEnds(e))
          /\ SF_vars(\E p \in Publisher :
                        MaySend(p) /\ NextEvent(p) = e /\ SendAccepted(p))

FairSpec == Spec /\ Fairness

-----------------------------------------------------------------------------
(***************************************************************************)
(* A row that is no poison is delivered in the end: rows that keep failing *)
(* do not block those behind them (outbox-publisher.db.spec.ts:106), and   *)
(* transactions that were cut off are made up for.                         *)
(***************************************************************************)
EventsAreDelivered ==
    \A e \in Event \ Poison : row[e] = "pending" ~> row[e] = "deleted"
==============================================================================
