------------------------------ MODULE EmailRows ------------------------------
(***************************************************************************)
(* What notifications writes into a row of email_deliveries, as pure       *)
(* operators: delivery/security-email.service.ts,                          *)
(* delivery/delivery-lease.ts, feedback/ses-feedback-policy.ts and the     *)
(* delivery half of feedback/ses-feedback-transitions.ts.  The modules     *)
(* that own the rows say when each is written.                             *)
(*                                                                         *)
(* A lease is the time it has left, NoLease when there is none.  A         *)
(* feedback event is its kind, the provider's time of it and its           *)
(* fingerprint; codes, addresses and the time of submission are left out.  *)
(***************************************************************************)
EXTENDS Integers

Unset == "unset"      \* callerResult null
NoLease == -1         \* leaseExpiresAt null

CommandResults == {"ACCEPTED", "FAILED", "REJECTED", "SUPPRESSED", "SUBMISSION_UNKNOWN"}

DeliveryStatuses ==
    CommandResults \cup {"PENDING", "DELIVERED", "DELAYED", "BOUNCED", "COMPLAINED"}

-----------------------------------------------------------------------------
(* The events of ses-feedback-policy.ts.  A bounce or complaint of an      *)
(* address on one of SES's suppression lists is a kind of its own.         *)
EventKinds ==
    {"SEND", "DELIVERY_DELAY", "DELIVERY", "REJECT", "RENDERING_FAILURE",
     "TRANSIENT_BOUNCE", "UNDETERMINED_BOUNCE", "PERMANENT_BOUNCE", "COMPLAINT", "LISTED"}

IsTerminalMailboxEvent(e) == e.kind \in {"PERMANENT_BOUNCE", "COMPLAINT", "LISTED"}

FeedbackPrecedence(e) ==
    CASE e.kind = "LISTED" -> 70
      [] e.kind = "COMPLAINT" -> 60
      [] e.kind = "PERMANENT_BOUNCE" -> 50
      [] e.kind \in {"TRANSIENT_BOUNCE", "UNDETERMINED_BOUNCE"} -> 45
      [] e.kind \in {"REJECT", "RENDERING_FAILURE"} -> 40
      [] e.kind = "DELIVERY" -> 30
      [] e.kind = "DELIVERY_DELAY" -> 20
      [] OTHER -> 10

DeliveryStatus(e) ==
    CASE e.kind = "SEND" -> "ACCEPTED"
      [] e.kind = "DELIVERY" -> "DELIVERED"
      [] e.kind = "DELIVERY_DELAY" -> "DELAYED"
      [] e.kind = "LISTED" -> "SUPPRESSED"
      [] e.kind = "COMPLAINT" -> "COMPLAINED"
      [] e.kind = "REJECT" -> "REJECTED"
      [] e.kind = "RENDERING_FAILURE" -> "FAILED"
      [] OTHER -> "BOUNCED"

(* What an event says of the destination; "none": nothing.                 *)
DestinationStatus(e) ==
    CASE e.kind = "DELIVERY" -> "ACTIVE"
      [] e.kind \in {"DELIVERY_DELAY", "TRANSIENT_BOUNCE"} -> "TEMPORARY_FAILURE"
      [] OTHER -> "none"

(* createEventRevision and newerEventFilters: time, rank, fingerprint.     *)
Revision(e) == <<e.at, FeedbackPrecedence(e), e.id>>

NoRevision == <<0, 0, 0>>

OlderRevision(r, s) ==
    \/ r[1] < s[1]
    \/ r[1] = s[1] /\ r[2] < s[2]
    \/ r[1] = s[1] /\ r[2] = s[2] /\ r[3] < s[3]

-----------------------------------------------------------------------------
(* claimDelivery: a new row, final at once when the destination is blocked. *)
NewDelivery(command, blocked, lease) ==
    [command |-> command,
     status |-> IF blocked THEN "SUPPRESSED" ELSE "PENDING",
     result |-> IF blocked THEN "SUPPRESSED" ELSE Unset,
     lease |-> IF blocked THEN NoLease ELSE lease,
     attempts |-> 0, message |-> FALSE, last |-> NoRevision]

(* delivery-lease.ts                                                       *)
LeaseExpired(d) == d.status = "PENDING" /\ d.result = Unset /\ d.lease = 0

ExpireStatusOnly(d) ==
    IF LeaseExpired(d) THEN [d EXCEPT !.status = "SUBMISSION_UNKNOWN", !.lease = NoLease] ELSE d

ExpireLease(d) ==
    IF LeaseExpired(d)
    THEN [d EXCEPT !.status = "SUBMISSION_UNKNOWN", !.result = "SUBMISSION_UNKNOWN",
                   !.lease = NoLease]
    ELSE d

(* persistProviderOutcome: the statuses a submission's outcome may replace. *)
ReplaceablePendingOnly(submission) == {"PENDING"}

Replaceable(submission) ==
    IF submission = "SUBMISSION_UNKNOWN" THEN {"PENDING"} ELSE {"PENDING", "SUBMISSION_UNKNOWN"}

PersistProviderOutcome(d, submission) ==
    LET attached == [d EXCEPT !.message = @ \/ submission = "ACCEPTED"]
    IN IF d.status \in Replaceable(submission)
       THEN [attached EXCEPT !.status = submission, !.lease = NoLease]
       ELSE attached

(* finalizeSubmission and recordProviderAcceptance: the first result stays. *)
OverwriteCallerResult(d, result) == [d EXCEPT !.result = result, !.lease = NoLease]

SetCallerResult(d, result) ==
    IF d.result = Unset THEN [d EXCEPT !.result = result, !.lease = NoLease] ELSE d

FinalizeSubmission(d, submission) ==
    SetCallerResult(PersistProviderOutcome(d, submission), submission)

-----------------------------------------------------------------------------
(* applyDeliveryTransition: a terminal mailbox event replaces any status    *)
(* outside the terminal ones, and those too when it is newer; any other     *)
(* event must be newer and leaves terminal statuses alone.                  *)
TerminalDeliveryStatuses == {"BOUNCED", "COMPLAINED", "SUPPRESSED"}

AppliesWhenNewer(d, e) == OlderRevision(d.last, Revision(e))

AppliesToDelivery(d, e) ==
    LET newer == OlderRevision(d.last, Revision(e)) IN
    IF IsTerminalMailboxEvent(e)
    THEN d.status \notin TerminalDeliveryStatuses \/ newer
    ELSE d.status \notin TerminalDeliveryStatuses /\ newer

ApplyDeliveryTransition(d, e) ==
    IF AppliesToDelivery(d, e)
    THEN [d EXCEPT !.status = DeliveryStatus(e), !.last = Revision(e)]
    ELSE d

(* attachProviderMessageId, recordProviderAcceptance and                    *)
(* applyDeliveryTransition of one event.                                    *)
AfterFeedback(d, e) ==
    ApplyDeliveryTransition(SetCallerResult([d EXCEPT !.message = TRUE], "ACCEPTED"), e)
=============================================================================
