---------------------------- MODULE SecurityEmail ----------------------------
(***************************************************************************)
(* notifications' delivery/security-email.service.ts together with its two *)
(* neighbours: auth, which sends a command once and gives up at its gRPC   *)
(* deadline (email/auth-email-delivery.service.ts), and SES, which may     *)
(* take a mail without the service learning of it.  The same command may   *)
(* reach the service again, and SES feedback and the reconciliation cron   *)
(* write the same row meanwhile.                                           *)
(*                                                                         *)
(* A call is one command under way, with its own deadline.  Timers hold    *)
(* the time they have left.  A step of a call is one statement or one      *)
(* transaction; what it does before the next await is part of it.          *)
(***************************************************************************)
EXTENDS EmailRows, FiniteSets

CONSTANTS
    Request,     \* requestIds
    Call,        \* commands received, repeated ones included
    Command,     \* contents: subject, recipient, purpose, version, token
    Feedback,    \* the events SES may publish about a mail it took
    SesTimeout,  \* SES_REQUEST_TIMEOUT_MS, in units of time
    Margin,      \* DELIVERY_LEASE_MARGIN_MS
    Budget       \* the caller's deadline; Forever: none was set

Forever == -1

ASSUME SecurityEmailAssumption ==
    /\ SesTimeout \in Nat /\ Margin \in Nat /\ Budget \subseteq (Nat \cup {Forever})
    /\ \A e \in Feedback : e.kind \in EventKinds /\ e.at \in Nat /\ e.id \in Nat

VARIABLES
    delivery, \* email_deliveries by requestId; NoRow while there is none
    blocked,  \* the destination is SUPPRESSED or RECOVERY_PENDING
    pc,       \* where each call is
    job,      \* what each call holds
    outcome,  \* what auth recorded of a call; Unset while it waits
    ses,      \* what became of the mail of a request at SES
    calls     \* history: SendEmailCommands issued for a request

rows == <<delivery, blocked>>
vars == <<rows, pc, job, outcome, ses, calls>>

NoRow == [command |-> "none"]
Lease == SesTimeout + Margin

Idle == [req |-> "none", command |-> "none", deadline |-> 0, view |-> NoRow,
         timeout |-> 0, submission |-> Unset]

Init ==
    /\ delivery = [r \in Request |-> NoRow]
    /\ blocked = FALSE
    /\ pc = [h \in Call |-> "idle"]
    /\ job = [h \in Call |-> Idle]
    /\ outcome = [h \in Call |-> Unset]
    /\ ses = [r \in Request |-> "none"]
    /\ calls = [r \in Request |-> 0]

Row(h) == delivery[job[h].req]
Write(h, d) == delivery' = [delivery EXCEPT ![job[h].req] = d]
Goto(h, l) == pc' = [pc EXCEPT ![h] = l]
Hold(h, j) == job' = [job EXCEPT ![h] = j]

Result(h, result) == outcome' = [outcome EXCEPT ![h] = IF @ = Unset THEN result ELSE @]

(* The response reaches auth unless it has given up.  What the call saved  *)
(* is remembered.                                                          *)
AnswerSaved(h, result, saved) ==
    /\ Goto(h, "done")
    /\ Result(h, result)
    /\ Hold(h, [Idle EXCEPT !.req = job[h].req, !.command = job[h].command, !.submission = saved])

Answer(h, result) == AnswerSaved(h, result, Unset)

-----------------------------------------------------------------------------
(* sendAfterCommit sends the command; the controller reads its deadline.   *)
Receive(h) ==
    /\ pc[h] = "idle"
    /\ \E r \in Request, c \in Command, b \in Budget :
         Hold(h, [Idle EXCEPT !.req = r, !.command = c, !.deadline = b])
    /\ Goto(h, "lookup")
    /\ UNCHANGED <<rows, outcome, ses, calls>>

(* An existing row must belong to the same command; it answers or is       *)
(* waited for.                                                             *)
WaitFor(h, d) ==
    Goto(h, "wait") /\ Hold(h, [job[h] EXCEPT !.view = d]) /\ UNCHANGED outcome

Adopt(h, d) ==
    IF d.command # job[h].command THEN Answer(h, "CONFLICT")
    ELSE IF d.result # Unset THEN Answer(h, d.result)
    ELSE WaitFor(h, d)

(* claimDelivery, up to the first read of the row.                         *)
Lookup(h) ==
    /\ pc[h] = "lookup"
    /\ IF Row(h) = NoRow THEN Goto(h, "create") /\ UNCHANGED <<job, outcome>> ELSE Adopt(h, Row(h))
    /\ UNCHANGED <<rows, ses, calls>>

(* The rest of it: under the recipient's locks, look for a blocked         *)
(* destination and insert the row.  requestId is unique; who loses reads   *)
(* the row again.                                                          *)
CreateClaimByUpsert(h) ==
    LET d == NewDelivery(job[h].command, blocked, Lease)
        fresh == \/ Row(h) = NoRow
                 \/ Row(h).result = Unset /\ Row(h).command = job[h].command /\ ~blocked
    IN
    /\ pc[h] = "create"
    /\ IF ~fresh
       THEN Goto(h, "lookup") /\ UNCHANGED <<delivery, job, outcome>>
       ELSE /\ Write(h, d)
            /\ IF blocked THEN Answer(h, d.result)
               ELSE Goto(h, "attempt") /\ UNCHANGED <<job, outcome>>
    /\ UNCHANGED <<blocked, ses, calls>>

CreateClaim(h) ==
    LET d == NewDelivery(job[h].command, blocked, Lease) IN
    /\ pc[h] = "create"
    /\ IF Row(h) # NoRow
       THEN Goto(h, "lookup") /\ UNCHANGED <<delivery, job, outcome>>
       ELSE /\ Write(h, d)
            /\ IF blocked THEN Answer(h, d.result)
               ELSE Goto(h, "attempt") /\ UNCHANGED <<job, outcome>>
    /\ UNCHANGED <<blocked, ses, calls>>

-----------------------------------------------------------------------------
(* waitForCallerResult: answer from the copy read last, expire the claim   *)
(* when that copy's lease has ended, or sleep; then read again.            *)
Wait(h) ==
    LET d == job[h].view IN
    /\ pc[h] = "wait"
    /\ IF job[h].deadline = 0 THEN Answer(h, "SUBMISSION_UNKNOWN") /\ UNCHANGED delivery
       ELSE IF d.result # Unset THEN Answer(h, d.result) /\ UNCHANGED delivery
       ELSE /\ IF d.lease = 0 THEN Write(h, ExpireLease(Row(h))) ELSE UNCHANGED delivery
            /\ Goto(h, "refresh")
            /\ UNCHANGED <<job, outcome>>
    /\ UNCHANGED <<blocked, ses, calls>>

ReadAgain(h) == Hold(h, [job[h] EXCEPT !.view = Row(h)])

Refresh(h) ==
    /\ pc[h] = "refresh"
    /\ ReadAgain(h)
    /\ Goto(h, "wait")
    /\ UNCHANGED <<rows, outcome, ses, calls>>

-----------------------------------------------------------------------------
(* submit: only a pending row that was never attempted may be sent.        *)
MayAttempt(d) == d.status = "PENDING" /\ d.attempts = 0

Attempt(h) ==
    /\ pc[h] = "attempt"
    /\ IF MayAttempt(Row(h))
       THEN Write(h, [Row(h) EXCEPT !.attempts = 1]) /\ Goto(h, "send")
       ELSE Goto(h, "recorded") /\ UNCHANGED delivery
    /\ UNCHANGED <<blocked, job, outcome, ses, calls>>

(* createSubmission: rendering fails or the deadline has passed, and       *)
(* nothing is sent; otherwise the mail goes to SES.                        *)
RenderFails(h) ==
    /\ pc[h] = "send"
    /\ Hold(h, [job[h] EXCEPT !.submission = "FAILED"])
    /\ Goto(h, "finalize")
    /\ UNCHANGED <<rows, outcome, ses, calls>>

Send(h) ==
    /\ pc[h] = "send"
    /\ ses' = [ses EXCEPT ![job[h].req] = "in flight"]
    /\ calls' = [calls EXCEPT ![job[h].req] = @ + 1]
    /\ Hold(h, [job[h] EXCEPT !.timeout = SesTimeout])
    /\ Goto(h, "sending")
    /\ UNCHANGED <<rows, outcome>>

(* SES takes or refuses what reaches it, be it after the client's abort.   *)
SesDecides(r) ==
    /\ ses[r] = "in flight"
    /\ \E s \in {"accepted", "refused"} : ses' = [ses EXCEPT ![r] = s]
    /\ UNCHANGED <<rows, pc, job, outcome, calls>>

(* What the client may get: SES refuses before it accepts, and any answer  *)
(* may be lost.                                                            *)
Responses(s) ==
    {"lost"} \cup (CASE s = "accepted" -> {"message id", "no message id"}
                     [] s = "refused" -> {"message rejected", "client error"}
                     [] OTHER -> {})

Classify(response) ==
    CASE response = "message id" -> "ACCEPTED"
      [] response = "message rejected" -> "REJECTED"
      [] response = "client error" -> "FAILED"
      [] OTHER -> "SUBMISSION_UNKNOWN"

Respond(h) ==
    /\ pc[h] = "sending"
    /\ \E response \in Responses(ses[job[h].req]) :
         Hold(h, [job[h] EXCEPT !.submission = Classify(response), !.timeout = 0])
    /\ Goto(h, "finalize")
    /\ UNCHANGED <<rows, outcome, ses, calls>>

(* finalizeResult: one transaction, answered from the row it leaves ...    *)
Finalize(h) ==
    LET d == FinalizeSubmission(Row(h), job[h].submission) IN
    /\ pc[h] = "finalize"
    /\ Write(h, d)
    /\ AnswerSaved(h, d.result, job[h].submission)
    /\ UNCHANGED <<blocked, ses, calls>>

(* ... or it fails and readRecordedResult answers.                         *)
FinalizeFails(h) ==
    /\ pc[h] = "finalize"
    /\ Goto(h, "recorded")
    /\ UNCHANGED <<rows, job, outcome, ses, calls>>

ReadRecordedResult(h) ==
    /\ pc[h] = "recorded"
    /\ Answer(h, IF Row(h).result # Unset THEN Row(h).result ELSE "SUBMISSION_UNKNOWN")
    /\ UNCHANGED <<rows, ses, calls>>

-----------------------------------------------------------------------------
Running(h) == pc[h] \notin {"idle", "done", "dead"}

(* The process stops; auth's call fails.                                   *)
Crash(h) ==
    /\ Running(h)
    /\ Goto(h, "dead")
    /\ Result(h, "SUBMISSION_UNKNOWN")
    /\ Hold(h, [Idle EXCEPT !.req = job[h].req, !.command = job[h].command])
    /\ UNCHANGED <<rows, ses, calls>>

(* auth's deadline passes while the service goes on.                       *)
CallerGivesUp(h) ==
    /\ Running(h) /\ outcome[h] = Unset /\ job[h].deadline = 0
    /\ Result(h, "SUBMISSION_UNKNOWN")
    /\ UNCHANGED <<rows, pc, job, ses, calls>>

(* expireStaleClaims, for one row.                                         *)
ExpireStaleClaim(r) ==
    /\ delivery[r] # NoRow
    /\ LeaseExpired(delivery[r])
    /\ delivery' = [delivery EXCEPT ![r] = ExpireLease(@)]
    /\ UNCHANGED <<blocked, pc, job, outcome, ses, calls>>

(* SesFeedback's transaction for one event about this mail.                *)
ApplyFeedback(r) ==
    /\ delivery[r] # NoRow
    /\ ses[r] = "accepted"
    /\ \E e \in Feedback : delivery' = [delivery EXCEPT ![r] = AfterFeedback(@, e)]
    /\ UNCHANGED <<blocked, pc, job, outcome, ses, calls>>

(* Another mail's feedback, or an operator, changes the destination; only  *)
(* a claim reads it.                                                       *)
DestinationChanges ==
    /\ \E r \in Request : delivery[r] = NoRow
    /\ blocked' = ~blocked
    /\ UNCHANGED <<delivery, pc, job, outcome, ses, calls>>

Less(t) == IF t > 0 THEN t - 1 ELSE t

Elapsed(d) == IF d = NoRow THEN d ELSE [d EXCEPT !.lease = Less(@)]

(* Time passes, but no further than the abort of a request to SES.         *)
Tick ==
    /\ \A h \in Call : pc[h] = "sending" => job[h].timeout > 0
    /\ delivery' = [r \in Request |-> Elapsed(delivery[r])]
    /\ job' = [h \in Call |->
                [job[h] EXCEPT !.deadline = Less(@), !.timeout = Less(@), !.view = Elapsed(@)]]
    /\ UNCHANGED <<blocked, pc, outcome, ses, calls>>

Step(h) ==
    \/ Lookup(h) \/ CreateClaim(h) \/ Wait(h) \/ Refresh(h) \/ Attempt(h)
    \/ Send(h) \/ Respond(h) \/ Finalize(h) \/ ReadRecordedResult(h)

Next ==
    \/ \E h \in Call :
         \/ Receive(h) \/ Step(h) \/ RenderFails(h) \/ FinalizeFails(h)
         \/ Crash(h) \/ CallerGivesUp(h)
    \/ \E r \in Request : SesDecides(r) \/ ExpireStaleClaim(r) \/ ApplyFeedback(r)
    \/ DestinationChanges
    \/ Tick

Spec == Init /\ [][Next]_vars

(* A call that has not crashed goes on, the cron runs every minute and     *)
(* time passes.                                                            *)
FairSpec ==
    /\ Spec
    /\ \A h \in Call : WF_vars(Step(h))
    /\ \A r \in Request : WF_vars(ExpireStaleClaim(r))
    /\ WF_vars(Tick)

-----------------------------------------------------------------------------
Delivery ==
    [command : Command, status : DeliveryStatuses, result : CommandResults \cup {Unset},
     lease : NoLease..Lease, attempts : {0, 1}, message : BOOLEAN,
     last : {NoRevision} \cup {Revision(e) : e \in Feedback}]

TypeOK ==
    /\ \A r \in Request : delivery[r] = NoRow \/ delivery[r] \in Delivery
    /\ blocked \in BOOLEAN
    /\ pc \in [Call -> {"idle", "lookup", "create", "wait", "refresh", "attempt", "send",
                        "sending", "finalize", "recorded", "done", "dead"}]
    /\ \A h \in Call :
         /\ job[h].deadline \in {Forever} \cup Nat
         /\ job[h].timeout \in 0..SesTimeout
         /\ job[h].submission \in CommandResults \cup {Unset}
    /\ outcome \in [Call -> CommandResults \cup {Unset, "CONFLICT"}]
    /\ ses \in [Request -> {"none", "in flight", "accepted", "refused"}]
    /\ calls \in [Request -> Nat]

(* However often a command arrives, whatever crashes and however late an   *)
(* answer is, SES is asked to send a request's mail at most once.          *)
SentAtMostOnce == \A r \in Request : calls[r] <= 1

(* What auth was told, unless it is "unknown", is what the row records for *)
(* its command: repeated commands never get different definite answers.    *)
AnswersAgree ==
    \A h \in Call :
      outcome[h] \notin {Unset, "SUBMISSION_UNKNOWN", "CONFLICT"} =>
        Row(h).command = job[h].command /\ Row(h).result = outcome[h]

(* A definite result is true of SES: accepted mail was taken, and mail     *)
(* reported failed, rejected or suppressed was not and will not be.        *)
DefiniteResultsAreTrue ==
    \A r \in Request :
      delivery[r] # NoRow =>
        /\ delivery[r].result = "ACCEPTED" => ses[r] = "accepted"
        /\ delivery[r].result \in {"FAILED", "REJECTED", "SUPPRESSED"} =>
             ses[r] \in {"none", "refused"}

(* What auth is told is true of the row and of SES.                        *)
AnswersAreTrue == TypeOK /\ AnswersAgree /\ DefiniteResultsAreTrue

(* SES's late answer still reaches the row after the lease has ended: a    *)
(* call that saved a definite outcome leaves no unknown status behind.     *)
LateOutcomeKept ==
    \A h \in Call :
      pc[h] = "done" /\ job[h].submission \notin {Unset, "SUBMISSION_UNKNOWN"} =>
        Row(h).status \notin {"PENDING", "SUBMISSION_UNKNOWN"}

(* Every claim gets a result, though the call that made it may crash.      *)
ClaimsEnd ==
    \A r \in Request :
      delivery[r] # NoRow ~> delivery[r] # NoRow /\ delivery[r].result # Unset

==============================================================================
