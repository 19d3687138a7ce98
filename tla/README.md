# TLA+ verification of the Pixaeron backend

This directory holds TLA+ modules that model the backend in `src/`, TLC
configurations that model-check them on small instances, and proofs, checked by
TLAPS, of what holds for every instance. Each definition that models code is
translated from the lines `PROJECT.json` ("map") names for it.

1. The system
2. Modules and how they correspond to the code
3. Runs: what each checks, its bounds, what it shows
4. Fairness
5. Proofs
6. Observations
7. What is not modelled, and why
8. What could follow

## 1. The system

Pixaeron converts images. Four programs and their libraries make up the
backend; each can run in several instances.

| Component | State it keeps | Operations | Talks to |
|---|---|---|---|
| **conversion-api** `admission/` | `conversion_batches`, `conversion_files`, `daily_usage`, `outbox_events` (PostgreSQL) | `createBatch`, `completeUploads`, `admitReadyFiles` | clients (GraphQL), S3, auth (plan) |
| **conversion-api** `events/` | the same rows; SQS messages in flight | `pollContinuously`, `apply` STARTED and RESULT | the worker, through SQS |
| **conversion-api** `lifecycle/` | the same rows | `expireOverdueFiles`, `purgeDeadRows` (cron), `rollUpBatch` | nobody |
| **conversion-api** `outbox/` | `outbox_events` | `drain` (cron and after admission) | SQS |
| **conversion-worker** `queue/` | poll loops, slots, waiters (memory); SQS messages in flight | `pollLoop`, `acquire`, `release`, `handle` | SQS, S3, sharp |
| **conversion-worker** `pipeline/` | none | `compress` | sharp |
| **auth** `session/` | `Session`, `SessionRefreshToken`, `SessionEvent` | create, refresh, log out, log out all, cleanup (cron; of `AuthToken`, too) | clients |
| **auth** `auth/` | `User`, `Account`, `AuthToken`; attempt counters in Redis | register, verify, resend, sign in, Google sign-in, reset | notifications (gRPC), Redis |
| **notifications** `delivery/` | `EmailDelivery` | send once per request id | SES |
| **notifications** `feedback/` | `EmailDelivery`, `EmailDeliveryEvent`, `EmailDestination` | apply SES events | SES, through SQS |
| **notifications** `operations/` | `EmailDestination`, audits | recovery, retention, reconciliation | operators |
| **gateway** | none | a router configuration | all of the above |

How a conversion goes: a client creates a batch (rows UPLOADING), puts the
files into S3 and calls `completeUploads`, which marks a file READY when its
object is there, and then calls `admitReadyFiles`: one transaction that checks
the plan's limits, evicts stored results when storage is short, queues the
READY files and writes one outbox event per file. The outbox publisher sends
the events to SQS. A worker's poll loop receives one, waits for a slot,
publishes STARTED, converts, stores the result and publishes RESULT. The api
applies both to the rows, in whatever order and number SQS delivers them, and
rolls the files' statuses up into the batch's. Two cron jobs expire what is
overdue and purge dead rows.

What is hard about it, and the property that says it went right:

* *Concurrent transactions on one batch.* READ COMMITTED gives no snapshot;
  the last two results of a batch, a sweep and an eviction can all roll up the
  same batch. Correct when the batch's status is the one its files justify
  (`BatchStatusJustified`), and when every transaction looks as if it happened
  at once (`ImplementsLifecycle`).
* *At-least-once, unordered events and retried attempts.* Correct when a
  finished file stays finished (`OutcomesAreFinal`) and no superseded attempt's
  result is shown (`ResultFromLatestStart`).
* *Reads that go stale*: the batch before the admission's transaction, the
  deficit before the batches are locked, the sweep's clock and list before its
  transactions (`StorageKept`, `DailyQuotaExact`, `ImplementsLifecycle`).
* *Lost messages.* The cron jobs alone must end every batch
  (`EveryBatchIsPurged`).
* *Locks on many rows at once* (`CyclesNeedThePurge`).
* *Sends inside a transaction* with a deadline, a timeout and several
  instances (`SentOnceButForUnsure`, `SendsEndInTime`, `EventsAreDelivered`).
* *A hand-written semaphore* shared by prioritised loops, and its shutdown
  (`SlotsAccounted`, `LastServedWithinPeriod`, `ShutdownEnds`).
* *Sign-ins that race a password reset.* The password is compared outside the
  transaction that stores the session (`NoSessionOnOldPassword`).
* *Parallel and replayed refreshes* of one session, in several tabs or by a
  thief (`OneUsableCredential`, `RevokedStaysRevoked`).
* *Overlapping requests for e-mailed tokens*, under a partial unique index, and
  links opened twice, late or after a newer mail (`IssueNeverCollides`,
  `OnlyNewestUnspentToken`, `VerifyingLinkIsNeverInvalid`).
* *First logins that race a registration or each other* for one address or one
  Google account (`LostRacesAreExplained`, `GoogleUsersStayPasswordless`).
* *A conversion request that comes again*: a second copy from the outbox, a
  redelivery after a crash, an input the client replaces meanwhile; all attempts
  write under keys of their own, copies share them (`CompletedIsStored`,
  `ResultOfVerifiedInput`, `FailuresAreDeserved`, `EveryRequestAnswered`).
* *The choice between an original and its encodings*, by size and by what the
  original carries (`ResultsAreClean`, `PixelsLostForAReason`).
* *Counters that are read first and written later*, by requests under way at the
  same time (`CountsBounded`, `BlockedOnceCounted`, `MailsAreApart`).
* *A mail whose sender cannot know whether it was sent*: SES answers late or
  never, the process stops, the lease ends, the caller asks again, feedback is
  faster than the answer (`SentAtMostOnce`, `AnswersAreTrue`, `LateOutcomeKept`,
  `ClaimsEnd`).
* *Feedback in any order, an operator who lifts a block, a nightly cleanup and a
  key rotation*, all on the same rows (`BlockedUntilReviewed`, `AliasesAgree`,
  `OrderDoesNotMatter`, `QueuedEventsMatch`).

`PROJECT.json` ("hazards") lists these at the lines where they bite.

## 2. Modules and how they correspond to the code

**BatchRollup** — the status sets and `rollUpBatch` of
`lifecycle/batch-rollup.ts` as pure operators. Used by the next two.

**ConversionLifecycle** — the abstract specification of conversion-api's rows:
one committed transaction per step.

| Code | Model |
|---|---|
| a row of `conversion_batches` | `batchStatus[b]`, `batchExpires[b]`; `NONE` before it exists, `PURGED` after |
| a row of `conversion_files` | `fileStatus[f]`, `fileExpires[f]`, `attempt[f]`, `output[f]` (which attempt's object) |
| an outbox event for `f` was committed | `f \in requested` |
| `createBatch`, `completeUploads` (per file) | `CreateBatch`, `VerifyUpload` |
| `admitReadyFiles`: read of the batch; transaction | `CheckAdmittable`; `AdmitReadyFiles` or `LeaveUnadmitted` |
| `apply` STARTED: first and second statement, or a crash between them | `ApplyStarted`, `MarkBatchProcessing`, `LoseStartedHandler` |
| `apply` RESULT | `ApplyResult` |
| `expireOverdueFiles` for one batch; `purgeDeadRows` | `ExpireOverdueFiles`, `PurgeDeadRows` |

There is no queue in it: SQS delivers late, repeatedly and out of order, and a
request that is received again starts another attempt, so any event of any
attempt of a requested file may be applied at any moment. The clock `now` is
read once where the code reads it once: `checkedAt` is an admission's first
reading, and a sweep's `cutoff` may be any earlier instant, because a sweep
may last. Results to evict are left open here (any set); which are chosen is
StorageAdmission's subject.

**ConversionTransactions** — the same rows, statement by statement: an actor
(request, event handler, sweep, purge) has a `pc`, its locals `job`, and what it has
written but not committed in `draftFiles` and `draftBatches`; `batchLock` and
`ownerLock` are PostgreSQL's row lock on a batch and the advisory lock on an owner.
The part of PostgreSQL the code relies on is modelled and marked external in the
map: a statement sees what was committed when it started and its own transaction's
writes; `FOR UPDATE`, `UPDATE` and `DELETE` wait for a row's lock and look at the
row again; commit and rollback release. Every actor may be cut off at every step.
`Over(draft, committed)` is what a statement of a transaction sees of a column. Its
refinement mapping (`Lifecycle == INSTANCE ConversionLifecycle WITH ...`) maps the
committed rows to themselves, a request's `pc` and locals to `admitting` and
`checkedAt`, and a handler between its two statements to a member of `starting`.

**StorageAdmission** — the part of `admitReadyFiles` that counts: storage
used, deficit, eviction by `expires_at`, the `daily_usage` upsert, for one owner
with several batches. Bytes are small numbers. A row's `expires_at` is the rank
of the admission that set it, which is what ordering by it gives for one plan.

**OutboxRows** and **OutboxPublisher** — the rows, what an instance keeps of them
and what is promised of both; and the steps, `drain` of several instances: the due
rows in order of `next_attempt_at`, the claim with `FOR UPDATE SKIP LOCKED` and a
limit, the sends one after the other until the deadline, the deletes and backoffs,
commit or rollback. A send takes time (`SendTimes`, seconds) inside the transaction;
it may be accepted, refused, or accepted without the api learning of it.

**WorkerPool** and **WorkerSlots** — the state and the promises, and the steps, of the
poll loops of `queue-consumer.service.ts` and their
semaphore: what each loop awaits, `active`, `waiters` sorted by priority,
`grants` (modulo the period, all the code reads of it). `overtaken` is a history
variable. What is done with a message is abstracted to its end.

**ImageCompressor** — the decisions of `pipeline/image-compressor.service.ts` as
pure operators. An image is its container, whether it carries metadata and where,
and the sizes its candidates would have; a candidate (`Stream`) is its size, and
whether its pixels are the input's, it is clean, and it is the input itself. An image
may have been stripped before (`stripped`), such as a LOSSLESS result that is uploaded
again: all it carries is the block with its orientation, and stripping it gives the same
bytes, which the code compares (`equals(input)`). That block alone counts as clean,
because every stripped copy of a turned image has it. What
sharp does to pixels is an assumption about these four; which candidate is built,
compared, kept or refused is the code's.

**ConversionPipeline** — one file from the request queue to its finished row.

| Code | Model |
|---|---|
| a message of the request queue and its receive count | `message[m]` (`visible`, `held`, `deleted`, `dead`), `receives` |
| one run of `handle`: a message and its receive count (the attempt) | `job[<<m, n>>]` |
| objects in S3 | `input` against the verified ETag, `outputs[n]`, `previews` |
| the events queue; the file's row | `events`; `row` |
| `handle`, call by call | `PublishStarted`, `GetInput` (reads the object and compresses), `PutOutput`, `PutPreview`, `PublishResult`, `PublishFailure`, `DeleteMessage` |
| a call that throws, a process that stops, a visibility refresh that fails | `Abandon`, `RefreshFails` |
| SQS: receive, end of visibility, redrive | `Receive`, `VisibilityEnds` |
| the client's upload form; object loss | `InputChanges` |
| `verifiedCompletion`; `apply` and the deletion of the event | `Verify`; `Apply` |

The key of an output is the attempt, so two copies of one request share keys; this
is why the model keeps copies (`case.copies`) apart from receives. An event is
applied any number of times before it is deleted.

**AuthSessions** — the sessions of one user: a request has a `pc` and locals
`job`, and takes the locks the statements take.

| Code | Model |
|---|---|
| a row of `sessions` | `state[s]` (`"none"`, `"live"`, or its `revoked_reason`), `expires[s]`, `rotatedAt[s]`, `current[s]` (whose hash it holds) |
| rows of `session_refresh_tokens` of `s` | `1 .. issued[s]`, `consumedAt[s]` |
| `users.password`; `FOR UPDATE` on the user | `password` (its number); `userLock` |
| `login` up to the comparison; `createSession` | `VerifyPassword`; `LockUser`, `CreateSession` |
| `refreshSession`: reads, checks, compare-and-swap, commit | `Present`, `ReadToken`, `ReadSession`, `CompareAndSwap`, `CommitRotation`, `MarkExpired`, `RevokeReused` |
| `resetPassword`'s transaction | `ChangePassword`, `ListSessions`, `LockTargets`, `CommitReset` |
| `logout`; `logoutAll` | `OwnsSession`, `LogOut`; `ListToLogOut`, `LogOutAll` |

`basis[s]` is a history variable: the password the sign-in that opened `s` had
compared. The clock is read where the code reads it: `job[x].at` is when the
request arrived, which is also what `consumed_at` and the expiry check use.

**AuthAccounts** — users, Google accounts and e-mailed tokens.

| Code | Model |
|---|---|
| a row of `users` | `origin[e]` (`"none"`, `"local"`, `"google"`), `verified[e]`, `hasPassword[e]` |
| a row of `accounts` | `account[g]` |
| rows of `auth_tokens` | `1 .. tokens` in order of issue, `row[t]`, `consumed[t]`, `age[t]` (`"recent"`; `"old"` a week after it expired or was consumed; `"gone"` once deleted); `spentBy[t]` is history |
| unique index on `users.email` while an insert is open; advisory lock; row locks | `emailLock`, `issueLock`, `tokenLock` |
| `register` | `FindNoUser`, `CreateUser`, `CommitRegistration` |
| `resendEmailVerification`, `requestPasswordReset`, `issueInTransaction` | `AskForToken`, `LockIssue`, `ListActive`, `Supersede`, `CommitIssue` |
| `verifyEmail` | `FindToken`, `FindUser`, `TidyToken`, `ConsumeToken`, `FindAgain`, `CommitVerified` |
| `resetPassword` | `CheckResetToken`, `CheckResetTokenAgain`, `ConsumeResetToken`, `CommitReset` |
| `deleteExpiredData` of `session-cleanup.service.ts`, of `auth_tokens`; the week before it | `DeleteExpired`; `GrowOld` |
| Google's `login` | `FindAccount`, `FindEmail`, `CreateGoogleUser`, `CreateAccount`, `RefuseAccount`, `RecoverAccount`, `RecoverEmail` |

`"INVALID"` and `"UNEXPLAINED"` are the answers the properties are about: an
invalid link, and a refused insert that `login` could not explain and throws on.
In both modules `Abort` is a crash, a failed statement, or an answer given before
anything was written.

A token may be presented for ever, also after `DeleteExpired` took its row: then
`FindToken` answers `"INVALID"`, as `verifyEmail` does for a hash it does not find. A
week passes between a token's last use and its deletion, so `GrowOld` waits for
requests that look at the token; it does not wait for anything else, and `DeleteExpired`
may come between any two statements.

**AttemptKeys** and **AuthAttempts** — what auth counts in Redis before it compares a
password or mails a link: the keys and what is promised of them, and the steps.

| Code | Model |
|---|---|
| an attempts key, its expiry; a block key; a cooldown key | `count[k]`, `window[k]`; `block[k]`; `cooldown[m]` |
| a request under way | `attempt[s]`: the place it is at and the answers it still waits for |
| `assertAllowed`: commands sent together, answered one by one | `ReadBlock`, `ReadCooldown` |
| `auth-challenge-policy` | `RequireCaptcha` |
| sign-in: comparison; `recordFailure`; `clear` | `ComparePassword`; `RecordFailure`; `ClearBlock`, `Clear` |
| `reserve` (script); `startCooldown` | `Reserve`; `StartCooldown` |
| Redis's clock | `Tick` |

A Redis command or script is one step; a request may pause between two of its own.
`age` is a history variable: the time since the last mail reserved for an address.

**EmailRows** — what notifications writes into a row of `email_deliveries`, as pure
operators: claims, leases, outcomes, and the ranks and statuses of SES's events.
Used by the next two.

**SecurityEmail** — one command of auth on its way to SES.

| Code | Model |
|---|---|
| a row of `email_deliveries` | `delivery[r]`; leases are the time they have left |
| one received command, its deadline and what it read | `pc[h]`, `job[h]` |
| what auth takes for the answer | `outcome[h]`; `CallerGivesUp` is its gRPC deadline |
| `claimDelivery` | `Lookup`, `CreateClaim` |
| `waitForCallerResult` | `Wait`, `Refresh` |
| `submit` and `createSubmission` | `Attempt`, `RenderFails`, `Send` |
| SES and the client's timeout | `SesDecides`, `Respond` |
| `finalizeResult`; `readRecordedResult` | `Finalize`, `FinalizeFails`; `ReadRecordedResult` |
| `expireStaleClaims` (cron); SesFeedback's transaction; a stop of the process | `ExpireStaleClaim`; `ApplyFeedback`; `Crash` |

`calls` is a history variable. `Tick` is held back only by the client's own abort of
a request to SES; every other step may be arbitrarily late.

**SesFeedback** — one recipient: his rows in `email_destinations`, one per version of
the key his address is hashed with (aliases), and the deliveries of his mails.

| Code | Model |
|---|---|
| `ses-feedback.processor` and `ses-feedback-transitions`: one event | `Persist`; `Delete` from the queue |
| `email-recovery.service`: read, compare-and-swap | `ReadDestinations`; `SwapDestinations` or `AbortRecovery` |
| `email-retention.service` | `Cleanup` (any rows that are past their dates) |
| `recipient-hash.service` at start | `Restart` with a keyring `MayStart` lets through |
| `claimDelivery` | `Claim` |

Feedback takes the recipient's advisory locks in `applyDestinationTransition`, before
its first look at an alias, and holds them until it commits. Before that it inserts the
event, whose fingerprint is unique, and updates its mail's row by statements that
compare under the row's lock; nothing it read earlier decides a write. So one step
stands for its transaction. A claim takes the same locks before it looks at an alias. A
recovery takes none and is two steps. The cleanup takes none
either, but its statements look again at each row they delete, so it is one step that
may come anywhere. The code deletes an event when its own 90 days are over, and a mail
once it has no event left. An event is looked up only while SQS may hand it over again,
which is over by then, so whether an older event's row is still there changes no step:
`events` keeps it as long as its mail, as a history of what was applied, and that is the
sense in which `OrderDoesNotMatter` speaks of the events of a mail. `open` is a history
variable: the bounces and complaints no completed recovery has reviewed. `plain` says
that no operator and no cleanup has stepped in yet, which is when what is stored must
be a function of the events processed.

**\*_proofs** modules hold the theorems about the module they are named after
(section 5). Three of them also hold those about a neighbour, whose state and
promises are in a module of their own that they extend and whose steps they
instantiate: ConversionPipeline_proofs about WorkerSlots (`Pool`),
StorageAdmission_proofs about OutboxPublisher (`Outbox`), AuthSessions_proofs about
AuthAttempts (`Attempts`). **MC\*** modules extend a specification and define the
functions a cfg assigns to its constants.

How the modules meet. ConversionTransactions implements ConversionLifecycle. Its
events may be applied at any time and in any number; ConversionPipeline is where
they come from, with the same guards on the row (`AcceptsResult`).
ConversionPipeline starts from requests the outbox may have sent more than once
(OutboxPublisher's `unsure`), on a loop that got a slot (WorkerSlots). AuthAttempts'
`mailed` is where SecurityEmail's `Receive` begins. SecurityEmail and SesFeedback
share the row operators, and each has the other's effect as an action of its own
(`ApplyFeedback`, `DestinationChanges`; `Claim`).

## 3. Runs

| Run | Instance | Shows |
|---|---|---|
| `lifecycle` | 1 batch, 2 files, 2 concurrent admissions, 2 attempts, 2 handlers between statements, clock 0..3 | statuses justified and final, no superseded result; with nothing but the cron jobs and the clock fair every batch is purged in the end |
| `transactions_events` | 1 batch, 2 files, 1 admission, 2 handlers, 1 sweep | every interleaving of the statements implements ConversionLifecycle |
| `transactions_admission` | 2 batches of 1 file, 2 admissions that may evict, 1 handler, 1 purge | the same with eviction across batches; no circle of waiting without the purge |
| `storage` | 3 batches of 1 file of 2 bytes, results of 1 or 3, 2 admissions, limits of 4 bytes and 2 files a day, 2 days, plans with and without storage limit | storage stays within the plan but for results that outgrew it; the day's quota is exact |
| `outbox` | 3 rows, 2 of which always fail, 2 publishers, claims of 3, the code's own times in seconds (12 s deadline, 20 s timeout, sends of 5 or 7 s) | duplicates only from sends the api could not record, sends never run into the timeout, failing rows do not block others |
| `slots` | 5 loops of 4 priorities, 2 slots, period 8 | no slot lost or used twice, the last priority is served within a period, shutdown ends |
| `pipeline` | every kind of image on an undisturbed way; two copies with a fault, replaced and missing inputs, two faults; 2 receives | a finished file's result is stored, of the verified input, clean, and lossy for a reason; a file fails for its input only; every request is answered or its message is dead |
| `auth_sessions` | 1 session, 1 sign-in at a time, 2 refreshes, 1 reset, 1 logout, 3 credentials, 2 passwords, clock 0..2, sessions of 2, grace 0 | resets end every session of the old password, one usable credential per session, ended sessions stay ended |
| `auth_accounts` | 2 addresses, of which 1 is also registered with a password, 1 Google subject, 1 registration, 2 requests for tokens, 2 verifications, 1 reset, 2 Google logins, of which at most 3 are under way at once, 3 tokens, of which 1 may grow old and be deleted | tokens are issued without a collision and take effect once, while newest; the link that verified is not answered INVALID while its row is kept; races for an account are explained |
| `attempts` | two accounts behind one address, one account from two addresses, a registration beside a resend; 2 requests at a time, limits 2, 3 and 2, windows and blocks of 3, cooldown 1 | a full counter is blocked, limits are exceeded by requests under way only, mails are a cooldown apart |
| `deliveries` | 1 request, 2 calls with the same content or another, SES timeout 1, margin 1, callers' deadlines of 1 or none, an acceptance and a bounce | one mail, true and equal answers, late outcomes kept, every claim gets a result |
| `feedback` | 2 mails with 2 events each, older and newer, blocking or not, 2 recoveries, 2 key versions, 3 keyrings | the recipient stays blocked until reviewed, aliases agree, order of arrival does not matter, no event is orphaned by a key rotation |

Why these bounds are enough for what they are used for:

* *Two files per batch* give every roll-up: all pending, one of two finished,
  all outcomes equal, mixed outcomes. A rule over sets of statuses cannot tell
  a third file apart unless it has a third status, and the theorems of section
  5 hold for any number. *Two batches* are needed only for eviction;
  `transactions_admission` has them.
* *Two attempts* give a start, a newer start, and an event of a superseded
  attempt. *Two requests* give every race of an admission with another.
* *Clock 0..3* with an upload window of 2 and retentions of 1 and 2 gives
  batches that expire before, with and after their files' upload window. The
  guard `now + ... + PurgeGrace <= MaxTime` lets a deadline be set only if the
  clock can reach it, so that the bound never hides an expiry.
* *Storage of 4 with inputs of 2*: two files fit, three need an eviction; a
  result of 1 makes room without one, a result of 3 (the worker keeps a
  sanitised result that is larger than its input) outgrows the plan.
* *The outbox's times are the code's*, so `SendsEndInTime` is about the actual
  12 s, 20 s and 7 s (2 s to connect and 5 s to answer). `MaxUnanswered` and
  `MaxCuts` bound mishaps, not traffic.
* *Five loops and period 8* are the deployment's defaults for two slots.
* *One session, two refreshes*: rotations of different sessions touch no row in
  common, and what a reset does to a set of sessions is proved for any number. The
  grace is 0, so both sides of it are met within three ticks. *Two passwords*: one
  reset makes every sign-in in flight stale.
* *Three requests at once* (`MaxBusy`): every pair of handlers, and a
  third that overtakes both. *Three tokens*: one that was superseded, its
  successor, and one of the other type. Any one of them may grow old (`MaxOld`), the
  link that verified as well as a token nobody used; that several go at once changes
  nothing is in the theorems of section 5. Tokens, their locks and their index are one
  user's each, so one address that has tokens is enough (`Registrable`); the other one
  is there for two logins of one Google account with different addresses.
* *The pipeline's images* are every combination of container, marks and
  features the compressor asks for, at sizes around its two thresholds: a tenth
  saved, less than that, nothing, and larger; and turned images that were stripped
  before. The disturbed cases need one image
  and one that is refused, because what disturbs does not look at the image.
  `MaxReceives` 2 is the first redelivery and the redrive; what two faults and two
  copies do, more of them repeat.
* *Two requests at a time and limits of 2 and 3* let a counter pass its limit by
  the one request under way; a window as long as the block (both are 15 minutes
  in the code) lets each end first.
* *Two calls of one request*: rows of different requests share nothing but
  `blocked`, and a third call meets a row as the second did. A lease of 2 ends
  during a call and before its late answer; a deadline of 1 ends before the lease.
* *Two mails, two events each*: a temporary and a blocking one of each mail, where
  the newer is of the first kind once and of the second once. Three keyrings are
  before, during and after a rotation.

`CHECK_DEADLOCK FALSE` in the runs that have it: each of these bounded instances
really stops once every row is purged, every message handled or every loop has
ended and the clock is at its bound. `deliveries` is checked for deadlock: there
time goes on.

A cfg names no type invariant of its own. `TypeOK` is proved for
ConversionLifecycle, AuthSessions, AuthAccounts and AuthAttempts, and the type
invariant of the other modules is a conjunct of `CompletedIsStored`, `DailyQuotaExact`,
`AnswersAreTrue`, `SlotsAccounted`, `SentOnceButForUnsure` and `AliasesAgree`, all
proved. What ConversionTransactions' rows hold are the types of ConversionLifecycle,
which it implements.

Each property of a passing run has a mutant in `PROJECT.json`: a change of one
mapped definition, such as a dropped lock or guard, under which TLC finds the
property violated. The mutated forms stand next to the definitions they mutate
(`LockOwnBatchNot`, `ClaimableIgnoringLocks`, ...) and are used nowhere else.

## 4. Fairness

Assumed, and only in `FairSpec`:

* *ConversionLifecycle*: the clock advances, and the two cron jobs run
  (`@Cron` in `retention.service.ts`, every ten minutes and every hour) for as long
  as one instance lives. Nothing about clients, workers, SQS or admissions:
  liveness must not need them.
* *OutboxPublisher*: the cron fires every five seconds, so a publisher that can
  claim claims; every send ends, because the SQS client has a connection and a
  request timeout; a commit is reached. A row's backoff ends. Strong fairness
  of an accepted send for a row that is not poison: SQS does not refuse it
  for ever. Cut transactions are bounded.
* *WorkerSlots*: a handled message ends (the AWS clients and the compressor
  have timeouts), and a loop that was told to stop is woken by the abort
  signal or its timer. Nothing says that messages arrive.

* *ConversionPipeline*: messages that are visible are received, visibility ends, a
  handler goes on to its next call, the api consumes. No fault is required, and
  none is excluded: a case has a number of them, and they may all happen.
* *SecurityEmail*: a call that has not crashed takes its next step (the SES client
  and PostgreSQL have timeouts), the reconciliation cron runs (`@Cron`, every
  minute), time passes. Crashes and lost answers are not bounded.

AuthAttempts and SesFeedback state no liveness. AuthSessions and AuthAccounts state no
liveness and assume no fairness: every request may stop for ever at every step, and
whatever it wrote without a commit is gone.

## 5. Proofs

`ConversionLifecycle_proofs` proves, from `LifecycleAssumption` alone (every
file has a batch, every batch a file and an owner, bounds are naturals), for
any number of batches, files, owners, requests, attempts and retentions:

* `TypeCorrect`: `Spec => []TypeOK`. Besides types it says that a file row
  exists exactly while its batch row does.
* `BatchOutcomeJustified`: `Spec => []BatchStatusJustified`.
* `FinalOutcomes`: `Spec => OutcomesAreFinal`.
* `StoredResultIsLatest`: `Spec => []ResultFromLatestStart`.

The inductive invariant `IInv` is the conjunction of `TypeOK` and
`BatchStatusJustified`; neither the justification alone nor the types are
enough. The roll-up computes a status from the files' statuses, so a step is
justified only if those are statuses (types) and exist while the batch does
(the foreign key), and if the batch was justified before: an expired or evicted
file may turn a closed batch into EXPIRED, and only the old justification says
which closed batches that can be. Three lemmas carry the steps:
`RollUpJustified` (rolling up a justified batch whose files only finished or
expired gives a justified status), `StatusesCongruent` (a batch none of whose
files changed has the statuses it had) and `UnfinishedFileOpensBatch` (a file
that may still change makes its batch open, so `AdmitReadyFiles` may write
QUEUED and an event may write a file without a look at the others).
`FinalOutcomes` follows from `IInv` per action: the files of a closed batch are
finished, so no action that needs an unfinished file can touch it.
`StoredResultIsLatest` adds `ResultFromLatestStart` to `IInv`.

`ConversionTransactions_proofs` proves, from `TransactionsAssumption` (what
LifecycleAssumption says, and that requests, handlers, sweeps and purges are told
apart), for any number of rows, owners and processes:

* `TransactionsAreAtomic`: `Spec => ImplementsLifecycle`. Every step of every
  transaction maps to a step of ConversionLifecycle or to none, so what
  `ConversionLifecycle_proofs` proves holds of the statements as well.
* `DeadlockNeedsThePurge`: `Spec => []CyclesNeedThePurge`.

Both rest on one invariant, `Inv`. Its first part is the abstract one, `AtomicInv`
(types and justified statuses, said of the mapped state, by instantiating
`ConversionLifecycle_proofs`). The rest says what stands behind a commit: per actor
and label, which locks it holds (`AdmissionLocks`, `EventLocks`, `SweepLocks`,
`PurgeLocks`) and what the rows under them still are (`AdmissionOK`, `EventOK`,
`SweepOK`, `PurgeOK`). An admission's claimed files are READY and what it evicts is
COMPLETED in batches it has locked (`Claimed`, `Evicted`); an event's file still
accepts it (`Accepted`); what a roll-up read decides the same as what is there now
(`Read`, `RolledUpTo`), although `completeUploads` and STARTED change files without
the batch's lock, because a file they leave unfinished keeps the batch open either way
(`RollUpKept`). A row that was purged while its lock was awaited makes the statement
skip (`Secured`). Two arguments carry a step: what its actor does, action by action,
and that every other actor is `Spared` and so keeps what it relies on (`ActorKept`). A
step that only drafts is a stutter; a commit is the abstract action, with the draft as
its witness. For the deadlocks, `Ahead` ranks how far an actor is in the lock order
(owner, first batch, the owner's other batches, files), and whoever waits is behind
the one it waits for (`WaitingIsBehind`), unless that is the purge.

`AuthSessions_proofs` proves, from `SessionsAssumption`, for any number of
sessions, requests, credentials and passwords: `Types`, `ResetEndsSessions`
(`Spec => []NoSessionOnOldPassword`), `RotatesOnce` (`Spec => []OneUsableCredential`)
and `EndedForGood` (`Spec => RevokedStaysRevoked`). What was read is worth
nothing in itself, so the inductive invariant says what locks make of it.
`PasswordInv`: whoever is between its look at the user's row and its commit holds
that row; hence a sign-in about to insert still has the current password, and a
reset about to commit has listed every live session. `RotationInv`: whoever passed
the compare-and-swap holds the session's row, so the session is live and its
credential is the one compared; and the current credential is the last one issued.
`JobOK` types the locals.

Its second half proves of AuthAttempts, from `AttemptsAssumption`, for any number of
clients, requests under way and limits: `KeysExpire` (types, and that a counter has an
expiry exactly while it counts), `FullIsBlocked` (`Spec => []BlockedOnceCounted`),
`CountsAreBounded` (`Spec => []CountsBounded`) and `MailsStayApart` (`Spec =>
MailsAreApart`). That failures exceed a limit by the requests under way at most is not
inductive, because a request that read no block is a failure to come; the invariant
(`AttemptsInv`) counts those, too (`ComingBounded`), and a step either turns one into
a count or takes one away. For the mails it says that what is left of a cooldown and
the age of the last mail add up to a cooldown.

`AuthAccounts_proofs` proves, from `AccountsAssumption`, for any number of
addresses, subjects, requests and tokens: `AccountTypes`, `IssuesNeverCollide`,
`GoogleUsersHaveNoPassword`, `VerifyingLinkIsGood`, `RacesAreExplained` and
`TokensSpentOnce` (`Spec => OnlyNewestUnspentToken`). `RowsOK` says what rows are:
an active token is the newest of its user and type, and belongs to a user who
registered. `Knows(x)` says what a request may rely on at its label: what its locks
protect (whoever lists tokens holds the advisory lock, so its list stays complete
and nobody else issues; whoever is about to spend a token has its row, and found it
active) and what never changes back (users stay, consumed tokens stay
consumed, verified addresses stay verified). A row that is kept has lost nothing: an
unspent token is one that is kept and not consumed, and the cleanup can only make a
token spent, never active (`Ages`). So `VerifyingLinkIsGood` says what the code does:
no INVALID for the link that verified while its row is kept. `MoveStep` carries every step that
changes no row, `SpendStep` those that only consume tokens, and three actions that
create a row have a lemma each.

`StorageAdmission_proofs` proves `QuotaIsExact` (`Spec => []DailyQuotaExact`) for any
number of batches, files, days and admissions. A commit adds what was claimed and
counted statements before, so the invariant says what the locks keep of it: the
batch's row lock keeps claimed files READY, the lock on the day's row keeps the room
that was found (`TransactionOK`); and an admitted file has left READY for good
(`AdmittedOK`), so it is not counted twice.

It also proves `StorageIsKept` (`Spec => []StorageKept`). The admission's room was
found when it measured; until its commit the owner's lock keeps other admissions out,
and a result that comes in between changes a file's bytes from its input's to its
output's, the excess of which `outgrown` counts (`RoomFound`). What is evicted is
stored and in batches it has locked, so its bytes are gone exactly when the claimed
files' come. Sums over sets of files come first: that adding, removing and exchanging
a file changes a sum by its bytes (`SumUnfolds` and what follows it).

Of OutboxPublisher, from `OutboxAssumption`: `EventsAreSentOnce`
(`SentOnceButForUnsure`, with the types of all variables) and `SendsEndBeforeTimeout`
(`SendsEndInTime`). `OutboxInv`: a claimed row is due, in no other transaction, and tried
in the order of the claim (`TriedInOrder`), so the next row to send is one whose send
nobody recorded. `SendsEndBeforeTimeout` has a hypothesis, `SlowestSendFits`: the
deadline and the longest send together stay below the transaction's timeout. It is what
the code's constants say (12 + 7 < 20 seconds), though nothing in the code ties the three
together; without it the property is false.

`ConversionPipeline_proofs` proves, for every image, any number of copies, receives
and faults: `FinishedIsStored` (`CompletedIsStored`), `MadeOfVerifiedInput`
(`ResultOfVerifiedInput`), `FailedForItsInput` (`FailuresAreDeserved`),
`MetadataIsGone` (`ResultsAreClean`) and `PixelsAreWorthIt`
(`PixelsLostForAReason`). The lemmas about the compressor come first: what each
encoder returns is allowed in its mode (`Allowed`), for every image, not only those
of the run. Pixels are given up for a tenth of the bytes, or where stripping would leave
metadata in place (`CleanedByEncodingOnly`): never for an image that could be stripped. The invariant says of every job, event and object that it is of the
verified input, or excused by what became of it. Copies of a request write the same
keys, and the argument that this is harmless is that all attempts make the same bytes.

Of WorkerSlots it proves, from `SlotsAssumption`, for any number of loops, slots,
priorities and any period: `NoSlotLeaks` (`SlotsAccounted`, with the types of all
variables) and `LastIsServed` (`LastServedWithinPeriod`). `SlotsInv`: who waits is in the
queue, once (`Queued`); the slots taken are the loops that handle (`Accounted`); and a
single waiter of the last priority is at the end of the queue and was overtaken no
oftener than `grants` counts, so its turn comes before the count wraps
(`LastInQueue`). What inserting into the queue and removing from it do is proved of the
library's definitions (`Inserted`, `Removed`).

`SecurityEmail_proofs` proves, from `SecurityEmailAssumption`, for any number of
requests, calls and contents: `OneMailPerRequest` (`SentAtMostOnce`),
`LateAnswerCounts` (`LateOutcomeKept`) and `AnswersTrue` (`AnswersAreTrue`). Whoever
may send has written `attempts = 1`, which stays; so one call at most is between that
write and the end of its submission, and SES was not asked before (`IInv`). A result
in the row stays and was true of SES when it was written: nobody submits for a row
that was refused, because a row that may be sent is pending and none of those was
(`AnswersInv`).
`TInv` types the rows and what calls hold.

`SesFeedback_proofs` proves, from `SesFeedbackAssumption`, for any events,
recoveries, cleanups and keyrings: `StaysBlocked` (`BlockedUntilReviewed`),
`EventsFindTheirMail` (`QueuedEventsMatch`), `AliasesStayAlike` (`AliasesAgree`) and
`OrderIsForgotten` (`OrderDoesNotMatter`). The running keys find what blocks only
because no alias is of a key that is not configured; a recovery ends nothing it has
not read because what it read is no newer than the revision the operator named, and
the swap fails if that changed.

That the aliases agree is kept by a recovery only if it swaps all of them, or none: it
has read all rows there are, or, when feedback has added one since, every row it
read has a newer revision, and its swap fails (`HoldsAllRows` in `AgreeInv`). That order
is forgotten is proved of what is stored (`FollowInv`): until somebody steps in, the
aliases carry the newest blocking event, or the newest telling one while none
blocks, and a mail carries the newest of the events that decide it. A newest revision
exists and is the same however the events came, because revisions are ordered
lexicographically (`OlderIsOrder`, `NewestExists`).

Every invariant and every action property of the runs is now a theorem, and so is the
refinement. Only model-checked is what is temporal under fairness
(`EveryBatchIsPurged`, `EventsAreDelivered`, `ShutdownEnds`, `EveryRequestAnswered`,
`ClaimsEnd`), which this prover does not do.

The prover has no induction over data either: the library's induction theorems take an
operator. Where a lemma about sums, sequences or maxima needs one, its proof takes
a least counterexample instead (`Least`, `Smallest`: a set of naturals has a least
element), which needs the definition of the recursive function once and no operator.

## 6. Observations

What the models show that no property forbids, because the repository does not say
otherwise, or says it of one case only.

* STARTED is applied by two commits. A process that stops between them leaves the
  batch QUEUED while its file is PROCESSING; the redelivered event does not pass
  `attempt < n` and changes nothing. The next result rolls the batch up, so nothing
  is lost but the display (`LoseStartedHandler`).
* Once a batch is PROCESSING, `completeUploads` still makes late files READY, and
  `admitReadyFiles` refuses them for good: they expire with their upload window.
* Every eighth grant of a slot goes to the *last* waiter, so a middle priority may be
  overtaken for more than a period. `LastServedWithinPeriod` is about the last one.
* The storage deficit is measured before the batches are locked. A result that commits
  in between makes it stale, and an admission may be refused that evicting everything
  would have allowed; the client's next attempt measures again.
* A turned WebP that was stripped before, such as this program's own LOSSLESS result,
  strips to itself. In LOSSY mode the compressor then takes the lossy encoding even if it
  saves less than a tenth, because the block with the orientation counts as metadata
  (`image-compressor.service.ts:257-259`); it may be larger than the input. A JPEG of
  that kind is NO_SAVINGS in LOSSLESS mode, and `PixelsLostForAReason` counts the WebP
  among what only encoding cleans.
* The link that verified an address is answered ALREADY_VERIFIED when opened again, until
  the cleanup deletes the token a week after it was used; from then on it is answered
  INVALID (`registration.service.ts:209-218`, `session-cleanup.service.ts:38-45`).
* A sanitised result can be larger than its input, so stored bytes can exceed the
  plan (`StorageKept` counts by how much).
* An eviction and a purge that meet two dead batches of one owner lock them in no
  stated order and may deadlock; PostgreSQL aborts one, which leaves no trace and is
  tried again (`CyclesNeedThePurge` states that nothing else can).
* A request that was sent twice may end without a result although one was stored: a
  later receive of one copy announces STARTED with a higher attempt, which makes the
  row refuse the other copy's result; if the later one then fails until it is a dead
  letter, the file is left to the sweep. `EveryRequestAnswered` excepts dead letters.
* `consumed_at` is the moment the rotating request arrived, not when it committed, so a
  rotation slower than the grace of 3 s leaves a parallel tab none, and its honest
  refresh revokes the session. A refresh that reads the token's row before and the
  session's row after another rotation is taken for a replay, too, once the grace is
  over. A logout with a credential that was just rotated answers true and leaves the
  session live. The unguarded updates to EXPIRED and LOGOUT may overwrite the reason of
  an earlier revocation; the session stays ended (`RevokedStaysRevoked`).
* `startCooldown` does not prolong a cooldown that exists. A registration's mail
  shortly before the end of an older cooldown can be followed by a resend sooner than
  a cooldown later; `MailsAreApart` is about mails that are reserved.
* A temporary bounce makes a delivery BOUNCED, which is among the statuses a newer
  event of a lower kind no longer replaces. So which status a mail ends with depends on
  the order when one of its bounces was temporary; `StatusFollowsEvents` excepts it.
  What blocks a recipient does not depend on it.
* A key rotation with two instances that run different keyrings may leave aliases
  that disagree until the next event. SesFeedback has one running keyring.

## 7. What is not modelled, and why

* The purge of `daily_usage` rows: no statement reads a past day's row.
* `maxFileBytes` and the choice of queue in `admitReadyFiles`: pure functions of
  one row and the plan, with no state behind them.
* The replay of `createBatch` with the same idempotency key: it finds the row
  and changes nothing.
* Plans changing between two admissions: each admission reads its own, and
  ConversionLifecycle leaves retention and limits open per admission.
* Pixel work (sharp), templates, key parsing, cookies, GraphQL and module
  wiring, infrastructure and the gateway's router configuration: no state, or
  none of the program's.
* Of auth: the cleanup cron's deletion of sessions and session events (its deletion of
  tokens is `DeleteExpired`), sessions opened by Google logins
  (no password to compare), audit events, captchas, rate limits and the mails
  themselves. The expiry of an e-mailed token only refuses a request and is part of
  `Abort`. An update of several sessions takes its row locks in one step.
* auth's entitlements (a read of one row) and access-token keys and cookies (parsing
  and formatting).
* The Redis lock guards the session cleanup only; the HTTP rate limiter's counters are a
  library's.
* Of notifications: templates, the authentication of a command, the parser's messages
  that are not understood (they change nothing and stay for the redrive), retention
  dates, the command line of the recovery. `RenderFails` also stands for a submission
  that is given up because its deadline passed before it was sent.
* Of the pipeline: how many candidates sharp encodes for a mode's strength, and messages
  whose bodies do not parse, which this system does not produce.

## 8. What could follow

Every component whose state is the repository's own is modelled, most of them in part
(section 7 names what is left out). What would add to it:

* ConversionPipeline for several files of a batch, composed with
  ConversionTransactions; now each carries the other's effect as an action.
* SesFeedback with several instances that run different keyrings.
* Abstract specifications of parts that state only properties now, each with its
  refinement: a counting semaphore for WorkerSlots, a queue that delivers at least once
  for OutboxPublisher, a session that one credential rotates for AuthSessions.
* A property of the grace after a rotation, which `consumed_at` (the time the rotating
  request arrived) may leave none of; see section 6.
