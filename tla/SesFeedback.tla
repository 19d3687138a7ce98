----------------------------- MODULE SesFeedback -----------------------------
(***************************************************************************)
(* One recipient of notifications: the events SES publishes about his      *)
(* mails (feedback/ses-feedback.*.ts, ses-feedback-transitions.ts), the    *)
(* operator who lifts a suppression (operations/email-recovery.service.ts),*)
(* the nightly cleanup (operations/email-retention.service.ts) and the     *)
(* rotation of the keys his address is hashed with                         *)
(* (delivery/recipient-hash.service.ts).                                   *)
(*                                                                         *)
(* The recipient has one row of email_destinations per key version, an     *)
(* alias.  Feedback and claims look at aliases and change them under the   *)
(* recipient's advisory locks, which they take late and hold until they    *)
(* commit.  What feedback writes before that is an event, unique by its    *)
(* fingerprint, and updates of its mail that compare under the row's lock; *)
(* so its transaction is a single step.  A recovery takes no such lock and *)
(* is two.  SQS hands events over in any order, and again until they are   *)
(* deleted.  Reason codes and dates are left out.                          *)
(***************************************************************************)
EXTENDS EmailRows, FiniteSets, FiniteSetsExt

CONSTANTS
    Mail,      \* requestIds of mails to this recipient
    Event,     \* what SES may publish: a kind, a time, a fingerprint, a mail
    Operation, \* operationIds of recoveries
    Version,   \* versions of the recipient hash key
    Keyrings   \* configurations: the active version and all configured ones

Keyring == [active : Version, keys : SUBSET Version]

ASSUME SesFeedbackAssumption ==
    /\ \A e \in Event : e.mail \in Mail /\ e.kind \in EventKinds /\ e.at \in Nat /\ e.id \in Nat
    /\ IsFiniteSet(Version)
    /\ Keyrings \subseteq Keyring
    /\ \A k \in Keyrings : k.active \in k.keys

VARIABLES
    keyring,  \* the running configuration
    delivery, \* email_deliveries by mail, NoRow while there is none
    hashed,   \* the key version of a delivery's recipient hash
    alias,    \* email_destinations by key version, NoAlias while there is none
    queued,   \* events in the feedback queue
    events,   \* email_delivery_events
    audits,   \* email_recovery_audits: operation, alias, action, revision
    recovery, \* a recovery's transaction: the command and the aliases it read
    open,     \* history: suppressing events no completed recovery has reviewed
    plain     \* history: there was no recovery and no cleanup yet

mails == <<delivery, hashed>>
vars == <<keyring, mails, alias, queued, events, audits, recovery, open, plain>>

NoRow == [command |-> "none"]
Gone == [command |-> "gone"]   \* deleted; its requestId never comes back
Stored(m) == delivery[m] \notin {NoRow, Gone}
NoAlias == [status |-> "none", revision |-> 0, last |-> NoRevision]
NoRecovery == [action |-> "none"]

Lookup == keyring.keys
Rows(a) == {v \in Lookup : a[v] # NoAlias}
BlockedStatuses == {"SUPPRESSED", "RECOVERY_PENDING"}
Blocked == \E v \in Lookup : alias[v].status \in BlockedStatuses

Newest(R) == CHOOSE r \in R : \A s \in R : ~OlderRevision(r, s)

Init ==
    /\ keyring \in Keyrings
    /\ delivery = [m \in Mail |-> NoRow]
    /\ hashed = [m \in Mail |-> keyring.active]
    /\ alias = [v \in Version |-> NoAlias]
    /\ queued = {}
    /\ events = {}
    /\ audits = {}
    /\ recovery = [o \in Operation |-> NoRecovery]
    /\ open = {}
    /\ plain = TRUE

-----------------------------------------------------------------------------
(* SecurityEmail's claim, and the mail it sends: SES publishes whatever it *)
(* has to say of it.                                                       *)
Claim(m) ==
    /\ delivery[m] = NoRow
    /\ delivery' = [delivery EXCEPT ![m] = NewDelivery("mail", Blocked, NoLease)]
    /\ hashed' = [hashed EXCEPT ![m] = keyring.active]
    /\ queued' = IF Blocked THEN queued ELSE queued \cup {e \in Event : e.mail = m}
    /\ UNCHANGED <<keyring, alias, events, audits, recovery, open, plain>>

(* findDelivery: the row must carry a hash the running keyring can make.   *)
Matches(e) == Stored(e.mail) /\ hashed[e.mail] \in Lookup

(* suppressDestinationAliases                                              *)
Supersedes(a, e) == a.status # "SUPPRESSED" \/ OlderRevision(a.last, Revision(e))

NextRevision == Max({alias[v].revision : v \in Lookup}) + 1

Suppressed(e) ==
    LET touched(v) == IF Supersedes(alias[v], e) THEN Revision(e) ELSE alias[v].last
        all == [status |-> "SUPPRESSED", revision |-> NextRevision,
                last |-> Newest({touched(v) : v \in Lookup})]
    IN [v \in Version |-> IF v \in Lookup THEN all ELSE alias[v]]

(* updateNonterminalDestination for each alias ...                         *)
Updated(e) ==
    [v \in Version |->
       IF v \in Lookup /\ OlderRevision(alias[v].last, Revision(e))
       THEN [status |-> DestinationStatus(e), revision |-> alias[v].revision,
             last |-> Revision(e)]
       ELSE alias[v]]

(* ... and convergeNonterminalAliases.                                     *)
LeaveAsTheyAre(a) == a

Converge(a) ==
    LET authority == CHOOSE v \in Lookup : a[v].last = Newest({a[w].last : w \in Lookup})
    IN [v \in Version |->
          IF v \in Lookup
          THEN [status |-> a[authority].status, revision |-> a[v].revision,
                last |-> a[authority].last]
          ELSE a[v]]

(* applyDestinationTransition                                              *)
ApplyDestinationTransition(e) ==
    IF IsTerminalMailboxEvent(e)
    THEN /\ alias' = Suppressed(e)
         /\ open' = open \cup {[event |-> e, revision |-> NextRevision]}
    ELSE /\ alias' = IF DestinationStatus(e) = "none" \/ Blocked THEN alias
                     ELSE Converge(Updated(e))
         /\ UNCHANGED open

(* persist: an event already stored changes nothing.                       *)
Persist(e) ==
    /\ e \in queued \ events
    /\ Matches(e)
    /\ events' = events \cup {e}
    /\ delivery' = [delivery EXCEPT ![e.mail] = AfterFeedback(@, e)]
    /\ ApplyDestinationTransition(e)
    /\ UNCHANGED <<keyring, hashed, queued, audits, recovery, plain>>

(* processMessage deletes what was processed, now or when it comes again.  *)
Delete(e) ==
    /\ e \in queued \cap events
    /\ queued' = queued \ {e}
    /\ UNCHANGED <<keyring, mails, alias, events, audits, recovery, open, plain>>

-----------------------------------------------------------------------------
(* transition, called by requestRecovery, completeRecovery and             *)
(* failRecovery: the command and what it reads.  An operationId that has   *)
(* audits is a replay or a conflict and changes nothing.                   *)
Expected(action) == IF action = "REQUESTED" THEN "SUPPRESSED" ELSE "RECOVERY_PENDING"

After(action) ==
    [REQUESTED |-> "RECOVERY_PENDING", COMPLETED |-> "ACTIVE", FAILED |-> "SUPPRESSED"][action]

AnyRevisionOf(action, n) ==
    \A v \in Rows(alias) : alias[v].status = Expected(action)

AsExpected(action, n) ==
    /\ \A v \in Rows(alias) : alias[v].status = Expected(action)
    /\ Max({alias[v].revision : v \in Rows(alias)}) = n

ReadDestinations(o) ==
    /\ recovery[o] = NoRecovery
    /\ ~\E a \in audits : a.operation = o
    /\ Rows(alias) # {}
    /\ \E action \in {"REQUESTED", "COMPLETED", "FAILED"}, n \in 1..Cardinality(Event) :
         /\ AsExpected(action, n)
         /\ recovery' = [recovery EXCEPT ![o] =
                           [action |-> action, expected |-> n,
                            read |-> [v \in Rows(alias) |-> alias[v].revision]]]
    /\ UNCHANGED <<keyring, mails, alias, queued, events, audits, open, plain>>

(* The compare-and-swap of every alias that was read, and the audits.      *)
UnchangedSince(r) ==
    \A v \in DOMAIN r.read :
      alias[v].status = Expected(r.action) /\ alias[v].revision = r.read[v]

SwapDestinations(o) ==
    LET r == recovery[o] IN
    /\ r # NoRecovery
    /\ UnchangedSince(r)
    /\ alias' = [v \in Version |->
                   IF v \in DOMAIN r.read
                   THEN [status |-> After(r.action), revision |-> alias[v].revision,
                         last |-> alias[v].last]
                   ELSE alias[v]]
    /\ audits' = audits \cup {[operation |-> o, version |-> v] : v \in DOMAIN r.read}
    /\ recovery' = [recovery EXCEPT ![o] = NoRecovery]
    /\ open' = IF r.action = "COMPLETED" THEN {x \in open : x.revision > r.expected} ELSE open
    /\ plain' = FALSE
    /\ UNCHANGED <<keyring, mails, queued, events>>

(* Something changed in between, or the transaction is cut off.            *)
AbortRecovery(o) ==
    /\ recovery[o] # NoRecovery
    /\ recovery' = [recovery EXCEPT ![o] = NoRecovery]
    /\ UNCHANGED <<keyring, mails, alias, queued, events, audits, open, plain>>

-----------------------------------------------------------------------------
(* cleanupExpiredHistory: audits past their retention, mails past theirs   *)
(* (by then SQS holds no event of them), aliases of retired keys that      *)
(* block nothing, and blocking ones the active key's alias repeats.  The   *)
(* code deletes an event when its own 90 days are over and a mail when it  *)
(* has no event left.  An event is looked up only while SQS may hand it    *)
(* over again, so whether an older one is still stored changes no step;    *)
(* `events` keeps it as long as its mail, for the properties to speak of.  *)
Retired(v) == alias[v] # NoAlias /\ v # keyring.active
Audited(v, kept) == \E a \in kept : a.version = v

DeletableNonBlocking(v, kept) ==
    Retired(v) /\ alias[v].status \notin BlockedStatuses /\ ~Audited(v, kept)

DeletableBlocking(v, kept) ==
    /\ Retired(v) /\ alias[v].status \in BlockedStatuses /\ ~Audited(v, kept)
    /\ alias[keyring.active] = alias[v]

Cleanup ==
    \E kept \in SUBSET audits, old \in SUBSET {m \in Mail : Stored(m)} :
      LET gone == {v \in Version : DeletableNonBlocking(v, kept) \/ DeletableBlocking(v, kept)}
      IN /\ \A e \in queued : e.mail \notin old
         /\ audits' = kept
         /\ delivery' = [m \in Mail |-> IF m \in old THEN Gone ELSE delivery[m]]
         /\ events' = {e \in events : e.mail \notin old}
         /\ alias' = [v \in Version |-> IF v \in gone THEN NoAlias ELSE alias[v]]
         /\ recovery' = [o \in Operation |->
              IF recovery[o] # NoRecovery /\ DOMAIN recovery[o].read \cap gone # {}
              THEN NoRecovery ELSE recovery[o]]   \* its swap would miss a row
         /\ plain' = FALSE
         /\ UNCHANGED <<keyring, hashed, queued, open>>

(* onApplicationBootstrap refuses a keyring that lacks a version in use.   *)
MayStartAnyway(k) == TRUE

MayStart(k) ==
    /\ \A v \in Version : alias[v] # NoAlias => v \in k.keys
    /\ \A m \in Mail : Stored(m) => hashed[m] \in k.keys

(* The service restarts with another keyring.                              *)
Restart ==
    /\ \E k \in Keyrings : k # keyring /\ MayStart(k) /\ keyring' = k
    /\ recovery' = [o \in Operation |-> NoRecovery]
    /\ UNCHANGED <<mails, alias, queued, events, audits, open, plain>>

Next ==
    \/ \E m \in Mail : Claim(m)
    \/ \E e \in Event : Persist(e) \/ Delete(e)
    \/ \E o \in Operation : ReadDestinations(o) \/ SwapDestinations(o) \/ AbortRecovery(o)
    \/ Cleanup
    \/ Restart

Spec == Init /\ [][Next]_vars

-----------------------------------------------------------------------------
TypeOK ==
    /\ keyring \in Keyrings
    /\ \A m \in Mail : Stored(m) => delivery[m].status \in DeliveryStatuses
    /\ hashed \in [Mail -> Version]
    /\ \A v \in Version :
         /\ alias[v].status \in BlockedStatuses \cup {"none", "ACTIVE", "TEMPORARY_FAILURE"}
         /\ alias[v].revision \in Nat
    /\ queued \subseteq Event /\ events \subseteq Event
    /\ \A a \in audits : a.operation \in Operation /\ a.version \in Version
    /\ \A x \in open : x.event \in Event /\ x.revision \in Nat
    /\ plain \in BOOLEAN

(* A bounce or complaint blocks the recipient until a recovery that        *)
(* reviewed it completes: no order of feedback, recoveries, cleanups and   *)
(* key rotations lets him through.                                         *)
BlockedUntilReviewed ==
    \A x \in open : \E v \in Lookup :
      alias[v].status \in BlockedStatuses /\ alias[v].revision >= x.revision

(* The aliases of the recipient never disagree on whether and why he is    *)
(* blocked, or an operator could not recover him.                          *)
AliasesAgree ==
    /\ TypeOK
    /\ \A v, w \in Rows(alias) :
         alias[v].status = alias[w].status /\ alias[v].last = alias[w].last

(* Until an operator or the cleanup steps in, the destination depends on   *)
(* the events processed, not on their order.                               *)
DestinationFollowsEvents ==
    LET terminal == {e \in events : IsTerminalMailboxEvent(e)}
        telling == {e \in events : DestinationStatus(e) # "none"}
    IN plain =>
       \A v \in Rows(alias) :
         IF terminal # {}
         THEN /\ alias[v].last = Newest({Revision(e) : e \in terminal})
              /\ alias[v].revision = Cardinality(terminal)
         ELSE \E e \in telling :
                /\ Revision(e) = Newest({Revision(f) : f \in telling})
                /\ alias[v].last = Revision(e) /\ alias[v].status = DestinationStatus(e)

(* So does a mail's status, as long as no bounce is a temporary one.       *)
StatusFollowsEvents ==
    \A m \in Mail :
      LET mine == {e \in events : e.mail = m}
          terminal == {e \in mine : IsTerminalMailboxEvent(e)}
          decisive == IF terminal # {} THEN terminal ELSE mine
      IN (/\ mine # {}
          /\ ~\E e \in mine : e.kind \in {"TRANSIENT_BOUNCE", "UNDETERMINED_BOUNCE"}) =>
         \E e \in decisive :
           /\ Revision(e) = Newest({Revision(f) : f \in decisive})
           /\ delivery[m].status = DeliveryStatus(e)

(* What is stored is decided by the events, in whatever order and however  *)
(* often SQS hands them over.                                              *)
OrderDoesNotMatter == DestinationFollowsEvents /\ StatusFollowsEvents

(* Every event in the queue can be stored: none is left behind, redelivered *)
(* for ever, because the running keyring cannot match its mail.            *)
QueuedEventsMatch == \A e \in queued : Matches(e)
==============================================================================
