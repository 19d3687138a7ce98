----------------------------- MODULE AuthAccounts -----------------------------
(***************************************************************************)
(* Who has an account at auth, and the e-mailed tokens that verify an      *)
(* address or reset a password: registration.service.ts,                   *)
(* password-recovery.service.ts, google-sign-in.service.ts and             *)
(* auth-token.service.ts.  A request is a sequence of statements that      *)
(* interleaves with all others; a transaction keeps its locks until it     *)
(* ends, and what it wrote is seen from its commit on.                     *)
(*                                                                         *)
(* A user never changes its e-mail address, so users are told apart by it. *)
(* A token may be presented by anyone to whom it was mailed, at any time,  *)
(* after session-cleanup.service.ts has deleted its row too, and any       *)
(* number of times.  Its expiry only ever refuses a request, by the clock  *)
(* at which it began its transaction: an Abort.  Captchas, rate limits,    *)
(* mails and audit events are left out.                                    *)
(***************************************************************************)
EXTENDS Integers, FiniteSets

CONSTANTS
    Email,       \* normalised addresses
    Subject,     \* Google's provider_account_id
    Register, Ask, Verify, Reset, Google,  \* requests of each kind at once
    None,        \* SQL's null, and the holder of a free lock
    Registrable, \* bound: addresses somebody registers with a password
    MaxBusy,     \* bound: requests under way at once
    MaxToken,    \* bound: tokens issued
    MaxOld       \* bound: tokens that grow old

AuthTokenType == {"EMAIL_VERIFICATION", "PASSWORD_RESET"}
Request == Register \cup Ask \cup Verify \cup Reset \cup Google

ASSUME AccountsAssumption ==
    /\ None \notin Request \cup Email \cup Subject
    /\ Registrable \subseteq Email
    /\ MaxBusy \in Nat /\ MaxToken \in Nat \ {0} /\ MaxOld \in Nat
    /\ \A A, B \in {Register, Ask, Verify, Reset, Google} : A = B \/ A \cap B = {}

VARIABLES
    origin,      \* "none" while an address has no user, then who created it
    verified,    \* users.email_verified
    hasPassword, \* users.password is not null
    account,     \* the user a Google subject's account belongs to
    tokens,      \* the number of rows of auth_tokens: 1 .. tokens, in order of issue
    row,         \* their user and type
    consumed,    \* consumed_at is not null
    age,         \* "old" a week after it expired or was consumed, "gone" once deleted
    spentBy,     \* history: what consumed it
    emailLock,   \* who inserts a user with this address (the unique index)
    issueLock,   \* pg_advisory_xact_lock(user, type)
    tokenLock,   \* who holds a token's row
    pc, job      \* what a request does next, and its locals

users == <<origin, verified, hasPassword, account>>
authTokens == <<tokens, row, consumed, age, spentBy>>
locks == <<emailLock, issueLock, tokenLock>>
vars == <<users, authTokens, locks, pc, job>>

Token == 1 .. MaxToken
NoRow == [user |-> None, type |-> None]
NoJob == [user |-> None, subject |-> None, type |-> None, token |-> 0, used |-> FALSE,
          targets |-> {}]

Init ==
    /\ origin = [e \in Email |-> "none"]
    /\ verified = [e \in Email |-> FALSE]
    /\ hasPassword = [e \in Email |-> FALSE]
    /\ account = [g \in Subject |-> None]
    /\ tokens = 0
    /\ row = [t \in Token |-> NoRow]
    /\ consumed = [t \in Token |-> FALSE]
    /\ age = [t \in Token |-> "recent"]
    /\ spentBy = [t \in Token |-> "nothing"]
    /\ emailLock = [e \in Email |-> None]
    /\ issueLock = [k \in Email \X AuthTokenType |-> None]
    /\ tokenLock = [t \in Token |-> None]
    /\ pc = [x \in Request |-> "idle"]
    /\ job = [x \in Request |-> NoJob]

-----------------------------------------------------------------------------
Goto(x, label) == pc' = [pc EXCEPT ![x] = label]

Become(x, label, locals) ==
    /\ Goto(x, label)
    /\ job' = [job EXCEPT ![x] = locals]

MayBegin(x) ==
    /\ pc[x] = "idle"
    /\ Cardinality({y \in Request : pc[y] # "idle"}) < MaxBusy

(* Commit or rollback: x holds nothing any more.                           *)
Release(x) ==
    /\ emailLock' = [e \in Email |-> IF emailLock[e] = x THEN None ELSE emailLock[e]]
    /\ issueLock' = [k \in Email \X AuthTokenType |->
                        IF issueLock[k] = x THEN None ELSE issueLock[k]]
    /\ tokenLock' = [t \in Token |-> IF tokenLock[t] = x THEN None ELSE tokenLock[t]]

End(x) == Release(x) /\ Become(x, "idle", NoJob)

(* The process stops, a statement fails, or the request ends without       *)
(* having written anything.                                                *)
Abort(x) ==
    /\ pc[x] # "idle"
    /\ End(x)
    /\ UNCHANGED <<users, authTokens>>

Exists(e) == origin[e] # "none"
Kept(t) == age[t] # "gone"
Unspent(t) == Kept(t) /\ ~ consumed[t]

(* All that were ever issued, also those whose rows are gone.              *)
Of(e, type) == {t \in 1 .. tokens : row[t].user = e /\ row[t].type = type}
Active(e, type) == {t \in Of(e, type) : Unspent(t)}
Newest(t) == \A u \in Of(row[t].user, row[t].type) : u <= t

Spend(ts, how) ==
    /\ consumed' = [t \in Token |-> consumed[t] \/ t \in ts]
    /\ age' = age
    /\ spentBy' = [t \in Token |-> IF t \in ts THEN how ELSE spentBy[t]]

(* The insert of issueInTransaction.                                       *)
CreateToken(e, type) ==
    /\ tokens < MaxToken
    /\ tokens' = tokens + 1
    /\ row' = [row EXCEPT ![tokens + 1] = [user |-> e, type |-> type]]

Locked(t) == tokenLock[t] # None

-----------------------------------------------------------------------------
(***************************************************************************)
(* register.  Whoever inserts an address that another transaction is       *)
(* inserting waits for it.  A user who exists, then or now, is a conflict: *)
(* the request ends, by Abort.                                             *)
(***************************************************************************)
FindNoUser(x, e) ==
    /\ MayBegin(x)
    /\ ~ Exists(e)
    /\ Become(x, "createUser", [NoJob EXCEPT !.user = e])
    /\ UNCHANGED <<users, authTokens, locks>>

CreateUser(x) ==
    LET e == job[x].user IN
    /\ pc[x] = "createUser"
    /\ emailLock[e] = None /\ ~ Exists(e)
    /\ emailLock' = [emailLock EXCEPT ![e] = x]
    /\ Goto(x, "commitUser")
    /\ UNCHANGED <<users, authTokens, issueLock, tokenLock, job>>

(* The new user's first token is issued in the same transaction.           *)
CommitRegistration(x) ==
    LET e == job[x].user IN
    /\ pc[x] = "commitUser"
    /\ origin' = [origin EXCEPT ![e] = "local"]
    /\ hasPassword' = [hasPassword EXCEPT ![e] = TRUE]
    /\ CreateToken(e, "EMAIL_VERIFICATION")
    /\ End(x)
    /\ UNCHANGED <<verified, account, consumed, age, spentBy>>

-----------------------------------------------------------------------------
(***************************************************************************)
(* resendEmailVerification and requestPasswordReset: the user is read,     *)
(* then a transaction issues a token.                                      *)
(***************************************************************************)
MayAskAnyUser(e, type) ==
    Exists(e) /\ (type = "EMAIL_VERIFICATION" => ~ verified[e])

MayAsk(e, type) ==
    /\ Exists(e)
    /\ IF type = "EMAIL_VERIFICATION" THEN ~ verified[e] ELSE hasPassword[e]

AskForToken(x, e, type) ==
    /\ MayBegin(x)
    /\ MayAsk(e, type)
    /\ Become(x, "lockIssue", [NoJob EXCEPT !.user = e, !.type = type])
    /\ UNCHANGED <<users, authTokens, locks>>

LockIssueNot(x) ==
    /\ pc[x] = "lockIssue"
    /\ Goto(x, "list")
    /\ UNCHANGED <<users, authTokens, locks, job>>

LockIssue(x) ==
    LET k == <<job[x].user, job[x].type>> IN
    /\ pc[x] = "lockIssue"
    /\ issueLock[k] = None
    /\ issueLock' = [issueLock EXCEPT ![k] = x]
    /\ Goto(x, "list")
    /\ UNCHANGED <<users, authTokens, emailLock, tokenLock, job>>

(* UPDATE ... WHERE consumed_at IS NULL: the rows it finds when it starts, *)
(* each looked at again when its lock is free.                             *)
ListActive(x) ==
    /\ pc[x] = "list"
    /\ Become(x, "supersede", [job[x] EXCEPT !.targets = Active(job[x].user, job[x].type)])
    /\ UNCHANGED <<users, authTokens, locks>>

Supersede(x) ==
    LET found == {t \in job[x].targets : Unspent(t)} IN
    /\ pc[x] = "supersede"
    /\ \A t \in job[x].targets : ~ Locked(t)
    /\ tokenLock' = [t \in Token |-> IF t \in found THEN x ELSE tokenLock[t]]
    /\ Become(x, "issue", [job[x] EXCEPT !.targets = found])
    /\ UNCHANGED <<users, authTokens, emailLock, issueLock>>

(* auth_tokens_one_active_per_user_type refuses a second active token.     *)
Collides(x) == Active(job[x].user, job[x].type) \ job[x].targets # {}

CommitIssue(x) ==
    /\ pc[x] = "issue"
    /\ ~ Collides(x)
    /\ CreateToken(job[x].user, job[x].type)
    /\ Spend(job[x].targets, "newer")
    /\ End(x)
    /\ UNCHANGED <<users>>

-----------------------------------------------------------------------------
(***************************************************************************)
(* verifyEmail, one transaction.  `used` is what the first look at the     *)
(* token saw; its user is read by a second statement.  A token without a   *)
(* row is INVALID.  The answers EXPIRED and ALREADY_VERIFIED, which write  *)
(* nothing, are an Abort.                                                  *)
(***************************************************************************)
FindToken(x, t) ==
    /\ MayBegin(x)
    /\ t \in 1 .. tokens /\ row[t].type = "EMAIL_VERIFICATION"
    /\ Become(x, IF Kept(t) THEN "findUser" ELSE "INVALID",
              [NoJob EXCEPT !.token = t, !.used = consumed[t]])
    /\ UNCHANGED <<users, authTokens, locks>>

FindUser(x) ==
    LET t == job[x].token
        isVerified == verified[row[t].user]
    IN
    /\ pc[x] = "findUser"
    /\ \/ isVerified /\ Goto(x, "tidy")
       \/ ~ isVerified /\ job[x].used /\ Goto(x, "INVALID")
       \/ ~ isVerified /\ ~ job[x].used /\ age[t] = "recent" /\ Goto(x, "consume")
    /\ UNCHANGED <<users, authTokens, locks, job>>

(* A verified user's token is consumed, too; ALREADY_VERIFIED.             *)
TidyToken(x) ==
    LET t == job[x].token IN
    /\ pc[x] = "tidy"
    /\ ~ Locked(t)
    /\ Spend({t} \cap {u \in Token : Unspent(u)}, "tidying")
    /\ End(x)
    /\ UNCHANGED <<users, tokens, row>>

ConsumeToken(x) ==
    LET t == job[x].token IN
    /\ pc[x] = "consume"
    /\ ~ Locked(t)
    /\ IF Unspent(t)
       THEN tokenLock' = [tokenLock EXCEPT ![t] = x] /\ Goto(x, "commitVerified")
       ELSE tokenLock' = tokenLock /\ Goto(x, "findAgain")
    /\ UNCHANGED <<users, authTokens, emailLock, issueLock, job>>

FindAgainNot(x) ==
    /\ pc[x] = "findAgain"
    /\ Goto(x, "INVALID")
    /\ UNCHANGED <<users, authTokens, locks, job>>

FindAgain(x) ==
    LET t == job[x].token IN
    /\ pc[x] = "findAgain"
    /\ ~ (Kept(t) /\ verified[row[t].user])
    /\ Goto(x, "INVALID")
    /\ UNCHANGED <<users, authTokens, locks, job>>

CommitVerified(x) ==
    LET t == job[x].token IN
    /\ pc[x] = "commitVerified"
    /\ verified' = [verified EXCEPT ![row[t].user] = TRUE]
    /\ Spend({t}, "verification")
    /\ End(x)
    /\ UNCHANGED <<origin, hasPassword, account, tokens, row>>

-----------------------------------------------------------------------------
(***************************************************************************)
(* resetPassword: the token is looked at before the password is hashed and *)
(* again in the transaction.  One that is consumed, expired or deleted     *)
(* ends the request, by Abort.                                             *)
(***************************************************************************)
CheckResetToken(x, t) ==
    /\ MayBegin(x)
    /\ t \in 1 .. tokens /\ row[t].type = "PASSWORD_RESET"
    /\ age[t] = "recent" /\ ~ consumed[t]
    /\ Become(x, "checkAgain", [NoJob EXCEPT !.token = t])
    /\ UNCHANGED <<users, authTokens, locks>>

CheckResetTokenAgain(x) ==
    /\ pc[x] = "checkAgain"
    /\ age[job[x].token] = "recent" /\ ~ consumed[job[x].token]
    /\ Goto(x, "consumeReset")
    /\ UNCHANGED <<users, authTokens, locks, job>>

ConsumeUsedResetToken(x) ==
    LET t == job[x].token IN
    /\ pc[x] = "consumeReset"
    /\ ~ Locked(t)
    /\ tokenLock' = [tokenLock EXCEPT ![t] = x]
    /\ Goto(x, "commitReset")
    /\ UNCHANGED <<users, authTokens, emailLock, issueLock, job>>

ConsumeResetToken(x) ==
    LET t == job[x].token IN
    /\ pc[x] = "consumeReset"
    /\ ~ Locked(t) /\ Unspent(t)
    /\ tokenLock' = [tokenLock EXCEPT ![t] = x]
    /\ Goto(x, "commitReset")
    /\ UNCHANGED <<users, authTokens, emailLock, issueLock, job>>

(* The password itself, and the sessions it ends, are AuthSessions'.       *)
CommitReset(x) ==
    LET t == job[x].token IN
    /\ pc[x] = "commitReset"
    /\ hasPassword' = [hasPassword EXCEPT ![row[t].user] = TRUE]
    /\ Spend({t}, "reset")
    /\ End(x)
    /\ UNCHANGED <<origin, verified, account, tokens, row>>

-----------------------------------------------------------------------------
(***************************************************************************)
(* Google's login, up to createSession.  A unique index that refuses the   *)
(* user or the account rolls the transaction back, and what the winner of  *)
(* the race stored is looked up.  A login that finds the account, or a     *)
(* user to link it to, ends by Abort.                                      *)
(***************************************************************************)
FindAccount(x, g, e) ==
    /\ MayBegin(x)
    /\ account[g] = None
    /\ Become(x, "findEmail", [NoJob EXCEPT !.subject = g, !.user = e])
    /\ UNCHANGED <<users, authTokens, locks>>

FindEmail(x) ==
    /\ pc[x] = "findEmail"
    /\ ~ Exists(job[x].user)
    /\ Goto(x, "createGoogleUser")
    /\ UNCHANGED <<users, authTokens, locks, job>>

CreateGoogleUser(x) ==
    LET e == job[x].user IN
    /\ pc[x] = "createGoogleUser"
    /\ emailLock[e] = None
    /\ IF Exists(e)
       THEN UNCHANGED emailLock /\ Goto(x, "recoverAccount")
       ELSE emailLock' = [emailLock EXCEPT ![e] = x] /\ Goto(x, "createAccount")
    /\ UNCHANGED <<users, authTokens, issueLock, tokenLock, job>>

(* Others that insert the account of this subject are ordered by their     *)
(* commits: the first one stores it, the next is refused.                  *)
CreateAccount(x) ==
    LET e == job[x].user IN
    /\ pc[x] = "createAccount"
    /\ account[job[x].subject] = None
    /\ account' = [account EXCEPT ![job[x].subject] = e]
    /\ origin' = [origin EXCEPT ![e] = "google"]
    /\ verified' = [verified EXCEPT ![e] = TRUE]
    /\ End(x)
    /\ UNCHANGED <<hasPassword, authTokens>>

RefuseAccount(x) ==
    /\ pc[x] = "createAccount"
    /\ account[job[x].subject] # None
    /\ Release(x)
    /\ Goto(x, "recoverAccount")
    /\ UNCHANGED <<users, authTokens, job>>

RecoverAccount(x) ==
    /\ pc[x] = "recoverAccount"
    /\ account[job[x].subject] = None
    /\ Goto(x, "recoverEmail")
    /\ UNCHANGED <<users, authTokens, locks, job>>

RecoverNothing(x) ==
    /\ pc[x] = "recoverEmail"
    /\ Goto(x, "UNEXPLAINED")
    /\ UNCHANGED <<users, authTokens, locks, job>>

RecoverEmail(x) ==
    /\ pc[x] = "recoverEmail"
    /\ IF Exists(job[x].user) THEN End(x) ELSE Goto(x, "UNEXPLAINED") /\ UNCHANGED <<locks, job>>
    /\ UNCHANGED <<users, authTokens>>

-----------------------------------------------------------------------------
(* A week after a token expired or was consumed.  Requests take seconds:   *)
(* none that looks at the token is under way all the week.                 *)
GrowOld(t) ==
    /\ t \in 1 .. tokens /\ age[t] = "recent"
    /\ Cardinality({u \in Token : age[u] # "recent"}) < MaxOld
    /\ \A x \in Request : job[x].token # t /\ t \notin job[x].targets
    /\ age' = [age EXCEPT ![t] = "old"]
    /\ UNCHANGED <<users, tokens, row, consumed, spentBy, locks, pc, job>>

(* deleteExpiredData, of auth_tokens: one statement, which waits for rows  *)
(* that requests have locked.                                              *)
DeleteExpired ==
    LET expired == {t \in 1 .. tokens : age[t] = "old"} IN
    /\ expired # {}
    /\ \A t \in expired : ~ Locked(t)
    /\ age' = [t \in Token |-> IF t \in expired THEN "gone" ELSE age[t]]
    /\ UNCHANGED <<users, tokens, row, consumed, spentBy, locks, pc, job>>

-----------------------------------------------------------------------------
Next ==
    \/ \E x \in Register, e \in Registrable : FindNoUser(x, e)
    \/ \E x \in Register : CreateUser(x) \/ CommitRegistration(x)
    \/ \E x \in Ask, e \in Email, type \in AuthTokenType : AskForToken(x, e, type)
    \/ \E x \in Ask : LockIssue(x) \/ ListActive(x) \/ Supersede(x) \/ CommitIssue(x)
    \/ \E x \in Verify, t \in Token : FindToken(x, t)
    \/ \E x \in Verify : FindUser(x) \/ TidyToken(x) \/ ConsumeToken(x) \/ FindAgain(x)
                         \/ CommitVerified(x)
    \/ \E x \in Reset, t \in Token : CheckResetToken(x, t)
    \/ \E x \in Reset : CheckResetTokenAgain(x) \/ ConsumeResetToken(x) \/ CommitReset(x)
    \/ \E x \in Google, g \in Subject, e \in Email : FindAccount(x, g, e)
    \/ \E x \in Google : FindEmail(x) \/ CreateGoogleUser(x) \/ CreateAccount(x)
                         \/ RefuseAccount(x) \/ RecoverAccount(x) \/ RecoverEmail(x)
    \/ \E x \in Request : Abort(x)
    \/ \E t \in Token : GrowOld(t)
    \/ DeleteExpired

Spec == Init /\ [][Next]_vars

-----------------------------------------------------------------------------
Labels ==
    {"idle", "createUser", "commitUser", "lockIssue", "list", "supersede", "issue",
     "findUser", "tidy", "consume", "findAgain", "commitVerified", "INVALID",
     "checkAgain", "consumeReset", "commitReset", "findEmail",
     "createGoogleUser", "createAccount", "recoverAccount", "recoverEmail", "UNEXPLAINED"}

(***************************************************************************)
(* Types; tokens belong to users who exist; an account belongs to a user   *)
(* Google created, and to one only.                                        *)
(***************************************************************************)
TypeOK ==
    /\ origin \in [Email -> {"none", "local", "google"}]
    /\ verified \in [Email -> BOOLEAN] /\ hasPassword \in [Email -> BOOLEAN]
    /\ account \in [Subject -> Email \cup {None}]
    /\ tokens \in 0 .. MaxToken
    /\ row \in [Token -> [user : Email \cup {None}, type : AuthTokenType \cup {None}]]
    /\ consumed \in [Token -> BOOLEAN]
    /\ age \in [Token -> {"recent", "old", "gone"}]
    /\ spentBy \in [Token -> {"nothing", "newer", "verification", "tidying", "reset"}]
    /\ emailLock \in [Email -> Request \cup {None}]
    /\ issueLock \in [Email \X AuthTokenType -> Request \cup {None}]
    /\ tokenLock \in [Token -> Request \cup {None}]
    /\ pc \in [Request -> Labels]
    /\ \A t \in 1 .. tokens :
          row[t].type \in AuthTokenType /\ row[t].user \in Email /\ Exists(row[t].user)
    /\ \A g \in Subject : account[g] # None => origin[account[g]] = "google"
    /\ \A g, h \in Subject : account[g] = account[h] => account[g] = None \/ g = h

(***************************************************************************)
(* However many requests for tokens, verifications and resets overlap, the *)
(* partial unique index never refuses a token: a request is answered with  *)
(* a mail, not with an error that tells that the address has an account.   *)
(* About issueInTransaction.                                               *)
(***************************************************************************)
IssueNeverCollides == \A x \in Ask : pc[x] = "issue" => ~ Collides(x)

(***************************************************************************)
(* A token verifies an address or changes a password once at most, and     *)
(* only while it is the newest of its user and type: a mail that was       *)
(* superseded is of no use, even to a request that began before it was.    *)
(***************************************************************************)
OnlyNewestUnspentToken ==
    [][\A t \in Token :
          spentBy'[t] # spentBy[t] /\ spentBy'[t] \in {"verification", "reset"} =>
             spentBy[t] = "nothing" /\ Newest(t)]_authTokens

(***************************************************************************)
(* A user Google created never gets a password, nor a token that would     *)
(* lead to one: a mailbox alone does not open its account.                 *)
(***************************************************************************)
GoogleUsersStayPasswordless ==
    \A e \in Email : origin[e] = "google" =>
        /\ ~ hasPassword[e]
        /\ \A type \in AuthTokenType : Of(e, type) = {}

(***************************************************************************)
(* Whoever opens the verification link twice, even at once, is not told    *)
(* that the link which verified the address is invalid (verifyEmail), for  *)
(* as long as its row is kept: until the daily cleanup deletes it, a week  *)
(* after it was used.                                                      *)
(***************************************************************************)
VerifyingLinkIsNeverInvalid ==
    \A x \in Verify : pc[x] = "INVALID" /\ Kept(job[x].token) =>
        spentBy[job[x].token] # "verification"

(***************************************************************************)
(* A Google login that loses a race for its address or its account is      *)
(* signed in or asked to link, never answered with the database's error.   *)
(***************************************************************************)
LostRacesAreExplained == \A x \in Google : pc[x] # "UNEXPLAINED"
===============================================================================
