----------------------------- MODULE AuthSessions -----------------------------
(***************************************************************************)
(* The sessions of one user who signs in with a password: auth's           *)
(* session.service.ts, with the sign-in and the password reset that create *)
(* and end sessions.  A request is a sequence of statements that           *)
(* interleaves with all others; a transaction keeps the row locks it takes *)
(* until it commits or rolls back, and a statement sees what is committed. *)
(*                                                                         *)
(* Refresh credentials of a session are numbered in the order they were    *)
(* issued; a client may present any that ever was.  Hashing, cookies,      *)
(* access tokens and audit events are left out.  Which reset a user may    *)
(* make is the subject of the e-mailed tokens and left open here.          *)
(***************************************************************************)
EXTENDS Integers, FiniteSets

CONSTANTS
    Session,     \* session ids
    Login, Refresh, Reset, Logout,  \* requests of each kind that may run at once
    Nobody,      \* the holder of a free lock
    Never,       \* consumed_at of a token that was not rotated
    MaxToken,    \* bound: credentials issued to a session
    MaxPassword, \* bound: passwords the user has had
    MaxTime,     \* bound: the last instant of the clock
    TTL,         \* how long a session lasts
    Grace        \* REFRESH_REUSE_GRACE_MS

Request == Login \cup Refresh \cup Reset \cup Logout

ASSUME SessionsAssumption ==
    /\ Nobody \notin Request
    /\ Never \notin Nat
    /\ MaxToken \in Nat \ {0} /\ MaxPassword \in Nat \ {0}
    /\ MaxTime \in Nat /\ TTL \in Nat /\ Grace \in Nat
    /\ \A A, B \in {Login, Refresh, Reset, Logout} : A = B \/ A \cap B = {}

VARIABLES
    now,
    password,    \* users.password, as the number of the password it is a hash of
    state,       \* "none" before the row, "live" while revoked_at is null, then revoked_reason
    basis,       \* history: the password the sign-in that created it had verified
    expires,     \* sessions.expires_at
    rotatedAt,   \* sessions.rotated_at
    current,     \* the credential in sessions.refresh_token_hash
    issued,      \* rows of session_refresh_tokens: 1 .. issued[s]
    consumedAt,  \* their consumed_at
    userLock,    \* the transaction that holds the row of the user
    sessionLock, \* the transaction that holds a session's row
    pc, job      \* what a request does next, and its locals

user == <<password, userLock>>
sessions == <<state, basis, expires, rotatedAt, current, issued, consumedAt>>
vars == <<now, user, sessions, sessionLock, pc, job>>

Credential == 1 .. MaxToken
Reasons == {"LOGOUT", "LOGOUT_ALL", "REFRESH_REUSE", "PASSWORD_CHANGED", "EXPIRED"}

(* A request's locals: the session and credential it presents, when it     *)
(* arrived, what it read, and the sessions it is about to change.          *)
NoJob == [session |-> Nobody, token |-> 0, at |-> 0, read |-> 0, targets |-> {}]

Init ==
    /\ now = 0
    /\ password = 1
    /\ state = [s \in Session |-> "none"]
    /\ basis = [s \in Session |-> 0]
    /\ expires = [s \in Session |-> 0]
    /\ rotatedAt = [s \in Session |-> 0]
    /\ current = [s \in Session |-> 0]
    /\ issued = [s \in Session |-> 0]
    /\ consumedAt = [s \in Session |-> [g \in Credential |-> Never]]
    /\ userLock = Nobody
    /\ sessionLock = [s \in Session |-> Nobody]
    /\ pc = [x \in Request |-> "idle"]
    /\ job = [x \in Request |-> NoJob]

-----------------------------------------------------------------------------
Goto(x, label) == pc' = [pc EXCEPT ![x] = label]

Become(x, label, locals) ==
    /\ Goto(x, label)
    /\ job' = [job EXCEPT ![x] = locals]

(* Commit, rollback or the end of a request: x holds nothing any more.     *)
End(x) ==
    /\ userLock' = IF userLock = x THEN Nobody ELSE userLock
    /\ sessionLock' = [s \in Session |-> IF sessionLock[s] = x THEN Nobody ELSE sessionLock[s]]
    /\ Become(x, "idle", NoJob)

Live == {s \in Session : state[s] = "live"}
Unlocked(s) == sessionLock[s] = Nobody

Revoke(ss, reason) ==
    /\ state' = [s \in Session |-> IF s \in ss THEN reason ELSE state[s]]
    /\ UNCHANGED <<basis, expires, rotatedAt, current, issued, consumedAt>>

(* The process stops, or a statement fails: nothing of it remains.         *)
Abort(x) ==
    /\ pc[x] # "idle"
    /\ End(x)
    /\ UNCHANGED <<now, password, sessions>>

-----------------------------------------------------------------------------
(***************************************************************************)
(* login and createSession.                                                *)
(***************************************************************************)
\* The password given matches the hash read; `read` is that hash.
VerifyPassword(l) ==
    /\ pc[l] = "idle"
    /\ Become(l, "lockUser", [NoJob EXCEPT !.at = now, !.read = password])
    /\ UNCHANGED <<now, user, sessions, sessionLock>>

CompareUnlocked(l) ==
    /\ pc[l] = "lockUser"
    /\ password = job[l].read
    /\ Goto(l, "insert")
    /\ UNCHANGED <<now, user, sessions, sessionLock, job>>

(* SELECT ... FOR UPDATE on the user, and the comparison.  On a mismatch   *)
(* the request ends without a session: Abort.                              *)
LockUser(l) ==
    /\ pc[l] = "lockUser"
    /\ userLock = Nobody
    /\ password = job[l].read
    /\ userLock' = l
    /\ Goto(l, "insert")
    /\ UNCHANGED <<now, password, sessions, sessionLock, job>>

(* The session and its first credential are inserted and committed.        *)
CreateSession(l, s) ==
    /\ pc[l] = "insert"
    /\ state[s] = "none"
    /\ \E at \in job[l].at .. now :
          /\ at + TTL <= MaxTime
          /\ expires' = [expires EXCEPT ![s] = at + TTL]
          /\ rotatedAt' = [rotatedAt EXCEPT ![s] = at]
    /\ state' = [state EXCEPT ![s] = "live"]
    /\ basis' = [basis EXCEPT ![s] = job[l].read]
    /\ current' = [current EXCEPT ![s] = 1]
    /\ issued' = [issued EXCEPT ![s] = 1]
    /\ End(l)
    /\ UNCHANGED <<now, password, consumedAt>>

-----------------------------------------------------------------------------
(***************************************************************************)
(* refreshSession.                                                         *)
(***************************************************************************)
Present(r, s, g) ==
    /\ pc[r] = "idle"
    /\ g \in 1 .. issued[s]
    /\ Become(r, "readToken", [NoJob EXCEPT !.session = s, !.token = g, !.at = now])
    /\ UNCHANGED <<now, user, sessions, sessionLock>>

ReadToken(r) ==
    /\ pc[r] = "readToken"
    /\ job' = [job EXCEPT ![r].read = consumedAt[job[r].session][job[r].token]]
    /\ Goto(r, "readSession")
    /\ UNCHANGED <<now, user, sessions, sessionLock>>

Distance(t, u) == IF t < u THEN u - t ELSE t - u

(* The session as read now decides, with the token as read before.  A      *)
(* revoked one, or the previous token within its grace, is only refused:   *)
(* the request ends, by Abort.                                             *)
ReadSession(r) ==
    LET s == job[r].session
        consumed == job[r].read
        valid == state[s] = "live" /\ expires[s] > job[r].at
        young == rotatedAt[s] = consumed /\ Distance(job[r].at, consumed) <= Grace
    IN
    /\ pc[r] = "readSession"
    /\ \/ state[s] # "live" /\ Goto(r, "refused")
       \/ state[s] = "live" /\ expires[s] <= job[r].at /\ Goto(r, "expire")
       \/ valid /\ consumed = Never /\ Goto(r, "rotate")
       \/ valid /\ consumed # Never /\ young /\ Goto(r, "refused")
       \/ valid /\ consumed # Never /\ ~ young /\ Goto(r, "reuse")
    /\ UNCHANGED <<now, user, sessions, sessionLock, job>>

(* This update asks for nothing but the row's id.                          *)
MarkExpired(r) ==
    LET s == job[r].session IN
    /\ pc[r] = "expire"
    /\ Unlocked(s)
    /\ Revoke({s}, "EXPIRED")
    /\ End(r)
    /\ UNCHANGED <<now, password>>

RevokeReused(r) ==
    LET s == job[r].session IN
    /\ pc[r] = "reuse"
    /\ Unlocked(s)
    /\ Revoke({s} \cap Live, "REFRESH_REUSE")
    /\ End(r)
    /\ UNCHANGED <<now, password>>

(* rotateRefreshCredentialAtomically: the compare-and-swap on the session, *)
(* which keeps its row locked.  If it matches no row, Abort.               *)
MayRotateRevoked(r) ==
    LET s == job[r].session IN current[s] = job[r].token /\ expires[s] > job[r].at

MayRotate(r) ==
    LET s == job[r].session IN
    /\ current[s] = job[r].token
    /\ state[s] = "live"
    /\ expires[s] > job[r].at

CompareAndSwap(r) ==
    LET s == job[r].session IN
    /\ pc[r] = "rotate"
    /\ Unlocked(s)
    /\ MayRotate(r)
    /\ issued[s] < MaxToken
    /\ sessionLock' = [sessionLock EXCEPT ![s] = r]
    /\ Goto(r, "consume")
    /\ UNCHANGED <<now, user, sessions, job>>

CommitRotationKeepingHash(r) ==
    LET s == job[r].session IN
    /\ pc[r] = "consume"
    /\ consumedAt[s][job[r].token] = Never
    /\ consumedAt' = [consumedAt EXCEPT ![s][job[r].token] = job[r].at]
    /\ issued' = [issued EXCEPT ![s] = @ + 1]
    /\ rotatedAt' = [rotatedAt EXCEPT ![s] = job[r].at]
    /\ End(r)
    /\ UNCHANGED <<now, password, state, basis, expires, current>>

(* The presented token is consumed, the next one created, and all of it    *)
(* committed under the time the request arrived.                           *)
CommitRotation(r) ==
    LET s == job[r].session IN
    /\ pc[r] = "consume"
    /\ consumedAt[s][job[r].token] = Never
    /\ consumedAt' = [consumedAt EXCEPT ![s][job[r].token] = job[r].at]
    /\ issued' = [issued EXCEPT ![s] = @ + 1]
    /\ current' = [current EXCEPT ![s] = issued[s] + 1]
    /\ rotatedAt' = [rotatedAt EXCEPT ![s] = job[r].at]
    /\ End(r)
    /\ UNCHANGED <<now, password, state, basis, expires>>

-----------------------------------------------------------------------------
(***************************************************************************)
(* The transaction of resetPassword, once its token was accepted.          *)
(***************************************************************************)
ChangePassword(x) ==
    /\ pc[x] = "idle"
    /\ password < MaxPassword
    /\ userLock = Nobody
    /\ userLock' = x
    /\ Goto(x, "list")
    /\ UNCHANGED <<now, password, sessions, sessionLock, job>>

(* UPDATE ... WHERE revoked_at IS NULL: the rows it finds when it starts,  *)
(* each looked at again when its lock is free.                             *)
ListLive(x, next) == Become(x, next, [NoJob EXCEPT !.targets = Live])

ListSessions(x) ==
    /\ pc[x] = "list"
    /\ ListLive(x, "revoke")
    /\ UNCHANGED <<now, user, sessions, sessionLock>>

LockTargets(x) ==
    LET found == job[x].targets IN
    /\ pc[x] = "revoke"
    /\ \A s \in found : Unlocked(s)
    /\ sessionLock' = [s \in Session |-> IF s \in found \cap Live THEN x ELSE sessionLock[s]]
    /\ Become(x, "commit", [NoJob EXCEPT !.targets = found \cap Live])
    /\ UNCHANGED <<now, user, sessions>>

CommitReset(x) ==
    /\ pc[x] = "commit"
    /\ password' = password + 1
    /\ Revoke(job[x].targets, "PASSWORD_CHANGED")
    /\ End(x)
    /\ UNCHANGED now

-----------------------------------------------------------------------------
(***************************************************************************)
(* logout: the owner is who presents the current credential; the update    *)
(* asks for nothing but the row's id.                                      *)
(***************************************************************************)
OwnsSession(o, s, g) ==
    /\ pc[o] = "idle"
    /\ g \in 1 .. issued[s]
    /\ state[s] = "live" /\ current[s] = g
    /\ Become(o, "logout", [NoJob EXCEPT !.session = s])
    /\ UNCHANGED <<now, user, sessions, sessionLock>>

LogOut(o) ==
    LET s == job[o].session IN
    /\ pc[o] = "logout"
    /\ Unlocked(s)
    /\ Revoke({s}, "LOGOUT")
    /\ End(o)
    /\ UNCHANGED <<now, password>>

ListToLogOut(o) ==
    /\ pc[o] = "idle"
    /\ ListLive(o, "logoutAll")
    /\ UNCHANGED <<now, user, sessions, sessionLock>>

LogOutAll(o) ==
    /\ pc[o] = "logoutAll"
    /\ \A s \in job[o].targets : Unlocked(s)
    /\ Revoke(job[o].targets \cap Live, "LOGOUT_ALL")
    /\ End(o)
    /\ UNCHANGED <<now, password>>

Tick ==
    /\ now < MaxTime
    /\ now' = now + 1
    /\ UNCHANGED <<user, sessions, sessionLock, pc, job>>

-----------------------------------------------------------------------------
Next ==
    \/ \E l \in Login : VerifyPassword(l) \/ LockUser(l)
    \/ \E l \in Login, s \in Session : CreateSession(l, s)
    \/ \E r \in Refresh, s \in Session, g \in Credential : Present(r, s, g)
    \/ \E r \in Refresh : ReadToken(r) \/ ReadSession(r) \/ MarkExpired(r)
                          \/ RevokeReused(r) \/ CompareAndSwap(r) \/ CommitRotation(r)
    \/ \E x \in Reset : ChangePassword(x) \/ ListSessions(x) \/ LockTargets(x)
                        \/ CommitReset(x)
    \/ \E o \in Logout, s \in Session, g \in Credential : OwnsSession(o, s, g)
    \/ \E o \in Logout : LogOut(o) \/ ListToLogOut(o) \/ LogOutAll(o)
    \/ \E x \in Request : Abort(x)
    \/ Tick

Spec == Init /\ [][Next]_vars

-----------------------------------------------------------------------------
(***************************************************************************)
(* Types; a row of a session or of a credential has no contents before it  *)
(* exists.                                                                 *)
(***************************************************************************)
TypeOK ==
    /\ now \in Nat
    /\ password \in Nat
    /\ state \in [Session -> {"none", "live"} \cup Reasons]
    /\ basis \in [Session -> Nat]
    /\ expires \in [Session -> Nat] /\ rotatedAt \in [Session -> Nat]
    /\ current \in [Session -> 0 .. MaxToken] /\ issued \in [Session -> 0 .. MaxToken]
    /\ consumedAt \in [Session -> [Credential -> Nat \cup {Never}]]
    /\ userLock \in Request \cup {Nobody}
    /\ sessionLock \in [Session -> Request \cup {Nobody}]
    /\ pc \in [Request -> {"idle", "lockUser", "insert", "readToken", "readSession",
                           "refused", "expire", "reuse", "rotate", "consume", "list",
                           "revoke", "commit", "logout", "logoutAll"}]
    /\ \A s \in Session :
          /\ state[s] = "none" <=> issued[s] = 0
          /\ \A g \in Credential : g > issued[s] => consumedAt[s][g] = Never

(***************************************************************************)
(* A password reset leaves no session behind that was opened with an older *)
(* password, whatever sign-ins were verified against that password and had *)
(* not stored their session yet (password-sign-in.service.spec.ts:108).    *)
(* About the FOR UPDATE in createSession and resetPassword's transaction.  *)
(***************************************************************************)
NoSessionOnOldPassword == \A s \in Live : basis[s] = password

(***************************************************************************)
(* However many refreshes run in parallel, with whichever credentials, a   *)
(* session has one credential that was not rotated, and it is the current  *)
(* one: each rotates at most once (session-refresh-rotation.db.spec.ts:    *)
(* 128), none is orphaned, and none of the rotated ones comes back.        *)
(***************************************************************************)
OneUsableCredential ==
    \A s \in Session : \A g \in 1 .. issued[s] :
        consumedAt[s][g] = Never <=> g = current[s]

(***************************************************************************)
(* What ended stays ended: no refresh that began while the session was     *)
(* live revives it or rotates its credential afterwards.                   *)
(***************************************************************************)
RevokedStaysRevoked ==
    [][\A s \in Session : state[s] \in Reasons =>
          state'[s] \in Reasons /\ current'[s] = current[s]]_sessions
===============================================================================
