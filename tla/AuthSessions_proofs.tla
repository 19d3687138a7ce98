-------------------------- MODULE AuthSessions_proofs --------------------------
(***************************************************************************)
(* Proofs about AuthSessions for any number of sessions, credentials and   *)
(* requests.                                                               *)
(*                                                                         *)
(* None of the properties is inductive without saying what the row locks   *)
(* protect.  PasswordInv: who is between its look at the user's row and    *)
(* its commit holds that row, so a sign-in still has the right password    *)
(* when it stores its session, and no session appears once a reset has     *)
(* listed them.  RotationInv: who passed the compare-and-swap holds the    *)
(* session's row, so the session is still as it was when it commits.       *)
(*                                                                         *)
(* The second half is about the attempts that auth counts before it signs  *)
(* anybody in or mails a link, AuthAttempts, for any number of requests    *)
(* under way, clients and limits: a full counter is blocked, failures      *)
(* exceed their limit by the requests under way at most, reservations of   *)
(* mails not at all.  The bound on failures is not inductive: the requests *)
(* that have passed the block's reading and have not failed yet are        *)
(* failures to come, so the invariant counts them, too.                    *)
(***************************************************************************)
EXTENDS AuthSessions, AttemptKeys, FiniteSetTheorems, TLAPS

(* A reset that listed the live sessions has listed all of them.           *)
PasswordInv ==
    /\ \A x \in Request : pc[x] \in {"insert", "list", "revoke", "commit"} => userLock = x
    /\ \A x \in Request : pc[x] = "insert" => job[x].read = password
    /\ \A x \in Request : pc[x] \in {"revoke", "commit"} => Live \subseteq job[x].targets

(* What a rotation compared is still so, and what a reset is about to      *)
(* revoke is its own.                                                      *)
RotationInv ==
    /\ \A x \in Request : pc[x] = "consume" =>
          /\ job[x].session \in Session
          /\ sessionLock[job[x].session] = x
          /\ state[job[x].session] = "live"
          /\ current[job[x].session] = job[x].token
          /\ issued[job[x].session] < MaxToken
    /\ \A x \in Request : pc[x] = "commit" =>
          \A s \in Session : s \in job[x].targets => sessionLock[s] = x /\ state[s] = "live"
    /\ \A s \in Session : current[s] = issued[s]

Locals == [session : Session \cup {Nobody}, token : 0 .. MaxToken,
           at : Nat, read : Nat \cup {Never}, targets : SUBSET Session]

(* The session and the credential a request at this label presents exist.  *)
Fits(label, locals) ==
    /\ label \in {"readToken", "readSession", "expire", "reuse", "rotate", "consume", "logout"}
          => locals.session \in Session /\ state[locals.session] # "none"
    /\ label \in {"readToken", "readSession", "rotate", "consume"} => locals.token \in Credential

JobOK ==
    /\ job \in [Request -> Locals]
    /\ \A x \in Request : Fits(pc[x], job[x])

IInv ==
    /\ TypeOK /\ JobOK
    /\ PasswordInv /\ RotationInv
    /\ NoSessionOnOldPassword /\ OneUsableCredential

Labels == {"idle", "lockUser", "insert", "readToken", "readSession", "refused", "expire",
           "reuse", "rotate", "consume", "list", "revoke", "commit", "logout", "logoutAll"}

-----------------------------------------------------------------------------
(* A step of x that only moves x to a label no lock belongs to.            *)
LEMMA QuietStep ==
    ASSUME IInv, NEW x \in Request, NEW label \in Labels,
           label \notin {"insert", "list", "revoke", "commit", "consume"},
           Goto(x, label),
           JobOK',
           \A y \in Request : y # x => job'[y] = job[y],
           now' \in Nat,
           UNCHANGED <<user, sessions, sessionLock>>
    PROVE  IInv'
<1> USE DEF IInv, user, sessions, Goto
<1>1. TypeOK'
  BY DEF TypeOK, Labels
<1>2. PasswordInv'
  BY DEF PasswordInv, TypeOK, Live
<1>3. RotationInv'
  <2>1. \A y \in Request : pc'[y] \in {"consume", "commit"} => pc'[y] = pc[y] /\ job'[y] = job[y]
    BY DEF TypeOK
  <2>2. QED
    BY <2>1 DEF RotationInv
<1>4. NoSessionOnOldPassword'
  BY DEF NoSessionOnOldPassword, Live
<1>5. OneUsableCredential'
  BY DEF OneUsableCredential
<1>6. QED
  BY <1>1, <1>2, <1>3, <1>4, <1>5

(* A request that ends while it revokes sessions nobody has locked.        *)
LEMMA RevokeStep ==
    ASSUME IInv, NEW x \in Request, NEW ss \in SUBSET Session, NEW reason \in Reasons,
           \A s \in ss : Unlocked(s) /\ state[s] # "none",
           Revoke(ss, reason), End(x), UNCHANGED <<now, password>>
    PROVE  IInv'
<1> USE DEF IInv, End, Become, Goto, Revoke
<1>1. TypeOK'
  BY DEF TypeOK, Reasons
<1>2. JobOK'
  BY SessionsAssumption DEF JobOK, Fits, Locals, TypeOK, NoJob, Reasons
<1>3. PasswordInv'
  BY DEF PasswordInv, TypeOK, Live, Reasons
<1>4. RotationInv'
  BY SessionsAssumption DEF RotationInv, TypeOK, Unlocked
<1>5. NoSessionOnOldPassword'
  BY DEF NoSessionOnOldPassword, Live, Reasons
<1>6. OneUsableCredential'
  BY DEF OneUsableCredential
<1>7. QED
  BY <1>1, <1>2, <1>3, <1>4, <1>5, <1>6

LEMMA InitIInv == Init => IInv
<1> SUFFICES ASSUME Init PROVE IInv
  OBVIOUS
<1> USE SessionsAssumption DEF Init
<1>1. TypeOK
  BY DEF TypeOK, Request
<1>2. JobOK
  BY DEF JobOK, Fits, Locals, NoJob
<1>3. PasswordInv /\ RotationInv
  BY DEF PasswordInv, RotationInv
<1>4. NoSessionOnOldPassword /\ OneUsableCredential
  BY DEF NoSessionOnOldPassword, OneUsableCredential, Live
<1>5. QED
  BY <1>1, <1>2, <1>3, <1>4 DEF IInv

-----------------------------------------------------------------------------
(* Rollback, or a request that ends without having written.                *)
LEMMA AbortStep == ASSUME IInv, NEW x \in Request, Abort(x) PROVE IInv'
<1> USE DEF IInv, Abort, End, Become, Goto, sessions
<1>1. TypeOK'
  BY DEF TypeOK
<1>2. JobOK'
  BY SessionsAssumption DEF JobOK, Fits, Locals, TypeOK, NoJob
<1>3. PasswordInv'
  BY DEF PasswordInv, TypeOK, Live
<1>4. RotationInv'
  BY DEF RotationInv, TypeOK
<1>5. NoSessionOnOldPassword' /\ OneUsableCredential'
  BY DEF NoSessionOnOldPassword, OneUsableCredential, Live
<1>6. QED
  BY <1>1, <1>2, <1>3, <1>4, <1>5

(* The sign-in's look at the user: from here on the password stays.        *)
LEMMA LockUserStep == ASSUME IInv, NEW l \in Request, LockUser(l) PROVE IInv'
<1> USE DEF IInv, LockUser, Goto, sessions
<1>1. TypeOK'
  BY DEF TypeOK
<1>2. JobOK'
  BY DEF JobOK, Fits, Locals, TypeOK
<1>3. PasswordInv'
  BY SessionsAssumption DEF PasswordInv, TypeOK, Live
<1>4. RotationInv'
  BY DEF RotationInv, TypeOK
<1>5. NoSessionOnOldPassword' /\ OneUsableCredential'
  BY DEF NoSessionOnOldPassword, OneUsableCredential, Live
<1>6. QED
  BY <1>1, <1>2, <1>3, <1>4, <1>5

LEMMA CreateSessionStep ==
    ASSUME IInv, NEW l \in Request, NEW s \in Session, CreateSession(l, s) PROVE IInv'
<1> USE DEF IInv, CreateSession, End, Become, Goto
<1>1. PICK at \in job[l].at .. now :
          /\ expires' = [expires EXCEPT ![s] = at + TTL]
          /\ rotatedAt' = [rotatedAt EXCEPT ![s] = at]
  OBVIOUS
<1>2. at \in Nat /\ at + TTL \in Nat
  BY SessionsAssumption DEF JobOK, Fits, Locals, TypeOK
<1>3. job[l].read = password /\ userLock = l /\ issued[s] = 0
  BY DEF PasswordInv, TypeOK
<1>4. TypeOK'
  <2>1. password' \in Nat /\ now' \in Nat /\ basis' \in [Session -> Nat]
    BY <1>3 DEF TypeOK
  <2>2. expires' \in [Session -> Nat] /\ rotatedAt' \in [Session -> Nat]
    BY <1>1, <1>2 DEF TypeOK
  <2>3. /\ state' \in [Session -> {"none", "live"} \cup Reasons]
        /\ current' \in [Session -> 0 .. MaxToken] /\ issued' \in [Session -> 0 .. MaxToken]
    BY SessionsAssumption DEF TypeOK
  <2>4. /\ userLock' \in Request \cup {Nobody}
        /\ sessionLock' \in [Session -> Request \cup {Nobody}]
    BY DEF TypeOK
  <2>5. \A t \in Session : /\ state'[t] = "none" <=> issued'[t] = 0
                           /\ \A h \in Credential : h > issued'[t] => consumedAt'[t][h] = Never
    BY <1>3 DEF TypeOK, Credential
  <2>6. QED
    BY <2>1, <2>2, <2>3, <2>4, <2>5 DEF TypeOK
<1>5. JobOK'
  BY SessionsAssumption DEF JobOK, Fits, Locals, TypeOK, NoJob
<1>6. PasswordInv'
  BY <1>3 DEF PasswordInv, TypeOK
<1>7. RotationInv'
  BY SessionsAssumption DEF RotationInv, TypeOK
<1>8. NoSessionOnOldPassword'
  BY <1>3 DEF NoSessionOnOldPassword, Live, TypeOK
<1>9. OneUsableCredential'
  BY <1>3, SessionsAssumption DEF OneUsableCredential, TypeOK, Credential
<1>10. QED
  BY <1>4, <1>5, <1>6, <1>7, <1>8, <1>9

LEMMA CompareAndSwapStep == ASSUME IInv, NEW r \in Request, CompareAndSwap(r) PROVE IInv'
<1> USE DEF IInv, CompareAndSwap, Goto, user, sessions
<1>1. TypeOK'
  BY DEF TypeOK
<1>2. JobOK'
  BY DEF JobOK, Fits, Locals, TypeOK
<1>3. PasswordInv'
  BY DEF PasswordInv, TypeOK, Live
<1>4. RotationInv'
  BY SessionsAssumption DEF RotationInv, JobOK, Fits, Locals, TypeOK, MayRotate, Unlocked
<1>5. NoSessionOnOldPassword' /\ OneUsableCredential'
  BY DEF NoSessionOnOldPassword, OneUsableCredential, Live
<1>6. QED
  BY <1>1, <1>2, <1>3, <1>4, <1>5

(* The credential compared is still the current one, and nobody else has   *)
(* consumed it.                                                            *)
LEMMA CommitRotationStep == ASSUME IInv, NEW r \in Request, CommitRotation(r) PROVE IInv'
<1> DEFINE s == job[r].session
           g == job[r].token
<1> USE DEF IInv, CommitRotation, End, Become, Goto
<1>1. /\ s \in Session /\ g \in Credential /\ job[r].at \in Nat
      /\ sessionLock[s] = r /\ state[s] = "live"
      /\ current[s] = g /\ issued[s] = g /\ issued[s] < MaxToken
  BY DEF RotationInv, JobOK, Fits, Locals
<1>2. TypeOK'
  <2>1. issued' \in [Session -> 0 .. MaxToken] /\ current' \in [Session -> 0 .. MaxToken]
    BY <1>1, SessionsAssumption DEF TypeOK
  <2>2. consumedAt' \in [Session -> [Credential -> Nat \cup {Never}]]
    BY <1>1 DEF TypeOK
  <2>3. \A t \in Session : /\ state'[t] = "none" <=> issued'[t] = 0
                           /\ \A h \in Credential : h > issued'[t] => consumedAt'[t][h] = Never
    BY <1>1, SessionsAssumption DEF TypeOK, Credential
  <2>4. QED
    BY <1>1, <2>1, <2>2, <2>3 DEF TypeOK
<1>3. JobOK'
  BY SessionsAssumption DEF JobOK, Fits, Locals, TypeOK, NoJob
<1>4. PasswordInv'
  BY DEF PasswordInv, TypeOK, Live
<1>5. RotationInv'
  BY <1>1 DEF RotationInv, TypeOK
<1>6. NoSessionOnOldPassword'
  BY DEF NoSessionOnOldPassword, Live
<1>7. OneUsableCredential'
  <2>1. SUFFICES ASSUME NEW t \in Session, NEW h \in 1 .. issued'[t]
                 PROVE  consumedAt'[t][h] = Never <=> h = current'[t]
    BY DEF OneUsableCredential
  <2>2. CASE t # s
    BY <2>2, <1>1 DEF OneUsableCredential, TypeOK
  <2>3. CASE t = s
    <3>1. h \in Credential /\ h \in 1 .. g + 1 /\ current'[t] = g + 1
      BY <2>3, <1>1, SessionsAssumption DEF TypeOK, Credential
    <3>2. CASE h = g + 1
      BY <2>3, <3>1, <3>2, <1>1 DEF TypeOK, Credential
    <3>3. CASE h = g
      BY <2>3, <3>1, <3>3, <1>1, SessionsAssumption DEF TypeOK, Credential
    <3>4. CASE h \in 1 .. g - 1
      BY <2>3, <3>1, <3>4, <1>1 DEF OneUsableCredential, TypeOK, Credential
    <3>5. QED
      BY <3>1, <3>2, <3>3, <3>4, <1>1 DEF Credential
  <2>4. QED
    BY <2>2, <2>3
<1>8. QED
  BY <1>2, <1>3, <1>4, <1>5, <1>6, <1>7

-----------------------------------------------------------------------------
LEMMA ChangePasswordStep == ASSUME IInv, NEW x \in Request, ChangePassword(x) PROVE IInv'
<1> USE DEF IInv, ChangePassword, Goto, sessions
<1>1. TypeOK'
  BY DEF TypeOK
<1>2. JobOK'
  BY DEF JobOK, Fits, Locals, TypeOK
<1>3. PasswordInv'
  BY SessionsAssumption DEF PasswordInv, TypeOK, Live
<1>4. RotationInv'
  BY DEF RotationInv, TypeOK
<1>5. NoSessionOnOldPassword' /\ OneUsableCredential'
  BY DEF NoSessionOnOldPassword, OneUsableCredential, Live
<1>6. QED
  BY <1>1, <1>2, <1>3, <1>4, <1>5

LEMMA ListSessionsStep == ASSUME IInv, NEW x \in Request, ListSessions(x) PROVE IInv'
<1> USE DEF IInv, ListSessions, ListLive, Become, Goto, user, sessions
<1>1. TypeOK'
  BY DEF TypeOK
<1>2. JobOK'
  BY SessionsAssumption DEF JobOK, Fits, Locals, TypeOK, NoJob, Live
<1>3. PasswordInv'
  BY DEF PasswordInv, TypeOK, JobOK, Fits, Locals, Live
<1>4. RotationInv'
  BY DEF RotationInv, TypeOK, JobOK, Fits, Locals
<1>5. NoSessionOnOldPassword' /\ OneUsableCredential'
  BY DEF NoSessionOnOldPassword, OneUsableCredential, Live
<1>6. QED
  BY <1>1, <1>2, <1>3, <1>4, <1>5

LEMMA LockTargetsStep == ASSUME IInv, NEW x \in Request, LockTargets(x) PROVE IInv'
<1> USE DEF IInv, LockTargets, Become, Goto, user, sessions
<1>1. TypeOK'
  BY DEF TypeOK
<1>2. JobOK'
  BY SessionsAssumption DEF JobOK, Fits, Locals, TypeOK, NoJob
<1>3. PasswordInv'
  BY DEF PasswordInv, TypeOK, JobOK, Fits, Locals, Live, NoJob
<1>4. RotationInv'
  BY SessionsAssumption DEF RotationInv, TypeOK, JobOK, Fits, Locals, Unlocked, Live, NoJob
<1>5. NoSessionOnOldPassword' /\ OneUsableCredential'
  BY DEF NoSessionOnOldPassword, OneUsableCredential, Live
<1>6. QED
  BY <1>1, <1>2, <1>3, <1>4, <1>5

(* The reset revokes every live session with the password it replaces.     *)
LEMMA CommitResetStep == ASSUME IInv, NEW x \in Request, CommitReset(x) PROVE IInv'
<1> USE DEF IInv, CommitReset, End, Become, Goto, Revoke
<1>1. /\ userLock = x /\ Live \subseteq job[x].targets /\ job[x].targets \subseteq Session
      /\ \A s \in job[x].targets : sessionLock[s] = x /\ state[s] = "live"
  BY DEF PasswordInv, RotationInv, JobOK, Fits, Locals
<1>2. TypeOK'
  BY <1>1 DEF TypeOK, Reasons
<1>3. JobOK'
  BY SessionsAssumption DEF JobOK, Fits, Locals, TypeOK, NoJob
<1>4. PasswordInv'
  BY <1>1 DEF PasswordInv, TypeOK
<1>5. RotationInv'
  BY <1>1 DEF RotationInv, TypeOK, JobOK, Fits, Locals
<1>6. NoSessionOnOldPassword'
  BY <1>1 DEF NoSessionOnOldPassword, Live
<1>7. OneUsableCredential'
  BY DEF OneUsableCredential
<1>8. QED
  BY <1>2, <1>3, <1>4, <1>5, <1>6, <1>7

-----------------------------------------------------------------------------
LEMMA BecomeJob ==
    ASSUME IInv, NEW x \in Request, NEW label, NEW locals \in Locals,
           Become(x, label, locals), Fits(label, locals), state' = state
    PROVE  JobOK'
BY DEF IInv, TypeOK, JobOK, Fits, Become, Goto

LEMMA NoJobLocals == NoJob \in Locals
BY SessionsAssumption DEF NoJob, Locals

LEMMA QuietSteps ==
    ASSUME IInv,
           \/ \E l \in Login : VerifyPassword(l)
           \/ \E r \in Refresh, s \in Session, g \in Credential : Present(r, s, g)
           \/ \E r \in Refresh : ReadToken(r) \/ ReadSession(r)
           \/ \E o \in Logout, s \in Session, g \in Credential : OwnsSession(o, s, g)
           \/ \E o \in Logout : ListToLogOut(o)
    PROVE  IInv'
<1> USE DEF Request, Labels
<1>1. ASSUME NEW l \in Login, VerifyPassword(l) PROVE IInv'
  <2>1. JobOK'
    <3>1. now \in Nat /\ password \in Nat
      BY DEF IInv, TypeOK
    <3>2. [NoJob EXCEPT !.at = now, !.read = password] \in Locals
      BY <3>1, NoJobLocals DEF Locals
    <3>3. QED
      BY <1>1, <3>2, BecomeJob DEF VerifyPassword, Fits, sessions
  <2>2. QED
    BY <1>1, <2>1, QuietStep DEF IInv, TypeOK, VerifyPassword, Become, JobOK
<1>2. ASSUME NEW r \in Refresh, NEW s \in Session, NEW g \in Credential, Present(r, s, g)
      PROVE  IInv'
  <2>1. state[s] # "none"
    <3>1. state[s] = "none" <=> issued[s] = 0
      BY DEF IInv, TypeOK
    <3>2. g \in 1 .. issued[s]
      BY <1>2 DEF Present
    <3>3. issued[s] \in 0 .. MaxToken
      BY DEF IInv, TypeOK
    <3>4. issued[s] # 0
      BY <3>2, <3>3, SessionsAssumption
    <3>5. QED
      BY <3>1, <3>4
  <2>2. JobOK'
    <3> DEFINE locals == [NoJob EXCEPT !.session = s, !.token = g, !.at = now]
    <3>1. locals \in Locals /\ locals.session = s /\ locals.token = g
      <4>1. now \in Nat
        BY DEF IInv, TypeOK
      <4>2. g \in 0 .. MaxToken
        BY SessionsAssumption DEF Credential
      <4>3. QED
        BY <4>1, <4>2, NoJobLocals DEF NoJob, Locals
    <3>2. Become(r, "readToken", locals) /\ state' = state
      BY <1>2 DEF Present, sessions
    <3>3. Fits("readToken", locals)
      BY <2>1, <3>1 DEF Fits
    <3> HIDE DEF locals
    <3>4. QED
      BY <3>1, <3>2, <3>3, BecomeJob
  <2>3. QED
    BY <1>2, <2>2, QuietStep DEF IInv, TypeOK, Present, Become, JobOK
<1>3. ASSUME NEW r \in Refresh, ReadToken(r) PROVE IInv'
  <2>1. consumedAt[job[r].session][job[r].token] \in Nat \cup {Never}
    BY <1>3 DEF IInv, TypeOK, JobOK, Fits, Locals, ReadToken
  <2>2. JobOK'
    <3> DEFINE locals == [job[r] EXCEPT !.read = consumedAt[job[r].session][job[r].token]]
    <3>1. job[r] \in Locals /\ Fits("readToken", job[r])
      BY <1>3 DEF ReadToken, IInv, JobOK
    <3>2. locals \in Locals /\ Fits("readSession", locals)
      BY <3>1, <2>1 DEF Locals, Fits
    <3>3. Become(r, "readSession", locals) /\ state' = state
      BY <1>3 DEF Become, ReadToken, IInv, JobOK, sessions
    <3> HIDE DEF locals
    <3>4. QED
      BY <3>2, <3>3, BecomeJob
  <2>3. QED
    BY <1>3, <2>2, QuietStep DEF IInv, TypeOK, ReadToken, JobOK
<1>4. ASSUME NEW r \in Refresh, ReadSession(r) PROVE IInv'
  <2>1. PICK label \in {"refused", "expire", "rotate", "reuse"} : Goto(r, label)
    BY <1>4 DEF ReadSession
  <2>2. JobOK'
    BY <1>4, <2>1 DEF IInv, ReadSession, Goto, JobOK, Fits, Locals, TypeOK, sessions
  <2>3. QED
    BY <1>4, <2>1, <2>2, QuietStep DEF IInv, TypeOK, ReadSession, JobOK
<1>5. ASSUME NEW o \in Logout, NEW s \in Session, NEW g \in Credential, OwnsSession(o, s, g)
      PROVE  IInv'
  <2>1. JobOK'
    <3> DEFINE locals == [NoJob EXCEPT !.session = s]
    <3>1. locals \in Locals /\ locals.session = s
      BY SessionsAssumption DEF NoJob, Locals
    <3>2. Become(o, "logout", locals) /\ state' = state
      BY <1>5 DEF OwnsSession, sessions
    <3>3. Fits("logout", locals)
      BY <1>5, <3>1 DEF Fits, OwnsSession
    <3> HIDE DEF locals
    <3>4. QED
      BY <3>1, <3>2, <3>3, BecomeJob
  <2>2. QED
    BY <1>5, <2>1, QuietStep DEF IInv, TypeOK, OwnsSession, Become, JobOK
<1>6. ASSUME NEW o \in Logout, ListToLogOut(o) PROVE IInv'
  <2>1. JobOK'
    <3>1. [NoJob EXCEPT !.targets = Live] \in Locals
      BY SessionsAssumption DEF NoJob, Locals, Live
    <3>2. QED
      BY <1>6, <3>1, BecomeJob DEF ListToLogOut, ListLive, Fits, sessions
  <2>2. QED
    BY <1>6, <2>1, QuietStep DEF IInv, TypeOK, ListToLogOut, ListLive, Become, JobOK
<1>7. QED
  BY <1>1, <1>2, <1>3, <1>4, <1>5, <1>6

LEMMA RevokeSteps ==
    ASSUME IInv,
           \/ \E r \in Refresh : MarkExpired(r) \/ RevokeReused(r)
           \/ \E o \in Logout : LogOut(o) \/ LogOutAll(o)
    PROVE  IInv'
<1> USE DEF Request, Reasons
<1>1. ASSUME NEW r \in Refresh, MarkExpired(r) PROVE IInv'
  BY <1>1, RevokeStep DEF MarkExpired, IInv, JobOK, Fits, Locals
<1>2. ASSUME NEW r \in Refresh, RevokeReused(r) PROVE IInv'
  BY <1>2, RevokeStep DEF RevokeReused, IInv, JobOK, Fits, Locals
<1>3. ASSUME NEW o \in Logout, LogOut(o) PROVE IInv'
  BY <1>3, RevokeStep DEF LogOut, IInv, JobOK, Fits, Locals
<1>4. ASSUME NEW o \in Logout, LogOutAll(o) PROVE IInv'
  BY <1>4, RevokeStep DEF LogOutAll, IInv, Live
<1>5. QED
  BY <1>1, <1>2, <1>3, <1>4

LEMMA NextIInv == IInv /\ [Next]_vars => IInv'
<1> SUFFICES ASSUME IInv, [Next]_vars PROVE IInv'
  OBVIOUS
<1>1. ASSUME now' \in Nat, UNCHANGED <<user, sessions, sessionLock, pc, job>> PROVE IInv'
  <2> USE <1>1 DEF IInv, user, sessions
  <2>1. TypeOK' /\ JobOK'
    BY DEF TypeOK, JobOK, Fits, Locals
  <2>2. PasswordInv' /\ RotationInv'
    BY DEF PasswordInv, RotationInv, Live
  <2>3. NoSessionOnOldPassword' /\ OneUsableCredential'
    BY DEF NoSessionOnOldPassword, OneUsableCredential, Live
  <2>4. QED
    BY <2>1, <2>2, <2>3
<1>2. CASE Tick \/ UNCHANGED vars
  BY <1>1, <1>2 DEF Tick, vars, IInv, TypeOK
<1>3. ASSUME NEW l \in Login, LockUser(l) PROVE IInv'
  BY <1>3, LockUserStep DEF Request
<1>4. ASSUME NEW l \in Login, NEW s \in Session, CreateSession(l, s) PROVE IInv'
  BY <1>4, CreateSessionStep DEF Request
<1>5. ASSUME NEW r \in Refresh, CompareAndSwap(r) \/ CommitRotation(r) PROVE IInv'
  BY <1>5, CompareAndSwapStep, CommitRotationStep DEF Request
<1>6. ASSUME NEW x \in Reset,
             ChangePassword(x) \/ ListSessions(x) \/ LockTargets(x) \/ CommitReset(x)
      PROVE  IInv'
  BY <1>6, ChangePasswordStep, ListSessionsStep, LockTargetsStep, CommitResetStep DEF Request
<1>7. ASSUME NEW x \in Request, Abort(x) PROVE IInv'
  BY <1>7, AbortStep
<1>8. QED
  BY <1>2, <1>3, <1>4, <1>5, <1>6, <1>7, QuietSteps, RevokeSteps DEF Next

LEMMA Invariance == Spec => []IInv
<1> QED
  BY InitIInv, NextIInv, PTL DEF Spec

-----------------------------------------------------------------------------
(***************************************************************************)
(* The types of session.service.ts' rows, for any number of requests.      *)
(***************************************************************************)
THEOREM Types == Spec => []TypeOK
<1>1. IInv => TypeOK
  BY DEF IInv
<1> QED
  BY <1>1, Invariance, PTL

(***************************************************************************)
(* A password reset leaves no session that was opened with an older        *)
(* password, for any number of sign-ins and resets (session.service.ts     *)
(* createSession, password-recovery.service.ts resetPassword).             *)
(***************************************************************************)
THEOREM ResetEndsSessions == Spec => []NoSessionOnOldPassword
<1>1. IInv => NoSessionOnOldPassword
  BY DEF IInv
<1> QED
  BY <1>1, Invariance, PTL

(***************************************************************************)
(* However many refreshes run at once, each credential rotates at most     *)
(* once and the current one is the only one left                           *)
(* (rotateRefreshCredentialAtomically).                                    *)
(***************************************************************************)
THEOREM RotatesOnce == Spec => []OneUsableCredential
<1>1. IInv => OneUsableCredential
  BY DEF IInv
<1> QED
  BY <1>1, Invariance, PTL

(* What a rotation or an insert writes is never a session that ended.      *)
LEMMA EndedStep ==
    ASSUME IInv, [Next]_vars
    PROVE  [\A s \in Session : state[s] \in Reasons =>
              state'[s] \in Reasons /\ current'[s] = current[s]]_sessions
<1> SUFFICES ASSUME NEW s \in Session, state[s] \in Reasons, sessions' # sessions
             PROVE  state'[s] \in Reasons /\ current'[s] = current[s]
  OBVIOUS
<1>1. state[s] # "none" /\ state[s] # "live"
  BY DEF Reasons
<1>2. ASSUME NEW ss, NEW reason \in Reasons, Revoke(ss, reason)
      PROVE  state'[s] \in Reasons /\ current'[s] = current[s]
  BY <1>2 DEF Revoke
<1>3. ASSUME NEW l \in Login, NEW t \in Session, CreateSession(l, t)
      PROVE  state'[s] \in Reasons /\ current'[s] = current[s]
  BY <1>1, <1>3 DEF CreateSession, IInv, TypeOK
<1>4. ASSUME NEW r \in Refresh, CommitRotation(r)
      PROVE  state'[s] \in Reasons /\ current'[s] = current[s]
  BY <1>1, <1>4 DEF CommitRotation, IInv, TypeOK, RotationInv, Request
<1>5. ASSUME NEW r \in Refresh, MarkExpired(r) \/ RevokeReused(r)
      PROVE  state'[s] \in Reasons /\ current'[s] = current[s]
  BY <1>2, <1>5 DEF MarkExpired, RevokeReused, Reasons
<1>6. ASSUME NEW o \in Logout, LogOut(o) \/ LogOutAll(o)
      PROVE  state'[s] \in Reasons /\ current'[s] = current[s]
  BY <1>2, <1>6 DEF LogOut, LogOutAll, Reasons
<1>7. ASSUME NEW x \in Reset, CommitReset(x)
      PROVE  state'[s] \in Reasons /\ current'[s] = current[s]
  BY <1>2, <1>7 DEF CommitReset, Reasons
<1>8. QED
  BY <1>3, <1>4, <1>5, <1>6, <1>7
  DEF Next, vars, VerifyPassword, LockUser, Present, ReadToken, ReadSession, CompareAndSwap,
      ChangePassword, ListSessions, LockTargets, OwnsSession, ListToLogOut, Abort, Tick

(***************************************************************************)
(* A session that ended is never live again and its credential never       *)
(* rotates afterwards, whichever refreshes had begun before it ended.      *)
(***************************************************************************)
THEOREM EndedForGood == Spec => RevokedStaysRevoked
<1>1. IInv /\ [Next]_vars =>
        [\A s \in Session : state[s] \in Reasons =>
              state'[s] \in Reasons /\ current'[s] = current[s]]_sessions
  BY EndedStep
<1> QED
  BY <1>1, Invariance, PTL DEF Spec, RevokedStaysRevoked

-----------------------------------------------------------------------------
(***************************************************************************)
(* The attempts that auth counts in Redis.                                 *)
(***************************************************************************)
Attempts == INSTANCE AuthAttempts

(* Requests that have passed the block's reading and may still fail.       *)
Passed(k) ==
    {s \in Slot : /\ attempt[s].at # "idle"
                  /\ attempt[s].client.action = "login"
                  /\ k \in Attempts!CounterKeys(attempt[s].client)
                  /\ ~(attempt[s].at = "asserting" /\ k \in attempt[s].unread)}

LoginKey(k) == k[1] \in {"ip", "login"}

(* Failures counted and to come of a counter that is full.                 *)
ComingBounded ==
    \A k \in Attempts!Counter :
      LoginKey(k) /\ count[k] >= Attempts!Limit(k) =>
        count[k] + Cardinality(Passed(k)) <= Attempts!Limit(k) - 1 + Cardinality(Slot)

(* A mail's cooldown lasts until its age is a cooldown.                    *)
CooldownCovers ==
    \A m \in Attempts!Mailbox : cooldown[m] + age[m] >= Cooldown

AttemptsInv ==
    /\ Attempts!TypeOK
    /\ Attempts!BlockedOnceCounted /\ ComingBounded /\ Attempts!ReservationsBounded
    /\ CooldownCovers

-----------------------------------------------------------------------------
(* The keys of the instance are the module's own.                          *)
LEMMA SameKeys ==
    /\ Attempts!EmailActions = EmailActions /\ Attempts!Actions = Actions
    /\ Attempts!Counter = Counter /\ Attempts!attemptVars = attemptVars
    /\ \A k : Attempts!Limit(k) = Limit(k)
    /\ \A c : Attempts!CooldownKey(c) = CooldownKey(c)
BY DEF Attempts!EmailActions, EmailActions, Attempts!Actions, Actions, Attempts!Counter, Counter,
       Attempts!CounterKeys, CounterKeys, Attempts!PairKey, PairKey, Attempts!IpKey, IpKey,
       Attempts!attemptVars, attemptVars, Attempts!Limit, Limit, Attempts!CooldownKey, CooldownKey

LEMMA AttemptsAssumed ==
    /\ IsFiniteSet(Slot)
    /\ \A c \in Client : c.action \in Attempts!Actions
    /\ \A C \in Cases : C \subseteq Client
    /\ {MaxPairFailures, MaxIpFailures, MaxAttempts, CaptchaPairFailures, CaptchaAttempts}
         \subseteq Nat \ {0}
    /\ {Window, Block, Cooldown} \subseteq Nat \ {0}
    /\ Window <= Block
BY AttemptsAssumption, SameKeys

(* Limits are positive; keys of a client are counters.                     *)
LEMMA Limits == ASSUME NEW k PROVE Attempts!Limit(k) \in Nat \ {0}
BY AttemptsAssumed DEF Attempts!Limit

LEMMA Keys ==
    ASSUME NEW c \in Client
    PROVE  /\ Attempts!CounterKeys(c) \subseteq Attempts!Counter
           /\ c.action # "register" => Attempts!PairKey(c) \in Attempts!CounterKeys(c)
           /\ c.action \in Attempts!EmailActions => \A k \in Attempts!CounterKeys(c) : ~LoginKey(k)
           /\ c.action = "login" =>
                \A k \in Attempts!CounterKeys(c) : LoginKey(k) /\ k[1] \notin Attempts!EmailActions
           /\ c.action # "login" => Attempts!CooldownKey(c) \in Attempts!Mailbox
<1>1. c.action \in Attempts!Actions
  BY AttemptsAssumed
<1>2. Attempts!CounterKeys(c) \subseteq Attempts!Counter
  BY DEF Attempts!Counter
<1>3. c.action # "login" => Attempts!CooldownKey(c) \in Attempts!Mailbox
  BY DEF Attempts!Mailbox
<1>4. Attempts!PairKey(c)[1] = c.action /\ Attempts!IpKey(c)[1] = "ip"
  BY DEF Attempts!PairKey, Attempts!IpKey
<1>5. CASE c.action = "login"
  <2>1. Attempts!CounterKeys(c) = {Attempts!PairKey(c), Attempts!IpKey(c)}
    BY <1>5 DEF Attempts!CounterKeys
  <2> QED
    BY <1>2, <1>3, <1>4, <1>5, <2>1 DEF LoginKey, Attempts!EmailActions
<1>6. CASE c.action \in Attempts!EmailActions
  <2>1. Attempts!CounterKeys(c) = {Attempts!PairKey(c)}
    BY <1>6 DEF Attempts!CounterKeys, Attempts!EmailActions
  <2> QED
    BY <1>2, <1>3, <1>4, <1>6, <2>1 DEF LoginKey, Attempts!EmailActions
<1>7. CASE c.action = "register"
  BY <1>2, <1>3, <1>7 DEF Attempts!EmailActions
<1> QED
  BY <1>1, <1>5, <1>6, <1>7 DEF Attempts!Actions

(* Counts of requests are natural numbers, and none exceeds the slots.     *)
LEMMA Counted ==
    ASSUME NEW S \in SUBSET Slot
    PROVE  /\ IsFiniteSet(S) /\ Cardinality(S) \in Nat /\ Cardinality(Slot) \in Nat
           /\ Cardinality(S) <= Cardinality(Slot)
BY AttemptsAssumed, FS_Subset, FS_CardinalityType

LEMMA Fewer ==
    ASSUME NEW S \in SUBSET Slot, NEW T \in SUBSET S
    PROVE  Cardinality(T) <= Cardinality(S)
BY Counted, FS_Subset

(* A request taken from a set of them leaves one less.                     *)
LEMMA OneLess ==
    ASSUME NEW S \in SUBSET Slot, NEW s \in S, NEW T \in SUBSET (S \ {s})
    PROVE  /\ Cardinality(T) <= Cardinality(S) - 1
           /\ Cardinality(T) <= Cardinality(Slot) - 1
<1>1. Cardinality(S \ {s}) = Cardinality(S) - 1
  BY Counted, FS_RemoveElement
<1>2. Cardinality(T) <= Cardinality(S \ {s})
  BY Counted, Fewer
<1> QED
  BY <1>1, <1>2, Counted

(* A counter that is full is blocked: who finds no block may count.        *)
LEMMA UnblockedHasRoom ==
    ASSUME AttemptsInv, NEW k \in Attempts!Counter, block[k] = 0
    PROVE  count[k] < Attempts!Limit(k)
<1>1. count[k] \in Nat /\ window[k] \in 0..Window /\ (count[k] = 0 <=> window[k] = 0)
  BY DEF AttemptsInv, Attempts!TypeOK
<1>2. count[k] >= Attempts!Limit(k) => window[k] <= 0
  BY DEF AttemptsInv, Attempts!BlockedOnceCounted
<1> QED
  BY <1>1, <1>2, Limits

(* ComingBounded for a counter that does not grow, with no request more.   *)
LEMMA StillBounded ==
    ASSUME AttemptsInv, NEW k \in Attempts!Counter, LoginKey(k),
           count'[k] \in Nat, count'[k] <= count[k], count'[k] >= Attempts!Limit(k),
           Passed(k)' \subseteq Passed(k)
    PROVE  count'[k] + Cardinality(Passed(k)') <= Attempts!Limit(k) - 1 + Cardinality(Slot)
<1>1. count[k] \in Nat /\ Attempts!Limit(k) \in Nat
  BY Limits DEF AttemptsInv, Attempts!TypeOK
<1>2. count[k] + Cardinality(Passed(k)) <= Attempts!Limit(k) - 1 + Cardinality(Slot)
  BY <1>1 DEF AttemptsInv, ComingBounded
<1>3. Passed(k) \in SUBSET Slot /\ Passed(k)' \in SUBSET Slot
  BY DEF Passed
<1>4. Cardinality(Passed(k)') <= Cardinality(Passed(k))
  BY <1>3, Fewer
<1> QED
  BY <1>1, <1>2, <1>3, <1>4, Counted

-----------------------------------------------------------------------------
LEMMA InitAttempts == Attempts!Init => AttemptsInv
<1> SUFFICES ASSUME Attempts!Init PROVE AttemptsInv
  OBVIOUS
<1> USE AttemptsAssumed DEF Attempts!Init
<1>1. Attempts!TypeOK
  BY DEF Attempts!TypeOK, Attempts!Idle, Attempts!Places, Attempts!PlaceOf
<1>2. \A k \in Attempts!Counter : count[k] < Attempts!Limit(k)
  BY Limits
<1>3. Attempts!BlockedOnceCounted /\ ComingBounded /\ Attempts!ReservationsBounded
  BY <1>2, Limits DEF Attempts!BlockedOnceCounted, ComingBounded, Attempts!ReservationsBounded
<1>4. CooldownCovers
  BY DEF CooldownCovers
<1> QED
  BY <1>1, <1>3, <1>4 DEF AttemptsInv

(* Ending a request, or moving it past assertAllowed, adds to no Passed.   *)
LEMMA NoMorePassed ==
    ASSUME NEW s \in Slot, NEW k,
           \A t \in Slot \ {s} : attempt'[t] = attempt[t],
           s \notin Passed(k)' \/ s \in Passed(k)
    PROVE  Passed(k)' \subseteq Passed(k)
BY DEF Passed

-----------------------------------------------------------------------------
(* What a step may leave in a slot.                                        *)
JobType == [at : Attempts!Places, client : Client \cup {Attempts!Nobody},
unread : SUBSET Attempts!Counter, cools : BOOLEAN]

JobsTyped == attempt \in [Slot -> JobType] /\ \A s \in Slot : Attempts!PlaceOf(s)

LEMMA Ends ==
    ASSUME JobsTyped, NEW s \in Slot, Attempts!End(s)
    PROVE  JobsTyped'
BY DEF JobsTyped, JobType, Attempts!PlaceOf, Attempts!End, Attempts!Idle, Attempts!Nobody,
    Attempts!Places

LEMMA Goes ==
    ASSUME JobsTyped, NEW s \in Slot, NEW l \in Attempts!Places \ {"idle"}, Attempts!Goto(s, l),
           attempt[s].client \in Client,
           l = "mailing" => attempt[s].client.action = "register",
           l = "asserting" => attempt[s].client.action # "register",
           l \in {"comparing", "failing", "clearing"} => attempt[s].client.action = "login",
           l \in {"reserving", "mailed"} => attempt[s].client.action \in Attempts!EmailActions
    PROVE  JobsTyped'
BY DEF JobsTyped, JobType, Attempts!PlaceOf, Attempts!Goto

LEMMA Arrives ==
    ASSUME JobsTyped, clients \subseteq Client, NEW s \in Slot, Attempts!Arrive(s)
    PROVE  JobsTyped'
<1>1. PICK c \in clients :
        attempt' = [attempt EXCEPT ![s] =
                  [at |-> IF c.action = "register" THEN "mailing" ELSE "asserting",
                   client |-> c, unread |-> Attempts!BlocksRead(c),
                   cools |-> c.action \in Attempts!EmailActions]]
  BY DEF Attempts!Arrive
<1>2. /\ c \in Client /\ Attempts!BlocksRead(c) \in SUBSET Attempts!Counter
      /\ (c.action \in Attempts!EmailActions) \in BOOLEAN
  BY Keys DEF Attempts!BlocksRead
<1> QED
  BY <1>1, <1>2 DEF JobsTyped, JobType, Attempts!PlaceOf, Attempts!Places

LEMMA JobsStep ==
    ASSUME JobsTyped, clients \subseteq Client, NEW s \in Slot, Attempts!Request(s)
    PROVE  JobsTyped'
<1>1. attempt[s].at \in Attempts!Places /\ Attempts!PlaceOf(s)
  BY DEF JobsTyped, JobType
<1>2. CASE Attempts!Arrive(s)
  BY <1>2, Arrives
<1>3. CASE Attempts!ReadBlock(s)
  <2>1. ASSUME NEW k, attempt' = [attempt EXCEPT ![s].unread = @ \ {k}]
        PROVE  JobsTyped'
    BY <2>1 DEF JobsTyped, JobType, Attempts!PlaceOf
  <2> QED
    BY <1>3, <2>1, Ends DEF Attempts!ReadBlock
<1>4. CASE Attempts!ReadCooldown(s)
  <2>1. ASSUME attempt' = [attempt EXCEPT ![s].cools = FALSE]
        PROVE  JobsTyped'
    BY <2>1 DEF JobsTyped, JobType, Attempts!PlaceOf
  <2> QED
    BY <1>4, <2>1, Ends DEF Attempts!ReadCooldown
<1>5. CASE Attempts!RequireCaptcha(s)
  <2>1. attempt[s].client \in Client /\ attempt[s].client.action \in Attempts!Actions \ {"register"}
    BY <1>1, <1>5, AttemptsAssumed DEF Attempts!PlaceOf, Attempts!RequireCaptcha
  <2>2. CASE attempt[s].client.action = "login"
    BY <1>5, <2>1, <2>2, Goes, Ends DEF Attempts!RequireCaptcha, Attempts!Places,
        Attempts!EmailActions
  <2>3. CASE attempt[s].client.action \in Attempts!EmailActions
    BY <1>5, <2>1, <2>3, Goes, Ends DEF Attempts!RequireCaptcha, Attempts!Places,
        Attempts!EmailActions
  <2> QED
    BY <2>1, <2>2, <2>3 DEF Attempts!Actions
<1>6. CASE Attempts!ComparePassword(s)
  BY <1>1, <1>6, Goes, Ends DEF Attempts!ComparePassword, Attempts!Places, Attempts!PlaceOf
<1>7. CASE Attempts!Reserve(s)
  <2>1. attempt[s].client \in Client /\ attempt[s].client.action \in Attempts!EmailActions
    BY <1>1, <1>7 DEF Attempts!PlaceOf, Attempts!Reserve
  <2>2. Attempts!Goto(s, "mailed") \/ Attempts!End(s)
    BY <1>7 DEF Attempts!Reserve
  <2> QED
    BY <2>1, <2>2, Goes, Ends DEF Attempts!Places
<1>8. CASE \/ Attempts!RecordFailure(s) \/ Attempts!Clear(s)
           \/ Attempts!StartCooldown(s) \/ Attempts!Leave(s)
  BY <1>8, Ends DEF Attempts!RecordFailure, Attempts!Clear, Attempts!StartCooldown, Attempts!Leave
<1> QED
  BY <1>2, <1>3, <1>4, <1>5, <1>6, <1>7, <1>8 DEF Attempts!Request, Attempts!Login

(* The keys.                                                               *)
KeysTyped ==
    /\ count \in [Attempts!Counter -> Nat]
    /\ window \in [Attempts!Counter -> 0..Window] /\ block \in [Attempts!Counter -> 0..Block]
    /\ \A k \in Attempts!Counter : count[k] = 0 <=> window[k] = 0

LEMMA Counts ==
    ASSUME KeysTyped, NEW K \in SUBSET Attempts!Counter, Attempts!Count(K)
    PROVE  KeysTyped'
BY AttemptsAssumed DEF KeysTyped, Attempts!Count, Attempts!Incremented, Attempts!WindowAfter,
    Attempts!BlockAfter

LEMMA KeysStep ==
    ASSUME KeysTyped, JobsTyped, NEW s \in Slot, Attempts!Request(s)
    PROVE  KeysTyped'
<1>1. Attempts!PlaceOf(s)
  BY DEF JobsTyped
<1>2. CASE Attempts!RecordFailure(s)
  <2>1. Attempts!CounterKeys(attempt[s].client) \in SUBSET Attempts!Counter
    BY <1>1, <1>2, Keys DEF Attempts!PlaceOf, Attempts!RecordFailure
  <2> QED
    BY <1>2, <2>1, Counts DEF Attempts!RecordFailure
<1>3. CASE Attempts!Clear(s)
  <2> DEFINE key == Attempts!PairKey(attempt[s].client)
  <2>1. /\ count' = [count EXCEPT ![key] = 0] /\ window' = [window EXCEPT ![key] = 0]
        /\ block' = [block EXCEPT ![key] = 0]
    BY <1>3 DEF Attempts!Clear
  <2> HIDE DEF key
  <2>2. 0 \in 0..Window /\ 0 \in 0..Block
    BY AttemptsAssumed
  <2>3. count' \in [Attempts!Counter -> Nat]
    BY <2>1 DEF KeysTyped
  <2>4. window' \in [Attempts!Counter -> 0..Window] /\ block' \in [Attempts!Counter -> 0..Block]
    BY <2>1, <2>2 DEF KeysTyped
  <2>5. \A k \in Attempts!Counter : count'[k] = 0 <=> window'[k] = 0
    BY <2>1 DEF KeysTyped
  <2> QED
    BY <2>3, <2>4, <2>5 DEF KeysTyped
<1>4. CASE Attempts!Reserve(s)
  <2>1. attempt[s].client \in Client /\ attempt[s].client.action \in Attempts!EmailActions
    BY <1>1, <1>4 DEF Attempts!PlaceOf, Attempts!Reserve
  <2>2. {Attempts!PairKey(attempt[s].client)} \in SUBSET Attempts!Counter
    BY <2>1, Keys DEF Attempts!EmailActions
  <2>3. Attempts!Count({Attempts!PairKey(attempt[s].client)}) \/ UNCHANGED <<count, window,
  block>>
    BY <1>4 DEF Attempts!Reserve
  <2> QED
    BY <2>2, <2>3, Counts DEF KeysTyped
<1>5. CASE Attempts!ReadBlock(s)
  BY <1>5 DEF Attempts!ReadBlock, KeysTyped
<1> QED
  BY <1>2, <1>3, <1>4, <1>5
  DEF Attempts!Request, Attempts!Login, Attempts!Arrive, Attempts!ReadCooldown,
      Attempts!RequireCaptcha, Attempts!ComparePassword, Attempts!StartCooldown,
      Attempts!Leave, KeysTyped

(* The cooldowns.                                                          *)
CooldownsTyped ==
    /\ cooldown \in [Attempts!Mailbox -> 0..Cooldown]
    /\ age \in [Attempts!Mailbox -> 0..Cooldown]

LEMMA CooldownsStep ==
    ASSUME CooldownsTyped, NEW s \in Slot, Attempts!Request(s)
    PROVE  CooldownsTyped' /\ clients' = clients
<1> USE AttemptsAssumed DEF CooldownsTyped
<1> DEFINE key == Attempts!CooldownKey(attempt[s].client)
<1>1. CASE Attempts!Reserve(s)
  <2>1. \/ cooldown' = [cooldown EXCEPT ![key] = Cooldown] /\ age' = [age EXCEPT ![key] = 0]
        \/ UNCHANGED <<cooldown, age>>
    BY <1>1 DEF Attempts!Reserve
  <2>2. clients' = clients
    BY <1>1 DEF Attempts!Reserve
  <2> HIDE DEF key
  <2> QED
    BY <2>1, <2>2
<1>2. CASE Attempts!StartCooldown(s)
  <2>1. /\ cooldown' = [cooldown EXCEPT ![key] = IF @ = 0 THEN Cooldown ELSE @]
        /\ age' = age /\ clients' = clients
    BY <1>2 DEF Attempts!StartCooldown
  <2> HIDE DEF key
  <2>2. Cooldown \in 0..Cooldown
    OBVIOUS
  <2>3. \A m \in Attempts!Mailbox : cooldown'[m] \in 0..Cooldown
    BY <2>1, <2>2
  <2> QED
    BY <2>1, <2>3
<1> QED
  BY <1>1, <1>2
  DEF Attempts!Request, Attempts!Login, Attempts!Arrive, Attempts!ReadBlock,
      Attempts!ReadCooldown, Attempts!RequireCaptcha, Attempts!ComparePassword,
      Attempts!RecordFailure, Attempts!Clear, Attempts!Leave

LEMMA TypeParts ==
    Attempts!TypeOK <=> clients \subseteq Client /\ KeysTyped /\ CooldownsTyped /\ JobsTyped
BY DEF Attempts!TypeOK, KeysTyped, CooldownsTyped, JobsTyped, JobType

LEMMA TickTypes == Attempts!TypeOK /\ Attempts!Tick => Attempts!TypeOK'
<1> SUFFICES ASSUME Attempts!TypeOK, Attempts!Tick PROVE Attempts!TypeOK'
  OBVIOUS
<1> USE AttemptsAssumed
<1>1. KeysTyped'
  BY TypeParts DEF KeysTyped, Attempts!Tick, Attempts!Less
<1>2. CooldownsTyped'
  BY TypeParts DEF CooldownsTyped, Attempts!Tick, Attempts!Less
<1>3. clients' \subseteq Client /\ JobsTyped'
  BY TypeParts DEF JobsTyped, Attempts!Tick, Attempts!PlaceOf
<1> QED
  BY <1>1, <1>2, <1>3 DEF Attempts!TypeOK, KeysTyped, CooldownsTyped, JobsTyped, JobType

LEMMA TypeStep == Attempts!TypeOK /\ [Attempts!Next]_(Attempts!attemptVars) => Attempts!TypeOK'
<1> SUFFICES ASSUME Attempts!TypeOK, [Attempts!Next]_(Attempts!attemptVars) PROVE Attempts!TypeOK'
  OBVIOUS
<1>1. ASSUME NEW s \in Slot, Attempts!Request(s) PROVE Attempts!TypeOK'
  <2>1. KeysTyped' /\ CooldownsTyped' /\ JobsTyped' /\ clients' = clients
    BY <1>1, TypeParts, KeysStep, CooldownsStep, JobsStep
  <2> QED
    BY <2>1, TypeParts DEF Attempts!TypeOK, KeysTyped, CooldownsTyped, JobsTyped, JobType
<1>2. CASE UNCHANGED Attempts!attemptVars
  BY <1>2 DEF Attempts!attemptVars, Attempts!TypeOK, Attempts!PlaceOf
<1> QED
  BY <1>1, <1>2, TickTypes DEF Attempts!Next

-----------------------------------------------------------------------------
LEMMA BlockedStep ==
    AttemptsInv /\ [Attempts!Next]_(Attempts!attemptVars) => Attempts!BlockedOnceCounted'
<1> SUFFICES ASSUME AttemptsInv,
[Attempts!Next]_(Attempts!attemptVars) PROVE Attempts!BlockedOnceCounted'
  OBVIOUS
<1> USE AttemptsAssumed
<1>1. KeysTyped /\ JobsTyped /\ Attempts!BlockedOnceCounted
  BY TypeParts DEF AttemptsInv
<1>2. ASSUME NEW K \in SUBSET Attempts!Counter,
Attempts!Count(K) PROVE Attempts!BlockedOnceCounted'
  <2> SUFFICES ASSUME NEW k \in Attempts!Counter,
  count'[k] >= Attempts!Limit(k) PROVE block'[k] >= window'[k]
    BY DEF Attempts!BlockedOnceCounted, Attempts!Limit
  <2>1. CASE k \in K
    <3>1. block'[k] = Block
      BY <1>2, <2>1 DEF Attempts!Count, Attempts!Incremented, Attempts!BlockAfter
    <3>2. window'[k] \in 0..Window
      BY <1>1, <1>2, Counts DEF KeysTyped
    <3> QED
      BY <3>1, <3>2
  <2>2. CASE k \notin K
    BY <1>1, <1>2, <2>2 DEF Attempts!BlockedOnceCounted, Attempts!Count, Attempts!Incremented,
        Attempts!WindowAfter, Attempts!BlockAfter
  <2> QED
    BY <2>1, <2>2
<1>3. ASSUME UNCHANGED <<count, window, block>> PROVE Attempts!BlockedOnceCounted'
  BY <1>1, <1>3 DEF Attempts!BlockedOnceCounted, Attempts!Limit
<1>4. CASE Attempts!Tick
  <2> SUFFICES ASSUME NEW k \in Attempts!Counter,
  count'[k] >= Attempts!Limit(k) PROVE block'[k] >= window'[k]
    BY DEF Attempts!BlockedOnceCounted, Attempts!Limit
  <2>1. Attempts!Limit(k) > 0
    BY Limits
  <2>2. /\ count'[k] = (IF window[k] > 1 THEN count[k] ELSE 0)
        /\ window'[k] = Attempts!Less(window[k]) /\ block'[k] = Attempts!Less(block[k])
    BY <1>4 DEF Attempts!Tick
  <2>3. window[k] > 1 /\ count[k] >= Attempts!Limit(k)
    BY <2>1, <2>2, Limits
  <2> QED
    BY <1>1, <2>2, <2>3 DEF KeysTyped, Attempts!BlockedOnceCounted, Attempts!Less
<1>5. ASSUME NEW s \in Slot, Attempts!Request(s) PROVE Attempts!BlockedOnceCounted'
  <2>1. Attempts!PlaceOf(s)
    BY <1>1 DEF JobsTyped
  <2>2. CASE Attempts!RecordFailure(s)
    <3>1. Attempts!CounterKeys(attempt[s].client) \in SUBSET Attempts!Counter
      BY <2>1, <2>2, Keys DEF Attempts!PlaceOf, Attempts!RecordFailure
    <3> QED
      BY <1>2, <2>2, <3>1 DEF Attempts!RecordFailure
  <2>3. CASE Attempts!Clear(s)
    <3> DEFINE key == Attempts!PairKey(attempt[s].client)
    <3>1. /\ count' = [count EXCEPT ![key] = 0] /\ window' = [window EXCEPT ![key] = 0]
          /\ block' = [block EXCEPT ![key] = 0]
      BY <2>3 DEF Attempts!Clear
    <3> HIDE DEF key
    <3> QED
      BY <1>1, <3>1, Limits DEF KeysTyped, Attempts!BlockedOnceCounted, Attempts!Limit
  <2>4. CASE Attempts!Reserve(s)
    <3>1. attempt[s].client \in Client /\ attempt[s].client.action \in Attempts!EmailActions
      BY <2>1, <2>4 DEF Attempts!PlaceOf, Attempts!Reserve
    <3>2. {Attempts!PairKey(attempt[s].client)} \in SUBSET Attempts!Counter
      BY <3>1, Keys DEF Attempts!EmailActions
    <3>3. Attempts!Count({Attempts!PairKey(attempt[s].client)}) \/ UNCHANGED <<count, window,
    block>>
      BY <2>4 DEF Attempts!Reserve
    <3> QED
      BY <1>2, <1>3, <3>2, <3>3
  <2>5. CASE Attempts!ReadBlock(s)
    BY <1>3, <2>5 DEF Attempts!ReadBlock
  <2> QED
    BY <1>3, <1>5, <2>2, <2>3, <2>4, <2>5
    DEF Attempts!Request, Attempts!Login, Attempts!Arrive, Attempts!ReadCooldown,
        Attempts!RequireCaptcha, Attempts!ComparePassword, Attempts!StartCooldown, Attempts!Leave
<1>6. CASE UNCHANGED Attempts!attemptVars
  BY <1>3, <1>6 DEF Attempts!attemptVars
<1> QED
  BY <1>4, <1>5, <1>6 DEF Attempts!Next

(* A reservation finds no block, so its counter has room for it.           *)
LEMMA ReservationsStep ==
    AttemptsInv /\ [Attempts!Next]_(Attempts!attemptVars) => Attempts!ReservationsBounded'
<1> SUFFICES ASSUME AttemptsInv, [Attempts!Next]_(Attempts!attemptVars),
NEW k \in Attempts!Counter, k[1] \in Attempts!EmailActions
             PROVE  count'[k] <= Attempts!Limit(k)
  BY DEF Attempts!ReservationsBounded, Attempts!Limit
<1>1. KeysTyped /\ JobsTyped /\ count[k] <= Attempts!Limit(k)
  BY TypeParts DEF AttemptsInv, Attempts!ReservationsBounded
<1>2. Attempts!Limit(k) \in Nat \ {0} /\ count[k] \in Nat
  BY <1>1, Limits DEF KeysTyped
<1>3. CASE Attempts!Tick
  BY <1>1, <1>2, <1>3 DEF Attempts!Tick
<1>4. ASSUME NEW s \in Slot, Attempts!Request(s) PROVE count'[k] <= Attempts!Limit(k)
  <2>1. Attempts!PlaceOf(s)
    BY <1>1 DEF JobsTyped
  <2>2. CASE Attempts!RecordFailure(s)
    <3>1. k \notin Attempts!CounterKeys(attempt[s].client)
      BY <2>1, <2>2, Keys DEF Attempts!PlaceOf, Attempts!RecordFailure
    <3> QED
      BY <1>1, <2>2, <3>1 DEF Attempts!RecordFailure, Attempts!Count, Attempts!Incremented
  <2>3. CASE Attempts!Clear(s)
    BY <1>1, <1>2, <2>3 DEF Attempts!Clear, KeysTyped
  <2>4. CASE Attempts!Reserve(s)
    <3> DEFINE key == Attempts!PairKey(attempt[s].client)
    <3>1. CASE Attempts!MayReserve(attempt[s].client) /\ k = key
      <4>1. block[k] = 0
        BY <3>1 DEF Attempts!MayReserve
      <4>2. count[k] < Attempts!Limit(k)
        BY <4>1, UnblockedHasRoom
      <4>3. count'[k] = count[k] + 1
        BY <2>4, <3>1 DEF Attempts!Reserve, Attempts!Count, Attempts!Incremented
      <4> QED
        BY <1>2, <4>2, <4>3
    <3>2. CASE Attempts!MayReserve(attempt[s].client) /\ k # key
      BY <1>1, <2>4, <3>2 DEF Attempts!Reserve, Attempts!Count, Attempts!Incremented
    <3>3. CASE ~Attempts!MayReserve(attempt[s].client)
      BY <1>1, <2>4, <3>3 DEF Attempts!Reserve
    <3> QED
      BY <3>1, <3>2, <3>3
  <2> QED
    BY <1>1, <1>4, <2>2, <2>3, <2>4
    DEF Attempts!Request, Attempts!Login, Attempts!Arrive, Attempts!ReadBlock,
        Attempts!ReadCooldown, Attempts!RequireCaptcha, Attempts!ComparePassword,
        Attempts!StartCooldown, Attempts!Leave
<1>5. CASE UNCHANGED Attempts!attemptVars
  BY <1>1, <1>5 DEF Attempts!attemptVars
<1> QED
  BY <1>3, <1>4, <1>5 DEF Attempts!Next

LEMMA CoversStep == AttemptsInv /\ [Attempts!Next]_(Attempts!attemptVars) => CooldownCovers'
<1> SUFFICES ASSUME AttemptsInv, [Attempts!Next]_(Attempts!attemptVars),
NEW m \in Attempts!Mailbox
             PROVE  cooldown'[m] + age'[m] >= Cooldown
  BY DEF CooldownCovers
<1> USE AttemptsAssumed
<1>1. /\ cooldown[m] \in 0..Cooldown /\ age[m] \in 0..Cooldown
      /\ cooldown[m] + age[m] >= Cooldown
      /\ cooldown \in [Attempts!Mailbox -> 0..Cooldown] /\ age \in [Attempts!Mailbox -> 0..Cooldown]
  BY TypeParts DEF AttemptsInv, CooldownsTyped, CooldownCovers
<1>2. CASE Attempts!Tick
  BY <1>1, <1>2 DEF Attempts!Tick, Attempts!Less
<1>3. ASSUME NEW s \in Slot, Attempts!Request(s) PROVE cooldown'[m] + age'[m] >= Cooldown
  <2> DEFINE key == Attempts!CooldownKey(attempt[s].client)
  <2>1. CASE Attempts!Reserve(s)
    <3>1. \/ cooldown' = [cooldown EXCEPT ![key] = Cooldown] /\ age' = [age EXCEPT ![key] = 0]
          \/ UNCHANGED <<cooldown, age>>
      BY <2>1 DEF Attempts!Reserve
    <3> HIDE DEF key
    <3> QED
      BY <1>1, <3>1
  <2>2. CASE Attempts!StartCooldown(s)
    <3>1. /\ cooldown' = [cooldown EXCEPT ![key] = IF @ = 0 THEN Cooldown ELSE @]
          /\ age' = age
      BY <2>2 DEF Attempts!StartCooldown
    <3> HIDE DEF key
    <3> QED
      BY <1>1, <3>1
  <2> QED
    BY <1>1, <1>3, <2>1, <2>2
    DEF Attempts!Request, Attempts!Login, Attempts!Arrive, Attempts!ReadBlock,
        Attempts!ReadCooldown, Attempts!RequireCaptcha, Attempts!ComparePassword,
        Attempts!RecordFailure, Attempts!Clear, Attempts!Leave
<1>4. CASE UNCHANGED Attempts!attemptVars
  BY <1>1, <1>4 DEF Attempts!attemptVars
<1> QED
  BY <1>2, <1>3, <1>4 DEF Attempts!Next

-----------------------------------------------------------------------------
(* Where a slot is looked at, and what its request has passed.             *)
LEMMA Others ==
    ASSUME JobsTyped, NEW s \in Slot, Attempts!Request(s)
    PROVE  \A t \in Slot \ {s} : attempt'[t] = attempt[t]
<1> USE DEF JobsTyped
<1>1. CASE Attempts!Arrive(s)
  BY <1>1 DEF Attempts!Arrive
<1>2. CASE Attempts!ReadBlock(s)
  BY <1>2 DEF Attempts!ReadBlock, Attempts!End
<1> QED
  BY <1>1, <1>2
  DEF Attempts!Request, Attempts!Login, Attempts!ReadCooldown, Attempts!RequireCaptcha,
      Attempts!ComparePassword, Attempts!RecordFailure, Attempts!Clear,
      Attempts!Reserve, Attempts!StartCooldown, Attempts!Leave, Attempts!End, Attempts!Goto

(* A request passes a block by reading that there is none.                 *)
LEMMA Passes ==
    ASSUME KeysTyped, JobsTyped, clients \subseteq Client, NEW s \in Slot, Attempts!Request(s),
           NEW k \in Attempts!Counter, s \in Passed(k)', s \notin Passed(k)
    PROVE  block[k] = 0 /\ count' = count
<1>1. Attempts!PlaceOf(s) /\ attempt \in [Slot -> JobType]
  BY DEF JobsTyped
<1>2. ~Attempts!End(s)
  BY <1>1 DEF Attempts!End, Attempts!Idle, Passed
<1>3. ASSUME NEW l, Attempts!Goto(s, l), attempt[s].at # "idle",
             attempt[s].at # "asserting" \/ attempt[s].unread = {}
      PROVE  FALSE
  BY <1>1, <1>3 DEF Attempts!Goto, Passed, JobType
<1>4. CASE Attempts!Arrive(s)
  <2>1. PICK c \in clients :
          attempt' = [attempt EXCEPT ![s] =
                    [at |-> IF c.action = "register" THEN "mailing" ELSE "asserting",
                     client |-> c, unread |-> Attempts!BlocksRead(c),
                     cools |-> c.action \in Attempts!EmailActions]]
    BY <1>4 DEF Attempts!Arrive
  <2> QED
    BY <1>1, <2>1 DEF Passed, Attempts!BlocksRead
<1>5. CASE Attempts!ReadBlock(s)
  <2>1. PICK l \in attempt[s].unread :
          IF block[l] > 0 THEN Attempts!End(s)
          ELSE attempt' = [attempt EXCEPT ![s].unread = @ \ {l}]
    BY <1>5 DEF Attempts!ReadBlock
  <2>2. ~(block[l] > 0) /\ attempt' = [attempt EXCEPT ![s].unread = @ \ {l}]
    BY <1>2, <2>1
  <2>3. l = k
    BY <1>1, <1>5, <2>2 DEF Passed, JobType, Attempts!ReadBlock
  <2> QED
    BY <1>5, <2>2, <2>3 DEF Attempts!ReadBlock, KeysTyped
<1>6. CASE Attempts!ReadCooldown(s)
  BY <1>1, <1>2, <1>6 DEF Attempts!ReadCooldown, Passed, JobType
<1>7. CASE Attempts!RequireCaptcha(s)
  BY <1>1, <1>2, <1>3, <1>7 DEF Attempts!RequireCaptcha
<1>8. CASE Attempts!ComparePassword(s)
  BY <1>1, <1>2, <1>3, <1>8 DEF Attempts!ComparePassword
<1>9. CASE Attempts!Reserve(s)
  BY <1>1, <1>2, <1>3, <1>9 DEF Attempts!Reserve
<1> QED
  BY <1>2, <1>4, <1>5, <1>6, <1>7, <1>8, <1>9
  DEF Attempts!Request, Attempts!Login, Attempts!RecordFailure, Attempts!Clear,
      Attempts!StartCooldown, Attempts!Leave

LEMMA ComingStep == AttemptsInv /\ [Attempts!Next]_(Attempts!attemptVars) => ComingBounded'
<1> SUFFICES ASSUME AttemptsInv, [Attempts!Next]_(Attempts!attemptVars),
                    NEW k \in Attempts!Counter, LoginKey(k), count'[k] >= Attempts!Limit(k)
             PROVE  count'[k] + Cardinality(Passed(k)') <= Attempts!Limit(k) - 1 + Cardinality(Slot)
  BY DEF ComingBounded, Attempts!Limit, LoginKey
<1>1. KeysTyped /\ JobsTyped /\ clients \subseteq Client
  BY TypeParts DEF AttemptsInv
<1>2. Attempts!Limit(k) \in Nat \ {0} /\ count[k] \in Nat /\ count'[k] \in Nat
  <2>1. Attempts!TypeOK'
    BY TypeStep DEF AttemptsInv
  <2> QED
    BY <1>1, <2>1, Limits DEF KeysTyped, Attempts!TypeOK
<1>3. Passed(k) \in SUBSET Slot /\ Passed(k)' \in SUBSET Slot
  BY DEF Passed
<1>4. ASSUME count'[k] <= count[k], Passed(k)' \subseteq Passed(k)
      PROVE  count'[k] + Cardinality(Passed(k)') <= Attempts!Limit(k) - 1 + Cardinality(Slot)
  BY <1>2, <1>4, StillBounded
<1>5. CASE Attempts!Tick
  <2>1. count'[k] <= count[k]
    BY <1>2, <1>5 DEF Attempts!Tick
  <2>2. Passed(k)' = Passed(k)
    BY <1>5 DEF Attempts!Tick, Passed
  <2> QED
    BY <1>4, <2>1, <2>2
<1>6. ASSUME NEW s \in Slot, Attempts!Request(s)
      PROVE  count'[k] + Cardinality(Passed(k)') <= Attempts!Limit(k) - 1 + Cardinality(Slot)
  <2>1. Attempts!PlaceOf(s) /\ attempt \in [Slot -> JobType]
    BY <1>1 DEF JobsTyped
  <2>2. CASE s \in Passed(k)' /\ s \notin Passed(k)
    <3>1. block[k] = 0 /\ count'[k] = count[k]
      BY <1>1, <1>6, <2>2, Passes
    <3> QED
      BY <1>2, <3>1, UnblockedHasRoom
  <2>3. CASE ~(s \in Passed(k)' /\ s \notin Passed(k))
    <3>1. Passed(k)' \subseteq Passed(k)
      BY <1>1, <1>6, <2>3, Others, NoMorePassed
    <3>2. CASE Attempts!RecordFailure(s) /\ k \in Attempts!CounterKeys(attempt[s].client)
      <4>1. s \in Passed(k)
        BY <2>1, <3>2 DEF Passed, Attempts!RecordFailure, Attempts!PlaceOf
      <4>2. s \notin Passed(k)'
        BY <2>1, <3>2 DEF Passed, Attempts!RecordFailure, Attempts!End, Attempts!Idle
      <4>3. count'[k] = count[k] + 1
        BY <3>2 DEF Attempts!RecordFailure, Attempts!Count, Attempts!Incremented
      <4>4. /\ Cardinality(Passed(k)') <= Cardinality(Passed(k)) - 1
            /\ Cardinality(Passed(k)') <= Cardinality(Slot) - 1
        BY <1>3, <3>1, <4>1, <4>2, OneLess
      <4>5. /\ Cardinality(Passed(k)) \in Nat /\ Cardinality(Passed(k)') \in Nat
            /\ Cardinality(Slot) \in Nat
        BY <1>3, Counted
      <4>6. CASE count[k] >= Attempts!Limit(k)
        <5>1. count[k] + Cardinality(Passed(k)) <= Attempts!Limit(k) - 1 + Cardinality(Slot)
          BY <4>6 DEF AttemptsInv, ComingBounded
        <5> QED
          BY <1>2, <4>3, <4>4, <4>5, <5>1
      <4>7. CASE count[k] < Attempts!Limit(k)
        BY <1>2, <4>3, <4>4, <4>5, <4>7
      <4> QED
        BY <1>2, <4>6, <4>7
    <3>3. CASE Attempts!RecordFailure(s) /\ k \notin Attempts!CounterKeys(attempt[s].client)
      <4>1. count'[k] = count[k]
        BY <1>1, <3>3 DEF Attempts!RecordFailure, Attempts!Count, Attempts!Incremented
      <4> QED
        BY <1>2, <1>4, <3>1, <4>1
    <3>4. CASE Attempts!Clear(s)
      <4>1. count'[k] <= count[k]
        BY <1>1, <1>2, <3>4 DEF Attempts!Clear, KeysTyped
      <4> QED
        BY <1>4, <3>1, <4>1
    <3>5. CASE Attempts!Reserve(s)
      <4>1. Attempts!PairKey(attempt[s].client) # k
        BY <2>1, <3>5, Keys DEF Attempts!Reserve, Attempts!PlaceOf, Attempts!EmailActions
      <4>2. count'[k] = count[k]
        BY <3>5, <4>1 DEF Attempts!Reserve, Attempts!Count, Attempts!Incremented
      <4> QED
        BY <1>2, <1>4, <3>1, <4>2
    <3>6. CASE count' = count
      BY <1>2, <1>4, <3>1, <3>6
    <3> QED
      BY <1>6, <3>2, <3>3, <3>4, <3>5, <3>6
      DEF Attempts!Request, Attempts!Login, Attempts!Arrive, Attempts!ReadBlock,
          Attempts!ReadCooldown, Attempts!RequireCaptcha, Attempts!ComparePassword,
          Attempts!StartCooldown, Attempts!Leave
  <2> QED
    BY <2>2, <2>3
<1>7. CASE UNCHANGED Attempts!attemptVars
  <2>1. count'[k] = count[k] /\ Passed(k)' = Passed(k)
    BY <1>7 DEF Attempts!attemptVars, Passed
  <2> QED
    BY <1>2, <1>4, <2>1
<1> QED
  BY <1>5, <1>6, <1>7 DEF Attempts!Next

LEMMA AttemptsInvHolds == Attempts!Spec => []AttemptsInv
<1>1. AttemptsInv /\ [Attempts!Next]_(Attempts!attemptVars) => AttemptsInv'
  BY TypeStep, BlockedStep, ComingStep, ReservationsStep, CoversStep DEF AttemptsInv
<1> QED
  BY <1>1, InitAttempts, PTL DEF Attempts!Spec

-----------------------------------------------------------------------------
(* Keys, counters and requests have their types, and every counter that    *)
(* counts expires, for any number of clients and requests.                 *)
THEOREM KeysExpire == Attempts!Spec => []Attempts!TypeOK
<1>1. AttemptsInv => Attempts!TypeOK
  BY DEF AttemptsInv
<1> QED
  BY <1>1, AttemptsInvHolds, PTL

(* A counter that has reached its limit is blocked for as long as it       *)
(* counts, whatever fails, succeeds or expires meanwhile.                  *)
THEOREM FullIsBlocked == Attempts!Spec => []BlockedOnceCounted
<1>1. AttemptsInv => BlockedOnceCounted
  BY SameKeys DEF AttemptsInv, BlockedOnceCounted, Attempts!BlockedOnceCounted
<1> QED
  BY <1>1, AttemptsInvHolds, PTL

(* A limit of failures is exceeded by no more requests than are under way  *)
(* beside the one that reaches it, a limit of mails never.                 *)
THEOREM CountsAreBounded == Attempts!Spec => []CountsBounded
<1>1. AttemptsInv => FailuresBounded
  <2> SUFFICES ASSUME AttemptsInv, NEW k \in Attempts!Counter, k[1] \in {"ip", "login"}
               PROVE  count[k] <= Attempts!Limit(k) - 1 + Cardinality(Slot)
    BY SameKeys DEF FailuresBounded
  <2>1. count[k] \in Nat /\ Attempts!Limit(k) \in Nat \ {0}
    BY Limits, TypeParts DEF AttemptsInv, KeysTyped
  <2>2. Passed(k) \in SUBSET Slot
    BY DEF Passed
  <2>3. Cardinality(Passed(k)) \in Nat /\ Cardinality(Slot) \in Nat
    BY <2>2, Counted
  <2>4. CASE count[k] >= Attempts!Limit(k)
    <3>1. count[k] + Cardinality(Passed(k)) <= Attempts!Limit(k) - 1 + Cardinality(Slot)
      BY <2>4 DEF AttemptsInv, ComingBounded, LoginKey
    <3> QED
      BY <2>1, <2>3, <3>1
  <2> QED
    BY <2>1, <2>3, <2>4
<1>2. AttemptsInv => ReservationsBounded
  BY SameKeys DEF AttemptsInv, ReservationsBounded, Attempts!ReservationsBounded
<1>3. AttemptsInv => CountsBounded
  BY <1>1, <1>2 DEF CountsBounded
<1> QED
  BY <1>3, AttemptsInvHolds, PTL

(* Any two mails reserved for one address are at least a cooldown apart.   *)
THEOREM MailsStayApart == Attempts!Spec => MailsAreApart
<1>1. AttemptsInv /\ [Attempts!Next]_(Attempts!attemptVars) =>
        [\A s \in Slot : attempt[s].at = "reserving" /\ attempt'[s].at = "mailed" =>
           age[CooldownKey(attempt[s].client)] = Cooldown]_attemptVars
  <2> SUFFICES ASSUME AttemptsInv, [Attempts!Next]_(Attempts!attemptVars), NEW s \in Slot,
                      attempt[s].at = "reserving", attempt'[s].at = "mailed"
               PROVE  age[Attempts!CooldownKey(attempt[s].client)] = Cooldown
    BY SameKeys
  <2>1. JobsTyped /\ CooldownsTyped /\ CooldownCovers
    BY TypeParts DEF AttemptsInv
  <2>2. attempt[s].client \in Client /\ attempt[s].client.action \in Attempts!EmailActions
    BY <2>1 DEF JobsTyped, Attempts!PlaceOf
  <2>3. Attempts!CooldownKey(attempt[s].client) \in Attempts!Mailbox
    BY <2>2, Keys DEF Attempts!EmailActions
  <2>4. ~Attempts!Tick /\ ~UNCHANGED Attempts!attemptVars
    BY DEF Attempts!Tick, Attempts!attemptVars
  <2>5. PICK t \in Slot : Attempts!Request(t)
    BY <2>4 DEF Attempts!Next
  <2>6. t = s
    BY <2>1, <2>5, Others
  <2>7. ~Attempts!End(s)
    BY <2>1 DEF Attempts!End, Attempts!Idle, JobsTyped
  <2>8. Attempts!MayReserve(attempt[s].client)
    BY <2>5, <2>6, <2>7
    DEF Attempts!Request, Attempts!Login, Attempts!Arrive, Attempts!ReadBlock,
        Attempts!ReadCooldown, Attempts!RequireCaptcha, Attempts!ComparePassword,
        Attempts!RecordFailure, Attempts!Clear, Attempts!Reserve, Attempts!StartCooldown,
        Attempts!Leave
  <2> QED
    BY <2>1, <2>3, <2>8, AttemptsAssumed DEF Attempts!MayReserve, CooldownsTyped, CooldownCovers
<1> QED
  BY <1>1, AttemptsInvHolds, PTL DEF Attempts!Spec, MailsAreApart
=============================================================================
