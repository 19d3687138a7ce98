-------------------------- MODULE AuthAccounts_proofs --------------------------
(***************************************************************************)
(* Proofs about AuthAccounts for any number of addresses, Google subjects, *)
(* tokens and requests.                                                    *)
(*                                                                         *)
(* RowsOK says what the rows are: an active token is the newest of its     *)
(* user and type, tokens and passwords are for users who registered.  The  *)
(* cleanup only makes fewer tokens active, and none that is locked.        *)
(* Knows says what a request may rely on at each of its labels: what its   *)
(* locks protect, and what it read that never changes back.                *)
(***************************************************************************)
EXTENDS AuthAccounts, TLAPS

Locals == [user : Email \cup {None}, subject : Subject \cup {None},
           type : AuthTokenType \cup {None}, token : 0 .. MaxToken, used : BOOLEAN,
           targets : SUBSET Token]

RowsOK ==
    /\ \A t \in 1 .. tokens : origin[row[t].user] = "local"
    /\ \A t \in Token : consumed[t] <=> spentBy[t] # "nothing"
    /\ \A t \in Token : t > tokens => ~ consumed[t]
    /\ \A t \in 1 .. tokens : Unspent(t) => Newest(t)
    /\ \A t \in 1 .. tokens : spentBy[t] = "verification" => verified[row[t].user]
    /\ \A e \in Email : hasPassword[e] <=> origin[e] = "local"
    /\ \A e \in Email : origin[e] = "google" => verified[e]

KnowsUser(x) ==
    /\ pc[x] \in {"createUser", "commitUser", "lockIssue", "list", "supersede", "issue", "findEmail",
                  "createGoogleUser", "createAccount", "recoverAccount", "recoverEmail"}
          => job[x].user \in Email
    /\ pc[x] \in {"commitUser", "createAccount"}
          => emailLock[job[x].user] = x /\ ~ Exists(job[x].user)
    /\ pc[x] \in {"findEmail", "createGoogleUser", "createAccount", "recoverAccount", "recoverEmail"}
          => job[x].subject \in Subject
    /\ pc[x] = "recoverAccount" => Exists(job[x].user) \/ account[job[x].subject] # None
    /\ pc[x] = "recoverEmail" => Exists(job[x].user)
    /\ pc[x] # "UNEXPLAINED"

KnowsIssue(x) ==
    /\ pc[x] \in {"lockIssue", "list", "supersede", "issue"}
          => job[x].type \in AuthTokenType /\ origin[job[x].user] = "local"
    /\ pc[x] \in {"list", "supersede", "issue"} => issueLock[<<job[x].user, job[x].type>>] = x
    /\ pc[x] \in {"supersede", "issue"}
          => Active(job[x].user, job[x].type) \subseteq job[x].targets /\ job[x].targets \subseteq 1 .. tokens
    /\ pc[x] = "issue" => \A t \in job[x].targets : tokenLock[t] = x

KnowsToken(x) ==
    /\ pc[x] \in {"findUser", "tidy", "consume", "findAgain", "commitVerified", "INVALID", "checkAgain",
                  "consumeReset", "commitReset"}
          => job[x].token \in 1 .. tokens
    /\ pc[x] \in {"commitVerified", "commitReset"}
          => tokenLock[job[x].token] = x /\ Unspent(job[x].token)
    /\ pc[x] = "findUser" /\ job[x].used => consumed[job[x].token]
    /\ pc[x] \in {"findAgain", "INVALID"} /\ Kept(job[x].token) => consumed[job[x].token]
    /\ pc[x] = "INVALID" /\ Kept(job[x].token) => spentBy[job[x].token] # "verification"

Knows(x) == KnowsUser(x) /\ KnowsIssue(x) /\ KnowsToken(x)

IInv ==
    /\ TypeOK
    /\ job \in [Request -> Locals]
    /\ RowsOK
    /\ \A x \in Request : Knows(x)

-----------------------------------------------------------------------------
LEMMA InitIInv == Init => IInv
<1> SUFFICES ASSUME Init PROVE IInv
  OBVIOUS
<1> USE AccountsAssumption DEF Init
<1>1. TypeOK
  BY DEF TypeOK, NoRow, Token, Labels, Request
<1>2. job \in [Request -> Locals]
  BY DEF NoJob, Locals
<1>3. RowsOK
  BY DEF RowsOK, Token
<1>4. \A x \in Request : Knows(x)
  BY DEF Knows, KnowsUser, KnowsIssue, KnowsToken
<1>5. QED
  BY <1>1, <1>2, <1>3, <1>4 DEF IInv

(* A lock that x may take or give back.                                    *)
OnlyOwn(x, before, after) == after = before \/ before \in {None, x}

(* A step of x that changes no row, takes locks that were free and gives   *)
(* back its own, and knows what its next label needs.                      *)
Moves(x) ==
    /\ pc' \in [Request -> Labels] /\ job' \in [Request -> Locals]
    /\ \A y \in Request : y # x => pc'[y] = pc[y] /\ job'[y] = job[y]
    /\ emailLock' \in [Email -> Request \cup {None}]
    /\ issueLock' \in [Email \X AuthTokenType -> Request \cup {None}]
    /\ tokenLock' \in [Token -> Request \cup {None}]
    /\ \A e \in Email : OnlyOwn(x, emailLock[e], emailLock'[e])
    /\ \A k \in Email \X AuthTokenType : OnlyOwn(x, issueLock[k], issueLock'[k])
    /\ \A t \in Token : OnlyOwn(x, tokenLock[t], tokenLock'[t])

LEMMA MoveStep ==
    ASSUME IInv, NEW x \in Request, Moves(x), Knows(x)', UNCHANGED <<users, authTokens>>
    PROVE  IInv'
<1> USE DEF users, authTokens
<1>1. TypeOK'
  BY DEF IInv, TypeOK, Moves, Exists
<1>2. RowsOK'
  BY DEF IInv, RowsOK, Newest, Of, Unspent, Kept
<1>3. ASSUME NEW y \in Request, y # x PROVE Knows(y)'
  <2>1. pc'[y] = pc[y] /\ job'[y] = job[y] /\ y # None
    BY <1>3, AccountsAssumption DEF Moves
  <2>2. KnowsUser(y)'
    BY <1>3, <2>1 DEF IInv, Knows, KnowsUser, Moves, OnlyOwn, Exists
  <2>3. KnowsIssue(y)'
    <3>1. job[y].targets \subseteq Token
      BY DEF IInv, Locals
    <3>2. \A u, type : Active(u, type)' = Active(u, type)
      BY DEF Active, Of, Unspent, Kept
    <3>3. \A t \in job[y].targets : tokenLock[t] = y => tokenLock'[t] = y
      BY <1>3, <2>1, <3>1 DEF Moves, OnlyOwn
    <3>4. \A k \in Email \X AuthTokenType : issueLock[k] = y => issueLock'[k] = y
      BY <1>3, <2>1 DEF Moves, OnlyOwn
    <3>5. KnowsUser(y) /\ KnowsIssue(y)
      BY DEF IInv, Knows
    <3>6. QED
      BY <2>1, <3>2, <3>3, <3>4, <3>5 DEF KnowsUser, KnowsIssue
  <2>4. KnowsToken(y)'
    <3>1. KnowsToken(y)
      BY DEF IInv, Knows
    <3>2. 1 .. tokens \subseteq Token
      BY AccountsAssumption DEF IInv, TypeOK, Token
    <3>3. \A t \in Token : tokenLock[t] = y => tokenLock'[t] = y
      BY <1>3, <2>1 DEF Moves, OnlyOwn
    <3>4. QED
      BY <2>1, <3>1, <3>2, <3>3 DEF KnowsToken, Unspent, Kept
  <2>5. QED
    BY <2>2, <2>3, <2>4 DEF Knows
<1>4. QED
  BY <1>1, <1>2, <1>3 DEF IInv, Moves

LEMMA BecomeMoves ==
    ASSUME IInv, NEW x \in Request, NEW label \in Labels, NEW locals \in Locals,
           Become(x, label, locals), UNCHANGED locks
    PROVE  Moves(x) /\ pc'[x] = label /\ job'[x] = locals
BY DEF IInv, TypeOK, Become, Goto, locks, Moves, OnlyOwn

LEMMA GotoMoves ==
    ASSUME IInv, NEW x \in Request, NEW label \in Labels, Goto(x, label), UNCHANGED <<locks, job>>
    PROVE  Moves(x) /\ pc'[x] = label /\ job'[x] = job[x]
BY DEF IInv, TypeOK, Goto, locks, Moves, OnlyOwn

LEMMA NoJobLocals == NoJob \in Locals
BY AccountsAssumption DEF NoJob, Locals, Token

LEMMA EndMoves ==
    ASSUME IInv, NEW x \in Request, End(x)
    PROVE  Moves(x) /\ Knows(x)'
<1>1. pc'[x] = "idle"
  BY DEF End, Become, Goto, IInv, TypeOK
<1>2. Moves(x)
  BY NoJobLocals DEF End, Become, Goto, Release, IInv, TypeOK, Labels, Moves, OnlyOwn
<1>3. Knows(x)'
  BY <1>1 DEF Knows, KnowsUser, KnowsIssue, KnowsToken
<1>4. QED
  BY <1>2, <1>3

-----------------------------------------------------------------------------
LEMMA AbortStep == ASSUME IInv, NEW x \in Request, Abort(x) PROVE IInv'
BY EndMoves, MoveStep DEF Abort

LEMMA FindNoUserStep ==
    ASSUME IInv, NEW x \in Request, NEW e \in Email, FindNoUser(x, e) PROVE IInv'
<1> DEFINE locals == [NoJob EXCEPT !.user = e]
<1>1. locals \in Locals /\ locals.user = e
  BY NoJobLocals DEF NoJob, Locals
<1>2. Become(x, "createUser", locals) /\ UNCHANGED <<users, authTokens, locks>>
  BY DEF FindNoUser
<1> HIDE DEF locals
<1>3. Moves(x) /\ pc'[x] = "createUser" /\ job'[x] = locals
  BY <1>1, <1>2, BecomeMoves DEF Labels
<1>4. Knows(x)'
  BY <1>1, <1>3 DEF Knows, KnowsUser, KnowsIssue, KnowsToken
<1>5. QED
  BY <1>2, <1>3, <1>4, MoveStep

LEMMA CreateUserStep == ASSUME IInv, NEW x \in Request, CreateUser(x) PROVE IInv'
<1>1. job[x].user \in Email /\ ~ Exists(job[x].user) /\ emailLock[job[x].user] = None
  BY DEF IInv, Knows, KnowsUser, CreateUser
<1>2. Moves(x) /\ pc'[x] = "commitUser" /\ job'[x] = job[x] /\ emailLock'[job[x].user] = x
  BY <1>1 DEF CreateUser, Goto, IInv, TypeOK, Labels, Moves, OnlyOwn
<1>3. Knows(x)'
  BY <1>1, <1>2 DEF CreateUser, users, Exists, Knows, KnowsUser, KnowsIssue, KnowsToken
<1>4. QED
  BY <1>2, <1>3, MoveStep DEF CreateUser

LEMMA AskForTokenStep ==
    ASSUME IInv, NEW x \in Request, NEW e \in Email, NEW type \in AuthTokenType, AskForToken(x, e, type)
    PROVE  IInv'
<1> DEFINE locals == [NoJob EXCEPT !.user = e, !.type = type]
<1>1. locals \in Locals /\ locals.user = e /\ locals.type = type
  BY NoJobLocals DEF NoJob, Locals
<1>2. Become(x, "lockIssue", locals) /\ UNCHANGED <<users, authTokens, locks>>
  BY DEF AskForToken
<1>3. origin[e] = "local"
  BY DEF AskForToken, MayAsk, Exists, IInv, RowsOK, TypeOK
<1> HIDE DEF locals
<1>4. Moves(x) /\ pc'[x] = "lockIssue" /\ job'[x] = locals
  BY <1>1, <1>2, BecomeMoves DEF Labels
<1>5. Knows(x)'
  BY <1>1, <1>2, <1>3, <1>4 DEF users, Knows, KnowsUser, KnowsIssue, KnowsToken
<1>6. QED
  BY <1>2, <1>4, <1>5, MoveStep

LEMMA LockIssueStep == ASSUME IInv, NEW x \in Request, LockIssue(x) PROVE IInv'
<1> DEFINE k == <<job[x].user, job[x].type>>
<1>1. KnowsUser(x) /\ KnowsIssue(x) /\ pc[x] = "lockIssue" /\ k \in Email \X AuthTokenType
  BY DEF IInv, Knows, KnowsUser, KnowsIssue, LockIssue
<1>2. Moves(x) /\ pc'[x] = "list" /\ job'[x] = job[x] /\ issueLock'[k] = x
  BY <1>1 DEF LockIssue, Goto, IInv, TypeOK, Labels, Moves, OnlyOwn
<1>3. Knows(x)'
  BY <1>1, <1>2 DEF LockIssue, users, Knows, KnowsUser, KnowsIssue, KnowsToken
<1>4. QED
  BY <1>2, <1>3, MoveStep DEF LockIssue

LEMMA ListActiveStep == ASSUME IInv, NEW x \in Request, ListActive(x) PROVE IInv'
<1> DEFINE found == Active(job[x].user, job[x].type)
           locals == [job[x] EXCEPT !.targets = found]
<1>1. locals \in Locals /\ locals.targets = found /\ locals.user = job[x].user /\ locals.type = job[x].type
  <2>1. found \subseteq Token
    BY AccountsAssumption DEF IInv, TypeOK, Active, Of, Token
  <2>2. QED
    BY <2>1 DEF IInv, Locals
<1>2. Become(x, "supersede", locals) /\ UNCHANGED <<users, authTokens, locks>>
  BY DEF ListActive
<1>3. KnowsUser(x) /\ KnowsIssue(x) /\ pc[x] = "list"
  BY DEF IInv, Knows, ListActive
<1> HIDE DEF locals
<1>4. Moves(x) /\ pc'[x] = "supersede" /\ job'[x] = locals
  BY <1>1, <1>2, BecomeMoves DEF Labels
<1>5. Knows(x)'
  BY <1>1, <1>2, <1>3, <1>4
  DEF users, authTokens, locks, Active, Of, Unspent, Kept, Knows, KnowsUser, KnowsIssue, KnowsToken
<1>6. QED
  BY <1>2, <1>4, <1>5, MoveStep

LEMMA SupersedeStep == ASSUME IInv, NEW x \in Request, Supersede(x) PROVE IInv'
<1> DEFINE found == {t \in job[x].targets : Unspent(t)}
           locals == [job[x] EXCEPT !.targets = found]
<1>1. /\ locals \in Locals /\ locals.targets = found
      /\ locals.user = job[x].user /\ locals.type = job[x].type
  BY DEF IInv, Locals
<1>2. /\ KnowsUser(x) /\ KnowsIssue(x) /\ pc[x] = "supersede"
      /\ found \subseteq Token /\ found \subseteq 1 .. tokens
  BY DEF IInv, Knows, KnowsIssue, Supersede, Locals
<1>3. Moves(x) /\ pc'[x] = "issue" /\ job'[x] = locals /\ \A t \in found : tokenLock'[t] = x
  BY <1>1, <1>2 DEF Supersede, Locked, Become, Goto, IInv, TypeOK, Labels, Moves, OnlyOwn
<1>4. Active(job[x].user, job[x].type) \subseteq found
  BY <1>2 DEF KnowsIssue, Active
<1> HIDE DEF locals, found
<1>5. Knows(x)'
  BY <1>1, <1>2, <1>3, <1>4
  DEF Supersede, users, authTokens, Active, Of, Unspent, Kept, Knows, KnowsUser, KnowsIssue,
      KnowsToken
<1>6. QED
  BY <1>3, <1>5, MoveStep DEF Supersede

-----------------------------------------------------------------------------
LEMMA FindTokenStep ==
    ASSUME IInv, NEW x \in Request, NEW t \in Token, FindToken(x, t) PROVE IInv'
<1> DEFINE locals == [NoJob EXCEPT !.token = t, !.used = consumed[t]]
<1>1. locals \in Locals /\ locals.token = t /\ locals.used = consumed[t]
  <2>1. consumed[t] \in BOOLEAN /\ t \in 0 .. MaxToken
    BY DEF IInv, TypeOK, Token
  <2>2. QED
    BY <2>1, NoJobLocals DEF NoJob, Locals
<1>2. PICK label \in {"findUser", "INVALID"} :
         /\ Become(x, label, locals) /\ t \in 1 .. tokens
         /\ label = "INVALID" => ~ Kept(t)
         /\ UNCHANGED <<users, authTokens, locks>>
  BY DEF FindToken
<1> HIDE DEF locals
<1>3. Moves(x) /\ pc'[x] = label /\ job'[x] = locals
  BY <1>1, <1>2, BecomeMoves DEF Labels
<1>4. Knows(x)'
  BY <1>1, <1>2, <1>3 DEF authTokens, Kept, Knows, KnowsUser, KnowsIssue, KnowsToken
<1>5. QED
  BY <1>2, <1>3, <1>4, MoveStep

LEMMA FindUserStep == ASSUME IInv, NEW x \in Request, FindUser(x) PROVE IInv'
<1> DEFINE t == job[x].token
<1>1. t \in 1 .. tokens /\ (job[x].used => consumed[t])
  BY DEF IInv, Knows, KnowsToken, FindUser
<1>2. PICK label \in {"tidy", "INVALID", "consume"} :
         /\ Goto(x, label)
         /\ label = "INVALID" => job[x].used /\ ~ verified[row[t].user]
  BY DEF FindUser
<1>3. Moves(x) /\ pc'[x] = label /\ job'[x] = job[x]
  BY <1>2, GotoMoves DEF Labels, FindUser
<1>4. label = "INVALID" => spentBy[t] # "verification"
  BY <1>1, <1>2 DEF IInv, RowsOK
<1>5. Knows(x)'
  BY <1>1, <1>2, <1>3, <1>4 DEF FindUser, authTokens, Knows, KnowsUser, KnowsIssue, KnowsToken
<1>6. QED
  BY <1>3, <1>5, MoveStep DEF FindUser

LEMMA ConsumeTokenStep == ASSUME IInv, NEW x \in Request, ConsumeToken(x) PROVE IInv'
<1> DEFINE t == job[x].token
<1>1. t \in 1 .. tokens /\ t \in Token /\ tokenLock[t] = None
  BY AccountsAssumption DEF IInv, TypeOK, Token, Knows, KnowsToken, ConsumeToken, Locked
<1>2. CASE ~ Unspent(t)
  <2>1. Moves(x) /\ pc'[x] = "findAgain" /\ job'[x] = job[x]
    BY <1>2, GotoMoves DEF Labels, ConsumeToken, locks
  <2>2. Knows(x)'
    BY <1>1, <1>2, <2>1
    DEF ConsumeToken, authTokens, Unspent, Kept, Knows, KnowsUser, KnowsIssue, KnowsToken
  <2>3. QED
    BY <2>1, <2>2, MoveStep DEF ConsumeToken
<1>3. CASE Unspent(t)
  <2>1. Moves(x) /\ pc'[x] = "commitVerified" /\ job'[x] = job[x] /\ tokenLock'[t] = x
    <3>1. /\ tokenLock' = [tokenLock EXCEPT ![t] = x] /\ Goto(x, "commitVerified")
          /\ UNCHANGED <<emailLock, issueLock, job>>
      BY <1>3 DEF ConsumeToken
    <3>2. QED
      BY <1>1, <3>1 DEF Goto, IInv, TypeOK, Labels, Moves, OnlyOwn
  <2>2. Knows(x)'
    BY <1>1, <1>3, <2>1
    DEF ConsumeToken, authTokens, Unspent, Kept, Knows, KnowsUser, KnowsIssue, KnowsToken
  <2>3. QED
    BY <2>1, <2>2, MoveStep DEF ConsumeToken
<1>4. QED
  BY <1>2, <1>3

LEMMA FindAgainStep == ASSUME IInv, NEW x \in Request, FindAgain(x) PROVE IInv'
<1> DEFINE t == job[x].token
<1>1. t \in 1 .. tokens /\ (Kept(t) => consumed[t] /\ spentBy[t] # "verification")
  BY DEF IInv, RowsOK, Knows, KnowsToken, FindAgain
<1>2. Moves(x) /\ pc'[x] = "INVALID" /\ job'[x] = job[x]
  BY GotoMoves DEF Labels, FindAgain
<1>3. Knows(x)'
  BY <1>1, <1>2 DEF FindAgain, authTokens, Kept, Knows, KnowsUser, KnowsIssue, KnowsToken
<1>4. QED
  BY <1>2, <1>3, MoveStep DEF FindAgain

LEMMA CheckResetTokenStep ==
    ASSUME IInv, NEW x \in Request, NEW t \in Token, CheckResetToken(x, t) PROVE IInv'
<1> DEFINE locals == [NoJob EXCEPT !.token = t]
<1>1. locals \in Locals /\ locals.token = t
  <2>1. t \in 0 .. MaxToken
    BY DEF Token
  <2>2. QED
    BY <2>1, NoJobLocals DEF NoJob, Locals
<1>2. /\ Become(x, "checkAgain", locals) /\ t \in 1 .. tokens
      /\ UNCHANGED <<users, authTokens, locks>>
  BY DEF CheckResetToken
<1> HIDE DEF locals
<1>3. Moves(x) /\ pc'[x] = "checkAgain" /\ job'[x] = locals
  BY <1>1, <1>2, BecomeMoves DEF Labels
<1>4. Knows(x)'
  BY <1>1, <1>2, <1>3 DEF authTokens, Knows, KnowsUser, KnowsIssue, KnowsToken
<1>5. QED
  BY <1>2, <1>3, <1>4, MoveStep

LEMMA CheckResetTokenAgainStep == ASSUME IInv, NEW x \in Request, CheckResetTokenAgain(x) PROVE IInv'
<1>1. job[x].token \in 1 .. tokens
  BY DEF IInv, Knows, KnowsToken, CheckResetTokenAgain
<1>2. Moves(x) /\ pc'[x] = "consumeReset" /\ job'[x] = job[x]
  BY GotoMoves DEF Labels, CheckResetTokenAgain
<1>3. Knows(x)'
  BY <1>1, <1>2 DEF CheckResetTokenAgain, authTokens, Knows, KnowsUser, KnowsIssue, KnowsToken
<1>4. QED
  BY <1>2, <1>3, MoveStep DEF CheckResetTokenAgain

LEMMA ConsumeResetTokenStep == ASSUME IInv, NEW x \in Request, ConsumeResetToken(x) PROVE IInv'
<1> DEFINE t == job[x].token
<1>1. t \in 1 .. tokens /\ t \in Token /\ tokenLock[t] = None /\ Unspent(t)
  BY AccountsAssumption DEF IInv, TypeOK, Token, Knows, KnowsToken, ConsumeResetToken, Locked
<1>2. Moves(x) /\ pc'[x] = "commitReset" /\ job'[x] = job[x] /\ tokenLock'[t] = x
  BY <1>1 DEF ConsumeResetToken, Goto, IInv, TypeOK, Labels, Moves, OnlyOwn
<1>3. Knows(x)'
  BY <1>1, <1>2
  DEF ConsumeResetToken, authTokens, Unspent, Kept, Knows, KnowsUser, KnowsIssue, KnowsToken
<1>4. QED
  BY <1>2, <1>3, MoveStep DEF ConsumeResetToken

-----------------------------------------------------------------------------
LEMMA FindAccountStep ==
    ASSUME IInv, NEW x \in Request, NEW g \in Subject, NEW e \in Email, FindAccount(x, g, e)
    PROVE  IInv'
<1> DEFINE locals == [NoJob EXCEPT !.subject = g, !.user = e]
<1>1. locals \in Locals /\ locals.subject = g /\ locals.user = e
  BY NoJobLocals DEF NoJob, Locals
<1>2. Become(x, "findEmail", locals) /\ UNCHANGED <<users, authTokens, locks>>
  BY DEF FindAccount
<1> HIDE DEF locals
<1>3. Moves(x) /\ pc'[x] = "findEmail" /\ job'[x] = locals
  BY <1>1, <1>2, BecomeMoves DEF Labels
<1>4. Knows(x)'
  BY <1>1, <1>3 DEF Knows, KnowsUser, KnowsIssue, KnowsToken
<1>5. QED
  BY <1>2, <1>3, <1>4, MoveStep

LEMMA FindEmailStep == ASSUME IInv, NEW x \in Request, FindEmail(x) PROVE IInv'
<1>1. job[x].user \in Email /\ job[x].subject \in Subject
  BY DEF IInv, Knows, KnowsUser, FindEmail
<1>2. Moves(x) /\ pc'[x] = "createGoogleUser" /\ job'[x] = job[x]
  BY GotoMoves DEF Labels, FindEmail
<1>3. Knows(x)'
  BY <1>1, <1>2 DEF Knows, KnowsUser, KnowsIssue, KnowsToken
<1>4. QED
  BY <1>2, <1>3, MoveStep DEF FindEmail

LEMMA CreateGoogleUserStep == ASSUME IInv, NEW x \in Request, CreateGoogleUser(x) PROVE IInv'
<1> DEFINE e == job[x].user
<1>1. e \in Email /\ job[x].subject \in Subject /\ emailLock[e] = None
  BY DEF IInv, Knows, KnowsUser, CreateGoogleUser
<1>2. CASE Exists(e)
  <2>1. Moves(x) /\ pc'[x] = "recoverAccount" /\ job'[x] = job[x]
    BY <1>2, GotoMoves DEF Labels, CreateGoogleUser, locks
  <2>2. Knows(x)'
    BY <1>1, <1>2, <2>1
    DEF CreateGoogleUser, users, Exists, Knows, KnowsUser, KnowsIssue, KnowsToken
  <2>3. QED
    BY <2>1, <2>2, MoveStep DEF CreateGoogleUser
<1>3. CASE ~ Exists(e)
  <2>1. Moves(x) /\ pc'[x] = "createAccount" /\ job'[x] = job[x] /\ emailLock'[e] = x
    <3>1. /\ emailLock' = [emailLock EXCEPT ![e] = x] /\ Goto(x, "createAccount")
          /\ UNCHANGED <<issueLock, tokenLock, job>>
      BY <1>3 DEF CreateGoogleUser
    <3>2. QED
      BY <1>1, <3>1 DEF Goto, IInv, TypeOK, Labels, Moves, OnlyOwn
  <2>2. Knows(x)'
    BY <1>1, <1>3, <2>1
    DEF CreateGoogleUser, users, Exists, Knows, KnowsUser, KnowsIssue, KnowsToken
  <2>3. QED
    BY <2>1, <2>2, MoveStep DEF CreateGoogleUser
<1>4. QED
  BY <1>2, <1>3

LEMMA RefuseAccountStep == ASSUME IInv, NEW x \in Request, RefuseAccount(x) PROVE IInv'
<1>1. job[x].user \in Email /\ job[x].subject \in Subject /\ account[job[x].subject] # None
  BY DEF IInv, Knows, KnowsUser, RefuseAccount
<1>2. Moves(x) /\ pc'[x] = "recoverAccount" /\ job'[x] = job[x]
  BY DEF RefuseAccount, Release, Goto, IInv, TypeOK, Labels, Moves, OnlyOwn
<1>3. Knows(x)'
  BY <1>1, <1>2 DEF RefuseAccount, users, Knows, KnowsUser, KnowsIssue, KnowsToken
<1>4. QED
  BY <1>2, <1>3, MoveStep DEF RefuseAccount

LEMMA RecoverAccountStep == ASSUME IInv, NEW x \in Request, RecoverAccount(x) PROVE IInv'
<1>1. job[x].user \in Email /\ job[x].subject \in Subject /\ Exists(job[x].user)
  BY DEF IInv, Knows, KnowsUser, RecoverAccount
<1>2. Moves(x) /\ pc'[x] = "recoverEmail" /\ job'[x] = job[x]
  BY GotoMoves DEF Labels, RecoverAccount
<1>3. Knows(x)'
  BY <1>1, <1>2 DEF RecoverAccount, users, Exists, Knows, KnowsUser, KnowsIssue, KnowsToken
<1>4. QED
  BY <1>2, <1>3, MoveStep DEF RecoverAccount

LEMMA RecoverEmailStep == ASSUME IInv, NEW x \in Request, RecoverEmail(x) PROVE IInv'
<1>1. Exists(job[x].user)
  BY DEF IInv, Knows, KnowsUser, RecoverEmail
<1>2. QED
  BY <1>1, EndMoves, MoveStep DEF RecoverEmail

-----------------------------------------------------------------------------
(* The commits.  What others know stays true: x had the lock of whatever   *)
(* it changes that they rely on.                                           *)
LEMMA OthersMove ==
    ASSUME IInv, NEW x \in Request, NEW y \in Request, y # x, End(x)
    PROVE  /\ pc'[y] = pc[y] /\ job'[y] = job[y]
           /\ \A e \in Email : emailLock[e] = y => emailLock'[e] = y
           /\ \A k \in Email \X AuthTokenType : issueLock[k] = y => issueLock'[k] = y
           /\ \A t \in Token : tokenLock[t] = y => tokenLock'[t] = y
<1>1. Moves(x) /\ y # None
  BY EndMoves, AccountsAssumption
<1>2. QED
  BY <1>1 DEF Moves, OnlyOwn

LEMMA CreatesNewest ==
    ASSUME IInv, NEW e \in Email, NEW type \in AuthTokenType, CreateToken(e, type)
    PROVE  /\ tokens' \in 0 .. MaxToken /\ tokens + 1 \in Token
           /\ row' \in [Token -> [user : Email \cup {None}, type : AuthTokenType \cup {None}]]
           /\ 1 .. tokens \subseteq Token
           /\ 1 .. tokens' = 1 .. tokens \cup {tokens + 1}
           /\ row'[tokens + 1] = [user |-> e, type |-> type]
           /\ \A t \in 1 .. tokens : t # tokens + 1 /\ row'[t] = row[t]
BY AccountsAssumption DEF IInv, TypeOK, Token, CreateToken

(* A new token is the newest of its kind; an older one stays the newest of *)
(* another kind.                                                           *)
LEMMA NewestStays ==
    ASSUME IInv, NEW e \in Email, NEW type \in AuthTokenType, CreateToken(e, type),
           \A t \in Token : consumed[t] => consumed'[t], age' = age,
           \A t \in Active(e, type) : consumed'[t]
    PROVE  \A t \in (1 .. tokens)' : Unspent(t)' => Newest(t)'
<1> SUFFICES ASSUME NEW t \in (1 .. tokens)', Unspent(t)',
                    NEW u \in Of(row[t].user, row[t].type)'
             PROVE  u <= t
  BY DEF Newest
<1>1. /\ tokens \in Nat /\ 1 .. tokens \subseteq Token
      /\ (1 .. tokens)' = 1 .. tokens \cup {tokens + 1}
      /\ row'[tokens + 1] = [user |-> e, type |-> type]
      /\ \A v \in 1 .. tokens : v # tokens + 1 /\ row'[v] = row[v]
  BY CreatesNewest, AccountsAssumption DEF IInv, TypeOK
<1>2. u \in (1 .. tokens)' /\ row'[u].user = row'[t].user /\ row'[u].type = row'[t].type
  BY DEF Of
<1>3. CASE t = tokens + 1
  BY <1>1, <1>2, <1>3
<1>4. CASE t \in 1 .. tokens
  <2>1. Unspent(t) /\ ~ consumed'[t] /\ Newest(t) /\ row'[t] = row[t]
    BY <1>1, <1>4 DEF IInv, RowsOK, Unspent, Kept
  <2>2. u # tokens + 1
    BY <1>1, <1>2, <1>4, <2>1 DEF Active, Of
  <2>3. u \in Of(row[t].user, row[t].type)
    BY <1>1, <1>2, <2>1, <2>2 DEF Of
  <2>4. QED
    BY <2>1, <2>3 DEF Newest
<1>5. QED
  BY <1>1, <1>3, <1>4

LEMMA CommitRegistrationStep == ASSUME IInv, NEW x \in Request, CommitRegistration(x) PROVE IInv'
<1> DEFINE e == job[x].user
<1>1. e \in Email /\ ~ Exists(e) /\ emailLock[e] = x
  BY DEF IInv, Knows, KnowsUser, CommitRegistration
<1>2. /\ origin' = [origin EXCEPT ![e] = "local"] /\ hasPassword' = [hasPassword EXCEPT ![e] = TRUE]
      /\ CreateToken(e, "EMAIL_VERIFICATION") /\ End(x)
      /\ UNCHANGED <<verified, account, consumed, age, spentBy>>
  BY DEF CommitRegistration
<1>3. Moves(x) /\ Knows(x)'
  BY <1>2, EndMoves
<1>4. /\ tokens' \in 0 .. MaxToken /\ tokens + 1 \in Token
      /\ row' \in [Token -> [user : Email \cup {None}, type : AuthTokenType \cup {None}]]
      /\ 1 .. tokens \subseteq Token
      /\ 1 .. tokens' = 1 .. tokens \cup {tokens + 1}
      /\ row'[tokens + 1] = [user |-> e, type |-> "EMAIL_VERIFICATION"]
      /\ \A t \in 1 .. tokens : t # tokens + 1 /\ row'[t] = row[t]
  BY <1>1, <1>2, CreatesNewest DEF AuthTokenType
<1>5. \A t \in 1 .. tokens : row[t].user \in Email /\ row[t].user # e
  BY <1>1 DEF IInv, TypeOK
<1>6. \A u \in Email : Exists(u) => u # e /\ Exists(u)' /\ origin'[u] = origin[u]
  BY <1>1, <1>2 DEF Exists, IInv, TypeOK
<1>7. TypeOK'
  <2>1. ASSUME NEW t \in (1 .. tokens)'
        PROVE  row'[t].type \in AuthTokenType /\ row'[t].user \in Email /\ Exists(row[t].user)'
    <3>1. CASE t = tokens + 1
      BY <1>1, <1>2, <1>4, <3>1 DEF IInv, TypeOK, AuthTokenType, Exists
    <3>2. CASE t \in 1 .. tokens
      BY <1>4, <1>5, <1>6, <3>2 DEF IInv, TypeOK, Exists
    <3>3. QED
      BY <1>4, <3>1, <3>2
  <2>2. \A g \in Subject : account[g] # None => origin'[account[g]] = "google"
    BY <1>1, <1>2, <1>6 DEF IInv, TypeOK, Exists
  <2>3. QED
    BY <1>1, <1>2, <1>3, <1>4, <2>1, <2>2 DEF IInv, TypeOK, Moves
<1>8. RowsOK'
  <2>1. ASSUME NEW t \in (1 .. tokens)' PROVE origin'[row'[t].user] = "local"
    <3>1. CASE t = tokens + 1
      BY <1>1, <1>2, <1>4, <3>1 DEF IInv, TypeOK
    <3>2. CASE t \in 1 .. tokens
      BY <1>2, <1>4, <1>5, <3>2 DEF IInv, TypeOK, RowsOK
    <3>3. QED
      BY <1>4, <3>1, <3>2
  <2>2. \A t \in (1 .. tokens)' : Unspent(t)' => Newest(t)'
    <3>1. Active(e, "EMAIL_VERIFICATION") = {}
      BY <1>5 DEF Active, Of
    <3>2. QED
      BY <1>1, <1>2, <3>1, NewestStays DEF AuthTokenType
  <2>3. \A t \in (1 .. tokens)' : spentBy[t] = "verification" => verified[row'[t].user]
    BY <1>4 DEF IInv, RowsOK, TypeOK, Token
  <2>4. \A u \in Email : hasPassword'[u] <=> origin'[u] = "local"
    BY <1>1, <1>2 DEF IInv, RowsOK, TypeOK
  <2>5. \A u \in Email : origin'[u] = "google" => verified[u]
    BY <1>1, <1>2 DEF IInv, RowsOK, TypeOK
  <2>6. \A t \in Token : t > tokens' => ~ consumed[t]
    BY <1>4 DEF IInv, RowsOK, TypeOK, Token
  <2>7. QED
    BY <1>2, <2>1, <2>2, <2>3, <2>4, <2>5, <2>6 DEF IInv, RowsOK, Unspent, Kept
<1>9. ASSUME NEW y \in Request, y # x PROVE Knows(y)'
  <2>1. Knows(y)
    BY DEF IInv
  <2>2. /\ pc'[y] = pc[y] /\ job'[y] = job[y]
        /\ \A u \in Email : emailLock[u] = y => emailLock'[u] = y
        /\ \A k \in Email \X AuthTokenType : issueLock[k] = y => issueLock'[k] = y
        /\ \A t \in Token : tokenLock[t] = y => tokenLock'[t] = y
    BY <1>2, <1>9, OthersMove
  <2>3. KnowsUser(y)'
    BY <1>1, <1>2, <1>6, <1>9, <2>1, <2>2 DEF Knows, KnowsUser, Exists, IInv, TypeOK
  <2>4. KnowsIssue(y)'
    <3>1. \A u, type : u # e => Active(u, type)' = Active(u, type)
      BY <1>2, <1>4 DEF Active, Of, Unspent, Kept
    <3>2. job[y].targets \subseteq Token
      BY DEF IInv, Locals
    <3>3. 1 .. tokens \subseteq (1 .. tokens)'
      BY <1>4
    <3>4. pc[y] \in {"lockIssue", "list", "supersede", "issue"}
             => job[y].user \in Email /\ job[y].user # e /\ origin'[job[y].user] = origin[job[y].user]
      BY <1>1, <1>2, <1>6, <2>1 DEF Knows, KnowsUser, KnowsIssue, Exists
    <3>5. QED
      BY <2>1, <2>2, <3>1, <3>2, <3>3, <3>4 DEF Knows, KnowsIssue
  <2>5. KnowsToken(y)'
    BY <1>2, <1>4, <2>1, <2>2 DEF Unspent, Kept, Knows, KnowsToken
  <2>6. QED
    BY <2>3, <2>4, <2>5 DEF Knows
<1>10. QED
  BY <1>3, <1>7, <1>8, <1>9 DEF IInv, Moves

(* Active tokens nobody else has locked are consumed.                      *)
LEMMA SpendStep ==
    ASSUME IInv, NEW x \in Request, NEW ts \in SUBSET (1 .. tokens),
           NEW how \in {"verification", "tidying", "reset"}, Spend(ts, how), End(x),
           \A t \in ts : Unspent(t) /\ tokenLock[t] \in {None, x},
           how = "verification" => \A t \in ts : verified'[row[t].user],
           verified' \in [Email -> BOOLEAN], \A e \in Email : verified[e] => verified'[e],
           UNCHANGED <<origin, hasPassword, account, tokens, row>>
    PROVE  IInv'
<1> USE DEF Spend, Unspent, Kept
<1>1. Moves(x) /\ Knows(x)' /\ 1 .. tokens \subseteq Token
  BY EndMoves, AccountsAssumption DEF IInv, TypeOK, Token
<1>2. TypeOK'
  BY <1>1 DEF IInv, TypeOK, Moves, Exists
<1>3. RowsOK'
  <2>1. \A t \in Token : consumed[t] => consumed'[t]
    OBVIOUS
  <2>2. \A t \in 1 .. tokens : Unspent(t)' => Newest(t)'
    BY <1>1, <2>1 DEF IInv, RowsOK, Newest, Of
  <2>3. \A t \in Token : consumed'[t] <=> spentBy'[t] # "nothing"
    BY DEF IInv, RowsOK
  <2>4. \A t \in 1 .. tokens : spentBy'[t] = "verification" => verified'[row[t].user]
    BY <1>1 DEF IInv, RowsOK, TypeOK
  <2>5. \A t \in Token : t > tokens => ~ consumed'[t]
    BY AccountsAssumption DEF IInv, RowsOK, TypeOK, Token
  <2>6. QED
    BY <2>2, <2>3, <2>4, <2>5 DEF IInv, RowsOK
<1>4. ASSUME NEW y \in Request, y # x PROVE Knows(y)'
  <2>1. Knows(y) /\ job[y].targets \subseteq Token /\ y # None
    BY AccountsAssumption DEF IInv, Locals
  <2>2. /\ pc'[y] = pc[y] /\ job'[y] = job[y]
        /\ \A u \in Email : emailLock[u] = y => emailLock'[u] = y
        /\ \A k \in Email \X AuthTokenType : issueLock[k] = y => issueLock'[k] = y
        /\ \A t \in Token : tokenLock[t] = y => tokenLock'[t] = y
    BY <1>4, OthersMove
  <2>3. KnowsUser(y)'
    BY <2>1, <2>2 DEF Knows, KnowsUser, Exists
  <2>4. KnowsIssue(y)'
    <3>1. \A u, type : Active(u, type)' \subseteq Active(u, type)
      BY <1>1 DEF Active, Of
    <3>2. QED
      BY <2>1, <2>2, <3>1 DEF Knows, KnowsUser, KnowsIssue
  <2>5. KnowsToken(y)'
    BY <1>1, <1>4, <2>1, <2>2 DEF Knows, KnowsToken
  <2>6. QED
    BY <2>3, <2>4, <2>5 DEF Knows
<1>5. QED
  BY <1>1, <1>2, <1>3, <1>4 DEF IInv, Moves

LEMMA TidyTokenStep == ASSUME IInv, NEW x \in Request, TidyToken(x) PROVE IInv'
<1> DEFINE t == job[x].token
           ts == {t} \cap {u \in Token : Unspent(u)}
<1>1. t \in 1 .. tokens /\ tokenLock[t] = None
  BY DEF IInv, Knows, KnowsToken, TidyToken, Locked
<1>2. ts \in SUBSET (1 .. tokens) /\ \A u \in ts : Unspent(u) /\ tokenLock[u] \in {None, x}
  BY <1>1
<1>3. Spend(ts, "tidying") /\ End(x) /\ UNCHANGED <<users, tokens, row>>
  BY DEF TidyToken
<1> HIDE DEF ts
<1>4. QED
  BY <1>2, <1>3, SpendStep DEF users, IInv, TypeOK

LEMMA CommitVerifiedStep == ASSUME IInv, NEW x \in Request, CommitVerified(x) PROVE IInv'
<1> DEFINE t == job[x].token
<1>1. t \in 1 .. tokens /\ tokenLock[t] = x /\ Unspent(t) /\ row[t].user \in Email
  BY DEF IInv, TypeOK, Knows, KnowsToken, CommitVerified
<1>2. /\ verified' = [verified EXCEPT ![row[t].user] = TRUE]
      /\ Spend({t}, "verification") /\ End(x)
      /\ UNCHANGED <<origin, hasPassword, account, tokens, row>>
  BY DEF CommitVerified
<1>3. /\ verified' \in [Email -> BOOLEAN] /\ verified'[row[t].user]
      /\ \A e \in Email : verified[e] => verified'[e]
  BY <1>1, <1>2 DEF IInv, TypeOK
<1>4. /\ {t} \in SUBSET (1 .. tokens)
      /\ \A u \in {t} : Unspent(u) /\ tokenLock[u] \in {None, x} /\ verified'[row[u].user]
  BY <1>1, <1>3
<1> HIDE DEF t
<1>5. QED
  BY <1>2, <1>3, <1>4, SpendStep

LEMMA CommitResetStep == ASSUME IInv, NEW x \in Request, CommitReset(x) PROVE IInv'
<1> DEFINE t == job[x].token
<1>1. t \in 1 .. tokens /\ tokenLock[t] = x /\ Unspent(t) /\ row[t].user \in Email
  BY DEF IInv, TypeOK, Knows, KnowsToken, CommitReset
<1>2. hasPassword[row[t].user] = TRUE
  BY <1>1 DEF IInv, TypeOK, RowsOK
<1>3. /\ hasPassword' = [hasPassword EXCEPT ![row[t].user] = TRUE]
      /\ Spend({t}, "reset") /\ End(x)
      /\ UNCHANGED <<origin, verified, account, tokens, row>>
  BY DEF CommitReset
<1>4. hasPassword' = hasPassword
  BY <1>2, <1>3 DEF IInv, TypeOK
<1>5. /\ {t} \in SUBSET (1 .. tokens)
      /\ \A u \in {t} : Unspent(u) /\ tokenLock[u] \in {None, x}
      /\ verified' \in [Email -> BOOLEAN] /\ \A e \in Email : verified[e] => verified'[e]
  BY <1>1, <1>3 DEF IInv, TypeOK
<1> HIDE DEF t
<1>6. QED
  BY <1>3, <1>4, <1>5, SpendStep

LEMMA CommitIssueStep == ASSUME IInv, NEW x \in Request, CommitIssue(x) PROVE IInv'
<1> DEFINE e == job[x].user
           type == job[x].type
           ts == job[x].targets
<1>1. /\ e \in Email /\ type \in AuthTokenType /\ origin[e] = "local" /\ issueLock[<<e, type>>] = x
      /\ Active(e, type) \subseteq ts /\ ts \subseteq Token /\ ts \subseteq 1 .. tokens
      /\ \A t \in ts : tokenLock[t] = x
  BY DEF IInv, Locals, Knows, KnowsUser, KnowsIssue, CommitIssue
<1>2. CreateToken(e, type) /\ Spend(ts, "newer") /\ End(x) /\ UNCHANGED users
  BY DEF CommitIssue
<1> HIDE DEF e, type, ts
<1>3. Moves(x) /\ Knows(x)'
  BY <1>2, EndMoves
<1>4. /\ tokens' \in 0 .. MaxToken /\ tokens + 1 \in Token
      /\ row' \in [Token -> [user : Email \cup {None}, type : AuthTokenType \cup {None}]]
      /\ 1 .. tokens \subseteq Token
      /\ (1 .. tokens)' = 1 .. tokens \cup {tokens + 1}
      /\ row'[tokens + 1] = [user |-> e, type |-> type]
      /\ \A t \in 1 .. tokens : t # tokens + 1 /\ row'[t] = row[t]
  BY <1>1, <1>2, CreatesNewest
<1>5. TypeOK'
  <2>1. ASSUME NEW t \in (1 .. tokens)'
        PROVE  row'[t].type \in AuthTokenType /\ row'[t].user \in Email /\ Exists(row[t].user)'
    <3>1. CASE t = tokens + 1
      BY <1>1, <1>2, <1>4, <3>1 DEF users, Exists
    <3>2. CASE t \in 1 .. tokens
      BY <1>2, <1>4, <3>2 DEF users, IInv, TypeOK, Exists
    <3>3. QED
      BY <1>4, <3>1, <3>2
  <2>2. QED
    BY <1>2, <1>3, <1>4, <2>1 DEF users, Spend, IInv, TypeOK, Moves
<1>6. RowsOK'
  <2>1. ASSUME NEW t \in (1 .. tokens)'
        PROVE  /\ origin'[row'[t].user] = "local"
               /\ spentBy'[t] = "verification" => verified'[row'[t].user]
    <3>1. CASE t = tokens + 1
      <4>1. ~ consumed[t]
        BY <1>4, <3>1 DEF IInv, RowsOK, TypeOK
      <4>2. QED
        BY <1>1, <1>2, <1>4, <3>1, <4>1 DEF users, Spend, IInv, RowsOK
    <3>2. CASE t \in 1 .. tokens
      BY <1>2, <1>4, <3>2 DEF users, Spend, IInv, RowsOK
    <3>3. QED
      BY <1>4, <3>1, <3>2
  <2>2. \A t \in Token : consumed'[t] <=> spentBy'[t] # "nothing"
    BY <1>2 DEF Spend, IInv, RowsOK
  <2>3. \A t \in (1 .. tokens)' : Unspent(t)' => Newest(t)'
    <3>1. /\ \A t \in Token : consumed[t] => consumed'[t]
          /\ age' = age
          /\ \A t \in Active(e, type) : consumed'[t]
      BY <1>1, <1>2 DEF Spend
    <3>2. QED
      BY <1>1, <1>2, <3>1, NewestStays
  <2>4. \A t \in Token : t > tokens' => ~ consumed'[t]
    BY <1>1, <1>2, <1>4 DEF CreateToken, Spend, IInv, RowsOK, TypeOK, Token
  <2>5. QED
    BY <1>2, <2>1, <2>2, <2>3, <2>4 DEF users, IInv, RowsOK
<1>7. ASSUME NEW y \in Request, y # x PROVE Knows(y)'
  <2>1. Knows(y) /\ job[y].targets \subseteq Token
    BY DEF IInv, Locals
  <2>2. /\ pc'[y] = pc[y] /\ job'[y] = job[y]
        /\ \A u \in Email : emailLock[u] = y => emailLock'[u] = y
        /\ \A k \in Email \X AuthTokenType : issueLock[k] = y => issueLock'[k] = y
        /\ \A t \in Token : tokenLock[t] = y => tokenLock'[t] = y
    BY <1>2, <1>7, OthersMove
  <2>3. KnowsUser(y)'
    BY <1>2, <2>1, <2>2 DEF users, Knows, KnowsUser, Exists
  <2>4. KnowsIssue(y)'
    <3>1. ASSUME NEW u, NEW v, <<u, v>> # <<e, type>>, NEW t \in Active(u, v)'
          PROVE  t \in Active(u, v)
      <4>1. /\ t \in (1 .. tokens)' /\ row'[t].user = u /\ row'[t].type = v
            /\ Kept(t)' /\ ~ consumed'[t]
        BY DEF Active, Of, Unspent
      <4>2. t # tokens + 1
        BY <1>4, <3>1, <4>1
      <4>3. t \in 1 .. tokens /\ row'[t] = row[t] /\ Unspent(t)
        BY <1>2, <1>4, <4>1, <4>2 DEF Spend, Unspent, Kept
      <4>4. QED
        BY <4>1, <4>3 DEF Active, Of
    <3>2. 1 .. tokens \subseteq (1 .. tokens)'
      BY <1>4
    <3>3. pc[y] \in {"list", "supersede", "issue"} => <<job[y].user, job[y].type>> # <<e, type>>
      BY <1>1, <1>7, <2>1 DEF Knows, KnowsIssue
    <3>4. ASSUME pc[y] \in {"supersede", "issue"}, NEW u, NEW v, u = job[y].user, v = job[y].type,
                 NEW t \in (1 .. tokens)', row'[t].user = u, row'[t].type = v, Unspent(t)'
          PROVE  t \in job[y].targets
      <4>1. t \in Active(u, v)'
        BY <3>4 DEF Active, Of
      <4>2. t \in Active(u, v)
        BY <3>1, <3>3, <3>4, <4>1
      <4>3. QED
        BY <2>1, <3>4, <4>2 DEF Knows, KnowsIssue
    <3>5. QED
      BY <1>1, <1>2, <1>7, <2>1, <2>2, <3>2, <3>4 DEF users, Active, Of, Knows, KnowsUser, KnowsIssue
  <2>5. KnowsToken(y)'
    BY <1>1, <1>2, <1>4, <1>7, <2>1, <2>2 DEF Spend, Unspent, Kept, Knows, KnowsToken
  <2>6. QED
    BY <2>3, <2>4, <2>5 DEF Knows
<1>8. QED
  BY <1>3, <1>5, <1>6, <1>7 DEF IInv, Moves

(* Google's user is new: nobody has a token or a password for its address. *)
LEMMA CreateAccountStep == ASSUME IInv, NEW x \in Request, CreateAccount(x) PROVE IInv'
<1> DEFINE e == job[x].user
           g == job[x].subject
<1>1. e \in Email /\ g \in Subject /\ ~ Exists(e) /\ emailLock[e] = x /\ account[g] = None
  BY DEF IInv, Knows, KnowsUser, CreateAccount
<1>2. /\ account' = [account EXCEPT ![g] = e] /\ origin' = [origin EXCEPT ![e] = "google"]
      /\ verified' = [verified EXCEPT ![e] = TRUE] /\ End(x) /\ UNCHANGED <<hasPassword, authTokens>>
  BY DEF CreateAccount
<1> HIDE DEF e, g
<1>3. Moves(x) /\ Knows(x)'
  BY <1>2, EndMoves
<1>4. \A u \in Email : Exists(u) => u # e /\ Exists(u)' /\ origin'[u] = origin[u]
  BY <1>1, <1>2 DEF Exists, IInv, TypeOK
<1>5. TypeOK'
  <2>1. /\ origin' \in [Email -> {"none", "local", "google"}] /\ verified' \in [Email -> BOOLEAN]
        /\ account' \in [Subject -> Email \cup {None}]
    BY <1>1, <1>2 DEF IInv, TypeOK
  <2>2. \A t \in 1 .. tokens : Exists(row[t].user)' /\ row[t].user \in Email
    BY <1>2, <1>4 DEF authTokens, IInv, TypeOK
  <2>3. \A h \in Subject : h # g => account'[h] = account[h] /\ account'[h] # e
    BY <1>1, <1>2, AccountsAssumption DEF IInv, TypeOK, Exists
  <2>4. account'[g] = e /\ origin'[e] = "google"
    BY <1>1, <1>2 DEF IInv, TypeOK
  <2>5. \A h \in Subject : account'[h] # None => origin'[account'[h]] = "google"
    BY <1>4, <2>3, <2>4 DEF IInv, TypeOK, Exists
  <2>6. \A h, k \in Subject : account'[h] = account'[k] => account'[h] = None \/ h = k
    BY <2>3, <2>4 DEF IInv, TypeOK
  <2>7. QED
    BY <1>2, <1>3, <2>1, <2>2, <2>5, <2>6 DEF authTokens, IInv, TypeOK, Moves
<1>6. RowsOK'
  <2>1. \A t \in 1 .. tokens : /\ row[t].user \in Email /\ origin'[row[t].user] = "local"
                               /\ spentBy[t] = "verification" => verified'[row[t].user]
    BY <1>1, <1>2, <1>4 DEF IInv, TypeOK, RowsOK
  <2>2. \A t \in 1 .. tokens : Unspent(t)' => Newest(t)'
    BY <1>2 DEF authTokens, IInv, RowsOK, Newest, Of, Unspent, Kept
  <2>3. \A u \in Email : hasPassword[u] <=> origin'[u] = "local"
    BY <1>1, <1>2 DEF IInv, RowsOK, TypeOK, Exists
  <2>4. \A u \in Email : origin'[u] = "google" => verified'[u]
    BY <1>1, <1>2 DEF IInv, RowsOK, TypeOK
  <2>5. QED
    BY <1>2, <2>1, <2>2, <2>3, <2>4 DEF authTokens, IInv, RowsOK
<1>7. ASSUME NEW y \in Request, y # x PROVE Knows(y)'
  <2>1. Knows(y)
    BY DEF IInv
  <2>2. /\ pc'[y] = pc[y] /\ job'[y] = job[y]
        /\ \A u \in Email : emailLock[u] = y => emailLock'[u] = y
        /\ \A k \in Email \X AuthTokenType : issueLock[k] = y => issueLock'[k] = y
        /\ \A t \in Token : tokenLock[t] = y => tokenLock'[t] = y
    BY <1>2, <1>7, OthersMove
  <2>3. KnowsUser(y)'
    <3>1. \A h \in Subject : account[h] # None => account'[h] # None
      BY <1>1, <1>2 DEF IInv, TypeOK
    <3>2. ASSUME pc[y] \in {"commitUser", "createAccount"} PROVE ~ Exists(job[y].user)'
      <4>1. job[y].user \in Email /\ emailLock[job[y].user] = y /\ ~ Exists(job[y].user)
        BY <2>1, <3>2 DEF Knows, KnowsUser
      <4>2. origin'[job[y].user] = origin[job[y].user]
        BY <1>1, <1>2, <1>7, <4>1 DEF IInv, TypeOK
      <4>3. QED
        BY <2>2, <4>1, <4>2 DEF Exists
    <3>3. QED
      BY <1>4, <2>1, <2>2, <3>1, <3>2 DEF Knows, KnowsUser, Exists
  <2>4. KnowsIssue(y)'
    <3>1. \A u, type : Active(u, type)' = Active(u, type)
      BY <1>2 DEF authTokens, Active, Of, Unspent, Kept
    <3>2. job[y].targets \subseteq Token
      BY DEF IInv, Locals
    <3>3. QED
      BY <1>2, <1>4, <2>1, <2>2, <3>1, <3>2 DEF authTokens, Knows, KnowsUser, KnowsIssue, Exists
  <2>5. KnowsToken(y)'
    <3>1. 1 .. tokens \subseteq Token
      BY AccountsAssumption DEF IInv, TypeOK, Token
    <3>2. QED
      BY <1>2, <2>1, <2>2, <3>1 DEF authTokens, Unspent, Kept, Knows, KnowsToken
  <2>6. QED
    BY <2>3, <2>4, <2>5 DEF Knows
<1>8. QED
  BY <1>2, <1>3, <1>5, <1>6, <1>7 DEF authTokens, IInv, Moves

-----------------------------------------------------------------------------
(* The cleanup: a row that is gone stays so, and a locked one is kept.     *)
Ages ==
    /\ age' \in [Token -> {"recent", "old", "gone"}]
    /\ \A t \in Token : Kept(t)' => Kept(t)
    /\ \A t \in Token : tokenLock[t] # None /\ Kept(t) => Kept(t)'
    /\ UNCHANGED <<users, tokens, row, consumed, spentBy, locks, pc, job>>

LEMMA GrowOldAges == ASSUME IInv, NEW t \in Token, GrowOld(t) PROVE Ages
BY DEF IInv, TypeOK, GrowOld, Kept, Ages

LEMMA DeleteExpiredAges == ASSUME IInv, DeleteExpired PROVE Ages
BY DEF IInv, TypeOK, DeleteExpired, Locked, Kept, Ages

LEMMA AgeStep == ASSUME IInv, Ages PROVE IInv'
<1> USE DEF Ages, users, locks
<1>1. TypeOK'
  BY DEF IInv, TypeOK, Exists
<1>2. 1 .. tokens \subseteq Token
  BY AccountsAssumption DEF IInv, TypeOK, Token
<1>3. RowsOK'
  BY <1>2 DEF IInv, RowsOK, Newest, Of, Unspent
<1>4. ASSUME NEW y \in Request PROVE Knows(y)'
  <2>1. Knows(y) /\ y # None
    BY AccountsAssumption DEF IInv
  <2>2. KnowsUser(y)'
    BY <2>1 DEF Knows, KnowsUser, Exists
  <2>3. KnowsIssue(y)'
    <3>1. \A u, type : Active(u, type)' \subseteq Active(u, type)
      BY <1>2 DEF Active, Of, Unspent
    <3>2. QED
      BY <2>1, <3>1 DEF Knows, KnowsIssue
  <2>4. KnowsToken(y)'
    BY <1>2, <2>1 DEF Unspent, Knows, KnowsToken
  <2>5. QED
    BY <2>2, <2>3, <2>4 DEF Knows
<1>5. QED
  BY <1>1, <1>3, <1>4 DEF IInv

-----------------------------------------------------------------------------
LEMMA NextIInv == IInv /\ [Next]_vars => IInv'
<1> SUFFICES ASSUME IInv, [Next]_vars PROVE IInv'
  OBVIOUS
<1> USE DEF Request
<1>1. ASSUME NEW x \in Register, \/ \E e \in Registrable : FindNoUser(x, e)
                                 \/ CreateUser(x) \/ CommitRegistration(x)
      PROVE  IInv'
  BY <1>1, FindNoUserStep, CreateUserStep, CommitRegistrationStep, AccountsAssumption
<1>2. ASSUME NEW x \in Ask, \/ \E e \in Email, type \in AuthTokenType : AskForToken(x, e, type)
                            \/ LockIssue(x) \/ ListActive(x) \/ Supersede(x) \/ CommitIssue(x)
      PROVE  IInv'
  BY <1>2, AskForTokenStep, LockIssueStep, ListActiveStep, SupersedeStep, CommitIssueStep
<1>3. ASSUME NEW x \in Verify, \/ \E t \in Token : FindToken(x, t)
                               \/ FindUser(x) \/ TidyToken(x) \/ ConsumeToken(x)
                               \/ FindAgain(x) \/ CommitVerified(x)
      PROVE  IInv'
  BY <1>3, FindTokenStep, FindUserStep, TidyTokenStep, ConsumeTokenStep, FindAgainStep,
     CommitVerifiedStep
<1>4. ASSUME NEW x \in Reset, \/ \E t \in Token : CheckResetToken(x, t)
                              \/ CheckResetTokenAgain(x) \/ ConsumeResetToken(x) \/ CommitReset(x)
      PROVE  IInv'
  BY <1>4, CheckResetTokenStep, CheckResetTokenAgainStep, ConsumeResetTokenStep, CommitResetStep
<1>5. ASSUME NEW x \in Google, \/ \E g \in Subject, e \in Email : FindAccount(x, g, e)
                               \/ FindEmail(x) \/ CreateGoogleUser(x) \/ CreateAccount(x)
                               \/ RefuseAccount(x) \/ RecoverAccount(x) \/ RecoverEmail(x)
      PROVE  IInv'
  BY <1>5, FindAccountStep, FindEmailStep, CreateGoogleUserStep, CreateAccountStep,
     RefuseAccountStep, RecoverAccountStep, RecoverEmailStep
<1>6. CASE UNCHANGED vars
  <2> USE <1>6 DEF vars, users, authTokens, locks
  <2>1. TypeOK'
    BY DEF IInv, TypeOK, Exists
  <2>2. RowsOK'
    BY DEF IInv, RowsOK, Newest, Of, Unspent, Kept
  <2>3. ASSUME NEW x \in Request PROVE Knows(x)'
    BY DEF IInv, Knows, KnowsUser, KnowsIssue, KnowsToken, Exists, Active, Of, Unspent, Kept
  <2>4. QED
    BY <2>1, <2>2, <2>3 DEF IInv
<1>7. QED
  BY <1>1, <1>2, <1>3, <1>4, <1>5, <1>6, AbortStep, AgeStep, GrowOldAges, DeleteExpiredAges DEF Next

LEMMA Invariance == Spec => []IInv
<1> QED
  BY InitIInv, NextIInv, PTL DEF Spec

-----------------------------------------------------------------------------
(***************************************************************************)
(* The types of the rows of users, accounts and tokens, and whom they      *)
(* belong to, for any number of requests.                                  *)
(***************************************************************************)
THEOREM AccountTypes == Spec => []TypeOK
<1>1. IInv => TypeOK
  BY DEF IInv
<1> QED
  BY <1>1, Invariance, PTL

(***************************************************************************)
(* The partial unique index never refuses a token, however many requests   *)
(* for tokens overlap with verifications and resets (issueInTransaction).  *)
(***************************************************************************)
THEOREM IssuesNeverCollide == Spec => []IssueNeverCollides
<1>1. IInv => IssueNeverCollides
  BY DEF IInv, Knows, KnowsIssue, IssueNeverCollides, Collides, Request
<1> QED
  BY <1>1, Invariance, PTL

(***************************************************************************)
(* A user Google created never has a password or a token                   *)
(* (requestPasswordReset, resendEmailVerification).                        *)
(***************************************************************************)
THEOREM GoogleUsersHaveNoPassword == Spec => []GoogleUsersStayPasswordless
<1>1. IInv => GoogleUsersStayPasswordless
  BY DEF IInv, RowsOK, GoogleUsersStayPasswordless, Of
<1> QED
  BY <1>1, Invariance, PTL

(***************************************************************************)
(* Nobody who opens the link that verified the address is told that it is  *)
(* invalid while its row is kept (verifyEmail, deleteExpiredData).         *)
(***************************************************************************)
THEOREM VerifyingLinkIsGood == Spec => []VerifyingLinkIsNeverInvalid
<1>1. IInv => VerifyingLinkIsNeverInvalid
  BY DEF IInv, Knows, KnowsToken, VerifyingLinkIsNeverInvalid, Request
<1> QED
  BY <1>1, Invariance, PTL

(***************************************************************************)
(* A Google login that lost a race has an answer (login's catch branch).   *)
(***************************************************************************)
THEOREM RacesAreExplained == Spec => []LostRacesAreExplained
<1>1. IInv => LostRacesAreExplained
  BY DEF IInv, Knows, KnowsUser, LostRacesAreExplained, Request
<1> QED
  BY <1>1, Invariance, PTL

(* Only the commits of a verification and of a reset spend a token so, and *)
(* each holds the row of a token it found active.                          *)
LEMMA SpentStep ==
    ASSUME IInv, [Next]_vars
    PROVE  [\A t \in Token :
              spentBy'[t] # spentBy[t] /\ spentBy'[t] \in {"verification", "reset"} =>
                 spentBy[t] = "nothing" /\ Newest(t)]_authTokens
<1> SUFFICES ASSUME NEW t \in Token, spentBy'[t] # spentBy[t],
                    spentBy'[t] \in {"verification", "reset"}
             PROVE  spentBy[t] = "nothing" /\ Newest(t)
  OBVIOUS
<1>1. ASSUME t \in 1 .. tokens, Unspent(t) PROVE spentBy[t] = "nothing" /\ Newest(t)
  BY <1>1 DEF IInv, RowsOK, Unspent
<1>2. ASSUME NEW x \in Request, CommitVerified(x) \/ CommitReset(x)
      PROVE  t \in 1 .. tokens /\ Unspent(t)
  <2>1. job[x].token \in 1 .. tokens /\ Unspent(job[x].token)
    BY <1>2 DEF IInv, Knows, KnowsToken, CommitVerified, CommitReset
  <2>2. t = job[x].token
    BY <1>2 DEF CommitVerified, CommitReset, Spend
  <2>3. QED
    BY <2>1, <2>2
<1>3. ASSUME NEW x \in Request, CommitIssue(x) \/ TidyToken(x)
      PROVE  FALSE
  BY <1>3 DEF CommitIssue, TidyToken, Spend
<1>4. QED
  BY <1>1, <1>2, <1>3
  DEF Next, Request, vars, authTokens, Abort, FindNoUser, CreateUser, CommitRegistration, AskForToken,
      LockIssue, ListActive, Supersede, FindToken, FindUser, ConsumeToken, FindAgain, CheckResetToken,
      CheckResetTokenAgain, ConsumeResetToken, FindAccount, FindEmail, CreateGoogleUser,
      CreateAccount, RefuseAccount, RecoverAccount, RecoverEmail, GrowOld, DeleteExpired

(***************************************************************************)
(* A token has an effect once at most, and only while it is the newest of  *)
(* its user and type (verifyEmail, resetPassword, issueInTransaction).     *)
(***************************************************************************)
THEOREM TokensSpentOnce == Spec => OnlyNewestUnspentToken
<1>1. IInv /\ [Next]_vars =>
        [\A t \in Token :
           spentBy'[t] # spentBy[t] /\ spentBy'[t] \in {"verification", "reset"} =>
              spentBy[t] = "nothing" /\ Newest(t)]_authTokens
  BY SpentStep
<1> QED
  BY <1>1, Invariance, PTL DEF Spec, OnlyNewestUnspentToken
================================================================================
