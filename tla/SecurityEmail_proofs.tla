-------------------------- MODULE SecurityEmail_proofs --------------------------
(***************************************************************************)
(* For any number of requests, calls and contents: a mail is sent at most  *)
(* once, the row keeps what SES said of it, however late, and what auth is *)
(* told is true of the row and of SES.                                     *)
(*                                                                         *)
(* None is inductive.  Whoever may send has written attempts = 1 into the  *)
(* row, where it stays; so at most one call is between that and the end of *)
(* its submission, and SES was not asked before it (IInv).  A result in    *)
(* the row stays, and was true of SES when it was written: nobody submits  *)
(* for a row that was refused (AnswersInv).                                *)
(***************************************************************************)
EXTENDS SecurityEmail, TLAPS

IsRow(d) ==
    {"command", "status", "result", "lease", "attempts", "message", "last"} \subseteq DOMAIN d

Settled(d) == IsRow(d) /\ d.status \notin {"PENDING", "SUBMISSION_UNKNOWN"}

(* What every statement but the first does to a row.                       *)
Keeps(d, e) ==
    /\ d = NoRow => e = NoRow \/ IsRow(e)
    /\ IsRow(d) => /\ IsRow(e)
                   /\ d.attempts # 0 => e.attempts # 0
                   /\ Settled(d) => Settled(e)

Claimed(h) ==
    pc[h] \in {"wait", "refresh", "attempt", "send", "sending", "finalize", "recorded"}
Submitting(h) == pc[h] \in {"send", "sending", "finalize"}
Definite(s) == s \notin {Unset, "SUBMISSION_UNKNOWN"}

JobFields == {"req", "command", "deadline", "view", "timeout", "submission"}

JobOK(h) ==
    /\ JobFields \subseteq DOMAIN job[h]
    /\ pc[h] # "idle" => job[h].req \in Request
    /\ job[h].submission \in CommandResults \cup {Unset}

CallOK(h) ==
    /\ Claimed(h) => IsRow(Row(h))
    /\ Submitting(h) => Row(h).attempts # 0
    /\ pc[h] = "send" => calls[job[h].req] = 0
    /\ pc[h] = "done" /\ Definite(job[h].submission) => Settled(Row(h))

RequestOK(r) ==
    /\ delivery[r] = NoRow \/ IsRow(delivery[r])
    /\ calls[r] \in {0, 1}
    /\ calls[r] = 1 => IsRow(delivery[r]) /\ delivery[r].attempts # 0

DomainsOK ==
    DOMAIN delivery = Request /\ DOMAIN calls = Request /\ DOMAIN pc = Call /\ DOMAIN job = Call

Exclusive ==
    \A h, g \in Call : Submitting(h) /\ Submitting(g) /\ job[h].req = job[g].req => h = g

IInv ==
    /\ DomainsOK
    /\ \A r \in Request : RequestOK(r)
    /\ \A h \in Call : JobOK(h) /\ CallOK(h)
    /\ Exclusive

-----------------------------------------------------------------------------
(* The rows of email_deliveries.                                           *)
LEMMA NoRowIsNone == ~IsRow(NoRow)
  BY DEF IsRow, NoRow

LEMMA SameRowKept == ASSUME NEW d PROVE Keeps(d, d)
  BY DEF Keeps

LEMMA NewRowKept ==
    ASSUME NEW command, NEW b, NEW lease
    PROVE  IsRow(NewDelivery(command, b, lease))
  BY DEF NewDelivery, IsRow

LEMMA ExpiryKeeps == ASSUME NEW d, IsRow(d) PROVE Keeps(d, ExpireLease(d))
<1>1. CASE LeaseExpired(d)
  <2> DEFINE e == [d EXCEPT !.status = "SUBMISSION_UNKNOWN", !.result = "SUBMISSION_UNKNOWN",
                            !.lease = NoLease]
  <2>1. DOMAIN e = DOMAIN d /\ e.attempts = d.attempts
    BY DEF IsRow
  <2>2. ExpireLease(d) = e /\ d.status = "PENDING"
    BY <1>1 DEF ExpireLease, LeaseExpired
  <2> HIDE DEF e
  <2> QED
    BY <2>1, <2>2, NoRowIsNone DEF Keeps, IsRow, Settled
<1>2. CASE ~LeaseExpired(d)
  BY <1>2, SameRowKept DEF ExpireLease
<1> QED
  BY <1>1, <1>2

LEMMA ResultKeeps == ASSUME NEW d, NEW res, IsRow(d) PROVE Keeps(d, SetCallerResult(d, res))
<1> DEFINE e == [d EXCEPT !.result = res, !.lease = NoLease]
<1>1. DOMAIN e = DOMAIN d /\ e.attempts = d.attempts /\ e.status = d.status
  BY DEF IsRow
<1>2. SetCallerResult(d, res) \in {d, e}
  BY DEF SetCallerResult
<1> HIDE DEF e
<1> QED
  BY <1>1, <1>2, NoRowIsNone DEF Keeps, IsRow, Settled

(* persistProviderOutcome settles a row with a definite outcome.           *)
LEMMA OutcomeKeeps ==
    ASSUME NEW d, NEW s \in CommandResults \cup {Unset}, IsRow(d)
    PROVE  /\ Keeps(d, PersistProviderOutcome(d, s))
           /\ Definite(s) => Settled(PersistProviderOutcome(d, s))
<1> DEFINE a == [d EXCEPT !.message = @ \/ s = "ACCEPTED"]
           e == [a EXCEPT !.status = s, !.lease = NoLease]
<1>1. DOMAIN a = DOMAIN d /\ a.attempts = d.attempts /\ a.status = d.status
  BY DEF IsRow
<1> HIDE DEF a
<1>2. DOMAIN e = DOMAIN d /\ e.attempts = d.attempts /\ e.status = s
  BY <1>1 DEF IsRow
<1>3. PersistProviderOutcome(d, s) = IF d.status \in Replaceable(s) THEN e ELSE a
  BY DEF PersistProviderOutcome, a
<1> HIDE DEF e
<1>4. /\ Replaceable(s) \subseteq {"PENDING", "SUBMISSION_UNKNOWN"}
      /\ Definite(s) => /\ Replaceable(s) = {"PENDING", "SUBMISSION_UNKNOWN"}
                        /\ s \notin {"PENDING", "SUBMISSION_UNKNOWN"}
  BY DEF Replaceable, Definite, CommandResults, Unset
<1> QED
  BY <1>1, <1>2, <1>3, <1>4, NoRowIsNone DEF Keeps, IsRow, Settled

LEMMA KeepsTransitive ==
    ASSUME NEW d, NEW e, NEW f, IsRow(d), Keeps(d, e), Keeps(e, f)
    PROVE  Keeps(d, f)
  BY NoRowIsNone DEF Keeps, Settled

LEMMA FinalizeKeeps ==
    ASSUME NEW d, NEW s \in CommandResults \cup {Unset}, IsRow(d)
    PROVE  /\ Keeps(d, FinalizeSubmission(d, s))
           /\ Definite(s) => Settled(FinalizeSubmission(d, s))
<1> DEFINE e == PersistProviderOutcome(d, s)
<1>1. Keeps(d, e) /\ IsRow(e) /\ (Definite(s) => Settled(e))
  BY OutcomeKeeps DEF Keeps
<1>2. Keeps(e, SetCallerResult(e, s))
  BY <1>1, ResultKeeps
<1> QED
  BY <1>1, <1>2, KeepsTransitive DEF FinalizeSubmission, Keeps

LEMMA FeedbackKeeps == ASSUME NEW d, NEW e, IsRow(d) PROVE Keeps(d, AfterFeedback(d, e))
<1> DEFINE a == [d EXCEPT !.message = TRUE]
           t == SetCallerResult(a, "ACCEPTED")
           n == [t EXCEPT !.status = DeliveryStatus(e), !.last = Revision(e)]
<1>1. DOMAIN a = DOMAIN d /\ a.attempts = d.attempts /\ a.status = d.status
  BY DEF IsRow
<1> HIDE DEF a
<1>2. IsRow(a) /\ Keeps(d, a)
  BY <1>1, NoRowIsNone DEF Keeps, IsRow, Settled
<1>3. IsRow(t) /\ Keeps(a, t)
  BY <1>2, ResultKeeps DEF Keeps
<1> HIDE DEF t
<1>4. DOMAIN n = DOMAIN t /\ n.attempts = t.attempts /\ n.status = DeliveryStatus(e)
  BY <1>3 DEF IsRow
<1>5. ApplyDeliveryTransition(t, e) \in {t, n}
  BY DEF ApplyDeliveryTransition
<1> HIDE DEF n
<1>6. DeliveryStatus(e) \notin {"PENDING", "SUBMISSION_UNKNOWN"}
  BY DEF DeliveryStatus
<1>7. Keeps(t, n)
  BY <1>3, <1>4, <1>6, NoRowIsNone DEF Keeps, IsRow, Settled
<1>8. Keeps(t, ApplyDeliveryTransition(t, e))
  BY <1>5, <1>7, SameRowKept
<1>9. AfterFeedback(d, e) = ApplyDeliveryTransition(t, e)
  BY DEF AfterFeedback, t, a
<1> QED
  BY <1>2, <1>3, <1>8, <1>9, KeepsTransitive
-----------------------------------------------------------------------------
(* Steps.                                                                  *)
KeepsRows == DOMAIN delivery' = Request /\ \A r \in Request : Keeps(delivery[r], delivery'[r])

OnlyMoves(h) ==
    /\ DOMAIN pc' = Call /\ DOMAIN job' = Call
    /\ \A g \in Call \ {h} : pc'[g] = pc[g] /\ job'[g] = job[g]

LEMMA InitIInv == Init => IInv
<1> SUFFICES ASSUME Init PROVE IInv
  OBVIOUS
<1>1. DomainsOK /\ (\A r \in Request : RequestOK(r)) /\ Exclusive
  BY DEF Init, DomainsOK, RequestOK, Exclusive, Submitting
<1>2. ASSUME NEW h \in Call PROVE JobOK(h) /\ CallOK(h)
  BY DEF Init, JobOK, JobFields, CallOK, Claimed, Submitting, Idle
<1> QED
  BY <1>1, <1>2 DEF IInv

(* A step of one call: the rows keep what matters, and the call does not   *)
(* start to submit beside another.                                         *)
LEMMA Moved ==
    ASSUME IInv, NEW h \in Call, KeepsRows, OnlyMoves(h), calls' = calls,
           JobOK(h)', CallOK(h)',
           Submitting(h)' =>
             \/ Submitting(h) /\ job'[h].req = job[h].req
             \/ \A g \in Call \ {h} : Submitting(g) => job[g].req # job'[h].req
    PROVE  IInv'
<1>1. DomainsOK'
  BY DEF IInv, DomainsOK, KeepsRows, OnlyMoves
<1>2. ASSUME NEW r \in Request PROVE RequestOK(r)'
  BY DEF IInv, RequestOK, KeepsRows, Keeps
<1>3. ASSUME NEW g \in Call, g # h PROVE JobOK(g)' /\ CallOK(g)'
  <2>1. pc'[g] = pc[g] /\ job'[g] = job[g] /\ JobOK(g) /\ CallOK(g)
    BY <1>3 DEF OnlyMoves, IInv
  <2>2. pc[g] # "idle" => Keeps(Row(g), delivery'[job[g].req])
    BY <2>1 DEF JobOK, KeepsRows, Row
  <2>3. JobOK(g)'
    BY <2>1 DEF JobOK
  <2>4. CallOK(g)'
    BY <2>1, <2>2, NoRowIsNone DEF CallOK, Claimed, Submitting, Row, Keeps, Settled
  <2> QED
    BY <2>3, <2>4
<1>4. Exclusive'
  BY DEF IInv, Exclusive, OnlyMoves, Submitting
<1> QED
  BY <1>1, <1>2, <1>3, <1>4 DEF IInv

(* A step after which every call is where it was.                          *)
LEMMA Stayed ==
    ASSUME IInv, KeepsRows, pc' = pc, calls' = calls, DOMAIN job' = Call,
           \A g \in Call : /\ JobFields \subseteq DOMAIN job'[g]
                           /\ job'[g].req = job[g].req
                           /\ job'[g].submission = job[g].submission
    PROVE  IInv'
<1>1. DomainsOK'
  BY DEF IInv, DomainsOK, KeepsRows
<1>2. ASSUME NEW r \in Request PROVE RequestOK(r)'
  BY DEF IInv, RequestOK, KeepsRows, Keeps
<1>3. ASSUME NEW g \in Call PROVE JobOK(g)' /\ CallOK(g)'
  <2>1. JobOK(g) /\ CallOK(g)
    BY DEF IInv
  <2>2. pc[g] # "idle" => Keeps(Row(g), delivery'[job[g].req])
    BY <2>1 DEF JobOK, KeepsRows, Row
  <2>3. JobOK(g)'
    BY <2>1 DEF JobOK
  <2>4. CallOK(g)'
    BY <2>1, <2>2, NoRowIsNone DEF CallOK, Claimed, Submitting, Row, Keeps, Settled
  <2> QED
    BY <2>3, <2>4
<1>4. Exclusive'
  BY DEF IInv, Exclusive, Submitting
<1> QED
  BY <1>1, <1>2, <1>3, <1>4 DEF IInv

LEMMA Answered ==
    ASSUME IInv, NEW h \in Call, pc[h] # "idle", NEW res,
           NEW saved \in CommandResults \cup {Unset}, AnswerSaved(h, res, saved),
           KeepsRows, calls' = calls,
           Definite(saved) => Settled(delivery'[job[h].req])
    PROVE  IInv'
<1>1. /\ pc'[h] = "done" /\ OnlyMoves(h)
      /\ job'[h] = [Idle EXCEPT !.req = job[h].req, !.command = job[h].command,
                                !.submission = saved]
  BY DEF AnswerSaved, Goto, Hold, OnlyMoves, IInv, DomainsOK
<1>2. /\ JobFields \subseteq DOMAIN job'[h]
      /\ job'[h].req = job[h].req /\ job'[h].submission = saved
  BY <1>1 DEF Idle, JobFields
<1>3. job[h].req \in Request
  BY DEF IInv, JobOK
<1>4. JobOK(h)' /\ CallOK(h)' /\ ~Submitting(h)'
  BY <1>1, <1>2, <1>3 DEF JobOK, CallOK, Claimed, Submitting, Row
<1> QED
  BY <1>1, <1>4, Moved

LEMMA RowsUnchanged == ASSUME IInv, delivery' = delivery PROVE KeepsRows
  BY SameRowKept DEF IInv, DomainsOK, KeepsRows

LEMMA RowWritten ==
    ASSUME IInv, NEW h \in Call, pc[h] # "idle", NEW d, Write(h, d), Keeps(Row(h), d)
    PROVE  KeepsRows /\ delivery'[job[h].req] = d /\ job[h].req \in Request
  BY SameRowKept DEF IInv, DomainsOK, KeepsRows, Write, Row, JobOK
-----------------------------------------------------------------------------
(* A call.                                                                 *)
LEMMA ReceiveStep == ASSUME IInv, NEW h \in Call, Receive(h) PROVE IInv'
<1>1. PICK r \in Request, c \in Command, b \in Budget :
        job' = [job EXCEPT ![h] = [Idle EXCEPT !.req = r, !.command = c, !.deadline = b]]
  BY DEF Receive, Hold
<1> DEFINE j == [Idle EXCEPT !.req = r, !.command = c, !.deadline = b]
<1>2. JobFields \subseteq DOMAIN j /\ j.req = r /\ j.submission = Unset
  BY DEF Idle, JobFields
<1>3. job' = [job EXCEPT ![h] = j]
  BY <1>1
<1> HIDE DEF j
<1>4. OnlyMoves(h) /\ job'[h] = j /\ pc'[h] = "lookup" /\ KeepsRows /\ calls' = calls
  BY <1>3, RowsUnchanged DEF OnlyMoves, IInv, DomainsOK, Receive, Goto, rows
<1>5. JobOK(h)' /\ CallOK(h)' /\ ~Submitting(h)'
  BY <1>2, <1>4 DEF JobOK, CallOK, Claimed, Submitting
<1> QED
  BY <1>4, <1>5, Moved

(* The call reads only, and goes where it may not submit.                  *)
LEMMA Reads ==
    ASSUME IInv, NEW h \in Call, pc[h] # "idle", NEW l,
           l \in {"lookup", "create", "wait", "refresh", "attempt", "recorded"},
           Goto(h, l), KeepsRows, calls' = calls,
           job' = job \/ \E d : Hold(h, [job[h] EXCEPT !.view = d]),
           l \notin {"lookup", "create"} => IsRow(delivery'[job[h].req])
    PROVE  IInv'
<1>1. JobOK(h)
  BY DEF IInv
<1>2. OnlyMoves(h) /\ pc'[h] = l
  BY DEF OnlyMoves, Goto, Hold, IInv, DomainsOK
<1>3. /\ JobFields \subseteq DOMAIN job'[h]
      /\ job'[h].req = job[h].req /\ job'[h].submission = job[h].submission
  <2>1. CASE job' = job
    BY <1>1, <2>1 DEF JobOK
  <2>2. CASE \E d : Hold(h, [job[h] EXCEPT !.view = d])
    <3>1. PICK d : job' = [job EXCEPT ![h] = [job[h] EXCEPT !.view = d]]
      BY <2>2 DEF Hold
    <3> DEFINE j == [job[h] EXCEPT !.view = d]
    <3>2. DOMAIN j = DOMAIN job[h] /\ j.req = job[h].req /\ j.submission = job[h].submission
      BY <1>1 DEF JobOK, JobFields
    <3>3. job' = [job EXCEPT ![h] = j]
      BY <3>1
    <3> HIDE DEF j
    <3> QED
      BY <1>1, <3>2, <3>3 DEF JobOK, IInv, DomainsOK
  <2> QED
    BY <2>1, <2>2
<1>4. JobOK(h)' /\ CallOK(h)' /\ ~Submitting(h)'
  BY <1>1, <1>2, <1>3 DEF JobOK, CallOK, Claimed, Submitting, Row
<1> QED
  BY <1>2, <1>4, Moved

LEMMA RowOfCall ==
    ASSUME IInv, NEW h \in Call, pc[h] # "idle"
    PROVE  Row(h) = NoRow \/ IsRow(Row(h))
  BY DEF IInv, JobOK, RequestOK, Row

LEMMA LookupStep == ASSUME IInv, NEW h \in Call, Lookup(h) PROVE IInv'
<1>1. pc[h] = "lookup" /\ KeepsRows /\ delivery' = delivery /\ calls' = calls
  BY RowsUnchanged DEF Lookup, rows
<1>2. CASE Row(h) = NoRow
  BY <1>1, <1>2, Reads DEF Lookup
<1>3. CASE Row(h) # NoRow
  <2>1. Adopt(h, Row(h)) /\ IsRow(Row(h))
    BY <1>1, <1>3, RowOfCall DEF Lookup
  <2>2. CASE WaitFor(h, Row(h))
    <3>1. Goto(h, "wait") /\ Hold(h, [job[h] EXCEPT !.view = Row(h)])
      BY <2>2 DEF WaitFor
    <3> QED
      BY <1>1, <2>1, <3>1, Reads DEF Row
  <2>3. CASE Answer(h, "CONFLICT") \/ Answer(h, Row(h).result)
    <3>1. PICK res : AnswerSaved(h, res, Unset)
      BY <2>3 DEF Answer
    <3> QED
      BY <1>1, <3>1, Answered DEF Definite
  <2> QED
    BY <2>1, <2>2, <2>3 DEF Adopt
<1> QED
  BY <1>2, <1>3

LEMMA CreateClaimStep == ASSUME IInv, NEW h \in Call, CreateClaim(h) PROVE IInv'
<1> DEFINE d == NewDelivery(job[h].command, blocked, Lease)
<1>1. pc[h] = "create" /\ calls' = calls /\ IsRow(d)
  BY NewRowKept DEF CreateClaim
<1>2. CASE Row(h) # NoRow
  <2>1. KeepsRows /\ Goto(h, "lookup") /\ job' = job
    BY <1>2, RowsUnchanged DEF CreateClaim
  <2> QED
    BY <1>1, <2>1, Reads
<1>3. CASE Row(h) = NoRow
  <2>1. Write(h, d) /\ (Answer(h, d.result) \/ (Goto(h, "attempt") /\ job' = job))
    BY <1>3 DEF CreateClaim
  <2> HIDE DEF d
  <2>2. Keeps(Row(h), d)
    BY <1>1, <1>3, NoRowIsNone DEF Keeps
  <2>3. KeepsRows /\ delivery'[job[h].req] = d
    BY <1>1, <2>1, <2>2, RowWritten
  <2>4. CASE Answer(h, d.result)
    BY <1>1, <2>3, <2>4, Answered DEF Answer, Definite
  <2>5. CASE Goto(h, "attempt") /\ job' = job
    BY <1>1, <2>3, <2>5, Reads
  <2> QED
    BY <2>1, <2>4, <2>5
<1> QED
  BY <1>2, <1>3

LEMMA WaitStep == ASSUME IInv, NEW h \in Call, Wait(h) PROVE IInv'
<1>1. pc[h] = "wait" /\ calls' = calls /\ IsRow(Row(h))
  BY DEF Wait, IInv, CallOK, Claimed
<1>2. CASE \E res : Answer(h, res) /\ delivery' = delivery
  <2>1. PICK res : AnswerSaved(h, res, Unset) /\ KeepsRows
    BY <1>2, RowsUnchanged DEF Answer
  <2> QED
    BY <1>1, <2>1, Answered DEF Definite
<1>3. CASE Goto(h, "refresh") /\ job' = job /\ (Write(h, ExpireLease(Row(h))) \/ delivery' = delivery)
  <2>1. KeepsRows /\ IsRow(delivery'[job[h].req])
    <3>1. CASE delivery' = delivery
      BY <1>1, <3>1, RowsUnchanged DEF Row
    <3>2. CASE Write(h, ExpireLease(Row(h)))
      <4>1. Keeps(Row(h), ExpireLease(Row(h)))
        BY <1>1, ExpiryKeeps
      <4> QED
        BY <1>1, <3>2, <4>1, RowWritten DEF Keeps
    <3> QED
      BY <1>3, <3>1, <3>2
  <2> QED
    BY <1>1, <1>3, <2>1, Reads
<1> QED
  BY <1>2, <1>3 DEF Wait

LEMMA RefreshStep == ASSUME IInv, NEW h \in Call, Refresh(h) PROVE IInv'
<1>1. pc[h] = "refresh" /\ KeepsRows /\ delivery' = delivery /\ calls' = calls
  BY RowsUnchanged DEF Refresh, rows
<1>2. IsRow(Row(h))
  BY <1>1 DEF IInv, CallOK, Claimed
<1>3. Goto(h, "wait") /\ Hold(h, [job[h] EXCEPT !.view = Row(h)])
  BY DEF Refresh, ReadAgain
<1> QED
  BY <1>1, <1>2, <1>3, Reads DEF Row

(* Nobody submits for a row that was never attempted.                      *)
LEMMA AttemptStep == ASSUME IInv, NEW h \in Call, Attempt(h) PROVE IInv'
<1>1. pc[h] = "attempt" /\ job' = job /\ calls' = calls /\ IsRow(Row(h))
  BY DEF Attempt, IInv, CallOK, Claimed
<1>2. CASE MayAttempt(Row(h))
  <2> DEFINE d == [Row(h) EXCEPT !.attempts = 1]
  <2>1. /\ DOMAIN d = DOMAIN Row(h) /\ d.status = Row(h).status /\ d.attempts = 1
        /\ Row(h).attempts = 0
    BY <1>1, <1>2 DEF IsRow, MayAttempt
  <2>2. Write(h, d) /\ Goto(h, "send")
    BY <1>2 DEF Attempt
  <2> HIDE DEF d
  <2>3. IsRow(d) /\ Keeps(Row(h), d)
    BY <1>1, <2>1, NoRowIsNone DEF Keeps, IsRow, Settled
  <2>4. KeepsRows /\ delivery'[job[h].req] = d /\ job[h].req \in Request
    BY <1>1, <2>2, <2>3, RowWritten
  <2>5. OnlyMoves(h) /\ pc'[h] = "send"
    BY <1>1, <2>2 DEF OnlyMoves, Goto, IInv, DomainsOK
  <2>6. calls[job[h].req] = 0
    BY <2>1, <2>4 DEF IInv, RequestOK, Row
  <2>7. JobOK(h)' /\ CallOK(h)'
    BY <1>1, <2>1, <2>3, <2>4, <2>5, <2>6 DEF IInv, JobOK, CallOK, Claimed, Submitting, Row
  <2>8. \A g \in Call \ {h} : Submitting(g) => job[g].req # job'[h].req
    BY <1>1, <2>1 DEF IInv, CallOK, Row
  <2> QED
    BY <1>1, <2>4, <2>5, <2>7, <2>8, Moved
<1>3. CASE ~MayAttempt(Row(h))
  <2>1. KeepsRows /\ delivery' = delivery /\ Goto(h, "recorded")
    BY <1>3, RowsUnchanged DEF Attempt
  <2> QED
    BY <1>1, <2>1, Reads DEF Row
<1> QED
  BY <1>2, <1>3
(* The submission: what the call holds changes, its request does not.      *)
LEMMA Submits ==
    ASSUME IInv, NEW h \in Call, Submitting(h), NEW l \in {"sending", "finalize", "recorded"},
           Goto(h, l), delivery' = delivery, calls' = calls,
           DOMAIN job' = Call, \A g \in Call \ {h} : job'[g] = job[g],
           JobFields \subseteq DOMAIN job'[h], job'[h].req = job[h].req,
           job'[h].submission \in CommandResults \cup {Unset}
    PROVE  IInv'
<1>1. OnlyMoves(h) /\ pc'[h] = l /\ KeepsRows
  BY RowsUnchanged DEF OnlyMoves, Goto, IInv, DomainsOK
<1>2. job[h].req \in Request /\ IsRow(Row(h)) /\ Row(h).attempts # 0
  BY DEF IInv, JobOK, CallOK, Claimed, Submitting
<1>3. JobOK(h)' /\ CallOK(h)'
  BY <1>1, <1>2 DEF JobOK, CallOK, Claimed, Submitting, Row
<1> QED
  BY <1>1, <1>3, Moved

LEMMA RenderFailsStep == ASSUME IInv, NEW h \in Call, RenderFails(h) PROVE IInv'
<1> DEFINE j == [job[h] EXCEPT !.submission = "FAILED"]
<1>1. JobFields \subseteq DOMAIN j /\ j.req = job[h].req /\ j.submission = "FAILED"
  BY DEF IInv, JobOK, JobFields
<1>2. job' = [job EXCEPT ![h] = j]
  BY DEF RenderFails, Hold
<1> HIDE DEF j
<1>3. /\ DOMAIN job' = Call /\ job'[h] = j
      /\ \A g \in Call \ {h} : job'[g] = job[g]
  BY <1>2 DEF IInv, DomainsOK
<1>4. Submitting(h) /\ Goto(h, "finalize") /\ delivery' = delivery /\ calls' = calls
  BY DEF RenderFails, Submitting, rows
<1> QED
  BY <1>1, <1>3, <1>4, Submits DEF CommandResults

LEMMA RespondStep == ASSUME IInv, NEW h \in Call, Respond(h) PROVE IInv'
<1>1. PICK response :
        job' = [job EXCEPT ![h] =
                 [job[h] EXCEPT !.submission = Classify(response), !.timeout = 0]]
  BY DEF Respond, Hold
<1>2. Classify(response) \in CommandResults
  BY DEF Classify, CommandResults
<1> DEFINE k == [job[h] EXCEPT !.submission = Classify(response)]
           j == [k EXCEPT !.timeout = 0]
<1>3. job' = [job EXCEPT ![h] = j]
  BY <1>1
<1>4. DOMAIN k = DOMAIN job[h] /\ k.req = job[h].req /\ k.submission = Classify(response)
  BY DEF IInv, JobOK, JobFields
<1> HIDE DEF k
<1>5. /\ JobFields \subseteq DOMAIN j
      /\ j.req = job[h].req /\ j.submission = Classify(response)
  BY <1>4 DEF IInv, JobOK, JobFields
<1> HIDE DEF j
<1>6. /\ DOMAIN job' = Call /\ job'[h] = j
      /\ \A g \in Call \ {h} : job'[g] = job[g]
  BY <1>3 DEF IInv, DomainsOK
<1>7. Submitting(h) /\ Goto(h, "finalize") /\ delivery' = delivery /\ calls' = calls
  BY DEF Respond, Submitting, rows
<1> QED
  BY <1>2, <1>5, <1>6, <1>7, Submits

LEMMA FinalizeFailsStep == ASSUME IInv, NEW h \in Call, FinalizeFails(h) PROVE IInv'
<1>1. /\ Submitting(h) /\ Goto(h, "recorded")
      /\ delivery' = delivery /\ calls' = calls /\ job' = job
  BY DEF FinalizeFails, Submitting, rows
<1> QED
  BY <1>1, Submits DEF IInv, DomainsOK, JobOK

(* SES is asked by the one call that submits for the request.              *)
LEMMA SendStep == ASSUME IInv, NEW h \in Call, Send(h) PROVE IInv'
<1>1. JobOK(h) /\ CallOK(h) /\ pc[h] = "send"
  BY DEF IInv, Send
<1> DEFINE j == [job[h] EXCEPT !.timeout = SesTimeout]
           r == job[h].req
<1>2. /\ JobFields \subseteq DOMAIN j /\ j.req = r /\ j.submission = job[h].submission
  BY <1>1 DEF JobOK, JobFields
<1>3. /\ job' = [job EXCEPT ![h] = j] /\ Goto(h, "sending") /\ delivery' = delivery
      /\ calls' = [calls EXCEPT ![r] = @ + 1]
  BY DEF Send, Hold, rows
<1> HIDE DEF j
<1>4. r \in Request /\ calls[r] = 0 /\ IsRow(delivery[r]) /\ delivery[r].attempts # 0
  BY <1>1 DEF JobOK, CallOK, Claimed, Submitting, Row
<1> HIDE DEF r
<1>5. /\ OnlyMoves(h) /\ pc'[h] = "sending" /\ job'[h] = j
      /\ DOMAIN calls' = Request /\ calls'[r] = 1
      /\ \A q \in Request \ {r} : calls'[q] = calls[q]
  BY <1>3, <1>4 DEF OnlyMoves, Goto, IInv, DomainsOK
<1>6. DomainsOK'
  BY <1>3, <1>5 DEF IInv, DomainsOK, OnlyMoves
<1>7. ASSUME NEW q \in Request PROVE RequestOK(q)'
  BY <1>3, <1>4, <1>5 DEF IInv, RequestOK
<1>8. JobOK(h)' /\ CallOK(h)'
  BY <1>1, <1>2, <1>3, <1>4, <1>5 DEF JobOK, CallOK, Claimed, Submitting, Row
<1>9. ASSUME NEW g \in Call, g # h PROVE JobOK(g)' /\ CallOK(g)'
  <2>1. pc'[g] = pc[g] /\ job'[g] = job[g] /\ JobOK(g) /\ CallOK(g)
    BY <1>5, <1>9 DEF OnlyMoves, IInv
  <2>2. pc[g] = "send" => job[g].req \in Request \ {r}
    BY <1>1, <1>9, <2>1 DEF IInv, Exclusive, Submitting, JobOK, r
  <2> QED
    BY <1>3, <1>5, <2>1, <2>2 DEF JobOK, CallOK, Claimed, Submitting, Row
<1>10. Exclusive'
  BY <1>1, <1>2, <1>5 DEF IInv, Exclusive, OnlyMoves, Submitting, r
<1> QED
  BY <1>6, <1>7, <1>8, <1>9, <1>10 DEF IInv

LEMMA FinalizeStep == ASSUME IInv, NEW h \in Call, Finalize(h) PROVE IInv'
<1> DEFINE s == job[h].submission
           d == FinalizeSubmission(Row(h), s)
<1>1. /\ pc[h] = "finalize" /\ Write(h, d) /\ AnswerSaved(h, d.result, s)
      /\ calls' = calls
  BY DEF Finalize
<1>2. s \in CommandResults \cup {Unset} /\ IsRow(Row(h))
  BY <1>1 DEF IInv, JobOK, CallOK, Claimed
<1>3. Keeps(Row(h), d) /\ (Definite(s) => Settled(d))
  BY <1>2, FinalizeKeeps
<1> HIDE DEF d, s
<1>4. KeepsRows /\ delivery'[job[h].req] = d
  BY <1>1, <1>3, RowWritten
<1> QED
  BY <1>1, <1>2, <1>3, <1>4, Answered

LEMMA ReadRecordedStep == ASSUME IInv, NEW h \in Call, ReadRecordedResult(h) PROVE IInv'
<1>1. pc[h] = "recorded" /\ calls' = calls /\ KeepsRows
  BY RowsUnchanged DEF ReadRecordedResult, rows
<1>2. PICK res : AnswerSaved(h, res, Unset)
  BY DEF ReadRecordedResult, Answer
<1> QED
  BY <1>1, <1>2, Answered DEF Definite

LEMMA CrashStep == ASSUME IInv, NEW h \in Call, Crash(h) PROVE IInv'
<1> DEFINE k == [Idle EXCEPT !.req = job[h].req]
           j == [k EXCEPT !.command = job[h].command]
<1>1. DOMAIN k = JobFields /\ k.req = job[h].req /\ k.submission = Unset
  BY DEF Idle, JobFields
<1>2. job' = [job EXCEPT ![h] = j]
  BY DEF Crash, Hold
<1> HIDE DEF k
<1>3. JobFields \subseteq DOMAIN j /\ j.req = job[h].req /\ j.submission = Unset
  BY <1>1 DEF JobFields
<1> HIDE DEF j
<1>4. /\ OnlyMoves(h) /\ pc'[h] = "dead" /\ job'[h] = j /\ KeepsRows /\ calls' = calls
      /\ pc[h] # "idle"
  BY <1>2, RowsUnchanged DEF OnlyMoves, Crash, Running, Goto, rows, IInv, DomainsOK
<1>5. JobOK(h)' /\ CallOK(h)' /\ ~Submitting(h)'
  BY <1>3, <1>4 DEF IInv, JobOK, CallOK, Claimed, Submitting
<1> QED
  BY <1>4, <1>5, Moved
-----------------------------------------------------------------------------
(* The others, and time.                                                   *)
LEMMA JobsUnchanged ==
    ASSUME IInv, job' = job
    PROVE  /\ DOMAIN job' = Call
           /\ \A g \in Call : /\ JobFields \subseteq DOMAIN job'[g]
                             /\ job'[g].req = job[g].req
                             /\ job'[g].submission = job[g].submission
  BY DEF IInv, DomainsOK, JobOK

LEMMA CallerGivesUpStep == ASSUME IInv, NEW h \in Call, CallerGivesUp(h) PROVE IInv'
  BY RowsUnchanged, JobsUnchanged, Stayed DEF CallerGivesUp, rows

LEMMA SesDecidesStep == ASSUME IInv, NEW r \in Request, SesDecides(r) PROVE IInv'
  BY RowsUnchanged, JobsUnchanged, Stayed DEF SesDecides, rows

LEMMA DestinationChangesStep == ASSUME IInv, DestinationChanges PROVE IInv'
  BY RowsUnchanged, JobsUnchanged, Stayed DEF DestinationChanges

LEMMA OneRow ==
    ASSUME IInv, NEW r \in Request, NEW d, delivery' = [delivery EXCEPT ![r] = d],
           Keeps(delivery[r], d)
    PROVE  KeepsRows
  BY SameRowKept DEF IInv, DomainsOK, KeepsRows

LEMMA ExpireStaleClaimStep == ASSUME IInv, NEW r \in Request, ExpireStaleClaim(r) PROVE IInv'
<1>1. delivery' = [delivery EXCEPT ![r] = ExpireLease(delivery[r])] /\ IsRow(delivery[r])
  BY DEF ExpireStaleClaim, IInv, RequestOK
<1>2. KeepsRows
  BY <1>1, ExpiryKeeps, OneRow
<1>3. pc' = pc /\ job' = job /\ calls' = calls
  BY DEF ExpireStaleClaim
<1> QED
  BY <1>2, <1>3, JobsUnchanged, Stayed

LEMMA ApplyFeedbackStep == ASSUME IInv, NEW r \in Request, ApplyFeedback(r) PROVE IInv'
<1>1. PICK e \in Feedback : delivery' = [delivery EXCEPT ![r] = AfterFeedback(delivery[r], e)]
  BY DEF ApplyFeedback
<1>2. IsRow(delivery[r])
  BY DEF ApplyFeedback, IInv, RequestOK
<1>3. KeepsRows
  BY <1>1, <1>2, FeedbackKeeps, OneRow
<1>4. pc' = pc /\ job' = job /\ calls' = calls
  BY DEF ApplyFeedback
<1> QED
  BY <1>3, <1>4, JobsUnchanged, Stayed

LEMMA ElapsedKeeps == ASSUME NEW d, d = NoRow \/ IsRow(d) PROVE Keeps(d, Elapsed(d))
<1>1. CASE d = NoRow
  BY <1>1, SameRowKept DEF Elapsed
<1>2. CASE d # NoRow
  <2> DEFINE e == [d EXCEPT !.lease = Less(@)]
  <2>1. DOMAIN e = DOMAIN d /\ e.attempts = d.attempts /\ e.status = d.status
    BY <1>2 DEF IsRow
  <2>2. Elapsed(d) = e
    BY <1>2 DEF Elapsed
  <2> HIDE DEF e
  <2> QED
    BY <1>2, <2>1, <2>2 DEF Keeps, IsRow, Settled
<1> QED
  BY <1>1, <1>2

LEMMA TickStep == ASSUME IInv, Tick PROVE IInv'
<1>1. KeepsRows
  BY ElapsedKeeps DEF Tick, KeepsRows, IInv, RequestOK
<1>2. ASSUME NEW g \in Call
      PROVE  /\ JobFields \subseteq DOMAIN job'[g]
             /\ job'[g].req = job[g].req
             /\ job'[g].submission = job[g].submission
  <2> DEFINE i == [job[g] EXCEPT !.deadline = Less(@)]
             k == [i EXCEPT !.timeout = Less(@)]
             j == [k EXCEPT !.view = Elapsed(@)]
  <2>1. job'[g] = j
    BY DEF Tick
  <2>2. DOMAIN i = DOMAIN job[g] /\ i.req = job[g].req /\ i.submission = job[g].submission
    BY DEF IInv, JobOK, JobFields
  <2> HIDE DEF i
  <2>3. DOMAIN k = DOMAIN i /\ k.req = i.req /\ k.submission = i.submission
    BY <2>2 DEF IInv, JobOK, JobFields
  <2> HIDE DEF k
  <2>4. DOMAIN j = DOMAIN k /\ j.req = k.req /\ j.submission = k.submission
    BY <2>2, <2>3 DEF IInv, JobOK, JobFields
  <2> HIDE DEF j
  <2> QED
    BY <2>1, <2>2, <2>3, <2>4 DEF IInv, JobOK
<1>3. pc' = pc /\ calls' = calls /\ DOMAIN job' = Call
  BY DEF Tick
<1> QED
  BY <1>1, <1>2, <1>3, Stayed

LEMMA StepIInv == IInv /\ [Next]_vars => IInv'
<1> SUFFICES ASSUME IInv, [Next]_vars PROVE IInv'
  OBVIOUS
<1>1. ASSUME NEW h \in Call, Step(h) PROVE IInv'
  BY <1>1, LookupStep, CreateClaimStep, WaitStep, RefreshStep, AttemptStep, SendStep,
     RespondStep, FinalizeStep, ReadRecordedStep DEF Step
<1>2. ASSUME NEW h \in Call,
             \/ Receive(h) \/ RenderFails(h) \/ FinalizeFails(h)
             \/ Crash(h) \/ CallerGivesUp(h)
      PROVE  IInv'
  BY <1>2, ReceiveStep, RenderFailsStep, FinalizeFailsStep, CrashStep, CallerGivesUpStep
<1>3. ASSUME NEW r \in Request, SesDecides(r) \/ ExpireStaleClaim(r) \/ ApplyFeedback(r)
      PROVE  IInv'
  BY <1>3, SesDecidesStep, ExpireStaleClaimStep, ApplyFeedbackStep
<1>4. CASE UNCHANGED vars
  BY <1>4, RowsUnchanged, JobsUnchanged, Stayed DEF vars, rows
<1> QED
  BY <1>1, <1>2, <1>3, <1>4, DestinationChangesStep, TickStep DEF Next

(* The claim-before-send discipline of submit, which the theorems rest on. *)
THEOREM Invariant == Spec => []IInv
  BY InitIInv, StepIInv, PTL DEF Spec

(* However often a command arrives, whatever crashes and however late SES  *)
(* answers, security-email.service.ts asks it for a request's mail at most *)
(* once: whoever may send has counted its attempt in the row.              *)
THEOREM OneMailPerRequest == Spec => []SentAtMostOnce
<1>1. IInv => SentAtMostOnce
  BY DEF IInv, RequestOK, SentAtMostOnce
<1> QED
  BY <1>1, Invariant, PTL

(* persistProviderOutcome: an outcome SES gave after the lease had ended   *)
(* still replaces the unknown status, and nothing makes it unknown again.  *)
THEOREM LateAnswerCounts == Spec => []LateOutcomeKept
<1>1. IInv => LateOutcomeKept
  BY DEF IInv, CallOK, LateOutcomeKept, Definite, Settled
<1> QED
  BY <1>1, Invariant, PTL
-----------------------------------------------------------------------------
(* What auth is told.  A result, once in the row, stays; it was true when  *)
(* it was written, and nobody submits for a row that was refused.          *)
Refusals == {"FAILED", "REJECTED", "SUPPRESSED"}

ResultTrue(result, s) ==
    /\ result = "ACCEPTED" => s = "accepted"
    /\ result \in Refusals => s \in {"none", "refused"}

OpenWhilePending(d) == d.status = "PENDING" => d.result \notin Refusals

Told(h) == outcome[h] \notin {Unset, "SUBMISSION_UNKNOWN", "CONFLICT"}

RowTrue(r) ==
    /\ calls[r] = 0 => ses[r] = "none"
    /\ IsRow(delivery[r]) =>
         ResultTrue(delivery[r].result, ses[r]) /\ OpenWhilePending(delivery[r])

CallTrue(h) ==
    /\ Claimed(h) => Row(h).command = job[h].command
    /\ Submitting(h) => Row(h).result \notin Refusals
    /\ pc[h] = "finalize" =>
         job[h].submission \in CommandResults /\ ResultTrue(job[h].submission, ses[job[h].req])
    /\ pc[h] = "wait" =>
         /\ IsRow(job[h].view)
         /\ job[h].view.result # Unset => Row(h).result = job[h].view.result
    /\ pc[h] = "idle" => outcome[h] = Unset
    /\ Told(h) => IsRow(Row(h)) /\ Row(h).command = job[h].command /\ Row(h).result = outcome[h]

AnswersInv ==
    /\ DOMAIN outcome = Call /\ DOMAIN ses = Request
    /\ \A r \in Request : RowTrue(r)
    /\ \A h \in Call : CallTrue(h)

(* What every statement does to the answer a row holds.                    *)
Answers(d, e) ==
    IsRow(d) => /\ IsRow(e) /\ e.command = d.command
                /\ d.result # Unset => e.result = d.result
                /\ OpenWhilePending(d) => OpenWhilePending(e)

LEMMA SameAnswers == ASSUME NEW d PROVE Answers(d, d)
  BY DEF Answers

LEMMA ExpiryAnswers ==
    ASSUME NEW d, IsRow(d)
    PROVE  /\ Answers(d, ExpireLease(d))
           /\ ExpireLease(d).result \in {d.result, "SUBMISSION_UNKNOWN"}
<1>1. CASE LeaseExpired(d)
  <2> DEFINE a == [d EXCEPT !.status = "SUBMISSION_UNKNOWN"]
             b == [a EXCEPT !.result = "SUBMISSION_UNKNOWN"]
             e == [b EXCEPT !.lease = NoLease]
  <2>1. DOMAIN a = DOMAIN d /\ a.status = "SUBMISSION_UNKNOWN" /\ a.command = d.command
    BY DEF IsRow
  <2>2. ExpireLease(d) = e /\ d.result = Unset
    BY <1>1 DEF ExpireLease, LeaseExpired
  <2> HIDE DEF a
  <2>3. /\ DOMAIN b = DOMAIN d /\ b.status = "SUBMISSION_UNKNOWN" /\ b.command = d.command
        /\ b.result = "SUBMISSION_UNKNOWN"
    BY <2>1 DEF IsRow
  <2> HIDE DEF b
  <2>4. /\ DOMAIN e = DOMAIN d /\ e.status = "SUBMISSION_UNKNOWN" /\ e.command = d.command
        /\ e.result = "SUBMISSION_UNKNOWN"
    BY <2>3 DEF IsRow
  <2> HIDE DEF e
  <2> QED
    BY <2>2, <2>4 DEF Answers, IsRow, OpenWhilePending
<1>2. CASE ~LeaseExpired(d)
  BY <1>2, SameAnswers DEF ExpireLease
<1> QED
  BY <1>1, <1>2

LEMMA SetResultAnswers ==
    ASSUME NEW d, NEW res, IsRow(d)
    PROVE  LET e == SetCallerResult(d, res) IN
           /\ IsRow(e) /\ e.command = d.command /\ e.status = d.status
           /\ e.result = IF d.result = Unset THEN res ELSE d.result
<1> DEFINE a == [d EXCEPT !.result = res]
           e == [a EXCEPT !.lease = NoLease]
<1>1. /\ DOMAIN a = DOMAIN d /\ a.command = d.command /\ a.status = d.status
      /\ a.result = res
  BY DEF IsRow
<1>2. SetCallerResult(d, res) = IF d.result = Unset THEN e ELSE d
  BY DEF SetCallerResult
<1> HIDE DEF a
<1>3. /\ DOMAIN e = DOMAIN d /\ e.command = d.command /\ e.status = d.status
      /\ e.result = res
  BY <1>1 DEF IsRow
<1> HIDE DEF e
<1> QED
  BY <1>2, <1>3 DEF IsRow

LEMMA OutcomeAnswers ==
    ASSUME NEW d, NEW s \in CommandResults, IsRow(d)
    PROVE  LET e == PersistProviderOutcome(d, s) IN
           IsRow(e) /\ e.command = d.command /\ e.result = d.result /\ e.status # "PENDING"
<1> DEFINE a == [d EXCEPT !.message = @ \/ s = "ACCEPTED"]
           b == [a EXCEPT !.status = s]
           e == [b EXCEPT !.lease = NoLease]
<1>1. /\ DOMAIN a = DOMAIN d /\ a.command = d.command /\ a.result = d.result
      /\ a.status = d.status
  BY DEF IsRow
<1> HIDE DEF a
<1>2. DOMAIN b = DOMAIN d /\ b.command = d.command /\ b.result = d.result /\ b.status = s
  BY <1>1 DEF IsRow
<1>3. PersistProviderOutcome(d, s) = IF d.status \in Replaceable(s) THEN e ELSE a
  BY DEF PersistProviderOutcome, a
<1> HIDE DEF b
<1>4. DOMAIN e = DOMAIN d /\ e.command = d.command /\ e.result = d.result /\ e.status = s
  BY <1>2 DEF IsRow
<1> HIDE DEF e
<1>5. "PENDING" \in Replaceable(s) /\ s # "PENDING"
  BY DEF Replaceable, CommandResults
<1> QED
  BY <1>1, <1>3, <1>4, <1>5 DEF IsRow

LEMMA FinalizeAnswers ==
    ASSUME NEW d, NEW s \in CommandResults, IsRow(d)
    PROVE  LET e == FinalizeSubmission(d, s) IN
           Answers(d, e) /\ e.result = IF d.result = Unset THEN s ELSE d.result
<1> DEFINE t == PersistProviderOutcome(d, s)
<1>1. IsRow(t) /\ t.command = d.command /\ t.result = d.result /\ t.status # "PENDING"
  BY OutcomeAnswers
<1>2. FinalizeSubmission(d, s) = SetCallerResult(t, s)
  BY DEF FinalizeSubmission
<1> HIDE DEF t
<1> QED
  BY <1>1, <1>2, SetResultAnswers DEF Answers, OpenWhilePending

LEMMA FeedbackAnswers ==
    ASSUME NEW d, NEW v, IsRow(d)
    PROVE  LET e == AfterFeedback(d, v) IN
           Answers(d, e) /\ e.result = IF d.result = Unset THEN "ACCEPTED" ELSE d.result
<1> DEFINE a == [d EXCEPT !.message = TRUE]
           t == SetCallerResult(a, "ACCEPTED")
           m == [t EXCEPT !.status = DeliveryStatus(v)]
           n == [m EXCEPT !.last = Revision(v)]
<1>1. IsRow(a) /\ a.command = d.command /\ a.result = d.result /\ a.status = d.status
  BY DEF IsRow
<1>2. AfterFeedback(d, v) \in {t, n}
  BY DEF AfterFeedback, ApplyDeliveryTransition
<1> HIDE DEF a
<1>3. /\ IsRow(t) /\ t.command = d.command /\ t.status = d.status
      /\ t.result = IF d.result = Unset THEN "ACCEPTED" ELSE d.result
  BY <1>1, SetResultAnswers
<1> HIDE DEF t
<1>4. /\ IsRow(m) /\ m.command = t.command /\ m.result = t.result
      /\ m.status = DeliveryStatus(v)
  BY <1>3 DEF IsRow
<1> HIDE DEF m
<1>5. /\ IsRow(n) /\ n.command = t.command /\ n.result = t.result
      /\ n.status = DeliveryStatus(v)
  BY <1>4 DEF IsRow
<1> HIDE DEF n
<1>6. DeliveryStatus(v) # "PENDING"
  BY DEF DeliveryStatus
<1> QED
  BY <1>2, <1>3, <1>5, <1>6 DEF Answers, OpenWhilePending, Refusals
-----------------------------------------------------------------------------
LEMMA InitAnswers == Init => AnswersInv
  BY NoRowIsNone DEF Init, AnswersInv, RowTrue, CallTrue, Claimed, Submitting, Told

(* A row without one gets none, a true new one, or keeps its answer.       *)
RowTold(r) ==
    \/ delivery[r] = NoRow /\ delivery'[r] = NoRow
    \/ /\ IsRow(delivery'[r]) /\ ResultTrue(delivery'[r].result, ses[r])
       /\ Answers(delivery[r], delivery'[r])
       /\ delivery[r] = NoRow => OpenWhilePending(delivery'[r])

LEMMA RowStaysTrue ==
    ASSUME IInv, AnswersInv, NEW r \in Request, RowTold(r), ses'[r] = ses[r], calls'[r] = calls[r]
    PROVE  RowTrue(r)'
<1>1. RowTrue(r) /\ (delivery[r] = NoRow \/ IsRow(delivery[r]))
  BY DEF IInv, RequestOK, AnswersInv
<1> QED
  BY <1>1, NoRowIsNone DEF RowTrue, RowTold, Answers

LEMMA RowsTold ==
    ASSUME IInv, AnswersInv, delivery' = delivery, NEW r \in Request
    PROVE  RowTold(r)
  BY SameAnswers DEF IInv, RequestOK, AnswersInv, RowTrue, RowTold

LEMMA OtherCall ==
    ASSUME IInv, AnswersInv, NEW g \in Call, pc'[g] = pc[g], outcome'[g] = outcome[g],
           job'[g].req = job[g].req, job'[g].command = job[g].command,
           job'[g].submission = job[g].submission,
           pc[g] = "wait" => IsRow(job'[g].view) /\ job'[g].view.result = job[g].view.result,
           pc[g] # "idle" => Answers(Row(g), delivery'[job[g].req]),
           Submitting(g) => delivery'[job[g].req].result \notin Refusals,
           pc[g] = "finalize" =>
             ses'[job[g].req] = ses[job[g].req] \/ ses[job[g].req] = "in flight"
    PROVE  CallTrue(g)'
<1>1. CallTrue(g) /\ CallOK(g)
  BY DEF IInv, AnswersInv
<1>2. CASE pc[g] = "idle"
  BY <1>1, <1>2 DEF CallTrue, Claimed, Submitting, Told
<1> DEFINE d == Row(g)
           e == delivery'[job[g].req]
<1>3. CASE pc[g] # "idle"
  <2>1. Answers(d, e) /\ e = Row(g)'
    BY <1>3 DEF Row
  <2>2. Claimed(g) => IsRow(d) /\ d.command = job[g].command
    BY <1>1 DEF CallTrue, CallOK
  <2>3. Claimed(g) => e.command = job[g].command
    BY <2>1, <2>2 DEF Answers
  <2>4. Told(g) => IsRow(e) /\ e.command = job[g].command /\ e.result = outcome[g]
    BY <1>1, <2>1 DEF CallTrue, Told, Answers
  <2>5. pc[g] = "wait" /\ job[g].view.result # Unset => e.result = job[g].view.result
    BY <1>1, <2>1, <2>2 DEF CallTrue, Answers, Claimed
  <2>6. pc[g] = "finalize" =>
          /\ job[g].submission \in CommandResults
          /\ ResultTrue(job[g].submission, ses'[job[g].req])
    BY <1>1 DEF CallTrue, ResultTrue
  <2> HIDE DEF d, e
  <2>7. Submitting(g) => e.result \notin Refusals
    BY DEF e
  <2> QED
    BY <1>3, <2>1, <2>3, <2>4, <2>5, <2>6, <2>7 DEF CallTrue, Claimed, Submitting, Told
<1> QED
  BY <1>2, <1>3

LEMMA SubmitterOpen ==
    ASSUME AnswersInv, NEW g \in Call, Submitting(g), delivery'[job[g].req] = Row(g)
    PROVE  delivery'[job[g].req].result \notin Refusals
  BY DEF AnswersInv, CallTrue

(* A step of one call that leaves SES alone.                               *)
LEMMA MovedAnswers ==
    ASSUME IInv, AnswersInv, NEW h \in Call, OnlyMoves(h), ses' = ses, calls' = calls,
           DOMAIN outcome' = Call, \A g \in Call \ {h} : outcome'[g] = outcome[g],
           \A r \in Request : RowTold(r),
           \A g \in Call \ {h} :
             Submitting(g) => delivery'[job[g].req].result \notin Refusals,
           CallTrue(h)'
    PROVE  AnswersInv'
<1>1. ASSUME NEW r \in Request PROVE RowTrue(r)'
  BY RowStaysTrue
<1>2. ASSUME NEW g \in Call, g # h PROVE CallTrue(g)'
  <2>1. pc'[g] = pc[g] /\ job'[g] = job[g] /\ outcome'[g] = outcome[g] /\ CallTrue(g)
    BY <1>2 DEF OnlyMoves, AnswersInv
  <2>2. pc[g] # "idle" => Answers(Row(g), delivery'[job[g].req])
    <3> SUFFICES ASSUME pc[g] # "idle" PROVE Answers(Row(g), delivery'[job[g].req])
      OBVIOUS
    <3>1. RowTold(job[g].req)
      BY DEF IInv, JobOK
    <3> QED
      BY <3>1, NoRowIsNone DEF RowTold, Row, Answers
  <2>3. Submitting(g) => delivery'[job[g].req].result \notin Refusals
    BY <1>2
  <2>4. pc[g] = "wait" => IsRow(job'[g].view) /\ job'[g].view.result = job[g].view.result
    BY <2>1 DEF CallTrue
  <2> QED
    BY <2>1, <2>2, <2>3, <2>4, OtherCall
<1> QED
  BY <1>1, <1>2 DEF AnswersInv

LEMMA ResultSet ==
    ASSUME AnswersInv, NEW h \in Call, NEW res, Result(h, res)
    PROVE  /\ DOMAIN outcome' = Call /\ \A g \in Call \ {h} : outcome'[g] = outcome[g]
           /\ outcome'[h] = IF outcome[h] = Unset THEN res ELSE outcome[h]
  BY DEF Result, AnswersInv

LEMMA AnsweredTrue ==
    ASSUME IInv, AnswersInv, NEW h \in Call, pc[h] # "idle", NEW res, NEW saved,
           AnswerSaved(h, res, saved), ses' = ses, calls' = calls,
           \A r \in Request : RowTold(r),
           \A g \in Call \ {h} :
             Submitting(g) => delivery'[job[g].req].result \notin Refusals,
           \/ res \in {"SUBMISSION_UNKNOWN", "CONFLICT"}
           \/ /\ IsRow(delivery'[job[h].req])
              /\ delivery'[job[h].req].command = job[h].command
              /\ delivery'[job[h].req].result = res
    PROVE  AnswersInv'
<1> DEFINE i == [Idle EXCEPT !.req = job[h].req]
           j == [i EXCEPT !.command = job[h].command]
           k == [j EXCEPT !.submission = saved]
<1>1. DOMAIN i = JobFields /\ i.req = job[h].req
  BY DEF Idle, JobFields
<1>2. pc'[h] = "done" /\ OnlyMoves(h) /\ job'[h] = k
  BY DEF AnswerSaved, Goto, Hold, OnlyMoves, IInv, DomainsOK
<1> HIDE DEF i
<1>3. DOMAIN j = JobFields /\ j.req = job[h].req /\ j.command = job[h].command
  BY <1>1 DEF JobFields
<1> HIDE DEF j
<1>4. k.req = job[h].req /\ k.command = job[h].command
  BY <1>3 DEF JobFields
<1> HIDE DEF k
<1>5. /\ DOMAIN outcome' = Call /\ \A g \in Call \ {h} : outcome'[g] = outcome[g]
      /\ outcome'[h] = IF outcome[h] = Unset THEN res ELSE outcome[h]
  BY ResultSet DEF AnswerSaved
<1>6. Told(h)' => /\ IsRow(delivery'[job[h].req])
                  /\ delivery'[job[h].req].command = job[h].command
                  /\ delivery'[job[h].req].result = outcome'[h]
  <2>1. CASE outcome[h] = Unset
    BY <1>5, <2>1 DEF Told
  <2>2. CASE outcome[h] # Unset
    <3>1. Told(h)' => Told(h) /\ outcome'[h] = outcome[h]
      BY <1>5, <2>2 DEF Told
    <3>2. Told(h) => /\ IsRow(Row(h)) /\ Row(h).command = job[h].command
                     /\ Row(h).result = outcome[h]
      BY DEF AnswersInv, CallTrue
    <3>3. Answers(Row(h), delivery'[job[h].req])
      <4>1. RowTold(job[h].req)
        BY DEF IInv, JobOK
      <4> QED
        BY <4>1, NoRowIsNone DEF RowTold, Row, Answers
    <3> QED
      BY <3>1, <3>2, <3>3 DEF Answers, Told
  <2> QED
    BY <2>1, <2>2
<1>7. CallTrue(h)'
  BY <1>2, <1>4, <1>6 DEF CallTrue, Claimed, Submitting, Row
<1> QED
  BY <1>2, <1>5, <1>7, MovedAnswers

(* A step that neither answers nor writes.                                 *)
LEMMA ReadOnlyAnswers ==
    ASSUME IInv, AnswersInv, NEW h \in Call, OnlyMoves(h),
           UNCHANGED <<delivery, outcome, ses, calls>>, CallTrue(h)'
    PROVE  AnswersInv'
<1>1. \A r \in Request : RowTold(r)
  BY RowsTold
<1>2. \A g \in Call \ {h} : Submitting(g) => delivery'[job[g].req].result \notin Refusals
  BY SubmitterOpen DEF Row
<1>3. DOMAIN outcome' = Call /\ \A g \in Call \ {h} : outcome'[g] = outcome[g]
  BY DEF AnswersInv
<1> QED
  BY <1>1, <1>2, <1>3, MovedAnswers

(* A step of one call that writes its row.                                 *)
LEMMA WroteRow ==
    ASSUME IInv, AnswersInv, NEW h \in Call, pc[h] # "idle", NEW d, Write(h, d), IsRow(d),
           Answers(Row(h), d), ResultTrue(d.result, ses[job[h].req]),
           Row(h) = NoRow => OpenWhilePending(d)
    PROVE  /\ \A r \in Request : RowTold(r)
           /\ delivery'[job[h].req] = d
           /\ \A g \in Call : Submitting(g) /\ job[g].req # job[h].req =>
                delivery'[job[g].req].result \notin Refusals
<1>1. job[h].req \in Request /\ DOMAIN delivery = Request
  BY DEF IInv, JobOK, DomainsOK
<1>2. /\ delivery'[job[h].req] = d
      /\ \A r \in Request \ {job[h].req} : delivery'[r] = delivery[r]
  BY <1>1 DEF Write
<1>3. ASSUME NEW r \in Request \ {job[h].req} PROVE RowTold(r)
  BY <1>2, SameAnswers DEF IInv, RequestOK, AnswersInv, RowTrue, RowTold
<1>4. RowTold(job[h].req)
  BY <1>2 DEF RowTold, Row
<1>5. ASSUME NEW g \in Call, Submitting(g), job[g].req # job[h].req
      PROVE  delivery'[job[g].req].result \notin Refusals
  <2>1. job[g].req \in Request \ {job[h].req}
    BY <1>5 DEF IInv, JobOK, Submitting
  <2> QED
    BY <1>2, <1>5, <2>1, SubmitterOpen DEF Row
<1> QED
  BY <1>2, <1>3, <1>4, <1>5
-----------------------------------------------------------------------------
(* A call.                                                                 *)
LEMMA Moves ==
    ASSUME IInv, NEW h \in Call, NEW l, Goto(h, l), NEW j, job' = [job EXCEPT ![h] = j]
    PROVE  OnlyMoves(h) /\ pc'[h] = l /\ job'[h] = j
  BY DEF OnlyMoves, Goto, IInv, DomainsOK

LEMMA MovesOnly ==
    ASSUME IInv, NEW h \in Call, NEW l, Goto(h, l), job' = job
    PROVE  OnlyMoves(h) /\ pc'[h] = l /\ job'[h] = job[h]
  BY DEF OnlyMoves, Goto, IInv, DomainsOK

(* It goes on with the row it had.                                         *)
LEMMA GoesOn ==
    ASSUME IInv, AnswersInv, NEW h \in Call, NEW l,
           Goto(h, l), job' = job, UNCHANGED <<delivery, outcome, ses, calls>>,
           pc[h] # "idle", l \in {"lookup", "create", "recorded"},
           l = "recorded" => Claimed(h)
    PROVE  AnswersInv'
<1>1. OnlyMoves(h) /\ pc'[h] = l /\ job'[h] = job[h]
  BY MovesOnly
<1>2. CallTrue(h)
  BY DEF AnswersInv
<1>3. CallTrue(h)'
  BY <1>1, <1>2 DEF CallTrue, Claimed, Submitting, Told, Row
<1> QED
  BY <1>1, <1>3, ReadOnlyAnswers

LEMMA ReceiveAnswers ==
    ASSUME IInv, AnswersInv, NEW h \in Call, Receive(h) PROVE AnswersInv'
<1>1. PICK r \in Request, c \in Command, b \in Budget :
        job' = [job EXCEPT ![h] = [Idle EXCEPT !.req = r, !.command = c, !.deadline = b]]
  BY DEF Receive, Hold
<1> DEFINE j == [Idle EXCEPT !.req = r, !.command = c, !.deadline = b]
<1>2. job' = [job EXCEPT ![h] = j] /\ Goto(h, "lookup")
  BY <1>1 DEF Receive
<1> HIDE DEF j
<1>3. OnlyMoves(h) /\ pc'[h] = "lookup" /\ outcome' = outcome
  BY <1>2, Moves DEF Receive
<1>4. outcome'[h] = Unset
  BY <1>3 DEF AnswersInv, CallTrue, Receive
<1>5. CallTrue(h)'
  BY <1>3, <1>4 DEF CallTrue, Claimed, Submitting, Told
<1> QED
  BY <1>3, <1>5, ReadOnlyAnswers DEF Receive, rows

LEMMA LookupAnswers ==
    ASSUME IInv, AnswersInv, NEW h \in Call, Lookup(h) PROVE AnswersInv'
<1>1. pc[h] = "lookup" /\ delivery' = delivery /\ ses' = ses /\ calls' = calls
  BY DEF Lookup, rows
<1>2. CASE Row(h) = NoRow
  BY <1>1, <1>2, GoesOn DEF Lookup
<1>3. CASE Row(h) # NoRow
  <2>1. Adopt(h, Row(h)) /\ IsRow(Row(h))
    BY <1>1, <1>3, RowOfCall DEF Lookup
  <2>2. CASE WaitFor(h, Row(h)) /\ Row(h).command = job[h].command /\ Row(h).result = Unset
    <3> DEFINE j == [job[h] EXCEPT !.view = Row(h)]
    <3>1. Goto(h, "wait") /\ job' = [job EXCEPT ![h] = j] /\ outcome' = outcome
      BY <2>2 DEF WaitFor, Hold
    <3>2. j.view = Row(h) /\ j.req = job[h].req /\ j.command = job[h].command
      BY DEF IInv, JobOK, JobFields
    <3> HIDE DEF j
    <3>3. OnlyMoves(h) /\ pc'[h] = "wait" /\ job'[h] = j
      BY <3>1, Moves
    <3>4. CallTrue(h)'
      BY <1>1, <2>1, <2>2, <3>1, <3>2, <3>3
      DEF AnswersInv, CallTrue, Claimed, Submitting, Told, Row
    <3> QED
      BY <1>1, <3>1, <3>3, <3>4, ReadOnlyAnswers
  <2>3. CASE \/ Answer(h, "CONFLICT")
             \/ Answer(h, Row(h).result) /\ Row(h).command = job[h].command
    <3>1. PICK res :
            /\ AnswerSaved(h, res, Unset)
            /\ \/ res = "CONFLICT"
               \/ res = Row(h).result /\ Row(h).command = job[h].command
      BY <2>3 DEF Answer
    <3>2. \A r \in Request : RowTold(r)
      BY <1>1, RowsTold
    <3>3. \A g \in Call \ {h} : Submitting(g) => delivery'[job[g].req].result \notin Refusals
      BY <1>1, SubmitterOpen DEF Row
    <3> QED
      BY <1>1, <2>1, <3>1, <3>2, <3>3, AnsweredTrue DEF Row
  <2> QED
    BY <2>1, <2>2, <2>3 DEF Adopt
<1> QED
  BY <1>2, <1>3

(* A new row is SUPPRESSED only where SES was never asked.                 *)
LEMMA NewRowTrue ==
    ASSUME NEW command, NEW b, NEW lease
    PROVE  LET d == NewDelivery(command, b, lease) IN
           /\ IsRow(d) /\ d.command = command /\ OpenWhilePending(d)
           /\ ResultTrue(d.result, "none")
           /\ ~b => d.result = Unset
  BY DEF NewDelivery, IsRow, OpenWhilePending, ResultTrue, Refusals, Unset

LEMMA CreateClaimAnswers ==
    ASSUME IInv, AnswersInv, NEW h \in Call, CreateClaim(h) PROVE AnswersInv'
<1> DEFINE d == NewDelivery(job[h].command, blocked, Lease)
<1>1. pc[h] = "create" /\ ses' = ses /\ calls' = calls
  BY DEF CreateClaim
<1>2. CASE Row(h) # NoRow
  BY <1>1, <1>2, GoesOn DEF CreateClaim
<1>3. CASE Row(h) = NoRow
  <2>1. /\ Write(h, d)
        /\ Answer(h, d.result) \/ (Goto(h, "attempt") /\ job' = job /\ outcome' = outcome)
    BY <1>3 DEF CreateClaim
  <2>2. /\ IsRow(d) /\ d.command = job[h].command /\ OpenWhilePending(d)
        /\ ResultTrue(d.result, "none")
    BY NewRowTrue
  <2> HIDE DEF d
  <2>3. ses[job[h].req] = "none"
    <3>1. job[h].req \in Request
      BY <1>1 DEF IInv, JobOK
    <3>2. calls[job[h].req] = 0
      BY <1>3, <3>1, NoRowIsNone DEF IInv, RequestOK, Row
    <3> QED
      BY <3>1, <3>2 DEF AnswersInv, RowTrue
  <2>4. Answers(Row(h), d)
    BY <1>3, NoRowIsNone DEF Answers
  <2>5. /\ \A r \in Request : RowTold(r)
        /\ delivery'[job[h].req] = d
        /\ \A g \in Call : Submitting(g) /\ job[g].req # job[h].req =>
             delivery'[job[g].req].result \notin Refusals
    BY <1>1, <2>1, <2>2, <2>3, <2>4, WroteRow
  <2>6. \A g \in Call : Submitting(g) => job[g].req # job[h].req
    BY <1>3, NoRowIsNone DEF IInv, CallOK, Claimed, Submitting, Row
  <2>7. CASE Answer(h, d.result)
    BY <1>1, <2>2, <2>5, <2>6, <2>7, AnsweredTrue DEF Answer
  <2>8. CASE Goto(h, "attempt") /\ job' = job /\ outcome' = outcome
    <3>1. OnlyMoves(h) /\ pc'[h] = "attempt" /\ job'[h] = job[h]
      BY <2>8, MovesOnly
    <3>2. ~Told(h)
      BY <1>3, NoRowIsNone DEF AnswersInv, CallTrue
    <3>3. CallTrue(h)'
      BY <2>2, <2>5, <2>8, <3>1, <3>2 DEF CallTrue, Claimed, Submitting, Told, Row
    <3> QED
      BY <1>1, <2>5, <2>6, <2>8, <3>1, <3>3, MovedAnswers DEF AnswersInv
  <2> QED
    BY <2>1, <2>7, <2>8
<1> QED
  BY <1>2, <1>3

LEMMA ExpiryTold ==
    ASSUME IInv, AnswersInv, NEW r \in Request, IsRow(delivery[r]),
           delivery'[r] = ExpireLease(delivery[r])
    PROVE  RowTold(r) /\ (delivery[r].result \notin Refusals => delivery'[r].result \notin Refusals)
<1>1. /\ Answers(delivery[r], delivery'[r]) /\ IsRow(delivery'[r])
      /\ delivery'[r].result \in {delivery[r].result, "SUBMISSION_UNKNOWN"}
  BY ExpiryAnswers DEF Answers
<1>2. ResultTrue(delivery[r].result, ses[r])
  BY DEF AnswersInv, RowTrue
<1> QED
  BY <1>1, <1>2, NoRowIsNone DEF RowTold, ResultTrue, Refusals

LEMMA WaitAnswers ==
    ASSUME IInv, AnswersInv, NEW h \in Call, Wait(h) PROVE AnswersInv'
<1> DEFINE d == job[h].view
<1>1. /\ pc[h] = "wait" /\ ses' = ses /\ calls' = calls /\ IsRow(Row(h))
      /\ Row(h).command = job[h].command
      /\ d.result # Unset => Row(h).result = d.result
  BY DEF Wait, IInv, CallOK, Claimed, AnswersInv, CallTrue
<1>2. CASE delivery' = delivery /\ \E res : /\ Answer(h, res)
                                           /\ res \in {"SUBMISSION_UNKNOWN", Row(h).result}
  <2>1. PICK res : AnswerSaved(h, res, Unset) /\ res \in {"SUBMISSION_UNKNOWN", Row(h).result}
    BY <1>2 DEF Answer
  <2>2. \A r \in Request : RowTold(r)
    BY <1>2, RowsTold
  <2>3. \A g \in Call \ {h} : Submitting(g) => delivery'[job[g].req].result \notin Refusals
    BY <1>2, SubmitterOpen DEF Row
  <2> QED
    BY <1>1, <1>2, <2>1, <2>2, <2>3, AnsweredTrue DEF Row
<1>3. CASE /\ Goto(h, "refresh") /\ job' = job /\ outcome' = outcome
           /\ Write(h, ExpireLease(Row(h))) \/ delivery' = delivery
  <2>1. OnlyMoves(h) /\ pc'[h] = "refresh" /\ job'[h] = job[h]
    BY <1>3, MovesOnly
  <2>2. CASE delivery' = delivery
    <3>1. CallTrue(h)'
      BY <1>1, <1>3, <2>1, <2>2 DEF AnswersInv, CallTrue, Claimed, Submitting, Told, Row
    <3> QED
      BY <1>1, <1>3, <2>1, <2>2, <3>1, ReadOnlyAnswers
  <2>3. CASE Write(h, ExpireLease(Row(h)))
    <3>1. job[h].req \in Request /\ DOMAIN delivery = Request
      BY <1>1 DEF IInv, JobOK, DomainsOK
    <3>2. /\ delivery'[job[h].req] = ExpireLease(delivery[job[h].req])
          /\ \A r \in Request \ {job[h].req} : delivery'[r] = delivery[r]
      BY <2>3, <3>1 DEF Write, Row
    <3>3. /\ RowTold(job[h].req)
          /\ Row(h).result \notin Refusals => delivery'[job[h].req].result \notin Refusals
          /\ Answers(Row(h), delivery'[job[h].req])
      BY <1>1, <3>1, <3>2, ExpiryTold, ExpiryAnswers DEF Row
    <3>4. ASSUME NEW r \in Request PROVE RowTold(r)
      BY <3>2, <3>3, SameAnswers DEF IInv, RequestOK, AnswersInv, RowTrue, RowTold
    <3>5. ASSUME NEW g \in Call, Submitting(g)
          PROVE  delivery'[job[g].req].result \notin Refusals
      <4>1. Row(g).result \notin Refusals /\ job[g].req \in Request
        BY <3>5 DEF AnswersInv, CallTrue, IInv, JobOK, Submitting
      <4> QED
        BY <3>2, <3>3, <4>1 DEF Row
    <3>6. CallTrue(h)'
      BY <1>1, <1>3, <2>1, <3>3 DEF AnswersInv, CallTrue, Claimed, Submitting, Told, Row, Answers
    <3> QED
      BY <1>1, <1>3, <2>1, <3>4, <3>5, <3>6, MovedAnswers DEF AnswersInv
  <2> QED
    BY <1>3, <2>2, <2>3
<1> QED
  BY <1>1, <1>2, <1>3 DEF Wait
LEMMA RefreshAnswers ==
    ASSUME IInv, AnswersInv, NEW h \in Call, Refresh(h) PROVE AnswersInv'
<1> DEFINE j == [job[h] EXCEPT !.view = Row(h)]
<1>1. /\ pc[h] = "refresh" /\ UNCHANGED <<delivery, outcome, ses, calls>>
      /\ Goto(h, "wait") /\ job' = [job EXCEPT ![h] = j]
  BY DEF Refresh, ReadAgain, Hold, rows
<1>2. j.view = Row(h) /\ j.req = job[h].req /\ j.command = job[h].command
  BY DEF IInv, JobOK, JobFields
<1>3. IsRow(Row(h)) /\ CallTrue(h)
  BY <1>1 DEF IInv, CallOK, Claimed, AnswersInv
<1> HIDE DEF j
<1>4. OnlyMoves(h) /\ pc'[h] = "wait" /\ job'[h] = j
  BY <1>1, Moves
<1>5. CallTrue(h)'
  BY <1>1, <1>2, <1>3, <1>4 DEF CallTrue, Claimed, Submitting, Told, Row
<1> QED
  BY <1>1, <1>4, <1>5, ReadOnlyAnswers

LEMMA AttemptAnswers ==
    ASSUME IInv, AnswersInv, NEW h \in Call, Attempt(h) PROVE AnswersInv'
<1>1. /\ pc[h] = "attempt" /\ job' = job /\ UNCHANGED <<outcome, ses, calls>>
      /\ IsRow(Row(h)) /\ CallTrue(h) /\ job[h].req \in Request
  BY DEF Attempt, IInv, CallOK, Claimed, AnswersInv, JobOK
<1>2. CASE MayAttempt(Row(h))
  <2> DEFINE d == [Row(h) EXCEPT !.attempts = 1]
  <2>1. /\ DOMAIN d = DOMAIN Row(h) /\ d.status = "PENDING" /\ Row(h).status = "PENDING"
        /\ d.command = Row(h).command /\ d.result = Row(h).result /\ Row(h).attempts = 0
    BY <1>1, <1>2 DEF IsRow, MayAttempt
  <2>2. Write(h, d) /\ Goto(h, "send")
    BY <1>2 DEF Attempt
  <2> HIDE DEF d
  <2>3. RowTrue(job[h].req)
    BY <1>1 DEF AnswersInv
  <2>4. /\ ResultTrue(d.result, ses[job[h].req]) /\ d.result \notin Refusals
        /\ IsRow(d) /\ Answers(Row(h), d)
    BY <1>1, <2>1, <2>3 DEF RowTrue, OpenWhilePending, Answers, IsRow, Row
  <2>5. /\ \A r \in Request : RowTold(r)
        /\ delivery'[job[h].req] = d
        /\ \A g \in Call : Submitting(g) /\ job[g].req # job[h].req =>
             delivery'[job[g].req].result \notin Refusals
    BY <1>1, <2>2, <2>4, NoRowIsNone, WroteRow
  <2>6. \A g \in Call : Submitting(g) => job[g].req # job[h].req
    BY <2>1 DEF IInv, CallOK, Row
  <2>7. OnlyMoves(h) /\ pc'[h] = "send" /\ job'[h] = job[h]
    BY <1>1, <2>2, MovesOnly
  <2>8. CallTrue(h)'
    BY <1>1, <2>1, <2>4, <2>5, <2>7 DEF CallTrue, Claimed, Submitting, Told, Row
  <2> QED
    BY <1>1, <2>5, <2>6, <2>7, <2>8, MovedAnswers DEF AnswersInv
<1>3. CASE ~MayAttempt(Row(h))
  BY <1>1, <1>3, GoesOn DEF Attempt, Claimed
<1> QED
  BY <1>2, <1>3

(* The submission ends with what is true of SES.                           *)
LEMMA Submitted ==
    ASSUME IInv, AnswersInv, NEW h \in Call, Submitting(h), Goto(h, "finalize"),
           NEW j, job' = [job EXCEPT ![h] = j], j.req = job[h].req, j.command = job[h].command,
           j.submission \in CommandResults, ResultTrue(j.submission, ses[job[h].req]),
           UNCHANGED <<delivery, outcome, ses, calls>>
    PROVE  AnswersInv'
<1>1. OnlyMoves(h) /\ pc'[h] = "finalize" /\ job'[h] = j
  BY Moves
<1>2. CallTrue(h)
  BY DEF AnswersInv
<1>3. CallTrue(h)'
  BY <1>1, <1>2 DEF CallTrue, Claimed, Submitting, Told, Row
<1> QED
  BY <1>1, <1>3, ReadOnlyAnswers

LEMMA RenderFailsAnswers ==
    ASSUME IInv, AnswersInv, NEW h \in Call, RenderFails(h) PROVE AnswersInv'
<1> DEFINE j == [job[h] EXCEPT !.submission = "FAILED"]
<1>1. j.req = job[h].req /\ j.command = job[h].command /\ j.submission = "FAILED"
  BY DEF IInv, JobOK, JobFields
<1>2. /\ job' = [job EXCEPT ![h] = j] /\ Goto(h, "finalize")
      /\ UNCHANGED <<delivery, outcome, ses, calls>>
  BY DEF RenderFails, Hold, rows
<1> HIDE DEF j
<1>3. Submitting(h) /\ ses[job[h].req] = "none"
  BY DEF RenderFails, Submitting, IInv, CallOK, JobOK, AnswersInv, RowTrue
<1> QED
  BY <1>1, <1>2, <1>3, Submitted DEF CommandResults, ResultTrue

LEMMA RespondAnswers ==
    ASSUME IInv, AnswersInv, NEW h \in Call, Respond(h) PROVE AnswersInv'
<1>1. PICK response \in Responses(ses[job[h].req]) :
        job' = [job EXCEPT ![h] =
                 [job[h] EXCEPT !.submission = Classify(response), !.timeout = 0]]
  BY DEF Respond, Hold
<1>2. Classify(response) \in CommandResults /\ ResultTrue(Classify(response), ses[job[h].req])
  BY DEF Classify, Responses, CommandResults, ResultTrue, Refusals
<1> DEFINE k == [job[h] EXCEPT !.submission = Classify(response)]
           j == [k EXCEPT !.timeout = 0]
<1>3. /\ DOMAIN k = DOMAIN job[h] /\ k.req = job[h].req /\ k.command = job[h].command
      /\ k.submission = Classify(response)
  BY DEF IInv, JobOK, JobFields
<1>4. job' = [job EXCEPT ![h] = j]
  BY <1>1
<1> HIDE DEF k
<1>5. j.req = job[h].req /\ j.command = job[h].command /\ j.submission = Classify(response)
  BY <1>3 DEF IInv, JobOK, JobFields
<1> HIDE DEF j
<1>6. Submitting(h) /\ Goto(h, "finalize") /\ UNCHANGED <<delivery, outcome, ses, calls>>
  BY DEF Respond, Submitting, rows
<1> QED
  BY <1>2, <1>4, <1>5, <1>6, Submitted

LEMMA FinalizeFailsAnswers ==
    ASSUME IInv, AnswersInv, NEW h \in Call, FinalizeFails(h) PROVE AnswersInv'
<1>1. /\ pc[h] # "idle" /\ Claimed(h) /\ Goto(h, "recorded") /\ job' = job
      /\ UNCHANGED <<delivery, outcome, ses, calls>>
  BY DEF FinalizeFails, Claimed, rows
<1> QED
  BY <1>1, GoesOn

(* SES is asked where it was never asked: nothing was told of it.          *)
LEMMA SendAnswers ==
    ASSUME IInv, AnswersInv, NEW h \in Call, Send(h) PROVE AnswersInv'
<1> DEFINE j == [job[h] EXCEPT !.timeout = SesTimeout]
<1>1. j.req = job[h].req /\ j.command = job[h].command /\ j.submission = job[h].submission
  BY DEF IInv, JobOK, JobFields
<1>2. PICK r \in Request : r = job[h].req
  BY DEF IInv, JobOK, Send
<1>3. /\ pc[h] = "send" /\ Goto(h, "sending") /\ job' = [job EXCEPT ![h] = j]
      /\ delivery' = delivery /\ outcome' = outcome
  BY DEF Send, Hold, rows
<1>4. ses' = [ses EXCEPT ![r] = "in flight"] /\ calls' = [calls EXCEPT ![r] = calls[r] + 1]
  BY <1>2 DEF Send
<1> HIDE DEF j
<1>5. OnlyMoves(h) /\ pc'[h] = "sending" /\ job'[h] = j
  BY <1>3, Moves
<1>6. CallTrue(h) /\ Submitting(h) /\ RowTrue(r)
  BY <1>3 DEF AnswersInv, Submitting
<1>7. IsRow(delivery[r]) /\ calls[r] = 0 /\ ses[r] = "none"
  BY <1>2, <1>3, <1>6 DEF IInv, CallOK, RowTrue, Submitting, Claimed, Row
<1>8. delivery[r].result \notin Refusals /\ delivery[r].result # "ACCEPTED"
  BY <1>2, <1>6, <1>7 DEF CallTrue, RowTrue, ResultTrue, Row
<1>9. calls'[r] # 0
  <2>1. calls'[r] = calls[r] + 1
    BY <1>4 DEF IInv, DomainsOK
  <2> QED
    BY <1>7, <2>1
<1>10. /\ DOMAIN ses' = Request /\ ses'[r] = "in flight"
       /\ \A q \in Request \ {r} : ses'[q] = ses[q] /\ calls'[q] = calls[q]
  BY <1>4 DEF IInv, DomainsOK, AnswersInv
<1>11. ASSUME NEW q \in Request PROVE RowTrue(q)'
  <2>1. CASE q = r
    <3>1. calls'[q] # 0
      BY <1>9, <2>1
    <3>2. ResultTrue(delivery'[q].result, ses'[q])
      BY <1>3, <1>8, <1>10, <2>1 DEF ResultTrue
    <3>3. OpenWhilePending(delivery'[q])
      BY <1>3, <1>6, <1>7, <2>1 DEF RowTrue
    <3> QED
      BY <3>1, <3>2, <3>3 DEF RowTrue
  <2>2. CASE q # r
    <3>1. RowTrue(q)
      BY DEF AnswersInv
    <3> QED
      BY <1>3, <1>10, <2>2, <3>1 DEF RowTrue
  <2> QED
    BY <2>1, <2>2
<1>12. CallTrue(h)'
  BY <1>1, <1>3, <1>5, <1>6 DEF CallTrue, Claimed, Submitting, Told, Row
<1>13. ASSUME NEW g \in Call, g # h PROVE CallTrue(g)'
  <2>1. pc'[g] = pc[g] /\ job'[g] = job[g] /\ outcome'[g] = outcome[g] /\ CallTrue(g)
    BY <1>3, <1>5, <1>13 DEF OnlyMoves, AnswersInv
  <2>2. Answers(Row(g), delivery'[job[g].req])
    BY <1>3, SameAnswers DEF Row
  <2>3. Submitting(g) => delivery'[job[g].req].result \notin Refusals
    BY <1>3, <2>1 DEF CallTrue, Row
  <2>4. pc[g] = "finalize" => ses'[job[g].req] = ses[job[g].req]
    BY <1>2, <1>6, <1>10, <1>13 DEF IInv, Exclusive, Submitting, JobOK
  <2>5. pc[g] = "wait" => IsRow(job'[g].view) /\ job'[g].view.result = job[g].view.result
    BY <2>1 DEF CallTrue
  <2> QED
    BY <2>1, <2>2, <2>3, <2>4, <2>5, OtherCall
<1> QED
  BY <1>3, <1>10, <1>11, <1>12, <1>13 DEF AnswersInv

LEMMA FinalizeAnswersTrue ==
    ASSUME IInv, AnswersInv, NEW h \in Call, Finalize(h) PROVE AnswersInv'
<1> DEFINE s == job[h].submission
           d == FinalizeSubmission(Row(h), s)
<1>1. /\ pc[h] = "finalize" /\ Write(h, d) /\ AnswerSaved(h, d.result, s)
      /\ ses' = ses /\ calls' = calls
  BY DEF Finalize
<1>2. /\ s \in CommandResults /\ ResultTrue(s, ses[job[h].req]) /\ IsRow(Row(h))
      /\ Row(h).command = job[h].command /\ Submitting(h) /\ job[h].req \in Request
  BY <1>1 DEF IInv, JobOK, CallOK, Claimed, AnswersInv, CallTrue, Submitting
<1>3. Answers(Row(h), d) /\ d.result = IF Row(h).result = Unset THEN s ELSE Row(h).result
  BY <1>2, FinalizeAnswers
<1> HIDE DEF d, s
<1>4. RowTrue(job[h].req)
  BY <1>2 DEF AnswersInv
<1>5. IsRow(d) /\ d.command = job[h].command /\ ResultTrue(d.result, ses[job[h].req])
  BY <1>2, <1>3, <1>4 DEF Answers, RowTrue, Row
<1>6. /\ \A r \in Request : RowTold(r)
      /\ delivery'[job[h].req] = d
      /\ \A g \in Call : Submitting(g) /\ job[g].req # job[h].req =>
           delivery'[job[g].req].result \notin Refusals
  BY <1>1, <1>2, <1>3, <1>5, NoRowIsNone, WroteRow
<1>7. \A g \in Call \ {h} : Submitting(g) => job[g].req # job[h].req
  BY <1>2 DEF IInv, Exclusive
<1> QED
  BY <1>1, <1>5, <1>6, <1>7, AnsweredTrue

LEMMA ReadRecordedAnswers ==
    ASSUME IInv, AnswersInv, NEW h \in Call, ReadRecordedResult(h) PROVE AnswersInv'
<1>1. /\ pc[h] = "recorded" /\ delivery' = delivery /\ ses' = ses /\ calls' = calls
      /\ IsRow(Row(h)) /\ Row(h).command = job[h].command
  BY DEF ReadRecordedResult, rows, IInv, CallOK, Claimed, AnswersInv, CallTrue
<1>2. PICK res : /\ AnswerSaved(h, res, Unset)
                 /\ res \in {"SUBMISSION_UNKNOWN", Row(h).result}
  BY DEF ReadRecordedResult, Answer
<1>3. \A r \in Request : RowTold(r)
  BY <1>1, RowsTold
<1>4. \A g \in Call \ {h} : Submitting(g) => delivery'[job[g].req].result \notin Refusals
  BY <1>1, SubmitterOpen DEF Row
<1> QED
  BY <1>1, <1>2, <1>3, <1>4, AnsweredTrue DEF Row

LEMMA CrashAnswers ==
    ASSUME IInv, AnswersInv, NEW h \in Call, Crash(h) PROVE AnswersInv'
<1> DEFINE k == [Idle EXCEPT !.req = job[h].req]
           j == [k EXCEPT !.command = job[h].command]
<1>1. DOMAIN k = JobFields /\ k.req = job[h].req
  BY DEF Idle, JobFields
<1>2. /\ job' = [job EXCEPT ![h] = j] /\ Goto(h, "dead")
      /\ delivery' = delivery /\ ses' = ses /\ calls' = calls
  BY DEF Crash, Hold, rows
<1> HIDE DEF k
<1>3. j.req = job[h].req /\ j.command = job[h].command
  BY <1>1 DEF JobFields
<1> HIDE DEF j
<1>4. OnlyMoves(h) /\ pc'[h] = "dead" /\ job'[h] = j
  BY <1>2, Moves
<1>5. /\ DOMAIN outcome' = Call /\ \A g \in Call \ {h} : outcome'[g] = outcome[g]
      /\ outcome'[h] = IF outcome[h] = Unset THEN "SUBMISSION_UNKNOWN" ELSE outcome[h]
  BY ResultSet DEF Crash
<1>6. Told(h)' => Told(h) /\ outcome'[h] = outcome[h]
  BY <1>5 DEF Told
<1>7. CallTrue(h)'
  BY <1>2, <1>3, <1>4, <1>6 DEF AnswersInv, CallTrue, Claimed, Submitting, Row
<1>8. \A r \in Request : RowTold(r)
  BY <1>2, RowsTold
<1>9. \A g \in Call \ {h} : Submitting(g) => delivery'[job[g].req].result \notin Refusals
  BY <1>2, SubmitterOpen DEF Row
<1> QED
  BY <1>2, <1>4, <1>5, <1>7, <1>8, <1>9, MovedAnswers
-----------------------------------------------------------------------------
(* The others, and time.                                                   *)
LEMMA StayedAnswers ==
    ASSUME IInv, AnswersInv, pc' = pc, outcome' = outcome,
           \A g \in Call :
             /\ job'[g].req = job[g].req /\ job'[g].command = job[g].command
             /\ job'[g].submission = job[g].submission
             /\ pc[g] = "wait" => IsRow(job'[g].view) /\ job'[g].view.result = job[g].view.result,
           \A r \in Request : RowTrue(r)',
           \A r \in Request :
             /\ Answers(delivery[r], delivery'[r])
             /\ delivery[r].result \notin Refusals => delivery'[r].result \notin Refusals
             /\ ses'[r] = ses[r] \/ ses[r] = "in flight",
           DOMAIN ses' = Request
    PROVE  AnswersInv'
<1>1. ASSUME NEW g \in Call PROVE CallTrue(g)'
  <2>1. CallTrue(g) /\ (pc[g] # "idle" => job[g].req \in Request)
    BY DEF AnswersInv, IInv, JobOK
  <2>2. pc[g] # "idle" => Answers(Row(g), delivery'[job[g].req])
    BY <2>1 DEF Row
  <2>3. Submitting(g) => delivery'[job[g].req].result \notin Refusals
    BY <2>1 DEF CallTrue, Row, Submitting
  <2>4. pc[g] = "finalize" =>
          ses'[job[g].req] = ses[job[g].req] \/ ses[job[g].req] = "in flight"
    BY <2>1
  <2> QED
    BY <2>2, <2>3, <2>4, OtherCall
<1> QED
  BY <1>1 DEF AnswersInv

LEMMA JobsStay ==
    ASSUME IInv, AnswersInv, job' = job, NEW g \in Call
    PROVE  /\ job'[g].req = job[g].req /\ job'[g].command = job[g].command
           /\ job'[g].submission = job[g].submission
           /\ pc[g] = "wait" => IsRow(job'[g].view) /\ job'[g].view.result = job[g].view.result
  BY DEF AnswersInv, CallTrue

LEMMA CallerGivesUpAnswers ==
    ASSUME IInv, AnswersInv, NEW h \in Call, CallerGivesUp(h) PROVE AnswersInv'
<1>1. /\ pc' = pc /\ job' = job /\ delivery' = delivery /\ ses' = ses /\ calls' = calls
      /\ pc[h] # "idle"
  BY DEF CallerGivesUp, Running, rows
<1>2. /\ DOMAIN outcome' = Call /\ \A g \in Call \ {h} : outcome'[g] = outcome[g]
      /\ outcome'[h] = "SUBMISSION_UNKNOWN"
  BY DEF CallerGivesUp, Result, AnswersInv
<1>3. OnlyMoves(h) /\ CallTrue(h)
  BY <1>1 DEF OnlyMoves, IInv, DomainsOK, AnswersInv
<1>4. CallTrue(h)'
  BY <1>1, <1>2, <1>3 DEF CallTrue, Claimed, Submitting, Told, Row
<1>5. \A r \in Request : RowTold(r)
  BY <1>1, RowsTold
<1>6. \A g \in Call \ {h} : Submitting(g) => delivery'[job[g].req].result \notin Refusals
  BY <1>1, SubmitterOpen DEF Row
<1> QED
  BY <1>1, <1>2, <1>3, <1>4, <1>5, <1>6, MovedAnswers

LEMMA SesDecidesAnswers ==
    ASSUME IInv, AnswersInv, NEW r \in Request, SesDecides(r) PROVE AnswersInv'
<1>1. PICK s \in {"accepted", "refused"} : ses' = [ses EXCEPT ![r] = s]
  BY DEF SesDecides
<1>2. /\ ses[r] = "in flight" /\ DOMAIN ses' = Request /\ ses'[r] = s
      /\ \A q \in Request \ {r} : ses'[q] = ses[q]
  BY <1>1 DEF SesDecides, AnswersInv
<1>3. pc' = pc /\ job' = job /\ delivery' = delivery /\ outcome' = outcome /\ calls' = calls
  BY DEF SesDecides, rows
<1>4. ASSUME NEW q \in Request PROVE RowTrue(q)'
  <2>1. RowTrue(q)
    BY DEF AnswersInv
  <2>2. CASE q = r
    <3>1. calls[q] # 0
      BY <1>2, <2>1, <2>2 DEF RowTrue
    <3> QED
      BY <1>2, <1>3, <2>1, <2>2, <3>1 DEF RowTrue, ResultTrue
  <2>3. CASE q # r
    BY <1>2, <1>3, <2>1, <2>3 DEF RowTrue
  <2> QED
    BY <2>2, <2>3
<1> QED
  BY <1>2, <1>3, <1>4, JobsStay, SameAnswers, StayedAnswers

LEMMA OnlyRow ==
    ASSUME IInv, AnswersInv, NEW r \in Request, NEW d, delivery' = [delivery EXCEPT ![r] = d],
           IsRow(delivery[r]), Answers(delivery[r], d), ResultTrue(d.result, ses[r]),
           delivery[r].result \notin Refusals => d.result \notin Refusals,
           UNCHANGED <<pc, job, outcome, ses, calls>>
    PROVE  AnswersInv'
<1>1. delivery'[r] = d /\ \A q \in Request \ {r} : delivery'[q] = delivery[q]
  BY DEF IInv, DomainsOK
<1>2. ASSUME NEW q \in Request PROVE RowTrue(q)'
  <2>1. RowTrue(q)
    BY DEF AnswersInv
  <2>2. CASE q = r
    BY <1>1, <2>1, <2>2 DEF RowTrue, Answers
  <2>3. CASE q # r
    BY <1>1, <2>1, <2>3 DEF RowTrue
  <2> QED
    BY <2>2, <2>3
<1>3. \A q \in Request : Answers(delivery[q], delivery'[q])
  BY <1>1, SameAnswers
<1> QED
  BY <1>1, <1>2, <1>3, JobsStay, StayedAnswers DEF AnswersInv

LEMMA ExpireStaleClaimAnswers ==
    ASSUME IInv, AnswersInv, NEW r \in Request, ExpireStaleClaim(r) PROVE AnswersInv'
<1> DEFINE d == ExpireLease(delivery[r])
<1>1. IsRow(delivery[r]) /\ RowTrue(r)
  BY DEF ExpireStaleClaim, IInv, RequestOK, AnswersInv
<1>2. delivery' = [delivery EXCEPT ![r] = d] /\ UNCHANGED <<pc, job, outcome, ses, calls>>
  BY DEF ExpireStaleClaim
<1>3. Answers(delivery[r], d) /\ d.result \in {delivery[r].result, "SUBMISSION_UNKNOWN"}
  BY <1>1, ExpiryAnswers
<1> HIDE DEF d
<1>4. /\ ResultTrue(d.result, ses[r])
      /\ delivery[r].result \notin Refusals => d.result \notin Refusals
  BY <1>1, <1>3 DEF RowTrue, ResultTrue, Refusals
<1> QED
  BY <1>1, <1>2, <1>3, <1>4, OnlyRow

LEMMA ApplyFeedbackAnswers ==
    ASSUME IInv, AnswersInv, NEW r \in Request, ApplyFeedback(r) PROVE AnswersInv'
<1>1. PICK e \in Feedback : delivery' = [delivery EXCEPT ![r] = AfterFeedback(delivery[r], e)]
  BY DEF ApplyFeedback
<1> DEFINE d == AfterFeedback(delivery[r], e)
<1>2. IsRow(delivery[r]) /\ RowTrue(r) /\ ses[r] = "accepted"
  BY DEF ApplyFeedback, IInv, RequestOK, AnswersInv
<1>3. delivery' = [delivery EXCEPT ![r] = d] /\ UNCHANGED <<pc, job, outcome, ses, calls>>
  BY <1>1 DEF ApplyFeedback
<1>4. /\ Answers(delivery[r], d)
      /\ d.result = IF delivery[r].result = Unset THEN "ACCEPTED" ELSE delivery[r].result
  BY <1>2, FeedbackAnswers
<1> HIDE DEF d
<1>5. /\ ResultTrue(d.result, ses[r])
      /\ delivery[r].result \notin Refusals => d.result \notin Refusals
  BY <1>2, <1>4 DEF RowTrue, ResultTrue, Refusals
<1> QED
  BY <1>2, <1>3, <1>4, <1>5, OnlyRow

LEMMA ElapsedAnswers ==
    ASSUME NEW d, d = NoRow \/ IsRow(d)
    PROVE  LET e == Elapsed(d) IN
           /\ d = NoRow => e = NoRow
           /\ IsRow(d) => /\ IsRow(e) /\ e.result = d.result /\ e.command = d.command
                          /\ e.status = d.status
<1>1. CASE d = NoRow
  BY <1>1, NoRowIsNone DEF Elapsed
<1>2. CASE d # NoRow
  <2> DEFINE e == [d EXCEPT !.lease = Less(@)]
  <2>1. /\ DOMAIN e = DOMAIN d /\ e.command = d.command /\ e.status = d.status
        /\ e.result = d.result
    BY <1>2 DEF IsRow
  <2>2. Elapsed(d) = e
    BY <1>2 DEF Elapsed
  <2> HIDE DEF e
  <2> QED
    BY <1>2, <2>1, <2>2 DEF IsRow
<1> QED
  BY <1>1, <1>2

LEMMA TickAnswers == ASSUME IInv, AnswersInv, Tick PROVE AnswersInv'
<1>1. ASSUME NEW g \in Call
      PROVE  /\ job'[g].req = job[g].req /\ job'[g].command = job[g].command
             /\ job'[g].submission = job[g].submission
             /\ pc[g] = "wait" => IsRow(job'[g].view) /\ job'[g].view.result = job[g].view.result
  <2> DEFINE i == [job[g] EXCEPT !.deadline = Less(@)]
             k == [i EXCEPT !.timeout = Less(@)]
             j == [k EXCEPT !.view = Elapsed(@)]
  <2>1. job'[g] = j
    BY DEF Tick
  <2>2. /\ DOMAIN i = DOMAIN job[g] /\ i.req = job[g].req /\ i.submission = job[g].submission
        /\ i.command = job[g].command /\ i.view = job[g].view
    BY DEF IInv, JobOK, JobFields
  <2> HIDE DEF i
  <2>3. /\ DOMAIN k = DOMAIN i /\ k.req = i.req /\ k.submission = i.submission
        /\ k.command = i.command /\ k.view = i.view
    BY <2>2 DEF IInv, JobOK, JobFields
  <2> HIDE DEF k
  <2>4. /\ j.req = k.req /\ j.submission = k.submission
        /\ j.command = k.command /\ j.view = Elapsed(k.view)
    BY <2>2, <2>3 DEF IInv, JobOK, JobFields
  <2> HIDE DEF j
  <2>5. pc[g] = "wait" => IsRow(job[g].view)
    BY DEF AnswersInv, CallTrue
  <2> QED
    BY <2>1, <2>2, <2>3, <2>4, <2>5, ElapsedAnswers
<1>2. ASSUME NEW r \in Request
      PROVE  /\ RowTrue(r)'
             /\ Answers(delivery[r], delivery'[r])
             /\ delivery[r].result \notin Refusals => delivery'[r].result \notin Refusals
  <2>1. /\ delivery'[r] = Elapsed(delivery[r]) /\ calls' = calls /\ ses' = ses
        /\ RowTrue(r) /\ (delivery[r] = NoRow \/ IsRow(delivery[r]))
    BY DEF Tick, AnswersInv, IInv, RequestOK
  <2>2. CASE delivery[r] = NoRow
    BY <2>1, <2>2, ElapsedAnswers, SameAnswers DEF RowTrue
  <2>3. CASE IsRow(delivery[r])
    BY <2>1, <2>3, ElapsedAnswers DEF RowTrue, Answers, OpenWhilePending
  <2> QED
    BY <2>1, <2>2, <2>3
<1>3. pc' = pc /\ outcome' = outcome /\ ses' = ses /\ DOMAIN ses' = Request
  BY DEF Tick, AnswersInv
<1> QED
  BY <1>1, <1>2, <1>3, StayedAnswers

LEMMA NothingTold ==
    ASSUME IInv, AnswersInv, UNCHANGED <<delivery, pc, job, outcome, ses, calls>>
    PROVE  AnswersInv'
<1>1. \A r \in Request : RowTrue(r)'
  BY DEF AnswersInv, RowTrue
<1>2. \A r \in Request : Answers(delivery[r], delivery'[r])
  BY SameAnswers
<1> QED
  BY <1>1, <1>2, JobsStay, StayedAnswers DEF AnswersInv

LEMMA StepAnswers == IInv /\ AnswersInv /\ [Next]_vars => AnswersInv'
<1> SUFFICES ASSUME IInv, AnswersInv, [Next]_vars PROVE AnswersInv'
  OBVIOUS
<1>1. ASSUME NEW h \in Call, Step(h) PROVE AnswersInv'
  BY <1>1, LookupAnswers, CreateClaimAnswers, WaitAnswers, RefreshAnswers, AttemptAnswers,
     SendAnswers, RespondAnswers, FinalizeAnswersTrue, ReadRecordedAnswers DEF Step
<1>2. ASSUME NEW h \in Call,
             \/ Receive(h) \/ RenderFails(h) \/ FinalizeFails(h)
             \/ Crash(h) \/ CallerGivesUp(h)
      PROVE  AnswersInv'
  BY <1>2, ReceiveAnswers, RenderFailsAnswers, FinalizeFailsAnswers, CrashAnswers,
     CallerGivesUpAnswers
<1>3. ASSUME NEW r \in Request, SesDecides(r) \/ ExpireStaleClaim(r) \/ ApplyFeedback(r)
      PROVE  AnswersInv'
  BY <1>3, SesDecidesAnswers, ExpireStaleClaimAnswers, ApplyFeedbackAnswers
<1>4. CASE DestinationChanges
  BY <1>4, NothingTold DEF DestinationChanges
<1>5. CASE UNCHANGED vars
  BY <1>5, NothingTold DEF vars, rows
<1> QED
  BY <1>1, <1>2, <1>3, <1>4, <1>5, TickAnswers DEF Next

(* A result once recorded stays and was true of SES when it was written.   *)
THEOREM Truthful == Spec => []AnswersInv
  BY Invariant, InitAnswers, StepAnswers, PTL DEF Spec
-----------------------------------------------------------------------------
(* Types.                                                                  *)
LEMMA LeaseNat == Lease \in Nat /\ NoLease \in NoLease..Lease
  BY SecurityEmailAssumption DEF Lease, NoLease

LEMMA Except ==
    ASSUME NEW d \in Delivery
    PROVE  /\ \A x \in DeliveryStatuses : [d EXCEPT !.status = x] \in Delivery
           /\ \A x \in CommandResults \cup {Unset} : [d EXCEPT !.result = x] \in Delivery
           /\ \A x \in NoLease..Lease : [d EXCEPT !.lease = x] \in Delivery
           /\ \A x \in BOOLEAN : [d EXCEPT !.message = x] \in Delivery
           /\ \A e \in Feedback : [d EXCEPT !.last = Revision(e)] \in Delivery
           /\ [d EXCEPT !.attempts = 1] \in Delivery
  BY DEF Delivery

LEMMA NewRowType ==
    ASSUME NEW c \in Command, NEW b \in BOOLEAN PROVE NewDelivery(c, b, Lease) \in Delivery
  BY LeaseNat DEF NewDelivery, Delivery, DeliveryStatuses, CommandResults, NoLease

LEMMA ExpiryType == ASSUME NEW d \in Delivery PROVE ExpireLease(d) \in Delivery
<1> DEFINE a == [d EXCEPT !.status = "SUBMISSION_UNKNOWN"]
           b == [a EXCEPT !.result = "SUBMISSION_UNKNOWN"]
           e == [b EXCEPT !.lease = NoLease]
<1>1. a \in Delivery
  BY Except DEF DeliveryStatuses, CommandResults
<1>2. ExpireLease(d) \in {d, e}
  BY DEF ExpireLease
<1> HIDE DEF a
<1>3. b \in Delivery
  BY <1>1, Except DEF CommandResults
<1> HIDE DEF b
<1>4. e \in Delivery
  BY <1>3, Except, LeaseNat
<1> HIDE DEF e
<1> QED
  BY <1>2, <1>4

LEMMA ResultType ==
    ASSUME NEW d \in Delivery, NEW s \in CommandResults PROVE SetCallerResult(d, s) \in Delivery
<1> DEFINE b == [d EXCEPT !.result = s]
           e == [b EXCEPT !.lease = NoLease]
<1>1. b \in Delivery
  BY Except
<1>2. SetCallerResult(d, s) \in {d, e}
  BY DEF SetCallerResult
<1> HIDE DEF b
<1>3. e \in Delivery
  BY <1>1, Except, LeaseNat
<1> HIDE DEF e
<1> QED
  BY <1>2, <1>3

LEMMA OutcomeType ==
    ASSUME NEW d \in Delivery, NEW s \in CommandResults
    PROVE  FinalizeSubmission(d, s) \in Delivery
<1> DEFINE x == d.message \/ s = "ACCEPTED"
           a == [d EXCEPT !.message = x]
           b == [a EXCEPT !.status = s]
           e == [b EXCEPT !.lease = NoLease]
<1>1. x \in BOOLEAN
  BY DEF Delivery
<1>2. PersistProviderOutcome(d, s) \in {a, e}
  BY DEF PersistProviderOutcome
<1> HIDE DEF x
<1>3. a \in Delivery
  BY <1>1, Except
<1> HIDE DEF a
<1>4. b \in Delivery
  BY <1>3, Except DEF DeliveryStatuses
<1> HIDE DEF b
<1>5. e \in Delivery
  BY <1>4, Except, LeaseNat
<1> HIDE DEF e
<1> QED
  BY <1>2, <1>3, <1>5, ResultType DEF FinalizeSubmission

LEMMA FeedbackType ==
    ASSUME NEW d \in Delivery, NEW v \in Feedback PROVE AfterFeedback(d, v) \in Delivery
<1> DEFINE a == [d EXCEPT !.message = TRUE]
           t == SetCallerResult(a, "ACCEPTED")
           m == [t EXCEPT !.status = DeliveryStatus(v)]
           n == [m EXCEPT !.last = Revision(v)]
<1>1. a \in Delivery
  BY Except
<1>2. AfterFeedback(d, v) \in {t, n}
  BY DEF AfterFeedback, ApplyDeliveryTransition
<1> HIDE DEF a
<1>3. t \in Delivery
  BY <1>1, ResultType DEF CommandResults
<1> HIDE DEF t
<1>4. m \in Delivery
  <2>1. DeliveryStatus(v) \in DeliveryStatuses
    BY DEF DeliveryStatus, DeliveryStatuses, CommandResults
  <2> QED
    BY <1>3, <2>1, Except
<1> HIDE DEF m
<1>5. n \in Delivery
  BY <1>4, Except
<1> HIDE DEF n
<1> QED
  BY <1>2, <1>3, <1>5

LEMMA ElapsedType ==
    ASSUME NEW d, d = NoRow \/ d \in Delivery PROVE Elapsed(d) = NoRow \/ Elapsed(d) \in Delivery
<1>1. CASE d = NoRow
  BY <1>1 DEF Elapsed
<1>2. CASE d # NoRow
  <2> DEFINE x == Less(d.lease)
             e == [d EXCEPT !.lease = x]
  <2>1. d \in Delivery /\ d.lease \in NoLease..Lease
    BY <1>2 DEF Delivery
  <2>2. x \in NoLease..Lease
    BY <2>1, LeaseNat DEF Less, NoLease
  <2>3. Elapsed(d) = e
    BY <1>2 DEF Elapsed
  <2> HIDE DEF x
  <2> QED
    BY <2>1, <2>2, <2>3, Except
<1> QED
  BY <1>1, <1>2

PcType == {"idle", "lookup", "create", "wait", "refresh", "attempt", "send",
           "sending", "finalize", "recorded", "done", "dead"}
Deadline == {Forever} \cup Nat

JobTypeOf(j, l) ==
    /\ j.deadline \in Deadline /\ j.timeout \in 0..SesTimeout
    /\ j.submission \in CommandResults \cup {Unset}
    /\ l # "idle" => j.command \in Command
    /\ l = "finalize" => j.submission \in CommandResults
    /\ l = "wait" => j.view.result \in CommandResults \cup {Unset}

JobType(h) == JobTypeOf(job[h], pc[h])

RowType(r) == delivery[r] = NoRow \/ delivery[r] \in Delivery

OutcomeOf == CommandResults \cup {Unset, "CONFLICT"}
SesType == {"none", "in flight", "accepted", "refused"}

TInv ==
    /\ \A r \in Request : RowType(r)
    /\ blocked \in BOOLEAN /\ pc \in [Call -> PcType]
    /\ \A h \in Call : JobType(h)
    /\ outcome \in [Call -> OutcomeOf] /\ ses \in [Request -> SesType]
    /\ calls \in [Request -> Nat]

LEMMA InitTypes == Init => TInv
<1> SUFFICES ASSUME Init PROVE TInv
  OBVIOUS
<1>1. ASSUME NEW h \in Call PROVE JobType(h)
  <2>1. 0 \in Deadline /\ 0 \in 0..SesTimeout
    BY SecurityEmailAssumption DEF Deadline
  <2>2. job[h] = Idle /\ pc[h] = "idle"
    BY DEF Init
  <2>3. Idle.deadline = 0 /\ Idle.timeout = 0 /\ Idle.submission = Unset
    BY DEF Idle
  <2> QED
    BY <2>1, <2>2, <2>3 DEF JobType, JobTypeOf
<1>2. \A r \in Request : RowType(r)
  BY DEF Init, RowType
<1>3. /\ blocked \in BOOLEAN /\ pc \in [Call -> PcType]
      /\ outcome \in [Call -> OutcomeOf] /\ ses \in [Request -> SesType]
  BY DEF Init, PcType, OutcomeOf, SesType
<1>4. calls \in [Request -> Nat]
  BY DEF Init
<1> QED
  BY <1>1, <1>2, <1>3, <1>4 DEF TInv

LEMMA TypedMove ==
    ASSUME IInv, TInv, NEW h \in Call, NEW l \in PcType, Goto(h, l),
           NEW j, job' = [job EXCEPT ![h] = j] \/ (job' = job /\ j = job[h]), JobTypeOf(j, l),
           outcome' = outcome \/ \E res \in OutcomeOf : Result(h, res),
           \A r \in Request : RowType(r)',
           blocked' = blocked, ses' \in [Request -> SesType], calls' \in [Request -> Nat]
    PROVE  TInv'
<1>1. OnlyMoves(h) /\ pc'[h] = l /\ job'[h] = j
  BY Moves, MovesOnly
<1>2. ASSUME NEW g \in Call PROVE JobType(g)'
  <2>1. CASE g = h
    BY <1>1, <2>1 DEF JobType
  <2>2. CASE g # h
    <3>1. pc'[g] = pc[g] /\ job'[g] = job[g] /\ JobType(g)
      BY <1>1, <2>2 DEF OnlyMoves, TInv
    <3> QED
      BY <3>1 DEF JobType, JobTypeOf
  <2> QED
    BY <2>1, <2>2
<1>3. pc' \in [Call -> PcType] /\ blocked' \in BOOLEAN
  BY DEF Goto, TInv
<1>4. outcome' \in [Call -> OutcomeOf]
  BY DEF Result, TInv
<1> QED
  BY <1>2, <1>3, <1>4 DEF TInv

LEMMA TypedGo ==
    ASSUME IInv, TInv, NEW h \in Call, NEW l \in PcType \ {"finalize", "wait"}, Goto(h, l),
           pc[h] # "idle", job' = job, outcome' = outcome,
           \A r \in Request : RowType(r)', blocked' = blocked, ses' = ses, calls' = calls
    PROVE  TInv'
<1>1. JobTypeOf(job[h], l)
  BY DEF TInv, JobType, JobTypeOf
<1>2. ses' \in [Request -> SesType] /\ calls' \in [Request -> Nat]
  BY DEF TInv
<1> QED
  BY <1>1, <1>2, TypedMove

LEMMA TypedAnswer ==
    ASSUME IInv, TInv, NEW h \in Call, pc[h] # "idle", NEW res \in OutcomeOf,
           NEW saved \in CommandResults \cup {Unset}, AnswerSaved(h, res, saved),
           \A r \in Request : RowType(r)', blocked' = blocked, ses' = ses, calls' = calls
    PROVE  TInv'
<1> DEFINE i == [Idle EXCEPT !.req = job[h].req]
           k == [i EXCEPT !.command = job[h].command]
           j == [k EXCEPT !.submission = saved]
<1>1. /\ Goto(h, "done") /\ Result(h, res) /\ job' = [job EXCEPT ![h] = j]
  BY DEF AnswerSaved, Hold
<1>2. DOMAIN i = JobFields /\ i.deadline = 0 /\ i.timeout = 0
  BY DEF Idle, JobFields
<1> HIDE DEF i
<1>3. DOMAIN k = JobFields /\ k.deadline = 0 /\ k.timeout = 0 /\ k.command = job[h].command
  BY <1>2 DEF JobFields
<1> HIDE DEF k
<1>4. j.deadline = 0 /\ j.timeout = 0 /\ j.command = job[h].command /\ j.submission = saved
  BY <1>3 DEF JobFields
<1> HIDE DEF j
<1>5. 0 \in Deadline /\ 0 \in 0..SesTimeout
  BY SecurityEmailAssumption DEF Deadline
<1>6. job[h].command \in Command
  BY DEF TInv, JobType, JobTypeOf
<1>7. JobTypeOf(j, "done")
  BY <1>4, <1>5, <1>6 DEF JobTypeOf
<1>8. ses' \in [Request -> SesType] /\ calls' \in [Request -> Nat] /\ "done" \in PcType
  BY DEF TInv, PcType
<1> QED
  BY <1>1, <1>7, <1>8, TypedMove

LEMMA RowsSame == ASSUME TInv, delivery' = delivery PROVE \A r \in Request : RowType(r)'
  BY DEF TInv, RowType

LEMMA RowChanged ==
    ASSUME IInv, TInv, NEW r \in Request, NEW d \in Delivery,
           delivery' = [delivery EXCEPT ![r] = d]
    PROVE  \A q \in Request : RowType(q)'
  BY DEF TInv, RowType, IInv, DomainsOK

LEMMA RowTyped ==
    ASSUME IInv, TInv, NEW h \in Call, pc[h] # "idle"
    PROVE  /\ job[h].req \in Request /\ JobFields \subseteq DOMAIN job[h]
           /\ JobTypeOf(job[h], pc[h])
           /\ Row(h) # NoRow => /\ Row(h) \in Delivery
                                /\ Row(h).result \in CommandResults \cup {Unset}
           /\ Claimed(h) => Row(h) # NoRow
  BY NoRowIsNone DEF IInv, JobOK, CallOK, TInv, JobType, RowType, Row, Delivery

(* Each action.                                                            *)
LEMMA ReceiveTypes == ASSUME IInv, TInv, NEW h \in Call, Receive(h) PROVE TInv'
<1>1. PICK r \in Request, c \in Command, b \in Budget :
        job' = [job EXCEPT ![h] = [Idle EXCEPT !.req = r, !.command = c, !.deadline = b]]
  BY DEF Receive, Hold
<1> DEFINE i == [Idle EXCEPT !.req = r]
           k == [i EXCEPT !.command = c]
           j == [k EXCEPT !.deadline = b]
<1>2. job' = [job EXCEPT ![h] = j] /\ Goto(h, "lookup")
  BY <1>1 DEF Receive
<1>3. DOMAIN i = JobFields /\ i.timeout = 0 /\ i.submission = Unset
  BY DEF Idle, JobFields
<1> HIDE DEF i
<1>4. DOMAIN k = JobFields /\ k.timeout = 0 /\ k.submission = Unset /\ k.command = c
  BY <1>3 DEF JobFields
<1> HIDE DEF k
<1>5. j.deadline = b /\ j.timeout = 0 /\ j.command = c /\ j.submission = Unset
  BY <1>4 DEF JobFields
<1> HIDE DEF j
<1>6. b \in Deadline /\ 0 \in 0..SesTimeout
  BY SecurityEmailAssumption DEF Deadline
<1>7. JobTypeOf(j, "lookup") /\ "lookup" \in PcType
  BY <1>5, <1>6 DEF JobTypeOf, PcType
<1>8. /\ ses' \in [Request -> SesType] /\ calls' \in [Request -> Nat]
      /\ outcome' = outcome /\ blocked' = blocked /\ delivery' = delivery
  BY DEF TInv, Receive, rows
<1> QED
  BY <1>2, <1>7, <1>8, RowsSame, TypedMove

(* The call takes a copy of its row.                                       *)
LEMMA CopyTypes ==
    ASSUME IInv, TInv, NEW h \in Call, pc[h] # "idle", Row(h) # NoRow, Goto(h, "wait"),
           Hold(h, [job[h] EXCEPT !.view = Row(h)]), UNCHANGED <<rows, outcome, ses, calls>>
    PROVE  TInv'
<1> DEFINE j == [job[h] EXCEPT !.view = Row(h)]
<1>1. JobFields \subseteq DOMAIN job[h] /\ JobTypeOf(job[h], pc[h])
  BY RowTyped
<1>2. /\ j.deadline = job[h].deadline /\ j.timeout = job[h].timeout
      /\ j.command = job[h].command /\ j.submission = job[h].submission /\ j.view = Row(h)
  BY <1>1 DEF JobFields
<1>3. job' = [job EXCEPT ![h] = j]
  BY DEF Hold
<1> HIDE DEF j
<1>4. JobTypeOf(j, "wait") /\ "wait" \in PcType
  BY <1>1, <1>2, RowTyped DEF JobTypeOf, PcType
<1>5. /\ ses' \in [Request -> SesType] /\ calls' \in [Request -> Nat]
      /\ outcome' = outcome /\ blocked' = blocked /\ delivery' = delivery
  BY DEF TInv, rows
<1> QED
  BY <1>3, <1>4, <1>5, RowsSame, TypedMove

LEMMA LookupTypes == ASSUME IInv, TInv, NEW h \in Call, Lookup(h) PROVE TInv'
<1>1. pc[h] = "lookup" /\ UNCHANGED <<rows, ses, calls>> /\ delivery' = delivery
      /\ blocked' = blocked /\ ses' = ses /\ calls' = calls
  BY DEF Lookup, rows
<1>2. CASE Row(h) = NoRow
  BY <1>1, <1>2, RowsSame, TypedGo DEF Lookup, PcType
<1>3. CASE Row(h) # NoRow
  <2>1. Adopt(h, Row(h))
    BY <1>3 DEF Lookup
  <2>2. CASE WaitFor(h, Row(h))
    BY <1>1, <1>3, <2>2, CopyTypes DEF WaitFor
  <2>3. CASE Answer(h, "CONFLICT") \/ Answer(h, Row(h).result)
    <3>1. PICK res : AnswerSaved(h, res, Unset) /\ (res = "CONFLICT" \/ res = Row(h).result)
      BY <2>3 DEF Answer
    <3>2. res \in OutcomeOf
      BY <1>1, <1>3, <3>1, RowTyped DEF OutcomeOf
    <3> QED
      BY <1>1, <3>1, <3>2, RowsSame, TypedAnswer
  <2> QED
    BY <2>1, <2>2, <2>3 DEF Adopt
<1> QED
  BY <1>2, <1>3

LEMMA CreateClaimTypes == ASSUME IInv, TInv, NEW h \in Call, CreateClaim(h) PROVE TInv'
<1> DEFINE d == NewDelivery(job[h].command, blocked, Lease)
<1>1. /\ pc[h] = "create" /\ blocked' = blocked /\ ses' = ses /\ calls' = calls
  BY DEF CreateClaim
<1>2. d \in Delivery
  <2>1. job[h].command \in Command /\ blocked \in BOOLEAN
    BY <1>1 DEF TInv, JobType, JobTypeOf
  <2> QED
    BY <2>1, NewRowType
<1>3. CASE Row(h) # NoRow
  BY <1>1, <1>3, RowsSame, TypedGo DEF CreateClaim, PcType
<1>4. CASE Row(h) = NoRow
  <2>1. /\ Write(h, d)
        /\ Answer(h, d.result) \/ (Goto(h, "attempt") /\ job' = job /\ outcome' = outcome)
    BY <1>4 DEF CreateClaim
  <2> HIDE DEF d
  <2>2. \A r \in Request : RowType(r)'
    BY <1>1, <1>2, <2>1, RowTyped, RowChanged DEF Write
  <2>3. d.result \in OutcomeOf
    BY <1>2 DEF Delivery, OutcomeOf
  <2>4. CASE Answer(h, d.result)
    BY <1>1, <2>2, <2>3, <2>4, TypedAnswer DEF Answer
  <2>5. CASE Goto(h, "attempt") /\ job' = job /\ outcome' = outcome
    BY <1>1, <2>2, <2>5, TypedGo DEF PcType
  <2> QED
    BY <2>1, <2>4, <2>5
<1> QED
  BY <1>3, <1>4

LEMMA WaitTypes == ASSUME IInv, TInv, NEW h \in Call, Wait(h) PROVE TInv'
<1>1. /\ pc[h] = "wait" /\ blocked' = blocked /\ ses' = ses /\ calls' = calls
      /\ job[h].view.result \in CommandResults \cup {Unset}
      /\ job[h].req \in Request /\ Row(h) \in Delivery
  BY RowTyped DEF Wait, JobTypeOf, Claimed
<1>2. CASE delivery' = delivery /\ \E res : /\ Answer(h, res)
                                           /\ res \in {"SUBMISSION_UNKNOWN", job[h].view.result}
  <2>1. PICK res : AnswerSaved(h, res, Unset) /\ res \in {"SUBMISSION_UNKNOWN", job[h].view.result}
    BY <1>2 DEF Answer
  <2>2. res \in OutcomeOf
    BY <1>1, <2>1 DEF OutcomeOf, CommandResults
  <2> QED
    BY <1>1, <1>2, <2>1, <2>2, RowsSame, TypedAnswer
<1>3. CASE /\ Goto(h, "refresh") /\ job' = job /\ outcome' = outcome
           /\ Write(h, ExpireLease(Row(h))) \/ delivery' = delivery
  <2>1. \A r \in Request : RowType(r)'
    BY <1>1, <1>3, ExpiryType, RowChanged, RowsSame DEF Write
  <2> QED
    BY <1>1, <1>3, <2>1, TypedGo DEF PcType
<1> QED
  BY <1>1, <1>2, <1>3 DEF Wait

LEMMA RefreshTypes == ASSUME IInv, TInv, NEW h \in Call, Refresh(h) PROVE TInv'
  BY RowTyped, CopyTypes DEF Refresh, ReadAgain, Claimed

LEMMA AttemptTypes == ASSUME IInv, TInv, NEW h \in Call, Attempt(h) PROVE TInv'
<1>1. /\ pc[h] = "attempt" /\ blocked' = blocked /\ ses' = ses /\ calls' = calls
      /\ job' = job /\ outcome' = outcome /\ job[h].req \in Request /\ Row(h) \in Delivery
  BY RowTyped DEF Attempt, Claimed
<1>2. CASE MayAttempt(Row(h))
  <2> DEFINE d == [Row(h) EXCEPT !.attempts = 1]
  <2>1. d \in Delivery /\ Write(h, d) /\ Goto(h, "send")
    BY <1>1, <1>2, Except DEF Attempt
  <2> HIDE DEF d
  <2>2. \A r \in Request : RowType(r)'
    BY <1>1, <2>1, RowChanged DEF Write
  <2> QED
    BY <1>1, <2>1, <2>2, TypedGo DEF PcType
<1>3. CASE ~MayAttempt(Row(h))
  BY <1>1, <1>3, RowsSame, TypedGo DEF Attempt, PcType
<1> QED
  BY <1>2, <1>3

LEMMA RenderFailsTypes == ASSUME IInv, TInv, NEW h \in Call, RenderFails(h) PROVE TInv'
<1> DEFINE j == [job[h] EXCEPT !.submission = "FAILED"]
<1>1. JobFields \subseteq DOMAIN job[h] /\ JobTypeOf(job[h], "send")
  BY RowTyped DEF RenderFails
<1>2. /\ j.deadline = job[h].deadline /\ j.timeout = job[h].timeout
      /\ j.command = job[h].command /\ j.submission = "FAILED"
  BY <1>1 DEF JobFields
<1>3. job' = [job EXCEPT ![h] = j]
  BY DEF RenderFails, Hold
<1> HIDE DEF j
<1>4. JobTypeOf(j, "finalize") /\ "finalize" \in PcType
  BY <1>1, <1>2 DEF JobTypeOf, PcType, CommandResults
<1>5. /\ ses' \in [Request -> SesType] /\ calls' \in [Request -> Nat] /\ Goto(h, "finalize")
      /\ outcome' = outcome /\ blocked' = blocked /\ delivery' = delivery
  BY DEF TInv, RenderFails, rows
<1> QED
  BY <1>3, <1>4, <1>5, RowsSame, TypedMove

LEMMA SendTypes == ASSUME IInv, TInv, NEW h \in Call, Send(h) PROVE TInv'
<1> DEFINE j == [job[h] EXCEPT !.timeout = SesTimeout]
<1>1. JobFields \subseteq DOMAIN job[h] /\ JobTypeOf(job[h], "send") /\ job[h].req \in Request
  BY RowTyped DEF Send
<1>2. /\ j.deadline = job[h].deadline /\ j.timeout = SesTimeout
      /\ j.command = job[h].command /\ j.submission = job[h].submission
  BY <1>1 DEF JobFields
<1>3. job' = [job EXCEPT ![h] = j]
  BY DEF Send, Hold
<1> HIDE DEF j
<1>4. SesTimeout \in 0..SesTimeout
  BY SecurityEmailAssumption
<1>5. JobTypeOf(j, "sending") /\ "sending" \in PcType
  BY <1>1, <1>2, <1>4 DEF JobTypeOf, PcType
<1>6. ses' \in [Request -> SesType]
  BY <1>1 DEF TInv, Send, SesType
<1>7. calls' \in [Request -> Nat]
  <2>1. PICK r \in Request : r = job[h].req
    BY <1>1
  <2>2. calls' = [calls EXCEPT ![r] = calls[r] + 1] /\ calls \in [Request -> Nat]
    BY <2>1 DEF TInv, Send
  <2>3. calls[r] + 1 \in Nat
    BY <2>2
  <2> QED
    BY <2>2, <2>3
<1>8. Goto(h, "sending") /\ outcome' = outcome /\ blocked' = blocked /\ delivery' = delivery
  BY DEF Send, rows
<1> QED
  BY <1>3, <1>5, <1>6, <1>7, <1>8, RowsSame, TypedMove

LEMMA RespondTypes == ASSUME IInv, TInv, NEW h \in Call, Respond(h) PROVE TInv'
<1>1. PICK response \in Responses(ses[job[h].req]) :
        job' = [job EXCEPT ![h] =
                 [job[h] EXCEPT !.submission = Classify(response), !.timeout = 0]]
  BY DEF Respond, Hold
<1> DEFINE k == [job[h] EXCEPT !.submission = Classify(response)]
           j == [k EXCEPT !.timeout = 0]
<1>2. JobFields \subseteq DOMAIN job[h] /\ JobTypeOf(job[h], "sending")
  BY RowTyped DEF Respond
<1>3. job' = [job EXCEPT ![h] = j]
  BY <1>1
<1>4. /\ JobFields \subseteq DOMAIN k /\ k.deadline = job[h].deadline
      /\ k.command = job[h].command /\ k.submission = Classify(response)
  BY <1>2 DEF JobFields
<1> HIDE DEF k
<1>5. /\ j.deadline = job[h].deadline /\ j.timeout = 0
      /\ j.command = job[h].command /\ j.submission = Classify(response)
  BY <1>4 DEF JobFields
<1> HIDE DEF j
<1>6. Classify(response) \in CommandResults
  BY DEF Classify, CommandResults
<1>7. 0 \in 0..SesTimeout
  BY SecurityEmailAssumption
<1>8. JobTypeOf(j, "finalize") /\ "finalize" \in PcType
  BY <1>2, <1>5, <1>6, <1>7 DEF JobTypeOf, PcType
<1>9. /\ ses' \in [Request -> SesType] /\ calls' \in [Request -> Nat] /\ Goto(h, "finalize")
      /\ outcome' = outcome /\ blocked' = blocked /\ delivery' = delivery
  BY DEF TInv, Respond, rows
<1> QED
  BY <1>3, <1>8, <1>9, RowsSame, TypedMove

LEMMA FinalizeTypes == ASSUME IInv, TInv, NEW h \in Call, Finalize(h) PROVE TInv'
<1> DEFINE s == job[h].submission
           d == FinalizeSubmission(Row(h), s)
<1>1. /\ pc[h] = "finalize" /\ Write(h, d) /\ AnswerSaved(h, d.result, s)
      /\ blocked' = blocked /\ ses' = ses /\ calls' = calls
  BY DEF Finalize
<1>2. s \in CommandResults /\ job[h].req \in Request /\ Row(h) \in Delivery
  BY <1>1, RowTyped DEF JobTypeOf, Claimed
<1>3. d \in Delivery
  BY <1>2, OutcomeType
<1> HIDE DEF d, s
<1>4. \A r \in Request : RowType(r)'
  BY <1>1, <1>2, <1>3, RowChanged DEF Write
<1>5. d.result \in OutcomeOf
  BY <1>3 DEF Delivery, OutcomeOf
<1> QED
  BY <1>1, <1>2, <1>4, <1>5, TypedAnswer

LEMMA FinalizeFailsTypes == ASSUME IInv, TInv, NEW h \in Call, FinalizeFails(h) PROVE TInv'
<1>1. /\ pc[h] = "finalize" /\ Goto(h, "recorded") /\ UNCHANGED <<job, outcome, ses, calls>>
      /\ delivery' = delivery /\ blocked' = blocked
  BY DEF FinalizeFails, rows
<1> QED
  BY <1>1, RowsSame, TypedGo DEF PcType

LEMMA ReadRecordedTypes ==
    ASSUME IInv, TInv, NEW h \in Call, ReadRecordedResult(h) PROVE TInv'
<1>1. /\ pc[h] = "recorded" /\ delivery' = delivery /\ blocked' = blocked
      /\ ses' = ses /\ calls' = calls
      /\ Row(h).result \in CommandResults \cup {Unset}
  BY RowTyped DEF ReadRecordedResult, rows, Claimed
<1>2. PICK res : AnswerSaved(h, res, Unset) /\ res \in {"SUBMISSION_UNKNOWN", Row(h).result}
  BY DEF ReadRecordedResult, Answer
<1>3. res \in OutcomeOf
  BY <1>1, <1>2 DEF OutcomeOf, CommandResults
<1> QED
  BY <1>1, <1>2, <1>3, RowsSame, TypedAnswer

LEMMA CrashTypes == ASSUME IInv, TInv, NEW h \in Call, Crash(h) PROVE TInv'
<1> DEFINE i == [Idle EXCEPT !.req = job[h].req]
           j == [i EXCEPT !.command = job[h].command]
<1>1. DOMAIN i = JobFields /\ i.deadline = 0 /\ i.timeout = 0 /\ i.submission = Unset
  BY DEF Idle, JobFields
<1>2. job' = [job EXCEPT ![h] = j] /\ Goto(h, "dead") /\ Result(h, "SUBMISSION_UNKNOWN")
  BY DEF Crash, Hold
<1> HIDE DEF i
<1>3. j.deadline = 0 /\ j.timeout = 0 /\ j.command = job[h].command /\ j.submission = Unset
  BY <1>1 DEF JobFields
<1> HIDE DEF j
<1>4. 0 \in Deadline /\ 0 \in 0..SesTimeout
  BY SecurityEmailAssumption DEF Deadline
<1>5. job[h].command \in Command
  BY DEF TInv, JobType, JobTypeOf, Crash, Running
<1>6. JobTypeOf(j, "dead") /\ "dead" \in PcType /\ "SUBMISSION_UNKNOWN" \in OutcomeOf
  BY <1>3, <1>4, <1>5 DEF JobTypeOf, PcType, OutcomeOf, CommandResults
<1>7. /\ ses' \in [Request -> SesType] /\ calls' \in [Request -> Nat]
      /\ blocked' = blocked /\ delivery' = delivery
  BY DEF TInv, Crash, rows
<1> QED
  BY <1>2, <1>6, <1>7, RowsSame, TypedMove

(* The calls stay.                                                         *)
LEMMA TypedStay ==
    ASSUME TInv, UNCHANGED <<pc, job>>, \A r \in Request : RowType(r)', blocked' \in BOOLEAN,
           outcome' \in [Call -> OutcomeOf], ses' \in [Request -> SesType], calls' = calls
    PROVE  TInv'
  BY DEF TInv, JobType, JobTypeOf

LEMMA CallerGivesUpTypes == ASSUME TInv, NEW h \in Call, CallerGivesUp(h) PROVE TInv'
<1>1. outcome' \in [Call -> OutcomeOf]
  BY DEF CallerGivesUp, Result, TInv, OutcomeOf, CommandResults
<1>2. /\ UNCHANGED <<pc, job>> /\ delivery' = delivery /\ blocked' \in BOOLEAN
      /\ ses' \in [Request -> SesType] /\ calls' = calls
  BY DEF CallerGivesUp, rows, TInv
<1> QED
  BY <1>1, <1>2, RowsSame, TypedStay

LEMMA SesDecidesTypes == ASSUME TInv, NEW r \in Request, SesDecides(r) PROVE TInv'
<1>1. ses' \in [Request -> SesType]
  BY DEF SesDecides, TInv, SesType
<1>2. /\ UNCHANGED <<pc, job>> /\ delivery' = delivery /\ blocked' \in BOOLEAN
      /\ outcome' \in [Call -> OutcomeOf] /\ calls' = calls
  BY DEF SesDecides, rows, TInv
<1> QED
  BY <1>1, <1>2, RowsSame, TypedStay

LEMMA ExpireStaleClaimTypes ==
    ASSUME IInv, TInv, NEW r \in Request, ExpireStaleClaim(r) PROVE TInv'
<1>1. delivery[r] \in Delivery /\ delivery' = [delivery EXCEPT ![r] = ExpireLease(delivery[r])]
  BY DEF ExpireStaleClaim, TInv, RowType
<1>2. \A q \in Request : RowType(q)'
  BY <1>1, ExpiryType, RowChanged
<1>3. /\ UNCHANGED <<pc, job>> /\ blocked' \in BOOLEAN /\ ses' \in [Request -> SesType]
      /\ outcome' \in [Call -> OutcomeOf] /\ calls' = calls
  BY DEF ExpireStaleClaim, TInv
<1> QED
  BY <1>2, <1>3, TypedStay

LEMMA ApplyFeedbackTypes ==
    ASSUME IInv, TInv, NEW r \in Request, ApplyFeedback(r) PROVE TInv'
<1>1. PICK e \in Feedback : delivery' = [delivery EXCEPT ![r] = AfterFeedback(delivery[r], e)]
  BY DEF ApplyFeedback
<1>2. delivery[r] \in Delivery
  BY DEF ApplyFeedback, TInv, RowType
<1>3. \A q \in Request : RowType(q)'
  BY <1>1, <1>2, FeedbackType, RowChanged
<1>4. /\ UNCHANGED <<pc, job>> /\ blocked' \in BOOLEAN /\ ses' \in [Request -> SesType]
      /\ outcome' \in [Call -> OutcomeOf] /\ calls' = calls
  BY DEF ApplyFeedback, TInv
<1> QED
  BY <1>3, <1>4, TypedStay

LEMMA LessTypes ==
    /\ \A t \in Deadline : Less(t) \in Deadline
    /\ \A t \in 0..SesTimeout : Less(t) \in 0..SesTimeout
<1>1. ASSUME NEW t \in Deadline PROVE Less(t) \in Deadline
  BY <1>1 DEF Less, Deadline, Forever
<1>2. ASSUME NEW t \in 0..SesTimeout PROVE Less(t) \in 0..SesTimeout
  BY <1>2, SecurityEmailAssumption DEF Less
<1> QED
  BY <1>1, <1>2

LEMMA TickTypes == ASSUME IInv, AnswersInv, TInv, Tick PROVE TInv'
<1>1. ASSUME NEW h \in Call PROVE JobType(h)'
  <2> DEFINE i == [job[h] EXCEPT !.deadline = Less(@)]
             k == [i EXCEPT !.timeout = Less(@)]
             j == [k EXCEPT !.view = Elapsed(@)]
  <2>1. job'[h] = j /\ pc' = pc
    BY DEF Tick
  <2>2. JobTypeOf(job[h], pc[h]) /\ JobFields \subseteq DOMAIN job[h]
    BY DEF TInv, JobType, IInv, JobOK
  <2>3. /\ DOMAIN i = DOMAIN job[h] /\ i.deadline = Less(job[h].deadline)
        /\ i.timeout = job[h].timeout /\ i.submission = job[h].submission
        /\ i.command = job[h].command /\ i.view = job[h].view
    BY <2>2 DEF JobFields
  <2> HIDE DEF i
  <2>4. /\ DOMAIN k = DOMAIN i /\ k.deadline = i.deadline /\ k.timeout = Less(i.timeout)
        /\ k.submission = i.submission /\ k.command = i.command /\ k.view = i.view
    BY <2>2, <2>3 DEF JobFields
  <2> HIDE DEF k
  <2>5. /\ j.deadline = k.deadline /\ j.timeout = k.timeout /\ j.submission = k.submission
        /\ j.command = k.command /\ j.view = Elapsed(k.view)
    BY <2>2, <2>3, <2>4 DEF JobFields
  <2> HIDE DEF j
  <2>6. pc[h] = "wait" => IsRow(job[h].view)
    BY DEF AnswersInv, CallTrue
  <2>7. /\ Less(job[h].deadline) \in Deadline /\ Less(job[h].timeout) \in 0..SesTimeout
    BY <2>2, LessTypes DEF JobTypeOf
  <2>8. pc[h] = "wait" => j.view.result = job[h].view.result
    BY <2>3, <2>4, <2>5, <2>6, ElapsedAnswers
  <2>9. JobTypeOf(j, pc[h])
    BY <2>2, <2>3, <2>4, <2>5, <2>7, <2>8 DEF JobTypeOf
  <2> QED
    BY <2>1, <2>9 DEF JobType
<1>2. ASSUME NEW r \in Request PROVE RowType(r)'
  BY ElapsedType DEF Tick, TInv, RowType
<1>3. /\ blocked' \in BOOLEAN /\ pc' \in [Call -> PcType] /\ ses' \in [Request -> SesType]
      /\ outcome' \in [Call -> OutcomeOf] /\ calls' \in [Request -> Nat]
  BY DEF Tick, TInv
<1> QED
  BY <1>1, <1>2, <1>3 DEF TInv

LEMMA StepTypes == IInv /\ AnswersInv /\ TInv /\ [Next]_vars => TInv'
<1> SUFFICES ASSUME IInv, AnswersInv, TInv, [Next]_vars PROVE TInv'
  OBVIOUS
<1>1. ASSUME NEW h \in Call, Step(h) PROVE TInv'
  BY <1>1, LookupTypes, CreateClaimTypes, WaitTypes, RefreshTypes, AttemptTypes,
     SendTypes, RespondTypes, FinalizeTypes, ReadRecordedTypes DEF Step
<1>2. ASSUME NEW h \in Call,
             \/ Receive(h) \/ RenderFails(h) \/ FinalizeFails(h)
             \/ Crash(h) \/ CallerGivesUp(h)
      PROVE  TInv'
  BY <1>2, ReceiveTypes, RenderFailsTypes, FinalizeFailsTypes, CrashTypes, CallerGivesUpTypes
<1>3. ASSUME NEW r \in Request, SesDecides(r) \/ ExpireStaleClaim(r) \/ ApplyFeedback(r)
      PROVE  TInv'
  BY <1>3, SesDecidesTypes, ExpireStaleClaimTypes, ApplyFeedbackTypes
<1>4. CASE DestinationChanges \/ UNCHANGED vars
  <2>1. /\ UNCHANGED <<pc, job>> /\ delivery' = delivery /\ blocked' \in BOOLEAN
        /\ ses' \in [Request -> SesType] /\ outcome' \in [Call -> OutcomeOf] /\ calls' = calls
    BY <1>4 DEF DestinationChanges, vars, rows, TInv
  <2> QED
    BY <2>1, RowsSame, TypedStay
<1> QED
  BY <1>1, <1>2, <1>3, <1>4, TickTypes DEF Next
-----------------------------------------------------------------------------
LEMMA TypesHold == TInv => TypeOK
<1> SUFFICES ASSUME TInv PROVE TypeOK
  OBVIOUS
<1>1. ASSUME NEW h \in Call
      PROVE  /\ job[h].deadline \in {Forever} \cup Nat
             /\ job[h].timeout \in 0..SesTimeout
             /\ job[h].submission \in CommandResults \cup {Unset}
  BY DEF TInv, JobType, JobTypeOf, Deadline
<1>2. outcome \in [Call -> CommandResults \cup {Unset, "CONFLICT"}]
  BY DEF TInv, OutcomeOf
<1> QED
  BY <1>1, <1>2 DEF TInv, TypeOK, RowType, PcType, SesType

LEMMA AnswersHold == IInv /\ AnswersInv => AnswersAgree /\ DefiniteResultsAreTrue
<1> SUFFICES ASSUME IInv, AnswersInv PROVE AnswersAgree /\ DefiniteResultsAreTrue
  OBVIOUS
<1>1. AnswersAgree
  BY DEF AnswersInv, CallTrue, Told, AnswersAgree
<1>2. ASSUME NEW r \in Request, delivery[r] # NoRow
      PROVE  ResultTrue(delivery[r].result, ses[r])
  BY <1>2 DEF IInv, RequestOK, AnswersInv, RowTrue
<1>3. DefiniteResultsAreTrue
  BY <1>2 DEF DefiniteResultsAreTrue, ResultTrue, Refusals
<1> QED
  BY <1>1, <1>3

(* What auth is told of a request, unless it is "unknown", is what the row *)
(* records for that command, for good, and is true of SES: for any number  *)
(* of repeated commands, crashes, late answers and feedback.               *)
THEOREM AnswersTrue == Spec => []AnswersAreTrue
<1>1. Init => TInv
  BY InitTypes
<1>2. IInv /\ AnswersInv /\ TInv => AnswersAreTrue
  BY TypesHold, AnswersHold DEF AnswersAreTrue
<1>3. Spec => []TInv
  BY <1>1, StepTypes, Invariant, Truthful, PTL DEF Spec
<1> QED
  BY <1>2, <1>3, Invariant, Truthful, PTL
=============================================================================
