\* One mail, two calls, an SES timeout of one unit and a margin of one; deadlines before
\* and beyond the lease.
CONSTANTS
    Request = {r1}
    Call = {h1, h2}
    Command = {c1, c2}
    Feedback <- FeedbackOfOneMail
    SesTimeout = 1
    Margin = 1
    Budget <- BudgetOrNone
SPECIFICATION FairSpec
INVARIANTS
    SentAtMostOnce
    AnswersAreTrue
    LateOutcomeKept
PROPERTY
    ClaimsEnd
