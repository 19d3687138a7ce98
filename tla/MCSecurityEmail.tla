--------------------------- MODULE MCSecurityEmail ---------------------------
(***************************************************************************)
(* SecurityEmail with one request, a creator and a repetition of it.       *)
(***************************************************************************)
EXTENDS SecurityEmail

FeedbackOfOneMail ==
    {[kind |-> "SEND", at |-> 1, id |-> 1], [kind |-> "PERMANENT_BOUNCE", at |-> 2, id |-> 2]}
BudgetOrNone == {1, Forever}
=============================================================================
