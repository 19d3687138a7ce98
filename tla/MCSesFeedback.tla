---------------------------- MODULE MCSesFeedback ----------------------------
(***************************************************************************)
(* SesFeedback with two mails whose events overtake one another, and a key *)
(* that is introduced, made the only one, or rolled back.                  *)
(***************************************************************************)
EXTENDS SesFeedback, TLC

TwoMails ==
    {[mail |-> "m1", kind |-> "DELIVERY", at |-> 1, id |-> 1],
     [mail |-> "m1", kind |-> "COMPLAINT", at |-> 3, id |-> 2],
     [mail |-> "m2", kind |-> "DELIVERY_DELAY", at |-> 4, id |-> 3],
     [mail |-> "m2", kind |-> "PERMANENT_BOUNCE", at |-> 2, id |-> 4]}
Rotation ==
    {[active |-> 1, keys |-> {1}], [active |-> 2, keys |-> {1, 2}], [active |-> 2, keys |-> {2}]}
OperationSymmetry == Permutations(Operation)
==============================================================================
