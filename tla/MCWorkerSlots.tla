---------------------------- MODULE MCWorkerSlots ----------------------------
(***************************************************************************)
(* WorkerSlots with the loops of WORKER_QUEUE_SET = tiers: min(cap, slots) *)
(* for pro and one for each other tier.                                    *)
(***************************************************************************)
EXTENDS WorkerSlots

CONSTANTS pro1, pro2, light, free, anon

TierPriority ==
    [l \in Loop |-> CASE l \in {pro1, pro2} -> 0
                      [] l = light -> 1
                      [] l = free -> 2
                      [] l = anon -> 3]
=============================================================================
