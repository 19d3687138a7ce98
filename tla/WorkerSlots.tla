----------------------------- MODULE WorkerSlots -----------------------------
(***************************************************************************)
(* How the poll loops of conversion-worker's queue-consumer.service.ts     *)
(* share the processing slots: a priority semaphore that hands every       *)
(* STARVATION_GRANT_PERIOD-th freed slot to the last waiter instead of the *)
(* first.  Node runs one callback at a time, so what happens between two   *)
(* awaits is one step.  What a loop does with its message is abstracted to *)
(* its end: handled, or failed with an exception.                          *)
(***************************************************************************)
EXTENDS WorkerPool, SequencesExt

vars == <<running, loop, active, waiters, grants, overtaken>>

Init ==
    /\ running = TRUE
    /\ loop = [l \in Loop |-> "receiving"]
    /\ active = 0
    /\ waiters = << >>
    /\ grants = 0
    /\ overtaken = [l \in Loop |-> 0]

-----------------------------------------------------------------------------
(* Push and stable sort by priority: the waiters are sorted, so the loop   *)
(* comes behind the last of those that are not served after it.            *)
Before(l) == {i \in DOMAIN waiters : Priority[waiters[i]] <= Priority[l]}

Enqueue(l) == InsertAt(waiters, Max(Before(l) \cup {0}) + 1, l)

(* A message arrived: acquire, which may have to wait.                     *)
Receive(l) ==
    /\ loop[l] = "receiving"
    /\ IF active < Slots
       THEN /\ active' = active + 1
            /\ loop' = [loop EXCEPT ![l] = "handling"]
            /\ UNCHANGED waiters
       ELSE /\ waiters' = Enqueue(l)
            /\ loop' = [loop EXCEPT ![l] = "waiting"]
            /\ UNCHANGED active
    /\ UNCHANGED <<running, grants, overtaken>>

(* The receive call was rejected: by SQS, or by the shutdown signal.       *)
ReceiveFails(l) ==
    /\ loop[l] = "receiving"
    /\ loop' = [loop EXCEPT ![l] = IF running THEN "backoff" ELSE "stopped"]
    /\ UNCHANGED <<running, active, waiters, grants, overtaken>>

(* An empty receive, or the end of a backoff: the loop's condition again.  *)
PollAgain(l) ==
    /\ loop[l] = "backoff" \/ (loop[l] = "receiving" /\ ~ running)
    /\ loop' = [loop EXCEPT ![l] = IF running THEN "receiving" ELSE "stopped"]
    /\ UNCHANGED <<running, active, waiters, grants, overtaken>>

-----------------------------------------------------------------------------
(* What a loop goes to when its message is handled or has failed.          *)
Afterwards == IF running THEN {"receiving", "backoff"} ELSE {"stopped"}

NeverStarvedTurn == FALSE

StarvedTurn == grants = Period - 1

(* release: the slot goes straight to a waiter, or becomes free.           *)
Grant(l, next, after) ==
    /\ loop' = [loop EXCEPT ![l] = after, ![next] = "handling"]
    /\ grants' = (grants + 1) % Period
    /\ overtaken' = [m \in Loop |->
                       IF loop[m] = "waiting" /\ m # next /\ overtaken[m] < Period
                       THEN overtaken[m] + 1
                       ELSE IF m = next THEN 0 ELSE overtaken[m]]
    /\ UNCHANGED <<running, active>>

ReleaseWithoutGrant(l) ==
    /\ loop[l] = "handling"
    /\ active' = active - 1
    /\ \E after \in Afterwards : loop' = [loop EXCEPT ![l] = after]
    /\ UNCHANGED <<running, waiters, grants, overtaken>>

WaitersWithout(i) == RemoveAt(waiters, i)

Served == IF StarvedTurn THEN Len(waiters) ELSE 1

Release(l) ==
    /\ loop[l] = "handling"
    /\ \E after \in Afterwards :
          \/ /\ waiters = << >>
             /\ active' = active - 1
             /\ loop' = [loop EXCEPT ![l] = after]
             /\ UNCHANGED <<running, waiters, grants, overtaken>>
          \/ /\ waiters # << >>
             /\ Grant(l, waiters[Served], after)
             /\ waiters' = WaitersWithout(Served)

(* onModuleDestroy; a loop that dies while running brings it on, too.      *)
Shutdown ==
    /\ running
    /\ running' = FALSE
    /\ UNCHANGED <<loop, active, waiters, grants, overtaken>>

-----------------------------------------------------------------------------
Poll(l) == Receive(l) \/ ReceiveFails(l) \/ PollAgain(l)

Next ==
    \/ \E l \in Loop : Receive(l)
    \/ \E l \in Loop : ReceiveFails(l)
    \/ \E l \in Loop : PollAgain(l)
    \/ \E l \in Loop : Release(l)
    \/ Shutdown

Spec == Init /\ [][Next]_vars

(***************************************************************************)
(* Every message is handled or fails in the end: the aws clients and the   *)
(* compressor time out.  A loop that was told to stop is woken by the      *)
(* abort signal or its timer.  Nothing says that messages arrive.          *)
(***************************************************************************)
Fairness ==
    \A l \in Loop : /\ WF_vars(Release(l))
                    /\ WF_vars(~ running /\ Poll(l))

FairSpec == Spec /\ Fairness

-----------------------------------------------------------------------------
(***************************************************************************)
(* onModuleDestroy returns: after a shutdown every loop ends, those that   *)
(* wait for a slot included.                                               *)
(***************************************************************************)
ShutdownEnds == ~ running ~> \A l \in Loop : loop[l] = "stopped"
==============================================================================
