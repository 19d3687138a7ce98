----------------------------- MODULE WorkerPool ------------------------------
(***************************************************************************)
(* The state that the poll loops of conversion-worker's                    *)
(* queue-consumer.service.ts share, and what its slots promise of it.      *)
(* WorkerSlots has the steps.                                              *)
(***************************************************************************)
EXTENDS Integers, Sequences, FiniteSets

CONSTANTS
    Loop,      \* the poll loops of all queues
    Priority,  \* a loop's queue: 0 is served first
    Slots,     \* WORKER_SLOTS
    Period     \* STARVATION_GRANT_PERIOD

ASSUME SlotsAssumption ==
    /\ IsFiniteSet(Loop)
    /\ Priority \in [Loop -> Nat]
    /\ Slots \in Nat \ {0}   \* validated when the worker starts
    /\ Period \in Nat \ {0}

VARIABLES
    running,
    loop,      \* what each loop awaits
    active,    \* slots taken
    waiters,   \* loops that hold a message and wait for a slot
    grants,    \* waiters served so far, modulo Period: nothing else of it is read
    overtaken  \* history: grants to others since a loop began to wait, up to Period

LoopStates == {"receiving", "waiting", "handling", "backoff", "stopped"}

-----------------------------------------------------------------------------
(***************************************************************************)
(* Types; a loop is in the queue of waiters exactly while it waits, once.  *)
(***************************************************************************)
SlotTypes ==
    /\ running \in BOOLEAN
    /\ loop \in [Loop -> LoopStates]
    /\ active \in 0 .. Slots
    /\ waiters \in Seq(Loop)
    /\ grants \in 0 .. Period - 1
    /\ overtaken \in [Loop -> 0 .. Period]
    /\ {waiters[i] : i \in DOMAIN waiters} = {l \in Loop : loop[l] = "waiting"}
    /\ Len(waiters) = Cardinality({l \in Loop : loop[l] = "waiting"})

(***************************************************************************)
(* No slot leaks and none is used twice: `active` is the number of loops   *)
(* that handle a message, and nobody waits while a slot is free.  About    *)
(* acquire and release, on every way out of handle.                        *)
(***************************************************************************)
SlotsAccounted ==
    /\ SlotTypes
    /\ active = Cardinality({l \in Loop : loop[l] = "handling"})
    /\ waiters # << >> => active = Slots

(***************************************************************************)
(* A single waiter of the last priority is served within one period,       *)
(* whatever the load of the other queues and however slots are released.   *)
(***************************************************************************)
LastPriority(l) == \A m \in Loop \ {l} : Priority[m] < Priority[l]

LastServedWithinPeriod ==
    \A l \in Loop : LastPriority(l) /\ loop[l] = "waiting" => overtaken[l] < Period
==============================================================================
