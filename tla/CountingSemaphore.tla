-------------------------- MODULE CountingSemaphore --------------------------
(***************************************************************************)
(* What a LightweightSemaphore promises its one waiter and its one         *)
(* signaler: permits are never invented and never lost, and a wait that    *)
(* was given a timeout reports failure only when there is no permit.       *)
(* tryWait may fail although a permit is there: it decides by a relaxed    *)
(* load, which may be stale.                                               *)
(***************************************************************************)
EXTENDS Integers

CONSTANTS
    InitialCount,   \* permits the semaphore is constructed with
    SignalCounts    \* the counts signal() is called with

VARIABLES
    permits,        \* signals that no wait has taken yet
    at,             \* the waiter: outside a call, inside it, or back with a result
    mode            \* the waiter's call: "try", "poll", "timed" or "forever"

vars == <<permits, at, mode>>

Modes == {"try", "poll", "timed", "forever"}

Init ==
    /\ permits = InitialCount
    /\ at = "idle"
    /\ mode = "forever"

Call(m) ==
    /\ at = "idle"
    /\ at' = "waiting"
    /\ mode' = m
    /\ UNCHANGED permits

Acquire ==
    /\ at = "waiting"
    /\ permits > 0
    /\ permits' = permits - 1
    /\ at' = "acquired"
    /\ UNCHANGED mode

Fail ==
    /\ at = "waiting"
    /\ mode # "try" => permits = 0
    /\ at' = "failed"
    /\ UNCHANGED <<permits, mode>>

Return ==
    /\ at \in {"acquired", "failed"}
    /\ at' = "idle"
    /\ UNCHANGED <<permits, mode>>

Signal(n) ==
    /\ permits' = permits + n
    /\ UNCHANGED <<at, mode>>

Next ==
    \/ \E m \in Modes : Call(m)
    \/ Acquire
    \/ Fail
    \/ Return
    \/ \E n \in SignalCounts : Signal(n)

Spec == Init /\ [][Next]_vars

=============================================================================
