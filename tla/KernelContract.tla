---------------------------- MODULE KernelContract ----------------------------
(***************************************************************************)
(* What LightweightSemaphore relies on below it: signal(n) posts n tokens, *)
(* no more and no fewer, and each is taken by at most one wait.  A wait    *)
(* without a deadline may fail only where the platform's kernel can        *)
(* interrupt it; a wait that may not block fails only when there is no     *)
(* token.  A token is lost only by a platform that does not try again      *)
(* when the kernel's semaphore is full, and only then.                     *)
(***************************************************************************)
EXTENDS Integers

CONSTANT MaxToken   \* the largest value of the kernel's semaphore

VARIABLES
    interruptible,  \* can a wait without a deadline fail?
    lossy,          \* is a token lost that does not fit?
    tokens,         \* posted and not taken
    owed,           \* signaled and not posted yet
    at,             \* the waiter: "idle", "waiting", or back with "true", "false"
    call            \* "wait", "try_wait" or "timed_wait"

waiter == <<at, call>>
vars == <<interruptible, lossy, tokens, owed, waiter>>

Init ==
    /\ interruptible \in BOOLEAN
    /\ lossy \in BOOLEAN
    /\ tokens = 0
    /\ owed = 0
    /\ at = "idle"
    /\ call = "wait"

Call ==
    /\ at = "idle"
    /\ at' = "waiting"
    /\ call' \in {"wait", "try_wait", "timed_wait"}
    /\ UNCHANGED <<tokens, owed>>

Take ==
    /\ at = "waiting"
    /\ tokens > 0
    /\ tokens' = tokens - 1
    /\ at' = "true"
    /\ UNCHANGED <<owed, call>>

Fail ==
    /\ at = "waiting"
    /\ tokens = 0
    /\ call = "wait" => interruptible
    /\ at' = "false"
    /\ UNCHANGED <<tokens, owed, call>>

Return ==
    /\ at \in {"true", "false"}
    /\ at' = "idle"
    /\ UNCHANGED <<tokens, owed, call>>

Signal ==
    /\ owed = 0
    /\ owed' \in Nat \ {0}
    /\ UNCHANGED <<tokens, waiter>>

\* Some of the tokens that are owed, as many as fit.
Post ==
    /\ owed' \in 0 .. owed - 1
    /\ tokens' = tokens + (owed - owed')
    /\ tokens' <= MaxToken
    /\ UNCHANGED waiter

Lose ==
    /\ lossy
    /\ tokens = MaxToken
    /\ owed > 0
    /\ owed' = owed - 1
    /\ UNCHANGED <<tokens, waiter>>

Next ==
    /\ Call \/ Take \/ Fail \/ Return \/ Signal \/ Post \/ Lose
    /\ UNCHANGED <<interruptible, lossy>>

Spec == Init /\ [][Next]_vars

=============================================================================
