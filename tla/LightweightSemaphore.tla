------------------------ MODULE LightweightSemaphore ------------------------
(***************************************************************************)
(* moodycamel::spsc_sema::LightweightSemaphore: an atomic count in front   *)
(* of a kernel semaphore, used by one waiting and one signaling thread.    *)
(* One step is one access to shared memory or one kernel call.             *)
(*                                                                         *)
(* The semaphore is one record, so that a structure that owns several of   *)
(* them instantiates this module once per member:                          *)
(*   count   m_count, which is -1 while the waiter is registered and       *)
(*           nothing was signaled                                          *)
(*   kernel  the value of m_sema                                           *)
(*   at      where the waiting thread is (see Points)                      *)
(*   mode    how it called: "try" is tryWait(); the others are wait() with *)
(*           timeout_usecs < 0 ("forever"), = 0 ("poll"), > 0 ("timed")    *)
(*   spin    iterations left in waitWithPartialSpinning                    *)
(*   view    the last value of m_count the waiter has seen: a relaxed load *)
(*           returns this value or any later one                           *)
(*   signaler "posting" between its fetch_add and the token it owes m_sema *)
(***************************************************************************)
EXTENDS Integers

CONSTANTS
    InitialCount,   \* initialCount of the constructor
    SignalCounts,   \* the counts signal() is called with
    SpinLimit,      \* 1024 in the code
    MaxCount,       \* bound of the model on m_count, never reached by a client
    KernelErrors    \* may m_sema.wait() return false?

ASSUME SemaphoreAssumption ==
    /\ InitialCount \in Nat
    /\ SignalCounts \subseteq Nat          \* assert(count >= 0)
    /\ SpinLimit \in Nat
    /\ MaxCount \in Nat
    /\ KernelErrors \in BOOLEAN

VARIABLE sem

Modes == {"try", "poll", "timed", "forever"}

Points == {"idle", "try", "take", "spin", "kernel", "restore", "retake",
           "trysema", "acquired", "failed"}

TypeOK ==
    sem \in [count : Int, kernel : Nat, at : Points, mode : Modes,
             spin : 0..SpinLimit, view : Int, signaler : {"idle", "posting"}]

Init ==
    sem = [count |-> InitialCount, kernel |-> 0, at |-> "idle",
           mode |-> "forever", spin |-> 0, view |-> InitialCount,
           signaler |-> "idle"]

-----------------------------------------------------------------------------
(***************************************************************************)
(* The waiter.  Only signals raise m_count behind its back, so the values  *)
(* a relaxed load may return lie between its view and the current value.   *)
(***************************************************************************)
Visible == sem.view .. sem.count

Call(m) ==
    /\ sem.at = "idle"
    /\ sem' = [sem EXCEPT !.at = "try", !.mode = m]

\* (Fault: a count of zero passes for a permit.)
AfterTryLoadOffByOne(v) ==
    IF v >= 0 THEN "take" ELSE IF sem.mode = "try" THEN "failed" ELSE "spin"

\* tryWait's load; wait() goes on to the spin loop where tryWait() gives up.
AfterTryLoad(v) ==
    IF v > 0 THEN "take" ELSE IF sem.mode = "try" THEN "failed" ELSE "spin"

TryLoad ==
    /\ sem.at = "try"
    /\ \E v \in Visible :
        sem' = [sem EXCEPT !.view = v, !.spin = SpinLimit, !.at = AfterTryLoad(v)]

\* The fetch_add(-1) after a positive load, in tryWait and in the spin loop.
Take ==
    /\ sem.at = "take"
    /\ sem' = [sem EXCEPT !.count = @ - 1, !.view = sem.count - 1,
                          !.at = "acquired"]

SpinLoad ==
    /\ sem.at = "spin"
    /\ sem.spin > 0
    /\ \E v \in Visible :
        sem' = [sem EXCEPT !.view = v,
                           !.spin = @ - 1,
                           !.at = IF v > 0 THEN "take" ELSE "spin"]

\* The spin is over: the decrement takes a permit or registers the waiter.
AfterRegister ==
    IF sem.count > 0 THEN "acquired"
    ELSE IF sem.mode = "poll" THEN "restore" ELSE "kernel"

Register ==
    /\ sem.at = "spin"
    /\ sem.spin = 0
    /\ sem' = [sem EXCEPT !.count = @ - 1, !.view = sem.count - 1,
                          !.at = AfterRegister]

\* (Returning from the kernel also orders the waiter after the signal that
\* posted; the model keeps the older view, which only allows more loads.)
KernelWake ==
    /\ sem.at = "kernel"
    /\ sem.kernel > 0
    /\ sem' = [sem EXCEPT !.kernel = @ - 1, !.at = "acquired"]

\* (Faults: the registration is not undone; the timeout is ignored.)
KernelGiveUpRegistered ==
    /\ sem.at = "kernel"
    /\ sem.mode = "timed" \/ KernelErrors
    /\ sem' = [sem EXCEPT !.at = "failed"]

KernelNeverGivesUp == FALSE

\* The kernel wait ends without a token: the deadline passed (a signal may be
\* posted after that and before the call returns), or the call failed.
KernelGiveUp ==
    /\ sem.at = "kernel"
    /\ sem.mode = "timed" \/ KernelErrors
    /\ sem' = [sem EXCEPT !.at = "restore"]

\* (Fault: a signal that came in between is not noticed.)
RestoreBlindly ==
    /\ sem.at = "restore"
    /\ sem' = [sem EXCEPT !.count = @ + 1, !.view = sem.count + 1, !.at = "failed"]

\* Undo the registration; if the signaler has already counted the waiter in,
\* the token it posts must be consumed instead.
Restore ==
    /\ sem.at = "restore"
    /\ sem' = [sem EXCEPT !.count = @ + 1, !.view = sem.count + 1,
                          !.at = IF sem.count < 0 THEN "failed" ELSE "retake"]

Retake ==
    /\ sem.at = "retake"
    /\ sem' = [sem EXCEPT !.count = @ - 1, !.view = sem.count - 1,
                          !.at = IF sem.count > 0 THEN "trysema" ELSE "restore"]

\* (Fault: sem_trywait is taken to have succeeded.)
TrySemaUnchecked ==
    /\ sem.at = "trysema"
    /\ sem' = [sem EXCEPT !.kernel = @ - 1, !.at = "acquired"]

TrySema ==
    /\ sem.at = "trysema"
    /\ \/ /\ sem.kernel > 0
          /\ sem' = [sem EXCEPT !.kernel = @ - 1, !.at = "acquired"]
       \/ /\ sem.kernel = 0
          /\ sem' = [sem EXCEPT !.at = "restore"]

Return ==
    /\ sem.at \in {"acquired", "failed"}
    /\ sem' = [sem EXCEPT !.at = "idle"]

\* Everything the waiting thread does inside a call.
WaiterStep ==
    \/ TryLoad \/ Take \/ SpinLoad \/ Register
    \/ KernelWake \/ KernelGiveUp
    \/ Restore \/ Retake \/ TrySema

-----------------------------------------------------------------------------
(***************************************************************************)
(* The signaler: fetch_add, then one token for m_sema if the old count     *)
(* said that the waiter is registered.                                     *)
(***************************************************************************)
\* Does signal() owe m_sema a token?  (Faults: at a count of zero too; never.)
OwesOffByOne == sem.count <= 0
OwesNever == FALSE
Owes == sem.count < 0

Signal(n) ==
    /\ sem.signaler = "idle"
    /\ sem.count + n <= MaxCount
    /\ sem' = [sem EXCEPT !.count = @ + n,
                          !.signaler = IF Owes THEN "posting" ELSE "idle"]

Post ==
    /\ sem.signaler = "posting"
    /\ sem' = [sem EXCEPT !.kernel = @ + 1, !.signaler = "idle"]

\* availableApprox() as thread-safe readers use it: one load.
AvailableApprox(v) == IF v > 0 THEN v ELSE 0

-----------------------------------------------------------------------------
Next ==
    \/ \E m \in Modes : Call(m)
    \/ WaiterStep
    \/ Return
    \/ \E n \in SignalCounts : Signal(n)
    \/ Post

Spec == Init /\ [][Next]_sem

\* Both threads keep running, and a kernel wait with a deadline ends; neither
\* thread is obliged to call, nor the signaler to signal.
Fairness ==
    /\ WF_sem(WaiterStep)
    /\ WF_sem(Post)

FairSpec == Spec /\ Fairness

-----------------------------------------------------------------------------
(***************************************************************************)
(* Properties.                                                             *)
(***************************************************************************)
\* The waiter has decremented m_count and has not yet got a permit for it.
Registered == sem.at \in {"kernel", "restore", "trysema"}

\* Whoever is registered while m_count says "signaled" is owed one token,
\* in m_sema or still in the signaler's hands.
TokenOwed == (Registered /\ sem.count >= 0) \/ sem.at = "retake"

\* assert(oldCount >= -1) in signal(): what the next call of it will find.
SignalAssertion == sem.signaler = "idle" => sem.count >= -1

\* A signal that meets the registered waiter leaves exactly one token for it,
\* and no token outlives the wait it was posted for: a parked waiter is never
\* forgotten, and no later wait is let through by a stale token.
ExactlyOneToken ==
    sem.kernel + (IF sem.signaler = "posting" THEN 1 ELSE 0) = (IF TokenOwed THEN 1 ELSE 0)

\* The waiter only commits to the fast path when the count it will find is
\* positive, however stale the load that sent it there.
FastPathHasPermit == sem.at = "take" => sem.count > 0

\* A wait that has been signaled ends with a permit, even if its deadline
\* passed between the signaler's fetch_add and its post.
SignaledWaitAcquires == TokenOwed ~> sem.at = "acquired"

\* tryWait() and waits with a timeout return.
BoundedWaitReturns ==
    (sem.at # "idle" /\ sem.mode # "forever") ~> sem.at \in {"acquired", "failed"}

\* The waits that must end do, also when the kernel's wait fails meanwhile.
WaitsEnd == SignaledWaitAcquires /\ BoundedWaitReturns

\* The atomic count and the kernel semaphore together are a counting
\* semaphore: permits are what m_count holds plus what a registered waiter
\* has taken in advance.
Counting == INSTANCE CountingSemaphore WITH
    permits <- sem.count + (IF Registered THEN 1 ELSE 0),
    at      <- IF sem.at \in {"idle", "acquired", "failed"} THEN sem.at ELSE "waiting",
    mode    <- sem.mode

ImplementsCounting == Counting!Spec

=============================================================================
