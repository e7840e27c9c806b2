---------------------------- MODULE KernelSemaphore ----------------------------
(***************************************************************************)
(* moodycamel::spsc_sema::Semaphore, the wrapper around the semaphore of   *)
(* the platform's kernel: Windows, Mach, POSIX and FreeRTOS.  The four     *)
(* classes differ in how they turn a timeout in microseconds into what     *)
(* the kernel takes, and in what they do when a kernel call fails.         *)
(*                                                                         *)
(* Time is counted in nanoseconds.  now is the time that really passes,    *)
(* wall is CLOCK_REALTIME, which somebody may set.                         *)
(***************************************************************************)
EXTENDS Integers

CONSTANTS
    Platforms,              \* those among "posix", "mach", "windows", "freertos"
    NsecsPerUsec,           \* 1000
    UsecsPerMsec,           \* 1000
    MsecsPerSec,            \* 1000
    MsecsPerTick,           \* portTICK_PERIOD_MS
    TimeoutWord,            \* what the kernel's timeout is counted modulo (2^32);
                            \* the largest value means no timeout
    MaxToken,               \* the largest value of the kernel's semaphore
    Requests,               \* the timeouts that are asked for, in microseconds
    LastCall,               \* no wait begins, or reads the clock, after this time
    MaxTime,                \* where the model's clocks stop
    ClockSets               \* how often the wall clock is set

UsecsPerSec == UsecsPerMsec * MsecsPerSec
NsecsPerSec == NsecsPerUsec * UsecsPerSec

KernelAssumption ==
    /\ Platforms \subseteq {"posix", "mach", "windows", "freertos"}
    /\ {NsecsPerUsec, UsecsPerMsec, MsecsPerSec, MsecsPerTick, TimeoutWord, MaxToken}
           \subseteq Nat \ {0}
    /\ Requests \subseteq Nat
    /\ {LastCall, MaxTime, ClockSets} \subseteq Nat

VARIABLES
    platform,       \* the class that was compiled
    now, wall,      \* the clocks
    sets,           \* settings of the wall clock that are left
    value,          \* the kernel's semaphore
    owed,           \* tokens that signal() is still to post
    at,             \* the waiter: "idle", "armed" before the kernel call,
                    \* "blocked" in it, "true" or "false" with its result
    call,           \* "wait", "try_wait" or "timed_wait"
    usecs,          \* the argument of timed_wait
    began,          \* when it was called
    ts,             \* the timespec or the timeout, in seconds and nanoseconds
    until,          \* when the kernel's timer ends, by the clock it goes by
    disturbed       \* an interrupt or a clock that was set forward cut it short

clocks == <<now, wall, sets>>
waiter == <<at, call, usecs, began, ts, until, disturbed>>
vars == <<platform, clocks, value, owed, waiter>>

Never == -1
NoTime == [sec |-> 0, nsec |-> 0]
Total(t) == t.sec * NsecsPerSec + t.nsec

TypeOK ==
    /\ platform \in Platforms
    /\ {now, wall} \subseteq 0 .. MaxTime
    /\ sets \in 0 .. ClockSets
    /\ value \in 0 .. MaxToken
    /\ owed \in 0 .. MaxToken + 1
    /\ at \in {"idle", "armed", "blocked", "true", "false"}
    /\ call \in {"wait", "try_wait", "timed_wait"}
    /\ usecs \in Requests \cup {0}
    /\ began \in 0 .. LastCall
    /\ ts \in [sec : Nat, nsec : 0 .. NsecsPerSec - 1]
    /\ until \in Nat \cup {Never}
    /\ disturbed \in BOOLEAN

Init ==
    /\ platform \in Platforms
    /\ now = 0
    /\ wall = 0
    /\ sets = ClockSets
    /\ value = 0
    /\ owed = 0
    /\ at = "idle"
    /\ call = "wait"
    /\ usecs = 0
    /\ began = 0
    /\ ts = NoTime
    /\ until = Never
    /\ disturbed = FALSE

-----------------------------------------------------------------------------
(***************************************************************************)
(* The timeouts.                                                           *)
(***************************************************************************)
\* Seconds and nanoseconds of a timeout.  (Fault: microseconds kept as
\* nanoseconds.)
SplitUnscaled(u) == [sec |-> u \div UsecsPerSec, nsec |-> u % UsecsPerSec]
Split(u) == [sec |-> u \div UsecsPerSec, nsec |-> (u % UsecsPerSec) * NsecsPerUsec]

\* The POSIX deadline: the wall clock plus the timeout, with one carry.
\* (Fault: a full second of nanoseconds is not carried.)
DeadlineCarriesLate(t, d) ==
    LET nsec == t.nsec + d.nsec
    IN  IF nsec > NsecsPerSec
        THEN [sec |-> t.sec + d.sec + 1, nsec |-> nsec - NsecsPerSec]
        ELSE [sec |-> t.sec + d.sec, nsec |-> nsec]
Deadline(t, d) ==
    LET nsec == t.nsec + d.nsec
    IN  IF nsec >= NsecsPerSec
        THEN [sec |-> t.sec + d.sec + 1, nsec |-> nsec - NsecsPerSec]
        ELSE [sec |-> t.sec + d.sec, nsec |-> nsec]

WallTime == [sec |-> wall \div NsecsPerSec, nsec |-> wall % NsecsPerSec]

\* The whole milliseconds and ticks that Windows and FreeRTOS are given.
Msecs(u) == (u \div UsecsPerMsec) % TimeoutWord
Ticks(u) == ((u \div UsecsPerMsec) \div MsecsPerTick) % TimeoutWord

NsecsPerMsec == NsecsPerUsec * UsecsPerMsec

\* The end of a relative timeout of n units.  (Fault: no units are taken for no
\* timeout.)
EndOfZero(n, unit) == IF n \in {0, TimeoutWord - 1} THEN Never ELSE now + n * unit
EndOf(n, unit) == IF n = TimeoutWord - 1 THEN Never ELSE now + n * unit

-----------------------------------------------------------------------------
(***************************************************************************)
(* The waiter.                                                             *)
(***************************************************************************)
Begin(c, u) ==
    /\ at = "idle"
    /\ now <= LastCall
    /\ at' = "armed"
    /\ call' = c
    /\ usecs' = u
    /\ began' = now
    /\ UNCHANGED <<platform, clocks, value, owed, ts, until, disturbed>>

\* wait() has no timeout, and try_wait() may not block: Mach's is a timed wait
\* of zero, FreeRTOS's a take of zero ticks.
Arm ==
    /\ at = "armed"
    /\ call # "timed_wait"
    /\ at' = "blocked"
    /\ until' = IF call = "wait" THEN Never ELSE IF platform = "posix" THEN wall ELSE now
    /\ UNCHANGED <<platform, clocks, value, owed, call, usecs, began, ts, disturbed>>

ArmPosix ==
    /\ platform = "posix"
    /\ ts' = Deadline(WallTime, Split(usecs))
    /\ until' = Total(ts')

ArmMach ==
    /\ platform = "mach"
    /\ ts' = Split(usecs)
    /\ until' = now + Total(ts')

ArmWindows ==
    /\ platform = "windows"
    /\ until' = EndOf(Msecs(usecs), NsecsPerMsec)
    /\ UNCHANGED ts

\* Zero ticks are a try_wait().
ArmFreeRTOS ==
    /\ platform = "freertos"
    /\ until' = EndOf(Ticks(usecs), NsecsPerMsec * MsecsPerTick)
    /\ UNCHANGED ts

ArmTimed ==
    /\ at = "armed"
    /\ call = "timed_wait"
    /\ at' = "blocked"
    /\ ArmPosix \/ ArmMach \/ ArmWindows \/ ArmFreeRTOS
    /\ UNCHANGED <<platform, clocks, value, owed, call, usecs, began, disturbed>>

\* The kernel grants a token whenever there is one.
Take ==
    /\ at = "blocked"
    /\ value > 0
    /\ value' = value - 1
    /\ at' = "true"
    /\ UNCHANGED <<platform, clocks, owed, call, usecs, began, ts, until, disturbed>>

Expired ==
    /\ until # Never
    /\ until <= (IF platform = "posix" THEN wall ELSE now)

\* ETIMEDOUT and its like.
TimeOut ==
    /\ at = "blocked"
    /\ value = 0
    /\ Expired
    /\ at' = "false"
    /\ UNCHANGED <<platform, clocks, value, owed, call, usecs, began, ts, until, disturbed>>

\* What the wrapper does when a signal interrupts the kernel call: the POSIX
\* loops call again, with the same deadline; Mach's KERN_ABORTED is a failure.
\* (Fault: EINTR is a failure.)
InterruptedAlways == TRUE
InterruptedFails == platform = "mach"

Interrupt ==
    /\ at = "blocked"
    /\ platform \in {"posix", "mach"}
    /\ InterruptedFails
    /\ value = 0
    /\ call # "try_wait"    \* which does not block
    /\ at' = "false"
    /\ disturbed' = TRUE
    /\ UNCHANGED <<platform, clocks, value, owed, call, usecs, began, ts, until>>

Return ==
    /\ at \in {"true", "false"}
    /\ at' = "idle"
    /\ usecs' = 0
    /\ began' = 0
    /\ ts' = NoTime
    /\ until' = Never
    /\ disturbed' = FALSE
    /\ UNCHANGED <<platform, clocks, value, owed, call>>

WaiterStep == Arm \/ ArmTimed \/ Take \/ TimeOut \/ Interrupt

-----------------------------------------------------------------------------
(***************************************************************************)
(* The signaler: signal(count) posts one token after the other, and calls  *)
(* the kernel again while it fails, which is while the semaphore is full.  *)
(* Windows posts all of them or none.  FreeRTOS does not try again: it     *)
(* asserts, and a release build loses the token.                           *)
(***************************************************************************)
Signal(n) ==
    /\ owed = 0
    /\ owed' = n
    /\ UNCHANGED <<platform, clocks, value, waiter>>

\* (Fault: no platform tries again.)
PostWithoutRetry ==
    /\ owed > 0
    /\ LET n == IF platform = "windows" THEN owed ELSE 1
       IN  /\ owed' = owed - n
           /\ value' = IF value + n <= MaxToken THEN value + n ELSE value
    /\ UNCHANGED <<platform, clocks, waiter>>
Post ==
    /\ owed > 0
    /\ LET n == IF platform = "windows" THEN owed ELSE 1
       IN  /\ owed' = owed - n
           /\ \/ /\ value + n <= MaxToken
                 /\ value' = value + n
              \/ /\ value = MaxToken
                 /\ platform = "freertos"
                 /\ UNCHANGED value
    /\ UNCHANGED <<platform, clocks, waiter>>

-----------------------------------------------------------------------------
(***************************************************************************)
(* The clocks.                                                             *)
(***************************************************************************)
Later(t) == IF t < MaxTime THEN t + 1 ELSE t

Tick ==
    /\ now < MaxTime \/ wall < MaxTime
    /\ at = "armed" => now < LastCall
    /\ now' = Later(now)
    /\ wall' = Later(wall)
    /\ UNCHANGED <<platform, sets, value, owed, waiter>>

SetClock(t) ==
    /\ sets > 0
    /\ sets' = sets - 1
    /\ wall' = t
    /\ disturbed' = (at # "idle" /\ (disturbed \/ t > wall))
    /\ UNCHANGED <<platform, now, value, owed, at, call, usecs, began, ts, until>>

-----------------------------------------------------------------------------
\* The model's time is over.
Over ==
    /\ now = MaxTime
    /\ UNCHANGED vars

Next ==
    \/ Begin("wait", 0)
    \/ Begin("try_wait", 0)
    \/ \E u \in Requests : Begin("timed_wait", u)
    \/ WaiterStep
    \/ Return
    \/ \E n \in 1 .. MaxToken : Signal(n)
    \/ Post
    \/ Tick
    \/ \E t \in 0 .. LastCall : SetClock(t)
    \/ Over

Spec == Init /\ [][Next]_vars

\* Time passes, and the kernel returns when a token or the timeout is there.
Fairness ==
    /\ WF_vars(Tick)
    /\ WF_vars(Arm \/ ArmTimed)
    /\ WF_vars(Take \/ TimeOut)
    /\ WF_vars(Post)

FairSpec == Spec /\ Fairness

-----------------------------------------------------------------------------
(***************************************************************************)
(* Properties.                                                             *)
(***************************************************************************)
\* What the platform can count of a timeout.
Granted(u) ==
    CASE platform = "windows" -> (u \div UsecsPerMsec) * UsecsPerMsec
      [] platform = "freertos" ->
            (u \div (UsecsPerMsec * MsecsPerTick)) * UsecsPerMsec * MsecsPerTick
      [] OTHER -> u

\* A timed wait does not give up before its time, so that the loop of pushData
\* sleeps between its attempts: however the seconds carry, whenever the clock
\* is read, and also when the wall clock is set back meanwhile.
NotEarly ==
    at = "false" /\ call = "timed_wait" /\ ~disturbed
        => now - began >= Granted(usecs) * NsecsPerUsec

\* A timed wait ends, though its deadline be on a clock that is set back.
TimedWaitEnds ==
    (at = "armed" /\ call = "timed_wait") ~> at \in {"true", "false"}

\* A signal() that is posting tokens wakes the thread that waits for one, whose
\* wait has no other end on three of the platforms.
SignalWakes == (at = "blocked" /\ owed > 0) ~> at \in {"true", "false"}

\* The waits that must end do.
KernelAnswers == TimedWaitEnds /\ SignalWakes

\* On every platform this is the semaphore that LightweightSemaphore needs: a
\* signal posts what it was asked to, however often the kernel refuses, except
\* for what FreeRTOS loses.
Contract == INSTANCE KernelContract WITH
    tokens <- value,
    at <- IF at \in {"armed", "blocked"} THEN "waiting" ELSE at,
    interruptible <- platform = "mach",
    lossy <- platform = "freertos"

ImplementsContract == Contract!Spec

=============================================================================
