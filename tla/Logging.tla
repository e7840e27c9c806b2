-------------------------------- MODULE Logging --------------------------------
(***************************************************************************)
(* The logger of DataStream.hpp, a shared_ptr behind a mutex; the adapter  *)
(* of Logging.hpp, which writes through spdlog; and the SIGINT handler of  *)
(* the examples, which logs through spdlog too, on whatever thread the     *)
(* signal interrupts.                                                      *)
(*                                                                         *)
(* A shared_ptr may be copied and assigned by one thread at a time only:   *)
(* a copy reads the pointer and then counts itself.  spdlog is modelled by *)
(* the lock of its sink, which a thread cannot take twice.                 *)
(***************************************************************************)
EXTENDS Integers, FiniteSets

CONSTANTS
    Threads,
    NullLogger,     \* the logger at the start
    SpdLoggers,     \* the CdsSpdLoggers that setLogger is called with
    Calls,          \* bound on the calls of each thread
    Signals         \* 1 if a SIGINT arrives; a second one kills

Loggers == {NullLogger} \cup SpdLoggers
None == "none"      \* no thread, or no logger

LoggingAssumption ==
    /\ IsFiniteSet(Threads)
    /\ NullLogger \notin SpdLoggers
    /\ None \notin Threads \cup Loggers
    /\ Calls \in Nat
    /\ Signals \in {0, 1}

VARIABLES
    loggerMutex,    \* the thread that holds it
    currentLogger,
    refs,           \* the shared_ptrs to each logger
    unmade,         \* the loggers nobody has made yet
    spdLock,        \* the thread that holds spdlog's lock
    at,             \* where each thread is in the call it makes
    ptr,            \* the logger its shared_ptr refers to
    since,          \* the loggers replaced before its call began
    replaced,       \* the loggers that a setLogger has replaced
    calls,          \* the calls it has left
    handler,        \* where the interrupt handler is on it
    signals,        \* the signals still to come
    halted          \* _stop_flag was set

logger == <<loggerMutex, currentLogger, refs, unmade, replaced>>
thread == <<at, ptr, since, calls>>
interrupt == <<handler, signals, halted>>
vars == <<logger, spdLock, thread, interrupt>>

TypeOK ==
    /\ loggerMutex \in Threads \cup {None}
    /\ currentLogger \in Loggers
    /\ refs \in [Loggers -> 0 .. 2 * Cardinality(Threads) + 1]
    /\ unmade \subseteq SpdLoggers
    /\ spdLock \in Threads \cup {None}
    /\ at \in [Threads -> {"idle", "get", "read", "count", "log", "spd", "write",
                           "drop", "set", "assign", "unlock"}]
    /\ ptr \in [Threads -> Loggers \cup {None}]
    /\ since \in [Threads -> SUBSET Loggers]
    /\ replaced \subseteq Loggers
    /\ calls \in [Threads -> 0 .. Calls]
    /\ handler \in [Threads -> {"none", "info", "infoWrite", "debug", "debugWrite", "store"}]
    /\ signals \in 0 .. Signals
    /\ halted \in BOOLEAN

Init ==
    /\ loggerMutex = None
    /\ currentLogger = NullLogger
    /\ refs = [l \in Loggers |-> IF l = NullLogger THEN 1 ELSE 0]
    /\ unmade = SpdLoggers
    /\ spdLock = None
    /\ at = [t \in Threads |-> "idle"]
    /\ ptr = [t \in Threads |-> None]
    /\ since = [t \in Threads |-> {}]
    /\ replaced = {}
    /\ calls = [t \in Threads |-> Calls]
    /\ handler = [t \in Threads |-> "none"]
    /\ signals = Signals
    /\ halted = FALSE

\* A thread goes on unless the handler runs on it.
Goes(t, from, to) ==
    /\ handler[t] = "none"
    /\ at[t] = from
    /\ at' = [at EXCEPT ![t] = to]

-----------------------------------------------------------------------------
(***************************************************************************)
(* A CDS_LOG macro: getLogger()->log(...).                                 *)
(***************************************************************************)
BeginLog(t) ==
    /\ calls[t] > 0
    /\ Goes(t, "idle", "get")
    /\ calls' = [calls EXCEPT ![t] = @ - 1]
    /\ since' = [since EXCEPT ![t] = replaced]
    /\ UNCHANGED <<logger, spdLock, ptr, interrupt>>

\* (Fault: the mutex is a different one in each translation unit.)
LockPerUnit(t) == loggerMutex' = t
Lock(t) ==
    /\ loggerMutex = None
    /\ loggerMutex' = t

\* (Fault: it stays locked.)
UnlockNever(t) == UNCHANGED loggerMutex
Unlock(t) == loggerMutex' = None

LockToGet(t) ==
    /\ Goes(t, "get", "read")
    /\ Lock(t)
    /\ UNCHANGED <<currentLogger, refs, unmade, replaced, spdLock, ptr, since, calls,
                   interrupt>>

ReadCurrent(t) ==
    /\ Goes(t, "read", "count")
    /\ ptr' = [ptr EXCEPT ![t] = currentLogger]
    /\ UNCHANGED <<logger, spdLock, since, calls, interrupt>>

CountCopy(t) ==
    /\ Goes(t, "count", "log")
    /\ refs' = [refs EXCEPT ![ptr[t]] = @ + 1]
    /\ Unlock(t)
    /\ UNCHANGED <<currentLogger, unmade, replaced, spdLock, ptr, since, calls, interrupt>>

\* ILogger::log: the adapter calls spdlog, the NullLogger does nothing.
Log(t) ==
    /\ Goes(t, "log", IF ptr[t] \in SpdLoggers THEN "spd" ELSE "drop")
    /\ UNCHANGED <<logger, spdLock, ptr, since, calls, interrupt>>

\* The temporary shared_ptr goes.  (Fault: and what it referred to.)
DropTwice(t) ==
    /\ Goes(t, "drop", "idle")
    /\ refs' = [refs EXCEPT ![ptr[t]] = @ - 2]
    /\ ptr' = [ptr EXCEPT ![t] = None]
    /\ UNCHANGED <<loggerMutex, currentLogger, unmade, replaced, spdLock, since, calls,
                   interrupt>>
Drop(t) ==
    /\ Goes(t, "drop", "idle")
    /\ refs' = [refs EXCEPT ![ptr[t]] = @ - 1]
    /\ ptr' = [ptr EXCEPT ![t] = None]
    /\ UNCHANGED <<loggerMutex, currentLogger, unmade, replaced, spdLock, since, calls,
                   interrupt>>

-----------------------------------------------------------------------------
(***************************************************************************)
(* spdlog, under its lock, called by a logger or by a LOG macro directly.  *)
(***************************************************************************)
BeginSpdlog(t) ==
    /\ calls[t] > 0
    /\ Goes(t, "idle", "spd")
    /\ calls' = [calls EXCEPT ![t] = @ - 1]
    /\ UNCHANGED <<logger, spdLock, ptr, since, interrupt>>

LockSpdlog(t) ==
    /\ spdLock = None
    /\ spdLock' = t

WriteBegins(t) ==
    /\ Goes(t, "spd", "write")
    /\ LockSpdlog(t)
    /\ UNCHANGED <<logger, ptr, since, calls, interrupt>>

\* (Fault: the lock is kept.)
WriteEndsLocked(t) ==
    /\ Goes(t, "write", IF ptr[t] = None THEN "idle" ELSE "drop")
    /\ UNCHANGED <<logger, spdLock, ptr, since, calls, interrupt>>
WriteEnds(t) ==
    /\ Goes(t, "write", IF ptr[t] = None THEN "idle" ELSE "drop")
    /\ spdLock' = None
    /\ UNCHANGED <<logger, ptr, since, calls, interrupt>>

-----------------------------------------------------------------------------
(***************************************************************************)
(* setLogger(make_shared<CdsSpdLogger>()), of a temporary.                 *)
(***************************************************************************)
BeginSet(t, l) ==
    /\ calls[t] > 0
    /\ l \in unmade
    /\ Goes(t, "idle", "set")
    /\ calls' = [calls EXCEPT ![t] = @ - 1]
    /\ unmade' = unmade \ {l}
    /\ refs' = [refs EXCEPT ![l] = 1]
    /\ ptr' = [ptr EXCEPT ![t] = l]
    /\ UNCHANGED <<loggerMutex, currentLogger, replaced, spdLock, since, interrupt>>

LockToSet(t) ==
    /\ Goes(t, "set", "assign")
    /\ Lock(t)
    /\ UNCHANGED <<currentLogger, refs, unmade, replaced, spdLock, ptr, since, calls,
                   interrupt>>

\* The assignment: the new logger is counted twice, the old one once less.
\* (Faults: the argument is assigned to; the old logger is not released.)
AssignArgument(t) ==
    /\ UNCHANGED <<currentLogger, refs>>
    /\ replaced' = replaced \cup {currentLogger}
AssignUnreleased(t) ==
    /\ currentLogger' = ptr[t]
    /\ refs' = [refs EXCEPT ![ptr[t]] = @ + 1]
    /\ replaced' = replaced \cup {currentLogger}
Assign(t) ==
    /\ currentLogger' = ptr[t]
    /\ refs' = [refs EXCEPT ![ptr[t]] = @ + 1, ![currentLogger] = @ - 1]
    /\ replaced' = replaced \cup {currentLogger}

AssignLogger(t) ==
    /\ Goes(t, "assign", "unlock")
    /\ Assign(t)
    /\ UNCHANGED <<loggerMutex, unmade, spdLock, ptr, since, calls, interrupt>>

UnlockAfterSet(t) ==
    /\ Goes(t, "unlock", "drop")
    /\ Unlock(t)
    /\ UNCHANGED <<currentLogger, refs, unmade, replaced, spdLock, ptr, since, calls,
                   interrupt>>

-----------------------------------------------------------------------------
(***************************************************************************)
(* SIGINT: the handler logs, calls cancel(), which logs and sets the flag, *)
(* and restores SIG_DFL.                                                   *)
(***************************************************************************)
Signal(t) ==
    /\ signals > 0
    /\ signals' = signals - 1
    /\ handler' = [handler EXCEPT ![t] = "info"]
    /\ UNCHANGED <<logger, spdLock, thread, halted>>

\* One line through spdlog, on the thread that was interrupted.
HandlerLogs(t) ==
    /\ \/ /\ handler[t] = "info"
          /\ LockSpdlog(t)
          /\ handler' = [handler EXCEPT ![t] = "infoWrite"]
       \/ /\ handler[t] = "infoWrite"
          /\ spdLock' = None
          /\ handler' = [handler EXCEPT ![t] = "debug"]
       \/ /\ handler[t] = "debug"
          /\ LockSpdlog(t)
          /\ handler' = [handler EXCEPT ![t] = "debugWrite"]
       \/ /\ handler[t] = "debugWrite"
          /\ spdLock' = None
          /\ handler' = [handler EXCEPT ![t] = "store"]
    /\ UNCHANGED <<logger, thread, signals, halted>>

HandlerStores(t) ==
    /\ handler[t] = "store"
    /\ handler' = [handler EXCEPT ![t] = "none"]
    /\ halted' = TRUE
    /\ UNCHANGED <<logger, spdLock, thread, signals>>

-----------------------------------------------------------------------------
CallBegins(t) ==
    \/ BeginLog(t)
    \/ BeginSpdlog(t)
    \/ \E l \in SpdLoggers : BeginSet(t, l)

CallGoesOn(t) ==
    \/ LockToGet(t) \/ ReadCurrent(t) \/ CountCopy(t) \/ Log(t) \/ Drop(t)
    \/ WriteBegins(t) \/ WriteEnds(t)
    \/ LockToSet(t) \/ AssignLogger(t) \/ UnlockAfterSet(t)

HandlerStep(t) == HandlerLogs(t) \/ HandlerStores(t)

Over ==
    /\ \A t \in Threads : at[t] = "idle" /\ handler[t] = "none"
    /\ UNCHANGED vars

Next ==
    \/ \E t \in Threads :
        CallBegins(t) \/ CallGoesOn(t) \/ Signal(t) \/ HandlerStep(t)
    \/ Over

Spec == Init /\ [][Next]_vars

\* A thread that can run does, and each makes finitely many calls, so that one
\* that waits for a lock gets it in the end.
Fairness ==
    \A t \in Threads :
        /\ WF_vars(CallGoesOn(t))
        /\ WF_vars(HandlerStep(t))

FairSpec == Spec /\ Fairness

-----------------------------------------------------------------------------
(***************************************************************************)
(* Properties.                                                             *)
(***************************************************************************)
\* No logger is destroyed while a thread copies its pointer or logs with it,
\* whoever replaces it meanwhile and whoever drops the last reference.
LoggerAlive ==
    /\ refs[currentLogger] > 0
    /\ \A t \in Threads : at[t] \in {"count", "log", "spd", "write"} /\ ptr[t] # None
            => refs[ptr[t]] > 0

\* Loggers that nothing refers to any more are destroyed, and no others: the
\* count is exact whenever nobody is inside the mutex.
CountsExact ==
    loggerMutex = None =>
        \A l \in Loggers :
            refs[l] = (IF currentLogger = l THEN 1 ELSE 0)
                        + Cardinality({t \in Threads : ptr[t] = l})

\* A message goes to no logger that was replaced before its call began.
NotStale ==
    \A t \in Threads : at[t] = "log" => ptr[t] \notin since[t]

\* The logger that everybody shares is a counted pointer after all.
LoggerKept == LoggerAlive /\ CountsExact /\ NotStale

\* Every call returns: with one mutex inside no other lock, nobody waits for ever.
\* A signal handler that waits on its own thread's lock is excepted.
CallsReturn ==
    \A t \in Threads :
        at[t] # "idle" ~> (at[t] = "idle" \/ \E u \in Threads : handler[u] # "none")

\* An interrupt outside of spdlog stops the source, whatever the other threads
\* are logging.
InterruptStopsOutside ==
    \A t \in Threads : (handler[t] = "info" /\ at[t] # "write") ~> halted

\* Nobody waits for ever on a lock that another thread holds.
LocksAreFreed == CallsReturn /\ InterruptStopsOutside

\* "Register a interrupt handler to stop the source."
InterruptStops ==
    \A t \in Threads : handler[t] = "info" ~> halted

=============================================================================
