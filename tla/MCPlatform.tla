------------------------------- MODULE MCPlatform -------------------------------
(***************************************************************************)
(* The layers below the pipeline: the kernel's semaphore, the life of the  *)
(* ring buffers, and the logger.  They share nothing, so a behaviour is    *)
(* one of a single part, and the others stay in an initial state.          *)
(***************************************************************************)
EXTENDS Integers

CONSTANTS
    \* of KernelSemaphore
    Platforms, NsecsPerUsec, UsecsPerMsec, MsecsPerSec, MsecsPerTick, TimeoutWord,
    MaxToken, Requests, LastCall, MaxTime, ClockSets,
    \* of RingLifecycle
    Objects, Values, Capacities, WordBits, WordBytes, ElementSize, Alignment, Arenas,
    MallocFails, MaxIndex,
    \* of Logging
    Threads, NullLogger, SpdLoggers, Calls, Signals

VARIABLES
    part,
    platform, now, wall, sets, value, owed, waiterAt, call, usecs, began, ts, until,
    disturbed,
    ring, heap, mem,
    loggerMutex, currentLogger, refs, unmade, spdLock, at, ptr, since, replaced, calls,
    handler, signals, halted

Kernel == INSTANCE KernelSemaphore WITH at <- waiterAt
Ring == INSTANCE RingLifecycle
Log == INSTANCE Logging

ASSUME PlatformAssumption ==
    /\ Kernel!KernelAssumption
    /\ Ring!RingAssumption /\ Ring!MemoryAssumption
    /\ Log!LoggingAssumption

kernelVars == <<platform, now, wall, sets, value, owed, waiterAt, call, usecs, began,
                ts, until, disturbed>>
ringVars == <<ring, heap, mem>>
logVars == <<loggerMutex, currentLogger, refs, unmade, spdLock, at, ptr, since,
             replaced, calls, handler, signals, halted>>
vars == <<part, kernelVars, ringVars, logVars>>

MCInit ==
    /\ part \in {"kernel", "ring", "log"}
    /\ Kernel!Init
    /\ part # "kernel" => platform = CHOOSE p \in Platforms : TRUE
    /\ Ring!Init
    /\ Log!Init

InKernel(A) == part = "kernel" /\ A /\ UNCHANGED <<part, ringVars, logVars>>
InRing(A) == part = "ring" /\ A /\ UNCHANGED <<part, kernelVars, logVars>>
InLog(A) == part = "log" /\ A /\ UNCHANGED <<part, kernelVars, ringVars>>

MCNext == InKernel(Kernel!Next) \/ InRing(Ring!Next) \/ InLog(Log!Next)

\* Time passes and the kernel returns when a token or the timeout is there; a
\* thread that can run does.
MCFairness ==
    /\ WF_vars(InKernel(Kernel!Tick))
    /\ WF_vars(InKernel(Kernel!Arm \/ Kernel!ArmTimed))
    /\ WF_vars(InKernel(Kernel!Take \/ Kernel!TimeOut))
    /\ WF_vars(InKernel(Kernel!Post))
    /\ \A t \in Threads :
        /\ WF_vars(InLog(Log!CallGoesOn(t)))
        /\ WF_vars(InLog(Log!HandlerStep(t)))

MCSpec == MCInit /\ [][MCNext]_vars /\ MCFairness

-----------------------------------------------------------------------------
\* The types of all three parts.
TypesOK == Kernel!TypeOK /\ Ring!TypeOK /\ Log!TypeOK

\* A timed wait of the kernel's semaphore does not give up before its time.
NotEarly == Kernel!NotEarly

\* On every platform the kernel's semaphore is what LightweightSemaphore needs,
\* and rings are values that are moved.
ImplementsPromises == Kernel!ImplementsContract /\ Ring!ImplementsValues

\* Timed waits of the kernel's semaphore end, and signals wake; calls of the
\* logger return, and interrupts outside of spdlog take effect.
CallsAnswer == Kernel!KernelAnswers /\ Log!LocksAreFreed

\* Blocks and elements have one ring that frees them, and lie inside it.
RingsOwnMemory == Ring!OwnedOnce /\ Ring!ElementsInside

\* The logger is alive while it is used, counted, and not a stale one.
LoggerKept == Log!LoggerKept
===============================================================================
