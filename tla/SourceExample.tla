----------------------------- MODULE SourceExample -----------------------------
(***************************************************************************)
(* The program of Source.cpp: main wires a SimpleSource to a pipeline of a *)
(* threaded buffer, an optional accumulator and a monitor with a sink,     *)
(* starts the source, waits for the sink and leaves; the source's thread   *)
(* is the client of the pipeline; SIGINT cancels the source.  The objects  *)
(* are owned by reference counts, so that leaving destroys them on         *)
(* whatever thread drops the last reference, and destructors join threads. *)
(*                                                                         *)
(* The pipeline is StreamPipeline, whose client is the source's thread.    *)
(***************************************************************************)
EXTENDS Integers, Sequences, FiniteSets

CONSTANTS
    NumBlocks,          \* numBlocks, the blocks the source is to push
    Capacity,           \* maxBlocks of the buffer
    WithAccumulator,    \* withAccumulator
    MayStop             \* does anyone call stop()?  Nobody does in Source.cpp

ASSUME ExampleAssumption ==
    /\ NumBlocks \in Nat
    /\ Capacity \in Nat \ {0}
    /\ WithAccumulator \in BOOLEAN
    /\ MayStop \in BOOLEAN

VARIABLES
    client, sent, call, hadError, offer, queue, thread, seen, status,
    eosCalls, reported, terminated,     \* of the pipeline
    main,           \* where main() is
    run,            \* where SimpleSource::run is, "none" before start()
    flag,           \* _stop_flag
    stopFlag,       \* run's second load of it
    pushedAtHalt,   \* the blocks pushed when it was first stopped or cancelled
    refs,           \* per object, who holds a shared_ptr to it
    alive,          \* the objects that are constructed and not destroyed
    todo,           \* per thread, the releases, joins and frees it is to do
    sigint,         \* what SIGINT does: "print", "cancel", or "kill"
    dangling        \* the interrupt handler used a source that was destroyed

pipeline == <<client, sent, call, hadError, offer, queue, thread, seen, status,
              eosCalls, reported, terminated>>
control == <<main, run, flag, stopFlag, pushedAtHalt>>
memory == <<refs, alive, todo>>
interrupts == <<sigint, dangling>>
vars == <<pipeline, control, memory, interrupts>>

Chain == IF WithAccumulator THEN <<"tb", "accum", "monitor">> ELSE <<"tb", "monitor">>
Wired == {Chain[i] : i \in DOMAIN Chain}

\* Each element of the chain is connected to the next.
Connected == [e \in Wired |->
    LET i == CHOOSE i \in DOMAIN Chain : Chain[i] = e
    IN  SubSeq(Chain, i + 1, IF i < Len(Chain) THEN i + 1 ELSE i)]

Pipe == INSTANCE StreamPipeline WITH
    Elements <- Wired, Root <- "tb", Buffers <- {"tb"},
    Visitors <- [e \in Wired |-> IF e = "monitor" THEN <<"StreamSink">> ELSE <<>>],
    Processors <- Connected, MaxBlocks <- NumBlocks,
    ClientEnds <- {"success", "cancelled", "error"}, Failures <- {}

-----------------------------------------------------------------------------
(***************************************************************************)
(* Ownership.  A holder is a local variable of main, the source's thread   *)
(* (the argument that run was started with) or a member of an object.      *)
(***************************************************************************)
Objects == {"source", "sink"} \cup Wired
Threads == {"main", "source", "tb"}     \* a thread is named after its owner

Local(v) == <<"main", v>>
Member(o) == <<"member", o>>
Argument == <<"thread", "source">>

\* What the objects own: the processors and visitors of the chain, and the
\* source its downstream until start() moves it away.  (Fault: the monitor
\* also keeps the buffer, a cycle.)
OwnedInCycle(o) ==
    CASE o = "monitor" -> <<"sink", "tb">>
      [] o \in Wired \ {"monitor"} -> Connected[o]
      [] o = "source" /\ run = "none" -> <<"tb">>
      [] OTHER -> <<>>
Owned(o) ==
    CASE o = "monitor" -> <<"sink">>
      [] o \in Wired \ {"monitor"} -> Connected[o]
      [] o = "source" /\ run = "none" -> <<"tb">>
      [] OTHER -> <<>>

ThreadEnded(o) ==
    IF o = "source" THEN run \in {"none", "ended"} ELSE thread[o] \in {"none", "ended"}

Memory == INSTANCE SharedOwnership WITH
    Joining <- {"source", "tb"},
    owned <- [o \in Objects |-> Owned(o)],
    ended <- {o \in {"source", "tb"} : ThreadEnded(o)}

\* main's locals go in the reverse order of their declaration.
LeavingMain ==
    <<Memory!Release(Local("sink"), "sink"),
      Memory!Release(Local("throughputMonitor"), "monitor"),
      Memory!Release(Local("ds"), "monitor"),
      Memory!Release(Local("tb"), "tb"),
      Memory!Release(Local("source"), "source")>>

Init ==
    /\ Pipe!Init
    /\ main = "begin"
    /\ run = "none"
    /\ flag = 0
    /\ stopFlag = 0
    /\ pushedAtHalt = NumBlocks
    /\ refs = [o \in Objects |-> IF o = "source" THEN {Local("source")} ELSE {}]
    /\ alive = {"source"}
    /\ todo = [t \in Threads |-> <<>>]
    /\ sigint = "print"
    /\ dangling = FALSE

-----------------------------------------------------------------------------
(***************************************************************************)
(* main().                                                                 *)
(***************************************************************************)
\* registerProgramInterruptHandler: the function is replaced, the signal's
\* disposition is not.
InstallHandler ==
    /\ main = "begin"
    /\ main' = "wire"
    /\ sigint' = IF sigint = "print" THEN "cancel" ELSE sigint
    /\ UNCHANGED <<pipeline, run, flag, stopFlag, pushedAtHalt, memory, dangling>>

\* The elements are created and connected; ds ends as the monitor, and the
\* accumulator's own variable has gone out of scope.
Wire ==
    /\ main = "wire"
    /\ main' = "start"
    /\ alive' = Objects
    /\ refs' = [o \in Objects |->
                  {Member(d) : d \in {d \in Objects :
                                        \E i \in DOMAIN Owned(d) : Owned(d)[i] = o}}
                  \cup (CASE o = "source"  -> {Local("source")}
                          [] o = "tb"      -> {Local("tb")}
                          [] o = "monitor" -> {Local("ds"), Local("throughputMonitor")}
                          [] o = "sink"    -> {Local("sink")}
                          [] OTHER         -> {})]
    /\ UNCHANGED <<pipeline, run, flag, stopFlag, pushedAtHalt, todo, interrupts>>

\* start(): the downstream pointer moves into the new thread.
Start ==
    /\ main = "start"
    /\ main' = "wait"
    /\ run' = "loop"
    /\ refs' = [refs EXCEPT !["tb"] = (@ \ {Member("source")}) \cup {Argument}]
    /\ UNCHANGED <<pipeline, flag, stopFlag, pushedAtHalt, alive, todo, interrupts>>

\* sink->wait() returns and main leaves.
WaitAndLeave ==
    /\ main = "wait"
    /\ Pipe!Wait("monitor")
    /\ main' = "leave"
    /\ todo' = [todo EXCEPT !["main"] = LeavingMain]
    /\ UNCHANGED <<run, flag, stopFlag, pushedAtHalt, refs, alive, interrupts>>

Exit ==
    /\ main = "leave"
    /\ todo["main"] = <<>>
    /\ main' = "exited"
    /\ UNCHANGED <<pipeline, run, flag, stopFlag, pushedAtHalt, memory, interrupts>>

-----------------------------------------------------------------------------
(***************************************************************************)
(* SimpleSource::run, the pipeline's client, and its thread's end.         *)
(***************************************************************************)
Returned == ~Pipe!Pending("tb")     \* the last downstream->pushData

\* The loop's condition.  (Fault: the flag is not looked at.)
GoesOnRegardless == Len(sent) < NumBlocks
GoesOn == Len(sent) < NumBlocks /\ flag = 0

CheckLoop ==
    /\ run = "loop"
    /\ Returned
    /\ run' = IF GoesOn THEN "block" ELSE "end"
    /\ UNCHANGED <<pipeline, main, flag, stopFlag, pushedAtHalt, memory, interrupts>>

PushBlock ==
    /\ run = "block"
    /\ Pipe!PushBlock
    /\ run' = "loop"
    /\ UNCHANGED <<main, flag, stopFlag, pushedAtHalt, memory, interrupts>>

ReloadFlag ==
    /\ run = "end"
    /\ stopFlag' = flag
    /\ run' = "eop"
    /\ UNCHANGED <<pipeline, main, flag, pushedAtHalt, memory, interrupts>>

\* The status of the EOP.  (Fault: always success.)
EndSuccess == "success"
EndStatus ==
    IF stopFlag \in {0, 1} THEN "success"
    ELSE IF stopFlag = 2 THEN "cancelled" ELSE "error"

PushEop ==
    /\ run = "eop"
    /\ Pipe!PushEop(EndStatus)
    /\ run' = "return"
    /\ UNCHANGED <<main, flag, stopFlag, pushedAtHalt, memory, interrupts>>

\* run returns, and the thread destroys the argument it was started with.
ReturnFromRun ==
    /\ run = "return"
    /\ Returned
    /\ run' = "leave"
    /\ todo' = [todo EXCEPT !["source"] = <<Memory!Release(Argument, "tb")>>]
    /\ UNCHANGED <<pipeline, main, flag, stopFlag, pushedAtHalt, refs, alive, interrupts>>

EndThread ==
    /\ run = "leave"
    /\ todo["source"] = <<>>
    /\ run' = "ended"
    /\ UNCHANGED <<pipeline, main, flag, stopFlag, pushedAtHalt, memory, interrupts>>

\* Releases, joins and frees, on the thread that has them to do.
Teardown(t) ==
    /\ Memory!Teardown(t)
    /\ UNCHANGED <<pipeline, control, interrupts>>

-----------------------------------------------------------------------------
(***************************************************************************)
(* SIGINT.  The default handler prints; main's cancels the source.  Either *)
(* restores SIG_DFL, so the next SIGINT kills the process.                 *)
(***************************************************************************)
Running == main \notin {"exited", "killed"}

\* The data blocks that the source has pushed.
Pushed == Len(sent) - (IF client = "done" THEN 1 ELSE 0)

\* stop() and cancel(): the last one called decides.
Halt(f) ==
    /\ flag' = f
    /\ pushedAtHalt' = IF flag = 0 THEN Pushed ELSE pushedAtHalt

Stop ==
    /\ MayStop
    /\ main \in {"start", "wait"}
    /\ Halt(1)
    /\ UNCHANGED <<pipeline, main, run, stopFlag, memory, interrupts>>

\* (Fault: a value that run() does not know.)
CancelUnknown == Halt(3)
Cancel == Halt(2)

Interrupt ==
    /\ Running
    /\ \/ /\ sigint = "print"
          /\ sigint' = "kill"
          /\ UNCHANGED <<control, dangling>>
       \/ /\ sigint = "cancel"
          /\ sigint' = "kill"
          /\ IF "source" \in alive
             THEN Cancel /\ UNCHANGED dangling
             ELSE dangling' = TRUE /\ UNCHANGED <<flag, pushedAtHalt>>
          /\ UNCHANGED <<main, run, stopFlag>>
       \/ /\ sigint = "kill"
          /\ main' = "killed"
          /\ UNCHANGED <<run, flag, stopFlag, pushedAtHalt, interrupts>>
    /\ UNCHANGED <<pipeline, memory>>

-----------------------------------------------------------------------------
MainStep ==
    \/ InstallHandler \/ Wire \/ Start \/ WaitAndLeave \/ Exit \/ Teardown("main")

SourceStep ==
    \/ CheckLoop \/ PushBlock \/ ReloadFlag \/ PushEop \/ ReturnFromRun \/ EndThread
    \/ Teardown("source")
    \/ /\ Pipe!StartThread("tb") \/ Pipe!Enqueue("tb") \/ Pipe!EnqueueTimesOut("tb")
       /\ UNCHANGED <<control, memory, interrupts>>

BufferStep ==
    /\ \/ Pipe!Dequeue("tb") \/ Pipe!AfterPush("tb")
       \/ \E e \in Wired : Pipe!ElementStep(e)
    /\ UNCHANGED <<control, memory, interrupts>>

Over ==
    /\ ~Running
    /\ UNCHANGED vars

Next ==
    \/ /\ Running
       /\ MainStep \/ SourceStep \/ BufferStep
    \/ Stop
    \/ Interrupt
    \/ Over

Spec == Init /\ [][Next]_vars

\* Each thread keeps running; a push is let in once there is room.
Fairness ==
    /\ WF_vars(Running /\ MainStep)
    /\ WF_vars(Running /\ SourceStep)
    /\ WF_vars(Running /\ BufferStep)

FairSpec == Spec /\ Fairness

-----------------------------------------------------------------------------
(***************************************************************************)
(* Properties.                                                             *)
(***************************************************************************)
Tasks == [do : {"release", "join", "free"}, target : Objects,
          holder : {Argument} \cup {Member(o) : o \in Objects}
                     \cup {LeavingMain[i].holder : i \in DOMAIN LeavingMain}]

TypeOK ==
    /\ Pipe!TypeOK
    /\ main \in {"begin", "wire", "start", "wait", "leave", "exited", "killed"}
    /\ run \in {"none", "loop", "block", "end", "eop", "return", "leave", "ended"}
    /\ flag \in 0 .. 2
    /\ stopFlag \in 0 .. 2
    /\ pushedAtHalt \in 0 .. NumBlocks
    /\ \A o \in Objects : refs[o] \subseteq {t.holder : t \in Tasks}
    /\ alive \subseteq Objects
    /\ todo \in [Threads -> Seq(Tasks)]
    /\ sigint \in {"print", "cancel", "kill"}
    /\ dangling \in BOOLEAN

\* The objects some thread is inside of: the buffer that the source pushes to,
\* whose thread runs on it, the elements this has called, the sink it visits.
InUse ==
    (IF run \in {"loop", "block", "end", "eop", "return"}
          \/ thread["tb"] \in {"waiting", "pushing"} THEN {"tb"} ELSE {})
    \cup {e \in Wired : call[e].at # "idle"}
    \cup (IF call["monitor"].at = "visit" THEN {"sink"} ELSE {})

\* wait() returns while the buffer's thread is still inside the pipeline, main
\* then drops its references and the source's thread drops its own: whichever
\* is last, nothing is destroyed under a thread that uses it.
NoUseAfterDestroy == InUse \subseteq alive

\* A success is only reported of a complete stream or a stopped one, and a
\* cancelled end only after an interrupt, although run() reads the flag twice.
StatusIsTrue ==
    /\ status["monitor"] = "success" =>
            Len(seen["monitor"]) = NumBlocks + 1 \/ stopFlag = 1
    /\ status["monitor"] = "cancelled" => sigint = "kill"
    /\ status["monitor"] # "error"

\* After stop() or cancel() the source pushes at most the block it was about
\* to push.
HaltTakesEffect == flag # 0 => Pushed <= pushedAtHalt + 1

\* When main returns, every object has been destroyed and every thread ended.
NothingLeft ==
    main = "exited" => /\ alive = {}
                       /\ run = "ended"
                       /\ thread["tb"] = "ended"

\* The program ends: the wait, both joins and the pushes return.
ProgramEnds == <>~Running

\* The interrupt handler that main registers "to stop the source" finds it.
InterruptFindsSource == ~dangling

=============================================================================
