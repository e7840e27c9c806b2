----------------------------- MODULE SimpleExample -----------------------------
(***************************************************************************)
(* The program of Simple.cpp: main is itself the client of the pipeline of *)
(* SourceExample, pushes blocks until SIGINT sets a global flag, ends the  *)
(* stream, waits for the sink, logs what it has done and leaves.           *)
(***************************************************************************)
EXTENDS Integers, Sequences, FiniteSets

CONSTANTS
    NumBlocks,          \* numBlocks, what main is to push
    Capacity,           \* maxBlocks of the buffer
    WithAccumulator     \* withAccumulator

SimpleAssumption ==
    /\ NumBlocks \in Nat
    /\ Capacity \in Nat \ {0}
    /\ WithAccumulator \in BOOLEAN

VARIABLES
    client, sent, call, hadError, offer, queue, thread, seen, status,
    eosCalls, reported, terminated,     \* of the pipeline
    main,           \* where main() is
    cancel,         \* the flag
    pushedAtCancel, \* the blocks pushed when it was set
    refs, alive, todo,      \* of the ownership
    sigint          \* what SIGINT does: "none" yet, "print", "cancel" or "kill"

pipeline == <<client, sent, call, hadError, offer, queue, thread, seen, status,
              eosCalls, reported, terminated>>
memory == <<refs, alive, todo>>
vars == <<pipeline, main, cancel, pushedAtCancel, memory, sigint>>

Chain == IF WithAccumulator THEN <<"tb", "accum", "monitor">> ELSE <<"tb", "monitor">>
Wired == {Chain[i] : i \in DOMAIN Chain}

Connected == [e \in Wired |->
    LET i == CHOOSE i \in DOMAIN Chain : Chain[i] = e
    IN  SubSeq(Chain, i + 1, IF i < Len(Chain) THEN i + 1 ELSE i)]

Pipe == INSTANCE StreamPipeline WITH
    Elements <- Wired, Root <- "tb", Buffers <- {"tb"},
    Visitors <- [e \in Wired |-> IF e = "monitor" THEN <<"StreamSink">> ELSE <<>>],
    Processors <- Connected, MaxBlocks <- NumBlocks, ClientEnds <- {"success"},
    Failures <- {}

Objects == {"sink"} \cup Wired
Threads == {"main"}
Local(v) == <<"main", v>>
Member(o) == <<"member", o>>

Owned(o) == IF o = "monitor" THEN <<"sink">> ELSE IF o = "sink" THEN <<>> ELSE Connected[o]

Memory == INSTANCE SharedOwnership WITH
    Joining <- {"tb"},
    owned <- [o \in Objects |-> Owned(o)],
    ended <- IF thread["tb"] \in {"none", "ended"} THEN {"tb"} ELSE {}

\* main's locals, in the reverse order of their declaration.
LeavingMain ==
    <<Memory!Release(Local("sink"), "sink"),
      Memory!Release(Local("throughputMonitor"), "monitor"),
      Memory!Release(Local("ds"), "monitor"),
      Memory!Release(Local("tb"), "tb")>>

Init ==
    /\ Pipe!Init
    /\ main = "begin"
    /\ cancel = FALSE
    /\ pushedAtCancel = NumBlocks
    /\ refs = [o \in Objects |-> {}]
    /\ alive = {}
    /\ todo = [t \in Threads |-> <<>>]
    /\ sigint = "none"

-----------------------------------------------------------------------------
(***************************************************************************)
(* main().                                                                 *)
(***************************************************************************)
RegisterSignalHandlers ==
    /\ main = "begin"
    /\ main' = "handler"
    /\ sigint' = "print"
    /\ UNCHANGED <<pipeline, cancel, pushedAtCancel, memory>>

RegisterInterruptHandler ==
    /\ main = "handler"
    /\ main' = "wire"
    /\ sigint' = IF sigint = "print" THEN "cancel" ELSE sigint
    /\ UNCHANGED <<pipeline, cancel, pushedAtCancel, memory>>

Wire ==
    /\ main = "wire"
    /\ main' = "loop"
    /\ alive' = Objects
    /\ refs' = [o \in Objects |->
                  {Member(d) : d \in {d \in Objects :
                                        \E i \in DOMAIN Owned(d) : Owned(d)[i] = o}}
                  \cup (CASE o = "tb"      -> {Local("tb")}
                          [] o = "monitor" -> {Local("ds"), Local("throughputMonitor")}
                          [] o = "sink"    -> {Local("sink")}
                          [] OTHER         -> {})]
    /\ UNCHANGED <<pipeline, cancel, pushedAtCancel, todo, sigint>>

Returned == ~Pipe!Pending("tb")     \* the last tb->pushData

\* The loop's condition and its break.  (Fault: the flag is not looked at.)
GoesOnRegardless == Len(sent) < NumBlocks
GoesOn == Len(sent) < NumBlocks /\ ~cancel

CheckLoop ==
    /\ main = "loop"
    /\ Returned
    /\ main' = IF GoesOn THEN "block" ELSE "eop"
    /\ UNCHANGED <<pipeline, cancel, pushedAtCancel, memory, sigint>>

PushBlock ==
    /\ main = "block"
    /\ Pipe!PushBlock
    /\ main' = "loop"
    /\ UNCHANGED <<cancel, pushedAtCancel, memory, sigint>>

\* The end is a success, also of a stream that was broken off.
PushEop ==
    /\ main = "eop"
    /\ Pipe!PushEop("success")
    /\ main' = "wait"
    /\ UNCHANGED <<cancel, pushedAtCancel, memory, sigint>>

\* sink->wait(), whose result is not used.  (Fault: main does not wait.)
WaitNot ==
    /\ main = "wait"
    /\ Returned
    /\ main' = "log"
    /\ UNCHANGED <<pipeline, cancel, pushedAtCancel, memory, sigint>>
Wait ==
    /\ main = "wait"
    /\ Returned
    /\ Pipe!Wait("monitor")
    /\ main' = "log"
    /\ UNCHANGED <<cancel, pushedAtCancel, memory, sigint>>

LogTotal ==
    /\ main = "log"
    /\ main' = "leave"
    /\ todo' = [todo EXCEPT !["main"] = LeavingMain]
    /\ UNCHANGED <<pipeline, cancel, pushedAtCancel, refs, alive, sigint>>

Exit ==
    /\ main = "leave"
    /\ todo["main"] = <<>>
    /\ main' = "exited"
    /\ UNCHANGED <<pipeline, cancel, pushedAtCancel, memory, sigint>>

Teardown ==
    /\ Memory!Teardown("main")
    /\ UNCHANGED <<pipeline, main, cancel, pushedAtCancel, sigint>>

\* pushData of the buffer, on main's thread.
PushData ==
    /\ Pipe!StartThread("tb") \/ Pipe!Enqueue("tb") \/ Pipe!EnqueueTimesOut("tb")
    /\ UNCHANGED <<main, cancel, pushedAtCancel, memory, sigint>>

MainStep ==
    \/ RegisterSignalHandlers \/ RegisterInterruptHandler \/ Wire
    \/ CheckLoop \/ PushBlock \/ PushEop \/ PushData
    \/ Wait \/ LogTotal \/ Exit \/ Teardown

-----------------------------------------------------------------------------
BufferStep ==
    /\ \/ Pipe!Dequeue("tb") \/ Pipe!AfterPush("tb")
       \/ \E e \in Wired : Pipe!ElementStep(e)
    /\ UNCHANGED <<main, cancel, pushedAtCancel, memory, sigint>>

Running == main \notin {"exited", "killed"}

\* SIGINT: kills before there is a handler and after one has run; else the
\* default handler prints, and main's sets the flag.
Interrupt ==
    /\ Running
    /\ \/ /\ sigint \in {"none", "kill"}
          /\ main' = "killed"
          /\ UNCHANGED <<cancel, pushedAtCancel, sigint>>
       \/ /\ sigint = "print"
          /\ sigint' = "kill"
          /\ UNCHANGED <<main, cancel, pushedAtCancel>>
       \/ /\ sigint = "cancel"
          /\ sigint' = "kill"
          /\ cancel' = TRUE
          /\ pushedAtCancel' = Len(sent)
          /\ UNCHANGED main
    /\ UNCHANGED <<pipeline, memory>>

Over ==
    /\ ~Running
    /\ UNCHANGED vars

Next ==
    \/ /\ Running
       /\ MainStep \/ BufferStep
    \/ Interrupt
    \/ Over

Spec == Init /\ [][Next]_vars

\* Both threads keep running; a push is let in once there is room.
Fairness ==
    /\ WF_vars(Running /\ MainStep)
    /\ WF_vars(Running /\ BufferStep)

FairSpec == Spec /\ Fairness

-----------------------------------------------------------------------------
(***************************************************************************)
(* Properties.                                                             *)
(***************************************************************************)
TypeOK ==
    /\ Pipe!TypeOK
    /\ main \in {"begin", "handler", "wire", "loop", "block", "eop", "wait", "log",
                 "leave", "exited", "killed"}
    /\ cancel \in BOOLEAN
    /\ pushedAtCancel \in 0 .. NumBlocks + 1
    /\ \A o \in Objects :
        refs[o] \subseteq {Member(d) : d \in Objects}
                    \cup {LeavingMain[i].holder : i \in DOMAIN LeavingMain}
    /\ alive \subseteq Objects
    /\ sigint \in {"none", "print", "cancel", "kill"}

\* main leaves as soon as the sink has its status, with the buffer's thread
\* still inside the pipeline; what this thread is in is not destroyed under it.
NoUseAfterDestroy ==
    main \notin {"begin", "handler", "wire", "killed"} =>
        /\ thread["tb"] \in {"waiting", "pushing"} => "tb" \in alive
        /\ {e \in Wired : call[e].at # "idle"} \subseteq alive
        /\ call["monitor"].at = "visit" => "sink" \in alive

\* Once main has the status, every block that it pushed has been through the
\* pipeline: what is broken off is the pushing, not the processing.
WaitedForAll == main \in {"log", "leave", "exited"} => seen["monitor"] = sent

\* At most the block that main was about to push follows the interrupt, and
\* the end of the stream.
CancelTakesEffect == cancel => Len(sent) <= pushedAtCancel + 2

\* When main returns, every object has been destroyed and the thread has ended.
NothingLeft == main = "exited" => alive = {} /\ thread["tb"] = "ended"

\* The program ends: every push, the wait and the join return.
ProgramEnds == <>~Running

=============================================================================
