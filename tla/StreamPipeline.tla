---------------------------- MODULE StreamPipeline ----------------------------
(***************************************************************************)
(* The pipeline of DataStream.hpp: a client thread pushes blocks into a    *)
(* tree of elements.  A StreamProcessor processes a block, shows the       *)
(* result to its visitors and pushes it to each connected element, all on  *)
(* the thread that called pushData.  A StreamThreadedBuffer enqueues the   *)
(* block instead; a thread of its own, started by the first push, takes    *)
(* blocks from the queue and pushes them on.  A StreamSink is a visitor    *)
(* that fulfils a promise when it is shown an end of processing (EOP).     *)
(*                                                                         *)
(* In a tree an element is called by one thread and is not re-entered, so  *)
(* the call stacks are kept per element: call[e] is the activation of      *)
(* StreamProcessor::pushData, offer[b] that of a buffer's own pushData.    *)
(* The queue of a buffer behaves as BoundedFifo, which CircularBuffer      *)
(* implements.                                                             *)
(***************************************************************************)
EXTENDS Integers, Sequences, FiniteSets

CONSTANTS
    Elements,       \* the processors and buffers
    Root,           \* the element the client pushes to
    Buffers,        \* those that are StreamThreadedBuffers
    Visitors,       \* the kinds of the visitors connected to each, in order
    Processors,     \* the elements connected to each, in order
    Capacity,       \* maxBlocks of every buffer
    MaxBlocks,      \* bound on the data blocks the client pushes
    ClientEnds,     \* the statuses the client ends the stream with
    Failures        \* the statuses an element may itself fill out

Statuses == {"success", "cancelled", "error"}

Kinds == {"StreamSink", "OnEosVistor", "AnonymousVisitor"}
With(kind) == {e \in Elements : \E i \in DOMAIN Visitors[e] : Visitors[e][i] = kind}

Sinks == With("StreamSink")

Children(e) == {Processors[e][i] : i \in DOMAIN Processors[e]}

\* Path[d]: the elements from which d is reached, d included.
Upward(S) == \A e \in Elements : Children(e) \cap S # {} => e \in S
Path ==
    [d \in Elements |->
        {e \in Elements : \A S \in SUBSET Elements : d \in S /\ Upward(S) => e \in S}]

ASSUME PipelineAssumption ==
    /\ IsFiniteSet(Elements)
    /\ Root \in Elements
    /\ Buffers \subseteq Elements
    /\ Visitors \in [Elements -> Seq(Kinds)]
    /\ \A e \in Elements : \A i, j \in DOMAIN Visitors[e] :
        Visitors[e][i] = Visitors[e][j] => i = j        \* one of each at most
    /\ Processors \in [Elements -> Seq(Elements)]
    /\ Capacity \in Nat \ {0}
    /\ MaxBlocks \in Nat
    /\ ClientEnds \subseteq Statuses
    /\ Failures \subseteq Statuses
    /\ \A e \in Elements : Root \notin Children(e)      \* a tree
    /\ \A e \in Elements : Root \in Path[e]
    /\ \A d, e \in Elements :
        \A i \in DOMAIN Processors[d], j \in DOMAIN Processors[e] :
            Processors[d][i] = Processors[e][j] => d = e /\ i = j

VARIABLES
    client,         \* "pushing" until it has pushed its EOP
    sent,           \* what the client has pushed
    call,           \* per element, the activation of StreamProcessor::pushData
    hadError,       \* _had_error
    offer,          \* per buffer, the block its pushData is to enqueue
    queue,          \* per buffer, _queue
    thread,         \* per buffer, what its thread is doing
    seen,           \* per sink, the blocks it has been shown
    status,         \* per sink, the value of its promise
    eosCalls,       \* per element, how often its OnEosVistor called its function
    reported,       \* the sinks whose wait() has returned
    terminated      \* std::terminate was called

vars == <<client, sent, call, hadError, offer, queue, thread, seen, status,
          eosCalls, reported, terminated>>

\* A block is a number, 0 for one without data, and an optional EOP status.
Blocks == [id : 0 .. MaxBlocks, eop : Statuses \cup {"none"}]
Data(n) == [id |-> n, eop |-> "none"]
Eop(s) == [id |-> 0, eop |-> s]
Empty == [id |-> 0, eop |-> "none"]
IsEop(b) == b.eop # "none"
Unset == "unset"

Activations == [at : {"idle", "enter", "visit", "forward"},
                block : Blocks, next : Nat \ {0}]

TypeOK ==
    /\ client \in {"pushing", "done"}
    /\ sent \in Seq(Blocks)
    /\ call \in [Elements -> Activations]
    /\ hadError \in [Elements -> BOOLEAN]
    /\ offer \in [Buffers -> Blocks]
    /\ queue \in [Buffers -> Seq(Blocks)]
    /\ thread \in [Buffers -> {"none", "waiting", "pushing", "ended"}]
    /\ seen \in [Sinks -> Seq(Blocks)]
    /\ status \in [Sinks -> Statuses \cup {Unset}]
    /\ eosCalls \in [Elements -> 0 .. MaxBlocks + 1]
    /\ reported \subseteq Sinks
    /\ terminated \in BOOLEAN

Idle == [at |-> "idle", block |-> Empty, next |-> 1]

Init ==
    /\ client = "pushing"
    /\ sent = <<>>
    /\ call = [e \in Elements |-> Idle]
    /\ hadError = [e \in Elements |-> FALSE]
    /\ offer = [b \in Buffers |-> Empty]
    /\ queue = [b \in Buffers |-> <<>>]
    /\ thread = [b \in Buffers |-> "none"]
    /\ seen = [s \in Sinks |-> <<>>]
    /\ status = [s \in Sinks |-> Unset]
    /\ eosCalls = [e \in Elements |-> 0]
    /\ reported = {}
    /\ terminated = FALSE

-----------------------------------------------------------------------------
\* The call e->pushData(...) has not returned.
Pending(e) ==
    IF e \in Buffers THEN offer[e] # Empty ELSE call[e].at # "idle"

\* d->pushData(b), a virtual call: a buffer is to enqueue b, a processor to
\* process it.  cs is what the caller leaves in call.
PushData(d, b, cs) ==
    \/ /\ d \in Buffers
       /\ offer' = [offer EXCEPT ![d] = b]
       /\ call' = cs
    \/ /\ d \notin Buffers
       /\ call' = [cs EXCEPT ![d] = [at |-> "enter", block |-> b, next |-> 1]]
       /\ UNCHANGED offer

-----------------------------------------------------------------------------
(***************************************************************************)
(* The client: it pushes data blocks and then one EOP.                     *)
(***************************************************************************)
Push(b) ==
    /\ client = "pushing"
    /\ ~Pending(Root)
    /\ sent' = Append(sent, b)
    /\ PushData(Root, b, call)
    /\ UNCHANGED <<hadError, queue, thread, seen, status, eosCalls, reported, terminated>>

PushBlock ==
    /\ Len(sent) < MaxBlocks
    /\ Push(Data(Len(sent) + 1))
    /\ UNCHANGED client

\* The loop may be left early, so the EOP may come after any block.
PushEop(s) ==
    /\ Push(Eop(s))
    /\ client' = "done"

\* wait() of a sink, by the main thread.
Wait(s) ==
    /\ s \notin reported
    /\ status[s] # Unset
    /\ reported' = reported \cup {s}
    /\ UNCHANGED <<client, sent, call, hadError, offer, queue, thread, seen,
                   status, eosCalls, terminated>>

-----------------------------------------------------------------------------
(***************************************************************************)
(* StreamProcessor::pushData.                                              *)
(***************************************************************************)
\* processData of an element: pass the block on (its data is not modelled) or
\* put an EOP in its place.  A buffer's is the identity.
Outputs(e, b) ==
    {b} \cup (IF e \in Buffers THEN {} ELSE {Eop(f) : f \in Failures})

\* An output that makes the element stop processing.  (Fault: none does.)
LatchesNever(out) == FALSE
Latches(out) == out.eop = "error"

\* Where pushData is before its n-th visitor, or past the last.
Visiting(e, n) ==
    IF n <= Len(Visitors[e])
    THEN [at |-> "visit", next |-> n]
    ELSE [at |-> "forward", next |-> 1]
Activation(e, out, n) ==
    [at |-> Visiting(e, n).at, block |-> out, next |-> Visiting(e, n).next]

\* Nothing happens after an error; else process the block and latch an error.
Enter(e) ==
    /\ call[e].at = "enter"
    /\ \/ /\ hadError[e]
          /\ call' = [call EXCEPT ![e].at = "idle"]
          /\ UNCHANGED hadError
       \/ /\ ~hadError[e]
          /\ \E out \in Outputs(e, call[e].block) :
              /\ call' = [call EXCEPT ![e] = Activation(e, out, 1)]
              /\ hadError' = [hadError EXCEPT ![e] = Latches(out)]
    /\ UNCHANGED <<client, sent, offer, queue, thread, seen, status, eosCalls, reported,
                   terminated>>

\* Does StreamSink fulfil its promise with this block?  (Faults: with every
\* block, or with a success only.)
FulfilsAlways(out) == TRUE
FulfilsOnSuccess(out) == out.eop = "success"
Fulfils(out) == IsEop(out)

\* The value it sets.  (Fault: a default EopStatus.)
PromiseValueDefault(out) == "success"
PromiseValue(out) == out.eop

\* A sink's promise takes one value: set_value throws on the second, and
\* nothing above catches it.
VisitSink(e, out) ==
    /\ seen' = [seen EXCEPT ![e] = Append(@, out)]
    /\ IF Fulfils(out)
       THEN /\ terminated' = (status[e] # Unset)
            /\ status' = [status EXCEPT ![e] = IF @ = Unset THEN PromiseValue(out) ELSE @]
       ELSE UNCHANGED <<status, terminated>>
    /\ UNCHANGED eosCalls

\* Does OnEosVistor call its function?
CallsFunc(out) == IsEop(out)

VisitOnEos(e, out) ==
    /\ eosCalls' = [eosCalls EXCEPT ![e] = IF CallsFunc(out) THEN @ + 1 ELSE @]
    /\ UNCHANGED <<seen, status, terminated>>

\* The next visitor sees the output.  Whether a user's function returns true
\* or false makes no difference: false is logged.
Visit(e) ==
    LET out == call[e].block
        kind == Visitors[e][call[e].next]
    IN
    /\ call[e].at = "visit"
    /\ call' = [call EXCEPT ![e] = Activation(e, out, @.next + 1)]
    /\ CASE kind = "StreamSink"       -> VisitSink(e, out)
         [] kind = "OnEosVistor"      -> VisitOnEos(e, out)
         [] kind = "AnonymousVisitor" -> UNCHANGED <<seen, status, eosCalls, terminated>>
    /\ UNCHANGED <<client, sent, hadError, offer, queue, thread, reported>>

\* The calls pushed so far have returned.
ChildrenIdle(e) == \A i \in 1 .. call[e].next - 1 : ~Pending(Processors[e][i])

Forward(e) ==
    /\ call[e].at = "forward"
    /\ ChildrenIdle(e)
    /\ call[e].next <= Len(Processors[e])
    /\ PushData(Processors[e][call[e].next], call[e].block,
                [call EXCEPT ![e].next = @ + 1])
    /\ UNCHANGED <<client, sent, hadError, queue, thread, seen, status,
                   eosCalls, reported, terminated>>

\* pushData returns; its block is left, the model's copy of run()'s sdb.
Finish(e) ==
    /\ call[e].at = "forward"
    /\ ChildrenIdle(e)
    /\ call[e].next > Len(Processors[e])
    /\ call' = [call EXCEPT ![e].at = "idle", ![e].next = 1]
    /\ UNCHANGED <<client, sent, hadError, offer, queue, thread, seen, status,
                   eosCalls, reported, terminated>>

ElementStep(e) == Enter(e) \/ Visit(e) \/ Forward(e) \/ Finish(e)

-----------------------------------------------------------------------------
(***************************************************************************)
(* StreamThreadedBuffer: pushData, on the caller's thread, and run().      *)
(***************************************************************************)
\* Room in _queue.  (Fault: for one block more than its capacity.)
RoomForOneMore(b) == Len(queue[b]) <= Capacity
Room(b) == Len(queue[b]) < Capacity

\* What is left of a queue after wait_dequeue.  (Fault: it only peeks.)
AfterPeek(blocks) == blocks
AfterDequeue(blocks) == Tail(blocks)

\* Does the loop of run() end after a block?  (Fault: after any.)
LoopEndsAlways(b) == TRUE
LoopEnds(b) == IsEop(b)

StartThread(b) ==
    /\ offer[b] # Empty
    /\ thread[b] = "none"
    /\ thread' = [thread EXCEPT ![b] = "waiting"]
    /\ UNCHANGED <<client, sent, call, hadError, offer, queue, seen, status,
                   eosCalls, reported, terminated>>

\* A wait_enqueue_timed that finds room within its millisecond.
Enqueue(b) ==
    /\ offer[b] # Empty
    /\ thread[b] # "none"
    /\ Room(b)
    /\ queue' = [queue EXCEPT ![b] = Append(@, offer[b])]
    /\ offer' = [offer EXCEPT ![b] = Empty]
    /\ UNCHANGED <<client, sent, call, hadError, thread, seen, status,
                   eosCalls, reported, terminated>>

\* One that does not: pushData asks again, for ever if need be.
EnqueueTimesOut(b) ==
    /\ offer[b] # Empty
    /\ thread[b] # "none"
    /\ ~Room(b)
    /\ UNCHANGED vars

\* run(): wait_dequeue, then StreamProcessor::pushData of the block.
Dequeue(b) ==
    /\ thread[b] = "waiting"
    /\ queue[b] # <<>>
    /\ queue' = [queue EXCEPT ![b] = AfterDequeue(@)]
    /\ thread' = [thread EXCEPT ![b] = "pushing"]
    /\ call' = [call EXCEPT ![b] = [at |-> "enter", block |-> Head(queue[b]),
                                    next |-> 1]]
    /\ UNCHANGED <<client, sent, hadError, offer, seen, status, eosCalls, reported,
                   terminated>>

\* run(): the push has returned, and the loop goes on or ends.
AfterPush(b) ==
    /\ thread[b] = "pushing"
    /\ call[b].at = "idle"
    /\ thread' = [thread EXCEPT ![b] = IF LoopEnds(call[b].block) THEN "ended"
                                       ELSE "waiting"]
    /\ UNCHANGED <<client, sent, call, hadError, offer, queue, seen, status,
                   eosCalls, reported, terminated>>

BufferStep(b) ==
    \/ StartThread(b) \/ Enqueue(b) \/ EnqueueTimesOut(b)
    \/ Dequeue(b) \/ AfterPush(b)

-----------------------------------------------------------------------------
\* Every call has returned and every thread that was started has ended.
Quiet ==
    /\ \A e \in Elements : call[e].at = "idle"
    /\ \A b \in Buffers : offer[b] = Empty /\ thread[b] \in {"none", "ended"}

\* The end of the program: all is done, or std::terminate was called.
Stopped ==
    /\ terminated \/ (client = "done" /\ Quiet)
    /\ UNCHANGED vars

Next ==
    \/ /\ ~terminated
       /\ \/ PushBlock
          \/ \E s \in ClientEnds : PushEop(s)
          \/ \E e \in Elements : ElementStep(e)
          \/ \E b \in Buffers : BufferStep(b)
          \/ \E s \in Sinks : Wait(s)
    \/ Stopped

Spec == Init /\ [][Next]_vars

\* The client's loop ends, threads keep running, and an attempt to enqueue
\* does not fail for ever while there is room (ProducerServed and
\* ImplementsCounting of the modules below).  A step of an element belongs to
\* the one thread that is in its pushData.
Fairness ==
    /\ WF_vars(~terminated /\ (PushBlock \/ \E s \in ClientEnds : PushEop(s)))
    /\ \A e \in Elements : WF_vars(~terminated /\ ElementStep(e))
    /\ \A b \in Buffers :
        /\ WF_vars(~terminated /\ (StartThread(b) \/ Enqueue(b)))
        /\ WF_vars(~terminated /\ (Dequeue(b) \/ AfterPush(b)))
    /\ \A s \in Sinks : WF_vars(~terminated /\ Wait(s))

FairSpec == Spec /\ Fairness

-----------------------------------------------------------------------------
(***************************************************************************)
(* Properties.                                                             *)
(***************************************************************************)
\* No sink is shown a second EOP: its promise is fulfilled once, and the
\* process is not brought down by promise_already_satisfied.
PromiseSetOnce == ~terminated

\* The success that a sink reports is the whole truth: the client ended with
\* success, the sink was shown every block that was pushed, and no element on
\* the way failed, then or since.
SuccessIsTrue ==
    \A s \in Sinks :
        status[s] = "success" =>
            /\ client = "done"
            /\ seen[s] = sent
            /\ \A e \in Path[s] : ~hadError[e]

\* Backpressure: while nothing fails, the blocks pushed and not yet shown to a
\* sink are at most what the queues on its path hold, one more that each of
\* their threads works on, and the one the client is pushing.
InFlightBounded ==
    \A s \in Sinks :
        LET n == Cardinality(Path[s] \cap Buffers)
        IN  (\A e \in Path[s] : ~hadError[e]) =>
                Len(sent) - Len(seen[s]) <= n * (Capacity + 1) + 1

\* A function that is to be called at the end of the stream is called once: not
\* again for an end that comes after an element's own.
EosCalledOnce == \A e \in With("OnEosVistor") : eosCalls[e] <= 1

\* Whatever fails on the way and whoever fills out an end, every visitor is
\* told of one end at most.
EndsOnce == PromiseSetOnce /\ EosCalledOnce

\* A call of pushData, or a thread of a buffer or its caller, can go on; an
\* attempt to enqueue that times out does not count.
ElementGoesOn(e) ==
    \/ call[e].at \in {"enter", "visit"}
    \/ call[e].at = "forward" /\ ChildrenIdle(e)
BufferGoesOn(b) ==
    \/ offer[b] # Empty /\ (thread[b] = "none" \/ Room(b))
    \/ thread[b] = "waiting" /\ queue[b] # <<>>
    \/ thread[b] = "pushing" /\ call[b].at = "idle"

\* Until all is done and every thread has ended, the client is free to push or
\* some thread can go on: backpressure never closes a circle of waiting, no
\* buffer is pushed to after its thread ended, and no thread is left waiting
\* for an end that does not come.
NeverStuck ==
    \/ client = "pushing" /\ ~Pending(Root)
    \/ client = "done" /\ Quiet
    \/ \E e \in Elements : ElementGoesOn(e)
    \/ \E b \in Buffers : BufferGoesOn(b)

\* What the sinks are shown is what the source pushed, in order and without
\* gaps, up to the first end.
Contract == INSTANCE StreamContract
ImplementsContract == Contract!Spec

\* An EOP that an element fills out is passed down to the sinks below it, and
\* their wait() returns.
EopReported ==
    \A e \in Elements : \A s \in Sinks :
        e \in Path[s] =>
            ((call[e].at \in {"visit", "forward"} /\ IsEop(call[e].block)) ~> s \in reported)

\* Errors are never reported as anything else.
ErrorReported ==
    \A e \in Elements : \A s \in Sinks :
        e \in Path[s] => (hadError[e] ~> status[s] = "error")

\* wait() may return before the visitors behind the sink have seen the end, but
\* whatever the end was they see it.
EosFollowsWait ==
    \A s \in Sinks \cap With("OnEosVistor") : s \in reported ~> eosCalls[s] = 1

\* Ends and errors reach every sink below the element they come from, through
\* the elements and threads that stop at them, and the visitors behind it.
EndsReported == EopReported /\ ErrorReported /\ EosFollowsWait

\* The client is never left waiting on a full queue, and every thread ends,
\* so that the join in ~StreamThreadedBuffer returns.
PipelineEnds == <>[](client = "done" /\ Quiet)

=============================================================================
