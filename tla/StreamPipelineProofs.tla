------------------------ MODULE StreamPipelineProofs ------------------------
(***************************************************************************)
(* For every tree of processors, buffers and visitors, every capacity and  *)
(* every number of blocks: the safety properties of StreamPipeline hold,   *)
(* provided that an element that fails fills out an error.                 *)
(*                                                                         *)
(* The argument needs more than the state: which blocks each element has   *)
(* put out.  The invariant therefore says that some history out, of one    *)
(* sequence of blocks per element, explains the state; each step extends   *)
(* the history or keeps it.                                                *)
(***************************************************************************)
EXTENDS StreamPipeline, FiniteSetTheorems, TLAPS

Error == Eop("error")

\* Where an element other than the root is connected.
Parent(d) == CHOOSE e \in Elements : d \in Children(e)
Index(d) == CHOOSE i \in DOMAIN Processors[Parent(d)] : Processors[Parent(d)][i] = d

-----------------------------------------------------------------------------
(***************************************************************************)
(* The inductive invariant.                                                *)
(***************************************************************************)
\* What an element is to be given, in the end: what its parent puts out.
In(out, d) == IF d = Root THEN sent ELSE out[Parent(d)]

\* The parent's last output has not been pushed to d yet.
Unpushed(d) ==
    \/ call[Parent(d)].at = "visit"
    \/ call[Parent(d)].at = "forward" /\ call[Parent(d)].next <= Index(d)

\* How many blocks d was given, began to process, and has on offer.
Given(out, d) ==
    IF d = Root THEN Len(sent)
    ELSE Len(out[Parent(d)]) - (IF Unpushed(d) THEN 1 ELSE 0)
Begun(out, d) == Len(out[d]) + (IF call[d].at = "enter" THEN 1 ELSE 0)
Offered(d) == IF offer[d] # Empty THEN 1 ELSE 0

\* A visitor of this kind has yet to be shown the block.
Awaits(e, kind) ==
    /\ call[e].at = "visit"
    /\ \E j \in DOMAIN Visitors[e] : j >= call[e].next /\ Visitors[e][j] = kind

\* The client's blocks: an end is the last.
Source ==
    \A i \in 1 .. Len(sent) :
        /\ sent[i] # Empty
        /\ IsEop(sent[i]) => i = Len(sent) /\ client = "done"

\* A call into an element belongs to the call of its parent that made it, or
\* to the thread of the buffer.
Nested ==
    /\ \A d \in Elements \ {Root} :
        Pending(d) => /\ call[Parent(d)].at = "forward"
                      /\ call[Parent(d)].next = Index(d) + 1
    /\ \A b \in Buffers : call[b].at # "idle" => thread[b] = "pushing"
    /\ \A e \in Elements : call[e].at = "visit" => call[e].next \in DOMAIN Visitors[e]

QueuesBounded == \A b \in Buffers : Len(queue[b]) <= Capacity

\* An element without an error loses nothing that it was given.
Flow(out) ==
    \A d \in Elements :
        ~hadError[d] =>
            Given(out, d) = Begun(out, d)
                + (IF d \in Buffers THEN Len(queue[d]) + Offered(d) ELSE 0)

\* Nor does it change or reorder any of it.
Order(out) ==
    \A d \in Elements :
        ~hadError[d] =>
            /\ call[d].at = "enter" => call[d].block = In(out, d)[Len(out[d]) + 1]
            /\ d \in Buffers =>
                /\ \A j \in 1 .. Len(queue[d]) :
                    queue[d][j] = In(out, d)[Begun(out, d) + j]
                /\ offer[d] # Empty => offer[d] = In(out, d)[Given(out, d)]

\* What an element put out is what its parent did, or what the client pushed,
\* but for errors.
PassedFrom(in, o) ==
    /\ Len(o) <= Len(in)
    /\ \A k \in 1 .. Len(o) : o[k] \in {in[k], Error}
Passed(out) ==
    \A d \in Elements : PassedFrom(In(out, d), out[d]) /\ PassedFrom(sent, out[d])

\* The block an element shows and pushes is the last it put out.
Current(out) ==
    \A e \in Elements :
        call[e].at \in {"visit", "forward"} =>
            Len(out[e]) > 0 /\ call[e].block = out[e][Len(out[e])]

\* Nothing is put out after an end, and _had_error is set if that is an error.
EndedBy(o, s) == Len(o) > 0 /\ o[Len(o)].eop = s
Ended(o) == Len(o) > 0 /\ IsEop(o[Len(o)])
EndsLast(out) ==
    \A e \in Elements :
        /\ \A k \in 1 .. Len(out[e]) : IsEop(out[e][k]) => k = Len(out[e])
        /\ hadError[e] <=> EndedBy(out[e], "error")

\* A sink is shown what its element puts out, and holds the status of the end.
Shown(out) ==
    \A s \in Sinks :
        /\ Len(seen[s]) = Len(out[s]) - (IF Awaits(s, "StreamSink") THEN 1 ELSE 0)
        /\ \A k \in 1 .. Len(seen[s]) : seen[s][k] = out[s][k]
        /\ status[s] = IF Ended(seen[s]) THEN seen[s][Len(seen[s])].eop ELSE Unset

\* A function called at the end was called once, for the end of its element.
Called(out) ==
    \A e \in Elements :
        /\ eosCalls[e] \in {0, 1}
        /\ eosCalls[e] = 1 => ~Awaits(e, "OnEosVistor") /\ Ended(out[e])

Explains(out) ==
    /\ TypeOK
    /\ ~terminated
    /\ Source
    /\ Nested
    /\ QueuesBounded
    /\ Flow(out)
    /\ Order(out)
    /\ Passed(out)
    /\ Current(out)
    /\ EndsLast(out)
    /\ Shown(out)
    /\ Called(out)

Histories == [Elements -> Seq(Blocks)]

\* All that b was ever to be given has been pushed to it.
AllPushed(out, b) ==
    IF b = Root THEN Ended(sent) ELSE Ended(out[Parent(b)]) /\ ~Unpushed(b)

\* A buffer's thread runs until the buffer has put out an end, of which run()
\* keeps the block; then nothing is in the queue, nor will be.
ThreadRuns(out, b) ==
    /\ thread[b] = "none" => queue[b] = <<>>
    /\ thread[b] \in {"none", "waiting"} => ~Ended(out[b])
    /\ thread[b] = "pushing" /\ call[b].at = "idle" =>
        (Ended(out[b]) <=> IsEop(call[b].block))
    /\ thread[b] = "ended" => Ended(out[b])
    /\ Ended(out[b]) => /\ call[b].at # "enter" /\ queue[b] = <<>> /\ offer[b] = Empty
                        /\ AllPushed(out, b)

\* A call has pushed its block to none, some or all of the elements connected.
NextInside ==
    \A e \in Elements :
        call[e].at = "forward" => call[e].next \in 1 .. Len(Processors[e]) + 1

Running(out) ==
    /\ client = "done" => Ended(sent)
    /\ NextInside
    /\ \A b \in Buffers : ThreadRuns(out, b)

PipelineInv == \E out \in Histories : Explains(out) /\ Running(out)

-----------------------------------------------------------------------------
(***************************************************************************)
(* The tree.                                                               *)
(***************************************************************************)
LEMMA ChildrenTyped ==
    ASSUME NEW e \in Elements
    PROVE  /\ Children(e) \subseteq Elements
           /\ Processors[e] \in Seq(Elements)
           /\ \A i \in DOMAIN Processors[e] : Processors[e][i] \in Elements \ {Root}
  BY PipelineAssumption DEF PipelineAssumption, Children

\* What is on the path to d: d, and whatever any upward set with d contains.
LEMMA PathIs ==
    ASSUME NEW d \in Elements
    PROVE  /\ Path[d] \subseteq Elements
           /\ d \in Path[d]
           /\ Root \in Path[d]
           /\ Upward(Path[d])
           /\ \A S \in SUBSET Elements : d \in S /\ Upward(S) => Path[d] \subseteq S
<1>1. Path[d] = {e \in Elements :
                   \A S \in SUBSET Elements : d \in S /\ Upward(S) => e \in S}
  BY DEF Path
<1>2. Upward(Path[d])
  <2>1. SUFFICES ASSUME NEW e \in Elements, NEW c \in Children(e), c \in Path[d],
                        NEW S \in SUBSET Elements, d \in S, Upward(S)
                 PROVE  e \in S
    BY <1>1 DEF Upward
  <2>2. c \in S
    BY <1>1, <2>1
  <2> QED BY <2>1, <2>2 DEF Upward
<1>3. Root \in Path[d]
  BY PipelineAssumption DEF PipelineAssumption
<1> QED BY <1>1, <1>2, <1>3

\* Each element but the root has one parent, at one place.
LEMMA ParentIs ==
    ASSUME NEW e \in Elements, NEW i \in DOMAIN Processors[e]
    PROVE  /\ Processors[e][i] \in Elements \ {Root}
           /\ Parent(Processors[e][i]) = e
           /\ Index(Processors[e][i]) = i
<1> DEFINE d == Processors[e][i]
<1>1. d \in Elements \ {Root} /\ d \in Children(e)
  BY ChildrenTyped DEF Children
<1>2. \A f \in Elements : \A j \in DOMAIN Processors[f] :
        Processors[f][j] = d => f = e /\ j = i
  BY PipelineAssumption DEF PipelineAssumption
<1>3. Parent(d) = e
  BY <1>1, <1>2 DEF Parent, Children
<1>4. Index(d) = i
  BY <1>2, <1>3 DEF Index
<1> QED BY <1>1, <1>3, <1>4

\* Each element but the root has one, which is not the element itself.
LEMMA HasParent ==
    ASSUME NEW d \in Elements \ {Root}
    PROVE  /\ Parent(d) \in Elements
           /\ Index(d) \in DOMAIN Processors[Parent(d)]
           /\ Processors[Parent(d)][Index(d)] = d
           /\ Parent(d) # d
<1>1. \E e \in Elements : d \in Children(e)
  <2>1. SUFFICES ASSUME \A e \in Elements : d \notin Children(e)
                 PROVE  FALSE
    OBVIOUS
  <2>2. {d} \in SUBSET Elements /\ Upward({d})
    BY <2>1 DEF Upward
  <2> QED BY <2>2, PathIs
<1>2. PICK e \in Elements : d \in Children(e)
  BY <1>1
<1>3. PICK i \in DOMAIN Processors[e] : Processors[e][i] = d
  BY <1>2 DEF Children
<1>4. Parent(d) = e /\ Index(d) = i
  BY <1>3, ParentIs
<1>5. e # d
  <2>1. SUFFICES ASSUME e = d PROVE FALSE
    OBVIOUS
  <2>2. \A f \in Elements : d \in Children(f) => f = d
    BY <1>4, <2>1, ParentIs DEF Children
  <2>3. {d} \in SUBSET Elements /\ Upward({d})
    BY <2>2 DEF Upward
  <2> QED BY <2>3, PathIs
<1> QED BY <1>3, <1>4, <1>5

\* The path to an element is the path to its parent and the element, which is
\* not on it: there are no cycles.
LEMMA PathStep ==
    ASSUME NEW d \in Elements \ {Root}
    PROVE  /\ Path[d] = Path[Parent(d)] \cup {d}
           /\ d \notin Path[Parent(d)]
<1> DEFINE p == Parent(d)
<1>1. p \in Elements /\ d \in Children(p)
  BY HasParent DEF Children
<1>2. \A e \in Elements : \A c \in Children(e) : c # Root /\ e = Parent(c)
  BY ParentIs DEF Children
<1>3. Path[d] \subseteq Path[p] \cup {d}
  <2>1. Upward(Path[p] \cup {d})
    BY <1>1, <1>2, PathIs DEF Upward
  <2>2. Path[p] \cup {d} \in SUBSET Elements
    BY <1>1, PathIs
  <2> QED BY <2>1, <2>2, PathIs
<1>4. Path[p] \subseteq Path[d]
  <2>1. p \in Path[d]
    BY <1>1, PathIs DEF Upward
  <2> QED BY <1>1, <2>1, PathIs
<1>5. ASSUME d \in Path[p]
      PROVE  FALSE
  <2> DEFINE Z == {x \in Elements : d \in Path[x]}
  <2>1. d \in Z
    BY PathIs
  <2>2. ASSUME NEW e \in Elements, NEW c \in Children(e), c \in Z
        PROVE  e \in Z
    <3>1. e = Parent(c) /\ c \in Elements \ {Root}
      BY <1>2, <2>2
    <3>2. CASE c = d
      BY <1>5, <3>1, <3>2
    <3>3. CASE c # d
      <4>1. Upward(Path[e] \cup {c})
        BY <1>2, <3>1, PathIs DEF Upward
      <4>2. Path[c] \subseteq Path[e] \cup {c}
        BY <3>1, <4>1, PathIs
      <4> QED BY <2>2, <3>3, <4>2
    <3> QED BY <3>2, <3>3
  <2>3. Upward(Z)
    BY <2>2 DEF Upward
  <2>4. Root \in Z
    BY <2>1, <2>3, PathIs
  <2>5. Upward({Root}) /\ {Root} \in SUBSET Elements
    BY <1>2, PipelineAssumption DEF Upward, PipelineAssumption
  <2>6. Path[Root] = {Root}
    BY <2>5, PathIs
  <2> QED BY <2>4, <2>6
<1> QED BY <1>3, <1>4, <1>5, PathIs

-----------------------------------------------------------------------------
(***************************************************************************)
(* Steps.  Each lemma takes a history that explains a state and shows one  *)
(* that explains the next.                                                 *)
(***************************************************************************)
\* A queue that holds what f has from place m + 1 on, after it is extended with
\* the next block and after its oldest is taken.
LEMMA Extended ==
    ASSUME NEW q \in Seq(Blocks), NEW x \in Blocks, NEW f, NEW m \in Int,
           \A j \in 1 .. Len(q) : q[j] = f[m + j],
           x = f[m + (Len(q) + 1)]
    PROVE  /\ Append(q, x) \in Seq(Blocks) /\ Len(Append(q, x)) = Len(q) + 1
           /\ \A j \in 1 .. Len(Append(q, x)) : Append(q, x)[j] = f[m + j]
  OBVIOUS

\* The queue without its oldest block holds what f has from one place on.
LEMMA Shortened ==
    ASSUME NEW q \in Seq(Blocks), q # <<>>, NEW f, NEW m \in Int,
           \A j \in 1 .. Len(q) : q[j] = f[m + j]
    PROVE  /\ Head(q) = f[m + 1] /\ Head(q) \in Blocks
           /\ Tail(q) \in Seq(Blocks) /\ Len(Tail(q)) = Len(q) - 1
           /\ \A j \in 1 .. Len(Tail(q)) : Tail(q)[j] = f[(m + 1) + j]
<1>1. /\ Head(q) = q[1] /\ Tail(q) \in Seq(Blocks) /\ Len(Tail(q)) = Len(q) - 1
      /\ Len(q) \in Nat /\ Len(q) > 0 /\ Head(q) \in Blocks
  OBVIOUS
<1>2. ASSUME NEW j \in 1 .. Len(Tail(q))
      PROVE  Tail(q)[j] = f[(m + 1) + j]
  <2>1. j \in Int /\ j + 1 \in 1 .. Len(q) /\ m + (j + 1) = (m + 1) + j
    BY <1>1
  <2>2. Tail(q)[j] = q[j + 1]
    OBVIOUS
  <2> QED BY <2>1, <2>2
<1> QED BY <1>1, <1>2

\* A parent's pushes reach their elements one by one.
LEMMA ChildIs ==
    ASSUME NEW d \in Elements \ {Root}, TypeOK
    PROVE  /\ Parent(d) \in Elements /\ Parent(d) # d
           /\ Index(d) \in 1 .. Len(Processors[Parent(d)])
           /\ Processors[Parent(d)][Index(d)] = d
           /\ call[Parent(d)].next \in Nat \ {0}
<1>1. Parent(d) \in Elements
  BY HasParent
<1>2. DOMAIN Processors[Parent(d)] = 1 .. Len(Processors[Parent(d)])
  BY <1>1, ChildrenTyped
<1> QED BY <1>1, <1>2, HasParent DEF TypeOK, Activations

\* pushData returns.
LEMMA FinishPreserves ==
    ASSUME NEW out \in Histories, Explains(out), NEW e \in Elements, Finish(e)
    PROVE  Explains(out)'
<1> USE DEF Explains
<1>1. /\ call' \in [Elements -> Activations]
      /\ \A x \in Elements \ {e} : call'[x] = call[x]
      /\ call[e].at = "forward" /\ call'[e].at = "idle"
      /\ \A i \in DOMAIN Processors[e] : ~Pending(Processors[e][i])
      /\ call[e].next > Len(Processors[e])
      /\ UNCHANGED <<client, sent, hadError, offer, queue, thread, seen, status,
                     eosCalls, reported, terminated>>
  <2>1. call[e].next \in Nat \ {0} /\ DOMAIN Processors[e] = 1 .. Len(Processors[e])
    BY ChildrenTyped DEF TypeOK, Activations
  <2>2. \A i \in DOMAIN Processors[e] : ~Pending(Processors[e][i])
    BY <2>1 DEF Finish, ChildrenIdle
  <2>3. call' \in [Elements -> Activations] /\ call'[e].at = "idle"
    <3> DEFINE c == [call EXCEPT ![e].at = "idle"]
    <3>1. c \in [Elements -> Activations] /\ c[e].at = "idle"
      BY DEF TypeOK, Activations
    <3>2. call' = [c EXCEPT ![e].next = 1]
      BY DEF Finish
    <3> HIDE DEF c
    <3> QED BY <3>1, <3>2 DEF Activations
  <2>4. \A x \in Elements \ {e} : call'[x] = call[x]
    BY DEF Finish, TypeOK
  <2> QED BY <2>2, <2>3, <2>4 DEF Finish
<1>2. TypeOK' /\ ~terminated' /\ Source' /\ QueuesBounded'
  BY <1>1 DEF TypeOK, Source, QueuesBounded
<1>3. ASSUME NEW d \in Elements \ {Root}
      PROVE  Unpushed(d)' <=> Unpushed(d)
  BY <1>1, <1>3, ChildIs DEF Unpushed
<1>4. Nested'
  <2>1. ASSUME NEW d \in Elements, d # Root, Pending(d)'
        PROVE  /\ call'[Parent(d)].at = "forward"
               /\ call'[Parent(d)].next = Index(d) + 1
    <3>1. Pending(d)
      BY <1>1, <2>1 DEF Pending
    <3>2. Parent(d) # e
      BY <1>1, <2>1, <3>1, HasParent
    <3> QED BY <1>1, <2>1, <3>1, <3>2, HasParent DEF Nested
  <2>2. \A b \in Buffers : call'[b].at # "idle" => thread'[b] = "pushing"
    BY <1>1, PipelineAssumption DEF Nested, PipelineAssumption
  <2> QED BY <1>1, <2>1, <2>2 DEF Nested
<1>5. ASSUME NEW d \in Elements
      PROVE  /\ Given(out, d)' = Given(out, d)
             /\ Begun(out, d)' = Begun(out, d)
             /\ In(out, d)' = In(out, d)
  BY <1>1, <1>3 DEF Given, Begun, In
<1>6. Flow(out)' /\ Order(out)'
  <2>1. Flow(out)'
    BY <1>1, <1>5 DEF Flow, Offered
  <2>2. Order(out)'
    BY <1>1, <1>5 DEF Order, Offered
  <2> QED BY <2>1, <2>2
<1>7. Passed(out)' /\ Current(out)' /\ EndsLast(out)'
  BY <1>1, <1>5 DEF Passed, Current, EndsLast
<1>8. \A x \in Elements, kind \in Kinds : Awaits(x, kind)' <=> Awaits(x, kind)
  BY <1>1 DEF Awaits
<1>9. Shown(out)' /\ Called(out)'
  BY <1>1, <1>8 DEF Shown, Called, Kinds, Sinks, With
<1> QED BY <1>2, <1>4, <1>6, <1>7, <1>9

\* Steps of which elements, queues and visitors see nothing.
LEMMA SidePreserves ==
    ASSUME NEW out \in Histories, Explains(out), TypeOK',
           UNCHANGED <<client, sent, call, hadError, offer, queue, seen, status,
                       eosCalls, terminated>>,
           \A b \in Buffers : call[b].at # "idle" => thread'[b] = "pushing"
    PROVE  Explains(out)'
<1> USE DEF Explains
<1>1. Source' /\ QueuesBounded'
  BY DEF Source, QueuesBounded
<1>2. Nested'
  BY DEF Nested, Pending
<1>3. Flow(out)' /\ Order(out)'
  BY DEF Flow, Order, Offered, Given, Begun, In, Unpushed
<1>4. Passed(out)' /\ Current(out)' /\ EndsLast(out)'
  BY DEF Passed, Current, EndsLast, In
<1>5. Shown(out)' /\ Called(out)'
  BY DEF Shown, Called, Awaits
<1> QED BY <1>1, <1>2, <1>3, <1>4, <1>5

\* wait() returns; a thread starts, goes on or ends.
LEMMA WaitPreserves ==
    ASSUME NEW out \in Histories, Explains(out), NEW s \in Sinks, Wait(s)
    PROVE  Explains(out)'
<1>1. TypeOK'
  BY DEF Wait, Explains, TypeOK
<1> QED BY <1>1, SidePreserves DEF Wait, Explains, Nested

\* A thread starts, goes on or ends: only thread changes.
LEMMA ThreadPreserves ==
    ASSUME NEW out \in Histories, Explains(out), NEW b \in Buffers,
           StartThread(b) \/ AfterPush(b)
    PROVE  Explains(out)'
<1>1. call[b].at = "idle"
  BY DEF StartThread, AfterPush, Explains, Nested
<1>2. /\ thread' \in [Buffers -> {"none", "waiting", "pushing", "ended"}]
      /\ \A c \in Buffers \ {b} : thread'[c] = thread[c]
  BY DEF StartThread, AfterPush, Explains, TypeOK
<1>3. UNCHANGED <<client, sent, call, hadError, offer, queue, seen, status,
                  eosCalls, reported, terminated>>
  BY DEF StartThread, AfterPush
<1>4. TypeOK'
  BY <1>2, <1>3 DEF Explains, TypeOK
<1> QED BY <1>1, <1>2, <1>3, <1>4, SidePreserves DEF Explains, Nested

\* wait_enqueue_timed succeeds: the block goes from the offer into the queue.
LEMMA EnqueuePreserves ==
    ASSUME NEW out \in Histories, Explains(out), NEW b \in Buffers, Enqueue(b)
    PROVE  Explains(out)'
<1> USE DEF Explains
<1>1. /\ b \in Elements /\ queue[b] \in Seq(Blocks) /\ offer[b] \in Blocks
      /\ Len(queue[b]) < Capacity
      /\ offer[b] # Empty /\ offer'[b] = Empty
      /\ queue'[b] = Append(queue[b], offer[b])
      /\ \A c \in Buffers \ {b} : queue'[c] = queue[c] /\ offer'[c] = offer[c]
      /\ UNCHANGED <<client, sent, call, hadError, thread, seen, status,
                     eosCalls, reported, terminated>>
  BY PipelineAssumption DEF Enqueue, Room, TypeOK, PipelineAssumption
<1>2. /\ Len(queue'[b]) = Len(queue[b]) + 1 /\ queue'[b] \in Seq(Blocks)
      /\ queue'[b][Len(queue[b]) + 1] = offer[b]
      /\ \A j \in 1 .. Len(queue[b]) : queue'[b][j] = queue[b][j]
  BY <1>1
<1>3. Empty \in Blocks
  BY PipelineAssumption DEF Empty, Blocks, PipelineAssumption
<1>4. TypeOK'
  BY <1>1, <1>2, <1>3 DEF Enqueue, TypeOK
<1>5. Source' /\ QueuesBounded'
  <2>1. Len(queue[b]) \in Nat /\ Capacity \in Nat
    BY <1>1, PipelineAssumption DEF PipelineAssumption
  <2>2. Len(queue'[b]) <= Capacity
    BY <1>1, <1>2, <2>1
  <2> QED BY <1>1, <2>2 DEF Source, QueuesBounded
<1>6. Nested'
  BY <1>1 DEF Nested, Pending
<1>7. ASSUME NEW d \in Elements
      PROVE  /\ Given(out, d)' = Given(out, d)
             /\ Begun(out, d)' = Begun(out, d)
             /\ In(out, d)' = In(out, d)
  BY <1>1 DEF Given, Begun, In, Unpushed
<1>8. Begun(out, b) \in Int /\ Len(queue[b]) \in Nat
  BY <1>1 DEF Begun, Histories
<1>9. Flow(out)'
  <2>1. ASSUME NEW d \in Elements, ~hadError'[d], d # b
        PROVE  Given(out, d)' = Begun(out, d)'
                 + (IF d \in Buffers THEN Len(queue'[d]) + Offered(d)' ELSE 0)
    BY <1>1, <1>7, <2>1 DEF Flow, Offered
  <2>2. ASSUME ~hadError'[b]
        PROVE  Given(out, b)' = Begun(out, b)' + (Len(queue'[b]) + Offered(b)')
    <3>1. Given(out, b) = Begun(out, b) + (Len(queue[b]) + Offered(b))
      BY <1>1, <2>2 DEF Flow
    <3>2. Len(queue'[b]) = Len(queue[b]) + 1 /\ Offered(b) = 1 /\ Offered(b)' = 0
      BY <1>1, <1>2, <1>7, <1>8 DEF Offered
    <3> QED BY <1>1, <1>7, <1>8, <3>1, <3>2
  <2> QED BY <2>1, <2>2 DEF Flow
<1>10. Order(out)'
  <2>1. ASSUME NEW d \in Elements, ~hadError'[d]
        PROVE  /\ call'[d].at = "enter" => call'[d].block = In(out, d)'[Len(out[d]) + 1]
               /\ d \in Buffers =>
                   /\ \A j \in 1 .. Len(queue'[d]) :
                        queue'[d][j] = In(out, d)'[Begun(out, d)' + j]
                   /\ offer'[d] # Empty => offer'[d] = In(out, d)'[Given(out, d)']
    <3>1. CASE d # b
      BY <1>1, <1>7, <2>1, <3>1 DEF Order
    <3>2. CASE d = b
      <4>1. Given(out, b) = Begun(out, b) + (Len(queue[b]) + 1)
        BY <1>1, <1>8, <2>1, <3>2 DEF Flow, Offered
      <4>2. offer[b] = In(out, b)[Begun(out, b) + (Len(queue[b]) + 1)]
        BY <1>1, <2>1, <3>2, <4>1 DEF Order
      <4>3. \A j \in 1 .. Len(queue[b]) : queue[b][j] = In(out, b)[Begun(out, b) + j]
        BY <1>1, <2>1, <3>2 DEF Order
      <4>4. \A j \in 1 .. Len(queue'[b]) : queue'[b][j] = In(out, b)[Begun(out, b) + j]
        BY <1>1, <1>8, <4>2, <4>3, Extended
      <4>5. call[b].at = "enter" => call[b].block = In(out, b)[Len(out[b]) + 1]
        BY <1>1, <2>1, <3>2 DEF Order
      <4> QED BY <1>1, <1>7, <3>2, <4>4, <4>5
    <3> QED BY <3>1, <3>2
  <2> QED BY <2>1 DEF Order
<1>11. Passed(out)' /\ Current(out)' /\ EndsLast(out)'
  BY <1>1, <1>7 DEF Passed, Current, EndsLast
<1>12. Shown(out)' /\ Called(out)'
  BY <1>1 DEF Shown, Called, Awaits
<1> QED BY <1>1, <1>4, <1>5, <1>6, <1>9, <1>10, <1>11, <1>12

\* wait_dequeue succeeds: the oldest block goes from the queue to the thread.
LEMMA DequeuePreserves ==
    ASSUME NEW out \in Histories, Explains(out), NEW b \in Buffers, Dequeue(b)
    PROVE  Explains(out)'
<1> USE DEF Explains
<1>1. /\ b \in Elements /\ queue[b] \in Seq(Blocks) /\ queue[b] # <<>>
      /\ call[b].at = "idle"
      /\ queue'[b] = Tail(queue[b])
      /\ call'[b] = [at |-> "enter", block |-> Head(queue[b]), next |-> 1]
      /\ thread'[b] = "pushing"
      /\ \A c \in Buffers \ {b} : queue'[c] = queue[c] /\ thread'[c] = thread[c]
      /\ \A x \in Elements \ {b} : call'[x] = call[x]
      /\ UNCHANGED <<client, sent, hadError, offer, seen, status, eosCalls, reported,
                     terminated>>
  BY PipelineAssumption DEF Dequeue, AfterDequeue, TypeOK, PipelineAssumption, Nested
<1>2. /\ Len(queue'[b]) = Len(queue[b]) - 1 /\ queue'[b] \in Seq(Blocks)
      /\ \A j \in 1 .. Len(queue'[b]) : queue'[b][j] = queue[b][j + 1]
      /\ Len(queue[b]) \in Nat /\ Len(queue[b]) > 0
      /\ Head(queue[b]) = queue[b][1] /\ Head(queue[b]) \in Blocks
  BY <1>1
<1>3. [at |-> "enter", block |-> Head(queue[b]), next |-> 1] \in Activations
  BY <1>2 DEF Activations
<1>4. TypeOK'
  BY <1>1, <1>2, <1>3 DEF Dequeue, TypeOK
<1>5. Source' /\ QueuesBounded'
  <2>1. Len(queue[b]) <= Capacity /\ Capacity \in Nat
    BY PipelineAssumption DEF QueuesBounded, PipelineAssumption
  <2>2. Len(queue'[b]) <= Capacity
    BY <1>2, <2>1
  <2> QED BY <1>1, <2>2 DEF Source, QueuesBounded
<1>6. Nested'
  <2>1. \A c \in Buffers : call'[c].at # "idle" => thread'[c] = "pushing"
    BY <1>1, PipelineAssumption DEF Nested, PipelineAssumption
  <2>2. \A x \in Elements : call'[x].at = "visit" => call'[x].next \in DOMAIN Visitors[x]
    BY <1>1 DEF Nested
  <2>3. ASSUME NEW d \in Elements \ {Root}, Pending(d)'
        PROVE  /\ call'[Parent(d)].at = "forward"
               /\ call'[Parent(d)].next = Index(d) + 1
    <3>1. Pending(d)
      BY <1>1, <2>3 DEF Pending
    <3>2. call[Parent(d)].at = "forward" /\ call[Parent(d)].next = Index(d) + 1
      BY <2>3, <3>1 DEF Nested
    <3>3. Parent(d) # b /\ Parent(d) \in Elements
      BY <1>1, <3>2, HasParent
    <3> QED BY <1>1, <3>2, <3>3
  <2> QED BY <2>1, <2>2, <2>3 DEF Nested
<1>7. ASSUME NEW d \in Elements
      PROVE  /\ Given(out, d)' = Given(out, d)
             /\ d # b => Begun(out, d)' = Begun(out, d)
             /\ In(out, d)' = In(out, d)
  <2>1. d # Root => (Unpushed(d)' <=> Unpushed(d))
    BY <1>1, HasParent DEF Unpushed
  <2> QED BY <1>1, <2>1 DEF Given, Begun, In
<1>8. /\ Begun(out, b)' = Begun(out, b) + 1
      /\ Begun(out, b) = Len(out[b]) /\ Len(out[b]) \in Nat
  BY <1>1 DEF Begun, Histories
<1>9. Flow(out)'
  <2>1. ASSUME NEW d \in Elements, ~hadError'[d], d # b
        PROVE  Given(out, d)' = Begun(out, d)'
                 + (IF d \in Buffers THEN Len(queue'[d]) + Offered(d)' ELSE 0)
    BY <1>1, <1>7, <2>1 DEF Flow, Offered
  <2>2. ASSUME ~hadError'[b]
        PROVE  Given(out, b)' = Begun(out, b)' + (Len(queue'[b]) + Offered(b)')
    <3>1. Given(out, b) = Begun(out, b) + (Len(queue[b]) + Offered(b))
      BY <1>1, <2>2 DEF Flow
    <3>2. /\ Len(queue'[b]) = Len(queue[b]) - 1 /\ Len(queue[b]) \in Nat
          /\ Offered(b)' = Offered(b) /\ Offered(b) \in Nat
      BY <1>1, <1>2, <1>7, <1>8 DEF Offered
    <3> QED BY <1>1, <1>7, <1>8, <3>1, <3>2
  <2> QED BY <2>1, <2>2 DEF Flow
<1>10. Order(out)'
  <2>1. ASSUME NEW d \in Elements, ~hadError'[d]
        PROVE  /\ call'[d].at = "enter" => call'[d].block = In(out, d)'[Len(out[d]) + 1]
               /\ d \in Buffers =>
                   /\ \A j \in 1 .. Len(queue'[d]) :
                        queue'[d][j] = In(out, d)'[Begun(out, d)' + j]
                   /\ offer'[d] # Empty => offer'[d] = In(out, d)'[Given(out, d)']
    <3>1. CASE d # b
      BY <1>1, <1>7, <2>1, <3>1 DEF Order
    <3>2. CASE d = b
      <4>1. \A j \in 1 .. Len(queue[b]) : queue[b][j] = In(out, b)[Begun(out, b) + j]
        BY <1>1, <2>1, <3>2 DEF Order
      <4>2. offer[b] # Empty => offer[b] = In(out, b)[Given(out, b)]
        BY <1>1, <2>1, <3>2 DEF Order
      <4>3. Head(queue[b]) = In(out, b)[Begun(out, b) + 1]
        BY <1>1, <1>8, <4>1, Shortened
      <4>4. \A j \in 1 .. Len(queue'[b]) : queue'[b][j] = In(out, b)[Begun(out, b)' + j]
        BY <1>1, <1>8, <4>1, Shortened
      <4>5. call'[b].block = In(out, b)[Len(out[b]) + 1]
        BY <1>1, <1>8, <4>3
      <4>6. /\ In(out, b)' = In(out, b) /\ Given(out, b)' = Given(out, b)
            /\ offer'[b] = offer[b]
        BY <1>1, <1>7
      <4> QED BY <3>2, <4>2, <4>4, <4>5, <4>6
    <3> QED BY <3>1, <3>2
  <2> QED BY <2>1 DEF Order
<1>11. Passed(out)' /\ Current(out)' /\ EndsLast(out)'
  BY <1>1, <1>7 DEF Passed, Current, EndsLast
<1>12. \A x \in Elements, kind \in Kinds : Awaits(x, kind)' <=> Awaits(x, kind)
  BY <1>1 DEF Awaits
<1>13. Shown(out)' /\ Called(out)'
  BY <1>1, <1>12 DEF Shown, Called, Kinds, Sinks, With
<1> QED BY <1>1, <1>4, <1>5, <1>6, <1>9, <1>10, <1>11, <1>13

\* A call of pushData: the block is on offer to a buffer, or in a processor.
LEMMA PushDataGives ==
    ASSUME TypeOK, NEW d \in Elements, NEW x \in Blocks, x # Empty, ~Pending(d),
           NEW cs \in [Elements -> Activations], PushData(d, x, cs), cs[d] = call[d]
    PROVE  /\ call' \in [Elements -> Activations] /\ offer' \in [Buffers -> Blocks]
           /\ \A c \in Elements \ {d} : call'[c] = cs[c]
           /\ \A b \in Buffers \ {d} : offer'[b] = offer[b]
           /\ d \in Buffers =>
                call'[d] = call[d] /\ offer[d] = Empty /\ offer'[d] = x
           /\ d \notin Buffers =>
                /\ call[d].at = "idle"
                /\ call'[d] = [at |-> "enter", block |-> x, next |-> 1]
<1>1. [at |-> "enter", block |-> x, next |-> 1] \in Activations
  BY DEF Activations
<1>2. CASE d \in Buffers
  BY <1>2 DEF PushData, TypeOK, Pending
<1>3. CASE d \notin Buffers
  <2>1. /\ call' = [cs EXCEPT ![d] = [at |-> "enter", block |-> x, next |-> 1]]
        /\ offer' = offer /\ call[d].at = "idle"
    BY <1>3 DEF PushData, Pending
  <2>2. offer' \in [Buffers -> Blocks]
    BY <2>1 DEF TypeOK
  <2>3. /\ call' \in [Elements -> Activations]
        /\ call'[d] = [at |-> "enter", block |-> x, next |-> 1]
        /\ \A c \in Elements \ {d} : call'[c] = cs[c]
    BY <1>1, <2>1
  <2> QED BY <1>3, <2>1, <2>2, <2>3
<1> QED BY <1>2, <1>3

\* A block that an element shows is not Empty.
LEMMA OutputIs ==
    ASSUME NEW out \in Histories, Explains(out), NEW e \in Elements,
           call[e].at \in {"visit", "forward"}
    PROVE  /\ out[e] \in Seq(Blocks) /\ Len(out[e]) \in Nat /\ Len(out[e]) > 0
           /\ call[e].block = out[e][Len(out[e])]
           /\ call[e].block \in Blocks /\ call[e].block # Empty
<1>1. /\ out[e] \in Seq(Blocks) /\ Len(out[e]) \in Nat /\ Len(out[e]) > 0
      /\ call[e].block = out[e][Len(out[e])] /\ call[e].block \in Blocks
  BY DEF Explains, Current, Histories
<1>2. /\ Len(out[e]) <= Len(sent)
      /\ out[e][Len(out[e])] \in {sent[Len(out[e])], Error}
      /\ Len(sent) \in Nat
  BY <1>1 DEF Explains, Passed, PassedFrom, TypeOK
<1>3. sent[Len(out[e])] # Empty
  BY <1>1, <1>2 DEF Explains, Source
<1>4. Error # Empty
  BY DEF Error, Eop, Empty
<1> QED BY <1>1, <1>2, <1>3, <1>4

\* An element pushes its output to the next element connected to it.
LEMMA ForwardPreserves ==
    ASSUME NEW out \in Histories, Explains(out), NEW e \in Elements, Forward(e)
    PROVE  Explains(out)'
<1> DEFINE cs == [call EXCEPT ![e].next = @ + 1]
           n == Len(out[e])
<1> USE DEF Explains
<1>1. /\ call[e].at = "forward" /\ call[e].next \in Nat \ {0}
      /\ call[e].next \in DOMAIN Processors[e]
      /\ call[e] \in Activations
      /\ PushData(Processors[e][call[e].next], call[e].block, cs)
      /\ UNCHANGED <<client, sent, hadError, queue, thread, seen, status,
                     eosCalls, reported, terminated>>
  BY ChildrenTyped DEF Forward, TypeOK, Activations
<1>2. PICK d \in Elements \ {Root} :
        /\ d = Processors[e][call[e].next]
        /\ Parent(d) = e /\ Index(d) = call[e].next /\ d # e
  BY <1>1, ParentIs, HasParent
<1>3. PICK x \in Blocks :
        /\ out[e] \in Seq(Blocks) /\ n \in Nat /\ n > 0 /\ x = out[e][n]
        /\ x = call[e].block /\ x # Empty
  BY <1>1, OutputIs
<1>4. ASSUME NEW c \in Elements \ {Root}, Parent(c) = e
      PROVE  ~Pending(c)
  <2>1. SUFFICES ASSUME Pending(c) PROVE FALSE
    OBVIOUS
  <2>2. call[e].next = Index(c) + 1
    BY <1>4, <2>1 DEF Nested
  <2>3. Index(c) \in 1 .. Len(Processors[e]) /\ Processors[e][Index(c)] = c
    BY <1>4, ChildIs
  <2>4. Index(c) \in 1 .. call[e].next - 1
    BY <1>1, <2>2, <2>3
  <2> QED BY <2>1, <2>3, <2>4 DEF Forward, ChildrenIdle
<1>5. /\ cs \in [Elements -> Activations] /\ cs[d] = call[d]
      /\ \A c \in Elements \ {e} : cs[c] = call[c]
      /\ cs[e].at = "forward" /\ cs[e].next = call[e].next + 1
      /\ cs[e].block = call[e].block
  <2>1. cs = [call EXCEPT ![e] = [call[e] EXCEPT !.next = call[e].next + 1]]
    OBVIOUS
  <2>2. [call[e] EXCEPT !.next = call[e].next + 1] \in Activations
    BY <1>1 DEF Activations
  <2>3. call \in [Elements -> Activations]
    BY DEF TypeOK
  <2> QED BY <1>1, <1>2, <2>1, <2>2, <2>3 DEF Activations
<1>6. /\ call' \in [Elements -> Activations] /\ offer' \in [Buffers -> Blocks]
      /\ \A c \in Elements \ {d} : call'[c] = cs[c]
      /\ \A b \in Buffers \ {d} : offer'[b] = offer[b]
      /\ d \in Buffers => call'[d] = call[d] /\ offer[d] = Empty /\ offer'[d] = x
      /\ d \notin Buffers => /\ call[d].at = "idle"
                             /\ call'[d] = [at |-> "enter", block |-> x, next |-> 1]
  <2>1. PushData(d, x, cs) /\ ~Pending(d)
    BY <1>1, <1>2, <1>3, <1>4
  <2> HIDE DEF cs
  <2> QED BY <1>2, <1>3, <1>5, <2>1, PushDataGives
<1> HIDE DEF cs, n
<1>7. /\ \A c \in Elements \ {d, e} : call'[c] = call[c]
      /\ call'[e].at = "forward" /\ call'[e].next = Index(d) + 1
      /\ call'[e].block = x
  BY <1>2, <1>3, <1>5, <1>6
<1>8. TypeOK' /\ ~terminated' /\ Source' /\ QueuesBounded'
  BY <1>1, <1>6 DEF TypeOK, Source, QueuesBounded
<1>9. Nested'
  <2>1. \A b \in Buffers : call'[b].at # "idle" => thread'[b] = "pushing"
    <3>1. Buffers \subseteq Elements
      BY PipelineAssumption DEF PipelineAssumption
    <3>2. \A b \in Buffers : call'[b].at = call[b].at
      BY <1>1, <1>6, <1>7, <3>1
    <3> QED BY <1>1, <3>2 DEF Nested
  <2>2. \A c \in Elements : call'[c].at = "visit" => call'[c].next \in DOMAIN Visitors[c]
    BY <1>6, <1>7 DEF Nested
  <2>3. ASSUME NEW c \in Elements \ {Root}, Pending(c)'
        PROVE  /\ call'[Parent(c)].at = "forward"
               /\ call'[Parent(c)].next = Index(c) + 1
    <3>1. CASE c = d
      BY <1>2, <1>7, <3>1
    <3>2. CASE c # d
      <4>1. Pending(c)
        BY <1>1, <1>6, <1>7, <2>3, <3>2 DEF Pending
      <4>2. /\ call[Parent(c)].at = "forward" /\ call[Parent(c)].next = Index(c) + 1
            /\ Parent(c) # e /\ Parent(c) \in Elements
        BY <1>4, <2>3, <4>1, HasParent DEF Nested
      <4>3. call'[Parent(c)] = call[Parent(c)]
        BY <1>6, <1>7, <4>2
      <4> QED BY <4>2, <4>3
    <3> QED BY <3>1, <3>2
  <2> QED BY <2>1, <2>2, <2>3 DEF Nested

<1>10. ASSUME NEW c \in Elements \ {Root}
       PROVE  Unpushed(c)' <=> Unpushed(c) /\ c # d
  <2>1. CASE Parent(c) = e
    <3>1. Index(c) = Index(d) => c = d
      BY <1>2, <2>1, HasParent
    <3>2. Index(c) \in Nat /\ Index(d) \in Nat
      BY <1>2, ChildIs
    <3>3. call[e].next = Index(d)
      BY <1>2
    <3> QED BY <1>1, <1>7, <2>1, <3>1, <3>2, <3>3 DEF Unpushed
  <2>2. CASE Parent(c) # e
    <3>1. c # d
      BY <1>2, <2>2
    <3>2. \/ call'[Parent(c)] = call[Parent(c)]
          \/ call[Parent(c)].at = "idle" /\ call'[Parent(c)].at = "enter"
      BY <1>6, <1>7, <2>2, HasParent
    <3> QED BY <3>1, <3>2 DEF Unpushed
  <2> QED BY <2>1, <2>2
<1>11. ASSUME NEW c \in Elements, c # d
       PROVE  /\ Given(out, c)' = Given(out, c)
              /\ In(out, c)' = In(out, c)
              /\ Begun(out, c)' = Begun(out, c)
              /\ call'[c].at = call[c].at
              /\ call'[c].block = call[c].block
  <2>1. call'[c].at = call[c].at /\ call'[c].block = call[c].block
    <3>1. CASE c = e
      BY <1>1, <1>3, <1>7, <3>1
    <3>2. CASE c # e
      BY <1>7, <1>11, <3>2
    <3> QED BY <3>1, <3>2
  <2>2. In(out, c)' = In(out, c)
    BY <1>1 DEF In
  <2>3. Begun(out, c)' = Begun(out, c)
    BY <2>1 DEF Begun
  <2>4. CASE c = Root
    BY <1>1, <2>1, <2>2, <2>3, <2>4 DEF Given
  <2>5. CASE c # Root
    <3>1. CASE Unpushed(c)
      <4>1. Unpushed(c)'
        BY <1>10, <1>11, <2>5, <3>1
      <4> QED BY <2>1, <2>2, <2>3, <2>5, <3>1, <4>1 DEF Given
    <3>2. CASE ~Unpushed(c)
      <4>1. ~Unpushed(c)'
        BY <1>10, <2>5, <3>2
      <4> QED BY <2>1, <2>2, <2>3, <2>5, <3>2, <4>1 DEF Given
    <3> QED BY <3>1, <3>2
  <2> QED BY <2>4, <2>5
<1>12. /\ Given(out, d)' = n /\ Given(out, d) = n - 1
       /\ In(out, d) = out[e] /\ In(out, d)' = out[e]
  <2>1. Unpushed(d) /\ ~Unpushed(d)'
    BY <1>1, <1>2, <1>10 DEF Unpushed
  <2> QED BY <1>2, <1>3, <2>1 DEF Given, In, n
<1>13. Flow(out)'
  <2>1. ASSUME NEW c \in Elements, ~hadError'[c], c # d
        PROVE  Given(out, c)' = Begun(out, c)'
                 + (IF c \in Buffers THEN Len(queue'[c]) + Offered(c)' ELSE 0)
    <3>1. Given(out, c) = Begun(out, c)
             + (IF c \in Buffers THEN Len(queue[c]) + Offered(c) ELSE 0)
      BY <1>1, <2>1 DEF Flow
    <3>2. Given(out, c)' = Given(out, c) /\ Begun(out, c)' = Begun(out, c)
      BY <1>11, <2>1
    <3>3. c \in Buffers => queue'[c] = queue[c] /\ Offered(c)' = Offered(c)
      BY <1>1, <1>6, <2>1 DEF Offered
    <3> QED BY <3>1, <3>2, <3>3
  <2>2. ASSUME ~hadError'[d]
        PROVE  Given(out, d)' = Begun(out, d)'
                 + (IF d \in Buffers THEN Len(queue'[d]) + Offered(d)' ELSE 0)
    <3>1. Given(out, d) = Begun(out, d)
             + (IF d \in Buffers THEN Len(queue[d]) + Offered(d) ELSE 0)
      BY <1>1, <1>2, <2>2 DEF Flow
    <3>2. Len(out[d]) \in Nat
      BY <1>2 DEF Histories
    <3>3. CASE d \in Buffers
      <4>1. /\ Offered(d) = 0 /\ Offered(d)' = 1
            /\ queue'[d] = queue[d] /\ Len(queue[d]) \in Nat
        BY <1>1, <1>3, <1>6, <3>3 DEF Offered, TypeOK
      <4>2. call'[d].at = call[d].at
        BY <1>6, <3>3
      <4>3. Begun(out, d)' = Begun(out, d)
        BY <4>2 DEF Begun
      <4>4. Begun(out, d) \in Int
        <5>1. CASE call[d].at = "enter"
          BY <3>2, <5>1 DEF Begun
        <5>2. CASE call[d].at # "enter"
          BY <3>2, <5>2 DEF Begun
        <5> QED BY <5>1, <5>2
      <4> QED BY <1>3, <1>12, <3>1, <3>3, <4>1, <4>3, <4>4
    <3>4. CASE d \notin Buffers
      <4>1. call'[d].at = "enter" /\ call[d].at = "idle"
        BY <1>6, <3>4
      <4>2. Begun(out, d)' = Len(out[d]) + 1
        BY <4>1 DEF Begun
      <4>3. Begun(out, d) = Len(out[d])
        BY <3>2, <4>1 DEF Begun
      <4> QED BY <1>3, <1>12, <3>1, <3>2, <3>4, <4>2, <4>3
    <3> QED BY <3>3, <3>4
  <2> QED BY <2>1, <2>2 DEF Flow
<1>14. Order(out)'
  <2>1. ASSUME NEW c \in Elements, ~hadError'[c], c # d
        PROVE  /\ call'[c].at = "enter" => call'[c].block = In(out, c)'[Len(out[c]) + 1]
               /\ c \in Buffers =>
                   /\ \A j \in 1 .. Len(queue'[c]) :
                        queue'[c][j] = In(out, c)'[Begun(out, c)' + j]
                   /\ offer'[c] # Empty => offer'[c] = In(out, c)'[Given(out, c)']
    <3>1. /\ Given(out, c)' = Given(out, c) /\ Begun(out, c)' = Begun(out, c)
          /\ In(out, c)' = In(out, c)
          /\ call'[c].at = call[c].at /\ call'[c].block = call[c].block
      BY <1>11, <2>1
    <3>2. c \in Buffers => queue'[c] = queue[c] /\ offer'[c] = offer[c]
      BY <1>1, <1>6, <2>1
    <3>3. /\ call[c].at = "enter" => call[c].block = In(out, c)[Len(out[c]) + 1]
          /\ c \in Buffers =>
              /\ \A j \in 1 .. Len(queue[c]) : queue[c][j] = In(out, c)[Begun(out, c) + j]
              /\ offer[c] # Empty => offer[c] = In(out, c)[Given(out, c)]
      BY <1>1, <2>1 DEF Order
    <3> QED BY <3>1, <3>2, <3>3
  <2>2. ASSUME ~hadError'[d]
        PROVE  /\ call'[d].at = "enter" => call'[d].block = In(out, d)'[Len(out[d]) + 1]
               /\ d \in Buffers =>
                   /\ \A j \in 1 .. Len(queue'[d]) :
                        queue'[d][j] = In(out, d)'[Begun(out, d)' + j]
                   /\ offer'[d] # Empty => offer'[d] = In(out, d)'[Given(out, d)']
    <3>1. CASE d \in Buffers
      <4>1. call'[d] = call[d] /\ queue'[d] = queue[d] /\ offer'[d] = x
        BY <1>1, <1>6, <3>1
      <4>2. Begun(out, d)' = Begun(out, d) /\ In(out, d)' = In(out, d)
        BY <1>12, <4>1 DEF Begun
      <4>3. \A j \in 1 .. Len(queue[d]) : queue[d][j] = In(out, d)[Begun(out, d) + j]
        BY <1>1, <1>2, <2>2, <3>1 DEF Order
      <4>4. call[d].at = "enter" => call[d].block = In(out, d)[Len(out[d]) + 1]
        BY <1>1, <1>2, <2>2 DEF Order
      <4>5. offer'[d] = In(out, d)'[Given(out, d)']
        BY <1>3, <1>12, <4>1
      <4> QED BY <3>1, <4>1, <4>2, <4>3, <4>4, <4>5
    <3>2. CASE d \notin Buffers
      <4>0. Len(out[d]) \in Nat /\ call[d].at = "idle"
        BY <1>2, <1>6, <3>2 DEF Histories
      <4>1. Begun(out, d) = Len(out[d])
        BY <4>0 DEF Begun
      <4>2. Given(out, d) = Begun(out, d) + 0
        BY <1>1, <1>2, <2>2, <3>2 DEF Flow
      <4>3. Len(out[d]) + 1 = n
        BY <1>3, <1>12, <4>0, <4>1, <4>2
      <4>4. call'[d].block = x
        BY <1>6, <3>2
      <4> QED BY <1>3, <1>12, <3>2, <4>3, <4>4
    <3> QED BY <3>1, <3>2
  <2> QED BY <2>1, <2>2 DEF Order
<1>15. Passed(out)' /\ EndsLast(out)'
  BY <1>1 DEF Passed, EndsLast, In
<1>16. Current(out)'
  BY <1>1, <1>3, <1>6, <1>7 DEF Current, n
<1>17. \A c \in Elements, kind \in Kinds : Awaits(c, kind)' <=> Awaits(c, kind)
  BY <1>1, <1>6, <1>7 DEF Awaits
<1>18. Shown(out)' /\ Called(out)'
  BY <1>1, <1>17 DEF Shown, Called, Kinds, Sinks, With
<1> QED BY <1>8, <1>9, <1>13, <1>14, <1>15, <1>16, <1>18

\* What was passed from the client's blocks still is after it pushed another.
LEMMA PassedExtends ==
    ASSUME NEW in \in Seq(Blocks), NEW x \in Blocks, NEW o \in Seq(Blocks),
           PassedFrom(in, o)
    PROVE  PassedFrom(Append(in, x), o)
<1>1. /\ Len(in) \in Nat /\ Len(o) \in Nat /\ Len(Append(in, x)) = Len(in) + 1
      /\ \A k \in 1 .. Len(in) : Append(in, x)[k] = in[k]
  OBVIOUS
<1> QED BY <1>1 DEF PassedFrom

\* The client pushes a block, or an end if it is done.
LEMMA PushPreserves ==
    ASSUME NEW out \in Histories, Explains(out), NEW x \in Blocks, x # Empty, Push(x),
           client' \in {"pushing", "done"}, IsEop(x) => client' = "done"
    PROVE  Explains(out)'
<1> DEFINE m == Len(sent)
<1> USE DEF Explains
<1>1. /\ client = "pushing" /\ ~Pending(Root)
      /\ sent \in Seq(Blocks) /\ m \in Nat /\ Root \in Elements /\ Buffers \subseteq Elements
      /\ PushData(Root, x, call) /\ sent' = Append(sent, x)
      /\ UNCHANGED <<hadError, queue, thread, seen, status, eosCalls, reported, terminated>>
  BY PipelineAssumption DEF Push, TypeOK, PipelineAssumption
<1>2. /\ sent' \in Seq(Blocks) /\ Len(sent') = m + 1 /\ sent'[m + 1] = x
      /\ \A i \in 1 .. m : sent'[i] = sent[i]
  BY <1>1
<1>3. /\ call' \in [Elements -> Activations] /\ offer' \in [Buffers -> Blocks]
      /\ \A c \in Elements \ {Root} : call'[c] = call[c]
      /\ \A b \in Buffers \ {Root} : offer'[b] = offer[b]
      /\ Root \in Buffers =>
            call'[Root] = call[Root] /\ offer[Root] = Empty /\ offer'[Root] = x
      /\ Root \notin Buffers =>
            /\ call[Root].at = "idle"
            /\ call'[Root] = [at |-> "enter", block |-> x, next |-> 1]
  <2>1. call \in [Elements -> Activations]
    BY DEF TypeOK
  <2> QED BY <1>1, <2>1, PushDataGives
<1>4. TypeOK' /\ ~terminated' /\ QueuesBounded'
  BY <1>1, <1>2, <1>3 DEF TypeOK, QueuesBounded
<1>5. Source'
  <2>1. \A i \in 1 .. m : sent[i] # Empty /\ ~IsEop(sent[i])
    BY <1>1 DEF Source
  <2>2. ASSUME NEW i \in 1 .. Len(sent')
        PROVE  sent'[i] # Empty /\ (IsEop(sent'[i]) => i = Len(sent') /\ client' = "done")
    <3>1. i \in 1 .. m \/ i = m + 1
      BY <1>1, <1>2
    <3> QED BY <1>2, <2>1, <3>1
  <2> QED BY <2>2 DEF Source
<1>6. /\ \A c \in Elements : call'[c] = call[c] \/ (call[c].at = "idle" /\ call'[c].at = "enter")
      /\ \A c \in Elements : call[c].at \in {"forward", "visit"} => call'[c] = call[c]
      /\ \A c \in Elements : call'[c].at \in {"forward", "visit"} => call'[c] = call[c]
  <2>1. Root \in Buffers => call'[Root] = call[Root]
    BY <1>3
  <2>2. Root \notin Buffers => call[Root].at = "idle" /\ call'[Root].at = "enter"
    BY <1>3
  <2>3. ASSUME NEW c \in Elements
        PROVE  call'[c] = call[c] \/ (call[c].at = "idle" /\ call'[c].at = "enter")
    BY <1>3, <2>1, <2>2
  <2> QED BY <2>3
<1>7. Nested'
  <2>1. \A b \in Buffers : call'[b].at = call[b].at
    BY <1>1, <1>3
  <2>2. ASSUME NEW c \in Elements \ {Root}, Pending(c)'
        PROVE  /\ call'[Parent(c)].at = "forward"
               /\ call'[Parent(c)].next = Index(c) + 1
    <3>1. Pending(c)
      BY <1>3, <2>2 DEF Pending
    <3>2. call[Parent(c)].at = "forward" /\ call[Parent(c)].next = Index(c) + 1
      BY <2>2, <3>1 DEF Nested
    <3> QED BY <1>6, <3>2, HasParent
  <2> QED BY <1>1, <1>6, <2>1, <2>2 DEF Nested
<1>8. ASSUME NEW c \in Elements, c # Root
      PROVE  /\ Given(out, c)' = Given(out, c)
             /\ In(out, c)' = In(out, c)
             /\ Begun(out, c)' = Begun(out, c)
  <2>1. Begun(out, c)' = Begun(out, c) /\ In(out, c)' = In(out, c)
    BY <1>3, <1>8 DEF Begun, In
  <2>2. \/ call'[Parent(c)] = call[Parent(c)]
        \/ call[Parent(c)].at = "idle" /\ call'[Parent(c)].at = "enter"
    BY <1>6, <1>8, HasParent
  <2>3. CASE call'[Parent(c)] = call[Parent(c)]
    BY <1>8, <2>1, <2>3 DEF Given, Unpushed
  <2>4. CASE call[Parent(c)].at = "idle" /\ call'[Parent(c)].at = "enter"
    <3>1. ~Unpushed(c) /\ ~Unpushed(c)'
      BY <2>4 DEF Unpushed
    <3> QED BY <1>8, <2>1, <3>1 DEF Given
  <2> QED BY <2>2, <2>3, <2>4
<1>9. /\ Given(out, Root)' = m + 1 /\ Given(out, Root) = m
      /\ In(out, Root) = sent /\ In(out, Root)' = sent'
  BY <1>2 DEF Given, In
<1>10. Len(out[Root]) \in Nat
  BY <1>1 DEF Histories
<1>11. ASSUME Root \in Buffers
       PROVE  Begun(out, Root)' = Begun(out, Root) /\ Begun(out, Root) \in Nat
  <2>1. call'[Root].at = call[Root].at
    BY <1>3, <1>11
  <2>2. Begun(out, Root)' = Begun(out, Root)
    BY <2>1 DEF Begun
  <2>3. CASE call[Root].at = "enter"
    <3>1. Begun(out, Root) = Len(out[Root]) + 1
      BY <2>3 DEF Begun
    <3> QED BY <1>10, <2>2, <3>1
  <2>4. CASE call[Root].at # "enter"
    <3>1. Begun(out, Root) = Len(out[Root]) + 0
      BY <2>4 DEF Begun
    <3> QED BY <1>10, <2>2, <3>1
  <2> QED BY <2>3, <2>4
<1>12. ASSUME Root \notin Buffers
       PROVE  Begun(out, Root)' = Len(out[Root]) + 1 /\ Begun(out, Root) = Len(out[Root])
  <2>1. call'[Root].at = "enter" /\ call[Root].at = "idle"
    BY <1>3, <1>12
  <2>2. Begun(out, Root)' = Len(out[Root]) + 1
    BY <2>1 DEF Begun
  <2>3. Begun(out, Root) = Len(out[Root])
    BY <1>10, <2>1 DEF Begun
  <2> QED BY <2>2, <2>3
<1>13. Root \in Buffers => /\ Offered(Root) = 0 /\ Offered(Root)' = 1
                           /\ queue'[Root] = queue[Root] /\ Len(queue[Root]) \in Nat
  BY <1>1, <1>3 DEF Offered, TypeOK
<1>14. ~hadError[Root] => m = Begun(out, Root)
                                + (IF Root \in Buffers THEN Len(queue[Root]) ELSE 0)
  <2>1. ~hadError[Root] => m = Begun(out, Root)
             + (IF Root \in Buffers THEN Len(queue[Root]) + Offered(Root) ELSE 0)
    BY <1>1, <1>9 DEF Flow
  <2> QED BY <1>13, <2>1
<1>15. Flow(out)'
  <2>1. ASSUME NEW c \in Elements, ~hadError'[c], c # Root
        PROVE  Given(out, c)' = Begun(out, c)'
                 + (IF c \in Buffers THEN Len(queue'[c]) + Offered(c)' ELSE 0)
    <3>1. Given(out, c) = Begun(out, c)
             + (IF c \in Buffers THEN Len(queue[c]) + Offered(c) ELSE 0)
      BY <1>1, <2>1 DEF Flow
    <3>2. Given(out, c)' = Given(out, c) /\ Begun(out, c)' = Begun(out, c)
      BY <1>8, <2>1
    <3>3. c \in Buffers => queue'[c] = queue[c] /\ Offered(c)' = Offered(c)
      BY <1>1, <1>3, <2>1 DEF Offered
    <3> QED BY <3>1, <3>2, <3>3
  <2>2. ASSUME ~hadError'[Root]
        PROVE  Given(out, Root)' = Begun(out, Root)'
                 + (IF Root \in Buffers THEN Len(queue'[Root]) + Offered(Root)' ELSE 0)
    <3>1. ~hadError[Root]
      BY <1>1, <2>2
    <3>2. CASE Root \in Buffers
      BY <1>1, <1>9, <1>11, <1>13, <1>14, <3>1, <3>2
    <3>3. CASE Root \notin Buffers
      BY <1>1, <1>9, <1>10, <1>12, <1>14, <3>1, <3>3
    <3> QED BY <3>2, <3>3
  <2> QED BY <2>1, <2>2 DEF Flow
<1>16. Order(out)'
  <2>1. ASSUME NEW c \in Elements, ~hadError'[c], c # Root
        PROVE  /\ call'[c].at = "enter" => call'[c].block = In(out, c)'[Len(out[c]) + 1]
               /\ c \in Buffers =>
                   /\ \A j \in 1 .. Len(queue'[c]) :
                        queue'[c][j] = In(out, c)'[Begun(out, c)' + j]
                   /\ offer'[c] # Empty => offer'[c] = In(out, c)'[Given(out, c)']
    <3>1. /\ Given(out, c)' = Given(out, c) /\ Begun(out, c)' = Begun(out, c)
          /\ In(out, c)' = In(out, c)
      BY <1>8, <2>1
    <3>2. call'[c] = call[c] /\ (c \in Buffers => queue'[c] = queue[c] /\ offer'[c] = offer[c])
      BY <1>1, <1>3, <2>1
    <3>3. /\ call[c].at = "enter" => call[c].block = In(out, c)[Len(out[c]) + 1]
          /\ c \in Buffers =>
              /\ \A j \in 1 .. Len(queue[c]) : queue[c][j] = In(out, c)[Begun(out, c) + j]
              /\ offer[c] # Empty => offer[c] = In(out, c)[Given(out, c)]
      BY <1>1, <2>1 DEF Order
    <3> QED BY <3>1, <3>2, <3>3
  <2>2. ASSUME ~hadError'[Root]
        PROVE  /\ call'[Root].at = "enter" =>
                    call'[Root].block = In(out, Root)'[Len(out[Root]) + 1]
               /\ Root \in Buffers =>
                   /\ \A j \in 1 .. Len(queue'[Root]) :
                        queue'[Root][j] = In(out, Root)'[Begun(out, Root)' + j]
                   /\ offer'[Root] # Empty => offer'[Root] = In(out, Root)'[Given(out, Root)']
    <3>1. ~hadError[Root]
      BY <1>1, <2>2
    <3>2. CASE Root \in Buffers
      <4>1. /\ call'[Root] = call[Root] /\ queue'[Root] = queue[Root]
            /\ offer'[Root] = x /\ Len(queue[Root]) \in Nat
        BY <1>3, <1>13, <3>2
      <4>2. Begun(out, Root)' = Begun(out, Root) /\ Begun(out, Root) \in Nat
        BY <1>11, <3>2
      <4>3. m = Begun(out, Root) + Len(queue[Root])
        BY <1>14, <3>1, <3>2
      <4>4. offer'[Root] = sent'[Given(out, Root)']
        BY <1>2, <1>9, <4>1
      <4>5. ASSUME NEW j \in 1 .. Len(queue[Root])
            PROVE  queue[Root][j] = sent'[Begun(out, Root) + j]
        <5>1. queue[Root][j] = sent[Begun(out, Root) + j]
          BY <1>1, <1>9, <3>1, <3>2 DEF Order
        <5>2. Begun(out, Root) + j \in 1 .. m
          BY <4>1, <4>2, <4>3
        <5> QED BY <1>2, <5>1, <5>2
      <4>6. ASSUME call[Root].at = "enter"
            PROVE  call[Root].block = sent'[Len(out[Root]) + 1]
        <5>1. call[Root].block = sent[Len(out[Root]) + 1]
          BY <1>1, <1>9, <3>1, <4>6 DEF Order
        <5>2. Begun(out, Root) = Len(out[Root]) + 1
          BY <4>6 DEF Begun
        <5>3. Len(out[Root]) + 1 <= m
          <6> DEFINE k == Len(queue[Root])
                     j == Len(out[Root])
          <6>1. k \in Nat /\ j \in Nat /\ m = (j + 1) + k
            BY <1>10, <4>1, <4>3, <5>2
          <6>2. j + 1 <= m
            <7> HIDE DEF k, j, m
            <7> QED BY <6>1
          <6> QED BY <6>2
        <5>4. Len(out[Root]) + 1 \in 1 .. m
          BY <1>1, <1>10, <5>3
        <5> QED BY <1>2, <5>1, <5>4
      <4> QED BY <1>9, <4>1, <4>2, <4>4, <4>5, <4>6
    <3>3. CASE Root \notin Buffers
      <4>1. Len(out[Root]) + 1 = m + 1
        BY <1>1, <1>10, <1>12, <1>14, <3>1, <3>3
      <4>2. call'[Root].block = x
        BY <1>3, <3>3
      <4> QED BY <1>2, <1>9, <3>3, <4>1, <4>2
    <3> QED BY <3>2, <3>3
  <2> QED BY <2>1, <2>2 DEF Order
<1>17. Passed(out)'
  <2>1. ASSUME NEW d \in Elements
        PROVE  PassedFrom(In(out, d)', out[d]) /\ PassedFrom(sent', out[d])
    <3>1. out[d] \in Seq(Blocks)
      BY DEF Histories
    <3>2. PassedFrom(In(out, d), out[d]) /\ PassedFrom(sent, out[d])
      BY DEF Passed
    <3>3. PassedFrom(sent', out[d])
      BY <1>1, <3>1, <3>2, PassedExtends
    <3> QED BY <1>8, <1>9, <3>2, <3>3
  <2> QED BY <2>1 DEF Passed, PassedFrom, In
<1>18. Current(out)' /\ EndsLast(out)'
  BY <1>1, <1>6 DEF Current, EndsLast
<1>19. \A c \in Elements, kind \in Kinds : Awaits(c, kind)' <=> Awaits(c, kind)
  BY <1>6 DEF Awaits
<1>20. Shown(out)' /\ Called(out)'
  BY <1>1, <1>19 DEF Shown, Called, Kinds, Sinks, With
<1> QED BY <1>4, <1>5, <1>7, <1>15, <1>16, <1>17, <1>18, <1>20

\* The blocks that an element has yet to put out are among those it was given,
\* and those among the ones it is to be given.
LEMMA GivenCovers ==
    ASSUME NEW out \in Histories, Explains(out), NEW c \in Elements, ~hadError[c]
    PROVE  /\ Len(out[c]) \in Nat /\ Given(out, c) \in Nat
           /\ In(out, c) \in Seq(Blocks) /\ Len(In(out, c)) \in Nat
           /\ Given(out, c) <= Len(In(out, c))
           /\ call[c].at = "enter" =>
                Len(out[c]) + 1 <= Given(out, c) /\ Begun(out, c) = Len(out[c]) + 1
           /\ call[c].at # "enter" => Begun(out, c) = Len(out[c])
           /\ c \in Buffers =>
                /\ Len(queue[c]) \in Nat
                /\ \A j \in 1 .. Len(queue[c]) : Begun(out, c) + j \in 1 .. Given(out, c)
<1>1. Len(out[c]) \in Nat /\ (c \in Buffers => Len(queue[c]) \in Nat)
  BY DEF Histories, Explains, TypeOK
<1>2. In(out, c) \in Seq(Blocks)
  BY HasParent DEF In, Histories, Explains, TypeOK
<1>3. Len(In(out, c)) \in Nat
  BY <1>2
<1>4. Given(out, c) \in Int /\ Given(out, c) <= Len(In(out, c))
  <2>1. CASE c = Root
    BY <1>3, <2>1 DEF Given, In
  <2>2. CASE c # Root
    <3>1. In(out, c) = out[Parent(c)]
      BY <2>2 DEF In
    <3>2. CASE Unpushed(c)
      <4>1. Given(out, c) = Len(In(out, c)) - 1
        BY <2>2, <3>1, <3>2 DEF Given
      <4> QED BY <1>3, <4>1
    <3>3. CASE ~Unpushed(c)
      <4>1. Given(out, c) = Len(In(out, c)) - 0
        BY <2>2, <3>1, <3>3 DEF Given
      <4> QED BY <1>3, <4>1
    <3> QED BY <3>2, <3>3
  <2> QED BY <2>1, <2>2
<1>5. /\ call[c].at = "enter" => Begun(out, c) = Len(out[c]) + 1
      /\ call[c].at # "enter" => Begun(out, c) = Len(out[c])
  <2>1. CASE call[c].at = "enter"
    BY <2>1 DEF Begun
  <2>2. CASE call[c].at # "enter"
    <3>1. Begun(out, c) = Len(out[c]) + 0
      BY <2>2 DEF Begun
    <3> QED BY <1>1, <2>2, <3>1
  <2> QED BY <2>1, <2>2
<1>6. Begun(out, c) \in Nat
  BY <1>1, <1>5
<1>7. Given(out, c) = Begun(out, c)
        + (IF c \in Buffers THEN Len(queue[c]) + Offered(c) ELSE 0)
  BY DEF Explains, Flow
<1>8. Offered(c) \in Nat
  BY DEF Offered
<1>9. Begun(out, c) <= Given(out, c)
  BY <1>1, <1>6, <1>7, <1>8
<1>10. ASSUME c \in Buffers, NEW j \in 1 .. Len(queue[c])
       PROVE  Begun(out, c) + j \in 1 .. Given(out, c)
  <2>1. Begun(out, c) + Len(queue[c]) <= Given(out, c)
    BY <1>1, <1>6, <1>7, <1>8, <1>10
  <2> QED BY <1>1, <1>4, <1>6, <1>10, <2>1
<1> QED BY <1>1, <1>2, <1>3, <1>4, <1>5, <1>6, <1>9, <1>10

\* A block put out after those before it.
LEMMA PassedAppends ==
    ASSUME NEW in \in Seq(Blocks), NEW o \in Seq(Blocks), NEW x \in Blocks,
           PassedFrom(in, o), Len(o) + 1 <= Len(in), x \in {in[Len(o) + 1], Error}
    PROVE  PassedFrom(in, Append(o, x))
<1>1. /\ Len(in) \in Nat /\ Len(o) \in Nat /\ Len(Append(o, x)) = Len(o) + 1
      /\ \A k \in 1 .. Len(o) : Append(o, x)[k] = o[k]
      /\ Append(o, x)[Len(o) + 1] = x
  OBVIOUS
<1>2. \A k \in 1 .. Len(o) + 1 : k \in 1 .. Len(o) \/ k = Len(o) + 1
  BY <1>1
<1> QED BY <1>1, <1>2 DEF PassedFrom

\* The next output of an element without an error: its place in what the parent
\* put out and in what the client pushed, and no end is before it.
LEMMA NextOutput ==
    ASSUME NEW out \in Histories, Explains(out), NEW e \in Elements,
           call[e].at = "enter", ~hadError[e]
    PROVE  /\ Len(out[e]) \in Nat
           /\ Len(out[e]) + 1 <= Len(In(out, e)) /\ Len(out[e]) + 1 <= Len(sent)
           /\ call[e].block = In(out, e)[Len(out[e]) + 1]
           /\ call[e].block \in {sent[Len(out[e]) + 1], Error}
           /\ \A j \in 1 .. Len(out[e]) : ~IsEop(out[e][j])
<1> DEFINE n == Len(out[e])
<1>1. /\ n \in Nat /\ In(out, e) \in Seq(Blocks) /\ Len(In(out, e)) \in Nat
      /\ n + 1 <= Len(In(out, e))
  BY GivenCovers
<1>2. call[e].block = In(out, e)[n + 1]
  BY DEF Explains, Order
<1>3. sent \in Seq(Blocks) /\ Len(sent) \in Nat
  BY DEF Explains, TypeOK
<1>4. PassedFrom(sent, In(out, e))
  <2>1. CASE e = Root
    <3>1. In(out, e) = sent
      BY <2>1 DEF In
    <3> QED BY <1>3, <3>1 DEF PassedFrom
  <2>2. CASE e # Root
    BY <2>2, HasParent DEF In, Explains, Passed
  <2> QED BY <2>1, <2>2
<1>5. n + 1 <= Len(sent) /\ In(out, e)[n + 1] \in {sent[n + 1], Error}
  <2> HIDE DEF n
  <2> QED BY <1>1, <1>3, <1>4 DEF PassedFrom
<1>6. ASSUME NEW j \in 1 .. n, IsEop(out[e][j])
      PROVE  FALSE
  <2>1. j = n
    BY <1>6 DEF Explains, EndsLast
  <2>2. out[e][j] # Error
    <3>1. SUFFICES ASSUME out[e][j] = Error PROVE FALSE
      OBVIOUS
    <3>2. EndedBy(out[e], "error")
      BY <1>1, <2>1, <3>1 DEF EndedBy, Error, Eop
    <3> QED BY <3>2 DEF Explains, EndsLast
  <2>3. out[e][j] = sent[j]
    BY <2>2 DEF Explains, Passed, PassedFrom
  <2>4. j \in 1 .. Len(sent)
    BY <1>1, <1>3, <1>5
  <2>5. j = Len(sent)
    BY <1>6, <2>3, <2>4 DEF Explains, Source
  <2> QED BY <1>1, <1>3, <1>5, <2>1, <2>5
<1> QED BY <1>1, <1>2, <1>5, <1>6

\* After an error, pushData returns at once.
LEMMA DropPreserves ==
    ASSUME NEW out \in Histories, Explains(out), NEW e \in Elements, Enter(e), hadError[e]
    PROVE  Explains(out)'
<1> USE DEF Explains
<1>1. /\ call[e].at = "enter" /\ call' = [call EXCEPT ![e].at = "idle"]
      /\ UNCHANGED <<client, sent, hadError, offer, queue, thread, seen, status,
                     eosCalls, reported, terminated>>
  BY DEF Enter
<1>2. /\ call' \in [Elements -> Activations] /\ call'[e].at = "idle"
      /\ \A c \in Elements \ {e} : call'[c] = call[c]
  BY <1>1 DEF TypeOK, Activations
<1>3. TypeOK' /\ ~terminated' /\ Source' /\ QueuesBounded'
  BY <1>1, <1>2 DEF TypeOK, Source, QueuesBounded
<1>4. /\ \A c \in Elements : call[c].at \in {"forward", "visit"} => call'[c] = call[c]
      /\ \A c \in Elements : call'[c].at \in {"forward", "visit"} => call'[c] = call[c]
  BY <1>1, <1>2
<1>5. Nested'
  <2>1. \A b \in Buffers : call'[b].at # "idle" => thread'[b] = "pushing"
    BY <1>1, <1>2, PipelineAssumption DEF Nested, PipelineAssumption
  <2>2. ASSUME NEW c \in Elements \ {Root}, Pending(c)'
        PROVE  /\ call'[Parent(c)].at = "forward"
               /\ call'[Parent(c)].next = Index(c) + 1
    <3>1. Pending(c)
      BY <1>1, <1>2, <2>2 DEF Pending
    <3>2. call[Parent(c)].at = "forward" /\ call[Parent(c)].next = Index(c) + 1
      BY <2>2, <3>1 DEF Nested
    <3> QED BY <1>4, <3>2, HasParent
  <2> QED BY <1>4, <2>1, <2>2 DEF Nested
<1>6. ASSUME NEW c \in Elements
      PROVE  Given(out, c)' = Given(out, c) /\ In(out, c)' = In(out, c)
  <2>1. CASE c = Root
    BY <1>1, <2>1 DEF Given, In
  <2>2. CASE c # Root
    <3>1. CASE Parent(c) = e
      <4>1. ~Unpushed(c) /\ ~Unpushed(c)'
        BY <1>1, <1>2, <3>1 DEF Unpushed
      <4> QED BY <2>2, <4>1 DEF Given, In
    <3>2. CASE Parent(c) # e
      <4>1. call'[Parent(c)] = call[Parent(c)]
        BY <1>2, <2>2, <3>2, HasParent
      <4> QED BY <2>2, <4>1 DEF Given, In, Unpushed
    <3> QED BY <3>1, <3>2
  <2> QED BY <2>1, <2>2
<1>7. \A c \in Elements \ {e} : Begun(out, c)' = Begun(out, c)
  BY <1>2 DEF Begun
<1>8. \A c \in Elements : ~hadError'[c] => ~hadError[c] /\ c # e
  BY <1>1
<1>9. Flow(out)' /\ Order(out)'
  <2>1. Flow(out)'
    BY <1>1, <1>6, <1>7, <1>8 DEF Flow, Offered
  <2>2. \A c \in Elements \ {e} : call'[c] = call[c]
    BY <1>2
  <2>3. Order(out)'
    BY <1>1, <1>6, <1>7, <1>8, <2>2 DEF Order
  <2> QED BY <2>1, <2>3
<1>10. Passed(out)' /\ Current(out)' /\ EndsLast(out)'
  BY <1>1, <1>4, <1>6 DEF Passed, Current, EndsLast
<1>11. \A c \in Elements, kind \in Kinds : Awaits(c, kind)' <=> Awaits(c, kind)
  BY <1>4 DEF Awaits
<1>12. Shown(out)' /\ Called(out)'
  BY <1>1, <1>11 DEF Shown, Called, Kinds, Sinks, With
<1> QED BY <1>3, <1>5, <1>9, <1>10, <1>12

\* The element puts out the block that it is about to show.
Grows(out, next, e) ==
    /\ \A c \in Elements \ {e} : next[c] = out[c] /\ call'[c] = call[c]
    /\ next[e] = Append(out[e], call'[e].block)
    /\ call'[e].at \in {"visit", "forward"} /\ call'[e].next = 1
    /\ e \in Buffers => call'[e].block = call[e].block
    /\ UNCHANGED <<client, sent, offer, queue, thread>>

\* An element puts out a block: the history grows by it.
LEMMA ProcessPreserves ==
    ASSUME NEW out \in Histories, Explains(out), NEW e \in Elements, Enter(e),
           ~hadError[e], Failures \subseteq {"error"}
    PROVE  \E next \in Histories : Explains(next)' /\ Grows(out, next, e)
<1> DEFINE n == Len(out[e])
<1>1. PICK x \in Outputs(e, call[e].block) :
        /\ call[e].at = "enter"
        /\ call' = [call EXCEPT ![e] = Activation(e, x, 1)]
        /\ hadError' = [hadError EXCEPT ![e] = Latches(x)]
        /\ UNCHANGED <<client, sent, offer, queue, thread, seen, status, eosCalls,
                       reported, terminated>>
  BY DEF Enter
<1>2. /\ n \in Nat /\ out[e] \in Seq(Blocks) /\ call[e] \in Activations
      /\ n + 1 <= Len(In(out, e)) /\ n + 1 <= Len(sent)
      /\ call[e].block = In(out, e)[n + 1]
      /\ call[e].block \in {sent[n + 1], Error}
      /\ \A j \in 1 .. n : ~IsEop(out[e][j])
      /\ In(out, e) \in Seq(Blocks) /\ sent \in Seq(Blocks)
  BY <1>1, NextOutput, GivenCovers DEF Histories, Explains, TypeOK
<1>3. /\ x \in Blocks /\ x \in {call[e].block, Error}
      /\ e \in Buffers => x = call[e].block
  <2>1. call[e].block \in Blocks
    BY <1>2 DEF Activations
  <2>2. 0 \in 0 .. MaxBlocks
    BY PipelineAssumption DEF PipelineAssumption
  <2>3. Error \in Blocks
    BY <2>2 DEF Error, Eop, Blocks, Statuses
  <2> QED BY <2>1, <2>3 DEF Outputs, Error
<1> DEFINE next == [out EXCEPT ![e] = Append(out[e], x)]
<1>4. /\ next \in Histories
      /\ next[e] \in Seq(Blocks) /\ Len(next[e]) = n + 1 /\ next[e][n + 1] = x
      /\ \A j \in 1 .. n : next[e][j] = out[e][j]
      /\ next[e] = Append(out[e], x)
      /\ \A c \in Elements \ {e} : next[c] = out[c]
  BY <1>2, <1>3 DEF Histories
<1> HIDE DEF next
<1>5. /\ call' \in [Elements -> Activations]
      /\ call'[e].block = x
      /\ \/ call'[e].at = "visit" /\ call'[e].next = 1 /\ 1 \in DOMAIN Visitors[e]
         \/ call'[e].at = "forward" /\ call'[e].next = 1 /\ Len(Visitors[e]) = 0
      /\ \A c \in Elements \ {e} : call'[c] = call[c]
      /\ hadError' \in [Elements -> BOOLEAN]
      /\ hadError'[e] <=> x.eop = "error"
      /\ \A c \in Elements \ {e} : hadError'[c] = hadError[c]
  <2>1. Len(Visitors[e]) \in Nat /\ DOMAIN Visitors[e] = 1 .. Len(Visitors[e])
    BY PipelineAssumption DEF PipelineAssumption
  <2>2. Visiting(e, 1) = IF 1 <= Len(Visitors[e]) THEN [at |-> "visit", next |-> 1]
                         ELSE [at |-> "forward", next |-> 1]
    BY DEF Visiting
  <2>3. /\ Activation(e, x, 1) \in Activations /\ Activation(e, x, 1).block = x
        /\ \/ /\ Activation(e, x, 1).at = "visit" /\ Activation(e, x, 1).next = 1
              /\ 1 \in DOMAIN Visitors[e]
           \/ /\ Activation(e, x, 1).at = "forward" /\ Activation(e, x, 1).next = 1
              /\ Len(Visitors[e]) = 0
    <3>1. CASE 1 <= Len(Visitors[e])
      BY <1>3, <2>1, <2>2, <3>1 DEF Activation, Activations
    <3>2. CASE ~(1 <= Len(Visitors[e]))
      BY <1>3, <2>1, <2>2, <3>2 DEF Activation, Activations
    <3> QED BY <3>1, <3>2
  <2>4. call \in [Elements -> Activations] /\ hadError \in [Elements -> BOOLEAN]
    BY DEF Explains, TypeOK
  <2>5. call'[e] = Activation(e, x, 1) /\ call' \in [Elements -> Activations]
    BY <1>1, <2>3, <2>4
  <2>6. Latches(x) \in BOOLEAN /\ (Latches(x) <=> x.eop = "error")
    BY DEF Latches
  <2> QED BY <1>1, <2>3, <2>4, <2>5, <2>6
<1>6. TypeOK' /\ ~terminated' /\ Source' /\ QueuesBounded'
  BY <1>1, <1>5 DEF Explains, TypeOK, Source, QueuesBounded
<1>7. \A c \in Elements : c # e => (call'[c].at = call[c].at /\ call'[c].next = call[c].next)
  BY <1>5
<1>8. Nested'
  <2>1. \A b \in Buffers : call'[b].at # "idle" => thread'[b] = "pushing"
    <3>1. Buffers \subseteq Elements
      BY PipelineAssumption DEF PipelineAssumption
    <3>2. \A b \in Buffers : call'[b].at # "idle" => call[b].at # "idle"
      BY <1>1, <1>7, <3>1
    <3> QED BY <1>1, <3>2 DEF Explains, Nested
  <2>2. ASSUME NEW c \in Elements \ {Root}, Pending(c)'
        PROVE  /\ call'[Parent(c)].at = "forward"
               /\ call'[Parent(c)].next = Index(c) + 1
    <3>1. Pending(c)
      BY <1>1, <1>5, <2>2 DEF Pending
    <3>2. call[Parent(c)].at = "forward" /\ call[Parent(c)].next = Index(c) + 1
      BY <2>2, <3>1 DEF Explains, Nested
    <3>3. Parent(c) \in Elements /\ Parent(c) # e
      BY <1>1, <3>2, HasParent
    <3> QED BY <1>7, <3>2, <3>3
  <2>3. \A c \in Elements : call'[c].at = "visit" => call'[c].next \in DOMAIN Visitors[c]
    BY <1>5, <1>7 DEF Explains, Nested
  <2> QED BY <2>1, <2>2, <2>3 DEF Nested
<1>9. /\ In(next, e)' = In(out, e) /\ Given(next, e)' = Given(out, e)
      /\ Begun(next, e)' = n + 1 /\ Begun(out, e) = n + 1
  <2>1. In(next, e)' = In(out, e) /\ Given(next, e)' = Given(out, e)
    <3>1. CASE e = Root
      BY <1>1, <3>1 DEF In, Given
    <3>2. CASE e # Root
      <4>1. Parent(e) \in Elements \ {e}
        BY <3>2, HasParent
      <4>2. call'[Parent(e)] = call[Parent(e)] /\ next[Parent(e)] = out[Parent(e)]
        BY <1>4, <1>5, <4>1
      <4> QED BY <3>2, <4>2 DEF In, Given, Unpushed
    <3> QED BY <3>1, <3>2
  <2>2. Begun(next, e)' = n + 1
    <3>1. call'[e].at # "enter"
      BY <1>5
    <3>2. Begun(next, e)' = Len(next[e]) + 0
      BY <3>1 DEF Begun
    <3> QED BY <1>2, <1>4, <3>2
  <2>3. Begun(out, e) = n + 1
    BY <1>1 DEF Begun
  <2> QED BY <2>1, <2>2, <2>3
<1>10. ASSUME NEW c \in Elements, c # e
       PROVE  /\ Given(next, c)' = Given(out, c)
              /\ Begun(next, c)' = Begun(out, c)
              /\ \/ In(next, c)' = In(out, c)
                 \/ /\ c # Root /\ Parent(c) = e /\ Given(out, c) = n
                    /\ In(out, c) = out[e] /\ In(next, c)' = next[e]
  <2>1. Begun(next, c)' = Begun(out, c)
    BY <1>4, <1>7, <1>10 DEF Begun
  <2>2. CASE c = Root
    BY <1>1, <2>1, <2>2 DEF Given, In
  <2>3. CASE c # Root /\ Parent(c) # e
    <3>1. Parent(c) \in Elements \ {e}
      BY <2>3, HasParent
    <3>2. call'[Parent(c)] = call[Parent(c)] /\ next[Parent(c)] = out[Parent(c)]
      BY <1>4, <1>5, <3>1
    <3> QED BY <2>1, <2>3, <3>2 DEF In, Given, Unpushed
  <2>4. CASE c # Root /\ Parent(c) = e
    <3>1. ~Unpushed(c)
      BY <1>1, <2>4 DEF Unpushed
    <3>2. Unpushed(c)'
      <4>1. Index(c) \in 1 .. Len(Processors[e])
        BY <2>4, ChildIs DEF Explains
      <4> QED BY <1>5, <2>4, <4>1 DEF Unpushed
    <3>3. Given(out, c) = n
      BY <1>2, <2>4, <3>1 DEF Given
    <3>4. Given(next, c)' = n
      <4>1. Given(next, c)' = (n + 1) - 1
        BY <1>4, <2>4, <3>2 DEF Given
      <4> QED BY <1>2, <4>1
    <3> QED BY <2>1, <2>4, <3>3, <3>4 DEF In
  <2> QED BY <2>2, <2>3, <2>4
<1>11. Flow(next)'
  <2>1. ASSUME NEW c \in Elements, ~hadError'[c]
        PROVE  Given(next, c)' = Begun(next, c)'
                 + (IF c \in Buffers THEN Len(queue'[c]) + Offered(c)' ELSE 0)
    <3>1. ~hadError[c]
      BY <1>5, <2>1
    <3>2. Given(out, c) = Begun(out, c)
             + (IF c \in Buffers THEN Len(queue[c]) + Offered(c) ELSE 0)
      BY <3>1 DEF Explains, Flow
    <3>3. Given(next, c)' = Given(out, c) /\ Begun(next, c)' = Begun(out, c)
      BY <1>9, <1>10
    <3>4. queue' = queue /\ Offered(c)' = Offered(c)
      BY <1>1 DEF Offered
    <3> QED BY <3>2, <3>3, <3>4
  <2> QED BY <2>1 DEF Flow
<1>12. Order(next)'
  <2>1. ASSUME NEW c \in Elements, ~hadError'[c]
        PROVE  /\ call'[c].at = "enter" => call'[c].block = In(next, c)'[Len(next[c]) + 1]
               /\ c \in Buffers =>
                   /\ \A j \in 1 .. Len(queue'[c]) :
                        queue'[c][j] = In(next, c)'[Begun(next, c)' + j]
                   /\ offer'[c] # Empty => offer'[c] = In(next, c)'[Given(next, c)']
    <3>1. ~hadError[c]
      BY <1>5, <2>1
    <3>2. /\ call[c].at = "enter" => call[c].block = In(out, c)[Len(out[c]) + 1]
          /\ c \in Buffers =>
              /\ \A j \in 1 .. Len(queue[c]) : queue[c][j] = In(out, c)[Begun(out, c) + j]
              /\ offer[c] # Empty => offer[c] = In(out, c)[Given(out, c)]
      BY <3>1 DEF Explains, Order
    <3>3. queue' = queue /\ offer' = offer
      BY <1>1
    <3>4. CASE c = e
      <4>1. call'[e].at # "enter"
        BY <1>5
      <4> QED BY <1>9, <3>2, <3>3, <3>4, <4>1
    <3>5. CASE c # e
      <4>1. call'[c] = call[c] /\ next[c] = out[c]
        BY <1>4, <1>5, <3>5
      <4>2. Given(next, c)' = Given(out, c) /\ Begun(next, c)' = Begun(out, c)
        BY <1>10, <3>5
      <4>3. CASE In(next, c)' = In(out, c)
        BY <3>2, <3>3, <4>1, <4>2, <4>3
      <4>4. CASE /\ c # Root /\ Parent(c) = e /\ Given(out, c) = n
                 /\ In(out, c) = out[e] /\ In(next, c)' = next[e]
        <5>1. call[c].at = "enter" => call[c].block = next[e][Len(out[c]) + 1]
          <6>1. SUFFICES ASSUME call[c].at = "enter"
                         PROVE  call[c].block = next[e][Len(out[c]) + 1]
            OBVIOUS
          <6>2. Len(out[c]) \in Nat /\ Len(out[c]) + 1 <= n
            BY <3>1, <4>4, <6>1, GivenCovers
          <6>3. Len(out[c]) + 1 \in 1 .. n
            BY <1>2, <6>2
          <6> QED BY <1>4, <3>2, <4>4, <6>1, <6>3
        <5>2. ASSUME c \in Buffers, NEW j \in 1 .. Len(queue[c])
              PROVE  queue[c][j] = next[e][Begun(out, c) + j]
          <6>1. Begun(out, c) + j \in 1 .. n
            BY <3>1, <4>4, <5>2, GivenCovers
          <6> QED BY <1>4, <3>2, <4>4, <5>2, <6>1
        <5>3. c \in Buffers => offer[c] = Empty
          <6>1. SUFFICES ASSUME c \in Buffers, offer[c] # Empty PROVE FALSE
            OBVIOUS
          <6>2. Pending(c)
            BY <6>1 DEF Pending
          <6>3. call[Parent(c)].at = "forward" /\ call[Parent(c)].next = Index(c) + 1
            BY <4>4, <6>2 DEF Explains, Nested
          <6> QED BY <1>1, <4>4, <6>3
        <5> QED BY <3>3, <4>1, <4>2, <4>4, <5>1, <5>2, <5>3
      <4> QED BY <1>10, <3>5, <4>3, <4>4
    <3> QED BY <3>4, <3>5
  <2> QED BY <2>1 DEF Order
<1>13. Passed(next)'
  <2>1. ASSUME NEW c \in Elements, c # e
        PROVE  PassedFrom(In(next, c)', next[c]) /\ PassedFrom(sent', next[c])
    <3>1. /\ next[c] = out[c] /\ out[c] \in Seq(Blocks)
          /\ PassedFrom(In(out, c), out[c]) /\ PassedFrom(sent, out[c])
      BY <1>4, <2>1 DEF Histories, Explains, Passed
    <3>2. CASE In(next, c)' = In(out, c)
      BY <1>1, <3>1, <3>2
    <3>3. CASE In(out, c) = out[e] /\ In(next, c)' = next[e]
      <4>1. PassedFrom(Append(out[e], x), out[c])
        BY <1>2, <1>3, <3>1, <3>3, PassedExtends
      <4> QED BY <1>1, <1>4, <3>1, <3>3, <4>1
    <3> QED BY <1>10, <2>1, <3>2, <3>3
  <2>2. PassedFrom(In(next, e)', next[e]) /\ PassedFrom(sent', next[e])
    <3>1. PassedFrom(In(out, e), out[e]) /\ PassedFrom(sent, out[e])
      BY DEF Explains, Passed
    <3>2. x \in {In(out, e)[n + 1], Error} /\ x \in {sent[n + 1], Error}
      BY <1>2, <1>3
    <3>3. PassedFrom(In(out, e), next[e]) /\ PassedFrom(sent, next[e])
      BY <1>2, <1>3, <1>4, <3>1, <3>2, PassedAppends
    <3> QED BY <1>1, <1>9, <3>3
  <2> QED BY <2>1, <2>2 DEF Passed, PassedFrom, In
<1>14. Current(next)'
  <2>1. Len(next[e]) > 0 /\ call'[e].block = next[e][Len(next[e])]
    BY <1>2, <1>4, <1>5
  <2> QED BY <1>4, <1>5, <2>1 DEF Explains, Current
<1>15. EndsLast(next)'
  <2>1. ASSUME NEW k \in 1 .. Len(next[e]), IsEop(next[e][k])
        PROVE  k = Len(next[e])
    <3>1. k \in 1 .. n \/ k = n + 1
      BY <1>2, <1>4
    <3> QED BY <1>2, <1>4, <2>1, <3>1
  <2>2. hadError'[e] <=> EndedBy(next[e], "error")
    BY <1>2, <1>4, <1>5 DEF EndedBy
  <2>3. ASSUME NEW c \in Elements, c # e
        PROVE  /\ \A k \in 1 .. Len(next[c]) : IsEop(next[c][k]) => k = Len(next[c])
               /\ hadError'[c] <=> EndedBy(next[c], "error")
    BY <1>4, <1>5, <2>3 DEF Explains, EndsLast
  <2> QED BY <2>1, <2>2, <2>3 DEF EndsLast
<1>16. ASSUME NEW c \in Elements, c # e, NEW kind \in Kinds
       PROVE  Awaits(c, kind)' <=> Awaits(c, kind)
  BY <1>7, <1>16 DEF Awaits
<1>17. Shown(next)'
  <2>1. ASSUME NEW s \in Sinks, s # e
        PROVE  /\ Len(seen'[s]) = Len(next[s]) - (IF Awaits(s, "StreamSink")' THEN 1 ELSE 0)
               /\ \A k \in 1 .. Len(seen'[s]) : seen'[s][k] = next[s][k]
               /\ status'[s] = IF Ended(seen'[s]) THEN seen'[s][Len(seen'[s])].eop ELSE Unset
    <3>1. s \in Elements /\ next[s] = out[s]
      BY <1>4, <2>1 DEF Sinks, With
    <3>2. Awaits(s, "StreamSink")' <=> Awaits(s, "StreamSink")
      BY <1>16, <2>1, <3>1 DEF Kinds
    <3>3. seen' = seen /\ status' = status
      BY <1>1
    <3> QED BY <3>1, <3>2, <3>3 DEF Explains, Shown
  <2>2. ASSUME e \in Sinks
        PROVE  /\ Len(seen'[e]) = Len(next[e]) - (IF Awaits(e, "StreamSink")' THEN 1 ELSE 0)
               /\ \A k \in 1 .. Len(seen'[e]) : seen'[e][k] = next[e][k]
               /\ status'[e] = IF Ended(seen'[e]) THEN seen'[e][Len(seen'[e])].eop ELSE Unset
    <3>1. PICK j \in DOMAIN Visitors[e] : Visitors[e][j] = "StreamSink"
      BY <2>2 DEF Sinks, With
    <3>2. /\ Len(Visitors[e]) \in Nat /\ j \in Nat /\ j >= 1 /\ Len(Visitors[e]) # 0
      BY <3>1, PipelineAssumption DEF PipelineAssumption
    <3>3. Awaits(e, "StreamSink")' /\ ~Awaits(e, "StreamSink")
      BY <1>1, <1>5, <3>1, <3>2 DEF Awaits
    <3>4. Len(seen[e]) = n
      <4>1. Len(seen[e]) = Len(out[e]) - 0
        BY <2>2, <3>3 DEF Explains, Shown
      <4> QED BY <1>2, <4>1
    <3>5. Len(seen[e]) = Len(next[e]) - 1
      BY <1>2, <1>4, <3>4
    <3>6. \A k \in 1 .. Len(seen[e]) : seen[e][k] = next[e][k]
      BY <1>4, <2>2, <3>4 DEF Explains, Shown
    <3>7. status[e] = IF Ended(seen[e]) THEN seen[e][Len(seen[e])].eop ELSE Unset
      BY <2>2 DEF Explains, Shown
    <3>8. seen' = seen /\ status' = status
      BY <1>1
    <3> QED BY <3>3, <3>5, <3>6, <3>7, <3>8
  <2> QED BY <2>1, <2>2 DEF Shown
<1>18. Called(next)'
  <2>1. ASSUME NEW c \in Elements, c # e
        PROVE  /\ eosCalls'[c] \in {0, 1}
               /\ eosCalls'[c] = 1 => ~Awaits(c, "OnEosVistor")' /\ Ended(next[c])
    <3>1. Awaits(c, "OnEosVistor")' <=> Awaits(c, "OnEosVistor")
      BY <1>16, <2>1 DEF Kinds
    <3> QED BY <1>1, <1>4, <2>1, <3>1 DEF Explains, Called
  <2>2. eosCalls[e] = 0
    <3>1. ~Ended(out[e])
      BY <1>2 DEF Ended
    <3> QED BY <3>1 DEF Explains, Called
  <2> QED BY <1>1, <2>1, <2>2 DEF Called
<1>19. Grows(out, next, e)
  BY <1>1, <1>3, <1>4, <1>5 DEF Grows
<1> QED BY <1>4, <1>6, <1>8, <1>11, <1>12, <1>13, <1>14, <1>15, <1>17, <1>18, <1>19
        DEF Explains

\* Visitors of one kind are at one place.
LEMMA VisitorIs ==
    ASSUME NEW e \in Elements, NEW i \in DOMAIN Visitors[e]
    PROVE  /\ Len(Visitors[e]) \in Nat /\ i \in 1 .. Len(Visitors[e])
           /\ DOMAIN Visitors[e] = 1 .. Len(Visitors[e])
           /\ Visitors[e][i] \in Kinds
           /\ \A j \in DOMAIN Visitors[e] : Visitors[e][j] = Visitors[e][i] => j = i
  BY PipelineAssumption DEF PipelineAssumption

\* A sink's promise: it is unset before the end, and takes its status.
LEMMA SinkIsShown ==
    ASSUME NEW out \in Histories, Explains(out), NEW e \in Elements,
           call[e].at = "visit", Visitors[e][call[e].next] = "StreamSink",
           VisitSink(e, call[e].block)
    PROVE  /\ e \in Sinks
           /\ seen'[e] \in Seq(Blocks) /\ Len(seen'[e]) = Len(out[e])
           /\ \A k \in 1 .. Len(seen'[e]) : seen'[e][k] = out[e][k]
           /\ status'[e] = IF Ended(seen'[e]) THEN seen'[e][Len(seen'[e])].eop ELSE Unset
           /\ status'[e] \in Statuses \cup {Unset}
           /\ \A s \in Sinks \ {e} : seen'[s] = seen[s] /\ status'[s] = status[s]
           /\ seen' = [seen EXCEPT ![e] = seen'[e]]
           /\ status' = [status EXCEPT ![e] = status'[e]]
           /\ ~terminated' /\ terminated' \in BOOLEAN
           /\ Len(seen[e]) = Len(out[e]) - 1 /\ status[e] = Unset
           /\ seen' = [seen EXCEPT ![e] = Append(seen[e], call[e].block)]
<1> DEFINE n == Len(out[e])
           x == call[e].block
<1>1. call[e].next \in DOMAIN Visitors[e] /\ e \in Sinks
  BY DEF Explains, Nested, Sinks, With
<1>2. Awaits(e, "StreamSink")
  BY <1>1, VisitorIs DEF Awaits
<1>3. /\ n \in Nat /\ n > 0 /\ x = out[e][n] /\ x \in Blocks /\ seen[e] \in Seq(Blocks)
      /\ seen \in [Sinks -> Seq(Blocks)] /\ status \in [Sinks -> Statuses \cup {Unset}]
      /\ ~terminated /\ terminated \in BOOLEAN
  BY <1>1, OutputIs DEF Explains, TypeOK
<1>4. /\ Len(seen[e]) = n - 1
      /\ \A k \in 1 .. Len(seen[e]) : seen[e][k] = out[e][k]
      /\ status[e] = IF Ended(seen[e]) THEN seen[e][Len(seen[e])].eop ELSE Unset
  BY <1>1, <1>2 DEF Explains, Shown
<1>5. ~Ended(seen[e])
  <2>1. SUFFICES ASSUME Ended(seen[e]) PROVE FALSE
    OBVIOUS
  <2>2. n - 1 \in 1 .. Len(seen[e]) /\ IsEop(seen[e][n - 1])
    BY <1>3, <1>4, <2>1 DEF Ended
  <2>3. seen[e][n - 1] = out[e][n - 1]
    BY <1>4, <2>2
  <2>4. IsEop(out[e][n - 1])
    BY <2>2, <2>3
  <2>5. n - 1 \in 1 .. Len(out[e])
    BY <1>3, <1>4, <2>2
  <2>6. n - 1 = n
    BY <2>4, <2>5 DEF Explains, EndsLast
  <2> QED BY <1>3, <2>6
<1>6. status[e] = Unset
  BY <1>4, <1>5
<1>7. seen' = [seen EXCEPT ![e] = Append(seen[e], x)]
  BY DEF VisitSink
<1>8. /\ seen'[e] = Append(seen[e], x)
      /\ \A s \in Sinks \ {e} : seen'[s] = seen[s]
  BY <1>1, <1>3, <1>7
<1>9. /\ seen'[e] \in Seq(Blocks) /\ Len(seen'[e]) = n /\ seen'[e][n] = x
      /\ \A k \in 1 .. n - 1 : seen'[e][k] = seen[e][k]
  BY <1>3, <1>4, <1>8
<1>10. \A k \in 1 .. n : seen'[e][k] = out[e][k]
  <2>1. \A k \in 1 .. n : k \in 1 .. n - 1 \/ k = n
    BY <1>3
  <2> QED BY <1>3, <1>4, <1>9, <2>1
<1>11. Ended(seen'[e]) <=> IsEop(x)
  BY <1>3, <1>9 DEF Ended
<1>12. /\ ~terminated' /\ terminated' \in BOOLEAN
       /\ status'[e] = IF IsEop(x) THEN x.eop ELSE Unset
       /\ \A s \in Sinks \ {e} : status'[s] = status[s]
       /\ status' = [status EXCEPT ![e] = status'[e]]
  <2>1. CASE IsEop(x)
    <3>1. /\ terminated' = (status[e] # Unset)
          /\ status' = [status EXCEPT ![e] = IF status[e] = Unset THEN x.eop ELSE status[e]]
      BY <2>1 DEF VisitSink, Fulfils, PromiseValue
    <3> QED BY <1>1, <1>3, <1>6, <2>1, <3>1
  <2>2. CASE ~IsEop(x)
    <3>1. terminated' = terminated /\ status' = status
      BY <2>2 DEF VisitSink, Fulfils
    <3> QED BY <1>1, <1>3, <1>6, <2>2, <3>1
  <2> QED BY <2>1, <2>2
<1>13. IsEop(x) => x.eop \in Statuses
  BY <1>3 DEF Blocks, IsEop
<1>14. seen' = [seen EXCEPT ![e] = seen'[e]]
  BY <1>7, <1>8
<1>15. status'[e] = IF Ended(seen'[e]) THEN seen'[e][Len(seen'[e])].eop ELSE Unset
  BY <1>9, <1>11, <1>12
<1>16. status'[e] \in Statuses \cup {Unset}
  BY <1>12, <1>13
<1> QED BY <1>1, <1>4, <1>6, <1>7, <1>8, <1>9, <1>10, <1>12, <1>14, <1>15, <1>16

\* A function called at the end has not been called when its turn comes.
LEMMA EosIsCalled ==
    ASSUME NEW out \in Histories, Explains(out), NEW e \in Elements,
           call[e].at = "visit", Visitors[e][call[e].next] = "OnEosVistor",
           VisitOnEos(e, call[e].block)
    PROVE  /\ UNCHANGED <<seen, status, terminated>>
           /\ eosCalls' \in [Elements -> 0 .. MaxBlocks + 1]
           /\ eosCalls'[e] \in {0, 1}
           /\ eosCalls'[e] = 1 => Ended(out[e])
           /\ \A c \in Elements \ {e} : eosCalls'[c] = eosCalls[c]
<1> DEFINE x == call[e].block
<1>1. call[e].next \in DOMAIN Visitors[e]
  BY DEF Explains, Nested
<1>2. Awaits(e, "OnEosVistor")
  BY <1>1, VisitorIs DEF Awaits
<1>3. eosCalls[e] = 0 /\ eosCalls \in [Elements -> 0 .. MaxBlocks + 1]
  BY <1>2 DEF Explains, Called, TypeOK
<1>4. 1 \in 0 .. MaxBlocks + 1 /\ 0 \in 0 .. MaxBlocks + 1
  BY PipelineAssumption DEF PipelineAssumption
<1>5. CASE IsEop(x)
  <2>1. UNCHANGED <<seen, status, terminated>> /\ eosCalls' = [eosCalls EXCEPT ![e] = 1]
    BY <1>3, <1>5 DEF VisitOnEos, CallsFunc
  <2>2. Ended(out[e])
    BY <1>5, OutputIs DEF Ended
  <2> QED BY <1>3, <1>4, <2>1, <2>2
<1>6. CASE ~IsEop(x)
  <2>1. UNCHANGED <<seen, status, terminated>> /\ eosCalls' = [eosCalls EXCEPT ![e] = eosCalls[e]]
    BY <1>6 DEF VisitOnEos, CallsFunc
  <2> QED BY <1>3, <2>1
<1> QED BY <1>5, <1>6

\* A visitor is shown the output.
LEMMA VisitPreserves ==
    ASSUME NEW out \in Histories, Explains(out), NEW e \in Elements, Visit(e)
    PROVE  Explains(out)'
<1> DEFINE n == call[e].next
           x == call[e].block
           kind == Visitors[e][n]
<1>1. /\ call[e].at = "visit"
      /\ call' = [call EXCEPT ![e] = Activation(e, x, call[e].next + 1)]
      /\ UNCHANGED <<client, sent, hadError, offer, queue, thread, reported>>
  BY DEF Visit
<1>2. /\ n \in DOMAIN Visitors[e] /\ n \in Nat \ {0} /\ x \in Blocks
      /\ call \in [Elements -> Activations]
  BY <1>1 DEF Explains, Nested, TypeOK, Activations
<1>3. /\ Len(Visitors[e]) \in Nat /\ n \in 1 .. Len(Visitors[e]) /\ kind \in Kinds
      /\ DOMAIN Visitors[e] = 1 .. Len(Visitors[e])
      /\ \A j \in DOMAIN Visitors[e] : Visitors[e][j] = kind => j = n
  BY <1>2, VisitorIs
<1>4. /\ kind = "StreamSink" => VisitSink(e, x)
      /\ kind = "OnEosVistor" => VisitOnEos(e, x)
      /\ kind = "AnonymousVisitor" => UNCHANGED <<seen, status, eosCalls, terminated>>
  BY DEF Visit
<1>5. /\ call' \in [Elements -> Activations]
      /\ call'[e].block = x
      /\ \/ call'[e].at = "visit" /\ call'[e].next = n + 1 /\ n + 1 <= Len(Visitors[e])
         \/ call'[e].at = "forward" /\ call'[e].next = 1 /\ ~(n + 1 <= Len(Visitors[e]))
      /\ \A c \in Elements \ {e} : call'[c] = call[c]
  <2>1. Visiting(e, n + 1) = IF n + 1 <= Len(Visitors[e])
                             THEN [at |-> "visit", next |-> n + 1]
                             ELSE [at |-> "forward", next |-> 1]
    BY DEF Visiting
  <2>2. n + 1 \in Nat \ {0}
    BY <1>2
  <2>3. /\ Activation(e, x, n + 1) \in Activations /\ Activation(e, x, n + 1).block = x
        /\ \/ /\ Activation(e, x, n + 1).at = "visit" /\ Activation(e, x, n + 1).next = n + 1
              /\ n + 1 <= Len(Visitors[e])
           \/ /\ Activation(e, x, n + 1).at = "forward" /\ Activation(e, x, n + 1).next = 1
              /\ ~(n + 1 <= Len(Visitors[e]))
    <3>1. CASE n + 1 <= Len(Visitors[e])
      BY <1>2, <2>1, <2>2, <3>1 DEF Activation, Activations
    <3>2. CASE ~(n + 1 <= Len(Visitors[e]))
      BY <1>2, <2>1, <3>2 DEF Activation, Activations
    <3> QED BY <3>1, <3>2
  <2>4. call'[e] = Activation(e, x, n + 1) /\ call' \in [Elements -> Activations]
    BY <1>1, <1>2, <2>3
  <2> QED BY <1>1, <2>3, <2>4
<1>6. /\ eosCalls' \in [Elements -> 0 .. MaxBlocks + 1]
      /\ seen' \in [Sinks -> Seq(Blocks)] /\ status' \in [Sinks -> Statuses \cup {Unset}]
      /\ ~terminated' /\ terminated' \in BOOLEAN
  <2>1. /\ eosCalls \in [Elements -> 0 .. MaxBlocks + 1]
        /\ seen \in [Sinks -> Seq(Blocks)] /\ status \in [Sinks -> Statuses \cup {Unset}]
        /\ ~terminated /\ terminated \in BOOLEAN
    BY DEF Explains, TypeOK
  <2>2. CASE kind = "StreamSink"
    <3>1. /\ seen'[e] \in Seq(Blocks) /\ status'[e] \in Statuses \cup {Unset}
          /\ seen' = [seen EXCEPT ![e] = seen'[e]] /\ ~terminated' /\ terminated' \in BOOLEAN
          /\ status' = [status EXCEPT ![e] = status'[e]]
      BY <1>1, <1>4, <2>2, SinkIsShown
    <3>2. eosCalls' = eosCalls
      BY <1>4, <2>2 DEF VisitSink
    <3> QED BY <2>1, <3>1, <3>2
  <2>3. CASE kind = "OnEosVistor"
    BY <1>1, <1>4, <2>1, <2>3, EosIsCalled
  <2>4. CASE kind = "AnonymousVisitor"
    BY <1>4, <2>1, <2>4
  <2> QED BY <1>3, <2>2, <2>3, <2>4 DEF Kinds
<1>7. TypeOK' /\ ~terminated' /\ Source' /\ QueuesBounded'
  <2>1. TypeOK'
    <3>1. TypeOK
      BY DEF Explains
    <3>2. call' \in [Elements -> Activations]
      BY <1>5
    <3> QED BY <1>1, <1>6, <3>1, <3>2 DEF TypeOK
  <2>2. Source' /\ QueuesBounded'
    BY <1>1 DEF Explains, Source, QueuesBounded
  <2> QED BY <1>6, <2>1, <2>2
<1>8. Nested'
  <2>1. \A b \in Buffers : call'[b].at # "idle" => thread'[b] = "pushing"
    <3>1. Buffers \subseteq Elements
      BY PipelineAssumption DEF PipelineAssumption
    <3>2. \A b \in Buffers : call'[b].at # "idle" => call[b].at # "idle"
      BY <1>1, <1>5, <3>1
    <3> QED BY <1>1, <3>2 DEF Explains, Nested
  <2>2. ASSUME NEW c \in Elements \ {Root}, Pending(c)'
        PROVE  /\ call'[Parent(c)].at = "forward"
               /\ call'[Parent(c)].next = Index(c) + 1
    <3>1. Pending(c)
      BY <1>1, <1>5, <2>2 DEF Pending
    <3>2. call[Parent(c)].at = "forward" /\ call[Parent(c)].next = Index(c) + 1
      BY <2>2, <3>1 DEF Explains, Nested
    <3>3. Parent(c) \in Elements /\ Parent(c) # e
      BY <1>1, <3>2, HasParent
    <3>4. call'[Parent(c)] = call[Parent(c)]
      BY <1>5, <3>3
    <3> QED BY <3>2, <3>4
  <2>3. ASSUME NEW c \in Elements, call'[c].at = "visit"
        PROVE  call'[c].next \in DOMAIN Visitors[c]
    <3>1. CASE c = e
      BY <1>2, <1>3, <1>5, <2>3, <3>1
    <3>2. CASE c # e
      BY <1>5, <2>3, <3>2 DEF Explains, Nested
    <3> QED BY <3>1, <3>2
  <2> QED BY <2>1, <2>2, <2>3 DEF Nested
<1>9. \A c \in Elements : /\ call'[c].at = "enter" <=> call[c].at = "enter"
                          /\ call'[c].block = call[c].block
  BY <1>1, <1>5
<1>10. ASSUME NEW c \in Elements
       PROVE  /\ Given(out, c)' = Given(out, c)
              /\ Begun(out, c)' = Begun(out, c)
              /\ In(out, c)' = In(out, c)
  <2>1. Begun(out, c)' = Begun(out, c) /\ In(out, c)' = In(out, c)
    BY <1>1, <1>9 DEF Begun, In
  <2>2. CASE c = Root
    BY <1>1, <2>1, <2>2 DEF Given
  <2>3. CASE c # Root /\ Parent(c) # e
    <3>1. Parent(c) \in Elements \ {e}
      BY <2>3, HasParent
    <3>2. call'[Parent(c)] = call[Parent(c)]
      BY <1>5, <3>1
    <3> QED BY <2>1, <2>3, <3>2 DEF Given, Unpushed
  <2>4. CASE c # Root /\ Parent(c) = e
    <3>1. Unpushed(c)
      BY <1>1, <2>4 DEF Unpushed
    <3>2. Unpushed(c)'
      <4>1. Index(c) \in 1 .. Len(Processors[e])
        BY <2>4, ChildIs DEF Explains
      <4> QED BY <1>5, <2>4, <4>1 DEF Unpushed
    <3> QED BY <2>1, <2>4, <3>1, <3>2 DEF Given
  <2> QED BY <2>2, <2>3, <2>4
<1>11. Flow(out)' /\ Order(out)'
  <2>1. Flow(out)'
    BY <1>1, <1>10 DEF Explains, Flow, Offered
  <2>2. Order(out)'
    BY <1>1, <1>9, <1>10 DEF Explains, Order
  <2> QED BY <2>1, <2>2
<1>12. Passed(out)' /\ EndsLast(out)'
  BY <1>1 DEF Explains, Passed, EndsLast, In
<1>13. Current(out)'
  <2>1. \A c \in Elements : call'[c].at \in {"visit", "forward"}
                              => call[c].at \in {"visit", "forward"}
    BY <1>1, <1>5
  <2> QED BY <1>9, <2>1 DEF Explains, Current
<1>14. ASSUME NEW c \in Elements, NEW k \in Kinds
       PROVE  Awaits(c, k)' <=> (Awaits(c, k) /\ ~(c = e /\ k = kind))
  <2>1. CASE c # e
    BY <1>5, <2>1 DEF Awaits
  <2>2. CASE c = e
    <3>1. Awaits(e, k) <=> \E j \in DOMAIN Visitors[e] : j >= n /\ Visitors[e][j] = k
      BY <1>1 DEF Awaits
    <3>2. Awaits(e, k)' <=> \E j \in DOMAIN Visitors[e] : j >= n + 1 /\ Visitors[e][j] = k
      <4>1. CASE n + 1 <= Len(Visitors[e])
        BY <1>5, <4>1 DEF Awaits
      <4>2. CASE ~(n + 1 <= Len(Visitors[e]))
        <5>1. ~Awaits(e, k)'
          BY <1>5, <4>2 DEF Awaits
        <5>2. \A j \in DOMAIN Visitors[e] : ~(j >= n + 1)
          BY <1>2, <1>3, <4>2
        <5> QED BY <5>1, <5>2
      <4> QED BY <4>1, <4>2
    <3>3. \A j \in DOMAIN Visitors[e] : j >= n + 1 <=> (j >= n /\ j # n)
      BY <1>2, <1>3
    <3>4. \A j \in DOMAIN Visitors[e] : Visitors[e][j] = k => (j = n <=> k = kind)
      BY <1>3
    <3> QED BY <1>2, <2>2, <3>1, <3>2, <3>3, <3>4
  <2> QED BY <2>1, <2>2
<1>15. ASSUME NEW s \in Sinks
       PROVE  /\ Len(seen'[s]) = Len(out[s]) - (IF Awaits(s, "StreamSink")' THEN 1 ELSE 0)
              /\ \A k \in 1 .. Len(seen'[s]) : seen'[s][k] = out[s][k]
              /\ status'[s] = IF Ended(seen'[s]) THEN seen'[s][Len(seen'[s])].eop ELSE Unset
  <2>1. s \in Elements
    BY DEF Sinks, With
  <2>2. CASE kind = "StreamSink" /\ s = e
    <3>1. ~Awaits(s, "StreamSink")'
      BY <1>14, <2>1, <2>2 DEF Kinds
    <3>2. Len(out[s]) \in Nat
      BY <2>1 DEF Histories
    <3>3. /\ Len(seen'[e]) = Len(out[e])
          /\ \A k \in 1 .. Len(seen'[e]) : seen'[e][k] = out[e][k]
          /\ status'[e] = IF Ended(seen'[e]) THEN seen'[e][Len(seen'[e])].eop ELSE Unset
      BY <1>1, <1>4, <2>2, SinkIsShown
    <3> QED BY <2>2, <3>1, <3>2, <3>3
  <2>3. CASE ~(kind = "StreamSink" /\ s = e)
    <3>1. Awaits(s, "StreamSink")' <=> Awaits(s, "StreamSink")
      BY <1>14, <2>1, <2>3 DEF Kinds
    <3>2. seen'[s] = seen[s] /\ status'[s] = status[s]
      <4>1. CASE kind = "StreamSink"
        BY <1>1, <1>4, <2>3, <4>1, SinkIsShown
      <4>2. CASE kind = "OnEosVistor"
        BY <1>4, <4>2 DEF VisitOnEos
      <4>3. CASE kind = "AnonymousVisitor"
        BY <1>4, <4>3
      <4> QED BY <1>3, <4>1, <4>2, <4>3 DEF Kinds
    <3> QED BY <3>1, <3>2 DEF Explains, Shown
  <2> QED BY <2>2, <2>3
<1>16. ASSUME NEW c \in Elements
       PROVE  /\ eosCalls'[c] \in {0, 1}
              /\ eosCalls'[c] = 1 => ~Awaits(c, "OnEosVistor")' /\ Ended(out[c])
  <2>1. CASE kind = "OnEosVistor" /\ c = e
    <3>1. ~Awaits(c, "OnEosVistor")'
      BY <1>14, <2>1 DEF Kinds
    <3>2. eosCalls'[e] \in {0, 1} /\ (eosCalls'[e] = 1 => Ended(out[e]))
      BY <1>1, <1>4, <2>1, EosIsCalled
    <3> QED BY <2>1, <3>1, <3>2
  <2>2. CASE ~(kind = "OnEosVistor" /\ c = e)
    <3>1. Awaits(c, "OnEosVistor")' <=> Awaits(c, "OnEosVistor")
      BY <1>14, <2>2 DEF Kinds
    <3>2. eosCalls'[c] = eosCalls[c]
      <4>1. CASE kind = "StreamSink"
        BY <1>4, <4>1 DEF VisitSink
      <4>2. CASE kind = "OnEosVistor"
        BY <1>1, <1>4, <2>2, <4>2, EosIsCalled
      <4>3. CASE kind = "AnonymousVisitor"
        BY <1>4, <4>3
      <4> QED BY <1>3, <4>1, <4>2, <4>3 DEF Kinds
    <3> QED BY <3>1, <3>2 DEF Explains, Called
  <2> QED BY <2>1, <2>2
<1>17. Shown(out)' /\ Called(out)'
  BY <1>15, <1>16 DEF Shown, Called
<1> QED BY <1>7, <1>8, <1>11, <1>12, <1>13, <1>17 DEF Explains

-----------------------------------------------------------------------------
(***************************************************************************)
(* The invariant.                                                          *)
(***************************************************************************)
\* Nothing has been pushed or put out.
LEMMA InitExplained == Init => PipelineInv
<1> SUFFICES ASSUME Init PROVE PipelineInv
  OBVIOUS
<1> DEFINE out == [e \in Elements |-> <<>>]
<1>1. out \in Histories /\ \A e \in Elements : out[e] = <<>> /\ Len(out[e]) = 0
  BY DEF Histories
<1> HIDE DEF out
<1>2. /\ \A e \in Elements : call[e].at = "idle"
      /\ \A b \in Buffers : queue[b] = <<>> /\ Len(queue[b]) = 0 /\ offer[b] = Empty
      /\ \A s \in Sinks : seen[s] = <<>> /\ Len(seen[s]) = 0 /\ status[s] = Unset
      /\ \A e \in Elements : ~hadError[e] /\ eosCalls[e] = 0
      /\ sent = <<>> /\ Len(sent) = 0 /\ ~terminated
  BY DEF Init, Idle
<1>3. TypeOK
  <2>1. 0 \in 0 .. MaxBlocks /\ 0 \in 0 .. MaxBlocks + 1
    BY PipelineAssumption DEF PipelineAssumption
  <2>2. Empty \in Blocks
    BY <2>1 DEF Empty, Blocks
  <2>3. Idle \in Activations
    BY <2>2 DEF Idle, Activations
  <2>4. /\ call \in [Elements -> Activations]
        /\ eosCalls \in [Elements -> 0 .. MaxBlocks + 1]
        /\ offer \in [Buffers -> Blocks]
    BY <2>1, <2>2, <2>3 DEF Init
  <2>5. /\ queue \in [Buffers -> Seq(Blocks)] /\ seen \in [Sinks -> Seq(Blocks)]
        /\ sent \in Seq(Blocks)
    BY DEF Init
  <2>6. /\ client \in {"pushing", "done"} /\ hadError \in [Elements -> BOOLEAN]
        /\ thread \in [Buffers -> {"none", "waiting", "pushing", "ended"}]
        /\ status \in [Sinks -> Statuses \cup {Unset}]
        /\ reported \subseteq Sinks /\ terminated \in BOOLEAN
    BY DEF Init
  <2> QED BY <2>4, <2>5, <2>6 DEF TypeOK
<1>4. Source /\ QueuesBounded
  BY <1>2, PipelineAssumption DEF Source, QueuesBounded, PipelineAssumption
<1>5. Nested
  <2>1. Buffers \subseteq Elements
    BY PipelineAssumption DEF PipelineAssumption
  <2> QED BY <1>2, <2>1 DEF Nested, Pending
<1>6. ASSUME NEW d \in Elements
      PROVE  Given(out, d) = 0 /\ Begun(out, d) = 0
  <2>1. Begun(out, d) = 0
    <3>1. Begun(out, d) = Len(out[d]) + 0
      BY <1>2 DEF Begun
    <3> QED BY <1>1, <3>1
  <2>2. CASE d = Root
    BY <1>2, <2>1, <2>2 DEF Given
  <2>3. CASE d # Root
    <3>1. ~Unpushed(d) /\ Len(out[Parent(d)]) = 0
      BY <1>1, <1>2, <2>3, HasParent DEF Unpushed
    <3>2. Given(out, d) = Len(out[Parent(d)]) - 0
      BY <2>3, <3>1 DEF Given
    <3> QED BY <2>1, <3>1, <3>2
  <2> QED BY <2>2, <2>3
<1>7. Flow(out) /\ Order(out)
  <2>1. \A b \in Buffers : Offered(b) = 0
    BY <1>2 DEF Offered
  <2>2. Flow(out)
    BY <1>2, <1>6, <2>1 DEF Flow
  <2>3. Order(out)
    BY <1>2 DEF Order
  <2> QED BY <2>2, <2>3
<1>8. Passed(out)
  <2>1. ASSUME NEW d \in Elements
        PROVE  PassedFrom(In(out, d), out[d]) /\ PassedFrom(sent, out[d])
    <3>1. Len(In(out, d)) = 0
      BY <1>1, <1>2, HasParent DEF In
    <3> QED BY <1>1, <1>2, <3>1 DEF PassedFrom
  <2> QED BY <2>1 DEF Passed
<1>9. Current(out) /\ EndsLast(out)
  BY <1>1, <1>2 DEF Current, EndsLast, EndedBy
<1>10. Shown(out) /\ Called(out)
  <2>1. \A e \in Elements, kind \in Kinds : ~Awaits(e, kind)
    BY <1>2 DEF Awaits
  <2>2. \A s \in Sinks : s \in Elements
    BY DEF Sinks, With
  <2>3. ASSUME NEW s \in Sinks
        PROVE  /\ Len(seen[s]) = Len(out[s]) - (IF Awaits(s, "StreamSink") THEN 1 ELSE 0)
               /\ \A k \in 1 .. Len(seen[s]) : seen[s][k] = out[s][k]
               /\ status[s] = IF Ended(seen[s]) THEN seen[s][Len(seen[s])].eop ELSE Unset
    <3>1. ~Awaits(s, "StreamSink") /\ ~Ended(seen[s]) /\ Len(out[s]) = 0
      BY <1>1, <1>2, <2>1, <2>2 DEF Ended, Kinds
    <3> QED BY <1>2, <3>1
  <2>4. Called(out)
    BY <1>2 DEF Called
  <2> QED BY <2>3, <2>4 DEF Shown
<1>11. Running(out)
  <2>1. \A b \in Buffers : b \in Elements /\ thread[b] = "none" /\ ~Ended(out[b])
    BY <1>1, PipelineAssumption DEF Init, Ended, PipelineAssumption
  <2>2. client # "done"
    BY DEF Init
  <2> QED BY <1>2, <2>1, <2>2 DEF Running, ThreadRuns, NextInside
<1> QED BY <1>1, <1>2, <1>3, <1>4, <1>5, <1>7, <1>8, <1>9, <1>10, <1>11
        DEF PipelineInv, Explains

\* The client's blocks are not Empty, and a data block is not an end.
LEMMA ClientPushes ==
    ASSUME NEW out \in Histories, Explains(out),
           PushBlock \/ \E s \in ClientEnds : PushEop(s)
    PROVE  \E x \in Blocks :
               /\ x # Empty /\ Push(x) /\ client' \in {"pushing", "done"}
               /\ client' = "done" <=> IsEop(x)
<1>1. CASE PushBlock
  <2> DEFINE x == Data(Len(sent) + 1)
  <2>1. PICK k : k = Len(sent) + 1
    OBVIOUS
  <2>2. k \in 1 .. MaxBlocks
    BY <1>1, <2>1, PipelineAssumption DEF PushBlock, Explains, TypeOK, PipelineAssumption
  <2>3. k \in 0 .. MaxBlocks /\ k # 0
    BY <2>2, PipelineAssumption DEF PipelineAssumption
  <2>4. Data(k) \in Blocks /\ Data(k) # Empty /\ ~IsEop(Data(k))
    BY <2>3 DEF Data, Blocks, Empty, IsEop
  <2>5. Push(Data(k)) /\ client' = "pushing"
    BY <1>1, <2>1 DEF PushBlock, Push
  <2> QED BY <2>4, <2>5
<1>2. CASE \E s \in ClientEnds : PushEop(s)
  <2>1. PICK s \in ClientEnds : PushEop(s)
    BY <1>2
  <2>2. s \in Statuses /\ s # "none" /\ 0 \in 0 .. MaxBlocks
    BY PipelineAssumption DEF PipelineAssumption, Statuses
  <2>3. Eop(s) \in Blocks /\ Eop(s) # Empty /\ IsEop(Eop(s))
    BY <2>2 DEF Eop, Blocks, Empty, IsEop
  <2>4. Push(Eop(s)) /\ client' = "done"
    BY <2>1 DEF PushEop
  <2> QED BY <2>3, <2>4
<1> QED BY <1>1, <1>2

\* A failed attempt to enqueue, the end of the program, a step of another.
LEMMA StutterPreserves ==
    ASSUME NEW out \in Histories, Explains(out), UNCHANGED vars
    PROVE  Explains(out)'
<1>1. TypeOK'
  BY DEF Explains, TypeOK, vars
<1> QED BY <1>1, SidePreserves DEF Explains, Nested, vars

-----------------------------------------------------------------------------
(***************************************************************************)
(* Threads run until their buffer has put out an end, and miss nothing.    *)
(***************************************************************************)
\* Each buffer is an element, and belongs to the part of the state it is in.
LEMMA BufferTyped ==
    ASSUME NEW out \in Histories, Explains(out), NEW b \in Buffers
    PROVE  /\ b \in Elements /\ queue[b] \in Seq(Blocks) /\ Len(queue[b]) \in Nat
           /\ call[b].at \in {"idle", "enter", "visit", "forward"}
           /\ thread[b] \in {"none", "waiting", "pushing", "ended"}
           /\ out[b] \in Seq(Blocks) /\ Len(out[b]) \in Nat
           /\ call[b].at # "idle" => thread[b] = "pushing"
<1>1. b \in Elements
  BY PipelineAssumption DEF PipelineAssumption
<1> QED BY <1>1 DEF Explains, TypeOK, Nested, Activations, Histories

\* What was pushed in full stays so, while the parent's call goes on or ends.
LEMMA PushedStays ==
    ASSUME NEW out \in Histories, NEW b \in Elements, AllPushed(out, b), UNCHANGED sent,
           b # Root /\ Unpushed(b)' => Unpushed(b)
    PROVE  AllPushed(out, b)'
  BY DEF AllPushed, Ended

\* A step that does not concern b.
LEMMA ThreadStays ==
    ASSUME NEW out \in Histories, NEW b \in Buffers, ThreadRuns(out, b),
           thread'[b] = thread[b], queue'[b] = queue[b], offer'[b] = offer[b],
           call'[b] = call[b],
           Ended(out[b]) /\ AllPushed(out, b) => AllPushed(out, b)'
    PROVE  ThreadRuns(out, b)'
  BY DEF ThreadRuns, Ended

\* The steps of a buffer's pushData and of its thread.
LEMMA BufferKeepsRunning ==
    ASSUME NEW out \in Histories, Explains(out), Running(out), NEW c \in Buffers,
           StartThread(c) \/ Enqueue(c) \/ Dequeue(c) \/ AfterPush(c)
    PROVE  Running(out)'
<1>1. /\ UNCHANGED <<client, sent>>
      /\ \A b \in Buffers \ {c} :
            thread'[b] = thread[b] /\ queue'[b] = queue[b] /\ offer'[b] = offer[b]
      /\ \A x \in Elements \ {c} : call'[x] = call[x]
      /\ c \in Elements
      /\ call' = call \/ (call[c].at = "idle" /\ call'[c].at = "enter")
  <2>0. /\ c \in Elements /\ call \in [Elements -> Activations]
        /\ thread \in [Buffers -> {"none", "waiting", "pushing", "ended"}]
        /\ queue \in [Buffers -> Seq(Blocks)] /\ offer \in [Buffers -> Blocks]
        /\ thread[c] = "waiting" => call[c].at = "idle"
    BY BufferTyped DEF Explains, TypeOK
  <2>1. CASE StartThread(c) \/ AfterPush(c)
    BY <2>0, <2>1 DEF StartThread, AfterPush
  <2>2. CASE Enqueue(c)
    BY <2>0, <2>2 DEF Enqueue
  <2>3. CASE Dequeue(c)
    <3>1. call' = [call EXCEPT ![c] = [at |-> "enter", block |-> Head(queue[c]), next |-> 1]]
      BY <2>3 DEF Dequeue
    <3>2. call'[c].at = "enter" /\ \A x \in Elements \ {c} : call'[x] = call[x]
      BY <2>0, <3>1
    <3> QED BY <2>0, <2>3, <3>2 DEF Dequeue
  <2> QED BY <2>1, <2>2, <2>3
<1>2. ASSUME NEW b \in Elements \ {Root}, Unpushed(b)'
      PROVE  Unpushed(b)
  <2>1. Parent(b) \in Elements
    BY HasParent
  <2> QED BY <1>1, <1>2, <2>1 DEF Unpushed
<1>3. ASSUME NEW b \in Buffers
      PROVE  AllPushed(out, b) => AllPushed(out, b)'
  BY <1>1, <1>2, BufferTyped, PushedStays
<1>4. ASSUME NEW b \in Buffers, b # c
      PROVE  ThreadRuns(out, b)'
  BY <1>1, <1>3, <1>4, BufferTyped, ThreadStays DEF Running
<1>5. ThreadRuns(out, c)
  BY DEF Running
<1>6. ThreadRuns(out, c)'
  <2>1. CASE StartThread(c)
    <3>1. /\ thread[c] = "none" /\ thread'[c] = "waiting"
          /\ UNCHANGED <<call, queue, offer>>
      BY <2>1 DEF StartThread, Explains, TypeOK
    <3> QED BY <1>5, <3>1 DEF ThreadRuns, Ended
  <2>2. CASE Enqueue(c)
    <3>1. thread[c] # "none" /\ offer[c] # Empty /\ UNCHANGED <<call, thread>>
      BY <2>2 DEF Enqueue
    <3> QED BY <1>5, <3>1 DEF ThreadRuns, Ended
  <2>3. CASE Dequeue(c)
    <3>1. /\ thread[c] = "waiting" /\ thread'[c] = "pushing"
          /\ call'[c].at = "enter" /\ UNCHANGED offer
      BY <1>1, <2>3 DEF Dequeue, Explains, TypeOK
    <3> QED BY <1>5, <3>1 DEF ThreadRuns, Ended
  <2>4. CASE AfterPush(c)
    <3>1. /\ thread[c] = "pushing" /\ call[c].at = "idle" /\ UNCHANGED <<call, queue, offer>>
          /\ thread'[c] = IF IsEop(call[c].block) THEN "ended" ELSE "waiting"
      BY <2>4 DEF AfterPush, LoopEnds, Explains, TypeOK
    <3>2. Ended(out[c]) <=> IsEop(call[c].block)
      BY <1>5, <3>1 DEF ThreadRuns
    <3> QED BY <1>3, <1>5, <3>1, <3>2 DEF ThreadRuns, Ended
  <2> QED BY <2>1, <2>2, <2>3, <2>4
<1>7. client' = "done" => Ended(sent)'
  BY <1>1 DEF Running, Ended
<1>8. NextInside'
  BY <1>1 DEF Running, NextInside
<1> QED BY <1>4, <1>6, <1>7, <1>8 DEF Running

\* pushData drops a block after an error, shows its output to a visitor, or
\* returns.
LEMMA ElementKeepsRunning ==
    ASSUME NEW out \in Histories, Explains(out), Running(out), NEW e \in Elements,
           (Enter(e) /\ hadError[e]) \/ Visit(e) \/ Finish(e)
    PROVE  Running(out)'
<1>1. /\ UNCHANGED <<client, sent, thread, queue, offer>>
      /\ \A x \in Elements \ {e} : call'[x] = call[x]
      /\ call[e].at \in {"enter", "visit", "forward"}
      /\ call[e].at = "visit" => call'[e].at \in {"visit", "forward"}
      /\ call[e].at # "visit" => call'[e].at = "idle" /\ call'[e].block = call[e].block
      /\ call[e].at = "enter" => hadError[e]
      /\ call'[e].at = "forward" => call'[e].next = 1
  <2> call \in [Elements -> Activations]
    BY DEF Explains, TypeOK
  <2>1. CASE Enter(e) /\ hadError[e]
    <3>1. /\ call[e].at = "enter" /\ call' = [call EXCEPT ![e].at = "idle"]
          /\ UNCHANGED <<client, sent, thread, queue, offer>>
      BY <2>1 DEF Enter
    <3>2. /\ call'[e].at = "idle" /\ call'[e].block = call[e].block
          /\ \A x \in Elements \ {e} : call'[x] = call[x]
      BY <3>1 DEF Activations
    <3> QED BY <2>1, <3>1, <3>2
  <2>2. CASE Visit(e)
    <3>1. \A n : LET a == Activation(e, call[e].block, n)
                 IN  a.at \in {"visit", "forward"} /\ (a.at = "forward" => a.next = 1)
      BY DEF Activation, Visiting
    <3>2. call' = [call EXCEPT ![e] = Activation(e, call[e].block, call[e].next + 1)]
      BY <2>2 DEF Visit
    <3>3. /\ call'[e].at \in {"visit", "forward"}
          /\ call'[e].at = "forward" => call'[e].next = 1
      BY <3>1, <3>2
    <3>4. /\ call[e].at = "visit"
          /\ UNCHANGED <<client, sent, thread, queue, offer>>
      BY <2>2 DEF Visit
    <3> QED BY <3>2, <3>3, <3>4
  <2>3. CASE Finish(e)
    <3> DEFINE c == [call EXCEPT ![e].at = "idle"]
    <3>1. c \in [Elements -> Activations] /\ c[e].at = "idle" /\ c[e].block = call[e].block
      BY DEF Activations
    <3>2. call' = [c EXCEPT ![e].next = 1] /\ call[e].at = "forward"
      BY <2>3 DEF Finish
    <3>3. /\ call'[e].at = "idle" /\ call'[e].block = call[e].block
          /\ \A x \in Elements \ {e} : call'[x] = c[x]
      BY <3>1, <3>2 DEF Activations
    <3>4. \A x \in Elements \ {e} : c[x] = call[x]
      OBVIOUS
    <3>5. UNCHANGED <<client, sent, thread, queue, offer>>
      BY <2>3 DEF Finish
    <3> QED BY <3>2, <3>3, <3>4, <3>5
  <2> QED BY <2>1, <2>2, <2>3
<1>2. ASSUME NEW b \in Elements \ {Root}, Unpushed(b)'
      PROVE  Unpushed(b)
  <2>1. Parent(b) \in Elements
    BY HasParent
  <2> QED BY <1>1, <1>2, <2>1 DEF Unpushed
<1>3. ASSUME NEW b \in Buffers
      PROVE  AllPushed(out, b) => AllPushed(out, b)'
  BY <1>1, <1>2, BufferTyped, PushedStays
<1>4. ASSUME NEW b \in Buffers, b # e
      PROVE  ThreadRuns(out, b)'
  BY <1>1, <1>3, <1>4, BufferTyped, ThreadStays DEF Running
<1>5. ASSUME e \in Buffers
      PROVE  ThreadRuns(out, e)'
  <2>1. ThreadRuns(out, e) /\ thread[e] = "pushing"
    BY <1>1, <1>5, BufferTyped DEF Running
  <2>2. hadError[e] => Ended(out[e])
    BY DEF Explains, EndsLast, EndedBy, Ended, IsEop
  <2>3. call[e].at # "enter"
    BY <1>1, <2>1, <2>2 DEF ThreadRuns
  <2>4. call'[e].at # "enter"
    BY <1>1, <2>3
  <2>5. call[e].at \in {"visit", "forward"} => (Ended(out[e]) <=> IsEop(call[e].block))
    BY DEF Explains, Current, Ended
  <2>6. call'[e].at = "idle" => (Ended(out[e]) <=> IsEop(call'[e].block))
    BY <1>1, <2>3, <2>5
  <2> QED BY <1>1, <1>3, <1>5, <2>1, <2>4, <2>6 DEF ThreadRuns, Ended
<1>6. client' = "done" => Ended(sent)'
  BY <1>1 DEF Running, Ended
<1>7. NextInside'
  <2>1. Len(Processors[e]) \in Nat
    BY ChildrenTyped
  <2> QED BY <1>1, <2>1 DEF Running, NextInside
<1> QED BY <1>4, <1>5, <1>6, <1>7 DEF Running

\* A push to an element connected to it: to a buffer only before its end.
LEMMA ForwardKeepsRunning ==
    ASSUME NEW out \in Histories, Explains(out), Running(out), NEW e \in Elements,
           Forward(e)
    PROVE  Running(out)'
<1> DEFINE d == Processors[e][call[e].next]
           x == call[e].block
           cs == [call EXCEPT ![e].next = @ + 1]
<1>1. /\ call[e].at = "forward" /\ ChildrenIdle(e) /\ PushData(d, x, cs)
      /\ UNCHANGED <<client, sent, thread, queue>>
      /\ call \in [Elements -> Activations]
      /\ call[e].next \in 1 .. Len(Processors[e])
  <2>1. call[e].next \in Nat \ {0} /\ Len(Processors[e]) \in Nat
    BY ChildrenTyped DEF Explains, TypeOK, Activations
  <2> QED BY <2>1 DEF Forward, Explains, TypeOK
<1>2. /\ d \in Elements \ {Root} /\ Parent(d) = e /\ Index(d) = call[e].next /\ d # e
  <2>1. call[e].next \in DOMAIN Processors[e]
    BY <1>1, ChildrenTyped
  <2>2. d \in Elements \ {Root} /\ Parent(d) = e /\ Index(d) = call[e].next
    BY <2>1, ParentIs
  <2> QED BY <2>2, HasParent
<1>3. ~Pending(d)
  <2>1. Unpushed(d)
    BY <1>1, <1>2 DEF Unpushed
  <2> QED BY <1>1, <1>2 DEF Explains, Nested
<1>4. /\ cs \in [Elements -> Activations] /\ cs[e].at = "forward"
      /\ cs[e].next = call[e].next + 1 /\ cs[e].block = call[e].block
      /\ \A y \in Elements \ {e} : cs[y] = call[y]
  <2>1. call[e].next + 1 \in Nat \ {0}
    BY <1>1
  <2> QED BY <1>1, <2>1 DEF Activations
<1>5. x \in Blocks /\ x # Empty
  BY <1>1, OutputIs
<1> HIDE DEF cs
<1>6. /\ \A y \in Elements \ {d} : call'[y] = cs[y]
      /\ \A b \in Buffers \ {d} : offer'[b] = offer[b]
      /\ d \in Buffers => call'[d] = call[d]
      /\ d \notin Buffers => call[d].at = "idle" /\ call'[d].at = "enter"
  <2>1. TypeOK /\ cs[d] = call[d]
    BY <1>2, <1>4 DEF Explains
  <2> HIDE DEF d, x
  <2>2. d \notin Buffers => /\ call[d].at = "idle"
                            /\ call'[d] = [at |-> "enter", block |-> x, next |-> 1]
    BY <1>1, <1>2, <1>3, <1>4, <1>5, <2>1, PushDataGives
  <2>3. d \notin Buffers => call[d].at = "idle" /\ call'[d].at = "enter"
    BY <2>2
  <2> QED BY <1>1, <1>2, <1>3, <1>4, <1>5, <2>1, <2>3, PushDataGives
<1>7. ASSUME NEW b \in Elements \ {Root}, Unpushed(b)'
      PROVE  Unpushed(b)
  <2>1. Parent(b) \in Elements /\ Index(b) \in Nat
    BY HasParent, ChildrenTyped
  <2>2. CASE Parent(b) = e
    BY <1>1, <1>2, <1>4, <1>6, <1>7, <2>1, <2>2 DEF Unpushed
  <2>3. CASE Parent(b) = d
    BY <1>2, <1>6, <1>7, <2>3 DEF Unpushed
  <2>4. CASE Parent(b) \notin {d, e}
    BY <1>4, <1>6, <1>7, <2>1, <2>4 DEF Unpushed
  <2> QED BY <2>2, <2>3, <2>4
<1>8. ASSUME NEW b \in Buffers
      PROVE  /\ b \in Elements
             /\ AllPushed(out, b) => AllPushed(out, b)'
  BY <1>1, <1>7, BufferTyped, PushedStays
<1>9. ASSUME NEW b \in Buffers
      PROVE  ThreadRuns(out, b)'
  <2>1. ThreadRuns(out, b)
    BY DEF Running
  <2>2. CASE b = d
    <3>1. Unpushed(d) /\ d # Root
      BY <1>1, <1>2 DEF Unpushed
    <3>2. ~Ended(out[d])
      BY <2>1, <2>2, <3>1 DEF ThreadRuns, AllPushed
    <3> QED BY <1>1, <1>6, <1>9, <2>1, <2>2, <3>2 DEF ThreadRuns, Ended
  <2>3. CASE b = e
    <3>1. call'[e].at = "forward" /\ call[e].at = "forward"
      BY <1>1, <1>2, <1>4, <1>6
    <3>2. offer'[b] = offer[b]
      BY <1>2, <1>6, <2>3
    <3> QED BY <1>1, <1>8, <2>1, <2>3, <3>1, <3>2 DEF ThreadRuns, Ended
  <2>4. CASE b \notin {d, e}
    BY <1>1, <1>4, <1>6, <1>8, <2>1, <2>4, ThreadStays
  <2> QED BY <2>2, <2>3, <2>4
<1>10. client' = "done" => Ended(sent)'
  BY <1>1 DEF Running, Ended
<1>11. NextInside'
  <2>1. Len(Processors[e]) \in Nat /\ call'[e].next \in 1 .. Len(Processors[e]) + 1
    BY <1>1, <1>2, <1>4, <1>6, ChildrenTyped
  <2>2. ASSUME NEW y \in Elements \ {e}, call'[y].at = "forward"
        PROVE  call'[y] = call[y]
    BY <1>2, <1>4, <1>6, <2>2
  <2> QED BY <2>1, <2>2 DEF Running, NextInside
<1> QED BY <1>9, <1>10, <1>11 DEF Running

\* The client pushes: an end last, and nothing after.
LEMMA ClientKeepsRunning ==
    ASSUME NEW out \in Histories, Explains(out), Running(out), NEW x \in Blocks,
           x # Empty, Push(x), client' \in {"pushing", "done"},
           client' = "done" => IsEop(x)
    PROVE  Running(out)'
<1>1. /\ client = "pushing" /\ ~Pending(Root) /\ sent' = Append(sent, x)
      /\ PushData(Root, x, call) /\ UNCHANGED <<thread, queue>>
      /\ Root \in Elements /\ sent \in Seq(Blocks)
      /\ call \in [Elements -> Activations]
  BY PipelineAssumption DEF Push, PipelineAssumption, Explains, TypeOK
<1>2. /\ \A y \in Elements \ {Root} : call'[y] = call[y]
      /\ \A b \in Buffers \ {Root} : offer'[b] = offer[b]
      /\ Root \in Buffers => call'[Root] = call[Root]
      /\ Root \notin Buffers => call[Root].at = "idle" /\ call'[Root].at = "enter"
  <2>1. TypeOK
    BY DEF Explains
  <2>2. PICK cs \in [Elements -> Activations] : cs = call
    BY <1>1
  <2>3. Root \in Elements /\ ~Pending(Root) /\ PushData(Root, x, cs) /\ cs[Root] = call[Root]
    BY <1>1, <2>2
  <2>4. /\ \A y \in Elements \ {Root} : call'[y] = cs[y]
        /\ \A b \in Buffers \ {Root} : offer'[b] = offer[b]
        /\ Root \in Buffers => call'[Root] = call[Root]
        /\ Root \notin Buffers => /\ call[Root].at = "idle"
                                 /\ call'[Root] = [at |-> "enter", block |-> x, next |-> 1]
    BY <2>1, <2>3, PushDataGives
  <2>5. Root \notin Buffers => call[Root].at = "idle" /\ call'[Root].at = "enter"
    BY <2>4
  <2> QED BY <2>2, <2>4, <2>5
<1>3. ~Ended(sent)
  BY <1>1 DEF Ended, Explains, Source
<1>4. client' = "done" => Ended(sent)'
  <2>1. Len(sent') = Len(sent) + 1 /\ sent'[Len(sent) + 1] = x /\ Len(sent) \in Nat
    BY <1>1
  <2> QED BY <2>1 DEF Ended
<1>5. ASSUME NEW b \in Elements \ {Root}, Unpushed(b)'
      PROVE  Unpushed(b)
  <2>1. Parent(b) \in Elements
    BY HasParent
  <2> QED BY <1>2, <1>5, <2>1 DEF Unpushed
<1>6. ASSUME NEW b \in Buffers
      PROVE  ThreadRuns(out, b)'
  <2>1. ThreadRuns(out, b) /\ b \in Elements
    BY BufferTyped DEF Running
  <2>2. CASE b = Root
    <3>1. ~Ended(out[b])
      BY <1>3, <2>1, <2>2 DEF ThreadRuns, AllPushed
    <3> QED BY <1>1, <1>2, <1>6, <2>1, <2>2, <3>1 DEF ThreadRuns, Ended
  <2>3. CASE b # Root
    <3>1. AllPushed(out, b) => AllPushed(out, b)'
      BY <1>5, <2>1, <2>3 DEF AllPushed, Ended
    <3> QED BY <1>1, <1>2, <2>1, <2>3, <3>1, ThreadStays
  <2> QED BY <2>2, <2>3
<1>7. NextInside'
  BY <1>2 DEF Running, NextInside
<1> QED BY <1>4, <1>6, <1>7 DEF Running

\* The next output of a buffer, if it is an end, was the last that it was given.
LEMMA EndIsLast ==
    ASSUME NEW out \in Histories, Explains(out), NEW b \in Buffers,
           call[b].at = "enter", ~hadError[b], IsEop(call[b].block)
    PROVE  queue[b] = <<>> /\ offer[b] = Empty /\ AllPushed(out, b)
<1> DEFINE n == Len(out[b])
           in == In(out, b)
<1>1. /\ b \in Elements /\ n \in Nat /\ n + 1 <= Len(in) /\ call[b].block = in[n + 1]
      /\ Given(out, b) \in Nat /\ Given(out, b) <= Len(in) /\ Len(in) \in Nat
      /\ n + 1 <= Given(out, b) /\ Begun(out, b) = n + 1
      /\ queue[b] \in Seq(Blocks) /\ Len(queue[b]) \in Nat
  BY BufferTyped, NextOutput, GivenCovers
<1>2. n + 1 = Len(in)
  <2>1. n + 1 \in 1 .. Len(in) /\ IsEop(in[n + 1])
    BY <1>1
  <2>2. CASE b = Root
    BY <2>1, <2>2 DEF In, Explains, Source
  <2>3. CASE b # Root
    <3>1. Parent(b) \in Elements
      BY <1>1, <2>3, HasParent
    <3> QED BY <2>1, <2>3, <3>1 DEF In, Explains, EndsLast
  <2> QED BY <2>2, <2>3
<1>3. Given(out, b) = Begun(out, b) + (Len(queue[b]) + Offered(b))
  BY <1>1 DEF Explains, Flow
<1>4. Given(out, b) = n + 1
  BY <1>1, <1>2
<1>5. Len(queue[b]) = 0 /\ Offered(b) = 0
  <2>1. Offered(b) \in {0, 1}
    BY DEF Offered
  <2>2. n + 1 = (n + 1) + (Len(queue[b]) + Offered(b))
    BY <1>1, <1>3, <1>4
  <2> HIDE DEF n
  <2> QED BY <1>1, <2>1, <2>2
<1>6. queue[b] = <<>> /\ offer[b] = Empty
  BY <1>1, <1>5 DEF Offered
<1>7. Ended(in)
  BY <1>1, <1>2 DEF Ended
<1>8. b # Root => ~Unpushed(b)
  <2>1. ASSUME b # Root, Unpushed(b)
        PROVE  FALSE
    <3>1. Given(out, b) = Len(in) - 1
      BY <2>1 DEF Given, In
    <3> QED BY <1>1, <1>2, <1>4, <3>1
  <2> QED BY <2>1
<1> QED BY <1>6, <1>7, <1>8 DEF AllPushed, In

\* An element puts out a block.
LEMMA ProcessKeepsRunning ==
    ASSUME NEW out \in Histories, Explains(out), Running(out), NEW e \in Elements,
           call[e].at = "enter", ~hadError[e],
           NEW next \in Histories, Grows(out, next, e)
    PROVE  Running(next)'
<1>1. /\ \A c \in Elements \ {e} : next[c] = out[c] /\ call'[c] = call[c]
      /\ next[e] = Append(out[e], call'[e].block)
      /\ call'[e].at \in {"visit", "forward"} /\ call'[e].next = 1
      /\ e \in Buffers => call'[e].block = call[e].block
      /\ UNCHANGED <<client, sent, offer, queue, thread>>
      /\ out[e] \in Seq(Blocks)
  BY DEF Grows, Histories
<1>2. ~Ended(out[e])
  BY NextOutput DEF Ended
<1>3. ASSUME NEW b \in Buffers, b # e
      PROVE  ThreadRuns(next, b)'
  <2>1. ThreadRuns(out, b) /\ b \in Elements
    BY BufferTyped DEF Running
  <2>2. next[b] = out[b] /\ call'[b] = call[b]
    BY <1>1, <1>3, <2>1
  <2>3. Ended(out[b]) => AllPushed(next, b)'
    <3>1. CASE b = Root
      BY <1>1, <2>1, <3>1 DEF ThreadRuns, AllPushed, Ended
    <3>2. CASE b # Root /\ Parent(b) = e
      BY <1>2, <2>1, <3>2 DEF ThreadRuns, AllPushed
    <3>3. CASE b # Root /\ Parent(b) # e
      <4>1. next[Parent(b)] = out[Parent(b)] /\ call'[Parent(b)] = call[Parent(b)]
        BY <1>1, <2>1, <3>3, HasParent
      <4> QED BY <2>1, <3>3, <4>1 DEF ThreadRuns, AllPushed, Ended, Unpushed
    <3> QED BY <3>1, <3>2, <3>3
  <2> QED BY <1>1, <2>1, <2>2, <2>3 DEF ThreadRuns, Ended
<1>4. ASSUME e \in Buffers
      PROVE  ThreadRuns(next, e)'
  <2>1. thread[e] = "pushing"
    BY <1>4, BufferTyped
  <2>2. Ended(next[e]) => IsEop(call[e].block)
    <3>1. Len(next[e]) = Len(out[e]) + 1 /\ next[e][Len(out[e]) + 1] = call'[e].block
      BY <1>1
    <3> QED BY <1>1, <1>4, <3>1 DEF Ended
  <2>3. ASSUME Ended(next[e])
        PROVE  queue[e] = <<>> /\ offer[e] = Empty /\ AllPushed(next, e)'
    <3>1. queue[e] = <<>> /\ offer[e] = Empty /\ AllPushed(out, e)
      BY <1>4, <2>2, <2>3, EndIsLast
    <3>2. CASE e = Root
      BY <1>1, <3>1, <3>2 DEF AllPushed, Ended
    <3>3. CASE e # Root
      <4>1. next[Parent(e)] = out[Parent(e)] /\ call'[Parent(e)] = call[Parent(e)]
        BY <1>1, <3>3, HasParent
      <4> QED BY <3>1, <3>3, <4>1 DEF AllPushed, Ended, Unpushed
    <3> QED BY <3>1, <3>2, <3>3
  <2> QED BY <1>1, <2>1, <2>3 DEF ThreadRuns, Ended
<1>5. client' = "done" => Ended(sent)'
  BY <1>1 DEF Running, Ended
<1>6. NextInside'
  <2>1. Len(Processors[e]) \in Nat
    BY ChildrenTyped
  <2> QED BY <1>1, <2>1 DEF Running, NextInside
<1> QED BY <1>3, <1>4, <1>5, <1>6 DEF Running

\* A step of which the elements and threads see nothing.
LEMMA OthersKeepRunning ==
    ASSUME NEW out \in Histories, Running(out),
           UNCHANGED <<client, sent, call, offer, queue, thread>>
    PROVE  Running(out)'
  BY DEF Running, ThreadRuns, AllPushed, Ended, Unpushed, NextInside

-----------------------------------------------------------------------------
\* Every step leaves a state that some history explains.
LEMMA NextExplained ==
    ASSUME PipelineInv, [Next]_vars, Failures \subseteq {"error"}
    PROVE  PipelineInv'
<1>1. PICK out \in Histories : Explains(out) /\ Running(out)
  BY DEF PipelineInv
<1>2. SUFFICES \E next \in Histories : Explains(next)' /\ Running(next)'
  BY DEF PipelineInv, Histories, Blocks
<1>3. SUFFICES ASSUME ~(Explains(out)' /\ Running(out)')
               PROVE  \E next \in Histories : Explains(next)' /\ Running(next)'
  BY <1>1
<1>4. CASE PushBlock \/ \E s \in ClientEnds : PushEop(s)
  BY <1>1, <1>3, <1>4, ClientPushes, PushPreserves, ClientKeepsRunning
<1>5. CASE \E e \in Elements : ElementStep(e)
  <2>1. PICK e \in Elements : ElementStep(e)
    BY <1>5
  <2>2. CASE Enter(e)
    <3>1. CASE hadError[e]
      BY <1>1, <1>3, <2>2, <3>1, DropPreserves, ElementKeepsRunning
    <3>2. CASE ~hadError[e]
      <4>1. call[e].at = "enter"
        BY <2>2 DEF Enter
      <4> QED BY <1>1, <2>2, <3>2, <4>1, ProcessPreserves, ProcessKeepsRunning
    <3> QED BY <3>1, <3>2
  <2>3. CASE Visit(e)
    BY <1>1, <1>3, <2>3, VisitPreserves, ElementKeepsRunning
  <2>4. CASE Forward(e)
    BY <1>1, <1>3, <2>4, ForwardPreserves, ForwardKeepsRunning
  <2>5. CASE Finish(e)
    BY <1>1, <1>3, <2>5, FinishPreserves, ElementKeepsRunning
  <2> QED BY <2>1, <2>2, <2>3, <2>4, <2>5 DEF ElementStep
<1>6. CASE \E b \in Buffers : BufferStep(b)
  <2>1. PICK b \in Buffers : BufferStep(b)
    BY <1>6
  <2>2. CASE StartThread(b) \/ AfterPush(b)
    BY <1>1, <1>3, <2>2, ThreadPreserves, BufferKeepsRunning
  <2>3. CASE Enqueue(b)
    BY <1>1, <1>3, <2>3, EnqueuePreserves, BufferKeepsRunning
  <2>4. CASE EnqueueTimesOut(b)
    BY <1>1, <1>3, <2>4, StutterPreserves, OthersKeepRunning DEF EnqueueTimesOut, vars
  <2>5. CASE Dequeue(b)
    BY <1>1, <1>3, <2>5, DequeuePreserves, BufferKeepsRunning
  <2> QED BY <2>1, <2>2, <2>3, <2>4, <2>5 DEF BufferStep
<1>7. CASE \E s \in Sinks : Wait(s)
  <2>1. UNCHANGED <<client, sent, call, offer, queue, thread>>
    BY <1>7 DEF Wait
  <2> QED BY <1>1, <1>3, <1>7, <2>1, WaitPreserves, OthersKeepRunning
<1>8. CASE Stopped \/ UNCHANGED vars
  BY <1>1, <1>3, <1>8, StutterPreserves, OthersKeepRunning DEF Stopped, vars
<1> QED BY <1>4, <1>5, <1>6, <1>7, <1>8 DEF Next

-----------------------------------------------------------------------------
(***************************************************************************)
(* What the invariant says of the properties.                              *)
(***************************************************************************)
\* An element that ended with success put out what the client pushed, without
\* an error, and so did the one above it.
LEMMA SuccessIs ==
    ASSUME NEW out \in Histories, Explains(out), NEW e \in Elements,
           EndedBy(out[e], "success")
    PROVE  /\ client = "done" /\ Len(out[e]) = Len(sent) /\ ~hadError[e]
           /\ \A k \in 1 .. Len(sent) : out[e][k] = sent[k]
           /\ e # Root => EndedBy(out[Parent(e)], "success")
<1> DEFINE n == Len(out[e])
<1>1. /\ n \in Nat /\ n > 0 /\ out[e][n].eop = "success" /\ IsEop(out[e][n])
      /\ n \in 1 .. n /\ Len(sent) \in Nat
  BY DEF EndedBy, IsEop, Histories, Explains, TypeOK
<1>2. Error.eop = "error"
  BY DEF Error, Eop
<1>3. ~hadError[e]
  BY <1>1 DEF Explains, EndsLast, EndedBy
<1>4. n <= Len(sent) /\ \A k \in 1 .. n : out[e][k] \in {sent[k], Error}
  BY DEF Explains, Passed, PassedFrom
<1>5. out[e][n] = sent[n] /\ n \in 1 .. Len(sent)
  BY <1>1, <1>2, <1>4
<1>6. n = Len(sent) /\ client = "done"
  BY <1>1, <1>5 DEF Explains, Source
<1>7. ASSUME NEW k \in 1 .. n
      PROVE  out[e][k] = sent[k]
  <2>1. CASE k = n
    BY <1>5, <2>1
  <2>2. CASE k # n
    <3>1. ~IsEop(out[e][k])
      BY <2>2 DEF Explains, EndsLast
    <3>2. IsEop(Error)
      BY <1>2 DEF IsEop
    <3> QED BY <1>4, <3>1, <3>2
  <2> QED BY <2>1, <2>2
<1>8. ASSUME e # Root
      PROVE  EndedBy(out[Parent(e)], "success")
  <2> DEFINE p == Parent(e)
  <2>1. p \in Elements /\ out[p] \in Seq(Blocks) /\ Len(out[p]) \in Nat
    BY <1>8, HasParent DEF Histories
  <2>2. PassedFrom(out[p], out[e])
    BY <1>8 DEF Explains, Passed, In
  <2>3. n <= Len(out[p]) /\ out[e][n] \in {out[p][n], Error}
    BY <1>1, <2>2 DEF PassedFrom
  <2>4. out[p][n] = out[e][n]
    BY <1>1, <1>2, <2>3
  <2>5. n = Len(out[p])
    <3>1. n \in 1 .. Len(out[p]) /\ IsEop(out[p][n])
      BY <1>1, <2>1, <2>3, <2>4
    <3> QED BY <2>1, <3>1 DEF Explains, EndsLast
  <2> QED BY <1>1, <2>4, <2>5 DEF EndedBy
<1> QED BY <1>3, <1>6, <1>7, <1>8

\* The elements that ended with success are an upward set, so all on the path to a
\* sink that reports success ended with it.
LEMMA InvSuccess == PipelineInv => SuccessIsTrue
<1> SUFFICES ASSUME PipelineInv, NEW s \in Sinks, status[s] = "success"
             PROVE  client = "done" /\ seen[s] = sent /\ \A e \in Path[s] : ~hadError[e]
  BY DEF SuccessIsTrue
<1>1. PICK out \in Histories : Explains(out)
  BY DEF PipelineInv
<1>2. s \in Elements /\ seen[s] \in Seq(Blocks) /\ Len(seen[s]) \in Nat /\ sent \in Seq(Blocks)
  BY <1>1 DEF Sinks, With, Explains, TypeOK
<1> DEFINE n == Len(seen[s])
<1>3. Ended(seen[s]) /\ seen[s][n].eop = "success"
  <2>1. status[s] = IF Ended(seen[s]) THEN seen[s][n].eop ELSE Unset
    BY <1>1 DEF Explains, Shown
  <2> QED BY <2>1 DEF Unset
<1>4. n > 0 /\ n <= Len(out[s]) /\ \A k \in 1 .. n : seen[s][k] = out[s][k]
  <2>1. Len(out[s]) \in Nat
    BY <1>2 DEF Histories
  <2>2. n = Len(out[s]) - (IF Awaits(s, "StreamSink") THEN 1 ELSE 0)
    BY <1>1 DEF Explains, Shown
  <2>3. n = Len(out[s]) - 1 \/ n = Len(out[s]) - 0
    BY <2>2
  <2>4. n <= Len(out[s])
    BY <2>1, <2>3
  <2> QED BY <1>1, <1>3, <2>4 DEF Explains, Shown, Ended
<1>5. IsEop(out[s][n]) /\ out[s][n].eop = "success"
  BY <1>2, <1>3, <1>4 DEF Ended
<1>6. n = Len(out[s])
  <2>1. n \in 1 .. Len(out[s])
    <3>1. Len(out[s]) \in Nat
      BY <1>2 DEF Histories
    <3> QED BY <1>2, <1>4, <3>1
  <2> QED BY <1>1, <1>2, <1>5, <2>1 DEF Explains, EndsLast
<1>7. EndedBy(out[s], "success")
  BY <1>4, <1>5, <1>6 DEF EndedBy
<1>8. /\ client = "done" /\ Len(out[s]) = Len(sent)
      /\ \A k \in 1 .. Len(sent) : out[s][k] = sent[k]
  BY <1>1, <1>2, <1>7, SuccessIs
<1>9. seen[s] = sent
  BY <1>2, <1>4, <1>6, <1>8
<1>10. ASSUME NEW e \in Path[s]
       PROVE  ~hadError[e]
  <2> DEFINE Z == {d \in Elements : EndedBy(out[d], "success")}
  <2>1. ASSUME NEW d \in Elements, Children(d) \cap Z # {}
        PROVE  d \in Z
    <3>1. PICK c \in Children(d) : c \in Z
      BY <2>1
    <3>2. c \in Elements \ {Root} /\ Parent(c) = d
      BY ParentIs DEF Children
    <3> QED BY <1>1, <3>1, <3>2, SuccessIs
  <2>2. Upward(Z)
    BY <2>1 DEF Upward
  <2>3. e \in Z
    BY <1>2, <1>7, <2>2, PathIs
  <2> QED BY <1>1, <2>3, SuccessIs
<1> QED BY <1>8, <1>9, <1>10

\* No second end reaches a promise or a function that was called.
LEMMA InvEndsOnce == PipelineInv => TypeOK /\ EndsOnce
<1> SUFFICES ASSUME PipelineInv PROVE TypeOK /\ EndsOnce
  OBVIOUS
<1>1. PICK out \in Histories : Explains(out)
  BY DEF PipelineInv
<1>2. \A e \in Elements : eosCalls[e] <= 1
  BY <1>1 DEF Explains, Called
<1> QED BY <1>1, <1>2 DEF Explains, EndsOnce, PromiseSetOnce, EosCalledOnce, With

\* An end that a sink reports, behind an element without an error, is the client's,
\* and the sink has been shown all that was pushed.
LEMMA ReportIs ==
    ASSUME PipelineInv, NEW s \in Sinks, status[s] # Unset, ~hadError[s]
    PROVE  /\ client = "done" /\ seen[s] = sent /\ sent # <<>>
           /\ status[s] = sent[Len(sent)].eop
<1>1. PICK out \in Histories : Explains(out)
  BY DEF PipelineInv
<1>2. /\ s \in Elements /\ seen[s] \in Seq(Blocks) /\ Len(seen[s]) \in Nat
      /\ sent \in Seq(Blocks) /\ Len(sent) \in Nat /\ Len(out[s]) \in Nat
  BY <1>1 DEF Sinks, With, Explains, TypeOK, Histories
<1> DEFINE n == Len(seen[s])
<1>3. Ended(seen[s]) /\ status[s] = seen[s][n].eop
  <2>1. status[s] = IF Ended(seen[s]) THEN seen[s][n].eop ELSE Unset
    BY <1>1 DEF Explains, Shown
  <2> QED BY <2>1
<1>4. n <= Len(out[s]) /\ \A k \in 1 .. n : seen[s][k] = out[s][k]
  <2>1. n = Len(out[s]) - (IF Awaits(s, "StreamSink") THEN 1 ELSE 0)
    BY <1>1 DEF Explains, Shown
  <2>2. n = Len(out[s]) - 1 \/ n = Len(out[s]) - 0
    BY <2>1
  <2>3. n <= Len(out[s])
    BY <1>2, <2>2
  <2> QED BY <1>1, <2>3 DEF Explains, Shown
<1>5. Len(out[s]) <= Len(sent)
      /\ \A k \in 1 .. Len(out[s]) : out[s][k] \in {sent[k], Error}
  BY <1>1, <1>2 DEF Explains, Passed, PassedFrom
<1>6. ASSUME NEW k \in 1 .. Len(out[s]), out[s][k] = Error
      PROVE  FALSE
  <2>1. IsEop(out[s][k]) /\ out[s][k].eop = "error"
    BY <1>6 DEF Error, Eop, IsEop
  <2>2. k = Len(out[s])
    BY <1>1, <1>2, <2>1 DEF Explains, EndsLast
  <2>3. EndedBy(out[s], "error")
    BY <1>2, <2>1, <2>2 DEF EndedBy
  <2> QED BY <1>1, <1>2, <2>3 DEF Explains, EndsLast
<1>7. \A k \in 1 .. n : k \in 1 .. Len(sent) /\ seen[s][k] = sent[k]
  <2> HIDE DEF n
  <2>1. \A k \in 1 .. n : k \in 1 .. Len(out[s]) /\ k \in 1 .. Len(sent)
    BY <1>2, <1>4, <1>5 DEF n
  <2> QED BY <1>4, <1>5, <1>6, <2>1
<1>8. n \in 1 .. n /\ IsEop(seen[s][n])
  BY <1>2, <1>3 DEF Ended
<1>9. n = Len(sent) /\ client = "done"
  BY <1>1, <1>7, <1>8 DEF Explains, Source
<1>10. seen[s] = sent
  BY <1>2, <1>7, <1>9
<1>11. sent # <<>>
  BY <1>2, <1>8, <1>9
<1> QED BY <1>3, <1>9, <1>10, <1>11

\* With one buffer, at the root, whatever is called is called by its thread.
LEMMA OneThreadCalls ==
    ASSUME PipelineInv, Buffers = {Root}, NEW d \in Elements, call[d].at # "idle"
    PROVE  thread[Root] = "pushing"
<1>1. PICK out \in Histories : Explains(out)
  BY DEF PipelineInv
<1> DEFINE Z == {e \in Elements : call[e].at # "idle"}
<1>2. ASSUME NEW e \in Elements, Children(e) \cap Z # {}
      PROVE  e \in Z
  <2>1. PICK c \in Children(e) : c \in Z
    BY <1>2
  <2>2. c \in Elements \ {Root} /\ Parent(c) = e
    BY <2>1, ParentIs DEF Children
  <2>3. Pending(c)
    BY <2>1, <2>2 DEF Pending
  <2> QED BY <1>1, <2>2, <2>3 DEF Explains, Nested
<1>3. Upward(Z)
  BY <1>2 DEF Upward
<1>4. Root \in Z
  BY <1>3, PathIs
<1> QED BY <1>1, <1>4 DEF Explains, Nested

\* A client that has pushed its end through to the root has had the thread started.
LEMMA ThreadBegan ==
    ASSUME PipelineInv, Root \in Buffers, client = "done", offer[Root] = Empty,
           ~hadError[Root]
    PROVE  thread[Root] # "none"
<1>1. PICK out \in Histories : Explains(out) /\ Running(out)
  BY DEF PipelineInv
<1> SUFFICES ASSUME thread[Root] = "none"
             PROVE  FALSE
  OBVIOUS
<1>2. /\ Len(out[Root]) \in Nat /\ Given(out, Root) \in Nat
      /\ call[Root].at # "enter" => Begun(out, Root) = Len(out[Root])
      /\ sent \in Seq(Blocks) /\ Len(sent) \in Nat
  <2>1. sent \in Seq(Blocks) /\ Root \in Elements
    BY <1>1, PipelineAssumption DEF PipelineAssumption, Explains, TypeOK
  <2> QED BY <1>1, <2>1, GivenCovers
<1>3. ThreadRuns(out, Root) /\ Ended(sent)
  BY <1>1 DEF Running
<1>4. queue[Root] = <<>> /\ ~Ended(out[Root])
  BY <1>3 DEF ThreadRuns
<1>5. Len(queue[Root]) + Offered(Root) = 0
  <2>1. Offered(Root) = 0 /\ Len(queue[Root]) = 0
    BY <1>4 DEF Offered
  <2> QED BY <2>1
<1>6. Begun(out, Root) = Len(out[Root])
  BY <1>1, <1>2 DEF Explains, Nested
<1>7. Given(out, Root) = Len(sent)
  BY DEF Given
<1>8. Len(sent) = Len(out[Root])
  <2>1. Given(out, Root) = Begun(out, Root)
            + (IF Root \in Buffers THEN Len(queue[Root]) + Offered(Root) ELSE 0)
    BY <1>1, PipelineAssumption DEF Explains, Flow, PipelineAssumption
  <2>2. Len(sent) = Len(out[Root]) + 0
    BY <1>5, <1>6, <1>7, <2>1
  <2> QED BY <1>2, <2>2
<1>9. /\ Len(sent) \in 1 .. Len(out[Root])
      /\ out[Root][Len(sent)] \in {sent[Len(sent)], Error}
  BY <1>1, <1>2, <1>3, <1>8, PipelineAssumption
    DEF Explains, Passed, PassedFrom, Ended, PipelineAssumption
<1>10. IsEop(Error)
  BY DEF Error, Eop, IsEop
<1> QED BY <1>3, <1>4, <1>8, <1>9, <1>10 DEF Ended

\* Where no element fails of its own, none stops unless the client pushes an error.
LEMMA NoErrorArises ==
    ASSUME PipelineInv, [Next]_vars, Failures = {},
           \A i \in 1 .. Len(sent) : sent[i].eop # "error",
           \A e \in Elements : ~hadError[e]
    PROVE  \A e \in Elements : ~hadError'[e]
<1>1. PICK out \in Histories : Explains(out)
  BY DEF PipelineInv
<1>2. CASE \E e \in Elements : Enter(e)
  <2>1. PICK e \in Elements : Enter(e)
    BY <1>2
  <2>2. /\ call[e].at = "enter" /\ ~hadError[e]
        /\ hadError' = [hadError EXCEPT ![e] = Latches(call[e].block)]
    BY <2>1 DEF Enter, Outputs
  <2>3. /\ Len(out[e]) \in Nat /\ In(out, e) \in Seq(Blocks)
        /\ Len(out[e]) + 1 \in 1 .. Len(In(out, e))
        /\ call[e].block = In(out, e)[Len(out[e]) + 1]
    <3>1. In(out, e) \in Seq(Blocks) /\ Len(In(out, e)) \in Nat
      BY <1>1, <2>2, GivenCovers
    <3> QED BY <1>1, <2>2, <3>1, NextOutput
  <2>4. call[e].block.eop # "error"
    <3>1. CASE e = Root
      BY <2>3, <3>1 DEF In
    <3>2. CASE e # Root
      <4> DEFINE p == Parent(e)
                 k == Len(out[e]) + 1
      <4>1. p \in Elements /\ In(out, e) = out[p] /\ ~hadError[p] /\ out[p] \in Seq(Blocks)
        BY <3>2, HasParent DEF In, Histories
      <4>2. SUFFICES ASSUME out[p][k].eop = "error"
                     PROVE  FALSE
        BY <2>3, <4>1
      <4>3. k \in 1 .. Len(out[p]) /\ IsEop(out[p][k]) /\ Len(out[p]) \in Nat
        BY <2>3, <4>1, <4>2 DEF IsEop
      <4>4. k = Len(out[p]) /\ Len(out[p]) > 0
        BY <1>1, <4>1, <4>3 DEF Explains, EndsLast
      <4>5. EndedBy(out[p], "error")
        BY <4>2, <4>4 DEF EndedBy
      <4> QED BY <1>1, <4>1, <4>5 DEF Explains, EndsLast
    <3> QED BY <3>1, <3>2
  <2>5. hadError \in [Elements -> BOOLEAN]
    BY <1>1 DEF Explains, TypeOK
  <2> QED BY <2>2, <2>4, <2>5 DEF Latches
<1>3. CASE UNCHANGED hadError
  BY <1>3
<1>4. \/ \E e \in Elements : Enter(e)
      \/ UNCHANGED hadError
  BY DEF Next, PushBlock, PushEop, Push, ElementStep, Visit, Forward, Finish, BufferStep,
    StartThread, Enqueue, EnqueueTimesOut, Dequeue, AfterPush, Wait, Stopped, vars
<1> QED BY <1>2, <1>3, <1>4

\* How far an element may be behind the client when it is given a block, and
\* when it puts one out: the buffers before it, and those with it.
Share == Capacity + 1
Before(e) == Cardinality((Path[e] \ {e}) \cap Buffers) * Share + 1
After(e) == Cardinality(Path[e] \cap Buffers) * Share + 1

\* The client's blocks that an element was not given, and the one it is being
\* given now.
Near(out, e) ==
    Len(sent) - Given(out, e) + (IF Pending(e) THEN 1 ELSE 0) <= Before(e)

\* A buffer adds its share, another element nothing.
LEMMA ShareIs ==
    ASSUME NEW e \in Elements
    PROVE  /\ Share \in Nat /\ Before(e) \in Nat /\ After(e) \in Nat /\ Before(e) >= 1
           /\ e \in Buffers => After(e) = Before(e) + Share
           /\ e \notin Buffers => After(e) = Before(e)
<1> DEFINE U == (Path[e] \ {e}) \cap Buffers
           V == Path[e] \cap Buffers
<1>1. /\ IsFiniteSet(U) /\ IsFiniteSet(V) /\ Share \in Nat /\ Path[e] \subseteq Elements
      /\ e \in Path[e]
  <2>1. IsFiniteSet(Elements) /\ U \subseteq Elements /\ V \subseteq Elements
    BY PathIs, PipelineAssumption DEF PipelineAssumption
  <2>2. IsFiniteSet(U) /\ IsFiniteSet(V)
    BY <2>1, FS_Subset
  <2> QED BY <2>2, PathIs, PipelineAssumption DEF Share, PipelineAssumption
<1>2. Cardinality(U) \in Nat /\ Cardinality(V) \in Nat
  BY <1>1, FS_CardinalityType
<1>3. e \notin Buffers => V = U
  BY <1>1
<1>4. e \in Buffers => Cardinality(V) = Cardinality(U) + 1
  <2>1. SUFFICES ASSUME e \in Buffers PROVE Cardinality(V) = Cardinality(U) + 1
    OBVIOUS
  <2>2. V = U \cup {e} /\ e \notin U
    BY <1>1, <2>1
  <2> HIDE DEF U, V
  <2> QED BY <1>1, <2>2, FS_AddElement
<1>5. \A c, k \in Nat : /\ c * k \in Nat /\ c * k + 1 \in Nat /\ c * k + 1 >= 1
                         /\ (c + 1) * k + 1 = (c * k + 1) + k
  OBVIOUS
<1>6. PICK u \in Nat, v \in Nat, k \in Nat :
        u = Cardinality(U) /\ v = Cardinality(V) /\ k = Share
  BY <1>1, <1>2
<1>7. Before(e) = u * k + 1 /\ After(e) = v * k + 1
  BY <1>6 DEF Before, After
<1>8. (e \notin Buffers => v = u) /\ (e \in Buffers => v = u + 1)
  BY <1>3, <1>4, <1>6
<1> QED BY <1>5, <1>6, <1>7, <1>8

\* Nothing comes between an element and those connected to it.
LEMMA AfterIs ==
    ASSUME NEW d \in Elements \ {Root}
    PROVE  Before(d) = After(Parent(d))
<1>1. Path[d] \ {d} = Path[Parent(d)]
  BY PathStep
<1> QED BY <1>1 DEF Before, After

\* How far an element without an error is behind when it puts out a block.
LEMMA NearGives ==
    ASSUME NEW out \in Histories, Explains(out), NEW e \in Elements, ~hadError[e],
           Near(out, e)
    PROVE  /\ Len(sent) \in Nat /\ Len(out[e]) \in Nat
           /\ Len(sent) - Len(out[e]) <= After(e)
           /\ call[e].at \in {"visit", "forward"} => (Len(sent) - Len(out[e])) + 1 <= After(e)
<1> DEFINE S == Len(sent)
           L == Len(out[e])
           G == Given(out, e)
           B == Before(e)
           Q == Len(queue[e])
           one == IF call[e].at = "enter" THEN 1 ELSE 0
           mine == IF Pending(e) THEN 1 ELSE 0
<1>1. /\ S \in Nat /\ L \in Nat /\ G \in Nat /\ B \in Nat
      /\ Share = Capacity + 1 /\ Capacity \in Nat
  <2>1. S \in Nat
    BY DEF Explains, TypeOK
  <2>2. L \in Nat /\ G \in Nat
    BY GivenCovers
  <2>3. B \in Nat
    BY ShareIs
  <2> QED BY <2>1, <2>2, <2>3, PipelineAssumption DEF Share, PipelineAssumption
<1>2. one \in {0, 1} /\ mine \in {0, 1} /\ S - G + mine <= B
  BY DEF Near
<1>3. /\ call[e].at \in {"visit", "forward"} => one = 0
      /\ e \notin Buffers => one <= mine
      /\ e \notin Buffers /\ call[e].at \in {"visit", "forward"} => mine = 1
  BY DEF Pending
<1>4. Begun(out, e) = L + one
  BY DEF Begun
<1>5. CASE e \in Buffers
  <2>1. Q \in Nat /\ Q <= Capacity
    BY <1>5, GivenCovers DEF Explains, QueuesBounded
  <2>2. After(e) = B + (Capacity + 1)
    BY <1>1, <1>5, ShareIs
  <2>3. G = (L + one) + (Q + mine)
    <3>1. Offered(e) = mine
      BY <1>5 DEF Offered, Pending
    <3> QED BY <1>4, <1>5, <3>1 DEF Explains, Flow
  <2>4. S - L <= B + (Capacity + 1) /\ (one = 0 => (S - L) + 1 <= B + (Capacity + 1))
    <3> HIDE DEF S, L, G, B, Q, one, mine
    <3> QED BY <1>1, <1>2, <2>1, <2>3
  <2> QED BY <1>1, <1>3, <2>2, <2>4
<1>6. CASE e \notin Buffers
  <2>1. After(e) = B
    BY <1>6, ShareIs
  <2>2. G = (L + one) + 0
    BY <1>4, <1>6 DEF Explains, Flow
  <2>3. S - L <= B /\ (one = 0 /\ mine = 1 => (S - L) + 1 <= B)
    <3>1. one <= mine
      BY <1>3, <1>6
    <3> HIDE DEF S, L, G, B, one, mine
    <3> QED BY <1>1, <1>2, <2>2, <3>1
  <2> QED BY <1>1, <1>3, <1>6, <2>1, <2>3
<1> QED BY <1>5, <1>6

\* So the elements connected to it are near the client too.
LEMMA NearSteps ==
    ASSUME NEW out \in Histories, Explains(out), NEW d \in Elements \ {Root},
           ~hadError[Parent(d)], Near(out, Parent(d))
    PROVE  Near(out, d)
<1>1. Parent(d) \in Elements
  BY HasParent
<1>2. PICK p \in Elements : p = Parent(d)
  BY <1>1
<1> DEFINE S == Len(sent)
           L == Len(out[p])
           G == Given(out, d)
           B == Before(d)
<1>3. /\ S \in Nat /\ L \in Nat /\ B \in Nat
      /\ S - L <= B
      /\ call[p].at \in {"visit", "forward"} => (S - L) + 1 <= B
  BY <1>2, NearGives, AfterIs, ShareIs
<1>4. CASE Unpushed(d)
  <2>1. G = L - 1 /\ call[p].at \in {"visit", "forward"}
    BY <1>2, <1>4 DEF Given, Unpushed
  <2>2. ~Pending(d)
    <3>1. SUFFICES ASSUME Pending(d) PROVE FALSE
      OBVIOUS
    <3>2. call[p].at = "forward" /\ call[p].next = Index(d) + 1
      BY <1>2, <3>1 DEF Explains, Nested
    <3>3. Index(d) \in Nat
      BY ChildIs DEF Explains
    <3> QED BY <1>2, <1>4, <3>2, <3>3 DEF Unpushed
  <2>3. (S - G) + 0 <= B
    <3> HIDE DEF S, L, G, B
    <3> QED BY <1>3, <2>1
  <2> QED BY <2>2, <2>3 DEF Near
<1>5. CASE ~Unpushed(d)
  <2>1. G = L - 0
    BY <1>2, <1>5 DEF Given
  <2>2. CASE Pending(d)
    <3>1. call[p].at = "forward"
      BY <1>2, <2>2 DEF Explains, Nested
    <3>2. (S - G) + 1 <= B
      <4> HIDE DEF S, L, G, B
      <4> QED BY <1>3, <2>1, <3>1
    <3> QED BY <2>2, <3>2 DEF Near
  <2>3. CASE ~Pending(d)
    <3>1. (S - G) + 0 <= B
      <4> HIDE DEF S, L, G, B
      <4> QED BY <1>3, <2>1
    <3> QED BY <2>3, <3>1 DEF Near
  <2> QED BY <2>2, <2>3
<1> QED BY <1>4, <1>5

\* The elements with an error-free path that are not near would include the root.
LEMMA InvInFlight == PipelineInv => InFlightBounded
<1> SUFFICES ASSUME PipelineInv, NEW s \in Sinks, \A e \in Path[s] : ~hadError[e]
             PROVE  Len(sent) - Len(seen[s]) <=
                        Cardinality(Path[s] \cap Buffers) * (Capacity + 1) + 1
  BY DEF InFlightBounded
<1>1. PICK out \in Histories : Explains(out)
  BY DEF PipelineInv
<1>2. s \in Elements /\ s \in Path[s] /\ Len(out[s]) \in Nat
  BY PathIs DEF Sinks, With, Histories
<1>3. Near(out, Root)
  <2>1. Root \in Elements
    BY PipelineAssumption DEF PipelineAssumption
  <2>2. Len(sent) \in Nat /\ Given(out, Root) = Len(sent) /\ Before(Root) \in Nat
        /\ Before(Root) >= 1
    BY <1>1, <2>1, ShareIs DEF Explains, TypeOK, Given
  <2>3. CASE Pending(Root)
    <3>1. (Len(sent) - Given(out, Root)) + 1 <= Before(Root)
      BY <2>2
    <3> QED BY <2>3, <3>1 DEF Near
  <2>4. CASE ~Pending(Root)
    <3>1. (Len(sent) - Given(out, Root)) + 0 <= Before(Root)
      BY <2>2
    <3> QED BY <2>4, <3>1 DEF Near
  <2> QED BY <2>3, <2>4
<1>4. Near(out, s)
  <2> DEFINE F == {e \in Elements : ~Near(out, e) /\ \A x \in Path[e] : ~hadError[x]}
  <2>1. SUFFICES ASSUME ~Near(out, s) PROVE FALSE
    OBVIOUS
  <2>2. ASSUME NEW p \in Elements, Children(p) \cap F # {}
        PROVE  p \in F
    <3>1. PICK d \in Children(p) : d \in F
      BY <2>2
    <3>2. d \in Elements \ {Root} /\ Parent(d) = p
      BY ParentIs DEF Children
    <3>3. \A x \in Path[p] : ~hadError[x]
      BY <3>1, <3>2, PathStep
    <3>4. ~hadError[p]
      BY <3>3, PathIs
    <3> QED BY <1>1, <3>1, <3>2, <3>3, <3>4, NearSteps
  <2>3. Upward(F) /\ s \in F /\ F \in SUBSET Elements
    BY <1>2, <2>1, <2>2 DEF Upward
  <2>4. Root \in F
    BY <1>2, <2>3, PathIs
  <2> QED BY <1>3, <2>4
<1> DEFINE S == Len(sent)
           L == Len(out[s])
           N == Len(seen[s])
           A == After(s)
<1>5. /\ S \in Nat /\ A \in Nat /\ L \in Nat
      /\ S - L <= A
      /\ call[s].at \in {"visit", "forward"} => (S - L) + 1 <= A
  BY <1>1, <1>2, <1>4, NearGives, ShareIs
<1>6. S - N <= A
  <2>1. N = L - (IF Awaits(s, "StreamSink") THEN 1 ELSE 0)
    BY <1>1 DEF Explains, Shown
  <2>2. CASE Awaits(s, "StreamSink")
    <3>1. N = L - 1 /\ call[s].at = "visit"
      BY <2>1, <2>2 DEF Awaits
    <3> HIDE DEF S, L, N, A
    <3> QED BY <1>5, <3>1
  <2>3. CASE ~Awaits(s, "StreamSink")
    <3>1. N = L - 0
      BY <2>1, <2>3
    <3> HIDE DEF S, L, N, A
    <3> QED BY <1>5, <3>1
  <2> QED BY <2>2, <2>3
<1> QED BY <1>6 DEF After, Share

-----------------------------------------------------------------------------
(***************************************************************************)
(* Nothing gets stuck.  A call that waits does so for a call below it; in  *)
(* a finite tree this would go on for ever, so there is no such call.  And *)
(* when no call is left, the end has reached every buffer.                 *)
(***************************************************************************)
\* No call, thread or attempt to enqueue can go on.
Halted ==
    /\ \A e \in Elements : ~ElementGoesOn(e)
    /\ \A b \in Buffers : ~BufferGoesOn(b)

\* A call that can not go on waits for its last push to return.
LEMMA WaitsForChild ==
    ASSUME NEW out \in Histories, Explains(out), Running(out), Halted,
           NEW e \in Elements, call[e].at # "idle"
    PROVE  \E d \in Elements \ {Root} : Parent(d) = e /\ Pending(d)
<1>1. call[e] \in Activations
  BY DEF Explains, TypeOK
<1>2. call[e].at = "forward" /\ ~ChildrenIdle(e)
  BY <1>1 DEF Halted, ElementGoesOn, Activations
<1>3. PICK i \in 1 .. call[e].next - 1 : Pending(Processors[e][i])
  BY <1>2 DEF ChildrenIdle
<1>4. DOMAIN Processors[e] = 1 .. Len(Processors[e]) /\ Len(Processors[e]) \in Nat
  BY ChildrenTyped
<1>5. call[e].next \in 1 .. Len(Processors[e]) + 1
  BY <1>2 DEF Running, NextInside
<1>6. i \in DOMAIN Processors[e]
  BY <1>4, <1>5
<1> QED BY <1>3, <1>6, ParentIs

\* A block is on offer for as long as the queue is full, and it is full only
\* while the buffer's thread is pushing.
LEMMA OfferWaitsForThread ==
    ASSUME NEW out \in Histories, Explains(out), Running(out), Halted,
           NEW b \in Buffers, offer[b] # Empty
    PROVE  call[b].at # "idle"
<1>1. ThreadRuns(out, b) /\ ~BufferGoesOn(b)
  BY DEF Running, Halted
<1>2. thread[b] # "none" /\ ~Room(b)
  BY <1>1 DEF BufferGoesOn
<1>3. queue[b] # <<>>
  BY <1>2, PipelineAssumption DEF Room, PipelineAssumption
<1>4. thread[b] # "waiting"
  BY <1>1, <1>3 DEF BufferGoesOn
<1>5. thread[b] # "ended"
  BY <1>1 DEF ThreadRuns
<1>6. thread[b] = "pushing"
  BY <1>2, <1>4, <1>5, BufferTyped
<1> QED BY <1>1, <1>6 DEF BufferGoesOn

\* There is no circle of waiting: each call waits for one below it, and no two
\* for the same, so that all calls of a finite tree would be waited for; but the
\* call of the root is not.
LEMMA AllReturned ==
    ASSUME NEW out \in Histories, Explains(out), Running(out), Halted
    PROVE  \A e \in Elements : call[e].at = "idle"
<1> DEFINE W == {e \in Elements : call[e].at # "idle"}
           f == [e \in W |-> CHOOSE d \in W \ {Root} : Parent(d) = e]
<1>1. ASSUME NEW e \in W
      PROVE  \E d \in W \ {Root} : Parent(d) = e
  <2>1. PICK d \in Elements \ {Root} : Parent(d) = e /\ Pending(d)
    BY WaitsForChild
  <2>2. call[d].at # "idle"
    BY <2>1, OfferWaitsForThread DEF Pending
  <2> QED BY <2>1, <2>2
<1>2. \A e \in W : f[e] \in W \ {Root} /\ Parent(f[e]) = e
  BY <1>1
<1>3. IsFiniteSet(W)
  BY PipelineAssumption, FS_Subset DEF PipelineAssumption
<1> HIDE DEF f, W
<1>4. f \in [W -> W]
  BY <1>2 DEF f
<1>5. f \in Injection(W, W)
  BY <1>2, <1>4 DEF Injection, IsInjective
<1>6. f \in Surjection(W, W)
  BY <1>3, <1>5, FS_Injection
<1>7. \A d \in W : d # Root /\ Parent(d) \in W
  BY <1>2, <1>6 DEF Surjection
<1>8. Upward(W)
  BY <1>7, ParentIs DEF Upward, Children
<1>9. W \in SUBSET Elements /\ Root \notin W
  BY <1>7 DEF W
<1>10. \A e \in Elements : e \notin W
  BY <1>8, <1>9, PathIs
<1> QED BY <1>10 DEF W

\* When no call is left, all queues are empty, and every element has put out an
\* end if the client has pushed one.
LEMMA EndReachesAll ==
    ASSUME NEW out \in Histories, Explains(out), Running(out), Halted, Ended(sent)
    PROVE  \A e \in Elements : Ended(out[e])
<1>1. \A e \in Elements : call[e].at = "idle"
  BY AllReturned
<1>2. ASSUME NEW b \in Buffers
      PROVE  queue[b] = <<>> /\ offer[b] = Empty /\ Len(queue[b]) = 0
  <2>1. /\ ThreadRuns(out, b) /\ ~BufferGoesOn(b) /\ call[b].at = "idle"
        /\ thread[b] \in {"none", "waiting", "pushing", "ended"}
    BY <1>1, BufferTyped DEF Running, Halted
  <2>2. queue[b] = <<>>
    BY <2>1 DEF ThreadRuns, BufferGoesOn
  <2>3. offer[b] = Empty
    BY <2>1, OfferWaitsForThread
  <2> QED BY <2>2, <2>3
<1>3. ASSUME NEW d \in Elements, ~hadError[d], Ended(In(out, d))
      PROVE  Ended(out[d])
  <2> DEFINE in == In(out, d)
  <2>1. /\ Len(out[d]) \in Nat /\ Given(out, d) \in Nat /\ Len(in) \in Nat
        /\ Begun(out, d) = Len(out[d])
    BY <1>1, <1>3, GivenCovers
  <2>2. Given(out, d) = Len(out[d])
    <3>1. ASSUME d \in Buffers
          PROVE  Len(queue[d]) + Offered(d) = 0
      <4>1. Len(queue[d]) = 0 /\ Offered(d) = 0
        BY <1>2, <3>1 DEF Offered
      <4> QED BY <4>1
    <3>2. Given(out, d) = Begun(out, d)
            + (IF d \in Buffers THEN Len(queue[d]) + Offered(d) ELSE 0)
      BY <1>3 DEF Explains, Flow
    <3>3. Given(out, d) = Len(out[d]) + 0
      BY <2>1, <3>1, <3>2
    <3> QED BY <2>1, <3>3
  <2>3. Given(out, d) = Len(in)
    <3>1. CASE d = Root
      BY <3>1 DEF Given, In
    <3>2. CASE d # Root
      <4>1. ~Unpushed(d)
        BY <1>1, <3>2, HasParent DEF Unpushed
      <4>2. Given(out, d) = Len(in) - 0
        BY <3>2, <4>1 DEF Given, In
      <4> QED BY <2>1, <4>2
    <3> QED BY <3>1, <3>2
  <2>4. Len(out[d]) = Len(in) /\ Len(in) \in 1 .. Len(out[d]) /\ IsEop(in[Len(in)])
    BY <1>3, <2>1, <2>2, <2>3 DEF Ended
  <2>5. out[d][Len(in)] \in {in[Len(in)], Error}
    BY <2>4 DEF Explains, Passed, PassedFrom
  <2>6. IsEop(Error)
    BY DEF Error, Eop, IsEop
  <2> HIDE DEF in
  <2> QED BY <2>4, <2>5, <2>6 DEF Ended
<1>4. ASSUME NEW d \in Elements, hadError[d]
      PROVE  Ended(out[d])
  BY <1>4 DEF Explains, EndsLast, EndedBy, Ended, IsEop
<1> DEFINE Z == {e \in Elements : ~Ended(out[e])}
<1>5. Root \notin Z
  BY <1>3, <1>4 DEF In
<1>6. Upward(Z)
  <2>1. SUFFICES ASSUME NEW e \in Elements, NEW d \in Children(e), d \in Z
                 PROVE  ~Ended(out[e])
    BY DEF Upward
  <2>2. d # Root /\ Parent(d) = e
    BY <2>1, ParentIs DEF Children
  <2> QED BY <1>3, <1>4, <2>1, <2>2 DEF In
<1>7. \A e \in Elements : e \notin Z
  BY <1>5, <1>6, PathIs
<1> QED BY <1>7

\* If nothing can go on, the client can, or has pushed an end that reached all.
LEMMA InvNeverStuck == PipelineInv => NeverStuck
<1> SUFFICES ASSUME PipelineInv, Halted, ~(client = "pushing" /\ ~Pending(Root))
             PROVE  client = "done" /\ Quiet
  BY DEF NeverStuck, Halted
<1>1. PICK out \in Histories : Explains(out) /\ Running(out)
  BY DEF PipelineInv
<1>2. \A e \in Elements : call[e].at = "idle"
  BY <1>1, AllReturned
<1>3. ASSUME NEW b \in Buffers
      PROVE  offer[b] = Empty
  BY <1>1, <1>2, BufferTyped, OfferWaitsForThread
<1>4. ~Pending(Root)
  BY <1>2, <1>3, PipelineAssumption DEF Pending, PipelineAssumption
<1>5. client = "done"
  BY <1>1, <1>4 DEF Explains, TypeOK
<1>6. \A e \in Elements : Ended(out[e])
  BY <1>1, <1>5, EndReachesAll DEF Running
<1>7. ASSUME NEW b \in Buffers
      PROVE  thread[b] \in {"none", "ended"}
  <2>1. /\ ThreadRuns(out, b) /\ ~BufferGoesOn(b) /\ b \in Elements
        /\ thread[b] \in {"none", "waiting", "pushing", "ended"}
    BY <1>1, BufferTyped DEF Running, Halted
  <2> QED BY <1>2, <1>6, <2>1 DEF ThreadRuns, BufferGoesOn
<1> QED BY <1>2, <1>3, <1>5, <1>7 DEF Quiet

-----------------------------------------------------------------------------
(***************************************************************************)
(* The theorems.  An element that fails is taken to fill out an error, as  *)
(* the code of the repository does: with another end it goes on            *)
(* processing, and what follows the end reaches the sinks.                 *)
(***************************************************************************)
\* PipelineInv is an invariant.
LEMMA PipelineInvariant ==
    ASSUME Failures \subseteq {"error"}
    PROVE  Spec => []PipelineInv
<1>1. PipelineInv /\ [Next]_vars => PipelineInv'
  BY NextExplained
<1> QED BY InitExplained, <1>1, PTL DEF Spec

\* Types; std::terminate is not called and a function for the end is called
\* once (StreamSink, OnEosVistor); a success that a sink reports is the whole
\* truth; the blocks on their way are at most what the queues hold and one more
\* for each of their threads and for the client; and until all is done the
\* client or some thread can go on (pushData, run, wait_enqueue_timed).
THEOREM PipelineCorrect ==
    ASSUME Failures \subseteq {"error"}
    PROVE  Spec => [](TypeOK /\ EndsOnce /\ SuccessIsTrue /\ InFlightBounded /\ NeverStuck)
<1>1. PipelineInv => TypeOK /\ EndsOnce /\ SuccessIsTrue /\ InFlightBounded /\ NeverStuck
  BY InvEndsOnce, InvSuccess, InvInFlight, InvNeverStuck
<1> QED BY PipelineInvariant, <1>1, PTL

\* The client's push is the contract's.
LEMMA PushMaps ==
    ASSUME NEW out \in Histories, Explains(out), NEW x \in Blocks, Push(x)
    PROVE  Contract!Push(x)
<1>1. \A i \in DOMAIN sent : sent[i] \notin Contract!Ends
  <2>1. DOMAIN sent = 1 .. Len(sent)
    BY DEF Explains, TypeOK
  <2>2. client # "done"
    BY DEF Push
  <2> QED BY <2>1, <2>2 DEF Explains, Source, IsEop, Contract!Ends
<1> QED BY <1>1 DEF Push, Contract!Push

\* A sink is shown the next block of the client's, or an error in its place.
LEMMA ShowMaps ==
    ASSUME NEW out \in Histories, Explains(out), NEW e \in Elements,
           call[e].at = "visit", Visitors[e][call[e].next] = "StreamSink",
           VisitSink(e, call[e].block), UNCHANGED sent
    PROVE  Contract!Show(e) /\ e \in Sinks
<1> DEFINE n == Len(out[e])
           x == call[e].block
<1>1. /\ e \in Sinks /\ status[e] = Unset /\ Len(seen[e]) = n - 1
      /\ seen' = [seen EXCEPT ![e] = Append(seen[e], x)]
  BY SinkIsShown
<1>2. /\ n \in Nat /\ n > 0 /\ x = out[e][n] /\ x \in Blocks
  BY OutputIs
<1>3. n <= Len(sent) /\ x \in {sent[n], Error}
  BY <1>2 DEF Explains, Passed, PassedFrom
<1>4. Error.eop = "error"
  BY DEF Error, Eop
<1>5. x \in Contract!Ends <=> IsEop(x)
  BY <1>2 DEF Contract!Ends, IsEop
<1>6. Len(seen[e]) + 1 = n
  BY <1>1, <1>2
<1>7. x \in {sent[n]} \cup Contract!Ends
  BY <1>3, <1>4, <1>5 DEF IsEop
<1>8. status' = [status EXCEPT ![e] = IF x \in Contract!Ends THEN x.eop ELSE Unset]
  <2>1. status \in [Sinks -> Statuses \cup {Unset}]
    BY DEF Explains, TypeOK
  <2>2. CASE IsEop(x)
    <3>1. status' = [status EXCEPT ![e] = IF status[e] = Unset THEN x.eop ELSE status[e]]
      BY <2>2 DEF VisitSink, Fulfils, PromiseValue
    <3> QED BY <1>1, <1>5, <2>2, <3>1
  <2>3. CASE ~IsEop(x)
    <3>1. status' = status
      BY <2>3 DEF VisitSink, Fulfils
    <3> QED BY <1>1, <1>5, <2>1, <2>3, <3>1
  <2> QED BY <2>2, <2>3
<1> QED BY <1>1, <1>3, <1>6, <1>7, <1>8 DEF Contract!Show

\* A push is a push of the contract, a visit of a sink shows it a block, and nothing
\* else changes what the contract sees.
LEMMA NextMaps ==
    ASSUME PipelineInv, [Next]_vars
    PROVE  [Contract!Next]_(Contract!vars)
<1>1. PICK out \in Histories : Explains(out)
  BY DEF PipelineInv
<1>2. SUFFICES ASSUME ~UNCHANGED <<sent, seen, status>>
               PROVE  Contract!Next
  BY DEF Contract!vars
<1>3. CASE PushBlock
  <2>1. PICK k : k = Len(sent) + 1
    OBVIOUS
  <2>2. k \in 0 .. MaxBlocks
    BY <1>1, <1>3, <2>1, PipelineAssumption
       DEF PushBlock, Explains, TypeOK, PipelineAssumption
  <2>3. Data(k) \in Blocks /\ Push(Data(k))
    BY <1>3, <2>1, <2>2 DEF Data, Blocks, PushBlock
  <2> QED BY <1>1, <2>3, PushMaps DEF Contract!Next
<1>4. CASE \E s \in ClientEnds : PushEop(s)
  <2>1. PICK s \in ClientEnds : Push(Eop(s))
    BY <1>4 DEF PushEop
  <2>2. s \in Statuses /\ 0 \in 0 .. MaxBlocks
    BY PipelineAssumption DEF PipelineAssumption
  <2>3. Eop(s) \in Blocks
    BY <2>2 DEF Eop, Blocks
  <2> QED BY <1>1, <2>1, <2>3, PushMaps DEF Contract!Next
<1>5. CASE \E e \in Elements : ElementStep(e)
  <2>1. PICK e \in Elements : Visit(e)
    BY <1>2, <1>5 DEF ElementStep, Enter, Forward, Finish
  <2>2. /\ call[e].at = "visit" /\ call[e].next \in DOMAIN Visitors[e]
        /\ UNCHANGED sent
    BY <1>1, <2>1 DEF Visit, Explains, Nested
  <2>3. Visitors[e][call[e].next] \in Kinds
    BY <2>2, VisitorIs
  <2>4. /\ Visitors[e][call[e].next] = "StreamSink" => VisitSink(e, call[e].block)
        /\ Visitors[e][call[e].next] # "StreamSink" => UNCHANGED <<seen, status>>
    BY <2>1, <2>3 DEF Visit, VisitOnEos, Kinds
  <2> QED BY <1>1, <1>2, <2>2, <2>4, ShowMaps DEF Contract!Next
<1>6. CASE \E b \in Buffers : BufferStep(b)
  BY <1>2, <1>6 DEF BufferStep, StartThread, Enqueue, EnqueueTimesOut, Dequeue, AfterPush, vars
<1>7. CASE \E s \in Sinks : Wait(s)
  BY <1>2, <1>7 DEF Wait
<1>8. CASE Stopped \/ UNCHANGED vars
  BY <1>2, <1>8 DEF Stopped, vars
<1> QED BY <1>3, <1>4, <1>5, <1>6, <1>7, <1>8 DEF Next

\* Every sink is shown what the client pushed, in order and without gaps, up to
\* one end, and reports that end: pipelines of any shape implement StreamContract.
THEOREM PipelineImplements ==
    ASSUME Failures \subseteq {"error"}
    PROVE  Spec => ImplementsContract
<1>1. Init => Contract!Init
  BY DEF Init, Contract!Init
<1>2. PipelineInv /\ [Next]_vars => [Contract!Next]_(Contract!vars)
  BY NextMaps
<1> QED BY PipelineInvariant, <1>1, <1>2, PTL DEF Spec, ImplementsContract, Contract!Spec

=============================================================================
