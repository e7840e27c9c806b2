----------------------------- MODULE ExamplesProofs -----------------------------
(***************************************************************************)
(* The two example programs never use what they destroyed, read the truth  *)
(* from the sink, stop when they are told to, and leave nothing behind:    *)
(* for any number of blocks and any capacity of the buffer, with or        *)
(* without the accumulator, with or without stop().                        *)
(*                                                                         *)
(* The invariant of a program has three parts: its types; its stream, on   *)
(* top of the invariant that StreamPipelineProofs has of every pipeline;   *)
(* and its memory, on top of what the first section proves of any objects  *)
(* that own each other without a circle.                                   *)
(***************************************************************************)
EXTENDS MCExamples, SequenceTheorems, FiniteSetTheorems, TLAPS

-----------------------------------------------------------------------------
(***************************************************************************)
(* Ownership, for any objects that own each other without a circle.  own   *)
(* is what each object's members refer to, roots the references that each  *)
(* thread drops of its own accord, stopped the objects whose thread has    *)
(* ended; r, a and q are refs, alive and todo.                             *)
(***************************************************************************)
Joined == {"source", "tb"}

Release(h, o) == Memory!Release(h, o)
Join(o) == Memory!Join(o)
Free(o) == Memory!Free(o)

Parts(own, d) == Range(own[d])
ReleaseParts(own, d) == [i \in DOMAIN own[d] |-> Release(Member(d), own[d][i])]
Destroy(own, d) ==
    (IF d \in Joined THEN <<Join(d)>> ELSE <<>>) \o <<Free(d)>> \o ReleaseParts(own, d)

\* What is to be done to destroy d.
Duties(own, d) == {Join(d), Free(d)} \cup {Release(Member(d), o) : o \in Parts(own, d)}

\* d is referred to, or its thread runs: it exists and so does what it owns.
Stands(stopped, r, d) == r[d] # {} \/ d \in Joined \ stopped
Standing(own, stopped, r, a) ==
    \A d \in DOMAIN own :
        Stands(stopped, r, d) => d \in a /\ \A o \in Parts(own, d) : Member(d) \in r[o]

\* A thread drops references of its own, or destroys an object that nobody
\* refers to, and joins its thread first.
Dutiful(own, roots, stopped, r, q) ==
    \A t \in DOMAIN roots : \A x \in Range(q[t]) :
        \/ x \in roots[t]
        \/ \E d \in DOMAIN own :
            /\ r[d] = {}
            /\ x \in Duties(own, d)
            /\ d \in Joined \ stopped => Head(q[t]) = Join(d)

\* Every reference will be dropped: by the thread whose it is, once that leaves, or
\* with the object whose member it is; and what nobody refers to is being destroyed.
Todo(roots, q) == UNION {Range(q[t]) : t \in DOMAIN roots}
Accounted(own, roots, leaving, r, a, q) ==
    /\ \A o \in DOMAIN own : \A h \in r[o] :
        \/ \E d \in DOMAIN own :
            /\ h = Member(d)
            /\ o \in Parts(own, d)
            /\ r[d] # {} \/ Release(h, o) \in Todo(roots, q)
        \/ \E t \in DOMAIN roots :
            /\ Release(h, o) \in roots[t]
            /\ t \in leaving => Release(h, o) \in Range(q[t])
    /\ \A o \in a \cap DOMAIN own : r[o] = {} => Free(o) \in Todo(roots, q)

Ownership(own, roots, stopped, leaving, r, a, q) ==
    /\ Standing(own, stopped, r, a)
    /\ Dutiful(own, roots, stopped, r, q)
    /\ Accounted(own, roots, leaving, r, a, q)

\* The objects own objects, and a thread's own references are no members.
Owners(own, roots) ==
    /\ own \in [DOMAIN own -> Seq(DOMAIN own)]
    /\ \A t \in DOMAIN roots : \A x \in roots[t] :
        \E h, o : /\ x = Release(h, o)
                  /\ o \in DOMAIN own
                  /\ \A d \in DOMAIN own : h # Member(d)

\* Tasks are told apart by what they do and to what.
LEMMA TaskFields ==
    /\ \A h, o : /\ Release(h, o).do = "release" /\ Release(h, o).holder = h
                 /\ Release(h, o).target = o
    /\ \A o : Join(o).do = "join" /\ Join(o).target = o
    /\ \A o : Free(o).do = "free" /\ Free(o).target = o
  BY DEF Release, Join, Free, Memory!Release, Memory!Join, Memory!Free

\* Each object's members are a holder of their own.
LEMMA MemberIs ==
    ASSUME NEW d, NEW e, Member(d) = Member(e)
    PROVE  d = e
  BY DEF Member

\* The tasks of a sequence without its first, and of two one after the other.
LEMMA TailTasks ==
    ASSUME NEW S, NEW s \in Seq(S), s # <<>>
    PROVE  /\ Tail(s) \in Seq(S) /\ Head(s) \in Range(s)
           /\ Range(s) = {Head(s)} \cup Range(Tail(s))
<1>1. /\ Head(s) = s[1] /\ Tail(s) \in Seq(S) /\ Len(Tail(s)) = Len(s) - 1
      /\ DOMAIN s = 1 .. Len(s) /\ Len(s) \in Nat /\ Len(s) > 0
      /\ DOMAIN Tail(s) = 1 .. Len(Tail(s))
      /\ \A i \in 1 .. Len(Tail(s)) : Tail(s)[i] = s[i + 1]
  BY HeadTailProperties, LenProperties, EmptySeq
<1>2. ASSUME NEW x \in Range(s)
      PROVE  x \in {Head(s)} \cup Range(Tail(s))
  <2>1. PICK i \in 1 .. Len(s) : x = s[i]
    BY <1>1, <1>2 DEF Range
  <2>2. CASE i = 1
    BY <1>1, <2>1, <2>2
  <2>3. CASE i # 1
    <3>1. i - 1 \in 1 .. Len(Tail(s)) /\ (i - 1) + 1 = i
      BY <1>1, <2>3
    <3>2. x = Tail(s)[i - 1]
      BY <1>1, <2>1, <3>1
    <3> QED BY <1>1, <3>1, <3>2 DEF Range
  <2> QED BY <2>2, <2>3
<1>3. ASSUME NEW x \in Range(Tail(s))
      PROVE  x \in Range(s)
  <2>1. PICK i \in 1 .. Len(Tail(s)) : x = Tail(s)[i]
    BY <1>1, <1>3 DEF Range
  <2>2. i + 1 \in 1 .. Len(s) /\ x = s[i + 1]
    BY <1>1, <2>1
  <2> QED BY <1>1, <2>2 DEF Range
<1>4. Head(s) \in Range(s)
  BY <1>1 DEF Range
<1> QED BY <1>1, <1>2, <1>3, <1>4

\* Tasks put before others: none is lost, and the first stays first.
LEMMA ConcatTasks ==
    ASSUME NEW S, NEW s \in Seq(S), NEW u \in Seq(S)
    PROVE  /\ s \o u \in Seq(S)
           /\ Range(s \o u) = Range(s) \cup Range(u)
           /\ s # <<>> => s \o u # <<>> /\ Head(s \o u) = Head(s)
<1>1. /\ s \o u \in Seq(S) /\ Len(s \o u) = Len(s) + Len(u)
      /\ \A i \in 1 .. Len(s) + Len(u) :
            (s \o u)[i] = IF i <= Len(s) THEN s[i] ELSE u[i - Len(s)]
      /\ Len(s) \in Nat /\ Len(u) \in Nat
  BY ConcatProperties, LenProperties
<1>2. ASSUME s # <<>>
      PROVE  s \o u # <<>> /\ Head(s \o u) = Head(s)
  <2>1. Len(s) > 0 /\ Len(s) + Len(u) > 0
    BY <1>1, <1>2, EmptySeq
  <2>2. s \o u # <<>>
    BY <1>1, <2>1, EmptySeq
  <2>3. 1 \in 1 .. Len(s) + Len(u) /\ 1 <= Len(s)
    BY <1>1, <2>1
  <2>4. (s \o u)[1] = s[1]
    BY <1>1, <2>3
  <2>5. Head(s \o u) = (s \o u)[1] /\ Head(s) = s[1]
    BY <1>1, <2>1
  <2> QED BY <2>2, <2>4, <2>5
<1> QED BY <1>1, <1>2, RangeConcatenation

\* A destructor's tasks are the join, the end of the object, and its members'
\* references; the join, if there is one, comes first.
LEMMA ThreeParts ==
    ASSUME NEW S, NEW s \in Seq(S), NEW u \in Seq(S), NEW v \in Seq(S)
    PROVE  /\ (s \o u) \o v \in Seq(S)
           /\ Range((s \o u) \o v) = Range(s) \cup Range(u) \cup Range(v)
           /\ s # <<>> => (s \o u) \o v # <<>> /\ Head((s \o u) \o v) = Head(s)
<1>1. /\ s \o u \in Seq(S) /\ Range(s \o u) = Range(s) \cup Range(u)
      /\ s # <<>> => s \o u # <<>> /\ Head(s \o u) = Head(s)
  BY ConcatTasks
<1>2. PICK w \in Seq(S) : w = s \o u
  BY <1>1
<1>3. /\ w \o v \in Seq(S) /\ Range(w \o v) = Range(w) \cup Range(v)
      /\ w # <<>> => w \o v # <<>> /\ Head(w \o v) = Head(w)
  BY ConcatTasks
<1> QED BY <1>1, <1>2, <1>3

\* A single task, as `Join' or `Free' is within a destructor.
LEMMA OneTask ==
    ASSUME NEW S, NEW x \in S
    PROVE  <<x>> \in Seq(S) /\ Range(<<x>>) = {x} /\ <<x>> # <<>> /\ Head(<<x>>) = x
<1>1. <<x>> \in Seq(S) /\ Len(<<x>>) = 1 /\ <<x>>[1] = x
  OBVIOUS
<1>2. Range(<<x>>) = {<<x>>[i] : i \in 1 .. 1}
  BY <1>1, RangeEquality
<1> QED BY <1>1, <1>2

\* A thread with nothing to do has no tasks.
LEMMA NoTask == Range(<<>>) = {}
  BY DEF Range

\* A destructor does its duties, and a join comes first.
LEMMA DestroyIs ==
    ASSUME NEW own, own \in [DOMAIN own -> Seq(DOMAIN own)], NEW d \in DOMAIN own,
           NEW S, Duties(own, d) \subseteq S
    PROVE  /\ Destroy(own, d) \in Seq(S)
           /\ Range(Destroy(own, d)) \subseteq Duties(own, d)
           /\ Free(d) \in Range(Destroy(own, d))
           /\ \A o \in Parts(own, d) : Release(Member(d), o) \in Range(Destroy(own, d))
           /\ d \in Joined =>
                Destroy(own, d) # <<>> /\ Head(Destroy(own, d)) = Join(d)
<1>1. own[d] \in Seq(DOMAIN own) /\ DOMAIN own[d] = 1 .. Len(own[d]) /\ Len(own[d]) \in Nat
  BY LenProperties
<1>2. PICK m : m = ReleaseParts(own, d)
  OBVIOUS
<1>3. DOMAIN m = 1 .. Len(own[d]) /\ \A i \in DOMAIN m : m[i] = Release(Member(d), own[d][i])
  BY <1>1, <1>2 DEF ReleaseParts
<1>4. m \in Seq(S)
  <2>1. \A i \in DOMAIN own[d] : Release(Member(d), own[d][i]) \in S
    BY DEF Duties, Parts, Range
  <2>2. m = [i \in 1 .. Len(own[d]) |-> m[i]]
    BY <1>1, <1>2 DEF ReleaseParts
  <2>3. m \in [1 .. Len(own[d]) -> S]
    BY <1>1, <1>3, <2>1, <2>2
  <2>4. Seq(S) = UNION {[1 .. n -> S] : n \in Nat}
    BY SeqDef
  <2> QED BY <1>1, <2>3, <2>4
<1>5. Range(m) = {Release(Member(d), o) : o \in Parts(own, d)}
  BY <1>1, <1>3, Zenon DEF Range, Parts
<1>6. PICK j : j = IF d \in Joined THEN <<Join(d)>> ELSE <<>>
  OBVIOUS
<1>7. /\ j \in Seq(S) /\ Range(j) \subseteq {Join(d)}
      /\ d \in Joined => j # <<>> /\ Head(j) = Join(d)
  <2>1. CASE d \in Joined
    BY <1>6, <2>1, OneTask DEF Duties
  <2>2. CASE d \notin Joined
    BY <1>6, <2>2, NoTask
  <2> QED BY <2>1, <2>2
<1>8. PICK f : f = <<Free(d)>>
  OBVIOUS
<1>9. f \in Seq(S) /\ Range(f) = {Free(d)}
  BY <1>8, OneTask DEF Duties
<1>10. Destroy(own, d) = (j \o f) \o m
  BY <1>2, <1>6, <1>8 DEF Destroy
<1>11. /\ Destroy(own, d) \in Seq(S)
       /\ Range(Destroy(own, d)) = Range(j) \cup Range(f) \cup Range(m)
       /\ j # <<>> => Destroy(own, d) # <<>> /\ Head(Destroy(own, d)) = Head(j)
  BY <1>4, <1>7, <1>9, <1>10, ThreeParts
<1> QED BY <1>5, <1>7, <1>9, <1>11 DEF Duties

\* A thread's tasks, and the references to the objects.
Listed(roots, S, q) == q \in [DOMAIN roots -> Seq(S)]
Referred(own, r) == r = [o \in DOMAIN own |-> r[o]]

\* A thread drops a reference, or does another task.
Drops(own, t, r, q, r1, q1) ==
    LET x == Head(q[t])
        left == r[x.target] \ {x.holder}
    IN  /\ r1 = [r EXCEPT ![x.target] = left]
        /\ q1 = [q EXCEPT ![t] = (IF left = {} THEN Destroy(own, x.target) ELSE <<>>) \o Tail(q[t])]
Does(t, q, q1) == q1 = [q EXCEPT ![t] = Tail(q[t])]

\* What a thread does next: it drops a reference of its own, or it goes on
\* destroying an object, which no longer stands, or waits for that object's thread.
LEMMA NextTask ==
    ASSUME NEW own, NEW roots, Owners(own, roots), NEW stopped, NEW r, NEW S,
           NEW q, Listed(roots, S, q), Dutiful(own, roots, stopped, r, q),
           NEW t \in DOMAIN roots, q[t] # <<>>, Head(q[t]).do # "join"
    PROVE  /\ \/ /\ Head(q[t]) \in roots[t]
                 /\ \A d \in DOMAIN own : Head(q[t]).holder # Member(d)
              \/ \E d \in DOMAIN own :
                    Head(q[t]) \in Duties(own, d) /\ ~Stands(stopped, r, d)
           /\ Head(q[t]).target \in DOMAIN own
           /\ \A z \in Range(q[t]) :
                \/ z \in roots[t]
                \/ \E d \in DOMAIN own : z \in Duties(own, d) /\ ~Stands(stopped, r, d)
<1> USE DEF Listed
<1>1. Head(q[t]) \in Range(q[t])
  BY TailTasks
<1>2. \A d : Head(q[t]) # Join(d)
  BY TaskFields
<1>3. \A z \in Range(q[t]) :
        \/ z \in roots[t]
        \/ \E d \in DOMAIN own : z \in Duties(own, d) /\ ~Stands(stopped, r, d)
  BY <1>2 DEF Dutiful, Stands
<1>4. ASSUME Head(q[t]) \in roots[t]
      PROVE  /\ \A d \in DOMAIN own : Head(q[t]).holder # Member(d)
             /\ Head(q[t]).target \in DOMAIN own
  BY <1>4, TaskFields DEF Owners
<1>5. ASSUME NEW d \in DOMAIN own, Head(q[t]) \in Duties(own, d)
      PROVE  Head(q[t]).target \in DOMAIN own
  <2>1. own[d] \in Seq(DOMAIN own)
    BY DEF Owners
  <2>2. Parts(own, d) \subseteq DOMAIN own
    BY <2>1, RangeOfSeq DEF Parts
  <2> QED BY <1>5, <2>2, TaskFields DEF Duties
<1> QED BY <1>1, <1>3, <1>4, <1>5

\* Dropping a reference, destroying what it was the last of, keeps the ownership.
LEMMA ReleaseKeeps ==
    ASSUME NEW own, NEW roots, Owners(own, roots), NEW stopped, NEW leaving, NEW S,
           \A d \in DOMAIN own : Duties(own, d) \subseteq S,
           NEW r, Referred(own, r), NEW a,
           NEW q, Listed(roots, S, q),
           Ownership(own, roots, stopped, leaving, r, a, q),
           NEW t \in DOMAIN roots, q[t] # <<>>, Head(q[t]).do = "release",
           NEW r1, NEW q1, Drops(own, t, r, q, r1, q1)
    PROVE  /\ Ownership(own, roots, stopped, leaving, r1, a, q1)
           /\ Listed(roots, S, q1) /\ Referred(own, r1)
           /\ Range(q1[t]) \subseteq Range(q[t]) \cup Duties(own, Head(q[t]).target)
           /\ \A u \in DOMAIN roots : u # t => q1[u] = q[u]
<1> USE DEF Listed, Referred
<1> DEFINE left == r[Head(q[t]).target] \ {Head(q[t]).holder}
<1>0. /\ r1 = [r EXCEPT ![Head(q[t]).target] = left]
      /\ q1 = [q EXCEPT ![t] = (IF left = {} THEN Destroy(own, Head(q[t]).target)
                                ELSE <<>>) \o Tail(q[t])]
      /\ left = r[Head(q[t]).target] \ {Head(q[t]).holder}
  BY DEF Drops
<1> HIDE DEF left
<1>1. PICK x : x = Head(q[t])
  OBVIOUS
<1>2. PICK y : y = x.target
  OBVIOUS
<1>3. PICK h : h = x.holder
  OBVIOUS
<1>4. /\ Tail(q[t]) \in Seq(S) /\ x \in Range(q[t])
      /\ Range(q[t]) = {x} \cup Range(Tail(q[t]))
  BY <1>1, TailTasks
<1>5. /\ y \in DOMAIN own
      /\ \A z \in Range(q[t]) :
            \/ z \in roots[t]
            \/ \E d \in DOMAIN own : z \in Duties(own, d) /\ ~Stands(stopped, r, d)
      /\ \A d \in DOMAIN own : h = Member(d) => ~Stands(stopped, r, d)
  <2>1. Dutiful(own, roots, stopped, r, q) /\ x.do = "release"
    BY <1>1 DEF Ownership
  <2>2. \/ \A d \in DOMAIN own : h # Member(d)
        \/ \E d \in DOMAIN own : x \in Duties(own, d) /\ ~Stands(stopped, r, d)
    BY <1>1, <1>3, <2>1, NextTask
  <2>3. ASSUME NEW d \in DOMAIN own, x \in Duties(own, d)
        PROVE  h = Member(d)
    BY <1>3, <2>1, <2>3, TaskFields DEF Duties
  <2>4. ASSUME NEW d \in DOMAIN own, h = Member(d)
        PROVE  ~Stands(stopped, r, d)
    BY <2>2, <2>3, <2>4, MemberIs
  <2> QED BY <1>1, <1>2, <2>1, <2>4, NextTask
<1>6. /\ r1 = [o \in DOMAIN own |-> r1[o]]
      /\ \A o \in DOMAIN own : r1[o] = IF o = y THEN left ELSE r[o]
      /\ left = r[y] \ {h}
  BY <1>0, <1>1, <1>2, <1>3, <1>5
<1> DEFINE D == IF left = {} THEN Destroy(own, y) ELSE <<>>
<1>7. /\ D \in Seq(S) /\ Range(D) \subseteq Duties(own, y)
      /\ left = {} => /\ Free(y) \in Range(D)
                      /\ \A o \in Parts(own, y) : Release(Member(y), o) \in Range(D)
                      /\ y \in Joined => D # <<>> /\ Head(D) = Join(y)
      /\ left # {} => Range(D) = {}
  <2>1. CASE left = {}
    BY <1>5, <2>1, DestroyIs DEF Owners
  <2>2. CASE left # {}
    <3>1. D = <<>>
      BY <2>2
    <3>2. D \in Seq(S) /\ Range(D) = {}
      BY <3>1, NoTask, EmptySeq
    <3> QED BY <2>2, <3>2
  <2> QED BY <2>1, <2>2
<1>8. q1 = [q EXCEPT ![t] = D \o Tail(q[t])]
  BY <1>0, <1>1, <1>2
<1> HIDE DEF D
<1>9. /\ D \o Tail(q[t]) \in Seq(S)
      /\ Range(D \o Tail(q[t])) = Range(D) \cup Range(Tail(q[t]))
      /\ D # <<>> => Head(D \o Tail(q[t])) = Head(D)
  <2>1. PICK v \in Seq(S) : v = Tail(q[t])
    BY <1>4
  <2>2. PICK e \in Seq(S) : e = D
    BY <1>7
  <2>3. /\ e \o v \in Seq(S)
        /\ Range(e \o v) = Range(e) \cup Range(v)
        /\ e # <<>> => e \o v # <<>> /\ Head(e \o v) = Head(e)
    BY ConcatTasks
  <2> QED BY <2>1, <2>2, <2>3
<1>10. /\ q1 \in [DOMAIN roots -> Seq(S)]
       /\ Range(q1[t]) = Range(D) \cup Range(Tail(q[t]))
       /\ D # <<>> => Head(q1[t]) = Head(D)
       /\ \A u \in DOMAIN roots : u # t => q1[u] = q[u]
  <2>1. q1[t] = D \o Tail(q[t])
    BY <1>8
  <2> QED BY <1>8, <1>9, <2>1
<1>11. \A u \in DOMAIN roots : \A z \in Range(q[u]) : z # x => z \in Range(q1[u])
  BY <1>4, <1>10
<1>12. Standing(own, stopped, r1, a)
  <2> SUFFICES ASSUME NEW d \in DOMAIN own, Stands(stopped, r1, d)
               PROVE  d \in a /\ \A o \in Parts(own, d) : Member(d) \in r1[o]
    BY DEF Standing
  <2>1. Stands(stopped, r, d)
    BY <1>6 DEF Stands
  <2>2. d \in a /\ \A o \in Parts(own, d) : Member(d) \in r[o]
    BY <2>1 DEF Ownership, Standing
  <2>3. Parts(own, d) \subseteq DOMAIN own
    BY RangeOfSeq DEF Parts, Owners
  <2> QED BY <1>5, <1>6, <2>1, <2>2, <2>3
<1>13. Dutiful(own, roots, stopped, r1, q1)
  <2> SUFFICES ASSUME NEW u \in DOMAIN roots, NEW z \in Range(q1[u]), z \notin roots[u]
               PROVE  \E d \in DOMAIN own :
                        /\ r1[d] = {}
                        /\ z \in Duties(own, d)
                        /\ d \in Joined \ stopped => Head(q1[u]) = Join(d)
    BY DEF Dutiful
  <2>1. \A d \in DOMAIN own : r[d] = {} => r1[d] = {}
    BY <1>6
  <2>2. CASE u # t
    <3>1. q1[u] = q[u]
      BY <1>10, <2>2
    <3>2. \E d \in DOMAIN own :
            /\ r[d] = {}
            /\ z \in Duties(own, d)
            /\ d \in Joined \ stopped => Head(q[u]) = Join(d)
      BY <3>1, Zenon DEF Ownership, Dutiful
    <3> QED BY <2>1, <3>1, <3>2
  <2>3. CASE u = t /\ z \in Range(q[t])
    BY <1>5, <2>1, <2>3 DEF Stands
  <2>4. CASE u = t /\ z \in Range(D)
    BY <1>5, <1>6, <1>7, <1>10, <2>4, NoTask
  <2> QED BY <1>4, <1>10, <2>2, <2>3, <2>4
<1>14. Accounted(own, roots, leaving, r1, a, q1)
  <2>1. ASSUME NEW o \in DOMAIN own, NEW g \in r1[o], NEW u \in DOMAIN roots,
               Release(g, o) \in Range(q[u])
        PROVE  Release(g, o) \in Range(q1[u])
    <3>1. CASE o = y
      <4>1. g # h
        BY <1>6, <2>1, <3>1
      <4> QED BY <1>3, <1>11, <2>1, <4>1, TaskFields
    <3>2. CASE o # y
      BY <1>2, <1>11, <2>1, <3>2, TaskFields
    <3> QED BY <3>1, <3>2
  <2>2. ASSUME NEW o \in DOMAIN own, NEW g \in r1[o], NEW d \in DOMAIN own,
               g = Member(d), o \in Parts(own, d),
               r[d] # {} \/ Release(g, o) \in Todo(roots, q)
        PROVE  r1[d] # {} \/ Release(g, o) \in Todo(roots, q1)
    <3>1. CASE Release(g, o) \in Todo(roots, q)
      <4>1. PICK u \in DOMAIN roots : Release(g, o) \in Range(q[u])
        BY <3>1 DEF Todo
      <4>2. Release(g, o) \in Range(q1[u])
        BY <2>1, <4>1
      <4> QED BY <4>2 DEF Todo
    <3>2. CASE r[d] # {} /\ r1[d] = {}
      <4>1. d = y /\ left = {}
        BY <1>6, <3>2
      <4> QED BY <1>7, <1>10, <2>2, <4>1 DEF Todo
    <3> QED BY <2>2, <3>1, <3>2
  <2>3. ASSUME NEW o \in DOMAIN own, NEW g \in r1[o]
        PROVE  g \in r[o]
    BY <1>6, <2>3
  <2>4. ASSUME NEW o \in a \cap DOMAIN own, r1[o] = {}
        PROVE  Free(o) \in Todo(roots, q1)
    <3>1. CASE r[o] = {}
      <4>1. Free(o) \in Todo(roots, q) /\ Free(o) # x
        BY <1>1, <3>1, TaskFields DEF Ownership, Accounted
      <4> QED BY <1>11, <4>1 DEF Todo
    <3>2. CASE r[o] # {}
      <4>1. o = y /\ left = {}
        BY <1>0, <1>1, <1>2, <1>5, <1>6, <2>4, <3>2
      <4> QED BY <1>7, <1>10, <4>1 DEF Todo
    <3> QED BY <3>1, <3>2
  <2>5. ASSUME NEW o \in DOMAIN own, NEW g \in r1[o]
        PROVE  \/ \E d \in DOMAIN own :
                    /\ g = Member(d)
                    /\ o \in Parts(own, d)
                    /\ r1[d] # {} \/ Release(g, o) \in Todo(roots, q1)
               \/ \E u \in DOMAIN roots :
                    /\ Release(g, o) \in roots[u]
                    /\ u \in leaving => Release(g, o) \in Range(q1[u])
    <3>1. g \in r[o]
      BY <2>3, <2>5
    <3>2. CASE \E d \in DOMAIN own :
                    /\ g = Member(d)
                    /\ o \in Parts(own, d)
                    /\ r[d] # {} \/ Release(g, o) \in Todo(roots, q)
      BY <2>2, <2>5, <3>2
    <3>3. CASE \E u \in DOMAIN roots :
                    /\ Release(g, o) \in roots[u]
                    /\ u \in leaving => Release(g, o) \in Range(q[u])
      BY <2>1, <2>5, <3>3
    <3> QED BY <3>1, <3>2, <3>3 DEF Ownership, Accounted
  <2> QED BY <2>4, <2>5, Zenon DEF Accounted
<1> QED BY <1>1, <1>2, <1>4, <1>6, <1>7, <1>10, <1>12, <1>13, <1>14 DEF Ownership

\* So does joining a thread that has ended.
LEMMA JoinKeeps ==
    ASSUME NEW own, NEW roots, Owners(own, roots), NEW stopped, NEW leaving, NEW S,
           NEW r, NEW a, NEW q, Listed(roots, S, q),
           Ownership(own, roots, stopped, leaving, r, a, q),
           NEW t \in DOMAIN roots, q[t] # <<>>, Head(q[t]).do = "join",
           Head(q[t]).target \in stopped,
           NEW q1, Does(t, q, q1)
    PROVE  /\ Ownership(own, roots, stopped, leaving, r, a, q1)
           /\ Listed(roots, S, q1)
           /\ Range(q1[t]) \subseteq Range(q[t])
           /\ \A u \in DOMAIN roots : u # t => q1[u] = q[u]
<1> USE DEF Listed, Does
<1>1. PICK x : x = Head(q[t])
  OBVIOUS
<1>2. Tail(q[t]) \in Seq(S) /\ Range(q[t]) = {x} \cup Range(Tail(q[t]))
  BY <1>1, TailTasks
<1>3. /\ q1 \in [DOMAIN roots -> Seq(S)] /\ q1[t] = Tail(q[t])
      /\ \A u \in DOMAIN roots : u # t => q1[u] = q[u]
      /\ \A u \in DOMAIN roots : Range(q1[u]) \subseteq Range(q[u])
      /\ \A u \in DOMAIN roots : \A z \in Range(q[u]) : z # x => z \in Range(q1[u])
  BY <1>2
<1>4. Dutiful(own, roots, stopped, r, q1)
  <2> SUFFICES ASSUME NEW u \in DOMAIN roots, NEW z \in Range(q1[u]), z \notin roots[u]
               PROVE  \E d \in DOMAIN own :
                        /\ r[d] = {}
                        /\ z \in Duties(own, d)
                        /\ d \in Joined \ stopped => Head(q1[u]) = Join(d)
    BY DEF Dutiful
  <2>1. PICK d \in DOMAIN own :
            /\ r[d] = {}
            /\ z \in Duties(own, d)
            /\ d \in Joined \ stopped => Head(q[u]) = Join(d)
    BY <1>3 DEF Ownership, Dutiful
  <2>2. u = t => d \notin Joined \ stopped
    BY <1>1, <2>1, TaskFields
  <2> QED BY <1>3, <2>1, <2>2
<1>5. Accounted(own, roots, leaving, r, a, q1)
  <2>1. \A g, o : /\ Release(g, o) # x
                  /\ Free(o) # x
    BY <1>1, TaskFields
  <2>2. \A u \in DOMAIN roots : \A g, o :
            /\ Release(g, o) \in Range(q[u]) => Release(g, o) \in Range(q1[u])
            /\ Free(o) \in Range(q[u]) => Free(o) \in Range(q1[u])
    BY <1>3, <2>1
  <2>3. \A g, o : /\ Release(g, o) \in Todo(roots, q) => Release(g, o) \in Todo(roots, q1)
                  /\ Free(o) \in Todo(roots, q) => Free(o) \in Todo(roots, q1)
    BY <2>2 DEF Todo
  <2> QED BY <2>2, <2>3, Zenon DEF Ownership, Accounted
<1> QED BY <1>3, <1>4, <1>5 DEF Ownership

\* And the end of an object: nobody refers to it, and its thread has ended.
LEMMA FreeKeeps ==
    ASSUME NEW own, NEW roots, Owners(own, roots), NEW stopped, NEW leaving, NEW S,
           NEW r, NEW a, NEW q, Listed(roots, S, q),
           Ownership(own, roots, stopped, leaving, r, a, q),
           NEW t \in DOMAIN roots, q[t] # <<>>, Head(q[t]).do = "free",
           NEW q1, Does(t, q, q1)
    PROVE  /\ Ownership(own, roots, stopped, leaving, r, a \ {Head(q[t]).target}, q1)
           /\ Listed(roots, S, q1)
           /\ Range(q1[t]) \subseteq Range(q[t])
           /\ \A u \in DOMAIN roots : u # t => q1[u] = q[u]
<1> USE DEF Listed, Does
<1>0. PICK a1 : a1 = a \ {Head(q[t]).target}
  OBVIOUS
<1>1. PICK x : x = Head(q[t])
  OBVIOUS
<1>2. /\ Tail(q[t]) \in Seq(S) /\ x \in Range(q[t])
      /\ Range(q[t]) = {x} \cup Range(Tail(q[t]))
  BY <1>1, TailTasks
<1>3. /\ q1 \in [DOMAIN roots -> Seq(S)] /\ q1[t] = Tail(q[t])
      /\ \A u \in DOMAIN roots : u # t => q1[u] = q[u]
      /\ \A u \in DOMAIN roots : Range(q1[u]) \subseteq Range(q[u])
      /\ \A u \in DOMAIN roots : \A z \in Range(q[u]) : z # x => z \in Range(q1[u])
  BY <1>2
<1>4. /\ \A z \in Range(q[t]) :
            \/ z \in roots[t]
            \/ \E d \in DOMAIN own : z \in Duties(own, d) /\ ~Stands(stopped, r, d)
      /\ \E d \in DOMAIN own : x = Free(d) /\ ~Stands(stopped, r, d)
  <2>1. Dutiful(own, roots, stopped, r, q) /\ x.do = "free"
    BY <1>1 DEF Ownership
  <2>2. x \notin roots[t]
    BY <2>1, TaskFields DEF Owners
  <2>3. \A z \in Range(q[t]) :
            \/ z \in roots[t]
            \/ \E d \in DOMAIN own : z \in Duties(own, d) /\ ~Stands(stopped, r, d)
    BY <1>1, <2>1, NextTask
  <2>4. PICK d \in DOMAIN own : x \in Duties(own, d) /\ ~Stands(stopped, r, d)
    BY <1>2, <2>2, <2>3
  <2>5. x = Free(d)
    BY <2>1, <2>4, TaskFields DEF Duties
  <2> QED BY <2>3, <2>4, <2>5
<1>5. Standing(own, stopped, r, a1)
  BY <1>0, <1>1, <1>4, TaskFields DEF Ownership, Standing
<1>6. Dutiful(own, roots, stopped, r, q1)
  <2> SUFFICES ASSUME NEW u \in DOMAIN roots, NEW z \in Range(q1[u]), z \notin roots[u]
               PROVE  \E d \in DOMAIN own :
                        /\ r[d] = {}
                        /\ z \in Duties(own, d)
                        /\ d \in Joined \ stopped => Head(q1[u]) = Join(d)
    BY DEF Dutiful
  <2>1. CASE u = t
    BY <1>3, <1>4, <2>1 DEF Stands
  <2>2. CASE u # t
    BY <1>3, <2>2 DEF Ownership, Dutiful
  <2> QED BY <2>1, <2>2
<1>7. Accounted(own, roots, leaving, r, a1, q1)
  <2>1. \A g, o : Release(g, o) # x
    BY <1>1, TaskFields
  <2>2. \A u \in DOMAIN roots : \A g, o :
            Release(g, o) \in Range(q[u]) => Release(g, o) \in Range(q1[u])
    BY <1>3, <2>1
  <2>3. \A g, o : Release(g, o) \in Todo(roots, q) => Release(g, o) \in Todo(roots, q1)
    BY <2>2 DEF Todo
  <2>4. ASSUME NEW o \in a1 \cap DOMAIN own, r[o] = {}
        PROVE  Free(o) \in Todo(roots, q1)
    <3>1. o \in a /\ Free(o) # x
      BY <1>0, <1>1, <2>4, TaskFields
    <3>2. Free(o) \in Todo(roots, q)
      BY <2>4, <3>1 DEF Ownership, Accounted
    <3> QED BY <1>3, <3>1, <3>2 DEF Todo
  <2> QED BY <2>2, <2>3, <2>4, Zenon DEF Ownership, Accounted
<1> QED BY <1>0, <1>3, <1>5, <1>6, <1>7 DEF Ownership

\* A thread's own reference stays until that thread drops it.
LEMMA RootStays ==
    ASSUME NEW own, NEW roots, Owners(own, roots), NEW stopped, NEW leaving, NEW r, NEW a, NEW S,
           NEW q, Listed(roots, S, q),
           Ownership(own, roots, stopped, leaving, r, a, q),
           NEW t \in DOMAIN roots, q[t] # <<>>, Head(q[t]).do = "release",
           NEW u \in DOMAIN roots, NEW h, NEW o \in DOMAIN own,
           Release(h, o) \in roots[u] \ roots[t],
           h \in r[o], Referred(own, r), NEW r1, NEW q1, Drops(own, t, r, q, r1, q1)
    PROVE  h \in r1[o]
<1>1. PICK x : x = Head(q[t])
  OBVIOUS
<1>2. /\ \/ x \in roots[t]
         \/ \E d \in DOMAIN own : x \in Duties(own, d)
      /\ x.target \in DOMAIN own /\ x.do = "release"
  BY <1>1, NextTask DEF Ownership
<1>3. \A d \in DOMAIN own : h # Member(d)
  <2>1. PICK g, e : Release(h, o) = Release(g, e) /\ \A d \in DOMAIN own : g # Member(d)
    BY DEF Owners
  <2>2. h = g
    BY <2>1, TaskFields
  <2> QED BY <2>1, <2>2
<1>4. ~(x.holder = h /\ x.target = o)
  <2>1. CASE x \in roots[t]
    <3>1. PICK g, e : x = Release(g, e)
      BY <2>1 DEF Owners
    <3>2. x.holder = g /\ x.target = e
      BY <3>1, TaskFields
    <3> QED BY <2>1, <3>1, <3>2
  <2>2. ASSUME NEW d \in DOMAIN own, x \in Duties(own, d)
        PROVE  x.holder # h
    <3>1. x.holder = Member(d)
      BY <1>2, <2>2, TaskFields DEF Duties
    <3> QED BY <1>3, <3>1
  <2> QED BY <1>2, <2>1, <2>2
<1> QED BY <1>1, <1>2, <1>4 DEF Drops, Referred

\* So does what does not touch the references: threads end, or start on what is
\* referred to.
LEMMA ThreadsKeep ==
    ASSUME NEW own, NEW roots, NEW stopped, NEW leaving, NEW r, NEW a, NEW q,
           Ownership(own, roots, stopped, leaving, r, a, q),
           NEW stopped1, NEW leaving1, leaving1 \subseteq leaving,
           \A d \in DOMAIN own : d \in stopped /\ d \notin stopped1 => r[d] # {}
    PROVE  Ownership(own, roots, stopped1, leaving1, r, a, q)
<1>1. \A d \in DOMAIN own : Stands(stopped1, r, d) => Stands(stopped, r, d)
  BY DEF Stands
<1>2. Standing(own, stopped1, r, a)
  BY <1>1 DEF Ownership, Standing
<1>3. Dutiful(own, roots, stopped1, r, q)
  BY DEF Ownership, Dutiful
<1>4. Accounted(own, roots, leaving1, r, a, q)
  BY Zenon DEF Ownership, Accounted
<1> QED BY <1>2, <1>3, <1>4 DEF Ownership

\* And a thread that begins to drop its own references.
LEMMA LeavingKeeps ==
    ASSUME NEW own, NEW roots, NEW stopped, NEW leaving, NEW r, NEW a, NEW S,
           NEW q, Listed(roots, S, q),
           Ownership(own, roots, stopped, leaving, r, a, q),
           NEW t \in DOMAIN roots, q[t] = <<>>, NEW s \in Seq(S), Range(s) = roots[t],
           NEW q1, q1 = [q EXCEPT ![t] = s]
    PROVE  /\ Ownership(own, roots, stopped, leaving \cup {t}, r, a, q1)
           /\ Listed(roots, S, q1)
<1> USE DEF Listed
<1>1. /\ q1 \in [DOMAIN roots -> Seq(S)] /\ Range(q1[t]) = roots[t]
      /\ \A u \in DOMAIN roots : u # t => q1[u] = q[u]
  BY DEF Range
<1>2. \A u \in DOMAIN roots : Range(q[u]) \subseteq Range(q1[u])
  BY <1>1, NoTask
<1>3. Dutiful(own, roots, stopped, r, q1)
  <2> SUFFICES ASSUME NEW u \in DOMAIN roots, NEW z \in Range(q1[u]), z \notin roots[u]
               PROVE  \E d \in DOMAIN own :
                        /\ r[d] = {}
                        /\ z \in Duties(own, d)
                        /\ d \in Joined \ stopped => Head(q1[u]) = Join(d)
    BY DEF Dutiful
  <2>1. u # t
    BY <1>1
  <2> QED BY <1>1, <2>1 DEF Ownership, Dutiful
<1>4. Accounted(own, roots, leaving \cup {t}, r, a, q1)
  <2>1. Todo(roots, q) \subseteq Todo(roots, q1)
    BY <1>2 DEF Todo
  <2>2. ASSUME NEW u \in DOMAIN roots, NEW z \in roots[u],
               u \in leaving => z \in Range(q[u])
        PROVE  u \in leaving \cup {t} => z \in Range(q1[u])
    BY <1>1, <1>2, <2>2
  <2>3. ASSUME NEW o \in DOMAIN own, NEW g \in r[o]
        PROVE  \/ \E d \in DOMAIN own :
                    /\ g = Member(d)
                    /\ o \in Parts(own, d)
                    /\ r[d] # {} \/ Release(g, o) \in Todo(roots, q1)
               \/ \E u \in DOMAIN roots :
                    /\ Release(g, o) \in roots[u]
                    /\ u \in leaving \cup {t} => Release(g, o) \in Range(q1[u])
    <3>1. CASE \E d \in DOMAIN own :
                    /\ g = Member(d)
                    /\ o \in Parts(own, d)
                    /\ r[d] # {} \/ Release(g, o) \in Todo(roots, q)
      BY <2>1, <3>1
    <3>2. CASE \E u \in DOMAIN roots :
                    /\ Release(g, o) \in roots[u]
                    /\ u \in leaving => Release(g, o) \in Range(q[u])
      BY <2>2, <3>2
    <3> QED BY <2>3, <3>1, <3>2 DEF Ownership, Accounted
  <2>4. \A o \in a \cap DOMAIN own : r[o] = {} => Free(o) \in Todo(roots, q1)
    BY <2>1 DEF Ownership, Accounted
  <2> QED BY <2>3, <2>4, Zenon DEF Accounted
<1> QED BY <1>1, <1>3, <1>4 DEF Ownership, Standing

\* Objects that have just been created and connected.
LEMMA FreshOwnership ==
    ASSUME NEW own, NEW roots, NEW stopped, NEW r, NEW q,
           \A t \in DOMAIN roots : q[t] = <<>>,
           \A o \in DOMAIN own : r[o] # {},
           \A d \in DOMAIN own : \A o \in Parts(own, d) : Member(d) \in r[o],
           \A o \in DOMAIN own : \A h \in r[o] :
                \/ \E d \in DOMAIN own : h = Member(d) /\ o \in Parts(own, d)
                \/ \E t \in DOMAIN roots : Release(h, o) \in roots[t]
    PROVE  Ownership(own, roots, stopped, {}, r, DOMAIN own, q)
<1>1. Standing(own, stopped, r, DOMAIN own)
  BY DEF Standing
<1>2. Dutiful(own, roots, stopped, r, q)
  BY NoTask DEF Dutiful
<1>3. Accounted(own, roots, {}, r, DOMAIN own, q)
  BY Zenon DEF Accounted
<1> QED BY <1>1, <1>2, <1>3 DEF Ownership

\* An object whose owners are gone is gone, once nothing is left to do about it.
LEMMA IsGone ==
    ASSUME NEW own, NEW roots, NEW stopped, NEW leaving, NEW r, NEW a, NEW q,
           Ownership(own, roots, stopped, leaving, r, a, q),
           NEW o \in DOMAIN own,
           \A d \in DOMAIN own : o \in Parts(own, d) => r[d] = {},
           \A t \in DOMAIN roots : \A h : Release(h, o) \in roots[t] => t \in leaving,
           \A t \in DOMAIN roots : \A x \in Range(q[t]) : x.target # o
    PROVE  r[o] = {} /\ o \notin a /\ (o \in Joined => o \in stopped)
<1>1. /\ \A h : \A t \in DOMAIN roots : Release(h, o) \notin Range(q[t])
      /\ \A h : Release(h, o) \notin Todo(roots, q)
      /\ Free(o) \notin Todo(roots, q)
  BY TaskFields DEF Todo
<1>2. r[o] = {}
  <2> SUFFICES ASSUME NEW h \in r[o]
               PROVE  FALSE
    OBVIOUS
  <2>1. \/ \E d \in DOMAIN own :
            /\ h = Member(d)
            /\ o \in Parts(own, d)
            /\ r[d] # {} \/ Release(h, o) \in Todo(roots, q)
        \/ \E t \in DOMAIN roots :
            /\ Release(h, o) \in roots[t]
            /\ t \in leaving => Release(h, o) \in Range(q[t])
    BY Zenon DEF Ownership, Accounted
  <2> QED BY <1>1, <2>1
<1>3. o \notin a
  BY <1>1, <1>2 DEF Ownership, Accounted
<1> QED BY <1>2, <1>3 DEF Ownership, Standing, Stands
-----------------------------------------------------------------------------
(***************************************************************************)
(* The pipeline of the programs is one of those that StreamPipelineProofs  *)
(* is about.                                                               *)
(***************************************************************************)
Shows == [e \in Wired |-> IF e = "monitor" THEN <<"StreamSink">> ELSE <<>>]

PP == INSTANCE StreamPipelineProofs WITH
    Elements <- Wired, Root <- "tb", Buffers <- {"tb"}, Visitors <- Shows,
    Processors <- Connected, MaxBlocks <- NumBlocks,
    ClientEnds <- {"success", "cancelled", "error"}, Failures <- {}

\* What follows the last of a sequence, and what follows another.
LEMMA AfterLast ==
    ASSUME NEW S, NEW s \in Seq(S), NEW i \in Nat, i = Len(s)
    PROVE  SubSeq(s, i + 1, i) = <<>>
<1>1. Len(SubSeq(s, i + 1, i)) = 0 /\ SubSeq(s, i + 1, i) \in Seq(S)
  BY SubSeqProperties
<1> QED BY <1>1, EmptySeq

\* The second of two references that main drops one after the other.
LEMMA AfterOther ==
    ASSUME NEW S, NEW s \in Seq(S), NEW i \in 1 .. Len(s) - 1
    PROVE  SubSeq(s, i + 1, i + 1) = <<s[i + 1]>>
<1>1. PICK m \in Int : m = i + 1 /\ m >= 1 /\ m <= Len(s)
  OBVIOUS
<1>2. SubSeq(s, m, m) = [k \in 1 .. 1 |-> s[m]]
  BY <1>1
<1>3. <<s[m]>> = [k \in 1 .. 1 |-> s[m]]
  OBVIOUS
<1> QED BY <1>1, <1>2, <1>3

\* The chain, with and without the accumulator.
LEMMA ChainIs ==
    /\ WithAccumulator =>
        /\ Wired = {"tb", "accum", "monitor"}
        /\ Connected["tb"] = <<"accum">> /\ Connected["accum"] = <<"monitor">>
        /\ Connected["monitor"] = <<>>
    /\ ~WithAccumulator =>
        /\ Wired = {"tb", "monitor"}
        /\ Connected["tb"] = <<"monitor">> /\ Connected["monitor"] = <<>>
    /\ Connected = [e \in Wired |-> Connected[e]]
<1> DEFINE At(e) == CHOOSE i \in DOMAIN Chain : Chain[i] = e
           After(e) == SubSeq(Chain, At(e) + 1, IF At(e) < Len(Chain) THEN At(e) + 1 ELSE At(e))
<1>1. Connected = [e \in Wired |-> After(e)]
  BY DEF Connected
<1>2. CASE WithAccumulator
  <2>1. Chain = <<"tb", "accum", "monitor">>
    BY <1>2 DEF Chain
  <2>2. Chain \in Seq({"tb", "accum", "monitor"}) /\ Len(Chain) = 3 /\ DOMAIN Chain = 1 .. 3
        /\ Chain[1] = "tb" /\ Chain[2] = "accum" /\ Chain[3] = "monitor"
    BY <2>1
  <2>3. Wired = {"tb", "accum", "monitor"}
    BY <2>2 DEF Wired
  <2>4. At("tb") = 1 /\ At("accum") = 2 /\ At("monitor") = 3
    BY <2>2
  <2> HIDE DEF At
  <2>5. /\ After("tb") = SubSeq(Chain, 1 + 1, 1 + 1)
        /\ After("accum") = SubSeq(Chain, 2 + 1, 2 + 1)
        /\ After("monitor") = SubSeq(Chain, 3 + 1, 3)
    <3>1. 1 < Len(Chain) /\ 2 < Len(Chain) /\ ~(3 < Len(Chain))
      BY <2>2
    <3> QED BY <2>4, <3>1
  <2>6. /\ SubSeq(Chain, 1 + 1, 1 + 1) = <<Chain[1 + 1]>>
        /\ SubSeq(Chain, 2 + 1, 2 + 1) = <<Chain[2 + 1]>>
    <3>1. 1 \in 1 .. Len(Chain) - 1 /\ 2 \in 1 .. Len(Chain) - 1
      BY <2>2
    <3>2. PICK S : Chain \in Seq(S)
      BY <2>2
    <3>3. SubSeq(Chain, 1 + 1, 1 + 1) = <<Chain[1 + 1]>>
      BY <3>1, <3>2, AfterOther
    <3>4. SubSeq(Chain, 2 + 1, 2 + 1) = <<Chain[2 + 1]>>
      BY <3>1, <3>2, AfterOther
    <3> QED BY <3>3, <3>4
  <2>7. SubSeq(Chain, 3 + 1, 3) = <<>>
    BY <2>2, AfterLast
  <2> HIDE DEF After
  <2> QED BY <1>1, <1>2, <2>2, <2>3, <2>5, <2>6, <2>7
<1>3. CASE ~WithAccumulator
  <2>1. Chain = <<"tb", "monitor">>
    BY <1>3 DEF Chain
  <2>2. Chain \in Seq({"tb", "monitor"}) /\ Len(Chain) = 2 /\ DOMAIN Chain = 1 .. 2
        /\ Chain[1] = "tb" /\ Chain[2] = "monitor"
    BY <2>1
  <2>3. Wired = {"tb", "monitor"}
    BY <2>2 DEF Wired
  <2>4. At("tb") = 1 /\ At("monitor") = 2
    BY <2>2
  <2> HIDE DEF At
  <2>5. After("tb") = SubSeq(Chain, 1 + 1, 1 + 1) /\ After("monitor") = SubSeq(Chain, 2 + 1, 2)
    BY <2>2, <2>4
  <2>6. SubSeq(Chain, 1 + 1, 1 + 1) = <<Chain[1 + 1]>>
    BY <2>2, AfterOther
  <2>7. SubSeq(Chain, 2 + 1, 2) = <<>>
    BY <2>2, AfterLast
  <2> HIDE DEF After
  <2> QED BY <1>1, <1>3, <2>2, <2>3, <2>5, <2>6, <2>7
<1> QED BY <1>1, <1>2, <1>3, ExampleAssumption DEF ExampleAssumption
\* The chain is a tree, of elements that have one visitor at most.
LEMMA PipelineIsTree == PP!PipelineAssumption
<1>1. IsFiniteSet(Wired)
  <2>1. IsFiniteSet({"tb", "accum", "monitor"})
    <3>1. IsFiniteSet({"monitor"})
      BY FS_Singleton
    <3>2. IsFiniteSet({"monitor"} \cup {"accum"})
      BY <3>1, FS_AddElement
    <3>3. IsFiniteSet(({"monitor"} \cup {"accum"}) \cup {"tb"})
      BY <3>2, FS_AddElement
    <3>4. {"tb", "accum", "monitor"} = ({"monitor"} \cup {"accum"}) \cup {"tb"}
      OBVIOUS
    <3> QED BY <3>3, <3>4
  <2>2. Wired \subseteq {"tb", "accum", "monitor"}
    BY ChainIs, ExampleAssumption DEF ExampleAssumption
  <2> QED BY <2>1, <2>2, FS_Subset
<1>2. /\ "tb" \in Wired /\ {"tb"} \subseteq Wired
      /\ NumBlocks \in Nat /\ Capacity \in Nat \ {0}
      /\ {"success", "cancelled", "error"} \subseteq PP!Statuses /\ {} \subseteq PP!Statuses
  BY ChainIs, ExampleAssumption DEF ExampleAssumption, PP!Statuses
<1>3. /\ Shows \in [Wired -> Seq(PP!Kinds)]
      /\ \A e \in Wired : \A i, j \in DOMAIN Shows[e] : Shows[e][i] = Shows[e][j] => i = j
  <2>1. ASSUME NEW e \in Wired
        PROVE  /\ Shows[e] \in Seq(PP!Kinds)
               /\ \A i, j \in DOMAIN Shows[e] : Shows[e][i] = Shows[e][j] => i = j
    <3>1. CASE e = "monitor"
      <4>1. Shows[e] = <<"StreamSink">>
        BY <3>1 DEF Shows
      <4>2. <<"StreamSink">> \in Seq(PP!Kinds) /\ DOMAIN <<"StreamSink">> = {1}
        BY DEF PP!Kinds
      <4> QED BY <4>1, <4>2
    <3>2. CASE e # "monitor"
      <4>1. Shows[e] = <<>>
        BY <3>2 DEF Shows
      <4>2. <<>> \in Seq(PP!Kinds) /\ DOMAIN <<>> = {}
        OBVIOUS
      <4> QED BY <4>1, <4>2
    <3> QED BY <3>1, <3>2
  <2> QED BY <2>1 DEF Shows
<1>4. /\ Connected \in [Wired -> Seq(Wired)]
      /\ \A e \in Wired : "tb" \notin {Connected[e][i] : i \in DOMAIN Connected[e]}
      /\ \A d, e \in Wired : \A i \in DOMAIN Connected[d], j \in DOMAIN Connected[e] :
            Connected[d][i] = Connected[e][j] => d = e /\ i = j
  <2>1. CASE WithAccumulator
    <3>1. /\ Wired = {"tb", "accum", "monitor"} /\ Connected = [e \in Wired |-> Connected[e]]
          /\ Connected["tb"] = <<"accum">> /\ Connected["accum"] = <<"monitor">>
          /\ Connected["monitor"] = <<>>
      BY <2>1, ChainIs
    <3>2. \A e \in Wired : Connected[e] \in Seq(Wired)
      <4>1. <<"accum">> \in Seq(Wired) /\ <<"monitor">> \in Seq(Wired) /\ <<>> \in Seq(Wired)
        BY <3>1
      <4> QED BY <3>1, <4>1
    <3>3. /\ DOMAIN Connected["tb"] = {1} /\ Connected["tb"][1] = "accum"
          /\ DOMAIN Connected["accum"] = {1} /\ Connected["accum"][1] = "monitor"
          /\ DOMAIN Connected["monitor"] = {}
      BY <3>1
    <3> QED BY <3>1, <3>2, <3>3
  <2>2. CASE ~WithAccumulator
    <3>1. /\ Wired = {"tb", "monitor"} /\ Connected = [e \in Wired |-> Connected[e]]
          /\ Connected["tb"] = <<"monitor">> /\ Connected["monitor"] = <<>>
      BY <2>2, ChainIs
    <3>2. \A e \in Wired : Connected[e] \in Seq(Wired)
      <4>1. <<"monitor">> \in Seq(Wired) /\ <<>> \in Seq(Wired)
        BY <3>1
      <4> QED BY <3>1, <4>1
    <3>3. /\ DOMAIN Connected["tb"] = {1} /\ Connected["tb"][1] = "monitor"
          /\ DOMAIN Connected["monitor"] = {}
      BY <3>1
    <3> QED BY <3>1, <3>2, <3>3
  <2> QED BY <2>1, <2>2
<1>5. \A e \in Wired : "tb" \in PP!Path[e]
  <2>1. SUFFICES ASSUME NEW e \in Wired, NEW S \in SUBSET Wired, e \in S, PP!Upward(S)
                 PROVE  "tb" \in S
    BY <1>2 DEF PP!Path
  <2>2. \A d \in Wired : PP!Children(d) \cap S # {} => d \in S
    BY <2>1 DEF PP!Upward
  <2>3. CASE WithAccumulator
    <3>1. Wired = {"tb", "accum", "monitor"}
          /\ Connected["tb"] = <<"accum">> /\ Connected["accum"] = <<"monitor">>
      BY <2>3, ChainIs
    <3>2. PP!Children("tb") = {"accum"} /\ PP!Children("accum") = {"monitor"}
      BY <3>1 DEF PP!Children
    <3> QED BY <2>1, <2>2, <3>1, <3>2
  <2>4. CASE ~WithAccumulator
    <3>1. Wired = {"tb", "monitor"} /\ Connected["tb"] = <<"monitor">>
      BY <2>4, ChainIs
    <3>2. PP!Children("tb") = {"monitor"}
      BY <3>1 DEF PP!Children
    <3> QED BY <2>1, <2>2, <3>1, <3>2
  <2> QED BY <2>3, <2>4
<1>6. \A e \in Wired : "tb" \notin PP!Children(e)
  BY <1>4 DEF PP!Children
<1>7. PP!IsFiniteSet(Wired)
  BY <1>1 DEF IsFiniteSet, PP!IsFiniteSet
<1> QED BY <1>2, <1>3, <1>4, <1>5, <1>6, <1>7

\* Steps of the pipeline's own, and of the thread that pushes into it.
Side ==
    \/ PP!StartThread("tb") \/ PP!Enqueue("tb") \/ PP!EnqueueTimesOut("tb")
    \/ PP!Dequeue("tb") \/ PP!AfterPush("tb")
    \/ \E e \in Wired : PP!ElementStep(e)

\* The two programs run this pipeline.
LEMMA SourcePipe ==
    /\ Pipe!Init <=> PP!Init
    /\ Pipe!TypeOK <=> PP!TypeOK
    /\ Pipe!Pending("tb") <=> PP!Pending("tb")
    /\ Pipe!PushBlock <=> PP!PushBlock
    /\ \A s : Pipe!PushEop(s) <=> PP!PushEop(s)
    /\ Pipe!Wait("monitor") <=> PP!Wait("monitor")
    /\ Pipe!StartThread("tb") \/ Pipe!Enqueue("tb") \/ Pipe!EnqueueTimesOut("tb") <=>
            PP!StartThread("tb") \/ PP!Enqueue("tb") \/ PP!EnqueueTimesOut("tb")
    /\ Pipe!Dequeue("tb") \/ Pipe!AfterPush("tb") <=> PP!Dequeue("tb") \/ PP!AfterPush("tb")
    /\ \A e : Pipe!ElementStep(e) <=> PP!ElementStep(e)
<1> USE DEF Shows, Pipe!Sinks, PP!Sinks, Pipe!With, PP!With, Pipe!Statuses, PP!Statuses,
        Pipe!Blocks, PP!Blocks, Pipe!Empty, PP!Empty, Pipe!Unset, PP!Unset, Pipe!Data, PP!Data,
        Pipe!Eop, PP!Eop, Pipe!IsEop, PP!IsEop, Pipe!Idle, PP!Idle, Pipe!Activations,
        PP!Activations, Pipe!Pending, PP!Pending, Pipe!PushData, PP!PushData,
        Pipe!Push, PP!Push
<1>1. Pipe!Init <=> PP!Init
  BY DEF Pipe!Init, PP!Init
<1>2. Pipe!TypeOK <=> PP!TypeOK
  BY DEF Pipe!TypeOK, PP!TypeOK
<1>3. Pipe!Pending("tb") <=> PP!Pending("tb")
  OBVIOUS
<1>4. Pipe!PushBlock <=> PP!PushBlock
  BY DEF Pipe!PushBlock, PP!PushBlock
<1>5. ASSUME NEW s
      PROVE  Pipe!PushEop(s) <=> PP!PushEop(s)
  BY DEF Pipe!PushEop, PP!PushEop
<1>6. Pipe!Wait("monitor") <=> PP!Wait("monitor")
  BY DEF Pipe!Wait, PP!Wait
<1>7. /\ Pipe!StartThread("tb") <=> PP!StartThread("tb")
      /\ Pipe!Enqueue("tb") <=> PP!Enqueue("tb")
      /\ Pipe!EnqueueTimesOut("tb") <=> PP!EnqueueTimesOut("tb")
  BY DEF Pipe!StartThread, PP!StartThread, Pipe!Enqueue, PP!Enqueue, Pipe!EnqueueTimesOut,
    PP!EnqueueTimesOut, Pipe!Room, PP!Room, Pipe!vars, PP!vars
<1>8. Pipe!Dequeue("tb") <=> PP!Dequeue("tb")
  BY DEF Pipe!Dequeue, PP!Dequeue, Pipe!AfterDequeue, PP!AfterDequeue
<1>9. Pipe!AfterPush("tb") <=> PP!AfterPush("tb")
  BY DEF Pipe!AfterPush, PP!AfterPush, Pipe!LoopEnds, PP!LoopEnds
<1>10. ASSUME NEW e
       PROVE  Pipe!ElementStep(e) <=> PP!ElementStep(e)
  <2>1. Pipe!Enter(e) <=> PP!Enter(e)
    BY DEF Pipe!Enter, PP!Enter, Pipe!Outputs, PP!Outputs, Pipe!Latches, PP!Latches,
      Pipe!Activation, PP!Activation, Pipe!Visiting, PP!Visiting
  <2>2. Pipe!Visit(e) <=> PP!Visit(e)
    BY DEF Pipe!Visit, PP!Visit, Pipe!VisitSink, PP!VisitSink, Pipe!VisitOnEos, PP!VisitOnEos,
      Pipe!Fulfils, PP!Fulfils, Pipe!PromiseValue, PP!PromiseValue, Pipe!CallsFunc,
      PP!CallsFunc, Pipe!Activation, PP!Activation, Pipe!Visiting, PP!Visiting
  <2>3. Pipe!Forward(e) <=> PP!Forward(e)
    BY DEF Pipe!Forward, PP!Forward, Pipe!ChildrenIdle, PP!ChildrenIdle
  <2>4. Pipe!Finish(e) <=> PP!Finish(e)
    BY DEF Pipe!Finish, PP!Finish, Pipe!ChildrenIdle, PP!ChildrenIdle
  <2> QED BY <2>1, <2>2, <2>3, <2>4 DEF Pipe!ElementStep, PP!ElementStep
<1> QED BY <1>1, <1>2, <1>3, <1>4, <1>5, <1>6, <1>7, <1>8, <1>9, <1>10

\* Simple.cpp drives the pipeline that Source.cpp does: the two instances of
\* StreamPipeline have the same definitions, so each step of one is a step of the other.
LEMMA SimplePipe ==
    /\ Simple!Pipe!Init <=> PP!Init
    /\ Simple!Pipe!TypeOK <=> PP!TypeOK
    /\ Simple!Pipe!Pending("tb") <=> PP!Pending("tb")
    /\ Simple!Pipe!PushBlock <=> PP!PushBlock
    /\ \A s : Simple!Pipe!PushEop(s) <=> PP!PushEop(s)
    /\ Simple!Pipe!Wait("monitor") <=> PP!Wait("monitor")
    /\ Simple!Pipe!StartThread("tb") \/ Simple!Pipe!Enqueue("tb")
            \/ Simple!Pipe!EnqueueTimesOut("tb") <=>
            PP!StartThread("tb") \/ PP!Enqueue("tb") \/ PP!EnqueueTimesOut("tb")
    /\ Simple!Pipe!Dequeue("tb") \/ Simple!Pipe!AfterPush("tb") <=>
            PP!Dequeue("tb") \/ PP!AfterPush("tb")
    /\ \A e : Simple!Pipe!ElementStep(e) <=> PP!ElementStep(e)
<1> USE DEF Shows, Simple!Wired, Wired, Simple!Chain, Chain, Simple!Connected, Connected,
        Simple!Pipe!Sinks, PP!Sinks, Simple!Pipe!With, PP!With, Simple!Pipe!Statuses, PP!Statuses,
        Simple!Pipe!Blocks, PP!Blocks, Simple!Pipe!Empty, PP!Empty,
        Simple!Pipe!Unset, PP!Unset, Simple!Pipe!Data, PP!Data,
        Simple!Pipe!Eop, PP!Eop, Simple!Pipe!IsEop, PP!IsEop, Simple!Pipe!Idle, PP!Idle,
        Simple!Pipe!Activations,
        PP!Activations, Simple!Pipe!Pending, PP!Pending, Simple!Pipe!PushData, PP!PushData,
        Simple!Pipe!Push, PP!Push
<1>1. Simple!Pipe!Init <=> PP!Init
  BY DEF Simple!Pipe!Init, PP!Init
<1>2. Simple!Pipe!TypeOK <=> PP!TypeOK
  BY DEF Simple!Pipe!TypeOK, PP!TypeOK
<1>3. Simple!Pipe!Pending("tb") <=> PP!Pending("tb")
  OBVIOUS
<1>4. Simple!Pipe!PushBlock <=> PP!PushBlock
  BY DEF Simple!Pipe!PushBlock, PP!PushBlock
<1>5. ASSUME NEW s
      PROVE  Simple!Pipe!PushEop(s) <=> PP!PushEop(s)
  BY DEF Simple!Pipe!PushEop, PP!PushEop
<1>6. Simple!Pipe!Wait("monitor") <=> PP!Wait("monitor")
  BY DEF Simple!Pipe!Wait, PP!Wait
<1>7. /\ Simple!Pipe!StartThread("tb") <=> PP!StartThread("tb")
      /\ Simple!Pipe!Enqueue("tb") <=> PP!Enqueue("tb")
      /\ Simple!Pipe!EnqueueTimesOut("tb") <=> PP!EnqueueTimesOut("tb")
  BY DEF Simple!Pipe!StartThread, PP!StartThread, Simple!Pipe!Enqueue, PP!Enqueue,
    Simple!Pipe!EnqueueTimesOut,
    PP!EnqueueTimesOut, Simple!Pipe!Room, PP!Room, Simple!Pipe!vars, PP!vars
<1>8. Simple!Pipe!Dequeue("tb") <=> PP!Dequeue("tb")
  BY DEF Simple!Pipe!Dequeue, PP!Dequeue, Simple!Pipe!AfterDequeue, PP!AfterDequeue
<1>9. Simple!Pipe!AfterPush("tb") <=> PP!AfterPush("tb")
  BY DEF Simple!Pipe!AfterPush, PP!AfterPush, Simple!Pipe!LoopEnds, PP!LoopEnds
<1>10. ASSUME NEW e
       PROVE  Simple!Pipe!ElementStep(e) <=> PP!ElementStep(e)
  <2>1. Simple!Pipe!Enter(e) <=> PP!Enter(e)
    BY DEF Simple!Pipe!Enter, PP!Enter, Simple!Pipe!Outputs, PP!Outputs,
      Simple!Pipe!Latches, PP!Latches,
      Simple!Pipe!Activation, PP!Activation, Simple!Pipe!Visiting, PP!Visiting
  <2>2. Simple!Pipe!Visit(e) <=> PP!Visit(e)
    BY DEF Simple!Pipe!Visit, PP!Visit, Simple!Pipe!VisitSink, PP!VisitSink,
      Simple!Pipe!VisitOnEos, PP!VisitOnEos,
      Simple!Pipe!Fulfils, PP!Fulfils, Simple!Pipe!PromiseValue, PP!PromiseValue, Simple!Pipe!CallsFunc,
      PP!CallsFunc, Simple!Pipe!Activation, PP!Activation, Simple!Pipe!Visiting, PP!Visiting
  <2>3. Simple!Pipe!Forward(e) <=> PP!Forward(e)
    BY DEF Simple!Pipe!Forward, PP!Forward, Simple!Pipe!ChildrenIdle, PP!ChildrenIdle
  <2>4. Simple!Pipe!Finish(e) <=> PP!Finish(e)
    BY DEF Simple!Pipe!Finish, PP!Finish, Simple!Pipe!ChildrenIdle, PP!ChildrenIdle
  <2> QED BY <2>1, <2>2, <2>3, <2>4 DEF Simple!Pipe!ElementStep, PP!ElementStep
<1> QED BY <1>1, <1>2, <1>3, <1>4, <1>5, <1>6, <1>7, <1>8, <1>9, <1>10

-----------------------------------------------------------------------------
(***************************************************************************)
(* The stream of the programs: no element stops it and no client ends it   *)
(* with an error.                                                          *)
(***************************************************************************)
NoErrors(blocks) == \A i \in 1 .. Len(blocks) : blocks[i].eop # "error"

Stream ==
    /\ PP!PipelineInv
    /\ \A e \in Wired : ~hadError[e]
    /\ NoErrors(sent)

\* The buffer is being pushed to by nobody, and never was.
Untouched == offer["tb"] = PP!Empty /\ thread["tb"] = "none"

\* The monitor is in both chains, and is the sink that reports the end.
LEMMA MonitorIsSink ==
    "tb" \in Wired /\ "monitor" \in Wired /\ "monitor" \in PP!Sinks
<1>1. "tb" \in Wired /\ "monitor" \in Wired
  BY ChainIs
<1>2. Shows["monitor"] = <<"StreamSink">>
  BY <1>1 DEF Shows
<1>3. 1 \in DOMAIN Shows["monitor"] /\ Shows["monitor"][1] = "StreamSink"
  BY <1>2
<1>4. "monitor" \in PP!Sinks
  BY <1>1, <1>3 DEF PP!Sinks, PP!With
<1> QED BY <1>1, <1>4

\* The types of the pipeline, as the steps of the two programs use them.
LEMMA StreamTypes ==
    ASSUME PP!PipelineInv
    PROVE  /\ PP!TypeOK
           /\ sent \in Seq(PP!Blocks) /\ Len(sent) \in Nat
           /\ offer \in [{"tb"} -> PP!Blocks]
           /\ thread \in [{"tb"} -> {"none", "waiting", "pushing", "ended"}]
           /\ call \in [Wired -> PP!Activations]
           /\ hadError \in [Wired -> BOOLEAN]
           /\ client \in {"pushing", "done"}
<1>1. PP!TypeOK
  BY PipelineIsTree, PP!InvEndsOnce
<1> QED BY <1>1 DEF PP!TypeOK

\* Before anything is pushed the pipeline meets its invariant, and the buffer
\* has no thread yet.
LEMMA StreamBegins == PP!Init => Stream /\ Untouched /\ sent = <<>> /\ client = "pushing"
<1> SUFFICES ASSUME PP!Init PROVE Stream /\ Untouched /\ sent = <<>> /\ client = "pushing"
  OBVIOUS
<1>1. PP!PipelineInv
  BY PipelineIsTree, PP!InitExplained
<1>2. /\ sent = <<>> /\ client = "pushing" /\ \A e \in Wired : ~hadError[e]
      /\ Untouched
  BY DEF PP!Init, Untouched
<1>3. NoErrors(sent)
  BY <1>2 DEF NoErrors
<1> QED BY <1>1, <1>2, <1>3 DEF Stream

\* Every step of the pipeline that pushes no error keeps its invariant, and no
\* element puts out an error of its own, for in these programs none can fail.
LEMMA StreamGoesOn ==
    ASSUME Stream, [PP!Next]_PP!vars, NoErrors(sent')
    PROVE  Stream'
<1>1. PP!PipelineInv'
  BY PipelineIsTree, PP!NextExplained DEF Stream
<1>2. \A e \in Wired : ~hadError'[e]
  BY PipelineIsTree, PP!NoErrorArises DEF Stream, NoErrors
<1> QED BY <1>1, <1>2 DEF Stream, NoErrors

\* The steps behind the client's back.
LEMMA SideIsStep ==
    ASSUME Stream, Side
    PROVE  Stream' /\ UNCHANGED <<client, sent>>
<1>1. ~terminated
  BY PipelineIsTree, PP!InvEndsOnce DEF Stream, PP!EndsOnce, PP!PromiseSetOnce
<1>2. PP!Next
  BY <1>1 DEF Side, PP!Next, PP!BufferStep
<1>3. UNCHANGED <<client, sent>>
  BY DEF Side, PP!StartThread, PP!Enqueue, PP!EnqueueTimesOut, PP!Dequeue, PP!AfterPush,
    PP!ElementStep, PP!Enter, PP!Visit, PP!Forward, PP!Finish, PP!vars
<1>4. NoErrors(sent')
  BY <1>3 DEF Stream
<1> QED BY <1>2, <1>3, <1>4, StreamGoesOn

\* They begin with a push, start a thread for a push only, offer nothing to the
\* buffer, and leave a status that is set.
LEMMA SideDoes ==
    ASSUME Stream, Side
    PROVE  /\ ~Untouched
           /\ thread["tb"] \in {"none", "ended"} /\ offer["tb"] = PP!Empty =>
                thread'["tb"] = thread["tb"]
           /\ offer["tb"] = PP!Empty => offer'["tb"] = PP!Empty
           /\ status["monitor"] # "unset" => status'["monitor"] = status["monitor"]
<1>1. PP!TypeOK /\ "tb" \in Wired /\ "monitor" \in PP!Sinks
  BY StreamTypes, MonitorIsSink DEF Stream
<1>2. \A e \in Wired : call[e].at # "idle" => thread["tb"] = "pushing"
  BY PipelineIsTree, PP!OneThreadCalls DEF Stream
<1>3. /\ thread \in [{"tb"} -> {"none", "waiting", "pushing", "ended"}]
      /\ offer \in [{"tb"} -> PP!Blocks]
  BY <1>1 DEF PP!TypeOK
<1>4. CASE PP!StartThread("tb") \/ PP!Enqueue("tb") \/ PP!EnqueueTimesOut("tb")
             \/ PP!Dequeue("tb") \/ PP!AfterPush("tb")
  BY <1>3, <1>4 DEF Untouched, PP!StartThread, PP!Enqueue, PP!EnqueueTimesOut, PP!Dequeue,
    PP!AfterPush, PP!vars
<1>5. CASE \E e \in Wired : PP!ElementStep(e)
  <2>1. PICK e \in Wired : PP!ElementStep(e)
    BY <1>5
  <2>2. call[e].at # "idle"
    BY <2>1 DEF PP!ElementStep, PP!Enter, PP!Visit, PP!Forward, PP!Finish
  <2>3. thread["tb"] = "pushing" /\ thread' = thread
    BY <1>2, <2>1, <2>2 DEF PP!ElementStep, PP!Enter, PP!Visit, PP!Forward, PP!Finish
  <2>4. offer' = offer
    <3>1. CASE PP!Forward(e)
      <4>1. call[e].next \in DOMAIN Connected[e]
        <5>1. call[e] \in PP!Activations
          BY <1>1 DEF PP!TypeOK
        <5>2. call[e].next \in Nat \ {0} /\ call[e].next <= Len(Connected[e])
          BY <3>1, <5>1 DEF PP!Forward, PP!Activations
        <5>3. Connected[e] \in Seq(Wired)
          BY PipelineIsTree, PP!ChildrenTyped
        <5> QED BY <5>2, <5>3, LenProperties
      <4>2. Connected[e][call[e].next] # "tb"
        BY <4>1, PipelineIsTree, PP!ChildrenTyped
      <4> QED BY <3>1, <4>2 DEF PP!Forward, PP!PushData
    <3>2. CASE ~PP!Forward(e)
      BY <2>1, <3>2 DEF PP!ElementStep, PP!Enter, PP!Visit, PP!Finish
    <3> QED BY <3>1, <3>2
  <2>5. ASSUME status["monitor"] # "unset"
        PROVE  status'["monitor"] = status["monitor"]
    <3>1. status \in [PP!Sinks -> PP!Statuses \cup {PP!Unset}]
      BY <1>1 DEF PP!TypeOK
    <3>2. CASE PP!Visit(e)
      <4>1. call[e].at = "visit" /\ call[e].next \in DOMAIN Shows[e]
        <5>1. PP!Nested
          BY DEF Stream, PP!PipelineInv, PP!Explains
        <5> QED BY <3>2, <5>1 DEF PP!Nested, PP!Visit
      <4>2. e = "monitor" /\ Shows[e][call[e].next] = "StreamSink"
        BY <4>1 DEF Shows
      <4>3. PP!VisitSink(e, call[e].block)
        BY <3>2, <4>2 DEF PP!Visit
      <4>4. \/ UNCHANGED status
            \/ status' = [status EXCEPT ![e] = IF @ = PP!Unset
                                THEN PP!PromiseValue(call[e].block) ELSE @]
        BY <4>3 DEF PP!VisitSink
      <4> QED BY <1>1, <2>5, <3>1, <4>2, <4>4 DEF PP!Unset
    <3>3. CASE ~PP!Visit(e)
      BY <2>1, <3>3 DEF PP!ElementStep, PP!Enter, PP!Forward, PP!Finish
    <3> QED BY <3>2, <3>3
  <2> QED BY <2>3, <2>4, <2>5 DEF Untouched
<1> QED BY <1>4, <1>5 DEF Side

\* The client pushes a block, or its end.
LEMMA BlockIsStep ==
    ASSUME Stream, PP!PushBlock
    PROVE  /\ Stream' /\ client = "pushing" /\ client' = client
           /\ Len(sent') = Len(sent) + 1 /\ Len(sent) < NumBlocks
           /\ thread' = thread
<1>1. /\ client = "pushing" /\ client' = client /\ Len(sent) < NumBlocks /\ thread' = thread
      /\ sent' = Append(sent, PP!Data(Len(sent) + 1))
  BY DEF PP!PushBlock, PP!Push
<1>2. sent \in Seq(PP!Blocks) /\ Len(sent) \in Nat /\ ~terminated
  BY PipelineIsTree, StreamTypes, PP!InvEndsOnce DEF Stream, PP!EndsOnce, PP!PromiseSetOnce
<1>3. PP!Next
  BY <1>2 DEF PP!Next
<1>4. PICK b : b = PP!Data(Len(sent) + 1)
  OBVIOUS
<1>5. b.eop # "error"
  BY <1>4 DEF PP!Data
<1>6. b \in PP!Blocks
  <2>1. Len(sent) + 1 \in 0 .. NumBlocks
    BY <1>1, <1>2, ExampleAssumption DEF ExampleAssumption
  <2> QED BY <1>4, <2>1 DEF PP!Data, PP!Blocks, PP!Statuses
<1>7. Len(sent') = Len(sent) + 1 /\ NoErrors(sent')
  BY <1>1, <1>2, <1>4, <1>5, <1>6, AppendProperties DEF Stream, NoErrors
<1> QED BY <1>1, <1>3, <1>7, StreamGoesOn

\* The push of the end, with which the client is done: the program's last push
\* (Source.cpp's stop and cancel, the end of Simple.cpp's loop).
LEMMA EopIsStep ==
    ASSUME Stream, NEW s \in {"success", "cancelled"}, PP!PushEop(s)
    PROVE  /\ Stream' /\ client = "pushing" /\ client' = "done"
           /\ Len(sent') = Len(sent) + 1 /\ sent'[Len(sent')].eop = s
           /\ thread' = thread
<1>1. /\ client = "pushing" /\ client' = "done" /\ thread' = thread
      /\ sent' = Append(sent, PP!Eop(s))
  BY DEF PP!PushEop, PP!Push
<1>2. sent \in Seq(PP!Blocks) /\ Len(sent) \in Nat /\ ~terminated
  BY PipelineIsTree, StreamTypes, PP!InvEndsOnce DEF Stream, PP!EndsOnce, PP!PromiseSetOnce
<1>3. PP!Next
  BY <1>2 DEF PP!Next
<1>4. PICK b : b = PP!Eop(s)
  OBVIOUS
<1>5. b.eop = s
  BY <1>4 DEF PP!Eop
<1>6. b \in PP!Blocks
  BY <1>4, ExampleAssumption DEF PP!Eop, PP!Blocks, PP!Statuses, ExampleAssumption
<1>7. /\ Len(sent') = Len(sent) + 1 /\ sent'[Len(sent')] = b
      /\ NoErrors(sent')
  BY <1>1, <1>2, <1>4, <1>5, <1>6, AppendProperties DEF Stream, NoErrors
<1> QED BY <1>1, <1>3, <1>5, <1>7, StreamGoesOn

\* wait() returns, and does not change what it waits for.
LEMMA WaitIsStep ==
    ASSUME Stream, PP!Wait("monitor")
    PROVE  /\ Stream' /\ status["monitor"] # "unset"
           /\ UNCHANGED <<client, sent, call, offer, thread, seen, status>>
<1>1. /\ status["monitor"] # "unset"
      /\ UNCHANGED <<client, sent, call, offer, thread, seen, status>>
  BY DEF PP!Wait, PP!Unset
<1>2. "monitor" \in PP!Sinks /\ ~terminated
  BY MonitorIsSink, PipelineIsTree, PP!InvEndsOnce
    DEF Stream, PP!EndsOnce, PP!PromiseSetOnce
<1>3. PP!Next
  BY <1>2 DEF PP!Next
<1>4. NoErrors(sent')
  BY <1>1 DEF Stream
<1> QED BY <1>1, <1>3, <1>4, StreamGoesOn

\* Steps of main that do not touch the pipeline keep its invariant.
LEMMA StreamStays ==
    ASSUME Stream, UNCHANGED pipeline
    PROVE  Stream'
<1>1. UNCHANGED PP!vars /\ NoErrors(sent')
  BY DEF Stream, NoErrors, pipeline, PP!vars
<1> QED BY <1>1, StreamGoesOn

\* What the sink's status says, and where the threads are.
LEMMA StreamSays ==
    ASSUME Stream
    PROVE  /\ status["monitor"] # "unset" =>
                /\ client = "done" /\ seen["monitor"] = sent /\ sent # <<>>
                /\ status["monitor"] = sent[Len(sent)].eop
           /\ \A e \in Wired : call[e].at # "idle" => thread["tb"] = "pushing"
           /\ client = "done" /\ offer["tb"] = PP!Empty => thread["tb"] # "none"
<1>1. "tb" \in Wired /\ "monitor" \in Wired /\ "monitor" \in PP!Sinks
  BY MonitorIsSink
<1>2. \A e \in Wired : call[e].at # "idle" => thread["tb"] = "pushing"
  BY PipelineIsTree, PP!OneThreadCalls DEF Stream
<1>3. client = "done" /\ offer["tb"] = PP!Empty => thread["tb"] # "none"
  BY <1>1, PipelineIsTree, PP!ThreadBegan DEF Stream
<1>4. status["monitor"] # "unset" =>
        /\ client = "done" /\ seen["monitor"] = sent /\ sent # <<>>
        /\ status["monitor"] = sent[Len(sent)].eop
  BY <1>1, PipelineIsTree, PP!ReportIs DEF Stream, PP!Unset
<1> QED BY <1>2, <1>3, <1>4

-----------------------------------------------------------------------------
(***************************************************************************)
(* What the objects of the two programs own, and what their threads do.    *)
(***************************************************************************)
Owns(O) ==
    [o \in O |-> IF o = "monitor" THEN <<"sink">>
                 ELSE IF o \in Wired THEN Connected[o] ELSE <<>>]

SourceRoots ==
    [t \in Threads |-> IF t = "main" THEN Range(LeavingMain)
                       ELSE IF t = "source" THEN {Release(Argument, "tb")} ELSE {}]
SimpleRoots == [t \in Simple!Threads |-> Range(Simple!LeavingMain)]

\* The elements are owned along the chain, and the sink by the last.
LEMMA OwnsIs ==
    ASSUME NEW O, O = {"sink"} \cup Wired \/ O = {"source", "sink"} \cup Wired
    PROVE  /\ {"tb", "monitor", "sink"} \subseteq O
           /\ WithAccumulator => "accum" \in O
           /\ Owns(O) \in [O -> Seq(O)] /\ DOMAIN Owns(O) = O
           /\ Parts(Owns(O), "monitor") = {"sink"} /\ Parts(Owns(O), "sink") = {}
           /\ "source" \in O => Parts(Owns(O), "source") = {}
           /\ WithAccumulator => /\ Parts(Owns(O), "tb") = {"accum"}
                                 /\ Parts(Owns(O), "accum") = {"monitor"}
                                 /\ O \subseteq {"source", "tb", "accum", "monitor", "sink"}
           /\ ~WithAccumulator => /\ Parts(Owns(O), "tb") = {"monitor"}
                                  /\ O \subseteq {"source", "tb", "monitor", "sink"}
<1>1. Owns(O) = [o \in O |-> Owns(O)[o]]
  BY DEF Owns
<1>2. /\ {"tb", "monitor", "sink"} \subseteq O
      /\ "source" \notin Wired /\ "sink" \notin Wired /\ "monitor" \in Wired /\ "tb" \in Wired
      /\ Wired \subseteq {"tb", "accum", "monitor"} /\ Wired \subseteq O
  BY ChainIs, ExampleAssumption DEF ExampleAssumption
<1>3. /\ Owns(O)["monitor"] = <<"sink">> /\ Owns(O)["sink"] = <<>>
      /\ "source" \in O => Owns(O)["source"] = <<>>
      /\ Owns(O)["tb"] = Connected["tb"]
      /\ WithAccumulator => Owns(O)["accum"] = Connected["accum"]
  BY <1>2, ChainIs DEF Owns
<1>4. <<"sink">> \in Seq(O) /\ Range(<<"sink">>) = {"sink"} /\ Range(<<>>) = {} /\ <<>> \in Seq(O)
  BY <1>2, OneTask, NoTask
<1>5. CASE WithAccumulator
  <2>1. /\ Owns(O)["tb"] = <<"accum">> /\ Owns(O)["accum"] = <<"monitor">>
        /\ "accum" \in O /\ O \subseteq {"source", "tb", "accum", "monitor", "sink"}
    BY <1>2, <1>3, <1>5, ChainIs
  <2>2. /\ <<"accum">> \in Seq(O) /\ Range(<<"accum">>) = {"accum"}
        /\ <<"monitor">> \in Seq(O) /\ Range(<<"monitor">>) = {"monitor"}
    BY <1>2, <2>1, OneTask
  <2>3. \A o \in O : Owns(O)[o] \in Seq(O)
    BY <1>3, <1>4, <2>1, <2>2
  <2> QED BY <1>1, <1>2, <1>3, <1>4, <1>5, <2>1, <2>2, <2>3 DEF Parts
<1>6. CASE ~WithAccumulator
  <2>1. /\ Owns(O)["tb"] = <<"monitor">>
        /\ O \subseteq {"source", "tb", "monitor", "sink"}
    BY <1>2, <1>3, <1>6, ChainIs
  <2>2. <<"monitor">> \in Seq(O) /\ Range(<<"monitor">>) = {"monitor"}
    BY <1>2, OneTask
  <2>3. \A o \in O : Owns(O)[o] \in Seq(O)
    BY <1>3, <1>4, <2>1, <2>2
  <2> QED BY <1>1, <1>2, <1>3, <1>4, <1>6, <2>1, <2>2, <2>3 DEF Parts
<1> QED BY <1>5, <1>6

\* The objects and threads of the two programs; only Source.cpp has a source.
LEMMA ObjectsAre ==
    /\ Simple!Objects = {"sink"} \cup Wired /\ Objects = {"source", "sink"} \cup Wired
    /\ Threads = {"main", "source", "tb"} /\ Simple!Threads = {"main"}
    /\ "source" \notin Simple!Objects
<1>1. Simple!Wired = Wired
  BY DEF Simple!Wired, Wired, Simple!Chain, Chain
<1> QED BY <1>1, ChainIs, ExampleAssumption
  DEF Simple!Objects, Objects, Threads, Simple!Threads, ExampleAssumption

\* main's references, of either program.
LEMMA LeavingIs ==
    /\ Range(LeavingMain) =
        {Release(Local("sink"), "sink"), Release(Local("throughputMonitor"), "monitor"),
         Release(Local("ds"), "monitor"), Release(Local("tb"), "tb"),
         Release(Local("source"), "source")}
    /\ {LeavingMain[i].holder : i \in DOMAIN LeavingMain} =
        {Local("sink"), Local("throughputMonitor"), Local("ds"), Local("tb"), Local("source")}
    /\ LeavingMain \in Seq(Range(LeavingMain))
    /\ Range(Simple!LeavingMain) =
        {Release(Local("sink"), "sink"), Release(Local("throughputMonitor"), "monitor"),
         Release(Local("ds"), "monitor"), Release(Local("tb"), "tb")}
    /\ {Simple!LeavingMain[i].holder : i \in DOMAIN Simple!LeavingMain} =
        {Local("sink"), Local("throughputMonitor"), Local("ds"), Local("tb")}
    /\ Simple!LeavingMain \in Seq(Range(Simple!LeavingMain))
<1>1. PICK a, b, c, d, e : /\ a = Release(Local("sink"), "sink")
                           /\ b = Release(Local("throughputMonitor"), "monitor")
                           /\ c = Release(Local("ds"), "monitor")
                           /\ d = Release(Local("tb"), "tb")
                           /\ e = Release(Local("source"), "source")
  OBVIOUS
<1>2. /\ a.holder = Local("sink") /\ b.holder = Local("throughputMonitor")
      /\ c.holder = Local("ds") /\ d.holder = Local("tb") /\ e.holder = Local("source")
  BY <1>1, TaskFields
<1>3. LeavingMain = <<a, b, c, d, e>>
  BY <1>1 DEF LeavingMain, Release
<1>4. Simple!LeavingMain = <<a, b, c, d>>
  BY <1>1 DEF Simple!LeavingMain, Release, Simple!Memory!Release, Memory!Release, Simple!Local,
    Local
<1>5. /\ DOMAIN LeavingMain = 1 .. 5 /\ LeavingMain[1] = a /\ LeavingMain[2] = b
      /\ LeavingMain[3] = c /\ LeavingMain[4] = d /\ LeavingMain[5] = e
  BY <1>3
<1>6. /\ DOMAIN Simple!LeavingMain = 1 .. 4 /\ Simple!LeavingMain[1] = a
      /\ Simple!LeavingMain[2] = b /\ Simple!LeavingMain[3] = c /\ Simple!LeavingMain[4] = d
  BY <1>4
<1>7. Range(LeavingMain) = {a, b, c, d, e} /\ Range(Simple!LeavingMain) = {a, b, c, d}
  BY <1>5, <1>6 DEF Range
<1>8. /\ LeavingMain \in Seq({a, b, c, d, e}) /\ Simple!LeavingMain \in Seq({a, b, c, d})
  BY <1>3, <1>4
<1>9. /\ {LeavingMain[i].holder : i \in DOMAIN LeavingMain} =
            {a.holder, b.holder, c.holder, d.holder, e.holder}
      /\ {Simple!LeavingMain[i].holder : i \in DOMAIN Simple!LeavingMain} =
            {a.holder, b.holder, c.holder, d.holder}
  BY <1>5, <1>6
<1> QED BY <1>1, <1>2, <1>7, <1>8, <1>9

\* Locals and arguments are no members.
LEMMA HoldersDiffer ==
    /\ \A v, d : Local(v) # Member(d) /\ Local(v) # Argument
    /\ \A d : Argument # Member(d)
    /\ \A v, w : Local(v) = Local(w) => v = w
  BY DEF Local, Member, Argument

\* What Source.cpp connects has no circle, and what main and the source's thread
\* hold themselves is nobody's member.
LEMMA SourceOwners == Owners(Owns(Objects), SourceRoots)
<1>1. Owns(Objects) \in [Objects -> Seq(Objects)] /\ DOMAIN Owns(Objects) = Objects
      /\ {"tb", "monitor", "sink", "source"} \subseteq Objects
  BY OwnsIs, ObjectsAre
<1>2. ASSUME NEW t \in Threads, NEW x \in SourceRoots[t]
      PROVE  \E h, o : /\ x = Release(h, o) /\ o \in Objects
                       /\ \A d \in Objects : h # Member(d)
  <2>1. CASE t = "main"
    <3>1. x \in {Release(Local("sink"), "sink"), Release(Local("throughputMonitor"), "monitor"),
                 Release(Local("ds"), "monitor"), Release(Local("tb"), "tb"),
                 Release(Local("source"), "source")}
      BY <1>2, <2>1, LeavingIs DEF SourceRoots
    <3> QED BY <1>1, <3>1, HoldersDiffer
  <2>2. CASE t # "main"
    <3>1. x = Release(Argument, "tb")
      BY <1>2, <2>2 DEF SourceRoots
    <3> QED BY <1>1, <3>1, HoldersDiffer
  <2> QED BY <2>1, <2>2
<1> QED BY <1>1, <1>2 DEF Owners, SourceRoots

\* The same of Simple.cpp, where main is the only thread with references of its own.
LEMMA SimpleOwners == Owners(Owns(Simple!Objects), SimpleRoots)
<1>1. /\ Owns(Simple!Objects) \in [Simple!Objects -> Seq(Simple!Objects)]
      /\ DOMAIN Owns(Simple!Objects) = Simple!Objects
      /\ {"tb", "monitor", "sink"} \subseteq Simple!Objects
  BY OwnsIs, ObjectsAre
<1>2. ASSUME NEW t \in Simple!Threads, NEW x \in SimpleRoots[t]
      PROVE  \E h, o : /\ x = Release(h, o) /\ o \in Simple!Objects
                       /\ \A d \in Simple!Objects : h # Member(d)
  <2>1. x \in {Release(Local("sink"), "sink"), Release(Local("throughputMonitor"), "monitor"),
               Release(Local("ds"), "monitor"), Release(Local("tb"), "tb")}
    BY <1>2, LeavingIs DEF SimpleRoots
  <2> QED BY <1>1, <2>1, HoldersDiffer
<1> QED BY <1>1, <1>2 DEF Owners, SimpleRoots

\* The objects whose thread has ended or never began, and the threads that have
\* begun to drop their own references.
SourceStopped == {o \in Joined : ThreadEnded(o)}
SourceLeaving ==
    (IF main \in {"leave", "exited"} THEN {"main"} ELSE {})
        \cup (IF run \in {"leave", "ended"} THEN {"source"} ELSE {})

Spares(tasks, o) == \A x \in Range(tasks) : x.target # o

\* The model's set of tasks has all that Source.cpp's destructors and its two
\* threads ever have to do.
LEMMA TasksHold ==
    /\ \A d \in Objects : Duties(Owns(Objects), d) \subseteq Tasks
    /\ \A t \in Threads : SourceRoots[t] \subseteq Tasks
    /\ {x.holder : x \in Tasks} = {Argument} \cup {Member(o) : o \in Objects}
            \cup {LeavingMain[i].holder : i \in DOMAIN LeavingMain}
<1> DEFINE H == {Argument} \cup {Member(o) : o \in Objects}
                    \cup {LeavingMain[i].holder : i \in DOMAIN LeavingMain}
<1>1. Tasks = [do : {"release", "join", "free"}, target : Objects, holder : H]
  BY DEF Tasks
<1>2. /\ {"source", "tb", "monitor", "sink"} \subseteq Objects
      /\ \A d \in Objects : Parts(Owns(Objects), d) \subseteq Objects
  <2>1. Owns(Objects) \in [Objects -> Seq(Objects)] /\ {"tb", "monitor", "sink"} \subseteq Objects
    BY ObjectsAre, OwnsIs
  <2>2. \A d \in Objects : Range(Owns(Objects)[d]) \subseteq Objects
    BY <2>1, RangeOfSeq
  <2> QED BY <2>1, <2>2, ObjectsAre DEF Parts
<1>3. /\ Argument \in H /\ \A o \in Objects : Member(o) \in H
      /\ {Local("sink"), Local("throughputMonitor"), Local("ds"), Local("tb"), Local("source")}
            \subseteq H
  BY LeavingIs
<1> HIDE DEF H
<1>4. /\ \A h \in H : \A o \in Objects : Release(h, o) \in Tasks
      /\ \A o \in Objects : Join(o) \in Tasks /\ Free(o) \in Tasks
  BY <1>1, <1>3 DEF Release, Join, Free, Memory!Release, Memory!Join, Memory!Free
<1>5. \A d \in Objects : Duties(Owns(Objects), d) \subseteq Tasks
  BY <1>2, <1>3, <1>4 DEF Duties
<1>6. ASSUME NEW t \in Threads
      PROVE  SourceRoots[t] \subseteq Tasks
  <2>1. Range(LeavingMain) \subseteq Tasks
    BY <1>2, <1>3, <1>4, LeavingIs
  <2>2. Release(Argument, "tb") \in Tasks
    BY <1>2, <1>3, <1>4
  <2> QED BY <2>1, <2>2 DEF SourceRoots
<1>7. {x.holder : x \in Tasks} = H
  <2>1. \A x \in Tasks : x.holder \in H
    BY <1>1
  <2>2. ASSUME NEW h \in H
        PROVE  \E x \in Tasks : h = x.holder
    <3>1. Release(h, "tb") \in Tasks /\ Release(h, "tb").holder = h
      BY <1>2, <1>4, TaskFields
    <3> QED BY <3>1
  <2> QED BY <2>1, <2>2
<1> QED BY <1>5, <1>6, <1>7 DEF H

\* Once the source is connected, the objects refer to each other as Owns says.
LEMMA SourceOwns ==
    ASSUME run # "none"
    PROVE  [o \in Objects |-> Owned(o)] = Owns(Objects)
<1>1. ASSUME NEW o \in Objects
      PROVE  Owned(o) = Owns(Objects)[o]
  <2>1. "source" \notin Wired /\ "sink" \notin Wired /\ "monitor" \in Wired
    BY ChainIs, ExampleAssumption DEF ExampleAssumption
  <2>2. CASE o = "monitor"
    BY <2>2 DEF Owned, Owns
  <2>3. CASE o \in Wired \ {"monitor"}
    BY <2>3 DEF Owned, Owns
  <2>4. CASE o # "monitor" /\ o \notin Wired
    BY <2>4 DEF Owned, Owns
  <2> QED BY <2>2, <2>3, <2>4
<1> QED BY <1>1 DEF Owns

\* Releases, joins and frees of the source's program.
LEMMA SourceTears ==
    ASSUME run # "none", Referred(Owns(Objects), refs), Listed(SourceRoots, Tasks, todo),
           NEW leaving,
           Ownership(Owns(Objects), SourceRoots, SourceStopped, leaving, refs, alive, todo),
           NEW t \in Threads, Memory!Teardown(t)
    PROVE  /\ Ownership(Owns(Objects), SourceRoots, SourceStopped, leaving, refs', alive', todo')
           /\ Referred(Owns(Objects), refs') /\ Listed(SourceRoots, Tasks, todo')
           /\ alive' \subseteq alive /\ \A o \in Objects : refs'[o] \subseteq refs[o]
           /\ todo[t] # <<>> /\ \A u \in Threads : u # t => todo'[u] = todo[u]
           /\ t # "source" /\ Argument \in refs["tb"] => Argument \in refs'["tb"]
           /\ Spares(todo[t], "source") => Spares(todo'[t], "source")
<1> DEFINE own == Owns(Objects)
           x == Head(todo[t])
<1>1. /\ own \in [Objects -> Seq(Objects)] /\ DOMAIN own = Objects
      /\ DOMAIN SourceRoots = Threads /\ "tb" \in Objects
      /\ \A d \in Objects : "source" \notin Parts(own, d)
  <2>1. own \in [Objects -> Seq(Objects)] /\ DOMAIN own = Objects /\ "tb" \in Objects
    BY ObjectsAre, OwnsIs
  <2>2. \A d \in Objects : "source" \notin Parts(own, d)
    <3>1. CASE WithAccumulator
      <4>1. /\ Parts(own, "tb") = {"accum"} /\ Parts(own, "accum") = {"monitor"}
            /\ Parts(own, "monitor") = {"sink"} /\ Parts(own, "sink") = {}
            /\ Parts(own, "source") = {}
            /\ Objects \subseteq {"source", "tb", "accum", "monitor", "sink"}
        BY <3>1, ObjectsAre, OwnsIs
      <4> QED BY <4>1
    <3>2. CASE ~WithAccumulator
      <4>1. /\ Parts(own, "tb") = {"monitor"} /\ Parts(own, "monitor") = {"sink"}
            /\ Parts(own, "sink") = {} /\ Parts(own, "source") = {}
            /\ Objects \subseteq {"source", "tb", "monitor", "sink"}
        BY <3>2, ObjectsAre, OwnsIs
      <4> QED BY <4>1
    <3> QED BY <3>1, <3>2
  <2> QED BY <2>1, <2>2 DEF SourceRoots
<1>2. Owners(own, SourceRoots) /\ \A d \in DOMAIN own : Duties(own, d) \subseteq Tasks
  BY <1>1, SourceOwners, TasksHold
<1>3. todo[t] # <<>> /\ x \in Range(todo[t])
  <2>1. todo[t] # <<>>
    BY DEF Memory!Teardown, Memory!DoRelease, Memory!DoJoin, Memory!DoFree, Memory!Do
  <2>2. todo[t] \in Seq(Tasks)
    BY <1>1 DEF Listed
  <2> QED BY <2>1, <2>2, TailTasks
<1>4. CASE Memory!DoRelease(t)
  <2>1. ASSUME NEW d
        PROVE  Memory!Destructor(d) = Destroy(own, d)
    <3>1. [o \in Objects |-> Owned(o)] = own
      BY SourceOwns
    <3> HIDE DEF own
    <3>2. Memory!ReleaseMembers(d) = ReleaseParts(own, d)
      BY <3>1 DEF Memory!ReleaseMembers, ReleaseParts, Release
    <3>3. Memory!Joins(d) = (IF d \in Joined THEN <<Join(d)>> ELSE <<>>)
      BY DEF Memory!Joins, Joined, Join
    <3> QED BY <3>2, <3>3 DEF Memory!Destructor, Destroy, Free
  <2>2. x.do = "release" /\ alive' = alive
    BY <1>4 DEF Memory!DoRelease, Memory!Do
  <2>3. Drops(own, t, refs, todo, refs', todo')
    BY <1>4, <2>1 DEF Memory!DoRelease, Drops
  <2> HIDE DEF own
  <2>4. /\ Ownership(own, SourceRoots, SourceStopped, leaving, refs', alive, todo')
        /\ Referred(own, refs') /\ Listed(SourceRoots, Tasks, todo')
        /\ Range(todo'[t]) \subseteq Range(todo[t]) \cup Duties(own, x.target)
        /\ \A u \in Threads : u # t => todo'[u] = todo[u]
    <3>1. /\ Owners(own, SourceRoots) /\ Listed(SourceRoots, Tasks, todo) /\ Referred(own, refs)
          /\ Ownership(own, SourceRoots, SourceStopped, leaving, refs, alive, todo)
          /\ t \in DOMAIN SourceRoots /\ todo[t] # <<>> /\ Head(todo[t]).do = "release"
          /\ Drops(own, t, refs, todo, refs', todo')
          /\ \A d \in DOMAIN own : Duties(own, d) \subseteq Tasks
      BY <1>1, <1>2, <1>3, <2>2, <2>3 DEF own
    <3>2. /\ Ownership(own, SourceRoots, SourceStopped, leaving, refs', alive, todo')
          /\ Referred(own, refs')
      BY <3>1, ReleaseKeeps
    <3>3. Listed(SourceRoots, Tasks, todo')
      BY <3>1, ReleaseKeeps
    <3>4. Range(todo'[t]) \subseteq Range(todo[t]) \cup Duties(own, Head(todo[t]).target)
      BY <3>1, ReleaseKeeps
    <3>5. \A u \in DOMAIN SourceRoots : u # t => todo'[u] = todo[u]
      BY <3>1 DEF Drops, Listed
    <3> QED BY <1>1, <3>2, <3>3, <3>4, <3>5
  <2>5. x.target \in Objects
    BY <1>1, <1>2, <1>3, <2>2, NextTask DEF Ownership, own
  <2>6. \A o \in Objects : refs'[o] \subseteq refs[o]
    BY <1>1, <2>3, <2>5 DEF Drops, Referred, own
  <2>7. ASSUME t # "source", Argument \in refs["tb"]
        PROVE  Argument \in refs'["tb"]
    <3>1. SourceRoots["source"] = {Release(Argument, "tb")} /\ "source" \in Threads
      BY ObjectsAre DEF SourceRoots
    <3>2. Release(Argument, "tb") \notin SourceRoots[t]
      <4>1. \A z \in Range(LeavingMain) : z.holder # Argument
        BY LeavingIs, TaskFields, HoldersDiffer
      <4>2. Release(Argument, "tb") \notin Range(LeavingMain)
        BY <4>1, TaskFields
      <4> QED BY <2>7, <4>2, ObjectsAre DEF SourceRoots
    <3>3. Release(Argument, "tb") \in SourceRoots["source"] \ SourceRoots[t]
      BY <3>1, <3>2
    <3> QED BY <1>1, <1>2, <1>3, <2>2, <2>3, <2>7, <3>1, <3>3, RootStays DEF own
  <2>8. ASSUME Spares(todo[t], "source")
        PROVE  Spares(todo'[t], "source")
    <3>1. x.target # "source"
      BY <1>3, <2>8 DEF Spares
    <3>2. \A z \in Duties(own, x.target) : z.target # "source"
      BY <1>1, <2>5, <3>1, TaskFields DEF Duties, own
    <3> QED BY <2>4, <2>8, <3>2 DEF Spares
  <2> QED BY <1>3, <2>2, <2>4, <2>6, <2>7, <2>8 DEF own
<1>5. CASE Memory!DoJoin(t)
  <2>1. x.do = "join" /\ x.target \in SourceStopped /\ refs' = refs /\ alive' = alive
    BY <1>5 DEF Memory!DoJoin, Memory!Do, SourceStopped, Joined
  <2>2. Does(t, todo, todo')
    BY <1>5 DEF Memory!DoJoin, Does
  <2>3. /\ Ownership(own, SourceRoots, SourceStopped, leaving, refs, alive, todo')
        /\ Listed(SourceRoots, Tasks, todo') /\ Range(todo'[t]) \subseteq Range(todo[t])
        /\ \A u \in Threads : u # t => todo'[u] = todo[u]
    <3>1. /\ Owners(own, SourceRoots) /\ Listed(SourceRoots, Tasks, todo)
          /\ Ownership(own, SourceRoots, SourceStopped, leaving, refs, alive, todo)
          /\ t \in DOMAIN SourceRoots /\ todo[t] # <<>> /\ Head(todo[t]).do = "join"
          /\ Head(todo[t]).target \in SourceStopped /\ Does(t, todo, todo')
      BY <1>1, <1>2, <1>3, <2>1, <2>2
    <3> HIDE DEF own, x
    <3>2. Ownership(own, SourceRoots, SourceStopped, leaving, refs, alive, todo')
      BY <3>1, JoinKeeps
    <3>3. Listed(SourceRoots, Tasks, todo')
      BY <3>1, JoinKeeps
    <3>4. Range(todo'[t]) \subseteq Range(todo[t])
      BY <3>1, JoinKeeps
    <3>5. \A u \in DOMAIN SourceRoots : u # t => todo'[u] = todo[u]
      BY <3>1 DEF Does, Listed
    <3> QED BY <1>1, <3>2, <3>3, <3>4, <3>5
  <2> QED BY <1>3, <2>1, <2>3 DEF Spares
<1>6. CASE Memory!DoFree(t)
  <2>1. x.do = "free" /\ refs' = refs /\ alive' = alive \ {x.target}
    BY <1>6 DEF Memory!DoFree, Memory!Do
  <2>2. Does(t, todo, todo')
    BY <1>6 DEF Memory!DoFree, Does
  <2>3. /\ Ownership(own, SourceRoots, SourceStopped, leaving, refs, alive', todo')
        /\ Listed(SourceRoots, Tasks, todo') /\ Range(todo'[t]) \subseteq Range(todo[t])
        /\ \A u \in Threads : u # t => todo'[u] = todo[u]
    <3>1. /\ Owners(own, SourceRoots) /\ Listed(SourceRoots, Tasks, todo)
          /\ Ownership(own, SourceRoots, SourceStopped, leaving, refs, alive, todo)
          /\ t \in DOMAIN SourceRoots /\ todo[t] # <<>> /\ Head(todo[t]).do = "free"
          /\ alive' = alive \ {Head(todo[t]).target} /\ Does(t, todo, todo')
      BY <1>1, <1>2, <1>3, <2>1, <2>2
    <3> HIDE DEF own, x
    <3>2. Ownership(own, SourceRoots, SourceStopped, leaving, refs, alive', todo')
      BY <3>1, FreeKeeps
    <3>3. Listed(SourceRoots, Tasks, todo')
      BY <3>1, FreeKeeps
    <3>4. Range(todo'[t]) \subseteq Range(todo[t])
      BY <3>1, FreeKeeps
    <3>5. \A u \in DOMAIN SourceRoots : u # t => todo'[u] = todo[u]
      BY <3>1 DEF Does, Listed
    <3> QED BY <1>1, <3>2, <3>3, <3>4, <3>5
  <2> QED BY <1>3, <2>1, <2>3 DEF Spares
<1> QED BY <1>4, <1>5, <1>6 DEF Memory!Teardown

-----------------------------------------------------------------------------
(***************************************************************************)
(* The invariant of Source.cpp.                                            *)
(***************************************************************************)
SourceTypes ==
    /\ main \in {"begin", "wire", "start", "wait", "leave", "exited", "killed"}
    /\ run \in {"none", "loop", "block", "end", "eop", "return", "leave", "ended"}
    /\ flag \in 0 .. 2
    /\ stopFlag \in 0 .. 2
    /\ pushedAtHalt \in 0 .. NumBlocks
    /\ sigint \in {"print", "cancel", "kill"}
    /\ dangling \in BOOLEAN
    /\ main \in {"begin", "wire", "start"} => run = "none"
    /\ main \in {"wait", "leave", "exited"} => run # "none"

\* The end is pushed last, with the status of the second load of the flag; the
\* loop ends with the last block or with the one that is being pushed when the
\* flag is set.
SourceStream ==
    /\ Stream
    /\ client = "done" <=> run \in {"return", "leave", "ended"}
    /\ client = "done" => sent[Len(sent)].eop = EndStatus
    /\ Pushed \in 0 .. NumBlocks
    /\ run = "end" => flag # 0 \/ Pushed = NumBlocks
    /\ run \in {"eop", "return", "leave", "ended"} /\ stopFlag = 0 => Pushed = NumBlocks
    /\ run = "none" => Untouched
    /\ run \in {"leave", "ended"} => offer["tb"] = PP!Empty
    /\ flag = 2 \/ stopFlag = 2 => sigint = "kill"
    /\ flag # 0 /\ run = "block" => Pushed <= pushedAtHalt
    /\ flag # 0 => Pushed <= pushedAtHalt + 1

\* Who refers to what when all is connected.
Locals(o) ==
    CASE o = "source"  -> {Local("source")}
      [] o = "tb"      -> {Local("tb")}
      [] o = "monitor" -> {Local("ds"), Local("throughputMonitor")}
      [] o = "sink"    -> {Local("sink")}
      [] OTHER         -> {}
Holders(O, o) == {Member(d) : d \in {d \in O : o \in Parts(Owns(O), d)}}
ConnectedHolders(o) ==
    Holders(Objects, o) \cup Locals(o) \cup (IF o = "tb" THEN {Member("source")} ELSE {})

\* The objects are owned as generated above from start() on; until main leaves
\* it drops nothing, nor does the source's thread before it has returned from
\* run, and never is it that thread that destroys the source.
SourceMemory ==
    /\ Referred(Owns(Objects), refs) /\ Listed(SourceRoots, Tasks, todo)
    /\ alive \subseteq Objects
    /\ \A o \in Objects : refs[o] \subseteq {x.holder : x \in Tasks}
    /\ run = "none" => \A t \in Threads : todo[t] = <<>>
    /\ main = "start" => alive = Objects /\ \A o \in Objects : refs[o] = ConnectedHolders(o)
    /\ run # "none" =>
        Ownership(Owns(Objects), SourceRoots, SourceStopped, SourceLeaving, refs, alive, todo)
    /\ main \notin {"leave", "killed"} => todo["main"] = <<>>
    /\ run # "leave" => todo["source"] = <<>>
    /\ todo["tb"] = <<>>
    /\ run \in {"loop", "block", "end", "eop", "return"} => Argument \in refs["tb"]
    /\ Spares(todo["source"], "source")

SourceInv == SourceTypes /\ SourceStream /\ SourceMemory

\* How Pushed and the pipeline's typing read in the steps below.
LEMMA PushedIs ==
    ASSUME Stream
    PROVE  /\ client = "done" => Pushed = Len(sent) - 1
           /\ client = "pushing" => Pushed = Len(sent)
           /\ client \in {"pushing", "done"} /\ Len(sent) \in Nat
  BY StreamTypes DEF Stream, Pushed

\* What was pushed stays while the client pushes nothing.
LEMMA PushedStays ==
    ASSUME UNCHANGED <<client, sent>>
    PROVE  Pushed' = Pushed /\ UNCHANGED sent[Len(sent)].eop
  BY DEF Pushed

\* A step that moves neither the client nor the flags.
LEMMA StreamKept ==
    ASSUME SourceStream, Stream', UNCHANGED <<client, sent, run, flag, stopFlag, pushedAtHalt>>,
           run = "none" => Untouched', sigint = "kill" => sigint' = "kill",
           run \in {"leave", "ended"} /\ offer["tb"] = PP!Empty => offer'["tb"] = PP!Empty
    PROVE  SourceStream'
  BY PushedStays DEF SourceStream, EndStatus

\* The source's own steps.
LEMMA SourceStepsStream ==
    ASSUME SourceTypes, SourceStream,
           CheckLoop \/ PushBlock \/ ReloadFlag \/ PushEop \/ ReturnFromRun \/ EndThread
    PROVE  SourceStream' /\ SourceTypes'
<1>1. Stream
  BY DEF SourceStream
<1>2. /\ client = "done" => Pushed = Len(sent) - 1
      /\ client = "pushing" => Pushed = Len(sent)
      /\ client \in {"pushing", "done"} /\ Len(sent) \in Nat /\ NumBlocks \in Nat
  BY <1>1, PushedIs, ExampleAssumption DEF ExampleAssumption
<1>3. ASSUME UNCHANGED pipeline
      PROVE  /\ Stream' /\ Pushed' = Pushed /\ UNCHANGED <<client, sent, offer, thread>>
             /\ Untouched' = Untouched
  <2>1. UNCHANGED <<client, sent, offer, thread>>
    BY <1>3 DEF pipeline
  <2> QED BY <1>1, <1>3, <2>1, StreamStays, PushedStays DEF Untouched
<1>4. SourceTypes'
  BY DEF SourceTypes, CheckLoop, PushBlock, ReloadFlag, PushEop, ReturnFromRun, EndThread,
    interrupts
<1>5. CASE CheckLoop
  <2>1. /\ run = "loop" /\ UNCHANGED <<flag, stopFlag, pushedAtHalt, sigint>>
        /\ UNCHANGED pipeline /\ run' \in {"block", "end"}
        /\ run' = "block" => Len(sent) < NumBlocks /\ flag = 0
        /\ run' = "end" => ~(Len(sent) < NumBlocks) \/ flag # 0
    BY <1>5 DEF CheckLoop, GoesOn, interrupts
  <2>2. client = "pushing" /\ Pushed = Len(sent)
    BY <1>2, <2>1 DEF SourceStream
  <2> QED BY <1>4, <1>2, <1>3, <2>1, <2>2 DEF SourceStream
<1>6. CASE PushBlock
  <2>1. PP!PushBlock /\ run = "block" /\ run' = "loop"
        /\ UNCHANGED <<flag, stopFlag, pushedAtHalt, sigint>>
    BY <1>6, SourcePipe DEF PushBlock, interrupts
  <2>2. /\ Stream' /\ client = "pushing" /\ client' = client
        /\ Len(sent') = Len(sent) + 1 /\ Len(sent) < NumBlocks
    BY <1>1, <2>1, BlockIsStep
  <2>3. Pushed = Len(sent) /\ Pushed' = Len(sent') /\ Pushed' = Pushed + 1 /\ Pushed < NumBlocks
    BY <1>2, <2>2 DEF Pushed
  <2>4. flag # 0 => Pushed <= pushedAtHalt
    BY <2>1 DEF SourceStream
  <2>5. Pushed' \in 0 .. NumBlocks /\ (flag # 0 => Pushed' <= pushedAtHalt + 1)
    BY <1>2, <2>2, <2>3, <2>4 DEF SourceTypes
  <2> QED BY <1>4, <2>1, <2>2, <2>5 DEF SourceStream
<1>7. CASE ReloadFlag
  <2>1. /\ run = "end" /\ run' = "eop" /\ stopFlag' = flag /\ UNCHANGED pipeline
        /\ UNCHANGED <<flag, pushedAtHalt, sigint>>
    BY <1>7 DEF ReloadFlag, interrupts
  <2> QED BY <1>4, <1>3, <2>1 DEF SourceStream
<1>8. CASE PushEop
  <2>1. /\ PP!PushEop(EndStatus) /\ run = "eop" /\ run' = "return"
        /\ UNCHANGED <<flag, stopFlag, pushedAtHalt, sigint>>
    BY <1>8, SourcePipe DEF PushEop, interrupts
  <2>2. EndStatus \in {"success", "cancelled"} /\ EndStatus' = EndStatus
    BY <2>1 DEF EndStatus, SourceTypes
  <2>3. /\ Stream' /\ client = "pushing" /\ client' = "done"
        /\ Len(sent') = Len(sent) + 1 /\ sent'[Len(sent')].eop = EndStatus
    BY <1>1, <2>1, <2>2, EopIsStep
  <2>4. Pushed' = Len(sent') - 1
    BY <2>3 DEF Pushed
  <2>5. Pushed' = Pushed
    BY <1>2, <2>3, <2>4
  <2> QED BY <1>4, <2>1, <2>2, <2>3, <2>5 DEF SourceStream
<1>9. CASE ReturnFromRun
  <2>1. /\ run = "return" /\ run' = "leave" /\ UNCHANGED pipeline
        /\ UNCHANGED <<flag, stopFlag, pushedAtHalt, sigint>> /\ ~PP!Pending("tb")
    BY <1>9, SourcePipe DEF ReturnFromRun, Returned, interrupts
  <2>2. offer["tb"] = PP!Empty
    BY <2>1 DEF PP!Pending
  <2>3. EndStatus' = EndStatus
    BY <2>1 DEF EndStatus
  <2> QED BY <1>4, <1>3, <2>1, <2>2, <2>3 DEF SourceStream
<1>10. CASE EndThread
  <2>1. /\ run = "leave" /\ run' = "ended" /\ UNCHANGED pipeline
        /\ UNCHANGED <<flag, stopFlag, pushedAtHalt, sigint>>
    BY <1>10 DEF EndThread, interrupts
  <2>2. EndStatus' = EndStatus
    BY <2>1 DEF EndStatus
  <2> QED BY <1>4, <1>3, <2>1, <2>2 DEF SourceStream
<1> QED BY <1>4, <1>5, <1>6, <1>7, <1>8, <1>9, <1>10

\* stop(), cancel() and the second interrupt.
LEMMA HaltsStream ==
    ASSUME SourceTypes, SourceStream, Stop \/ Interrupt
    PROVE  SourceStream' /\ SourceTypes'
<1>1. Stream
  BY DEF SourceStream
<1>2. UNCHANGED pipeline /\ UNCHANGED <<run, stopFlag>>
  BY DEF Stop, Interrupt, control
<1>3. /\ Stream' /\ Pushed' = Pushed /\ Untouched' = Untouched /\ EndStatus' = EndStatus
      /\ UNCHANGED <<client, sent, offer, thread>>
  BY <1>1, <1>2, StreamStays, PushedStays DEF pipeline, Untouched, EndStatus
<1>4. NumBlocks \in Nat
  BY ExampleAssumption DEF ExampleAssumption
<1>5. ASSUME NEW f \in {1, 2}, Halt(f), main' = main, sigint' \in {"print", "cancel", "kill"},
             f = 2 => sigint' = "kill", sigint = "kill" => sigint' = "kill",
             dangling' = dangling
      PROVE  SourceStream' /\ SourceTypes'
  <2>1. /\ flag' = f
        /\ flag = 0 => pushedAtHalt' = Pushed
        /\ flag # 0 => pushedAtHalt' = pushedAtHalt
    BY <1>5 DEF Halt
  <2>2. Pushed \in 0 .. NumBlocks /\ pushedAtHalt \in 0 .. NumBlocks
    BY DEF SourceStream, SourceTypes
  <2>3. SourceTypes'
    BY <1>2, <1>5, <2>1, <2>2 DEF SourceTypes
  <2>4. /\ flag' # 0 /\ run' = "block" => Pushed' <= pushedAtHalt'
        /\ flag' # 0 => Pushed' <= pushedAtHalt' + 1
    BY <1>2, <1>3, <1>4, <2>1, <2>2 DEF SourceStream
  <2> QED BY <1>2, <1>3, <1>5, <2>1, <2>3, <2>4 DEF SourceStream
<1>6. CASE Stop
  BY <1>5, <1>6 DEF Stop, interrupts, SourceTypes
<1>7. CASE Interrupt
  <2>1. CASE sigint = "print"
    <3>1. /\ sigint' = "kill" /\ UNCHANGED <<main, run, flag, stopFlag, pushedAtHalt, dangling>>
      BY <1>7, <2>1 DEF Interrupt, control
    <3>2. SourceTypes'
      BY <3>1 DEF SourceTypes
    <3> QED BY <1>3, <3>1, <3>2, StreamKept DEF SourceStream
  <2>2. CASE sigint = "cancel" /\ "source" \in alive
    BY <1>5, <1>7, <2>2 DEF Interrupt, Cancel
  <2>3. CASE sigint = "cancel" /\ "source" \notin alive
    <3>1. /\ sigint' = "kill" /\ UNCHANGED <<main, run, flag, stopFlag, pushedAtHalt>>
          /\ dangling' = TRUE
      BY <1>7, <2>3 DEF Interrupt
    <3>2. SourceTypes'
      BY <3>1 DEF SourceTypes
    <3> QED BY <1>3, <3>1, <3>2, StreamKept DEF SourceStream
  <2>4. CASE sigint = "kill"
    <3>1. /\ main' = "killed" /\ UNCHANGED <<run, flag, stopFlag, pushedAtHalt, interrupts>>
      BY <1>7, <2>4 DEF Interrupt
    <3>2. SourceTypes'
      BY <3>1 DEF SourceTypes, interrupts
    <3> QED BY <1>3, <3>1, <3>2, StreamKept DEF SourceStream, interrupts
  <2> QED BY <1>7, <2>1, <2>2, <2>3, <2>4 DEF SourceTypes
<1> QED BY <1>6, <1>7

\* The steps of main and of the pipeline.
LEMMA OtherStepsStream ==
    ASSUME SourceTypes, SourceStream,
           \/ InstallHandler \/ Wire \/ Start \/ WaitAndLeave \/ Exit
           \/ \E t \in Threads : Teardown(t)
           \/ Side /\ UNCHANGED <<control, memory, interrupts>>
           \/ UNCHANGED vars
    PROVE  SourceStream' /\ SourceTypes'
<1>1. Stream
  BY DEF SourceStream
<1>2. ASSUME UNCHANGED pipeline
      PROVE  /\ Stream' /\ UNCHANGED <<client, sent, offer, thread>> /\ Untouched' = Untouched
             /\ Pushed' = Pushed
  BY <1>1, <1>2, StreamStays, PushedStays DEF pipeline, Untouched
<1>3. CASE InstallHandler
  <2>1. /\ UNCHANGED pipeline /\ UNCHANGED <<run, flag, stopFlag, pushedAtHalt, dangling>>
        /\ main = "begin" /\ main' = "wire"
        /\ sigint' = IF sigint = "print" THEN "cancel" ELSE sigint
    BY <1>3 DEF InstallHandler
  <2>2. SourceTypes'
    BY <2>1 DEF SourceTypes
  <2> QED BY <1>2, <2>1, <2>2, StreamKept DEF SourceStream
<1>4. CASE Wire \/ Exit \/ (\E t \in Threads : Teardown(t)) \/ UNCHANGED vars
  <2>1. /\ UNCHANGED pipeline /\ UNCHANGED <<run, flag, stopFlag, pushedAtHalt, interrupts>>
        /\ \/ main' = main
           \/ main = "wire" /\ main' = "start"
           \/ main = "leave" /\ main' = "exited"
    BY <1>4 DEF Wire, Exit, Teardown, control, vars
  <2>2. SourceTypes'
    BY <2>1 DEF SourceTypes, interrupts
  <2> QED BY <1>2, <2>1, <2>2, StreamKept DEF SourceStream, interrupts
<1>5. CASE Start
  <2>1. /\ UNCHANGED pipeline /\ UNCHANGED <<flag, stopFlag, pushedAtHalt, interrupts>>
        /\ main = "start" /\ main' = "wait" /\ run = "none" /\ run' = "loop"
    BY <1>5 DEF Start, SourceTypes
  <2>2. SourceTypes'
    BY <2>1 DEF SourceTypes, interrupts
  <2> QED BY <1>2, <2>1, <2>2 DEF SourceStream, interrupts
<1>6. CASE WaitAndLeave
  <2>1. /\ PP!Wait("monitor") /\ UNCHANGED <<run, flag, stopFlag, pushedAtHalt, interrupts>>
        /\ main = "wait" /\ main' = "leave"
    BY <1>6, SourcePipe DEF WaitAndLeave
  <2>2. SourceTypes'
    BY <2>1 DEF SourceTypes, interrupts
  <2>3. Stream' /\ UNCHANGED <<client, sent, offer, thread>>
    BY <1>1, <2>1, WaitIsStep
  <2> QED BY <2>1, <2>2, <2>3, StreamKept DEF SourceStream, interrupts, Untouched
<1>7. CASE Side /\ UNCHANGED <<control, memory, interrupts>>
  <2>1. UNCHANGED <<main, run, flag, stopFlag, pushedAtHalt, sigint, dangling>>
    BY <1>7 DEF control, interrupts
  <2>2. SourceTypes'
    BY <2>1 DEF SourceTypes
  <2>3. Stream' /\ UNCHANGED <<client, sent>>
    BY <1>1, <1>7, SideIsStep
  <2>4. ~Untouched /\ (offer["tb"] = PP!Empty => offer'["tb"] = PP!Empty)
    BY <1>1, <1>7, SideDoes
  <2> QED BY <2>1, <2>2, <2>3, <2>4, StreamKept DEF SourceStream
<1> QED BY <1>3, <1>4, <1>5, <1>6, <1>7

-----------------------------------------------------------------------------
\* A step that leaves the memory alone: it starts or ends a thread at most, and
\* starts one only on an object that is referred to.
LEMMA MemoryKept ==
    ASSUME SourceMemory, UNCHANGED memory,
           run' = "none" <=> run = "none",
           run' \in {"leave", "ended"} => run \in {"leave", "ended"},
           run = "ended" => run' = "ended",
           run' \in {"loop", "block", "end", "eop", "return"} =>
                run \in {"loop", "block", "end", "eop", "return"},
           run = "leave" => run' = "leave" \/ todo["source"] = <<>>,
           main' = "start" => main = "start",
           main' \in {"leave", "exited"} => main \in {"leave", "exited"},
           main \in {"leave", "killed"} => main' \in {"leave", "killed"} \/ todo["main"] = <<>>,
           thread["tb"] \in {"none", "ended"} /\ thread'["tb"] \notin {"none", "ended"} =>
                refs["tb"] # {}
    PROVE  SourceMemory'
<1>1. UNCHANGED <<refs, alive, todo>>
  BY DEF memory
<1>2. SourceLeaving' \subseteq SourceLeaving
  BY DEF SourceLeaving
<1>3. \A d \in DOMAIN Owns(Objects) : d \in SourceStopped /\ d \notin SourceStopped' => refs[d] # {}
  BY DEF SourceStopped, Joined, ThreadEnded
<1>4. run # "none" =>
        Ownership(Owns(Objects), SourceRoots, SourceStopped', SourceLeaving', refs, alive, todo)
  <2>1. ASSUME run # "none"
        PROVE  Ownership(Owns(Objects), SourceRoots, SourceStopped, SourceLeaving, refs, alive, todo)
    BY <2>1 DEF SourceMemory
  <2> QED BY <1>2, <1>3, <2>1, ThreadsKeep
<1>5. /\ Referred(Owns(Objects), refs) /\ Listed(SourceRoots, Tasks, todo)
      /\ alive \subseteq Objects
      /\ \A o \in Objects : refs[o] \subseteq {x.holder : x \in Tasks}
  BY DEF SourceMemory
<1>6. /\ run' = "none" => \A t \in Threads : todo[t] = <<>>
      /\ main' = "start" => alive = Objects /\ \A o \in Objects : refs[o] = ConnectedHolders(o)
      /\ main' \notin {"leave", "killed"} => todo["main"] = <<>>
      /\ run' # "leave" => todo["source"] = <<>>
      /\ todo["tb"] = <<>> /\ Spares(todo["source"], "source")
      /\ run' \in {"loop", "block", "end", "eop", "return"} => Argument \in refs["tb"]
  BY DEF SourceMemory
<1> QED BY <1>1, <1>4, <1>5, <1>6 DEF SourceMemory

\* Who holds what, once connected, as it was generated.
LEMMA ConnectedIs ==
    ASSUME NEW o \in Objects
    PROVE  /\ Holders(Objects, o) =
                {Member(d) : d \in {d \in Objects : o \in Parts(Owns(Objects), d)}}
           /\ ConnectedHolders(o) \subseteq {x.holder : x \in Tasks}
           /\ o = "source" => Local("source") \in ConnectedHolders(o)
           /\ o = "sink" => Local("sink") \in ConnectedHolders(o)
           /\ o = "monitor" => Local("ds") \in ConnectedHolders(o)
           /\ o \in {"source", "sink", "tb", "monitor"}
                \/ (o = "accum" /\ "tb" \in Objects /\ o \in Parts(Owns(Objects), "tb"))
           /\ Holders(Objects, o) \subseteq ConnectedHolders(o)
           /\ \A h \in Locals(o) : Release(h, o) \in SourceRoots["main"]
           /\ \A d \in Objects : o = "tb" => o \notin Parts(Owns(Objects), d)
<1>1. Holders(Objects, o) =
        {Member(d) : d \in {d \in Objects : o \in Parts(Owns(Objects), d)}}
  BY DEF Holders
<1>2. /\ "source" \in Objects /\ "tb" \in Objects
      /\ o \in {"source", "sink", "tb", "monitor"}
            \/ (o = "accum" /\ o \in Parts(Owns(Objects), "tb"))
      /\ \A d \in Objects : "tb" \notin Parts(Owns(Objects), d)
  <2>1. "source" \in Objects /\ "tb" \in Objects
    BY ObjectsAre, OwnsIs
  <2>2. CASE WithAccumulator
    <3>1. /\ Parts(Owns(Objects), "tb") = {"accum"} /\ Parts(Owns(Objects), "accum") = {"monitor"}
          /\ Parts(Owns(Objects), "monitor") = {"sink"} /\ Parts(Owns(Objects), "sink") = {}
          /\ Parts(Owns(Objects), "source") = {}
          /\ Objects \subseteq {"source", "tb", "accum", "monitor", "sink"}
      BY <2>2, ObjectsAre, OwnsIs
    <3>2. \A d \in Objects : "tb" \notin Parts(Owns(Objects), d)
      BY <3>1
    <3>3. o \in {"source", "sink", "tb", "monitor"}
            \/ (o = "accum" /\ o \in Parts(Owns(Objects), "tb"))
      BY <3>1
    <3> QED BY <2>1, <3>2, <3>3
  <2>3. CASE ~WithAccumulator
    <3>1. /\ Parts(Owns(Objects), "tb") = {"monitor"} /\ Parts(Owns(Objects), "monitor") = {"sink"}
          /\ Parts(Owns(Objects), "sink") = {} /\ Parts(Owns(Objects), "source") = {}
          /\ Objects \subseteq {"source", "tb", "monitor", "sink"}
      BY <2>3, ObjectsAre, OwnsIs
    <3>2. \A d \in Objects : "tb" \notin Parts(Owns(Objects), d)
      BY <3>1
    <3>3. o \in {"source", "sink", "tb", "monitor"}
      BY <3>1
    <3> QED BY <2>1, <3>2, <3>3
  <2> QED BY <2>2, <2>3, <2>1
<1>3. {x.holder : x \in Tasks} = {Argument} \cup {Member(d) : d \in Objects}
        \cup {Local("sink"), Local("throughputMonitor"), Local("ds"), Local("tb"), Local("source")}
  BY TasksHold, LeavingIs
<1>4. Locals(o) \subseteq
        {Local("sink"), Local("throughputMonitor"), Local("ds"), Local("tb"), Local("source")}
  BY DEF Locals
<1>5. ConnectedHolders(o) \subseteq {x.holder : x \in Tasks}
  BY <1>1, <1>2, <1>3, <1>4 DEF ConnectedHolders
<1>6. /\ o = "source" => Local("source") \in ConnectedHolders(o)
      /\ o = "sink" => Local("sink") \in ConnectedHolders(o)
      /\ o = "monitor" => Local("ds") \in ConnectedHolders(o)
  BY DEF ConnectedHolders, Locals
<1>7. \A h \in Locals(o) : Release(h, o) \in SourceRoots["main"]
  <2>1. SourceRoots["main"] = Range(LeavingMain)
    BY ObjectsAre DEF SourceRoots
  <2> QED BY <2>1, LeavingIs DEF Locals
<1>8. Holders(Objects, o) \subseteq ConnectedHolders(o)
  BY DEF ConnectedHolders
<1> QED BY <1>1, <1>2, <1>5, <1>6, <1>7, <1>8

\* main wires the objects.
LEMMA WireMemory ==
    ASSUME SourceTypes, SourceMemory, Wire
    PROVE  SourceMemory'
<1>1. /\ main = "wire" /\ main' = "start" /\ run = "none" /\ run' = run
      /\ alive' = Objects /\ todo' = todo
  BY DEF Wire, SourceTypes
<1>2. ASSUME NEW o \in Objects
      PROVE  refs'[o] = ConnectedHolders(o)
  <2>1. refs'[o] = {Member(d) : d \in {d \in Objects :
                                        \E i \in DOMAIN Owned(d) : Owned(d)[i] = o}}
                     \cup Locals(o)
    BY DEF Wire, Locals
  <2>2. ASSUME NEW d \in Objects
        PROVE  (\E i \in DOMAIN Owned(d) : Owned(d)[i] = o) <=>
                    o \in Parts(Owns(Objects), d) \/ (d = "source" /\ o = "tb")
    <3>1. "source" \notin Wired /\ "sink" \notin Wired /\ "monitor" \in Wired
      BY ChainIs, ExampleAssumption DEF ExampleAssumption
    <3>2. CASE d = "source"
      <4>1. Owned(d) = <<"tb">> /\ Parts(Owns(Objects), d) = {}
        BY <1>1, <3>1, <3>2, ObjectsAre, OwnsIs DEF Owned
      <4> QED BY <3>2, <4>1
    <3>3. CASE d # "source"
      <4>1. Owned(d) = Owns(Objects)[d]
        BY <3>1, <3>3 DEF Owned, Owns
      <4> QED BY <3>3, <4>1 DEF Parts, Range
    <3> QED BY <3>2, <3>3
  <2>3. "source" \in Objects
    BY ObjectsAre
  <2>4. {Member(d) : d \in {d \in Objects : \E i \in DOMAIN Owned(d) : Owned(d)[i] = o}}
          = Holders(Objects, o) \cup (IF o = "tb" THEN {Member("source")} ELSE {})
    <3>1. {d \in Objects : \E i \in DOMAIN Owned(d) : Owned(d)[i] = o}
            = {d \in Objects : o \in Parts(Owns(Objects), d) \/ (d = "source" /\ o = "tb")}
      BY <2>2
    <3>2. {Member(d) : d \in {d \in Objects :
                                o \in Parts(Owns(Objects), d) \/ (d = "source" /\ o = "tb")}}
          = {Member(d) : d \in {d \in Objects : o \in Parts(Owns(Objects), d)}}
                \cup (IF o = "tb" THEN {Member("source")} ELSE {})
      BY <2>3
    <3> QED BY <3>1, <3>2, ConnectedIs
  <2> QED BY <2>1, <2>4 DEF ConnectedHolders
<1>3. DOMAIN Owns(Objects) = Objects
  BY ObjectsAre, OwnsIs
<1>4. Referred(Owns(Objects), refs')
  BY <1>3 DEF Wire, Referred
<1>5. \A o \in Objects : refs'[o] \subseteq {x.holder : x \in Tasks}
  BY <1>2, ConnectedIs
<1>6. /\ Listed(SourceRoots, Tasks, todo) /\ \A t \in Threads : todo[t] = <<>>
      /\ todo["tb"] = <<>> /\ Spares(todo["source"], "source")
      /\ todo["main"] = <<>> /\ todo["source"] = <<>>
  BY <1>1 DEF SourceMemory
<1> QED BY <1>1, <1>2, <1>4, <1>5, <1>6 DEF SourceMemory

\* start(): all are connected, the source's thread holds what the source held.
LEMMA StartMemory ==
    ASSUME SourceTypes, SourceMemory, Start
    PROVE  SourceMemory'
<1> DEFINE own == Owns(Objects)
<1>1. /\ main = "start" /\ main' = "wait" /\ run = "none" /\ run' = "loop"
      /\ alive' = alive /\ alive = Objects /\ todo' = todo
      /\ refs' = [refs EXCEPT !["tb"] = (@ \ {Member("source")}) \cup {Argument}]
      /\ \A o \in Objects : refs[o] = ConnectedHolders(o)
      /\ refs = [o \in DOMAIN own |-> refs[o]]
  BY DEF Start, SourceTypes, SourceMemory, Referred
<1>2. /\ DOMAIN own = Objects /\ "tb" \in Objects /\ Parts(own, "source") = {}
      /\ DOMAIN SourceRoots = Threads /\ Threads = {"main", "source", "tb"}
      /\ SourceRoots["source"] = {Release(Argument, "tb")}
  BY ObjectsAre, OwnsIs DEF SourceRoots
<1> HIDE DEF own
<1>3. /\ refs'["tb"] = (ConnectedHolders("tb") \ {Member("source")}) \cup {Argument}
      /\ \A o \in Objects : o # "tb" => refs'[o] = ConnectedHolders(o)
      /\ refs' = [o \in DOMAIN own |-> refs'[o]]
  BY <1>1, <1>2
<1>4. \A d \in DOMAIN own : \A o \in Parts(own, d) : Member(d) \in refs'[o]
  <2> SUFFICES ASSUME NEW d \in DOMAIN own, NEW o \in Parts(own, d)
               PROVE  Member(d) \in refs'[o]
    OBVIOUS
  <2>1. o \in Objects
    <3>1. own \in [Objects -> Seq(Objects)]
      BY ObjectsAre, OwnsIs DEF own
    <3> QED BY <1>2, <3>1, RangeOfSeq DEF Parts
  <2>2. o # "tb" /\ Member(d) \in ConnectedHolders(o)
    BY <1>2, <2>1, ConnectedIs DEF own
  <2> QED BY <1>3, <2>1, <2>2
<1>5. \A o \in DOMAIN own : refs'[o] # {}
  BY <1>2, <1>3, <1>4, ConnectedIs DEF own
<1>6. ASSUME NEW o \in DOMAIN own, NEW h \in refs'[o]
      PROVE  \/ \E d \in DOMAIN own : h = Member(d) /\ o \in Parts(own, d)
             \/ \E t \in DOMAIN SourceRoots : Release(h, o) \in SourceRoots[t]
  <2>1. \/ h = Argument /\ o = "tb"
        \/ h \in Holders(Objects, o)
        \/ h \in Locals(o)
    BY <1>2, <1>3, <1>6 DEF ConnectedHolders
  <2>2. CASE h = Argument /\ o = "tb"
    BY <1>2, <2>2
  <2>3. CASE h \in Holders(Objects, o)
    BY <1>2, <2>3, ConnectedIs DEF own
  <2>4. CASE h \in Locals(o)
    BY <1>2, <2>4, ConnectedIs
  <2> QED BY <2>1, <2>2, <2>3, <2>4
<1>7. \A t \in Threads : todo[t] = <<>>
  BY <1>1 DEF SourceMemory
<1>8. Ownership(own, SourceRoots, SourceStopped', {}, refs', DOMAIN own, todo)
  BY <1>2, <1>4, <1>5, <1>6, <1>7, FreshOwnership
<1>9. SourceLeaving' = {}
  BY <1>1 DEF SourceLeaving
<1>10. \A o \in Objects : refs'[o] \subseteq {x.holder : x \in Tasks}
  BY <1>2, <1>3, ConnectedIs, TasksHold
<1>11. /\ Listed(SourceRoots, Tasks, todo) /\ alive \subseteq Objects
       /\ Spares(todo["source"], "source") /\ todo["tb"] = <<>>
       /\ todo["main"] = <<>> /\ todo["source"] = <<>>
  BY <1>1 DEF SourceMemory
<1>12. Ownership(own, SourceRoots, SourceStopped', SourceLeaving', refs', alive', todo')
  BY <1>1, <1>2, <1>8, <1>9
<1>13. Referred(own, refs') /\ Argument \in refs'["tb"]
  BY <1>3 DEF Referred
<1> QED BY <1>1, <1>10, <1>11, <1>12, <1>13 DEF SourceMemory, own

\* main leaves, the source's thread returns: they begin to drop their references.
LEMMA LeaveMemory ==
    ASSUME SourceTypes, SourceStream, SourceMemory, WaitAndLeave \/ ReturnFromRun
    PROVE  SourceMemory'
<1> DEFINE own == Owns(Objects)
<1>1. /\ DOMAIN SourceRoots = Threads /\ Threads = {"main", "source", "tb"}
      /\ SourceRoots["main"] = Range(LeavingMain)
      /\ SourceRoots["source"] = {Release(Argument, "tb")}
      /\ \A t \in Threads : SourceRoots[t] \subseteq Tasks
  BY ObjectsAre, TasksHold DEF SourceRoots
<1>2. Listed(SourceRoots, Tasks, todo) /\ Owners(own, SourceRoots)
  BY SourceOwners DEF SourceMemory
<1> HIDE DEF own
<1>3. /\ Referred(own, refs) /\ alive \subseteq Objects
      /\ \A o \in Objects : refs[o] \subseteq {x.holder : x \in Tasks}
      /\ todo["tb"] = <<>> /\ Spares(todo["source"], "source")
      /\ run # "none" =>
            Ownership(own, SourceRoots, SourceStopped, SourceLeaving, refs, alive, todo)
  BY DEF SourceMemory, own
<1>4. CASE WaitAndLeave
  <2>1. PICK s : s = LeavingMain
    OBVIOUS
  <2>2. /\ main = "wait" /\ main' = "leave" /\ run' = run /\ UNCHANGED <<refs, alive>>
        /\ run # "none" /\ PP!Wait("monitor") /\ todo' = [todo EXCEPT !["main"] = s]
    BY <1>4, <2>1, SourcePipe DEF WaitAndLeave, SourceTypes
  <2>3. todo["main"] = <<>> /\ (run # "leave" => todo["source"] = <<>>)
        /\ (run \in {"loop", "block", "end", "eop", "return"} => Argument \in refs["tb"])
    BY <2>2 DEF SourceMemory
  <2>4. s \in Seq(Tasks) /\ Range(s) = SourceRoots["main"]
    <3>1. s \in Seq(Range(LeavingMain)) /\ Range(LeavingMain) \subseteq Tasks
      BY <1>1, <2>1, LeavingIs
    <3> QED BY <1>1, <2>1, <3>1
  <2>5. /\ Ownership(own, SourceRoots, SourceStopped, SourceLeaving \cup {"main"}, refs, alive, todo')
        /\ Listed(SourceRoots, Tasks, todo')
    BY <1>1, <1>2, <1>3, <2>2, <2>3, <2>4, LeavingKeeps
  <2>6. SourceStopped' = SourceStopped /\ SourceLeaving' = SourceLeaving \cup {"main"}
    <3>1. thread' = thread
      BY <2>2, WaitIsStep DEF SourceStream
    <3> QED BY <2>2, <3>1 DEF SourceStopped, ThreadEnded, SourceLeaving
  <2>7. todo'["tb"] = todo["tb"] /\ todo'["source"] = todo["source"]
    BY <1>1, <1>2, <2>2 DEF Listed
  <2> QED BY <1>3, <2>2, <2>3, <2>5, <2>6, <2>7 DEF SourceMemory, own
<1>5. CASE ReturnFromRun
  <2>1. PICK s : s = <<Release(Argument, "tb")>>
    OBVIOUS
  <2>2. /\ run = "return" /\ run' = "leave" /\ main' = main /\ UNCHANGED <<refs, alive, thread>>
        /\ todo' = [todo EXCEPT !["source"] = s]
    BY <1>5, <2>1 DEF ReturnFromRun, pipeline, Release
  <2>3. todo["source"] = <<>> /\ (main \notin {"leave", "killed"} => todo["main"] = <<>>)
    BY <2>2 DEF SourceMemory
  <2>4. s \in Seq(Tasks) /\ Range(s) = SourceRoots["source"]
    BY <1>1, <2>1, OneTask
  <2>5. /\ Ownership(own, SourceRoots, SourceStopped, SourceLeaving \cup {"source"}, refs, alive,
                     todo')
        /\ Listed(SourceRoots, Tasks, todo')
    BY <1>1, <1>2, <1>3, <2>2, <2>3, <2>4, LeavingKeeps
  <2>6. SourceStopped' = SourceStopped /\ SourceLeaving' = SourceLeaving \cup {"source"}
    BY <2>2 DEF SourceStopped, ThreadEnded, SourceLeaving
  <2>7. todo'["tb"] = todo["tb"] /\ todo'["main"] = todo["main"] /\ todo'["source"] = s
    BY <1>1, <1>2, <2>2 DEF Listed
  <2>8. main' # "start"
    BY <2>2 DEF SourceTypes
  <2>9. Spares(s, "source")
    BY <1>1, <2>4, TaskFields DEF Spares
  <2> QED BY <1>3, <2>2, <2>3, <2>5, <2>6, <2>7, <2>8, <2>9 DEF SourceMemory, own
<1> QED BY <1>4, <1>5

\* A thread drops references, joins and frees.
LEMMA TeardownMemory ==
    ASSUME SourceTypes, SourceMemory, NEW t \in Threads, Teardown(t)
    PROVE  SourceMemory'
<1>1. Memory!Teardown(t) /\ UNCHANGED <<main, run, thread>>
  BY DEF Teardown, control, pipeline
<1>2. todo[t] # <<>>
  BY <1>1 DEF Memory!Teardown, Memory!DoRelease, Memory!DoJoin, Memory!DoFree, Memory!Do
<1>3. run # "none" /\ t \in {"main", "source"} /\ main # "start"
      /\ (t = "main" => main \in {"leave", "killed"}) /\ (t = "source" => run = "leave")
  BY <1>2, ObjectsAre DEF SourceMemory, SourceTypes
<1>4. /\ Referred(Owns(Objects), refs) /\ Listed(SourceRoots, Tasks, todo)
      /\ Ownership(Owns(Objects), SourceRoots, SourceStopped, SourceLeaving, refs, alive, todo)
  BY <1>3 DEF SourceMemory
<1>5. /\ Ownership(Owns(Objects), SourceRoots, SourceStopped, SourceLeaving, refs', alive', todo')
      /\ Referred(Owns(Objects), refs') /\ Listed(SourceRoots, Tasks, todo')
      /\ alive' \subseteq alive /\ \A o \in Objects : refs'[o] \subseteq refs[o]
      /\ \A u \in Threads : u # t => todo'[u] = todo[u]
      /\ t # "source" /\ Argument \in refs["tb"] => Argument \in refs'["tb"]
      /\ Spares(todo[t], "source") => Spares(todo'[t], "source")
  BY <1>1, <1>3, <1>4, SourceTears
<1>6. SourceStopped' = SourceStopped /\ SourceLeaving' = SourceLeaving
  BY <1>1 DEF SourceStopped, ThreadEnded, SourceLeaving
<1>7. /\ todo'["tb"] = <<>> /\ Spares(todo'["source"], "source")
      /\ main \notin {"leave", "killed"} => todo'["main"] = <<>>
      /\ run # "leave" => todo'["source"] = <<>>
      /\ run \in {"loop", "block", "end", "eop", "return"} => Argument \in refs'["tb"]
  BY <1>3, <1>5, ObjectsAre DEF SourceMemory
<1>8. alive' \subseteq Objects /\ \A o \in Objects : refs'[o] \subseteq {x.holder : x \in Tasks}
  BY <1>5 DEF SourceMemory
<1> QED BY <1>1, <1>3, <1>5, <1>6, <1>7, <1>8 DEF SourceMemory

\* A thread is started for a push only, and the buffer is held while it lasts.
LEMMA SideMemory ==
    ASSUME SourceTypes, SourceStream, SourceMemory, Side, UNCHANGED <<control, memory>>
    PROVE  SourceMemory'
<1>1. /\ thread["tb"] \in {"none", "ended"} /\ offer["tb"] = PP!Empty =>
            thread'["tb"] = thread["tb"]
      /\ ~Untouched
  BY SideDoes DEF SourceStream
<1>2. thread["tb"] \in {"none", "ended"} /\ thread'["tb"] \notin {"none", "ended"} =>
        refs["tb"] # {}
  <2> SUFFICES ASSUME thread["tb"] \in {"none", "ended"},
                      thread'["tb"] \notin {"none", "ended"}
               PROVE  refs["tb"] # {}
    OBVIOUS
  <2>1. offer["tb"] # PP!Empty
    BY <1>1
  <2>2. run \notin {"none", "leave", "ended"}
    BY <1>1, <2>1 DEF SourceStream
  <2>3. CASE run \in {"loop", "block", "end", "eop", "return"}
    BY <2>3 DEF SourceMemory
  <2> QED BY <2>2, <2>3 DEF SourceTypes
<1> QED BY <1>2, MemoryKept DEF control

-----------------------------------------------------------------------------
\* The invariant holds at first.
LEMMA SourceBegins == Init => SourceInv
<1> SUFFICES ASSUME Init PROVE SourceInv
  OBVIOUS
<1>1. /\ PP!Init /\ main = "begin" /\ run = "none" /\ flag = 0 /\ stopFlag = 0
      /\ pushedAtHalt = NumBlocks /\ sigint = "print" /\ dangling = FALSE
      /\ refs = [o \in Objects |-> IF o = "source" THEN {Local("source")} ELSE {}]
      /\ alive = {"source"} /\ todo = [t \in Threads |-> <<>>]
  BY SourcePipe DEF Init
<1>2. NumBlocks \in Nat
  BY ExampleAssumption DEF ExampleAssumption
<1>3. SourceTypes
  <2>1. dangling \in BOOLEAN
    BY <1>1
  <2>2. /\ main = "begin" /\ run = "none" /\ flag = 0 /\ stopFlag = 0
        /\ pushedAtHalt = NumBlocks /\ sigint = "print"
    BY <1>1
  <2> QED BY <1>2, <2>1, <2>2 DEF SourceTypes
<1>4. Stream /\ Untouched /\ sent = <<>> /\ client = "pushing"
  BY <1>1, StreamBegins
<1>5. Pushed \in 0 .. NumBlocks
  BY <1>2, <1>4 DEF Pushed
<1>6. SourceStream
  BY <1>1, <1>4, <1>5 DEF SourceStream
<1>7. /\ "source" \in Objects /\ {"main", "source", "tb"} = Threads
      /\ DOMAIN Owns(Objects) = Objects /\ DOMAIN SourceRoots = Threads
  BY ObjectsAre, OwnsIs DEF SourceRoots
<1>8. Referred(Owns(Objects), refs)
  BY <1>1, <1>7 DEF Referred
<1>9. Listed(SourceRoots, Tasks, todo)
  BY <1>1, <1>7 DEF Listed
<1>10. \A o \in Objects : refs[o] \subseteq {x.holder : x \in Tasks}
  <2>1. Local("source") \in {x.holder : x \in Tasks}
    BY TasksHold, LeavingIs
  <2> QED BY <1>1, <2>1
<1>11. Spares(todo["source"], "source")
  BY <1>1, <1>7, NoTask DEF Spares
<1>12. SourceMemory
  BY <1>1, <1>7, <1>8, <1>9, <1>10, <1>11 DEF SourceMemory
<1> QED BY <1>3, <1>6, <1>12 DEF SourceInv

\* And each step keeps it.
LEMMA SourceGoesOn ==
    ASSUME SourceInv, [Next]_vars
    PROVE  SourceInv'
<1>1. SourceTypes /\ SourceStream /\ SourceMemory
  BY DEF SourceInv
<1>2. CASE InstallHandler \/ Wire \/ Start \/ WaitAndLeave \/ Exit
  <2>1. SourceStream' /\ SourceTypes'
    BY <1>1, <1>2, OtherStepsStream
  <2>2. CASE InstallHandler \/ Exit
    <3>1. /\ UNCHANGED memory /\ run' = run /\ UNCHANGED thread
          /\ \/ main = "begin" /\ main' = "wire"
             \/ main = "leave" /\ main' = "exited" /\ todo["main"] = <<>>
      BY <2>2 DEF InstallHandler, Exit, pipeline
    <3>2. SourceMemory'
      BY <1>1, <3>1, MemoryKept
    <3> QED BY <2>1, <3>2 DEF SourceInv
  <2> QED BY <1>1, <1>2, <2>1, <2>2, WireMemory, StartMemory, LeaveMemory DEF SourceInv
<1>3. CASE CheckLoop \/ PushBlock \/ ReloadFlag \/ PushEop \/ ReturnFromRun \/ EndThread
  <2>1. SourceStream' /\ SourceTypes'
    BY <1>1, <1>3, SourceStepsStream
  <2>2. CASE CheckLoop \/ PushBlock \/ ReloadFlag \/ PushEop \/ EndThread
    <3>1. UNCHANGED memory /\ main' = main /\ UNCHANGED thread
      <4>1. CASE PushBlock
        BY <1>1, <4>1, SourcePipe, BlockIsStep DEF PushBlock, SourceStream
      <4>2. CASE PushEop
        <5>1. PP!PushEop(EndStatus) /\ UNCHANGED memory /\ main' = main
          BY <4>2, SourcePipe DEF PushEop
        <5>2. EndStatus \in {"success", "cancelled"}
          BY <1>1 DEF EndStatus, SourceTypes
        <5> QED BY <1>1, <5>1, <5>2, EopIsStep DEF SourceStream
      <4> QED BY <2>2, <4>1, <4>2 DEF CheckLoop, ReloadFlag, EndThread, pipeline
    <3>2. \/ /\ run \in {"loop", "block", "end", "eop", "return"}
             /\ run' \in {"loop", "block", "end", "eop", "return"}
          \/ run = "leave" /\ run' = "ended" /\ todo["source"] = <<>>
      BY <2>2 DEF CheckLoop, PushBlock, ReloadFlag, PushEop, EndThread
    <3>3. SourceMemory'
      BY <1>1, <3>1, <3>2, MemoryKept
    <3> QED BY <2>1, <3>3 DEF SourceInv
  <2> QED BY <1>1, <1>3, <2>1, <2>2, LeaveMemory DEF SourceInv
<1>4. CASE Stop \/ Interrupt
  <2>1. SourceStream' /\ SourceTypes'
    BY <1>1, <1>4, HaltsStream
  <2>2. UNCHANGED memory /\ run' = run /\ UNCHANGED thread /\ main' \in {main, "killed"}
    BY <1>4 DEF Stop, Interrupt, pipeline, control
  <2>3. SourceMemory'
    BY <1>1, <2>2, MemoryKept
  <2> QED BY <2>1, <2>3 DEF SourceInv
<1>5. CASE \E t \in Threads : Teardown(t)
  BY <1>1, <1>5, OtherStepsStream, TeardownMemory DEF SourceInv
<1>6. CASE Side /\ UNCHANGED <<control, memory, interrupts>>
  BY <1>1, <1>6, OtherStepsStream, SideMemory DEF SourceInv
<1>7. CASE UNCHANGED vars
  <2>1. SourceStream' /\ SourceTypes'
    BY <1>1, <1>7, OtherStepsStream
  <2>2. UNCHANGED memory /\ run' = run /\ UNCHANGED thread /\ main' = main
    BY <1>7 DEF vars, pipeline, control
  <2>3. SourceMemory'
    BY <1>1, <2>2, MemoryKept
  <2> QED BY <2>1, <2>3 DEF SourceInv
<1>8. CASE BufferStep
  BY <1>6, <1>8, SourcePipe DEF BufferStep, Side
<1>9. CASE SourceStep
  <2>1. CASE /\ Pipe!StartThread("tb") \/ Pipe!Enqueue("tb") \/ Pipe!EnqueueTimesOut("tb")
             /\ UNCHANGED <<control, memory, interrupts>>
    BY <1>6, <2>1, SourcePipe DEF Side
  <2> QED BY <1>3, <1>5, <1>9, <2>1, ObjectsAre DEF SourceStep
<1>10. CASE MainStep
  BY <1>2, <1>5, <1>10, ObjectsAre DEF MainStep
<1> QED BY <1>4, <1>7, <1>8, <1>9, <1>10 DEF Next, Over

-----------------------------------------------------------------------------
(***************************************************************************)
(* What ownership says of the chain.                                       *)
(***************************************************************************)
\* As long as the buffer stands, so does all that its thread may call.
LEMMA ChainStands ==
    ASSUME NEW O, O = {"sink"} \cup Wired \/ O = {"source", "sink"} \cup Wired,
           NEW stopped, NEW r, NEW a, Standing(Owns(O), stopped, r, a),
           Stands(stopped, r, "tb")
    PROVE  Wired \cup {"sink"} \subseteq a
<1>1. /\ {"tb", "monitor", "sink"} \subseteq O /\ DOMAIN Owns(O) = O
      /\ WithAccumulator => "accum" \in O
      /\ Parts(Owns(O), "monitor") = {"sink"}
      /\ WithAccumulator => /\ Parts(Owns(O), "tb") = {"accum"}
                            /\ Parts(Owns(O), "accum") = {"monitor"}
      /\ ~WithAccumulator => Parts(Owns(O), "tb") = {"monitor"}
  BY OwnsIs
<1>2. ASSUME NEW d \in O, Stands(stopped, r, d)
      PROVE  d \in a /\ \A o \in Parts(Owns(O), d) : Stands(stopped, r, o)
  BY <1>1, <1>2 DEF Standing, Stands
<1>3. "tb" \in a /\ \A o \in Parts(Owns(O), "tb") : Stands(stopped, r, o)
  BY <1>1, <1>2
<1>4. /\ Stands(stopped, r, "monitor")
      /\ WithAccumulator => "accum" \in a
  <2>1. CASE WithAccumulator
    <3>1. Stands(stopped, r, "accum")
      BY <1>1, <1>3, <2>1
    <3>2. "accum" \in a /\ \A o \in Parts(Owns(O), "accum") : Stands(stopped, r, o)
      BY <1>1, <1>2, <2>1, <3>1
    <3> QED BY <1>1, <2>1, <3>2
  <2>2. CASE ~WithAccumulator
    BY <1>1, <1>3, <2>2
  <2> QED BY <2>1, <2>2
<1>5. "monitor" \in a /\ \A o \in Parts(Owns(O), "monitor") : Stands(stopped, r, o)
  BY <1>1, <1>2, <1>4
<1>6. "sink" \in a
  BY <1>1, <1>2, <1>5
<1> QED BY <1>3, <1>4, <1>5, <1>6, ChainIs, ExampleAssumption DEF ExampleAssumption

\* When the threads have dropped what they refer to, and have nothing left to do,
\* nothing is left: the buffer goes, then what it owns, and so on.
LEMMA ChainIsGone ==
    ASSUME NEW O, O = {"sink"} \cup Wired \/ O = {"source", "sink"} \cup Wired,
           NEW roots, NEW stopped, NEW leaving, NEW r, NEW a, NEW q, a \subseteq O,
           Ownership(Owns(O), roots, stopped, leaving, r, a, q),
           \A t \in DOMAIN roots : Range(q[t]) = {},
           \A t \in DOMAIN roots : roots[t] # {} => t \in leaving
    PROVE  a = {} /\ "tb" \in stopped
<1> DEFINE own == Owns(O)
<1>1. /\ {"tb", "monitor", "sink"} \subseteq O /\ DOMAIN own = O
      /\ WithAccumulator => "accum" \in O
      /\ Parts(own, "monitor") = {"sink"} /\ Parts(own, "sink") = {}
      /\ "source" \in O => Parts(own, "source") = {}
      /\ WithAccumulator => /\ Parts(own, "tb") = {"accum"}
                            /\ Parts(own, "accum") = {"monitor"}
                            /\ O \subseteq {"source", "tb", "accum", "monitor", "sink"}
      /\ ~WithAccumulator => /\ Parts(own, "tb") = {"monitor"}
                             /\ O \subseteq {"source", "tb", "monitor", "sink"}
  BY OwnsIs
<1> HIDE DEF own
<1>2. ASSUME NEW o \in O, \A d \in O : o \in Parts(own, d) => r[d] = {}
      PROVE  r[o] = {} /\ o \notin a /\ (o \in Joined => o \in stopped)
  <2>1. /\ Ownership(own, roots, stopped, leaving, r, a, q) /\ o \in DOMAIN own
        /\ \A d \in DOMAIN own : o \in Parts(own, d) => r[d] = {}
        /\ \A t \in DOMAIN roots : \A h : Release(h, o) \in roots[t] => t \in leaving
        /\ \A t \in DOMAIN roots : \A x \in Range(q[t]) : x.target # o
    BY <1>1, <1>2 DEF own
  <2> QED BY <2>1, IsGone
<1>3. CASE WithAccumulator
  <2>1. \A d \in O : "tb" \notin Parts(own, d) /\ "source" \notin Parts(own, d)
    BY <1>1, <1>3
  <2>2. \A d \in O : /\ "accum" \in Parts(own, d) => d = "tb"
                     /\ "monitor" \in Parts(own, d) => d = "accum"
                     /\ "sink" \in Parts(own, d) => d = "monitor"
    BY <1>1, <1>3
  <2>3. /\ r["tb"] = {} /\ "tb" \notin a /\ "tb" \in stopped
        /\ "source" \in O => "source" \notin a
    BY <1>1, <1>2, <2>1 DEF Joined
  <2>4. r["accum"] = {} /\ "accum" \notin a
    BY <1>1, <1>2, <1>3, <2>2, <2>3
  <2>5. r["monitor"] = {} /\ "monitor" \notin a
    BY <1>1, <1>2, <2>2, <2>4
  <2>6. "sink" \notin a
    BY <1>1, <1>2, <2>2, <2>5
  <2> QED BY <1>1, <1>3, <2>3, <2>4, <2>5, <2>6
<1>4. CASE ~WithAccumulator
  <2>1. \A d \in O : "tb" \notin Parts(own, d) /\ "source" \notin Parts(own, d)
    BY <1>1, <1>4
  <2>2. \A d \in O : /\ "monitor" \in Parts(own, d) => d = "tb"
                     /\ "sink" \in Parts(own, d) => d = "monitor"
    BY <1>1, <1>4
  <2>3. /\ r["tb"] = {} /\ "tb" \notin a /\ "tb" \in stopped
        /\ "source" \in O => "source" \notin a
    BY <1>1, <1>2, <2>1 DEF Joined
  <2>4. r["monitor"] = {} /\ "monitor" \notin a
    BY <1>1, <1>2, <2>2, <2>3
  <2>5. "sink" \notin a
    BY <1>1, <1>2, <2>2, <2>4
  <2> QED BY <1>1, <1>4, <2>3, <2>4, <2>5
<1> QED BY <1>3, <1>4

-----------------------------------------------------------------------------
(***************************************************************************)
(* What the invariant says of Source.cpp.                                  *)
(***************************************************************************)
\* Source.cpp keeps its types.
LEMMA SourceTyped == SourceInv => TypeOK
<1> SUFFICES ASSUME SourceInv PROVE TypeOK
  OBVIOUS
<1>1. Pipe!TypeOK
  BY StreamTypes, SourcePipe DEF SourceInv, SourceStream, Stream
<1>2. SourceTypes /\ SourceMemory
  BY DEF SourceInv
<1>3. todo \in [Threads -> Seq(Tasks)]
  <2>1. DOMAIN SourceRoots = Threads
    BY DEF SourceRoots
  <2> QED BY <1>2, <2>1 DEF SourceMemory, Listed
<1> QED BY <1>1, <1>2, <1>3 DEF TypeOK, SourceTypes, SourceMemory

\* While anything of the pipeline is in use the buffer stands: the source's thread
\* still holds it or the buffer's own thread has not ended.
LEMMA SourceSafe == SourceInv => NoUseAfterDestroy
<1> SUFFICES ASSUME SourceInv PROVE InUse \subseteq alive
  BY DEF NoUseAfterDestroy
<1>1. SourceTypes /\ SourceStream /\ SourceMemory /\ Stream
  BY DEF SourceInv, SourceStream
<1>2. /\ \A e \in Wired : call[e].at # "idle" => thread["tb"] = "pushing"
      /\ "monitor" \in Wired /\ "tb" \in Wired
  BY <1>1, StreamSays, ChainIs, ExampleAssumption DEF ExampleAssumption
<1>3. InUse \subseteq Wired \cup {"sink"}
  BY <1>2 DEF InUse
<1>4. ASSUME InUse # {}
      PROVE  run \in {"loop", "block", "end", "eop", "return"}
                \/ thread["tb"] \in {"waiting", "pushing"}
  BY <1>2, <1>4 DEF InUse
<1>5. CASE InUse = {}
  BY <1>5
<1>6. CASE run \in {"loop", "block", "end", "eop", "return"}
              \/ thread["tb"] \in {"waiting", "pushing"}
  <2>1. run # "none"
    BY <1>1, <1>6 DEF SourceStream, Untouched
  <2>2. Standing(Owns(Objects), SourceStopped, refs, alive)
    BY <1>1, <2>1 DEF SourceMemory, Ownership
  <2>3. Stands(SourceStopped, refs, "tb")
    BY <1>1, <1>6 DEF SourceMemory, Stands, SourceStopped, Joined, ThreadEnded
  <2>4. Wired \cup {"sink"} \subseteq alive
    BY <2>2, <2>3, ObjectsAre, ChainStands
  <2> QED BY <1>3, <2>4
<1> QED BY <1>4, <1>5, <1>6

\* The status that Source.cpp's main reads from the sink is true of the stream: it
\* is that of the end which the source pushed, and of no error.
LEMMA SourceReports == SourceInv => StatusIsTrue
<1> SUFFICES ASSUME SourceInv PROVE StatusIsTrue
  OBVIOUS
<1>1. SourceTypes /\ SourceStream /\ Stream
  BY DEF SourceInv, SourceStream
<1>2. CASE status["monitor"] = "unset"
  BY <1>2 DEF StatusIsTrue
<1>3. CASE status["monitor"] # "unset"
  <2>1. client = "done" /\ seen["monitor"] = sent /\ status["monitor"] = sent[Len(sent)].eop
    BY <1>1, <1>3, StreamSays
  <2>2. status["monitor"] = EndStatus /\ run \in {"return", "leave", "ended"}
    BY <1>1, <2>1 DEF SourceStream
  <2>3. Pushed = Len(sent) - 1 /\ Len(sent) \in Nat /\ NumBlocks \in Nat
    BY <1>1, <2>1, PushedIs, ExampleAssumption DEF ExampleAssumption
  <2>4. stopFlag \in {0, 1, 2}
    BY <1>1 DEF SourceTypes
  <2>5. CASE stopFlag = 0
    <3>1. status["monitor"] = "success" /\ Pushed = NumBlocks
      BY <1>1, <2>2, <2>5 DEF EndStatus, SourceStream
    <3>2. Len(seen["monitor"]) = NumBlocks + 1
      BY <2>1, <2>3, <3>1
    <3> QED BY <3>1, <3>2 DEF StatusIsTrue
  <2>6. CASE stopFlag = 1
    BY <2>2, <2>6 DEF EndStatus, StatusIsTrue
  <2>7. CASE stopFlag = 2
    BY <1>1, <2>2, <2>7 DEF EndStatus, StatusIsTrue, SourceStream
  <2> QED BY <2>4, <2>5, <2>6, <2>7
<1> QED BY <1>2, <1>3

\* After stop(), cancel() or an interrupt, the source pushes the block it is at and
\* then the end.
LEMMA SourceHalts == SourceInv => HaltTakesEffect
  BY DEF SourceInv, SourceStream, HaltTakesEffect

\* main has joined the source's thread before it returns, for the source is never
\* destroyed by that thread itself; then all references are dropped.
LEMMA SourceLeaves == SourceInv => NothingLeft
<1> SUFFICES ASSUME SourceInv, main = "exited"
             PROVE  alive = {} /\ run = "ended" /\ thread["tb"] = "ended"
  BY DEF NothingLeft
<1> DEFINE own == Owns(Objects)
<1>1. SourceTypes /\ SourceStream /\ SourceMemory /\ Stream
  BY DEF SourceInv, SourceStream
<1>2. run # "none" /\ todo["main"] = <<>> /\ todo["tb"] = <<>> /\ Spares(todo["source"], "source")
      /\ alive \subseteq Objects
  BY <1>1 DEF SourceTypes, SourceMemory
<1>3. Ownership(own, SourceRoots, SourceStopped, SourceLeaving, refs, alive, todo)
  BY <1>1, <1>2 DEF SourceMemory
<1>4. /\ DOMAIN own = Objects /\ "source" \in Objects /\ DOMAIN SourceRoots = Threads
      /\ Threads = {"main", "source", "tb"}
      /\ SourceRoots["main"] = Range(LeavingMain)
      /\ SourceRoots["source"] = {Release(Argument, "tb")} /\ SourceRoots["tb"] = {}
  BY ObjectsAre, OwnsIs DEF SourceRoots
<1>5. \A d \in Objects : "source" \notin Parts(own, d)
  <2>1. own \in [Objects -> Seq(Objects)]
    BY ObjectsAre, OwnsIs
  <2>2. CASE WithAccumulator
    <3>1. /\ Parts(own, "tb") = {"accum"} /\ Parts(own, "accum") = {"monitor"}
          /\ Parts(own, "monitor") = {"sink"} /\ Parts(own, "sink") = {}
          /\ Parts(own, "source") = {}
          /\ Objects \subseteq {"source", "tb", "accum", "monitor", "sink"}
      BY <2>2, ObjectsAre, OwnsIs
    <3> QED BY <3>1
  <2>3. CASE ~WithAccumulator
    <3>1. /\ Parts(own, "tb") = {"monitor"} /\ Parts(own, "monitor") = {"sink"}
          /\ Parts(own, "sink") = {} /\ Parts(own, "source") = {}
          /\ Objects \subseteq {"source", "tb", "monitor", "sink"}
      BY <2>3, ObjectsAre, OwnsIs
    <3> QED BY <3>1
  <2> QED BY <2>2, <2>3
<1>6. "main" \in SourceLeaving
  BY DEF SourceLeaving
<1> HIDE DEF own
<1>7. "source" \in SourceStopped
  <2>1. \A t \in DOMAIN SourceRoots : \A x \in Range(todo[t]) : x.target # "source"
    BY <1>2, <1>4, NoTask DEF Spares
  <2>2. \A t \in DOMAIN SourceRoots : \A h : Release(h, "source") \in SourceRoots[t]
            => t \in SourceLeaving
    <3>1. \A h : Release(h, "source") # Release(Argument, "tb")
      BY TaskFields
    <3> QED BY <1>4, <1>6, <3>1
  <2>3. \A d \in DOMAIN own : "source" \in Parts(own, d) => refs[d] = {}
    BY <1>4, <1>5
  <2>4. "source" \in DOMAIN own /\ "source" \in Joined
    BY <1>4 DEF Joined
  <2> QED BY <1>3, <2>1, <2>2, <2>3, <2>4, IsGone
<1>8. run = "ended"
  BY <1>2, <1>7 DEF SourceStopped, ThreadEnded
<1>9. "source" \in SourceLeaving /\ todo["source"] = <<>>
  BY <1>1, <1>8 DEF SourceLeaving, SourceMemory
<1>10. \A t \in DOMAIN SourceRoots : Range(todo[t]) = {}
                                      /\ (SourceRoots[t] # {} => t \in SourceLeaving)
  BY <1>2, <1>4, <1>6, <1>9, NoTask
<1>11. alive = {} /\ "tb" \in SourceStopped
  <2>1. /\ Objects = {"sink"} \cup Wired \/ Objects = {"source", "sink"} \cup Wired
        /\ \A t \in DOMAIN SourceRoots : Range(todo[t]) = {}
        /\ \A t \in DOMAIN SourceRoots : SourceRoots[t] # {} => t \in SourceLeaving
        /\ Ownership(Owns(Objects), SourceRoots, SourceStopped, SourceLeaving, refs, alive, todo)
        /\ alive \subseteq Objects
    BY <1>2, <1>3, <1>10, ObjectsAre DEF own
  <2> QED BY <2>1, ChainIsGone
<1>12. thread["tb"] \in {"none", "ended"}
  BY <1>11 DEF SourceStopped, ThreadEnded
<1>13. thread["tb"] # "none"
  BY <1>1, <1>8, StreamSays DEF SourceStream
<1> QED BY <1>8, <1>11, <1>12, <1>13

-----------------------------------------------------------------------------
(***************************************************************************)
(* The invariant of Simple.cpp.                                            *)
(***************************************************************************)
SimpleTypes ==
    /\ simpleMain \in {"begin", "handler", "wire", "loop", "block", "eop", "wait", "log",
                       "leave", "exited", "killed"}
    /\ cancel \in BOOLEAN
    /\ pushedAtCancel \in 0 .. NumBlocks + 1
    /\ sigint \in {"none", "print", "cancel", "kill"}

\* After the flag is set one block may follow, and the end.
SimpleStream ==
    /\ Stream
    /\ simpleMain \in {"begin", "handler", "wire", "loop", "block", "eop"} => client = "pushing"
    /\ simpleMain \in {"wait", "log", "leave", "exited"} => client = "done"
    /\ simpleMain \in {"begin", "handler", "wire"} => Untouched
    /\ simpleMain \in {"log", "leave", "exited"} =>
            status["monitor"] # "unset" /\ offer["tb"] = PP!Empty
    /\ Len(sent) <= NumBlocks + 1
    /\ client = "pushing" => Len(sent) <= NumBlocks
    /\ cancel =>
        /\ Len(sent) <= pushedAtCancel + 2
        /\ simpleMain \in {"begin", "handler", "wire", "loop", "eop"} =>
                Len(sent) <= pushedAtCancel + 1
        /\ simpleMain = "block" => Len(sent) <= pushedAtCancel

\* The same of Simple.cpp: the only thread beside main's is the buffer's.
SimpleStopped == IF thread["tb"] \in {"none", "ended"} THEN {"tb"} ELSE {}
SimpleLeaving == IF simpleMain \in {"leave", "exited"} THEN {"main"} ELSE {}
SimpleTasks ==
    Range(Simple!LeavingMain)
        \cup UNION {Duties(Owns(Simple!Objects), d) : d \in Simple!Objects}

\* The objects are owned as said above from the time they are connected, and
\* main keeps the buffer until it leaves.
SimpleMemory ==
    /\ Referred(Owns(Simple!Objects), refs) /\ Listed(SimpleRoots, SimpleTasks, todo)
    /\ alive \subseteq Simple!Objects
    /\ \A o \in Simple!Objects :
        refs[o] \subseteq {Member(d) : d \in Simple!Objects}
            \cup {Simple!LeavingMain[i].holder : i \in DOMAIN Simple!LeavingMain}
    /\ simpleMain \notin {"begin", "handler", "wire", "killed"} =>
        Ownership(Owns(Simple!Objects), SimpleRoots, SimpleStopped, SimpleLeaving,
                  refs, alive, todo)
    /\ simpleMain \notin {"leave", "killed"} => todo["main"] = <<>>
    /\ simpleMain \in {"loop", "block", "eop", "wait", "log"} => Local("tb") \in refs["tb"]

SimpleInv == SimpleTypes /\ SimpleStream /\ SimpleMemory

-----------------------------------------------------------------------------
(***************************************************************************)
(* The steps of Simple.cpp.                                                *)
(***************************************************************************)
\* A step that moves neither the client nor the flag.
LEMMA SimpleKept ==
    ASSUME SimpleTypes, SimpleStream, Stream', UNCHANGED <<client, sent, cancel, pushedAtCancel>>,
           simpleMain \in {"begin", "handler", "wire"} => Untouched' = Untouched,
           status["monitor"] # "unset" => status'["monitor"] = status["monitor"],
           offer["tb"] = PP!Empty => offer'["tb"] = PP!Empty,
           \/ simpleMain' \in {simpleMain, "killed"}
           \/ simpleMain = "begin" /\ simpleMain' = "handler"
           \/ simpleMain = "handler" /\ simpleMain' = "wire"
           \/ simpleMain = "wire" /\ simpleMain' = "loop"
           \/ simpleMain = "log" /\ simpleMain' = "leave"
           \/ simpleMain = "leave" /\ simpleMain' = "exited",
           sigint' \in {"none", "print", "cancel", "kill"}
    PROVE  SimpleStream' /\ SimpleTypes'
<1>1. SimpleTypes'
  BY DEF SimpleTypes
<1>2. simpleMain' \in {"begin", "handler", "wire"} => Untouched'
  BY DEF SimpleStream
<1>3. cancel' =>
        /\ Len(sent') <= pushedAtCancel' + 2
        /\ simpleMain' \in {"begin", "handler", "wire", "loop", "eop"} =>
                Len(sent') <= pushedAtCancel' + 1
        /\ simpleMain' = "block" => Len(sent') <= pushedAtCancel'
  BY DEF SimpleStream
<1>4. /\ simpleMain' \in {"begin", "handler", "wire", "loop", "block", "eop"} => client' = "pushing"
      /\ simpleMain' \in {"wait", "log", "leave", "exited"} => client' = "done"
      /\ simpleMain' \in {"log", "leave", "exited"} =>
            status'["monitor"] # "unset" /\ offer'["tb"] = PP!Empty
      /\ Len(sent') <= NumBlocks + 1
      /\ client' = "pushing" => Len(sent') <= NumBlocks
  BY DEF SimpleStream
<1> QED BY <1>1, <1>2, <1>3, <1>4 DEF SimpleStream

\* The steps that push, wait, or interrupt.
LEMMA SimpleStepsStream ==
    ASSUME SimpleTypes, SimpleStream,
           Simple!CheckLoop \/ Simple!PushBlock \/ Simple!PushEop \/ Simple!Wait \/ Simple!Interrupt
    PROVE  SimpleStream' /\ SimpleTypes'
<1>1. Stream /\ Len(sent) \in Nat /\ NumBlocks \in Nat /\ pushedAtCancel \in Nat
  BY StreamTypes, ExampleAssumption DEF SimpleStream, Stream, ExampleAssumption, SimpleTypes
<1>2. ASSUME UNCHANGED pipeline
      PROVE  /\ Stream' /\ UNCHANGED <<client, sent, offer, thread, status>>
             /\ Untouched' = Untouched
  BY <1>1, <1>2, StreamStays DEF pipeline, Untouched
<1>3. CASE Simple!CheckLoop
  <2>1. /\ simpleMain = "loop" /\ UNCHANGED <<cancel, pushedAtCancel, sigint>>
        /\ UNCHANGED pipeline /\ simpleMain' \in {"block", "eop"}
        /\ simpleMain' = "block" => ~cancel
    BY <1>3 DEF Simple!CheckLoop, Simple!GoesOn, Simple!pipeline, pipeline
  <2>2. SimpleTypes'
    BY <2>1 DEF SimpleTypes
  <2> QED BY <1>1, <1>2, <2>1, <2>2 DEF SimpleStream
<1>4. CASE Simple!PushBlock
  <2>1. /\ PP!PushBlock /\ simpleMain = "block" /\ simpleMain' = "loop"
        /\ UNCHANGED <<cancel, pushedAtCancel, sigint>>
    BY <1>4, SimplePipe DEF Simple!PushBlock
  <2>2. /\ Stream' /\ client = "pushing" /\ client' = client
        /\ Len(sent') = Len(sent) + 1 /\ Len(sent) < NumBlocks
    BY <1>1, <2>1, BlockIsStep
  <2>3. SimpleTypes'
    BY <2>1 DEF SimpleTypes
  <2>4. cancel => Len(sent) <= pushedAtCancel
    BY <2>1 DEF SimpleStream
  <2>5. /\ cancel => Len(sent') <= pushedAtCancel + 1 /\ Len(sent') <= pushedAtCancel + 2
        /\ Len(sent') <= NumBlocks /\ Len(sent') <= NumBlocks + 1
    BY <1>1, <2>2, <2>4
  <2> QED BY <2>1, <2>2, <2>3, <2>5 DEF SimpleStream
<1>5. CASE Simple!PushEop
  <2>1. /\ PP!PushEop("success") /\ simpleMain = "eop" /\ simpleMain' = "wait"
        /\ UNCHANGED <<cancel, pushedAtCancel, sigint>>
    BY <1>5, SimplePipe DEF Simple!PushEop
  <2>2. /\ Stream' /\ client = "pushing" /\ client' = "done" /\ Len(sent') = Len(sent) + 1
    BY <1>1, <2>1, EopIsStep
  <2>3. SimpleTypes'
    BY <2>1 DEF SimpleTypes
  <2>4. Len(sent) <= NumBlocks /\ (cancel => Len(sent) <= pushedAtCancel + 1)
    BY <2>1, <2>2 DEF SimpleStream
  <2>5. Len(sent') <= NumBlocks + 1 /\ (cancel => Len(sent') <= pushedAtCancel + 2)
    BY <1>1, <2>2, <2>4
  <2> QED BY <2>1, <2>2, <2>3, <2>5 DEF SimpleStream
<1>6. CASE Simple!Wait
  <2>1. /\ PP!Wait("monitor") /\ ~PP!Pending("tb") /\ simpleMain = "wait" /\ simpleMain' = "log"
        /\ UNCHANGED <<cancel, pushedAtCancel, sigint>>
    BY <1>6, SimplePipe DEF Simple!Wait, Simple!Returned
  <2>2. Stream' /\ status["monitor"] # "unset" /\ UNCHANGED <<client, sent, offer, status>>
    BY <1>1, <2>1, WaitIsStep
  <2>3. offer["tb"] = PP!Empty
    BY <2>1 DEF PP!Pending
  <2>4. SimpleTypes'
    BY <2>1 DEF SimpleTypes
  <2> QED BY <2>1, <2>2, <2>3, <2>4 DEF SimpleStream
<1>7. CASE Simple!Interrupt
  <2>1. UNCHANGED pipeline
    BY <1>7 DEF Simple!Interrupt, Simple!pipeline, pipeline
  <2>2. CASE sigint \in {"none", "kill"} \/ sigint = "print"
    <3>1. /\ UNCHANGED <<cancel, pushedAtCancel>> /\ simpleMain' \in {simpleMain, "killed"}
          /\ sigint' \in {sigint, "kill"}
      BY <1>7, <2>2 DEF Simple!Interrupt
    <3>2. sigint' \in {"none", "print", "cancel", "kill"}
      BY <3>1 DEF SimpleTypes
    <3> QED BY <1>2, <2>1, <3>1, <3>2, SimpleKept
  <2>3. CASE sigint = "cancel"
    <3>1. /\ sigint' = "kill" /\ cancel' = TRUE /\ pushedAtCancel' = Len(sent)
          /\ simpleMain' = simpleMain
      BY <1>7, <2>3 DEF Simple!Interrupt
    <3>2. pushedAtCancel' \in 0 .. NumBlocks + 1
      BY <1>1, <3>1 DEF SimpleStream
    <3>3. SimpleTypes'
      BY <3>1, <3>2 DEF SimpleTypes
    <3>4. /\ Len(sent) <= pushedAtCancel' /\ Len(sent) <= pushedAtCancel' + 1
          /\ Len(sent) <= pushedAtCancel' + 2
      BY <1>1, <3>1
    <3> QED BY <1>2, <2>1, <3>1, <3>3, <3>4 DEF SimpleStream
  <2> QED BY <2>2, <2>3 DEF SimpleTypes
<1> QED BY <1>3, <1>4, <1>5, <1>6, <1>7

\* The other steps of main, and those of the pipeline.
LEMMA SimpleOthersStream ==
    ASSUME SimpleTypes, SimpleStream,
           \/ Simple!RegisterSignalHandlers \/ Simple!RegisterInterruptHandler \/ Simple!Wire
           \/ Simple!LogTotal \/ Simple!Exit \/ Simple!Teardown
           \/ Side /\ UNCHANGED <<simpleMain, cancel, pushedAtCancel, memory, sigint>>
           \/ UNCHANGED Simple!vars
    PROVE  SimpleStream' /\ SimpleTypes'
<1>1. Stream
  BY DEF SimpleStream
<1>2. CASE \/ Simple!RegisterSignalHandlers \/ Simple!RegisterInterruptHandler \/ Simple!Wire
           \/ Simple!LogTotal \/ Simple!Exit \/ Simple!Teardown \/ UNCHANGED Simple!vars
  <2>1. UNCHANGED pipeline /\ UNCHANGED <<cancel, pushedAtCancel>>
    BY <1>2 DEF Simple!RegisterSignalHandlers, Simple!RegisterInterruptHandler, Simple!Wire,
      Simple!LogTotal, Simple!Exit, Simple!Teardown, Simple!vars, Simple!pipeline, pipeline
  <2>2. \/ simpleMain' = simpleMain
        \/ simpleMain = "begin" /\ simpleMain' = "handler"
        \/ simpleMain = "handler" /\ simpleMain' = "wire"
        \/ simpleMain = "wire" /\ simpleMain' = "loop"
        \/ simpleMain = "log" /\ simpleMain' = "leave"
        \/ simpleMain = "leave" /\ simpleMain' = "exited"
    BY <1>2 DEF Simple!RegisterSignalHandlers, Simple!RegisterInterruptHandler, Simple!Wire,
      Simple!LogTotal, Simple!Exit, Simple!Teardown, Simple!vars
  <2>3. sigint' \in {sigint, "print", "cancel"}
    BY <1>2 DEF Simple!RegisterSignalHandlers, Simple!RegisterInterruptHandler, Simple!Wire,
      Simple!LogTotal, Simple!Exit, Simple!Teardown, Simple!vars
  <2>4. sigint' \in {"none", "print", "cancel", "kill"}
    BY <2>3 DEF SimpleTypes
  <2>5. /\ Stream' /\ UNCHANGED <<client, sent, offer, thread, status>>
        /\ Untouched' = Untouched
    BY <1>1, <2>1, StreamStays DEF pipeline, Untouched
  <2> QED BY <2>1, <2>2, <2>4, <2>5, SimpleKept
<1>3. CASE Side /\ UNCHANGED <<simpleMain, cancel, pushedAtCancel, memory, sigint>>
  <2>1. Stream' /\ UNCHANGED <<client, sent>>
    BY <1>1, <1>3, SideIsStep
  <2>2. /\ ~Untouched /\ (offer["tb"] = PP!Empty => offer'["tb"] = PP!Empty)
        /\ status["monitor"] # "unset" => status'["monitor"] = status["monitor"]
    BY <1>1, <1>3, SideDoes
  <2>3. simpleMain \notin {"begin", "handler", "wire"}
    BY <2>2 DEF SimpleStream
  <2>4. sigint' \in {"none", "print", "cancel", "kill"}
    BY <1>3 DEF SimpleTypes
  <2> QED BY <1>3, <2>1, <2>2, <2>3, <2>4, SimpleKept
<1> QED BY <1>2, <1>3

-----------------------------------------------------------------------------
\* The two modules name tasks and holders alike.
LEMMA SimpleNames ==
    /\ \A h, o : Simple!Memory!Release(h, o) = Release(h, o)
    /\ \A o : Simple!Memory!Join(o) = Join(o) /\ Simple!Memory!Free(o) = Free(o)
    /\ \A d : Simple!Member(d) = Member(d)
    /\ \A v : Simple!Local(v) = Local(v)
  BY DEF Simple!Memory!Release, Simple!Memory!Join, Simple!Memory!Free, Release, Join, Free,
    Memory!Release, Memory!Join, Memory!Free, Simple!Member, Member, Simple!Local, Local

\* The objects of Simple.cpp refer to each other as Owns says, from the beginning.
LEMMA SimpleOwns == [o \in Simple!Objects |-> Simple!Owned(o)] = Owns(Simple!Objects)
<1>1. Simple!Connected = Connected
  BY DEF Simple!Connected, Connected, Simple!Wired, Wired, Simple!Chain, Chain
<1>2. ASSUME NEW o \in Simple!Objects
      PROVE  Simple!Owned(o) = Owns(Simple!Objects)[o]
  <2>1. "sink" \notin Wired /\ o \in {"sink"} \cup Wired
    BY ChainIs, ObjectsAre, ExampleAssumption DEF ExampleAssumption
  <2> QED BY <1>1, <2>1 DEF Simple!Owned, Owns
<1> QED BY <1>2 DEF Owns

\* SimpleTasks has all that Simple.cpp's destructors and its main ever have to do.
LEMMA SimpleTasksHold ==
    /\ DOMAIN SimpleRoots = {"main"} /\ SimpleRoots["main"] = Range(Simple!LeavingMain)
    /\ DOMAIN Owns(Simple!Objects) = Simple!Objects
    /\ {"tb", "monitor", "sink"} \subseteq Simple!Objects /\ "source" \notin Simple!Objects
    /\ \A d \in Simple!Objects : Duties(Owns(Simple!Objects), d) \subseteq SimpleTasks
    /\ Simple!LeavingMain \in Seq(SimpleTasks)
<1>1. /\ Simple!Threads = {"main"} /\ "source" \notin Simple!Objects
      /\ DOMAIN Owns(Simple!Objects) = Simple!Objects
      /\ {"tb", "monitor", "sink"} \subseteq Simple!Objects
  BY ObjectsAre, OwnsIs
<1>2. \A d \in Simple!Objects : Duties(Owns(Simple!Objects), d) \subseteq SimpleTasks
  BY DEF SimpleTasks
<1>3. Simple!LeavingMain \in Seq(SimpleTasks)
  <2>1. Range(Simple!LeavingMain) \subseteq SimpleTasks
    BY DEF SimpleTasks
  <2>2. Simple!LeavingMain \in Seq(Range(Simple!LeavingMain))
    BY LeavingIs
  <2>3. PICK s : s = Simple!LeavingMain
    OBVIOUS
  <2>4. PICK R : R = Range(Simple!LeavingMain)
    OBVIOUS
  <2>5. s \in Seq(R) /\ R \subseteq SimpleTasks
    BY <2>1, <2>2, <2>3, <2>4
  <2>6. s \in Seq(SimpleTasks)
    BY <2>5
  <2> QED BY <2>3, <2>6
<1> QED BY <1>1, <1>2, <1>3 DEF SimpleRoots

\* Releases, joins and frees of Simple.cpp.
LEMMA SimpleTears ==
    ASSUME Referred(Owns(Simple!Objects), refs), Listed(SimpleRoots, SimpleTasks, todo),
           NEW leaving,
           Ownership(Owns(Simple!Objects), SimpleRoots, SimpleStopped, leaving, refs, alive, todo),
           Simple!Memory!Teardown("main")
    PROVE  /\ Ownership(Owns(Simple!Objects), SimpleRoots, SimpleStopped, leaving,
                        refs', alive', todo')
           /\ Referred(Owns(Simple!Objects), refs') /\ Listed(SimpleRoots, SimpleTasks, todo')
           /\ alive' \subseteq alive /\ \A o \in Simple!Objects : refs'[o] \subseteq refs[o]
           /\ todo["main"] # <<>>
<1> DEFINE own == Owns(Simple!Objects)
           x == Head(todo["main"])
<1>1. /\ DOMAIN own = Simple!Objects /\ DOMAIN SimpleRoots = {"main"}
      /\ "source" \notin Simple!Objects
      /\ Owners(own, SimpleRoots) /\ \A d \in DOMAIN own : Duties(own, d) \subseteq SimpleTasks
  BY SimpleOwners, SimpleTasksHold
<1>2. todo["main"] # <<>>
  BY DEF Simple!Memory!Teardown, Simple!Memory!DoRelease, Simple!Memory!DoJoin,
    Simple!Memory!DoFree, Simple!Memory!Do
<1>3. CASE Simple!Memory!DoRelease("main")
  <2>1. x.do = "release" /\ alive' = alive
    BY <1>3 DEF Simple!Memory!DoRelease, Simple!Memory!Do
  <2>2. x.target \in Simple!Objects
    BY <1>1, <1>2, <2>1, NextTask DEF Ownership
  <2>3. Simple!Memory!Destructor(x.target) = Destroy(own, x.target)
    <3>1. [o \in Simple!Objects |-> Simple!Owned(o)] = own
      BY SimpleOwns
    <3> HIDE DEF own
    <3>2. Simple!Memory!ReleaseMembers(x.target) = ReleaseParts(own, x.target)
      BY <3>1, SimpleNames DEF Simple!Memory!ReleaseMembers, ReleaseParts
    <3>3. Simple!Memory!Joins(x.target) = (IF x.target \in Joined THEN <<Join(x.target)>> ELSE <<>>)
      BY <1>1, <2>2, SimpleNames DEF Simple!Memory!Joins, Joined
    <3> QED BY <3>2, <3>3, SimpleNames DEF Simple!Memory!Destructor, Destroy
  <2>4. Drops(own, "main", refs, todo, refs', todo')
    BY <1>3, <2>3 DEF Simple!Memory!DoRelease, Drops
  <2>5. /\ Owners(own, SimpleRoots) /\ Listed(SimpleRoots, SimpleTasks, todo) /\ Referred(own, refs)
        /\ Ownership(own, SimpleRoots, SimpleStopped, leaving, refs, alive, todo)
        /\ "main" \in DOMAIN SimpleRoots /\ todo["main"] # <<>> /\ Head(todo["main"]).do = "release"
        /\ Drops(own, "main", refs, todo, refs', todo')
        /\ \A d \in DOMAIN own : Duties(own, d) \subseteq SimpleTasks
    BY <1>1, <1>2, <2>1, <2>4
  <2>6. x.target \in DOMAIN own
    BY <1>1, <2>2
  <2> HIDE DEF own
  <2>7. /\ Ownership(own, SimpleRoots, SimpleStopped, leaving, refs', alive, todo')
        /\ Referred(own, refs')
    BY <2>5, ReleaseKeeps
  <2>8. Listed(SimpleRoots, SimpleTasks, todo')
    BY <2>5, ReleaseKeeps
  <2>9. \A o \in DOMAIN own : refs'[o] \subseteq refs[o]
    BY <2>4, <2>5, <2>6 DEF Drops, Referred
  <2> QED BY <1>1, <1>2, <2>1, <2>7, <2>8, <2>9 DEF own
<1>4. CASE Simple!Memory!DoJoin("main")
  <2>1. x.do = "join" /\ x.target \in SimpleStopped /\ refs' = refs /\ alive' = alive
    BY <1>4 DEF Simple!Memory!DoJoin, Simple!Memory!Do, SimpleStopped
  <2>2. Does("main", todo, todo')
    BY <1>4 DEF Simple!Memory!DoJoin, Does
  <2>3. /\ Owners(own, SimpleRoots) /\ Listed(SimpleRoots, SimpleTasks, todo)
        /\ Ownership(own, SimpleRoots, SimpleStopped, leaving, refs, alive, todo)
        /\ "main" \in DOMAIN SimpleRoots /\ todo["main"] # <<>> /\ Head(todo["main"]).do = "join"
        /\ Head(todo["main"]).target \in SimpleStopped /\ Does("main", todo, todo')
    BY <1>1, <1>2, <2>1, <2>2
  <2> HIDE DEF own, x
  <2>4. Ownership(own, SimpleRoots, SimpleStopped, leaving, refs, alive, todo')
    BY <2>3, JoinKeeps
  <2>5. Listed(SimpleRoots, SimpleTasks, todo')
    BY <2>3, JoinKeeps
  <2> QED BY <1>2, <2>1, <2>4, <2>5 DEF own
<1>5. CASE Simple!Memory!DoFree("main")
  <2>1. x.do = "free" /\ refs' = refs /\ alive' = alive \ {x.target}
    BY <1>5 DEF Simple!Memory!DoFree, Simple!Memory!Do
  <2>2. Does("main", todo, todo')
    BY <1>5 DEF Simple!Memory!DoFree, Does
  <2>3. /\ Owners(own, SimpleRoots) /\ Listed(SimpleRoots, SimpleTasks, todo)
        /\ Ownership(own, SimpleRoots, SimpleStopped, leaving, refs, alive, todo)
        /\ "main" \in DOMAIN SimpleRoots /\ todo["main"] # <<>> /\ Head(todo["main"]).do = "free"
        /\ alive' = alive \ {Head(todo["main"]).target} /\ Does("main", todo, todo')
    BY <1>1, <1>2, <2>1, <2>2
  <2> HIDE DEF own, x
  <2>4. Ownership(own, SimpleRoots, SimpleStopped, leaving, refs, alive', todo')
    BY <2>3, FreeKeeps
  <2>5. Listed(SimpleRoots, SimpleTasks, todo')
    BY <2>3, FreeKeeps
  <2> QED BY <1>2, <2>1, <2>4, <2>5 DEF own
<1> QED BY <1>3, <1>4, <1>5 DEF Simple!Memory!Teardown

\* A step of Simple.cpp that leaves the memory alone.
LEMMA SimpleMemoryKept ==
    ASSUME SimpleMemory, UNCHANGED memory,
           simpleMain \in {"begin", "handler", "wire", "killed"} =>
                simpleMain' \in {"begin", "handler", "wire", "killed"},
           simpleMain' \in {"leave", "exited"} => simpleMain \in {"leave", "exited"},
           simpleMain \in {"leave", "killed"} =>
                simpleMain' \in {"leave", "killed"} \/ todo["main"] = <<>>,
           simpleMain' \in {"loop", "block", "eop", "wait", "log"} =>
                simpleMain \in {"loop", "block", "eop", "wait", "log"},
           thread["tb"] \in {"none", "ended"} /\ thread'["tb"] \notin {"none", "ended"} =>
                refs["tb"] # {}
    PROVE  SimpleMemory'
<1>1. UNCHANGED <<refs, alive, todo>>
  BY DEF memory
<1>2. SimpleLeaving' \subseteq SimpleLeaving
  BY DEF SimpleLeaving
<1>3. \A d \in DOMAIN Owns(Simple!Objects) :
        d \in SimpleStopped /\ d \notin SimpleStopped' => refs[d] # {}
  BY DEF SimpleStopped
<1>4. simpleMain' \notin {"begin", "handler", "wire", "killed"} =>
        Ownership(Owns(Simple!Objects), SimpleRoots, SimpleStopped', SimpleLeaving',
                  refs, alive, todo)
  <2>1. ASSUME simpleMain \notin {"begin", "handler", "wire", "killed"}
        PROVE  Ownership(Owns(Simple!Objects), SimpleRoots, SimpleStopped, SimpleLeaving,
                         refs, alive, todo)
    BY <2>1 DEF SimpleMemory
  <2> QED BY <1>2, <1>3, <2>1, ThreadsKeep
<1>5. /\ simpleMain' \notin {"leave", "killed"} => todo["main"] = <<>>
      /\ simpleMain' \in {"loop", "block", "eop", "wait", "log"} => Local("tb") \in refs["tb"]
  BY DEF SimpleMemory
<1> QED BY <1>1, <1>4, <1>5 DEF SimpleMemory

\* main wires the objects of Simple.cpp.
LEMMA SimpleWireMemory ==
    ASSUME SimpleTypes, SimpleMemory, Simple!Wire
    PROVE  SimpleMemory'
<1> DEFINE own == Owns(Simple!Objects)
           to(o) == {Member(d) : d \in {d \in Simple!Objects : o \in Parts(own, d)}}
           by(o) == CASE o = "tb"      -> {Local("tb")}
                      [] o = "monitor" -> {Local("ds"), Local("throughputMonitor")}
                      [] o = "sink"    -> {Local("sink")}
                      [] OTHER         -> {}
<1>1. /\ simpleMain = "wire" /\ simpleMain' = "loop" /\ alive' = Simple!Objects /\ todo' = todo
      /\ refs' = [o \in Simple!Objects |->
                  {Simple!Member(d) : d \in {d \in Simple!Objects :
                     \E i \in DOMAIN Simple!Owned(d) : Simple!Owned(d)[i] = o}}
                  \cup (CASE o = "tb"      -> {Simple!Local("tb")}
                          [] o = "monitor" -> {Simple!Local("ds"), Simple!Local("throughputMonitor")}
                          [] o = "sink"    -> {Simple!Local("sink")}
                          [] OTHER         -> {})]
  BY DEF Simple!Wire
<1>2. /\ DOMAIN own = Simple!Objects /\ "tb" \in Simple!Objects /\ "monitor" \in Simple!Objects
      /\ DOMAIN SimpleRoots = {"main"} /\ SimpleRoots["main"] = Range(Simple!LeavingMain)
  BY SimpleTasksHold
<1>3. ASSUME NEW o \in Simple!Objects
      PROVE  refs'[o] = to(o) \cup by(o)
  <2>1. \A d \in Simple!Objects : Simple!Owned(d) = own[d]
    <3>1. own = [d \in Simple!Objects |-> Simple!Owned(d)]
      BY SimpleOwns
    <3> QED BY <3>1
  <2> HIDE DEF own
  <2>2. {d \in Simple!Objects : \E i \in DOMAIN Simple!Owned(d) : Simple!Owned(d)[i] = o}
            = {d \in Simple!Objects : o \in Parts(own, d)}
    BY <2>1 DEF Parts, Range
  <2>3. {Simple!Member(d) : d \in {d \in Simple!Objects :
            \E i \in DOMAIN Simple!Owned(d) : Simple!Owned(d)[i] = o}} = to(o)
    BY <2>2, SimpleNames
  <2>4. (CASE o = "tb"      -> {Simple!Local("tb")}
           [] o = "monitor" -> {Simple!Local("ds"), Simple!Local("throughputMonitor")}
           [] o = "sink"    -> {Simple!Local("sink")}
           [] OTHER         -> {}) = by(o)
    BY SimpleNames
  <2> HIDE DEF to, by
  <2> QED BY <1>1, <2>3, <2>4
<1>4. /\ by("tb") = {Local("tb")} /\ Local("ds") \in by("monitor") /\ Local("sink") \in by("sink")
      /\ \A o : \A h \in by(o) : Release(h, o) \in SimpleRoots["main"]
      /\ \A o : by(o) \subseteq {Simple!LeavingMain[i].holder : i \in DOMAIN Simple!LeavingMain}
  <2>1. /\ by("tb") = {Local("tb")} /\ by("sink") = {Local("sink")}
        /\ by("monitor") = {Local("ds"), Local("throughputMonitor")}
        /\ \A o : o \notin {"tb", "monitor", "sink"} => by(o) = {}
    OBVIOUS
  <2> HIDE DEF by
  <2>2. \A o : \A h \in by(o) : Release(h, o) \in SimpleRoots["main"]
    BY <1>2, <2>1, LeavingIs
  <2>3. \A o : by(o) \subseteq {Simple!LeavingMain[i].holder : i \in DOMAIN Simple!LeavingMain}
    BY <2>1, LeavingIs
  <2> QED BY <2>1, <2>2, <2>3
<1>5. \A o \in Simple!Objects : \A h \in to(o) :
        \E d \in DOMAIN own : h = Member(d) /\ o \in Parts(own, d)
  BY <1>2
<1>6. \A d \in DOMAIN own : \A o \in Parts(own, d) : o \in Simple!Objects /\ Member(d) \in to(o)
  <2>1. own \in [Simple!Objects -> Seq(Simple!Objects)]
    BY ObjectsAre, OwnsIs
  <2>2. \A d \in Simple!Objects : Parts(own, d) \subseteq Simple!Objects
    BY <2>1, RangeOfSeq DEF Parts
  <2> QED BY <1>2, <2>2
<1>7. \A o \in Simple!Objects : o \in {"tb", "monitor", "sink"}
                                \/ (o = "accum" /\ o \in Parts(own, "tb"))
  <2>1. CASE WithAccumulator
    <3>1. /\ Parts(own, "tb") = {"accum"} /\ "source" \notin Simple!Objects
          /\ Simple!Objects \subseteq {"source", "tb", "accum", "monitor", "sink"}
      BY <2>1, ObjectsAre, OwnsIs
    <3> QED BY <3>1
  <2>2. CASE ~WithAccumulator
    <3>1. /\ "source" \notin Simple!Objects
          /\ Simple!Objects \subseteq {"source", "tb", "monitor", "sink"}
      BY <2>2, ObjectsAre, OwnsIs
    <3> QED BY <3>1
  <2> QED BY <2>1, <2>2
<1> HIDE DEF own, to, by
<1>8. \A t \in DOMAIN SimpleRoots : todo[t] = <<>>
  BY <1>1, <1>2 DEF SimpleMemory
<1>9. \A d \in DOMAIN own : \A o \in Parts(own, d) : Member(d) \in refs'[o]
  BY <1>3, <1>6
<1>10. \A o \in DOMAIN own : refs'[o] # {}
  <2>1. ASSUME NEW o \in DOMAIN own
        PROVE  refs'[o] # {}
    <3>1. CASE o \in {"tb", "monitor", "sink"}
      BY <1>2, <1>3, <1>4, <3>1
    <3>2. CASE o = "accum" /\ o \in Parts(own, "tb")
      BY <1>2, <1>9, <3>2
    <3> QED BY <1>2, <1>7, <3>1, <3>2
  <2> QED BY <2>1
<1>11. ASSUME NEW o \in DOMAIN own, NEW h \in refs'[o]
       PROVE  \/ \E d \in DOMAIN own : h = Member(d) /\ o \in Parts(own, d)
              \/ \E t \in DOMAIN SimpleRoots : Release(h, o) \in SimpleRoots[t]
  <2>1. h \in to(o) \/ h \in by(o)
    BY <1>2, <1>3, <1>11
  <2> QED BY <1>2, <1>4, <1>5, <2>1
<1>12. Ownership(own, SimpleRoots, SimpleStopped', {}, refs', DOMAIN own, todo)
  BY <1>8, <1>9, <1>10, <1>11, FreshOwnership
<1>13. SimpleLeaving' = {}
  BY <1>1 DEF SimpleLeaving
<1>14. Ownership(own, SimpleRoots, SimpleStopped', SimpleLeaving', refs', alive', todo')
  BY <1>1, <1>2, <1>12, <1>13
<1>15. Referred(own, refs')
  BY <1>1, <1>2 DEF Referred
<1>16. \A o \in Simple!Objects :
        refs'[o] \subseteq {Member(d) : d \in Simple!Objects}
            \cup {Simple!LeavingMain[i].holder : i \in DOMAIN Simple!LeavingMain}
  <2>1. \A o : to(o) \subseteq {Member(d) : d \in Simple!Objects}
    BY DEF to
  <2> QED BY <1>3, <1>4, <2>1
<1>17. Listed(SimpleRoots, SimpleTasks, todo') /\ todo'["main"] = <<>>
  BY <1>1 DEF SimpleMemory
<1>18. Local("tb") \in refs'["tb"]
  BY <1>2, <1>3, <1>4
<1> QED BY <1>1, <1>14, <1>15, <1>16, <1>17, <1>18 DEF SimpleMemory, own

\* main leaves.
LEMMA SimpleLeaveMemory ==
    ASSUME SimpleTypes, SimpleMemory, Simple!LogTotal
    PROVE  SimpleMemory'
<1> DEFINE own == Owns(Simple!Objects)
<1>1. PICK s : s = Simple!LeavingMain
  OBVIOUS
<1>2. /\ simpleMain = "log" /\ simpleMain' = "leave" /\ UNCHANGED <<refs, alive, thread>>
      /\ todo' = [todo EXCEPT !["main"] = s]
  BY <1>1 DEF Simple!LogTotal, Simple!pipeline
<1>3. /\ Referred(own, refs) /\ Listed(SimpleRoots, SimpleTasks, todo)
      /\ alive \subseteq Simple!Objects /\ todo["main"] = <<>>
      /\ Ownership(own, SimpleRoots, SimpleStopped, SimpleLeaving, refs, alive, todo)
  BY <1>2 DEF SimpleMemory
<1>4. s \in Seq(SimpleTasks) /\ Range(s) = SimpleRoots["main"] /\ "main" \in DOMAIN SimpleRoots
  BY <1>1, SimpleTasksHold
<1> HIDE DEF own
<1>5. /\ Ownership(own, SimpleRoots, SimpleStopped, SimpleLeaving \cup {"main"}, refs, alive, todo')
      /\ Listed(SimpleRoots, SimpleTasks, todo')
  BY <1>2, <1>3, <1>4, LeavingKeeps
<1>6. SimpleStopped' = SimpleStopped /\ SimpleLeaving' = SimpleLeaving \cup {"main"}
  BY <1>2 DEF SimpleStopped, SimpleLeaving
<1>7. Ownership(own, SimpleRoots, SimpleStopped', SimpleLeaving', refs', alive', todo')
  BY <1>2, <1>5, <1>6
<1> QED BY <1>2, <1>3, <1>5, <1>7 DEF SimpleMemory, own

\* It drops references, joins and frees.
LEMMA SimpleTeardownMemory ==
    ASSUME SimpleTypes, SimpleMemory, simpleMain # "killed", Simple!Teardown
    PROVE  SimpleMemory'
<1>1. Simple!Memory!Teardown("main") /\ UNCHANGED <<simpleMain, thread>>
  BY DEF Simple!Teardown, Simple!pipeline
<1>2. todo["main"] # <<>>
  BY <1>1 DEF Simple!Memory!Teardown, Simple!Memory!DoRelease, Simple!Memory!DoJoin,
    Simple!Memory!DoFree, Simple!Memory!Do
<1>3. simpleMain = "leave"
  BY <1>2 DEF SimpleMemory
<1>4. /\ Referred(Owns(Simple!Objects), refs) /\ Listed(SimpleRoots, SimpleTasks, todo)
      /\ Ownership(Owns(Simple!Objects), SimpleRoots, SimpleStopped, SimpleLeaving,
                   refs, alive, todo)
  BY <1>3 DEF SimpleMemory
<1>5. /\ Ownership(Owns(Simple!Objects), SimpleRoots, SimpleStopped, SimpleLeaving,
                   refs', alive', todo')
      /\ Referred(Owns(Simple!Objects), refs') /\ Listed(SimpleRoots, SimpleTasks, todo')
      /\ alive' \subseteq alive /\ \A o \in Simple!Objects : refs'[o] \subseteq refs[o]
  BY <1>1, <1>4, SimpleTears
<1>6. SimpleStopped' = SimpleStopped /\ SimpleLeaving' = SimpleLeaving
  BY <1>1 DEF SimpleStopped, SimpleLeaving
<1>7. /\ alive' \subseteq Simple!Objects
      /\ \A o \in Simple!Objects :
            refs'[o] \subseteq {Member(d) : d \in Simple!Objects}
                \cup {Simple!LeavingMain[i].holder : i \in DOMAIN Simple!LeavingMain}
  BY <1>5 DEF SimpleMemory
<1> QED BY <1>1, <1>3, <1>5, <1>6, <1>7 DEF SimpleMemory

-----------------------------------------------------------------------------
\* Simple.cpp begins with nothing pushed and nothing constructed.
LEMMA SimpleBegins == Simple!Init => SimpleInv
<1> SUFFICES ASSUME Simple!Init PROVE SimpleInv
  OBVIOUS
<1>1. /\ PP!Init /\ simpleMain = "begin" /\ cancel = FALSE /\ pushedAtCancel = NumBlocks
      /\ refs = [o \in Simple!Objects |-> {}] /\ alive = {}
      /\ todo = [t \in Simple!Threads |-> <<>>] /\ sigint = "none"
  BY SimplePipe DEF Simple!Init
<1>2. NumBlocks \in Nat
  BY ExampleAssumption DEF ExampleAssumption
<1>3. SimpleTypes
  <2>1. cancel \in BOOLEAN
    BY <1>1
  <2>2. simpleMain = "begin" /\ pushedAtCancel = NumBlocks /\ sigint = "none"
    BY <1>1
  <2> QED BY <1>2, <2>1, <2>2 DEF SimpleTypes
<1>4. Stream /\ Untouched /\ sent = <<>> /\ client = "pushing"
  BY <1>1, StreamBegins
<1>5. SimpleStream
  <2>1. ~cancel /\ simpleMain = "begin"
    BY <1>1
  <2>2. Len(sent) = 0
    BY <1>4
  <2>3. Len(sent) <= NumBlocks + 1 /\ Len(sent) <= NumBlocks
    BY <1>2, <2>2
  <2> QED BY <1>4, <2>1, <2>3 DEF SimpleStream
<1>6. /\ DOMAIN Owns(Simple!Objects) = Simple!Objects /\ Simple!Threads = {"main"}
      /\ DOMAIN SimpleRoots = {"main"}
  BY ObjectsAre, SimpleTasksHold
<1>7. Referred(Owns(Simple!Objects), refs) /\ Listed(SimpleRoots, SimpleTasks, todo)
  BY <1>1, <1>6 DEF Referred, Listed
<1>8. SimpleMemory
  BY <1>1, <1>6, <1>7 DEF SimpleMemory
<1> QED BY <1>3, <1>5, <1>8 DEF SimpleInv

\* Every step of Simple.cpp keeps its invariant: main's statements, the interrupt
\* handler, the buffer's thread, and the destructors of what main leaves.
LEMMA SimpleGoesOn ==
    ASSUME SimpleInv, [Simple!Next]_(Simple!vars)
    PROVE  SimpleInv'
<1>1. SimpleTypes /\ SimpleStream /\ SimpleMemory /\ Stream
  BY DEF SimpleInv, SimpleStream
<1>2. CASE Simple!RegisterSignalHandlers \/ Simple!RegisterInterruptHandler \/ Simple!Exit
             \/ UNCHANGED Simple!vars
  <2>1. SimpleStream' /\ SimpleTypes'
    BY <1>1, <1>2, SimpleOthersStream
  <2>2. /\ UNCHANGED memory /\ UNCHANGED thread
        /\ \/ simpleMain' = simpleMain
           \/ simpleMain = "begin" /\ simpleMain' = "handler"
           \/ simpleMain = "handler" /\ simpleMain' = "wire"
           \/ simpleMain = "leave" /\ simpleMain' = "exited" /\ todo["main"] = <<>>
    BY <1>2 DEF Simple!RegisterSignalHandlers, Simple!RegisterInterruptHandler, Simple!Exit,
      Simple!vars, Simple!pipeline, Simple!memory, memory
  <2>3. SimpleMemory'
    BY <1>1, <2>2, SimpleMemoryKept
  <2> QED BY <2>1, <2>3 DEF SimpleInv
<1>3. CASE Simple!Wire \/ Simple!LogTotal \/ (simpleMain # "killed" /\ Simple!Teardown)
  <2>1. SimpleStream' /\ SimpleTypes'
    BY <1>1, <1>3, SimpleOthersStream
  <2>2. SimpleMemory'
    BY <1>1, <1>3, SimpleWireMemory, SimpleLeaveMemory, SimpleTeardownMemory
  <2> QED BY <2>1, <2>2 DEF SimpleInv
<1>4. CASE \/ Simple!CheckLoop \/ Simple!PushBlock \/ Simple!PushEop \/ Simple!Wait
           \/ Simple!Interrupt
  <2>1. SimpleStream' /\ SimpleTypes'
    BY <1>1, <1>4, SimpleStepsStream
  <2>2. UNCHANGED memory /\ UNCHANGED thread
    <3>1. CASE Simple!CheckLoop \/ Simple!Interrupt
      BY <3>1 DEF Simple!CheckLoop, Simple!Interrupt, Simple!pipeline, Simple!memory, memory
    <3>2. CASE Simple!PushBlock
      BY <1>1, <3>2, SimplePipe, BlockIsStep DEF Simple!PushBlock, Simple!memory, memory
    <3>3. CASE Simple!PushEop
      BY <1>1, <3>3, SimplePipe, EopIsStep DEF Simple!PushEop, Simple!memory, memory
    <3>4. CASE Simple!Wait
      BY <1>1, <3>4, SimplePipe, WaitIsStep DEF Simple!Wait, Simple!memory, memory
    <3> QED BY <1>4, <3>1, <3>2, <3>3, <3>4
  <2>3. \/ simpleMain' \in {simpleMain, "killed"}
        \/ /\ simpleMain \in {"loop", "block", "eop", "wait", "log"}
           /\ simpleMain' \in {"loop", "block", "eop", "wait", "log"}
    BY <1>4 DEF Simple!CheckLoop, Simple!PushBlock, Simple!PushEop, Simple!Wait, Simple!Interrupt
  <2>4. SimpleMemory'
    BY <1>1, <2>2, <2>3, SimpleMemoryKept
  <2> QED BY <2>1, <2>4 DEF SimpleInv
<1>5. CASE /\ simpleMain # "killed"
           /\ Side /\ UNCHANGED <<simpleMain, cancel, pushedAtCancel, memory, sigint>>
  <2>1. SimpleStream' /\ SimpleTypes'
    BY <1>1, <1>5, SimpleOthersStream
  <2>2. /\ thread["tb"] \in {"none", "ended"} /\ offer["tb"] = PP!Empty =>
              thread'["tb"] = thread["tb"]
        /\ ~Untouched
    BY <1>1, <1>5, SideDoes
  <2>3. thread["tb"] \in {"none", "ended"} /\ thread'["tb"] \notin {"none", "ended"} =>
            refs["tb"] # {}
    <3> SUFFICES ASSUME thread["tb"] \in {"none", "ended"},
                        thread'["tb"] \notin {"none", "ended"}
                 PROVE  refs["tb"] # {}
      OBVIOUS
    <3>1. offer["tb"] # PP!Empty
      BY <2>2
    <3>2. simpleMain \in {"loop", "block", "eop", "wait", "log"}
      BY <1>1, <1>5, <2>2, <3>1 DEF SimpleTypes, SimpleStream
    <3> QED BY <1>1, <3>2 DEF SimpleMemory
  <2>4. SimpleMemory'
    BY <1>1, <1>5, <2>3, SimpleMemoryKept
  <2> QED BY <2>1, <2>4 DEF SimpleInv
<1>6. CASE simpleMain # "killed" /\ Simple!BufferStep
  <2>1. Side /\ UNCHANGED <<simpleMain, cancel, pushedAtCancel, memory, sigint>>
    <3>1. Simple!Wired = Wired
      BY ObjectsAre DEF Simple!Wired, Wired, Simple!Chain, Chain
    <3> QED BY <1>6, <3>1, SimplePipe DEF Simple!BufferStep, Side, Simple!memory, memory
  <2> QED BY <1>5, <1>6, <2>1
<1>7. CASE simpleMain # "killed" /\ Simple!MainStep
  <2>1. CASE Simple!PushData
    <3>1. Side /\ UNCHANGED <<simpleMain, cancel, pushedAtCancel, memory, sigint>>
      BY <2>1, SimplePipe DEF Simple!PushData, Side, Simple!memory, memory
    <3> QED BY <1>5, <1>7, <3>1
  <2> QED BY <1>2, <1>3, <1>4, <1>7, <2>1 DEF Simple!MainStep
<1> QED BY <1>2, <1>4, <1>6, <1>7 DEF Simple!Next, Simple!Over, Simple!Running

-----------------------------------------------------------------------------
(***************************************************************************)
(* What the invariant says of Simple.cpp.                                  *)
(***************************************************************************)
\* Simple.cpp keeps its types.
LEMMA SimpleTyped == SimpleInv => Simple!TypeOK
<1> SUFFICES ASSUME SimpleInv PROVE Simple!TypeOK
  OBVIOUS
<1>1. Simple!Pipe!TypeOK
  BY StreamTypes, SimplePipe DEF SimpleInv, SimpleStream, Stream
<1>2. SimpleTypes
  BY DEF SimpleInv
<1>3. /\ alive \subseteq Simple!Objects
      /\ \A o \in Simple!Objects :
            refs[o] \subseteq {Simple!Member(d) : d \in Simple!Objects}
                \cup {Simple!LeavingMain[i].holder : i \in DOMAIN Simple!LeavingMain}
  BY SimpleNames DEF SimpleInv, SimpleMemory
<1> QED BY <1>1, <1>2, <1>3 DEF Simple!TypeOK, SimpleTypes

\* While the buffer's thread runs the buffer stands, and all that this thread calls.
LEMMA SimpleSafe == SimpleInv => Simple!NoUseAfterDestroy
<1> SUFFICES ASSUME SimpleInv, simpleMain \notin {"begin", "handler", "wire", "killed"}
             PROVE  /\ thread["tb"] \in {"waiting", "pushing"} => "tb" \in alive
                    /\ {e \in Wired : call[e].at # "idle"} \subseteq alive
                    /\ call["monitor"].at = "visit" => "sink" \in alive
  <2>1. Simple!Wired = Wired
    BY DEF Simple!Wired, Wired, Simple!Chain, Chain
  <2> QED BY <2>1 DEF Simple!NoUseAfterDestroy
<1>1. /\ \A e \in Wired : call[e].at # "idle" => thread["tb"] = "pushing"
      /\ "monitor" \in Wired /\ "tb" \in Wired
  BY StreamSays, ChainIs, ExampleAssumption DEF ExampleAssumption, SimpleInv, SimpleStream
<1>2. Standing(Owns(Simple!Objects), SimpleStopped, refs, alive)
  BY DEF SimpleInv, SimpleMemory, Ownership
<1>3. CASE thread["tb"] \in {"waiting", "pushing"}
  <2>1. Stands(SimpleStopped, refs, "tb")
    BY <1>3 DEF Stands, SimpleStopped, Joined
  <2>2. Wired \cup {"sink"} \subseteq alive
    BY <1>2, <2>1, ObjectsAre, ChainStands
  <2> QED BY <1>1, <2>2
<1>4. CASE thread["tb"] \notin {"waiting", "pushing"}
  BY <1>1, <1>4
<1> QED BY <1>3, <1>4

\* When the sink's wait has returned to Simple.cpp's main, the sink has been shown
\* all that was pushed.
LEMMA SimpleWaits == SimpleInv => Simple!WaitedForAll
  BY StreamSays DEF SimpleInv, SimpleStream, Simple!WaitedForAll

\* After the interrupt handler has set the flag, Simple.cpp pushes at most the block
\* it is at and then the end.
LEMMA SimpleCancels == SimpleInv => Simple!CancelTakesEffect
  BY DEF SimpleInv, SimpleStream, Simple!CancelTakesEffect

\* When Simple.cpp's main has returned, no object is left and the buffer's thread has
\* ended: the buffer's destructor joined it.
LEMMA SimpleLeaves == SimpleInv => Simple!NothingLeft
<1> SUFFICES ASSUME SimpleInv, simpleMain = "exited"
             PROVE  alive = {} /\ thread["tb"] = "ended"
  BY DEF Simple!NothingLeft
<1>1. /\ Ownership(Owns(Simple!Objects), SimpleRoots, SimpleStopped, SimpleLeaving,
                   refs, alive, todo)
      /\ todo["main"] = <<>> /\ alive \subseteq Simple!Objects
      /\ client = "done" /\ offer["tb"] = PP!Empty /\ Stream
  BY DEF SimpleInv, SimpleMemory, SimpleStream
<1>2. /\ \A t \in DOMAIN SimpleRoots : Range(todo[t]) = {}
      /\ \A t \in DOMAIN SimpleRoots : SimpleRoots[t] # {} => t \in SimpleLeaving
  BY <1>1, SimpleTasksHold, NoTask DEF SimpleLeaving
<1>3. alive = {} /\ "tb" \in SimpleStopped
  <2>1. Simple!Objects = {"sink"} \cup Wired \/ Simple!Objects = {"source", "sink"} \cup Wired
    BY ObjectsAre
  <2> QED BY <1>1, <1>2, <2>1, ChainIsGone
<1>4. thread["tb"] \in {"none", "ended"} /\ thread["tb"] # "none"
  BY <1>1, <1>3, StreamSays DEF SimpleStopped
<1> QED BY <1>3, <1>4

-----------------------------------------------------------------------------
(***************************************************************************)
(* The theorems.                                                           *)
(***************************************************************************)
ExamplesInv ==
    /\ program \in {"source", "simple"}
    /\ program = "source" => SourceInv
    /\ program = "simple" => SimpleInv

\* The invariant of whichever program runs holds of every state: of the main
\* thread, the source's thread and the buffer's, interrupted at any step.
THEOREM ExamplesExplained == MCSpec => []ExamplesInv
<1>1. MCInit => ExamplesInv
  BY SourceBegins, SimpleBegins DEF MCInit, ExamplesInv
<1>2. ExamplesInv /\ [MCNext]_allVars => ExamplesInv'
  <2> SUFFICES ASSUME ExamplesInv, [MCNext]_allVars
               PROVE  ExamplesInv'
    OBVIOUS
  <2>1. CASE program = "source"
    <3>1. [Next]_vars /\ program' = program
      BY <2>1 DEF MCNext, InSource, InSimple, allVars, sourceOnly, vars, control, interrupts
    <3> QED BY <2>1, <3>1, SourceGoesOn DEF ExamplesInv
  <2>2. CASE program = "simple"
    <3>1. [Simple!Next]_(Simple!vars) /\ program' = program
      BY <2>2 DEF MCNext, InSource, InSimple, allVars, simpleOnly, Simple!vars, Simple!pipeline,
        Simple!memory, pipeline, memory
    <3> QED BY <2>2, <3>1, SimpleGoesOn DEF ExamplesInv
  <2> QED BY <2>1, <2>2 DEF ExamplesInv
<1> QED BY <1>1, <1>2, PTL DEF MCSpec

\* The example programs' state keeps its types.
THEOREM ExamplesTyped == MCSpec => []TypesOK
<1>1. ExamplesInv => TypesOK
  BY SourceTyped, SimpleTyped DEF ExamplesInv, TypesOK
<1> QED BY <1>1, ExamplesExplained, PTL

\* No thread of an example program is inside an object that has been destroyed,
\* whichever thread drops the last reference to the pipeline.
THEOREM ExamplesUseNothingDestroyed == MCSpec => []NothingUsedAfterDestroy
<1>1. ExamplesInv => NothingUsedAfterDestroy
  BY SourceSafe, SimpleSafe DEF ExamplesInv, NothingUsedAfterDestroy
<1> QED BY <1>1, ExamplesExplained, PTL

\* The status that the sink reports is true of the stream that was pushed, and
\* main does not go on before the stream has been processed.
THEOREM ExamplesReportTruly == MCSpec => []OutcomeIsTrue
<1>1. ExamplesInv => OutcomeIsTrue
  BY SourceReports, SimpleWaits DEF ExamplesInv, OutcomeIsTrue
<1> QED BY <1>1, ExamplesExplained, PTL

\* One block at most is pushed after stop(), cancel() or an interrupt.
THEOREM ExamplesStopPushing == MCSpec => []InterruptTakesEffect
<1>1. ExamplesInv => InterruptTakesEffect
  BY SourceHalts, SimpleCancels DEF ExamplesInv, InterruptTakesEffect
<1> QED BY <1>1, ExamplesExplained, PTL

\* When main returns, no object is left and no thread runs.
THEOREM ExamplesLeaveNothing == MCSpec => []AllDestroyed
<1>1. ExamplesInv => AllDestroyed
  BY SourceLeaves, SimpleLeaves DEF ExamplesInv, AllDestroyed
<1> QED BY <1>1, ExamplesExplained, PTL
=================================================================================
