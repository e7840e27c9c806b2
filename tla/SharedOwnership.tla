---------------------------- MODULE SharedOwnership ----------------------------
(***************************************************************************)
(* The std::shared_ptr graph of an example program, and its destruction.   *)
(* A holder is a local variable of main, the argument a thread was started *)
(* with, or a member of an object.  Whoever drops the last reference to an *)
(* object runs its destructor, and a destructor may join a thread.         *)
(***************************************************************************)
EXTENDS Sequences

CONSTANTS
    Objects,
    Threads,
    Joining,        \* the objects whose destructor joins the object's thread
    Member(_)       \* the holder that stands for the members of an object

VARIABLES
    owned,          \* what each object's members refer to, in order
    ended,          \* the joining objects whose thread has ended or never began
    refs,           \* per object, who holds a shared_ptr to it
    alive,          \* the objects that are constructed and not destroyed
    todo            \* per thread, the releases, joins and frees it is to do

Release(h, o) == [do |-> "release", holder |-> h, target |-> o]
Join(o) == [do |-> "join", holder |-> Member(o), target |-> o]
Free(o) == [do |-> "free", holder |-> Member(o), target |-> o]

Joins(o) == IF o \in Joining THEN <<Join(o)>> ELSE <<>>
ReleaseMembers(o) == [i \in DOMAIN owned[o] |-> Release(Member(o), owned[o][i])]

\* A destructor joins its thread before anything else, then the members go.
\* (Fault: the members go first.)
DestructorJoinsLast(o) == <<Free(o)>> \o ReleaseMembers(o) \o Joins(o)
Destructor(o) == Joins(o) \o <<Free(o)>> \o ReleaseMembers(o)

Do(t, op) ==
    /\ todo[t] # <<>>
    /\ Head(todo[t]).do = op

\* The last reference runs the destructor, on this thread.
DoRelease(t) ==
    LET r == Head(todo[t])
        left == refs[r.target] \ {r.holder}
    IN  /\ Do(t, "release")
        /\ refs' = [refs EXCEPT ![r.target] = left]
        /\ todo' = [todo EXCEPT ![t] =
                        (IF left = {} THEN Destructor(r.target) ELSE <<>>) \o Tail(@)]
        /\ UNCHANGED alive

DoJoin(t) ==
    /\ Do(t, "join")
    /\ Head(todo[t]).target \in ended
    /\ todo' = [todo EXCEPT ![t] = Tail(@)]
    /\ UNCHANGED <<refs, alive>>

DoFree(t) ==
    /\ Do(t, "free")
    /\ alive' = alive \ {Head(todo[t]).target}
    /\ todo' = [todo EXCEPT ![t] = Tail(@)]
    /\ UNCHANGED refs

Teardown(t) == DoRelease(t) \/ DoJoin(t) \/ DoFree(t)

=============================================================================
