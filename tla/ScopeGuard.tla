------------------------------- MODULE ScopeGuard -------------------------------
(***************************************************************************)
(* sg::scope_guard: an object that calls a callback when its scope is left *)
(* unless it was dismissed, and that can be moved.  The guards of a thread *)
(* are a stack, the latest on top, and each scope holds one.               *)
(***************************************************************************)
EXTENDS Naturals, Sequences, FiniteSets

CONSTANTS
    Callbacks,      \* what there is to clean up
    Depth           \* bound on the scopes inside one another

GuardAssumption == Depth \in Nat \ {0}

VARIABLES
    guards,         \* the guards that are in scope: callback and m_active
    made,           \* the callbacks that make_scope_guard was called with
    calls,          \* how often each was called
    dismissed       \* those whose guard was dismissed

vars == <<guards, made, calls, dismissed>>

TypeOK ==
    /\ guards \in Seq([callback : Callbacks, active : BOOLEAN])
    /\ Len(guards) <= Depth
    /\ made \subseteq Callbacks
    /\ calls \in [Callbacks -> 0 .. 1]
    /\ dismissed \subseteq made

Init ==
    /\ guards = <<>>
    /\ made = {}
    /\ calls = [c \in Callbacks |-> 0]
    /\ dismissed = {}

Top == guards[Len(guards)]
Push(g) == Len(guards) < Depth /\ guards' = Append(guards, g)

Make(c) ==
    /\ c \notin made
    /\ Push([callback |-> c, active |-> TRUE])
    /\ made' = made \cup {c}
    /\ UNCHANGED <<calls, dismissed>>

\* The move constructor, of any guard in scope into a new one.  When moving the
\* callback throws, the members are as before.  (Fault: the guard that is moved
\* from stays active.)
MoveStaysActive(i) ==
    /\ Push(guards[i])
    /\ UNCHANGED <<made, calls, dismissed>>
Move(i) ==
    /\ Len(guards) < Depth
    /\ guards' = Append([guards EXCEPT ![i].active = FALSE], guards[i])
    /\ UNCHANGED <<made, calls, dismissed>>

Dismiss(i) ==
    /\ guards' = [guards EXCEPT ![i].active = FALSE]
    /\ dismissed' = IF guards[i].active THEN dismissed \cup {guards[i].callback} ELSE dismissed
    /\ UNCHANGED <<made, calls>>

\* A scope is left, by return or by exception: the destructor of its guard.
\* (Fault: it does not look at m_active.)
LeaveRegardless ==
    /\ guards # <<>>
    /\ calls' = [calls EXCEPT ![Top.callback] = @ + 1]
    /\ guards' = SubSeq(guards, 1, Len(guards) - 1)
    /\ UNCHANGED <<made, dismissed>>
Leave ==
    /\ guards # <<>>
    /\ calls' = IF Top.active THEN [calls EXCEPT ![Top.callback] = @ + 1] ELSE calls
    /\ guards' = SubSeq(guards, 1, Len(guards) - 1)
    /\ UNCHANGED <<made, dismissed>>

Over ==
    /\ made = Callbacks
    /\ guards = <<>>
    /\ UNCHANGED vars

Next ==
    \/ \E c \in Callbacks : Make(c)
    \/ \E i \in DOMAIN guards : Move(i) \/ Dismiss(i)
    \/ Leave
    \/ Over

Spec == Init /\ [][Next]_vars

Active(c) == {i \in DOMAIN guards : guards[i].callback = c /\ guards[i].active}

\* However a guard is moved and dismissed, the callback has been called, or
\* has been dismissed, or is in the hands of exactly one guard.
ExactlyOnce ==
    \A c \in made :
        calls[c] + Cardinality(Active(c)) + (IF c \in dismissed THEN 1 ELSE 0) = 1

=============================================================================
