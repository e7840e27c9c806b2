----------------------------- MODULE BoundedFifo -----------------------------
(***************************************************************************)
(* What the circular buffer promises its producer and its consumer: a      *)
(* first-in first-out queue of at most Capacity elements.  An operation    *)
(* that fails or is still waiting leaves the queue alone.                  *)
(***************************************************************************)
EXTENDS Integers, Sequences

CONSTANTS
    Capacity,   \* the most elements the queue may hold
    Elements,   \* what may be enqueued
    NoItem      \* the consumer's variable before anything was read into it

VARIABLES
    q,          \* the elements enqueued and not yet dequeued, oldest first
    item        \* what the consumer last read

vars == <<q, item>>

Init ==
    /\ q = <<>>
    /\ item = NoItem

Enqueue(e) ==
    /\ Len(q) < Capacity
    /\ q' = Append(q, e)
    /\ UNCHANGED item

Dequeue ==
    /\ q # <<>>
    /\ item' = Head(q)
    /\ q' = Tail(q)

Pop ==
    /\ q # <<>>
    /\ q' = Tail(q)
    /\ UNCHANGED item

Peek ==
    /\ q # <<>>
    /\ item' = Head(q)
    /\ UNCHANGED q

Destroy ==
    /\ q' = <<>>
    /\ UNCHANGED item

Next ==
    \/ \E e \in Elements : Enqueue(e)
    \/ Dequeue
    \/ Pop
    \/ Peek
    \/ Destroy

Spec == Init /\ [][Next]_vars

=============================================================================
