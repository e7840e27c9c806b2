------------------------------ MODULE RingValues ------------------------------
(***************************************************************************)
(* What a user of ring buffers relies on when they are created, moved,     *)
(* swapped and destroyed: each is a bounded FIFO, and moving or swapping   *)
(* exchanges what two of them hold, capacity included.                     *)
(***************************************************************************)
EXTENDS Integers, Sequences

CONSTANTS Objects, Values, Capacities

VARIABLES
    capacity,       \* of each object; None where there is no object
    contents        \* the elements of each, the oldest first

vars == <<capacity, contents>>

None == -1

Init ==
    /\ capacity = [b \in Objects |-> None]
    /\ contents = [b \in Objects |-> <<>>]

Alive == {b \in Objects : capacity[b] # None}

Create(b) ==
    /\ b \notin Alive
    /\ \E c \in Capacities : capacity' = [capacity EXCEPT ![b] = c]
    /\ UNCHANGED contents

\* A new object takes what another held, and leaves it with no room at all.
MoveNew(b, o) ==
    /\ b \notin Alive
    /\ o \in Alive
    /\ capacity' = [capacity EXCEPT ![b] = capacity[o], ![o] = 0]
    /\ contents' = [contents EXCEPT ![b] = contents[o], ![o] = <<>>]

Exchange(a, b) ==
    /\ {a, b} \subseteq Alive
    /\ capacity' = [capacity EXCEPT ![a] = capacity[b], ![b] = capacity[a]]
    /\ contents' = [contents EXCEPT ![a] = contents[b], ![b] = contents[a]]

Put(b) ==
    /\ b \in Alive
    /\ Len(contents[b]) < capacity[b]
    /\ \E v \in Values : contents' = [contents EXCEPT ![b] = Append(@, v)]
    /\ UNCHANGED capacity

Get(b) ==
    /\ b \in Alive
    /\ contents[b] # <<>>
    /\ contents' = [contents EXCEPT ![b] = Tail(@)]
    /\ UNCHANGED capacity

Destroy(b) ==
    /\ b \in Alive
    /\ capacity' = [capacity EXCEPT ![b] = None]
    /\ contents' = [contents EXCEPT ![b] = <<>>]

Next ==
    \/ \E b \in Objects : Create(b) \/ Put(b) \/ Get(b) \/ Destroy(b)
    \/ \E a, b \in Objects : MoveNew(a, b) \/ Exchange(a, b)

Spec == Init /\ [][Next]_vars

=============================================================================
