----------------------------- MODULE RingLifecycle -----------------------------
(***************************************************************************)
(* How a BlockingReaderWriterCircularBuffer is made, moved, swapped and    *)
(* destroyed.  CircularBuffer models what its two threads do in between;   *)
(* here one thread owns several rings ("Not thread-safe"), memory has      *)
(* addresses, and a word is an integer modulo Word.                        *)
(***************************************************************************)
EXTENDS Integers, Sequences, FiniteSetsExt

CONSTANTS
    Objects,        \* the rings of a program
    Values,         \* elements
    Capacities,     \* the capacities they are created with
    WordBits,       \* bits of a size_t
    WordBytes,      \* sizeof(size_t)
    ElementSize,    \* sizeof(T)
    Alignment,      \* alignof(T)
    Arenas,         \* addresses that malloc returns, far from each other
    MallocFails,    \* may malloc return a null pointer?
    MaxIndex        \* bound on the enqueues into one ring

Null == 0
Word == 2^WordBits

RingAssumption ==
    /\ {WordBits, WordBytes, ElementSize, Alignment, MaxIndex} \subseteq Nat \ {0}
    /\ ElementSize % Alignment = 0      \* as sizeof and alignof are
    /\ Capacities \subseteq 0 .. Word - 1
    /\ Arenas \subseteq Nat \ {Null}
    /\ MallocFails \in BOOLEAN

VARIABLES
    ring,           \* the members of each object; NoObject where there is none
    heap,           \* allocated blocks: address -> size
    mem             \* constructed elements: address -> value

vars == <<ring, heap, mem>>

NoObject == [maxcap |-> -1]
Alive == {b \in Objects : ring[b] # NoObject}

Fields ==
    {"maxcap", "mask", "rawData", "data", "slots_", "items", "nextSlot", "nextItem"}

TypeOK ==
    /\ \A b \in Alive : ring[b] \in [Fields -> Nat]
    /\ Objects = DOMAIN ring
    /\ DOMAIN heap \subseteq Arenas
    /\ \A a \in DOMAIN heap : heap[a] \in 0 .. Word - 1
    /\ \A a \in DOMAIN mem : a \in Nat /\ mem[a] \in Values

Init ==
    /\ ring = [b \in Objects |-> NoObject]
    /\ heap = <<>>
    /\ mem = <<>>

-----------------------------------------------------------------------------
(***************************************************************************)
(* The constructor.                                                        *)
(***************************************************************************)
\* A word as the set of its bits that are 1.
Bits(x) == {i \in 0 .. WordBits - 1 : (x \div 2^i) % 2 = 1}
WordOf(B) == SumSet({2^i : i \in B})

\* x | (x >> k)
Smear(B, k) == B \cup {i - k : i \in {i \in B : i >= k}}

\* The mask: the smallest 2^n - 1 that is not below capacity - 1.  The last
\* shifts are by 8, 16, 32, ... bits, for the bytes of a word.
\* (Fault: a shift is missing.)
MaskOfShiftMissing(capacity) ==
    WordOf(Smear(Smear(Bits((capacity - 1) % Word), 1), 4))
MaskOf(capacity) ==
    LET low == Smear(Smear(Smear(Bits((capacity - 1) % Word), 1), 2), 4)
        Shifted[i \in 1 .. WordBytes] ==
            IF i = 1 THEN low ELSE Smear(Shifted[i \div 2], 4 * i)
    IN  WordOf(Shifted[WordBytes])

\* The bytes that are asked for.  (Fault: no room to align.)
BytesUnaligned(mask) == (((mask + 1) % Word) * ElementSize) % Word
Bytes(mask) == (((mask + 1) % Word) * ElementSize + Alignment - 1) % Word

\* align_for: the first aligned address from ptr on.
AlignFor(ptr) == ptr + ((Alignment - (ptr % Alignment)) % Alignment)

\* The capacities that are asked for have a mask that is large enough, and a
\* size that fits a word; the blocks that malloc returns do not overlap.
Room(capacity) == (MaskOf(capacity) + 1) * ElementSize + Alignment - 1
MemoryAssumption ==
    /\ \A c \in Capacities : MaskOf(c) \in 0 .. Word - 1
    /\ \A c \in Capacities \ {0} :
        /\ c <= MaskOf(c) + 1
        /\ Room(c) < Word
        /\ \A a, b \in Arenas : a < b => a + Room(c) <= b

\* Neither the size nor the result of malloc is checked.
Construct(b, capacity) ==
    /\ b \notin Alive
    /\ \E raw \in (Arenas \ DOMAIN heap) \cup (IF MallocFails THEN {Null} ELSE {}) :
        LET mask == MaskOf(capacity)
        IN  /\ ring' = [ring EXCEPT ![b] =
                    [maxcap |-> capacity, mask |-> mask,
                     rawData |-> raw, data |-> AlignFor(raw),
                     slots_ |-> capacity, items |-> 0, nextSlot |-> 0, nextItem |-> 0]]
            /\ heap' = IF raw = Null
                       THEN heap
                       ELSE [a \in DOMAIN heap \cup {raw} |->
                                IF a = raw THEN Bytes(mask) ELSE heap[a]]
    /\ UNCHANGED mem

-----------------------------------------------------------------------------
(***************************************************************************)
(* Moving: every form of it is swap().                                     *)
(***************************************************************************)
\* What an object holds after the swap of each member with another's.
\* (Faults: the mask, or the capacity, stays.)
SwappedButMask(mine, theirs) == [theirs EXCEPT !.mask = mine.mask]
SwappedButMaxcap(mine, theirs) == [theirs EXCEPT !.maxcap = mine.maxcap]
Swapped(mine, theirs) == [f \in Fields |-> theirs[f]]

\* swap(), and the move assignment, which is nothing else.
Swap(a, b) ==
    /\ {a, b} \subseteq Alive
    /\ ring' = [ring EXCEPT ![a] = Swapped(ring[a], ring[b]),
                            ![b] = Swapped(ring[b], ring[a])]
    /\ UNCHANGED <<heap, mem>>

\* The members before the swap in the move constructor.
Empty == [f \in Fields |-> 0]

\* (Fault: the members are copied.)
CopyConstruct(b, other) ==
    /\ b \notin Alive
    /\ other \in Alive
    /\ ring' = [ring EXCEPT ![b] = ring[other]]
    /\ UNCHANGED <<heap, mem>>
MoveConstruct(b, other) ==
    /\ b \notin Alive
    /\ other \in Alive
    /\ ring' = [ring EXCEPT ![b] = Swapped(Empty, ring[other]),
                            ![other] = Swapped(ring[other], Empty)]
    /\ UNCHANGED <<heap, mem>>

-----------------------------------------------------------------------------
(***************************************************************************)
(* The elements, as far as memory is concerned.                            *)
(***************************************************************************)
\* The mask is all ones from some bit down.
Slot(r, i) == r.data + (i % (r.mask + 1)) * ElementSize

Without(f, S) == [a \in DOMAIN f \ S |-> f[a]]

TryEnqueue(b, v) ==
    /\ b \in Alive
    /\ ring[b].slots_ > 0
    /\ ring[b].nextSlot < MaxIndex
    /\ LET at == Slot(ring[b], ring[b].nextSlot)
       IN  mem' = [a \in DOMAIN mem \cup {at} |-> IF a = at THEN v ELSE mem[a]]
    /\ ring' = [ring EXCEPT ![b].slots_ = @ - 1, ![b].items = @ + 1, ![b].nextSlot = @ + 1]
    /\ UNCHANGED heap

\* (Fault: the semaphore is not asked first.)
DequeueUnchecked(b) ==
    /\ b \in Alive
    /\ mem' = Without(mem, {Slot(ring[b], ring[b].nextItem)})
    /\ ring' = [ring EXCEPT ![b].slots_ = @ + 1, ![b].items = @ - 1, ![b].nextItem = @ + 1]
    /\ UNCHANGED heap
TryDequeue(b) ==
    /\ b \in Alive
    /\ ring[b].items > 0
    /\ mem' = Without(mem, {Slot(ring[b], ring[b].nextItem)})
    /\ ring' = [ring EXCEPT ![b].slots_ = @ + 1, ![b].items = @ - 1, ![b].nextItem = @ + 1]
    /\ UNCHANGED heap

\* Where the elements of a ring are, and what they are, the oldest first.
Held(r) == {Slot(r, r.nextItem + i) : i \in 0 .. r.items - 1}
Elements(r) == [i \in 1 .. r.items |-> mem[Slot(r, r.nextItem + i - 1)]]

\* The destructor: the elements that are left, then the memory.
\* (Fault: the elements are left as they are.)
DestroyMemoryOnly(b) ==
    /\ b \in Alive
    /\ heap' = Without(heap, {ring[b].rawData})
    /\ ring' = [ring EXCEPT ![b] = NoObject]
    /\ UNCHANGED mem
Destroy(b) ==
    /\ b \in Alive
    /\ mem' = Without(mem, Held(ring[b]))
    /\ heap' = Without(heap, {ring[b].rawData})
    /\ ring' = [ring EXCEPT ![b] = NoObject]

Next ==
    \/ \E b \in Objects, c \in Capacities : Construct(b, c)
    \/ \E a, b \in Objects : Swap(a, b) \/ MoveConstruct(a, b)
    \/ \E b \in Objects, v \in Values : TryEnqueue(b, v)
    \/ \E b \in Objects : TryDequeue(b) \/ Destroy(b)

Spec == Init /\ [][Next]_vars

-----------------------------------------------------------------------------
(***************************************************************************)
(* Properties.                                                             *)
(***************************************************************************)
\* Each element lies, aligned, inside the block of the ring that holds it,
\* also when the capacity is 0, which makes the mask all ones, and in a ring
\* that was moved from, which has no block at all.
ElementsInside ==
    \A b \in Alive : \A a \in Held(ring[b]) :
        /\ ring[b].rawData \in DOMAIN heap
        /\ a % Alignment = 0
        /\ ring[b].rawData <= a
        /\ a + ElementSize <= ring[b].rawData + heap[ring[b].rawData]

\* However the rings were moved about, each block has exactly one ring that will
\* free it, and each element one ring that will destroy it.
OwnedOnce ==
    /\ \A a, b \in Alive : a # b /\ ring[a].rawData = ring[b].rawData
            => ring[a].rawData = Null
    /\ DOMAIN heap = {ring[b].rawData : b \in Alive} \ {Null}
    /\ DOMAIN mem = UNION {Held(ring[b]) : b \in Alive}
    /\ \A b \in Alive : Cardinality(Held(ring[b])) = ring[b].items

\* Rings behave as values that are moved: capacity and elements, in their order,
\* go where the ring goes, whatever the masks and indices of the two are.
RingAbstraction == INSTANCE RingValues WITH
    capacity <- [b \in Objects |-> ring[b].maxcap],
    contents <- [b \in Objects |->
        IF b \in Alive THEN Elements(ring[b]) ELSE <<>>]

ImplementsValues == RingAbstraction!Spec

=============================================================================
