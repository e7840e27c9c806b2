------------------------ MODULE CircularBufferProofs ------------------------
(***************************************************************************)
(* For every capacity, ring size and word size: the circular buffer's      *)
(* invariants hold, and it implements BoundedFifo.                         *)
(*                                                                         *)
(* The facts about the two semaphores come from LightweightSemaphoreProofs,*)
(* instantiated for each.                                                  *)
(***************************************************************************)
EXTENDS CircularBuffer, TLAPS

-----------------------------------------------------------------------------
(***************************************************************************)
(* Residues, for the indices of the ring.                                  *)
(***************************************************************************)
\* x % n is a residue, and x differs from it by a multiple of n.
LEMMA ModRange ==
    ASSUME NEW x \in Int, NEW n \in Int, n > 0
    PROVE  /\ x % n \in 0 .. n - 1
           /\ \E q \in Int : x = n * q + (x % n)
<1>1. x % n \in 0 .. n - 1
  OBVIOUS
<1>2. \E q \in Int : x = n * q + (x % n)
  OBVIOUS
<1> QED BY <1>1, <1>2

\* The decomposition into a multiple of n and a residue is unique.
LEMMA ModUnique ==
    ASSUME NEW n \in Int, n > 0, NEW q \in Int, NEW r \in 0 .. n - 1
    PROVE  (n * q + r) % n = r
  OBVIOUS

\* A residue is its own residue.
LEMMA ModSmall ==
    ASSUME NEW n \in Int, n > 0, NEW r \in 0 .. n - 1
    PROVE  r % n = r
  OBVIOUS

\* Adding a multiple of n changes nothing.
LEMMA ModShift ==
    ASSUME NEW n \in Int, n > 0, NEW x \in Int, NEW m \in Int
    PROVE  (x + n * m) % n = x % n
<1>1. PICK q \in Int : x = n * q + (x % n)
  BY ModRange
<1>2. x + n * m = n * (q + m) + (x % n)
  BY <1>1
<1>3. q + m \in Int /\ x % n \in 0 .. n - 1
  BY ModRange
<1> QED BY ModUnique, <1>2, <1>3

\* Numbers less than n apart with the same residue are equal.
LEMMA ModInjective ==
    ASSUME NEW n \in Int, n > 0, NEW x \in Int, NEW y \in Int,
           x < y + n, y < x + n, x % n = y % n
    PROVE  x = y
<1>1. PICK q \in Int : x = n * q + (x % n)
  BY ModRange
<1>2. PICK p \in Int : y = n * p + (y % n)
  BY ModRange
<1>3. y - x = n * (p - q)
  BY <1>1, <1>2
<1>4. p - q = 0
  BY <1>3
<1> QED BY <1>3, <1>4


SP == INSTANCE LightweightSemaphoreProofs WITH
        sem <- slots_, InitialCount <- Capacity, SignalCounts <- {1},
        MaxCount <- Capacity + 2
IP == INSTANCE LightweightSemaphoreProofs WITH
        sem <- items, InitialCount <- 0, SignalCounts <- {1},
        MaxCount <- Capacity + 2

-----------------------------------------------------------------------------
(***************************************************************************)
(* The indices.                                                            *)
(***************************************************************************)
IndicesTyped == nextSlot \in 0 .. WordSize - 1 /\ nextItem \in 0 .. WordSize - 1

\* The assumption, in the form that the lemmas on residues ask for.
LEMMA Sizes ==
    /\ Capacity \in Int /\ Capacity > 0 /\ Capacity <= RingSize
    /\ RingSize \in Int /\ RingSize > 0
    /\ WordSize \in Int /\ WordSize > RingSize
    /\ \E m \in Int : WordSize = RingSize * m
<1>1. /\ Capacity \in Int /\ Capacity > 0 /\ Capacity <= RingSize
      /\ RingSize \in Int /\ RingSize > 0
      /\ WordSize \in Int /\ WordSize > RingSize /\ WordSize % RingSize = 0
  BY BufferAssumption DEF BufferAssumption
<1>2. PICK m \in Int : WordSize = RingSize * m + (WordSize % RingSize)
  BY <1>1, ModRange
<1>3. WordSize = RingSize * m
  BY <1>1, <1>2
<1> QED BY <1>1, <1>3

\* An index is masked to a slot of the ring.
LEMMA SlotInRing ==
    ASSUME NEW i \in Int
    PROVE  SlotOf(i) \in 0 .. RingSize - 1
  BY Sizes, ModRange DEF SlotOf

\* Masking does not see that an index wrapped.
LEMMA SlotOfWrapped ==
    ASSUME NEW i \in Int
    PROVE  SlotOf(i + WordSize) = SlotOf(i) /\ SlotOf(i - WordSize) = SlotOf(i)
<1>1. PICK m \in Int : WordSize = RingSize * m
  BY Sizes
<1>2. SlotOf(i + WordSize) = SlotOf(i)
  BY <1>1, Sizes, ModShift DEF SlotOf
<1>3. i - WordSize \in Int
  BY Sizes
<1>4. (i - WordSize) + WordSize = i
  BY Sizes
<1>5. SlotOf((i - WordSize) + WordSize) = SlotOf(i - WordSize)
  BY <1>1, <1>3, Sizes, ModShift DEF SlotOf
<1> QED BY <1>2, <1>4, <1>5

\* Indices less than a ring apart have slots of their own.
LEMMA SlotsDistinct ==
    ASSUME NEW i \in Int, NEW j \in Int, i < j + RingSize, j < i + RingSize,
           SlotOf(i) = SlotOf(j)
    PROVE  i = j
  BY Sizes, ModInjective DEF SlotOf

\* i++ wraps at the word size, which masking does not see.
LEMMA SuccIs ==
    ASSUME NEW i \in 0 .. WordSize - 1
    PROVE  /\ Succ(i) = IF i + 1 = WordSize THEN 0 ELSE i + 1
           /\ Succ(i) \in 0 .. WordSize - 1
<1>1. CASE i + 1 = WordSize
  <2>1. WordSize * 1 + 0 = WordSize
    BY Sizes
  <2>2. (WordSize * 1 + 0) % WordSize = 0
    BY Sizes, ModUnique
  <2> QED BY <1>1, <2>1, <2>2, Sizes DEF Succ
<1>2. CASE i + 1 # WordSize
  <2>1. i + 1 \in 0 .. WordSize - 1
    BY <1>2, Sizes
  <2>2. (i + 1) % WordSize = i + 1
    BY <2>1, Sizes, ModSmall
  <2> QED BY <1>2, <2>1, <2>2, Sizes DEF Succ
<1> QED BY <1>1, <1>2

\* The slot some places after an index that was advanced.
LEMMA SuccSlot ==
    ASSUME NEW i \in 0 .. WordSize - 1, NEW k \in Int
    PROVE  SlotOf(Succ(i) + k) = SlotOf(i + k + 1)
<1>1. CASE i + 1 = WordSize
  <2>1. /\ Succ(i) + k = k
        /\ i + k + 1 = k + WordSize
    BY <1>1, SuccIs, Sizes
  <2> QED BY <2>1, SlotOfWrapped
<1>2. CASE i + 1 # WordSize
  <2>1. Succ(i) + k = i + k + 1
    BY <1>2, SuccIs, Sizes
  <2> QED BY <2>1
<1> QED BY <1>1, <1>2

\* The size_t difference of two indices is their distance on the word.
LEMMA DistanceIs ==
    ASSUME NEW s \in 0 .. WordSize - 1, NEW i \in 0 .. WordSize - 1
    PROVE  /\ (s - i) % WordSize = IF s >= i THEN s - i ELSE s - i + WordSize
           /\ (s - i) % WordSize \in 0 .. WordSize - 1
<1>1. CASE s >= i
  <2>1. s - i \in 0 .. WordSize - 1
    BY <1>1, Sizes
  <2>2. (s - i) % WordSize = s - i
    BY <2>1, Sizes, ModSmall
  <2> QED BY <1>1, <2>1, <2>2
<1>2. CASE ~(s >= i)
  <2>1. s - i + WordSize \in 0 .. WordSize - 1
    BY <1>2, Sizes
  <2>2. WordSize * (-1) + (s - i + WordSize) = s - i
    BY Sizes
  <2>3. (WordSize * (-1) + (s - i + WordSize)) % WordSize = s - i + WordSize
    BY <2>1, Sizes, ModUnique
  <2> QED BY <1>2, <2>1, <2>2, <2>3
<1> QED BY <1>1, <1>2

\* The number of constructed elements, without the modulus.
LEMMA ConstructedIs ==
    ASSUME IndicesTyped
    PROVE  /\ Constructed = IF nextSlot >= nextItem THEN nextSlot - nextItem
                            ELSE nextSlot - nextItem + WordSize
           /\ Constructed \in 0 .. WordSize - 1
  BY DistanceIs DEF IndicesTyped, Constructed

\* The distance leads from the oldest element to the slot that is next.
LEMMA WindowEnds ==
    ASSUME IndicesTyped
    PROVE  SlotOf(nextItem + Constructed) = SlotOf(nextSlot)
<1> USE DEF IndicesTyped
<1>1. \/ nextItem + Constructed = nextSlot
      \/ nextItem + Constructed = nextSlot + WordSize
  BY ConstructedIs, Sizes
<1>2. nextSlot \in Int
  BY Sizes
<1> QED BY <1>1, <1>2, SlotOfWrapped

\* Advancing an index moves its end of the window by one.
LEMMA AdvanceSlot ==
    ASSUME IndicesTyped, Constructed < RingSize,
           nextSlot' = Succ(nextSlot), UNCHANGED nextItem
    PROVE  IndicesTyped' /\ Constructed' = Constructed + 1
<1>1. IndicesTyped'
  BY SuccIs DEF IndicesTyped
<1>2. /\ Constructed' = IF nextSlot' >= nextItem' THEN nextSlot' - nextItem'
                        ELSE nextSlot' - nextItem' + WordSize
  BY <1>1, DistanceIs DEF Constructed, IndicesTyped
<1> QED BY <1>1, <1>2, ConstructedIs, SuccIs, Sizes DEF IndicesTyped

\* An advance of nextItem leaves one element less.
LEMMA AdvanceItem ==
    ASSUME IndicesTyped, Constructed > 0,
           nextItem' = Succ(nextItem), UNCHANGED nextSlot
    PROVE  IndicesTyped' /\ Constructed' = Constructed - 1
<1>1. IndicesTyped'
  BY SuccIs DEF IndicesTyped
<1>2. /\ Constructed' = IF nextSlot' >= nextItem' THEN nextSlot' - nextItem'
                        ELSE nextSlot' - nextItem' + WordSize
  BY <1>1, DistanceIs DEF Constructed, IndicesTyped
<1> QED BY <1>1, <1>2, ConstructedIs, SuccIs, Sizes DEF IndicesTyped

-----------------------------------------------------------------------------
(***************************************************************************)
(* The inductive invariant.                                                *)
(***************************************************************************)
\* A thread is inside a call of the semaphore it waits on exactly while it
\* waits, and is done with the signal before it begins another operation.
Places ==
    /\ producer.at = "waiting" <=> slots_.at # "idle"
    /\ consumer.at = "waiting" <=> items.at # "idle"
    /\ producer.at \in {"waiting", "placed", "gone"} => items.signaler = "idle"
    /\ consumer.at \in {"waiting", "taken", "gone"} => slots_.signaler = "idle"
    /\ producer.at = "gone" <=> consumer.at = "gone"
    /\ producer.at \in {"waiting", "placed"} => producer.item \in Elements

\* The ring itself is well formed; the semaphores have invariants of their own.
RingTyped ==
    /\ data \in [0 .. RingSize - 1 -> Elements \cup {Raw}]
    /\ IndicesTyped
    /\ producer \in [at : {"idle", "waiting", "placed", "gone"},
                     item : Elements \cup {Raw}]
    /\ consumer \in [at : {"idle", "waiting", "taken", "gone"},
                     op : {"dequeue", "pop"}, item : Elements \cup {Raw}]

Placed == IF producer.at = "placed" THEN 1 ELSE 0
Taken == IF consumer.at = "taken" THEN 1 ELSE 0

\* SlotsConserved, in terms of what each semaphore has given out or holds.
HeldConserved == SP!Held + Placed + IP!Held + Taken = Capacity

\* The indices are as far apart as items has permits, and one more while the
\* producer has constructed and not signaled.
IndicesAgree == Constructed = IP!Held + Placed

\* What it has constructed is the newest element, and is what it was given.
NewestIsItem ==
    producer.at = "placed" => data[SlotOf(nextItem + Constructed - 1)] = producer.item

RingInv ==
    /\ SP!IInv
    /\ IP!IInv
    /\ RingTyped
    /\ Places
    /\ HeldConserved
    /\ IndicesAgree
    /\ LiveWindow
    /\ NewestIsItem

-----------------------------------------------------------------------------
(***************************************************************************)
(* The two semaphores, as the buffer uses them.                            *)
(***************************************************************************)
\* The assumptions of LightweightSemaphore hold for both, and no signal is 0.
LEMMA SlotsAssumed ==
    /\ Capacity \in Nat /\ {1} \subseteq Nat /\ SpinLimit \in Nat
    /\ Capacity + 2 \in Nat /\ KernelErrors \in BOOLEAN /\ 0 \notin {1}
  BY BufferAssumption DEF BufferAssumption

\* What the assumption on the semaphore says of items.
LEMMA ItemsAssumed ==
    /\ 0 \in Nat /\ {1} \subseteq Nat /\ SpinLimit \in Nat
    /\ Capacity + 2 \in Nat /\ KernelErrors \in BOOLEAN /\ 0 \notin {1}
  BY BufferAssumption DEF BufferAssumption

\* What the steps of the two threads do to slots_.
LEMMA SlotsSteps ==
    ASSUME SP!IInv
    PROVE  /\ \A m \in S!Modes : S!Call(m) =>
                /\ SP!IInv' /\ SP!Held' = SP!Held
                /\ slots_.at = "idle" /\ slots_'.at # "idle"
                /\ slots_'.signaler = slots_.signaler
           /\ S!WaiterStep =>
                /\ SP!IInv' /\ SP!Held' = SP!Held
                /\ slots_.at \notin {"idle", "acquired"} /\ slots_'.at # "idle"
                /\ slots_'.signaler = slots_.signaler
           /\ S!Return =>
                /\ SP!IInv'
                /\ SP!Held' = SP!Held - (IF slots_.at = "acquired" THEN 1 ELSE 0)
                /\ slots_.at # "idle" /\ slots_'.at = "idle"
                /\ slots_'.signaler = slots_.signaler
           /\ S!Signal(1) =>
                /\ SP!IInv' /\ SP!Held' = SP!Held + 1
                /\ slots_'.at = slots_.at
           /\ S!Post =>
                /\ SP!IInv' /\ SP!Held' = SP!Held
                /\ slots_.signaler = "posting" /\ slots_'.signaler = "idle"
                /\ slots_'.at = slots_.at
<1> USE SlotsAssumed
<1>1. ASSUME NEW m \in S!Modes, S!Call(m)
      PROVE  /\ SP!IInv' /\ SP!Held' = SP!Held
             /\ slots_.at = "idle" /\ slots_'.at # "idle"
             /\ slots_'.signaler = slots_.signaler
  <2>1. m \in SP!Modes /\ SP!Call(m)
    BY <1>1 DEF S!Modes, SP!Modes, S!Call, SP!Call
  <2>2. slots_'.at = "try"
    BY <2>1, SP!CallKeeps
  <2> QED BY <2>1, <2>2, SP!CallKeeps
<1>2. ASSUME S!WaiterStep
      PROVE  /\ SP!IInv' /\ SP!Held' = SP!Held
             /\ slots_.at \notin {"idle", "acquired"} /\ slots_'.at # "idle"
             /\ slots_'.signaler = slots_.signaler
  <2>1. SP!WaiterStep
    BY <1>2 DEF S!WaiterStep, SP!WaiterStep, S!TryLoad, SP!TryLoad,
           S!AfterTryLoad, SP!AfterTryLoad, S!Take, SP!Take, S!SpinLoad,
           SP!SpinLoad, S!Register, SP!Register, S!AfterRegister,
           SP!AfterRegister, S!KernelWake, SP!KernelWake, S!KernelGiveUp,
           SP!KernelGiveUp, S!Restore, SP!Restore, S!Retake, SP!Retake,
           S!TrySema, SP!TrySema, S!Visible, SP!Visible
  <2> QED BY <2>1, SP!WaiterKeeps
<1>3. ASSUME S!Return
      PROVE  /\ SP!IInv'
             /\ SP!Held' = SP!Held - (IF slots_.at = "acquired" THEN 1 ELSE 0)
             /\ slots_.at # "idle" /\ slots_'.at = "idle"
             /\ slots_'.signaler = slots_.signaler
  <2>1. SP!Return /\ slots_.at # "idle"
    BY <1>3 DEF S!Return, SP!Return
  <2> QED BY <2>1, SP!ReturnKeeps
<1>4. ASSUME S!Signal(1)
      PROVE  /\ SP!IInv' /\ SP!Held' = SP!Held + 1
             /\ slots_'.at = slots_.at
  <2>1. SP!Signal(1) /\ 1 \in {1}
    BY <1>4 DEF S!Signal, SP!Signal, S!Owes, SP!Owes
  <2> QED BY <2>1, SP!SignalKeeps
<1>5. ASSUME S!Post
      PROVE  /\ SP!IInv' /\ SP!Held' = SP!Held
             /\ slots_.signaler = "posting" /\ slots_'.signaler = "idle"
             /\ slots_'.at = slots_.at
  <2>1. SP!Post
    BY <1>5 DEF S!Post, SP!Post
  <2> QED BY <2>1, SP!PostKeeps
<1> QED BY <1>1, <1>2, <1>3, <1>4, <1>5

\* A wait that failed and asks again.
LEMMA SlotsRetry ==
    ASSUME SP!IInv, slots_.at = "failed", slots_' = [slots_ EXCEPT !.at = "try"]
    PROVE  /\ SP!IInv' /\ SP!Held' = SP!Held
           /\ slots_'.at # "idle" /\ slots_'.signaler = slots_.signaler
<1>1. slots_'.at # "idle"
  BY DEF SP!IInv, SP!TypeOK
<1> QED BY <1>1, SlotsAssumed, SP!OwnerKeeps

\* The invariant's view of it, in the terms of CircularBuffer.
LEMMA SlotsGives ==
    ASSUME SP!IInv
    PROVE  /\ S!TypeOK
           /\ SP!Held \in Nat
           /\ SP!Held = SlotPermits + (IF slots_.at = "acquired" THEN 1 ELSE 0)
           /\ SlotPermits \in Int
           /\ slots_.count \in Int /\ slots_.count <= SP!Held
           /\ slots_.at = "acquired" => SP!Held > 0
           /\ \A v \in S!Visible : v \in Int /\ v <= slots_.count
<1>1. S!TypeOK
  BY DEF SP!IInv, SP!TypeOK, S!TypeOK, SP!Points, S!Points,
         SP!Modes, S!Modes
<1>2. SP!Held = SlotPermits + (IF slots_.at = "acquired" THEN 1 ELSE 0)
  BY DEF SP!Held, SP!Permits, SlotPermits, SP!Registered, S!Registered
<1>3. slots_.count \in Int
  BY <1>1 DEF S!TypeOK
<1> QED BY <1>1, <1>2, <1>3, SlotsAssumed, SP!IInvGives
        DEF S!Visible, SP!Visible, SlotPermits

\* What they do to items.
LEMMA ItemsSteps ==
    ASSUME IP!IInv
    PROVE  /\ \A m \in I!Modes : I!Call(m) =>
                /\ IP!IInv' /\ IP!Held' = IP!Held
                /\ items.at = "idle" /\ items'.at # "idle"
                /\ items'.signaler = items.signaler
           /\ I!WaiterStep =>
                /\ IP!IInv' /\ IP!Held' = IP!Held
                /\ items.at \notin {"idle", "acquired"} /\ items'.at # "idle"
                /\ items'.signaler = items.signaler
           /\ I!Return =>
                /\ IP!IInv'
                /\ IP!Held' = IP!Held - (IF items.at = "acquired" THEN 1 ELSE 0)
                /\ items.at # "idle" /\ items'.at = "idle"
                /\ items'.signaler = items.signaler
           /\ I!Signal(1) =>
                /\ IP!IInv' /\ IP!Held' = IP!Held + 1
                /\ items'.at = items.at
           /\ I!Post =>
                /\ IP!IInv' /\ IP!Held' = IP!Held
                /\ items.signaler = "posting" /\ items'.signaler = "idle"
                /\ items'.at = items.at
<1> USE ItemsAssumed
<1>1. ASSUME NEW m \in I!Modes, I!Call(m)
      PROVE  /\ IP!IInv' /\ IP!Held' = IP!Held
             /\ items.at = "idle" /\ items'.at # "idle"
             /\ items'.signaler = items.signaler
  <2>1. m \in IP!Modes /\ IP!Call(m)
    BY <1>1 DEF I!Modes, IP!Modes, I!Call, IP!Call
  <2>2. items'.at = "try"
    BY <2>1, IP!CallKeeps
  <2> QED BY <2>1, <2>2, IP!CallKeeps
<1>2. ASSUME I!WaiterStep
      PROVE  /\ IP!IInv' /\ IP!Held' = IP!Held
             /\ items.at \notin {"idle", "acquired"} /\ items'.at # "idle"
             /\ items'.signaler = items.signaler
  <2>1. IP!WaiterStep
    BY <1>2 DEF I!WaiterStep, IP!WaiterStep, I!TryLoad, IP!TryLoad,
           I!AfterTryLoad, IP!AfterTryLoad, I!Take, IP!Take, I!SpinLoad,
           IP!SpinLoad, I!Register, IP!Register, I!AfterRegister,
           IP!AfterRegister, I!KernelWake, IP!KernelWake, I!KernelGiveUp,
           IP!KernelGiveUp, I!Restore, IP!Restore, I!Retake, IP!Retake,
           I!TrySema, IP!TrySema, I!Visible, IP!Visible
  <2> QED BY <2>1, IP!WaiterKeeps
<1>3. ASSUME I!Return
      PROVE  /\ IP!IInv'
             /\ IP!Held' = IP!Held - (IF items.at = "acquired" THEN 1 ELSE 0)
             /\ items.at # "idle" /\ items'.at = "idle"
             /\ items'.signaler = items.signaler
  <2>1. IP!Return /\ items.at # "idle"
    BY <1>3 DEF I!Return, IP!Return
  <2> QED BY <2>1, IP!ReturnKeeps
<1>4. ASSUME I!Signal(1)
      PROVE  /\ IP!IInv' /\ IP!Held' = IP!Held + 1
             /\ items'.at = items.at
  <2>1. IP!Signal(1) /\ 1 \in {1}
    BY <1>4 DEF I!Signal, IP!Signal, I!Owes, IP!Owes
  <2> QED BY <2>1, IP!SignalKeeps
<1>5. ASSUME I!Post
      PROVE  /\ IP!IInv' /\ IP!Held' = IP!Held
             /\ items.signaler = "posting" /\ items'.signaler = "idle"
             /\ items'.at = items.at
  <2>1. IP!Post
    BY <1>5 DEF I!Post, IP!Post
  <2> QED BY <2>1, IP!PostKeeps
<1> QED BY <1>1, <1>2, <1>3, <1>4, <1>5

\* A wait that failed and asks again.
LEMMA ItemsRetry ==
    ASSUME IP!IInv, items.at = "failed", items' = [items EXCEPT !.at = "try"]
    PROVE  /\ IP!IInv' /\ IP!Held' = IP!Held
           /\ items'.at # "idle" /\ items'.signaler = items.signaler
<1>1. items'.at # "idle"
  BY DEF IP!IInv, IP!TypeOK
<1> QED BY <1>1, ItemsAssumed, IP!OwnerKeeps

\* The invariant's view of it, in the terms of CircularBuffer.
LEMMA ItemsGives ==
    ASSUME IP!IInv
    PROVE  /\ I!TypeOK
           /\ IP!Held \in Nat
           /\ IP!Held = ItemPermits + (IF items.at = "acquired" THEN 1 ELSE 0)
           /\ ItemPermits \in Int
           /\ items.count \in Int /\ items.count <= IP!Held
           /\ items.at = "acquired" => IP!Held > 0
           /\ \A v \in I!Visible : v \in Int /\ v <= items.count
<1>1. I!TypeOK
  BY DEF IP!IInv, IP!TypeOK, I!TypeOK, IP!Points, I!Points,
         IP!Modes, I!Modes
<1>2. IP!Held = ItemPermits + (IF items.at = "acquired" THEN 1 ELSE 0)
  BY DEF IP!Held, IP!Permits, ItemPermits, IP!Registered, I!Registered
<1>3. items.count \in Int
  BY <1>1 DEF I!TypeOK
<1> QED BY <1>1, <1>2, <1>3, ItemsAssumed, IP!IInvGives
        DEF I!Visible, IP!Visible, ItemPermits

\* peek() looks at items' count outside of any wait.
LEMMA ItemsLook ==
    ASSUME IP!IInv, items.at = "idle", NEW v \in I!Visible,
           items' = [items EXCEPT !.view = v]
    PROVE  /\ IP!IInv' /\ IP!Held' = IP!Held
           /\ items'.at = "idle" /\ items'.signaler = items.signaler
<1>1. v \in IP!Visible
  BY DEF I!Visible, IP!Visible
<1>2. items'.at = "idle"
  BY DEF IP!IInv, IP!TypeOK
<1> QED BY <1>1, <1>2, ItemsAssumed, IP!OwnerKeeps

-----------------------------------------------------------------------------
(***************************************************************************)
(* What the invariant says of the window of elements.                      *)
(***************************************************************************)
\* The window never exceeds the capacity, has room for one more when the
\* producer has a slot, and is not empty when the consumer has an item.
LEMMA WindowBounded ==
    ASSUME RingInv
    PROVE  /\ SP!Held \in Nat /\ IP!Held \in Nat
           /\ Constructed \in 0 .. Capacity
           /\ slots_.at = "acquired" => Constructed < Capacity
           /\ items.at = "acquired" => Constructed > 0
           /\ items.count > 0 => Constructed > 0
           /\ producer.at = "placed" => Constructed > 0
  BY SlotsGives, ItemsGives, Sizes
  DEF RingInv, HeldConserved, IndicesAgree, Placed, Taken, Places

\* Each place of the window has a slot of its own, and so has the next one
\* while the window is not the whole ring.
LEMMA WindowDistinct ==
    ASSUME RingInv, NEW j \in 0 .. Constructed, NEW k \in 0 .. Constructed,
           SlotOf(nextItem + j) = SlotOf(nextItem + k),
           j - k < RingSize, k - j < RingSize
    PROVE  j = k
<1>1. /\ nextItem + j \in Int /\ nextItem + k \in Int
      /\ nextItem + j < (nextItem + k) + RingSize
      /\ nextItem + k < (nextItem + j) + RingSize
  BY WindowBounded, Sizes DEF RingInv, RingTyped, IndicesTyped
<1>2. nextItem + j = nextItem + k
  BY <1>1, SlotsDistinct
<1> QED BY <1>2, WindowBounded, Sizes DEF RingInv, RingTyped, IndicesTyped

\* The slots between the indices hold elements, and no other does.
LEMMA WindowHolds ==
    ASSUME RingInv, producer.at # "gone"
    PROVE  /\ \A k \in 0 .. Constructed - 1 : data[SlotOf(nextItem + k)] \in Elements
           /\ Constructed < RingSize => data[SlotOf(nextSlot)] = Raw
<1>1. ASSUME NEW k \in 0 .. Constructed - 1
      PROVE  data[SlotOf(nextItem + k)] \in Elements
  <2>1. nextItem + k \in Int
    BY WindowBounded, Sizes DEF RingInv, RingTyped, IndicesTyped
  <2>2. SlotOf(nextItem + k) \in DOMAIN data
    BY <2>1, SlotInRing DEF RingInv, RingTyped
  <2>3. data[SlotOf(nextItem + k)] # Raw
    BY <2>2 DEF RingInv, LiveWindow
  <2> QED BY <2>2, <2>3 DEF RingInv, RingTyped
<1>2. ASSUME Constructed < RingSize, data[SlotOf(nextSlot)] # Raw
      PROVE  FALSE
  <2>1. SlotOf(nextItem + Constructed) = SlotOf(nextSlot)
    BY WindowEnds DEF RingInv, RingTyped
  <2>2. SlotOf(nextSlot) \in DOMAIN data
    BY SlotInRing, Sizes DEF RingInv, RingTyped, IndicesTyped
  <2>3. PICK k \in 0 .. Constructed - 1 : SlotOf(nextSlot) = SlotOf(nextItem + k)
    BY <1>2, <2>2 DEF RingInv, LiveWindow
  <2>4. /\ k \in 0 .. Constructed /\ Constructed \in 0 .. Constructed
        /\ Constructed - k < RingSize /\ k - Constructed < RingSize
    BY <1>2, WindowBounded, Sizes
  <2>5. k = Constructed
    BY <2>1, <2>3, <2>4, WindowDistinct
  <2> QED BY <2>5, WindowBounded
<1> QED BY <1>1, <1>2

\* The properties that runs check follow from the invariant.
LEMMA RingInvGives ==
    ASSUME RingInv
    PROVE  /\ TypeOK /\ SlotsConserved /\ SlotsExclusive
           /\ SizeApproxSound /\ AsleepForCause
<1>1. TypeOK
  BY SlotsGives, ItemsGives DEF RingInv, RingTyped, IndicesTyped, TypeOK
<1>2. SlotsConserved
  BY SlotsGives, ItemsGives
  DEF RingInv, HeldConserved, Placed, Taken, Places, SlotsConserved
<1>3. SlotsReady
  <2>1. ASSUME producer.at = "waiting", slots_.at = "acquired"
        PROVE  data[SlotOf(nextSlot)] = Raw
    BY <2>1, WindowBounded, WindowHolds, Sizes
  <2>2. ASSUME consumer.at = "waiting", items.at = "acquired"
        PROVE  data[SlotOf(nextItem)] # Raw
    <3>1. producer.at # "gone"
      BY <2>2 DEF RingInv, Places
    <3>2. 0 \in 0 .. Constructed - 1 /\ nextItem + 0 = nextItem
      BY <2>2, WindowBounded, Sizes DEF RingInv, RingTyped, IndicesTyped
    <3>3. data[SlotOf(nextItem + 0)] \in Elements
      BY <3>1, <3>2, WindowHolds
    <3> QED BY <3>2, <3>3, BufferAssumption DEF BufferAssumption
  <2> QED BY <2>1, <2>2 DEF SlotsReady
<1>4. SizeApproxSound
  <2>1. Published = IP!Held /\ IP!Held \in Nat
    BY ItemsGives, WindowBounded DEF RingInv, IndicesAgree, Placed, Published
  <2>2. \A v \in I!Visible : I!AvailableApprox(v) <= Published
    BY <2>1, ItemsGives DEF RingInv, I!AvailableApprox
  <2>3. IP!Held <= items.count + (IF consumer.at = "waiting" THEN 1 ELSE 0)
    BY ItemsGives DEF RingInv, Places, ItemPermits, I!Registered
  <2>4. items.count \in Int /\ items.count <= I!AvailableApprox(items.count)
        /\ I!AvailableApprox(items.count) \in Int
    BY ItemsGives DEF RingInv, I!AvailableApprox
  <2> QED BY <2>1, <2>2, <2>3, <2>4 DEF SizeApproxSound
<1>5. AsleepForCause
  <2>1. /\ Capacity \in Nat \ {0}
        /\ SP!Held \in Nat /\ IP!Held \in Nat
        /\ SP!Held + Placed + IP!Held + Taken = Capacity
        /\ Constructed = IP!Held + Placed
    BY SlotsGives, ItemsGives, BufferAssumption
    DEF RingInv, HeldConserved, IndicesAgree, BufferAssumption
  <2>2. ASSUME ProducerAsleep
        PROVE  Constructed + Taken = Capacity /\ Placed = 0
    <3>1. SP!Held = 0
      BY <2>2, SlotsAssumed, SP!AsleepHoldsNone DEF RingInv, ProducerAsleep
    <3>2. Placed = 0
      BY <2>2 DEF RingInv, Places, Placed, ProducerAsleep
    <3> QED BY <2>1, <3>1, <3>2 DEF Taken
  <2>3. ASSUME ConsumerAsleep
        PROVE  Published = 0 /\ IP!Held = 0 /\ Taken = 0
    <3>1. IP!Held = 0
      BY <2>3, ItemsAssumed, IP!AsleepHoldsNone DEF RingInv, ConsumerAsleep
    <3>2. Taken = 0
      BY <2>3 DEF RingInv, Places, Taken, ConsumerAsleep
    <3> QED BY <2>1, <3>1, <3>2 DEF Published, Placed
  <2>4. ~(ProducerAsleep /\ ConsumerAsleep)
    BY <2>1, <2>2, <2>3
  <2> QED BY <2>2, <2>3, <2>4 DEF AsleepForCause, Taken
<1> QED BY <1>1, <1>2, <1>3, <1>4, <1>5 DEF RingInv, SlotsExclusive

-----------------------------------------------------------------------------
(***************************************************************************)
(* The invariant holds at the start and is preserved by each action.       *)
(***************************************************************************)
LEMMA RingInitially == Init => RingInv
<1> SUFFICES ASSUME Init PROVE RingInv
  OBVIOUS
<1> USE DEF Init
<1>1. SP!IInv
  <2>1. SP!Init
    BY DEF S!Init, SP!Init
  <2> QED BY <2>1, SlotsAssumed, SP!InitEstablishes
<1>2. IP!IInv
  <2>1. IP!Init
    BY DEF I!Init, IP!Init
  <2> QED BY <2>1, ItemsAssumed, IP!InitEstablishes
<1>3. RingTyped
  BY Sizes DEF RingTyped, IndicesTyped
<1>4. Places
  BY DEF Places, S!Init, I!Init
<1>5. SP!Held = Capacity /\ IP!Held = 0
  BY Sizes DEF SP!Held, SP!Permits, SP!Registered, S!Init,
               IP!Held, IP!Permits, IP!Registered, I!Init
<1>6. Constructed = 0
  BY <1>3, ConstructedIs DEF RingTyped
<1>7. HeldConserved /\ IndicesAgree /\ NewestIsItem
  BY <1>5, <1>6, Sizes DEF HeldConserved, IndicesAgree, NewestIsItem, Placed, Taken
<1>8. LiveWindow
  BY <1>6 DEF LiveWindow
<1> QED BY <1>1, <1>2, <1>3, <1>4, <1>7, <1>8 DEF RingInv

\* Steps that leave the ring and the indices alone leave the window alone.
LEMMA SameWindow ==
    ASSUME RingInv, UNCHANGED <<data, nextSlot, nextItem>>,
           producer'.at = "gone" <=> producer.at = "gone"
    PROVE  LiveWindow' /\ Constructed' = Constructed /\ IndicesTyped'
<1>1. Constructed' = Constructed
  BY DEF Constructed
<1>2. \A i \in Int : SlotOf(i)' = SlotOf(i)
  BY DEF SlotOf
<1>3. LiveWindow'
  BY <1>1 DEF RingInv, LiveWindow, SlotOf
<1> QED BY <1>1, <1>3 DEF RingInv, RingTyped, IndicesTyped

\* Steps inside the calls, and those that begin one or fail: only a semaphore
\* and the place of its waiter change, and its permits are the same.
LEMMA QuietSteps ==
    ASSUME RingInv, UNCHANGED <<data, nextSlot, nextItem>>,
           SP!IInv', IP!IInv', SP!Held' = SP!Held, IP!Held' = IP!Held,
           RingTyped', Places', Placed' = Placed, Taken' = Taken,
           producer'.at = "gone" <=> producer.at = "gone",
           producer'.at = "placed" => producer' = producer
    PROVE  RingInv'
<1>1. LiveWindow' /\ Constructed' = Constructed
  BY SameWindow
<1>2. HeldConserved' /\ IndicesAgree'
  BY <1>1 DEF RingInv, HeldConserved, IndicesAgree
<1>3. NewestIsItem'
  BY <1>1 DEF RingInv, NewestIsItem, SlotOf
<1> QED BY <1>1, <1>2, <1>3 DEF RingInv

\* A step that leaves a semaphore alone.
LEMMA SlotsStay ==
    ASSUME SP!IInv, UNCHANGED slots_
    PROVE  SP!IInv' /\ SP!Held' = SP!Held
  BY DEF SP!IInv, SP!TypeOK, SP!CountBounded, SP!ViewBehind, SP!ExactlyOneToken,
         SP!Registered, SP!TokenOwed, SP!Held, SP!Permits

\* A step that leaves items alone keeps its invariant.
LEMMA ItemsStay ==
    ASSUME IP!IInv, UNCHANGED items
    PROVE  IP!IInv' /\ IP!Held' = IP!Held
  BY DEF IP!IInv, IP!TypeOK, IP!CountBounded, IP!ViewBehind, IP!ExactlyOneToken,
         IP!Registered, IP!TokenOwed, IP!Held, IP!Permits

\* The producer begins to wait for a slot.
LEMMA EnqueuePreserves ==
    ASSUME RingInv, NEW m \in S!Modes, NEW e \in Elements, Enqueue(m, e)
    PROVE  RingInv'
<1>1. /\ SP!IInv' /\ SP!Held' = SP!Held
      /\ slots_.at = "idle" /\ slots_'.at # "idle"
      /\ slots_'.signaler = slots_.signaler
  BY SlotsSteps DEF Enqueue, RingInv
<1>2. IP!IInv' /\ IP!Held' = IP!Held
  BY ItemsStay DEF Enqueue, RingInv
<1> QED
  BY <1>1, <1>2, QuietSteps
  DEF Enqueue, ProducerIdle, RingInv, RingTyped, IndicesTyped, Places, Placed, Taken

\* It waits.
LEMMA WaitForSlotPreserves ==
    ASSUME RingInv, WaitForSlot
    PROVE  RingInv'
<1>1. /\ SP!IInv' /\ SP!Held' = SP!Held
      /\ slots_.at # "idle" /\ slots_'.at # "idle"
      /\ slots_'.signaler = slots_.signaler
  BY SlotsSteps DEF WaitForSlot, RingInv
<1>2. IP!IInv' /\ IP!Held' = IP!Held
  BY ItemsStay DEF WaitForSlot, RingInv
<1> QED
  BY <1>1, <1>2, QuietSteps
  DEF WaitForSlot, ProducerIdle, ConsumerIdle, RingInv, RingTyped, IndicesTyped, Places,
      Placed, Taken

\* It asks again.
LEMMA RetryEnqueuePreserves ==
    ASSUME RingInv, RetryEnqueue
    PROVE  RingInv'
<1>1. /\ SP!IInv' /\ SP!Held' = SP!Held
      /\ slots_'.at # "idle" /\ slots_'.signaler = slots_.signaler
  BY SlotsRetry DEF RetryEnqueue, RingInv
<1>2. IP!IInv' /\ IP!Held' = IP!Held
  BY ItemsStay DEF RetryEnqueue, RingInv
<1> QED
  BY <1>1, <1>2, QuietSteps
  DEF RetryEnqueue, ProducerIdle, ConsumerIdle, RingInv, RingTyped, IndicesTyped, Places,
      Placed, Taken

\* It gives up.
LEMMA EnqueueFailsPreserves ==
    ASSUME RingInv, EnqueueFails
    PROVE  RingInv'
<1>1. /\ SP!IInv' /\ SP!Held' = SP!Held
      /\ slots_.at # "idle" /\ slots_'.at = "idle"
      /\ slots_'.signaler = slots_.signaler
  BY SlotsSteps, SlotsGives DEF EnqueueFails, RingInv
<1>2. IP!IInv' /\ IP!Held' = IP!Held
  BY ItemsStay DEF EnqueueFails, RingInv
<1> QED
  BY <1>1, <1>2, QuietSteps
  DEF EnqueueFails, ProducerIdle, ConsumerIdle, RingInv, RingTyped, IndicesTyped, Places,
      Placed, Taken

\* It wakes the consumer.
LEMMA WakeConsumerPreserves ==
    ASSUME RingInv, WakeConsumer
    PROVE  RingInv'
<1>1. /\ IP!IInv' /\ IP!Held' = IP!Held
      /\ items'.at = items.at /\ items'.signaler = "idle"
  BY ItemsSteps DEF WakeConsumer, RingInv
<1>2. SP!IInv' /\ SP!Held' = SP!Held
  BY SlotsStay DEF WakeConsumer, RingInv
<1> QED
  BY <1>1, <1>2, QuietSteps
  DEF WakeConsumer, ProducerIdle, ConsumerIdle, RingInv, RingTyped, IndicesTyped, Places,
      Placed, Taken

\* The consumer wakes the producer.
LEMMA WakeProducerPreserves ==
    ASSUME RingInv, WakeProducer
    PROVE  RingInv'
<1>1. /\ SP!IInv' /\ SP!Held' = SP!Held
      /\ slots_'.at = slots_.at /\ slots_'.signaler = "idle"
  BY SlotsSteps DEF WakeProducer, RingInv
<1>2. IP!IInv' /\ IP!Held' = IP!Held
  BY ItemsStay DEF WakeProducer, RingInv
<1> QED
  BY <1>1, <1>2, QuietSteps
  DEF WakeProducer, ProducerIdle, ConsumerIdle, RingInv, RingTyped, IndicesTyped, Places,
      Placed, Taken

\* The consumer begins to wait for an item.
LEMMA DequeuePreserves ==
    ASSUME RingInv, NEW m \in I!Modes, Dequeue(m)
    PROVE  RingInv'
<1>1. /\ IP!IInv' /\ IP!Held' = IP!Held
      /\ items.at = "idle" /\ items'.at # "idle"
      /\ items'.signaler = items.signaler
  BY ItemsSteps DEF Dequeue, RingInv
<1>2. SP!IInv' /\ SP!Held' = SP!Held
  BY SlotsStay DEF Dequeue, RingInv
<1> QED
  BY <1>1, <1>2, QuietSteps
  DEF Dequeue, ProducerIdle, ConsumerIdle, RingInv, RingTyped, IndicesTyped, Places,
      Placed, Taken

\* Or tries to.
LEMMA TryPopPreserves ==
    ASSUME RingInv, TryPop
    PROVE  RingInv'
<1>1. /\ IP!IInv' /\ IP!Held' = IP!Held
      /\ items.at = "idle" /\ items'.at # "idle"
      /\ items'.signaler = items.signaler
  BY ItemsSteps DEF TryPop, RingInv, I!Modes
<1>2. SP!IInv' /\ SP!Held' = SP!Held
  BY SlotsStay DEF TryPop, RingInv
<1> QED
  BY <1>1, <1>2, QuietSteps
  DEF TryPop, ProducerIdle, ConsumerIdle, RingInv, RingTyped, IndicesTyped, Places,
      Placed, Taken

\* It waits.
LEMMA WaitForItemPreserves ==
    ASSUME RingInv, WaitForItem
    PROVE  RingInv'
<1>1. /\ IP!IInv' /\ IP!Held' = IP!Held
      /\ items.at # "idle" /\ items'.at # "idle"
      /\ items'.signaler = items.signaler
  BY ItemsSteps DEF WaitForItem, RingInv
<1>2. SP!IInv' /\ SP!Held' = SP!Held
  BY SlotsStay DEF WaitForItem, RingInv
<1> QED
  BY <1>1, <1>2, QuietSteps
  DEF WaitForItem, ProducerIdle, ConsumerIdle, RingInv, RingTyped, IndicesTyped, Places,
      Placed, Taken

\* It asks again.
LEMMA RetryDequeuePreserves ==
    ASSUME RingInv, RetryDequeue
    PROVE  RingInv'
<1>1. /\ IP!IInv' /\ IP!Held' = IP!Held
      /\ items'.at # "idle" /\ items'.signaler = items.signaler
  BY ItemsRetry DEF RetryDequeue, RingInv
<1>2. SP!IInv' /\ SP!Held' = SP!Held
  BY SlotsStay DEF RetryDequeue, RingInv
<1> QED
  BY <1>1, <1>2, QuietSteps
  DEF RetryDequeue, ProducerIdle, ConsumerIdle, RingInv, RingTyped, IndicesTyped, Places,
      Placed, Taken

\* It gives up.
LEMMA DequeueFailsPreserves ==
    ASSUME RingInv, DequeueFails
    PROVE  RingInv'
<1>1. /\ IP!IInv' /\ IP!Held' = IP!Held
      /\ items.at # "idle" /\ items'.at = "idle"
      /\ items'.signaler = items.signaler
  BY ItemsSteps, ItemsGives DEF DequeueFails, RingInv
<1>2. SP!IInv' /\ SP!Held' = SP!Held
  BY SlotsStay DEF DequeueFails, RingInv
<1> QED
  BY <1>1, <1>2, QuietSteps
  DEF DequeueFails, ProducerIdle, ConsumerIdle, RingInv, RingTyped, IndicesTyped, Places,
      Placed, Taken

\* The producer constructs: the window grows by the slot it had ready.
LEMMA ConstructPreserves ==
    ASSUME RingInv, Construct
    PROVE  RingInv'
<1> USE DEF Construct
<1>1. /\ SP!IInv' /\ SP!Held' = SP!Held - 1
      /\ slots_.at # "idle" /\ slots_'.at = "idle"
      /\ slots_'.signaler = slots_.signaler
  BY SlotsSteps DEF RingInv
<1>2. IP!IInv' /\ IP!Held' = IP!Held
  BY ItemsStay DEF RingInv
<1>3. Constructed < Capacity /\ Constructed \in 0 .. Capacity
  BY WindowBounded
<1>4. IndicesTyped' /\ Constructed' = Constructed + 1
  BY <1>3, AdvanceSlot, Sizes DEF RingInv, RingTyped
<1>5. /\ producer.at = "waiting" /\ producer'.at = "placed"
      /\ producer'.item = producer.item /\ producer.item \in Elements
      /\ producer.item # Raw
  BY BufferAssumption DEF RingInv, RingTyped, Places, BufferAssumption
<1>6. /\ SlotOf(nextSlot) \in DOMAIN data
      /\ DOMAIN data = 0 .. RingSize - 1 /\ DOMAIN data' = DOMAIN data
      /\ \A i \in DOMAIN data :
            data'[i] = IF i = SlotOf(nextSlot) THEN producer.item ELSE data[i]
  BY SlotInRing, Sizes DEF RingInv, RingTyped, IndicesTyped
<1>7. SlotOf(nextSlot) = SlotOf(nextItem + Constructed)
  BY WindowEnds DEF RingInv, RingTyped
<1>8. RingTyped'
  BY <1>4, <1>5, <1>6 DEF RingInv, RingTyped
<1>9. Places'
  BY <1>1, <1>5 DEF RingInv, Places
<1>10. HeldConserved' /\ IndicesAgree'
  BY <1>1, <1>2, <1>4, <1>5, WindowBounded, Sizes
  DEF RingInv, HeldConserved, IndicesAgree, Placed, Taken
<1>11. LiveWindow'
  <2>1. ASSUME NEW i \in DOMAIN data
        PROVE  (\E k \in 0 .. Constructed' - 1 : i = SlotOf(nextItem' + k))
                 <=> \/ i = SlotOf(nextSlot)
                     \/ \E k \in 0 .. Constructed - 1 : i = SlotOf(nextItem + k)
    <3>1. 0 .. Constructed' - 1 = (0 .. Constructed - 1) \cup {Constructed}
      BY <1>3, <1>4, Sizes
    <3> QED BY <1>7, <3>1
  <2> QED BY <1>5, <1>6, <2>1 DEF RingInv, LiveWindow, SlotOf
<1>12. NewestIsItem'
  <2>1. nextItem' + Constructed' - 1 = nextItem + Constructed
    BY <1>3, <1>4, Sizes DEF RingInv, RingTyped, IndicesTyped
  <2> QED BY <1>5, <1>6, <1>7, <2>1 DEF NewestIsItem, SlotOf
<1> QED BY <1>1, <1>2, <1>8, <1>9, <1>10, <1>11, <1>12 DEF RingInv

\* The producer's signal turns the element into an item.
LEMMA PublishPreserves ==
    ASSUME RingInv, Publish
    PROVE  RingInv'
<1> USE DEF Publish
<1>1. /\ IP!IInv' /\ IP!Held' = IP!Held + 1
      /\ items'.at = items.at
  BY ItemsSteps DEF RingInv
<1>2. SP!IInv' /\ SP!Held' = SP!Held
  BY SlotsStay DEF RingInv
<1>3. /\ producer.at = "placed" /\ producer'.at = "idle"
      /\ producer'.item = producer.item
  BY DEF RingInv, RingTyped
<1>4. LiveWindow' /\ Constructed' = Constructed /\ IndicesTyped'
  BY <1>3, SameWindow
<1>5. RingTyped' /\ Places'
  BY <1>1, <1>3, <1>4 DEF RingInv, RingTyped, Places
<1>6. HeldConserved' /\ IndicesAgree' /\ NewestIsItem'
  BY <1>1, <1>2, <1>3, <1>4, WindowBounded, Sizes
  DEF RingInv, HeldConserved, IndicesAgree, NewestIsItem, Placed, Taken
<1> QED BY <1>1, <1>2, <1>4, <1>5, <1>6 DEF RingInv

\* The consumer takes: the window shrinks by its oldest slot.
LEMMA TakePreserves ==
    ASSUME RingInv, Take
    PROVE  RingInv'
<1> USE DEF Take, AfterTake, WithoutNextElement, NextElement
<1>1. /\ IP!IInv' /\ IP!Held' = IP!Held - 1
      /\ items.at # "idle" /\ items'.at = "idle"
      /\ items'.signaler = items.signaler
  BY ItemsSteps DEF RingInv
<1>2. SP!IInv' /\ SP!Held' = SP!Held
  BY SlotsStay DEF RingInv
<1>3. Constructed > 0 /\ Constructed \in 0 .. Capacity
  BY WindowBounded
<1>4. IndicesTyped' /\ Constructed' = Constructed - 1
  BY <1>3, AdvanceItem, Sizes DEF RingInv, RingTyped
<1>5. /\ consumer.at = "waiting" /\ consumer'.at = "taken"
      /\ producer.at # "gone"
  BY DEF RingInv, RingTyped, Places
<1>6. /\ SlotOf(nextItem) \in DOMAIN data
      /\ DOMAIN data = 0 .. RingSize - 1 /\ DOMAIN data' = DOMAIN data
      /\ \A i \in DOMAIN data :
            data'[i] = IF i = SlotOf(nextItem) THEN Raw ELSE data[i]
  BY SlotInRing, Sizes DEF RingInv, RingTyped, IndicesTyped
<1>7. RingTyped'
  BY <1>4, <1>5, <1>6 DEF RingInv, RingTyped
<1>8. Places'
  BY <1>1, <1>5 DEF RingInv, Places
<1>9. HeldConserved' /\ IndicesAgree'
  BY <1>1, <1>2, <1>4, <1>5, WindowBounded, Sizes
  DEF RingInv, HeldConserved, IndicesAgree, Placed, Taken
<1>10. \A k \in Int : SlotOf(nextItem' + k) = SlotOf(nextItem + k + 1)
  BY SuccSlot DEF RingInv, RingTyped, IndicesTyped
<1>11. nextItem \in Int /\ nextItem + 0 = nextItem
  BY Sizes DEF RingInv, RingTyped, IndicesTyped
<1>12. \A k \in 1 .. Constructed - 1 : SlotOf(nextItem + k) # SlotOf(nextItem)
  <2>1. SUFFICES ASSUME NEW k \in 1 .. Constructed - 1,
                        SlotOf(nextItem + k) = SlotOf(nextItem + 0)
                 PROVE  FALSE
    BY <1>11
  <2>2. /\ k \in 0 .. Constructed /\ 0 \in 0 .. Constructed
        /\ k - 0 < RingSize /\ 0 - k < RingSize /\ k # 0
    BY <1>3, Sizes
  <2> QED BY <2>1, <2>2, WindowDistinct
<1>13. LiveWindow'
  <2>1. ASSUME NEW i \in DOMAIN data
        PROVE  (\E k \in 0 .. Constructed' - 1 : i = SlotOf(nextItem' + k))
                 <=> /\ i # SlotOf(nextItem)
                     /\ \E k \in 0 .. Constructed - 1 : i = SlotOf(nextItem + k)
    <3>1. ASSUME NEW k \in 0 .. Constructed' - 1, i = SlotOf(nextItem' + k)
          PROVE  /\ i # SlotOf(nextItem)
                 /\ \E j \in 0 .. Constructed - 1 : i = SlotOf(nextItem + j)
      <4>1. /\ k \in Int /\ k + 1 \in 1 .. Constructed - 1
            /\ k + 1 \in 0 .. Constructed - 1
            /\ nextItem + k + 1 = nextItem + (k + 1)
        BY <1>3, <1>4, <1>11, Sizes
      <4>2. i = SlotOf(nextItem + (k + 1))
        BY <1>10, <3>1, <4>1
      <4> QED BY <1>12, <4>1, <4>2
    <3>2. ASSUME i # SlotOf(nextItem), NEW k \in 0 .. Constructed - 1,
                 i = SlotOf(nextItem + k)
          PROVE  \E j \in 0 .. Constructed' - 1 : i = SlotOf(nextItem' + j)
      <4>1. k # 0
        BY <1>11, <3>2
      <4>2. /\ k - 1 \in 0 .. Constructed' - 1 /\ k - 1 \in Int
            /\ nextItem + (k - 1) + 1 = nextItem + k
        BY <1>3, <1>4, <1>11, <4>1, Sizes
      <4>3. i = SlotOf(nextItem' + (k - 1))
        BY <1>10, <3>2, <4>2
      <4> QED BY <4>2, <4>3
    <3> QED BY <3>1, <3>2
  <2>2. \A i \in DOMAIN data :
            data'[i] # Raw <=>
              /\ i # SlotOf(nextItem)
              /\ \E k \in 0 .. Constructed - 1 : i = SlotOf(nextItem + k)
    BY <1>5, <1>6 DEF RingInv, LiveWindow
  <2>3. producer'.at # "gone"
    BY <1>5
  <2>4. \A i \in DOMAIN data' :
            data'[i] # Raw <=>
              \E k \in 0 .. Constructed' - 1 : i = SlotOf(nextItem' + k)
    BY <1>6, <2>1, <2>2
  <2> QED BY <2>3, <2>4 DEF LiveWindow, SlotOf
<1>14. NewestIsItem'
  <2>1. SUFFICES ASSUME producer.at = "placed"
                 PROVE  data'[SlotOf(nextItem' + Constructed' - 1)] = producer.item
    BY DEF NewestIsItem, SlotOf
  <2>2. Constructed > 1
    BY <1>3, <2>1, WindowBounded, ItemsGives
    DEF RingInv, IndicesAgree, Placed, Places
  <2>3. /\ nextItem' + Constructed' - 1 = nextItem' + (Constructed - 2)
        /\ Constructed - 2 \in Int
        /\ nextItem + (Constructed - 2) + 1 = nextItem + Constructed - 1
        /\ nextItem + (Constructed - 1) = nextItem + Constructed - 1
        /\ Constructed - 1 \in 1 .. Constructed - 1
        /\ nextItem + Constructed - 1 \in Int
    BY <1>3, <1>4, <1>11, <2>2, Sizes DEF IndicesTyped
  <2>4. SlotOf(nextItem' + Constructed' - 1) = SlotOf(nextItem + Constructed - 1)
    BY <1>10, <2>3
  <2>5. SlotOf(nextItem + Constructed - 1) # SlotOf(nextItem)
    BY <1>12, <2>3
  <2>6. SlotOf(nextItem + Constructed - 1) \in DOMAIN data
    BY <1>6, <2>3, SlotInRing
  <2> QED BY <1>6, <2>1, <2>4, <2>5, <2>6 DEF RingInv, NewestIsItem
<1> QED BY <1>1, <1>2, <1>7, <1>8, <1>9, <1>13, <1>14 DEF RingInv

\* The consumer's signal frees the slot.
LEMMA ReleasePreserves ==
    ASSUME RingInv, Release
    PROVE  RingInv'
<1> USE DEF Release
<1>1. /\ SP!IInv' /\ SP!Held' = SP!Held + 1
      /\ slots_'.at = slots_.at
  BY SlotsSteps DEF RingInv
<1>2. IP!IInv' /\ IP!Held' = IP!Held
  BY ItemsStay DEF RingInv
<1>3. consumer.at = "taken" /\ consumer'.at = "idle" /\ producer.at # "gone"
  BY DEF RingInv, RingTyped, Places
<1>4. LiveWindow' /\ Constructed' = Constructed /\ IndicesTyped'
  BY <1>3, SameWindow
<1>5. RingTyped' /\ Places'
  BY <1>1, <1>3, <1>4 DEF RingInv, RingTyped, Places
<1>6. HeldConserved' /\ IndicesAgree'
  BY <1>1, <1>2, <1>3, <1>4, WindowBounded, Sizes
  DEF RingInv, HeldConserved, IndicesAgree, Placed, Taken
<1>7. NewestIsItem'
  BY <1>4 DEF RingInv, NewestIsItem, SlotOf
<1> QED BY <1>1, <1>2, <1>4, <1>5, <1>6, <1>7 DEF RingInv

\* The consumer looks at the oldest element.
LEMMA PeekPreserves ==
    ASSUME RingInv, Peek
    PROVE  RingInv'
<1>1. PICK v \in I!Visible :
        /\ I!AvailableApprox(v) # 0
        /\ items' = [items EXCEPT !.view = v]
        /\ consumer' = [consumer EXCEPT !.item = NextElement]
  BY DEF Peek
<1>2. items.at = "idle"
  BY DEF Peek, ConsumerIdle, RingInv, Places
<1>3. /\ IP!IInv' /\ IP!Held' = IP!Held
      /\ items'.at = "idle" /\ items'.signaler = items.signaler
  BY <1>1, <1>2, ItemsLook DEF RingInv
<1>4. SP!IInv' /\ SP!Held' = SP!Held
  BY SlotsStay DEF Peek, RingInv
<1>5. NextElement \in Elements \cup {Raw}
  BY SlotInRing, Sizes DEF NextElement, RingInv, RingTyped, IndicesTyped
<1> QED
  BY <1>1, <1>2, <1>3, <1>4, <1>5, QuietSteps
  DEF Peek, ConsumerIdle, RingInv, RingTyped, IndicesTyped, Places, Placed, Taken

\* The destructor: items counts all that was constructed, so it all goes.
LEMMA DestroyPreserves ==
    ASSUME RingInv, Destroy
    PROVE  RingInv' /\ \A i \in DOMAIN data' : data'[i] = Raw
<1> USE DEF Destroy, ProducerIdle, ConsumerIdle
<1>1. SP!IInv' /\ SP!Held' = SP!Held
  BY SlotsStay DEF RingInv
<1>2. IP!IInv' /\ IP!Held' = IP!Held
  BY ItemsStay DEF RingInv
<1>3. items.at = "idle" /\ slots_.at = "idle"
  BY DEF RingInv, Places
<1>4. I!AvailableApprox(items.count) = Constructed
  BY <1>3, ItemsGives, WindowBounded
  DEF RingInv, IndicesAgree, Placed, I!AvailableApprox, ItemPermits, I!Registered
<1>5. DOMAIN data' = DOMAIN data /\ \A i \in DOMAIN data' : data'[i] = Raw
  <2>1. /\ DOMAIN data' = DOMAIN data
        /\ \A i \in DOMAIN data :
             data'[i] = IF \E k \in 0 .. Constructed - 1 : i = SlotOf(nextItem + k)
                        THEN Raw ELSE data[i]
    BY <1>4
  <2> QED BY <2>1 DEF RingInv, LiveWindow
<1>6. RingTyped'
  <2>1. data' \in [0 .. RingSize - 1 -> Elements \cup {Raw}]
    BY <1>5 DEF RingInv, RingTyped
  <2> QED BY <2>1 DEF RingInv, RingTyped, IndicesTyped
<1>7. producer'.at = "gone" /\ consumer'.at = "gone"
  BY DEF RingInv, RingTyped
<1>8. Places'
  BY <1>3, <1>7 DEF RingInv, Places
<1>9. HeldConserved' /\ IndicesAgree' /\ NewestIsItem'
  BY <1>1, <1>2, <1>7
  DEF RingInv, HeldConserved, IndicesAgree, NewestIsItem, Constructed, Placed, Taken
<1>10. LiveWindow'
  BY <1>5, <1>7 DEF LiveWindow
<1> QED BY <1>1, <1>2, <1>5, <1>6, <1>8, <1>9, <1>10 DEF RingInv

\* Nothing happens.
LEMMA RingStutters ==
    ASSUME RingInv, UNCHANGED vars
    PROVE  RingInv'
<1>1. /\ UNCHANGED <<slots_, items, data, nextSlot, nextItem>>
      /\ UNCHANGED <<producer, consumer>>
  BY DEF vars
<1>2. /\ SP!IInv' /\ SP!Held' = SP!Held
      /\ IP!IInv' /\ IP!Held' = IP!Held
  BY <1>1, SlotsStay, ItemsStay DEF RingInv
<1> QED
  BY <1>1, <1>2, QuietSteps
  DEF RingInv, RingTyped, IndicesTyped, Places, Placed, Taken

\* Every step of either thread preserves the inductive invariant.
LEMMA RingPreserved ==
    ASSUME RingInv, [Next]_vars
    PROVE  RingInv'
<1>1. CASE ProducerStep
  BY <1>1, WaitForSlotPreserves, RetryEnqueuePreserves, EnqueueFailsPreserves,
     ConstructPreserves, PublishPreserves, WakeConsumerPreserves DEF ProducerStep
<1>2. CASE ConsumerStep
  BY <1>2, WaitForItemPreserves, RetryDequeuePreserves, DequeueFailsPreserves,
     TakePreserves, ReleasePreserves, WakeProducerPreserves DEF ConsumerStep
<1>3. CASE Gone
  BY <1>3, RingStutters DEF Gone
<1> QED
  BY <1>1, <1>2, <1>3, EnqueuePreserves, DequeuePreserves, TryPopPreserves,
     PeekPreserves, DestroyPreserves, RingStutters DEF Next

-----------------------------------------------------------------------------
\* However the threads interleave and the indices wrap: no slot is lost or
\* counted twice, a slot holds an element exactly when it lies between the two
\* indices, the two threads never touch one slot together, size_approx()
\* promises the consumer no element that is not there and misses at most the
\* one it is about to take, and neither thread sleeps in the kernel on what
\* the other has signaled.
\* (readerwritercircularbuffer.h: BlockingReaderWriterCircularBuffer.)
THEOREM BufferCorrect ==
    Spec => [](/\ TypeOK
               /\ SlotsConserved
               /\ SlotsExclusive
               /\ SizeApproxSound
               /\ AsleepForCause)
<1>1. RingInv /\ [Next]_vars => RingInv'
  BY RingPreserved
<1>2. RingInv => /\ TypeOK
                 /\ SlotsConserved
                 /\ SlotsExclusive
                 /\ SizeApproxSound
                 /\ AsleepForCause
  BY RingInvGives
<1> QED BY RingInitially, <1>1, <1>2, PTL DEF Spec

-----------------------------------------------------------------------------
(***************************************************************************)
(* The refinement of BoundedFifo.                                          *)
(***************************************************************************)
\* The queue the refinement mapping shows, and its elements while it lives.
Shown == [k \in 1 .. Published |-> data[SlotOf(nextItem + k - 1)]]
Queue == IF producer.at = "gone" THEN <<>> ELSE Shown

\* A function on 1 .. n is a sequence of that length.
LEMMA FunctionIsSequence ==
    ASSUME NEW n \in Nat, NEW E, NEW f \in [1 .. n -> E]
    PROVE  f \in Seq(E) /\ Len(f) = n
  OBVIOUS

\* And the other way round.
LEMMA SequenceIsFunction ==
    ASSUME NEW E, NEW f \in Seq(E), NEW n \in Nat, Len(f) = n
    PROVE  f \in [1 .. n -> E]
  OBVIOUS

\* What is left of a sequence without its head.
LEMMA TailIs ==
    ASSUME NEW E, NEW f \in Seq(E), f # <<>>
    PROVE  Tail(f) = [i \in 1 .. Len(f) - 1 |-> f[i + 1]]
<1>1. Tail(f) \in Seq(E) /\ Len(Tail(f)) = Len(f) - 1
  OBVIOUS
<1>2. Tail(f) \in [1 .. Len(f) - 1 -> E]
  <2>1. Len(f) - 1 \in Nat
    OBVIOUS
  <2> QED BY <1>1, <2>1, SequenceIsFunction
<1>3. \A i \in 1 .. Len(f) - 1 : Tail(f)[i] = f[i + 1]
  OBVIOUS
<1> QED BY <1>2, <1>3

\* The queue is a sequence of elements, as long as items has permits.
LEMMA QueueTyped ==
    ASSUME RingInv, producer.at # "gone"
    PROVE  /\ Published = IP!Held /\ Published \in Nat
           /\ Queue \in Seq(Elements) /\ Len(Queue) = Published
           /\ \A k \in 1 .. Published : Queue[k] = data[SlotOf(nextItem + k - 1)]
<1>1. Published = IP!Held /\ Published \in Nat /\ Published <= Constructed
  BY WindowBounded DEF RingInv, IndicesAgree, Placed, Published
<1>2. ASSUME NEW k \in 1 .. Published
      PROVE  data[SlotOf(nextItem + k - 1)] \in Elements
  <2>1. k - 1 \in 0 .. Constructed - 1 /\ nextItem + (k - 1) = nextItem + k - 1
    BY <1>1, WindowBounded, Sizes DEF RingInv, RingTyped, IndicesTyped
  <2>2. data[SlotOf(nextItem + (k - 1))] \in Elements
    BY <2>1, WindowHolds
  <2> QED BY <2>1, <2>2
<1>3. Shown \in [1 .. Published -> Elements]
  BY <1>2 DEF Shown
<1>4. Shown \in Seq(Elements) /\ Len(Shown) = Published
  BY <1>1, <1>3, FunctionIsSequence
<1> QED BY <1>1, <1>4 DEF Queue, Shown

\* Steps that touch neither the ring nor what is published are invisible.
LEMMA QueueStays ==
    ASSUME UNCHANGED <<data, nextSlot, nextItem>>, UNCHANGED Placed,
           producer'.at = "gone" <=> producer.at = "gone",
           consumer'.item = consumer.item
    PROVE  UNCHANGED <<Queue, consumer.item>>
<1>1. Published' = Published
  BY DEF Published, Constructed, Placed
<1>2. Shown' = Shown
  BY <1>1 DEF Shown, SlotOf
<1> QED BY <1>2 DEF Queue

\* So is constructing: what is published has slots of its own.
LEMMA ConstructInvisible ==
    ASSUME RingInv, Construct
    PROVE  UNCHANGED <<Queue, consumer.item>>
<1>1. RingInv' /\ producer.at # "gone" /\ producer'.at # "gone"
  BY ConstructPreserves DEF Construct, RingInv, RingTyped
<1>2. Constructed < Capacity /\ Constructed \in 0 .. Capacity
  BY WindowBounded DEF Construct
<1>3. Constructed' = Constructed + 1
  BY <1>2, AdvanceSlot, Sizes DEF Construct, RingInv, RingTyped
<1>4. Published' = Published /\ Published = Constructed
  BY <1>2, <1>3 DEF Published, Construct, RingInv, RingTyped
<1>5. ASSUME NEW k \in 1 .. Published
      PROVE  data'[SlotOf(nextItem + k - 1)] = data[SlotOf(nextItem + k - 1)]
  <2>1. /\ nextItem + k - 1 \in Int /\ nextItem + k - 1 = nextItem + (k - 1)
        /\ k - 1 \in 0 .. Constructed /\ Constructed \in 0 .. Constructed
        /\ k - 1 # Constructed
        /\ (k - 1) - Constructed < RingSize /\ Constructed - (k - 1) < RingSize
    BY <1>2, <1>4, Sizes DEF RingInv, RingTyped, IndicesTyped
  <2>2. SlotOf(nextItem + (k - 1)) # SlotOf(nextItem + Constructed)
    BY <2>1, WindowDistinct
  <2>3. SlotOf(nextItem + k - 1) # SlotOf(nextSlot)
    BY <2>1, <2>2, WindowEnds DEF RingInv, RingTyped
  <2>4. SlotOf(nextItem + k - 1) \in DOMAIN data
    BY <2>1, SlotInRing DEF RingInv, RingTyped
  <2> QED BY <2>3, <2>4 DEF Construct
<1>6. Shown' = Shown
  BY <1>4, <1>5 DEF Shown, SlotOf, Construct
<1> QED BY <1>1, <1>6 DEF Queue, Construct

\* The signal publishes what was constructed, at the end of the queue.
LEMMA PublishEnqueues ==
    ASSUME RingInv, Publish
    PROVE  /\ producer.item \in Elements
           /\ Len(Queue) < Capacity
           /\ Queue' = Append(Queue, producer.item)
           /\ UNCHANGED consumer.item
<1>1. /\ producer.at = "placed" /\ producer'.at # "gone"
      /\ producer'.at = "idle"
      /\ producer.item \in Elements
  BY DEF Publish, RingInv, RingTyped, Places
<1>2. Constructed' = Constructed /\ Constructed \in 0 .. Capacity /\ Constructed > 0
  BY <1>1, WindowBounded DEF Publish, Constructed
<1>3. Published = Constructed - 1 /\ Published' = Published + 1
  BY <1>1, <1>2 DEF Published
<1>4. /\ Queue \in Seq(Elements) /\ Len(Queue) = Published
      /\ \A k \in 1 .. Published : Queue[k] = data[SlotOf(nextItem + k - 1)]
  BY <1>1, QueueTyped
<1>5. Queue' = [k \in 1 .. Published + 1 |-> data[SlotOf(nextItem + k - 1)]]
  BY <1>1, <1>3 DEF Queue, Shown, SlotOf, Publish
<1>6. nextItem + (Published + 1) - 1 = nextItem + Constructed - 1
  BY <1>2, <1>3, Sizes DEF RingInv, RingTyped, IndicesTyped
<1>7. data[SlotOf(nextItem + (Published + 1) - 1)] = producer.item
  BY <1>1, <1>6 DEF RingInv, NewestIsItem
<1>8. Queue' = Append(Queue, producer.item)
  BY <1>2, <1>3, <1>4, <1>5, <1>7
<1>9. UNCHANGED consumer.item
  BY DEF Publish
<1> QED BY <1>1, <1>2, <1>3, <1>4, <1>8, <1>9, Sizes

\* The oldest element is the head of the queue when items has a permit.
LEMMA HeadIsNext ==
    ASSUME RingInv, producer.at # "gone", IP!Held > 0
    PROVE  Queue # <<>> /\ Head(Queue) = NextElement
<1>1. /\ Queue \in Seq(Elements) /\ Len(Queue) = Published /\ Published > 0
      /\ \A k \in 1 .. Published : Queue[k] = data[SlotOf(nextItem + k - 1)]
  BY QueueTyped
<1>2. nextItem + 1 - 1 = nextItem /\ 1 \in 1 .. Published
  BY <1>1, QueueTyped, Sizes DEF RingInv, RingTyped, IndicesTyped
<1>3. Queue[1] = NextElement
  BY <1>1, <1>2 DEF NextElement
<1> QED BY <1>1, <1>3

\* Taking removes it.
LEMMA TakeDequeues ==
    ASSUME RingInv, Take
    PROVE  /\ Queue # <<>>
           /\ Queue' = Tail(Queue)
           /\ consumer'.item = IF consumer.op = "dequeue" THEN Head(Queue)
                               ELSE consumer.item
<1>1. /\ producer.at # "gone" /\ producer'.at # "gone" /\ producer' = producer
      /\ IP!Held > 0
  BY ItemsGives DEF Take, RingInv, Places
<1>2. Queue # <<>> /\ Head(Queue) = NextElement
  BY <1>1, HeadIsNext
<1>3. consumer'.item = IF consumer.op = "dequeue" THEN NextElement ELSE consumer.item
  BY DEF Take, RingInv, RingTyped
<1>4. Constructed > 0 /\ Constructed \in 0 .. Capacity
  BY WindowBounded DEF Take
<1>5. Constructed' = Constructed - 1 /\ IndicesTyped'
  BY <1>4, AdvanceItem, Sizes DEF Take, RingInv, RingTyped
<1>6. /\ Published' = Published - 1 /\ Published \in Nat /\ Published > 0
      /\ Published <= Constructed
      /\ Queue \in Seq(Elements) /\ Len(Queue) = Published
      /\ \A k \in 1 .. Published : Queue[k] = data[SlotOf(nextItem + k - 1)]
  BY <1>1, <1>4, <1>5, QueueTyped DEF Published
<1>7. ASSUME NEW k \in 1 .. Published - 1
      PROVE  data'[SlotOf(nextItem' + k - 1)] = Queue[k + 1]
  <2>1. /\ k - 1 \in Int /\ k \in 0 .. Constructed /\ 0 \in 0 .. Constructed
        /\ k # 0 /\ k - 0 < RingSize /\ 0 - k < RingSize
        /\ nextItem' + k - 1 = nextItem' + (k - 1)
        /\ nextItem + (k - 1) + 1 = nextItem + k
        /\ nextItem + (k + 1) - 1 = nextItem + k
        /\ nextItem + 0 = nextItem
        /\ nextItem + k \in Int
        /\ k + 1 \in 1 .. Published
    BY <1>4, <1>5, <1>6, Sizes DEF RingInv, RingTyped, IndicesTyped
  <2>2. SlotOf(nextItem' + (k - 1)) = SlotOf(nextItem + (k - 1) + 1)
    BY <2>1, SuccSlot DEF Take, RingInv, RingTyped, IndicesTyped
  <2>3. SlotOf(nextItem' + k - 1) = SlotOf(nextItem + k)
    BY <2>1, <2>2
  <2>4. SlotOf(nextItem + k) # SlotOf(nextItem + 0)
    BY <2>1, WindowDistinct
  <2>5. SlotOf(nextItem + k) \in DOMAIN data
    BY <2>1, SlotInRing DEF RingInv, RingTyped
  <2>6. data'[SlotOf(nextItem + k)] = data[SlotOf(nextItem + k)]
    BY <2>1, <2>4, <2>5 DEF Take, WithoutNextElement
  <2>7. Queue[k + 1] = data[SlotOf(nextItem + k)]
    BY <1>6, <2>1
  <2> QED BY <2>3, <2>6, <2>7
<1>8. Queue' = [k \in 1 .. Published - 1 |-> Queue[k + 1]]
  BY <1>1, <1>6, <1>7 DEF Queue, Shown, SlotOf
<1>9. Queue' = Tail(Queue)
  BY <1>2, <1>6, <1>8, TailIs
<1> QED BY <1>2, <1>3, <1>9

\* Peeking reads it.
LEMMA PeekReads ==
    ASSUME RingInv, Peek
    PROVE  /\ Queue # <<>>
           /\ consumer'.item = Head(Queue)
           /\ UNCHANGED Queue
<1>1. PICK v \in I!Visible :
        /\ I!AvailableApprox(v) # 0
        /\ consumer' = [consumer EXCEPT !.item = NextElement]
  BY DEF Peek
<1>2. producer.at # "gone" /\ IP!Held > 0
  BY <1>1, ItemsGives
  DEF Peek, ConsumerIdle, RingInv, Places, I!AvailableApprox
<1>3. consumer'.item = NextElement
  BY <1>1 DEF RingInv, RingTyped
<1>4. Published' = Published
  BY DEF Peek, Published, Constructed
<1>5. UNCHANGED Queue
  BY <1>4 DEF Peek, Queue, Shown, SlotOf
<1> QED BY <1>2, <1>3, <1>5, HeadIsNext

\* Every step is one of the queue's, or invisible to it.
LEMMA RingImplements ==
    ASSUME RingInv, [Next]_vars
    PROVE  [Fifo!Next]_(Fifo!vars)
<1> USE DEF Fifo!vars, Queue, Shown
<1>1. ASSUME UNCHANGED <<data, nextSlot, nextItem>>, UNCHANGED Placed,
             producer'.at = "gone" <=> producer.at = "gone",
             consumer'.item = consumer.item
      PROVE  UNCHANGED Fifo!vars
  BY <1>1, QueueStays
<1>2. ASSUME NEW m \in S!Modes, NEW e \in Elements, Enqueue(m, e)
      PROVE  UNCHANGED Fifo!vars
  BY <1>1, <1>2 DEF Enqueue, ProducerIdle, Placed
<1>3. CASE WaitForSlot \/ RetryEnqueue \/ WakeConsumer
  BY <1>1, <1>3 DEF WaitForSlot, RetryEnqueue, WakeConsumer, Placed
<1>4. CASE EnqueueFails
  BY <1>1, <1>4 DEF EnqueueFails, Placed, RingInv, RingTyped
<1>5. CASE Construct
  BY <1>5, ConstructInvisible
<1>6. CASE Publish
  BY <1>6, PublishEnqueues DEF Fifo!Next, Fifo!Enqueue
<1>7. ASSUME NEW m \in I!Modes, Dequeue(m)
      PROVE  UNCHANGED Fifo!vars
  BY <1>1, <1>7 DEF Dequeue, ConsumerIdle, Placed, RingInv, RingTyped
<1>8. CASE TryPop
  BY <1>1, <1>8 DEF TryPop, ConsumerIdle, Placed, RingInv, RingTyped
<1>9. CASE WaitForItem \/ RetryDequeue \/ WakeProducer
  BY <1>1, <1>9 DEF WaitForItem, RetryDequeue, WakeProducer, Placed
<1>10. CASE DequeueFails
  BY <1>1, <1>10 DEF DequeueFails, Placed, RingInv, RingTyped
<1>11. CASE Take
  BY <1>11, TakeDequeues DEF Fifo!Next, Fifo!Dequeue, Fifo!Pop
<1>12. CASE Release
  BY <1>1, <1>12 DEF Release, Placed, RingInv, RingTyped
<1>13. CASE Peek
  BY <1>13, PeekReads DEF Fifo!Next, Fifo!Peek
<1>14. CASE Destroy
  <2>1. producer'.at = "gone" /\ consumer'.item = consumer.item
    BY <1>14 DEF Destroy, RingInv, RingTyped
  <2> QED BY <2>1 DEF Fifo!Next, Fifo!Destroy
<1>15. CASE UNCHANGED vars \/ Gone
  BY <1>1, <1>15 DEF vars, Gone, Placed
<1> HIDE DEF Fifo!vars, Queue, Shown
<1> QED
  BY <1>2, <1>3, <1>4, <1>5, <1>6, <1>7, <1>8, <1>9, <1>10, <1>11, <1>12, <1>13,
     <1>14, <1>15 DEF Next, ProducerStep, ConsumerStep

\* The buffer behaves as a bounded first-in first-out queue: what is enqueued
\* comes out once and in order, each operation takes effect at one step within
\* its call, and one that fails or still waits has none.
THEOREM BufferImplements == Spec => ImplementsFifo
<1>1. Init => Fifo!Init
  <2>1. ASSUME Init
        PROVE  Fifo!Init
    <3>1. producer.at # "gone" /\ Placed = 0
      BY <2>1 DEF Init, Placed
    <3>2. Published = 0
      BY <2>1, <3>1, DistanceIs, Sizes DEF Init, Published, Constructed, Placed
    <3> QED BY <2>1, <3>1, <3>2 DEF Init, Fifo!Init
  <2> QED BY <2>1
<1>2. RingInv /\ [Next]_vars => RingInv'
  BY RingPreserved
<1>3. RingInv /\ [Next]_vars => [Fifo!Next]_(Fifo!vars)
  BY RingImplements
<1> QED BY RingInitially, <1>1, <1>2, <1>3, PTL DEF Spec, ImplementsFifo, Fifo!Spec

=============================================================================
