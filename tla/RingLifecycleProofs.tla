-------------------------- MODULE RingLifecycleProofs --------------------------
(***************************************************************************)
(* For every number of rings, and every capacity, size and alignment that  *)
(* fit the memory: rings own their blocks and elements however they are    *)
(* moved, and behave as values that are moved.                             *)
(***************************************************************************)
EXTENDS RingLifecycle, FiniteSetTheorems, SequenceTheorems, TLAPS

-----------------------------------------------------------------------------
(***************************************************************************)
(* Quotients and residues, for the slots and their alignment.              *)
(***************************************************************************)
\* x % n is a residue, and x differs from it by a multiple of n.
LEMMA ModRange ==
    ASSUME NEW x \in Int, NEW n \in Int, n > 0
    PROVE  /\ x % n \in 0 .. n - 1
           /\ \E q \in Int : x = n * q + (x % n)
<1>1. x % n \in 0 .. n - 1
  OBVIOUS
<1>2. \E q \in Int : x = n * q + (x % n)
  OBVIOUS
<1> QED BY <1>1, <1>2

\* The decomposition into a multiple of n and a residue is unique.
LEMMA ModUnique ==
    ASSUME NEW n \in Int, n > 0, NEW q \in Int, NEW r \in 0 .. n - 1
    PROVE  (n * q + r) % n = r
  OBVIOUS

\* A residue is its own residue.
LEMMA ModSmall ==
    ASSUME NEW n \in Int, n > 0, NEW r \in 0 .. n - 1
    PROVE  r % n = r
  OBVIOUS

\* Numbers less than n apart with the same residue are equal.
LEMMA ModInjective ==
    ASSUME NEW n \in Int, n > 0, NEW x \in Int, NEW y \in Int,
           x < y + n, y < x + n, x % n = y % n
    PROVE  x = y
<1>1. PICK q \in Int : x = n * q + (x % n)
  BY ModRange
<1>2. PICK p \in Int : y = n * p + (y % n)
  BY ModRange
<1>3. y - x = n * (p - q)
  BY <1>1, <1>2
<1>4. p - q = 0
  BY <1>3
<1> QED BY <1>3, <1>4

\* A quotient and its residue.
LEMMA DivRange ==
    ASSUME NEW x \in Nat, NEW n \in Nat, n > 0
    PROVE  /\ x \div n \in Nat
           /\ x = n * (x \div n) + (x % n)
           /\ x \div n <= x
<1>1. x \div n \in Int /\ x % n \in 0 .. n - 1 /\ x = n * (x \div n) + (x % n)
  OBVIOUS
<1>2. PICK q \in Int : q = x \div n
  BY <1>1
<1>3. PICK r \in 0 .. n - 1 : r = x % n
  BY <1>1
<1>4. x = n * q + r
  BY <1>1, <1>2, <1>3
<1>5. q >= 0
  <2>1. CASE q <= -1
    <3>1. n * q <= n * (-1)
      BY <2>1
    <3> QED BY <3>1, <1>4
  <2> QED BY <2>1
<1>6. q <= x
  <2>1. n * q >= q
    BY <1>5
  <2> QED BY <2>1, <1>4
<1> QED BY <1>1, <1>2, <1>5, <1>6


-----------------------------------------------------------------------------
(***************************************************************************)
(* The inductive invariant.                                                *)
(***************************************************************************)
\* The members of a ring agree.  One that was moved from, or that has no capacity,
\* has no slots; any other has a block that holds them.
Whole(r) ==
    /\ r \in [Fields -> Nat]
    /\ r.slots_ + r.items = r.maxcap
    /\ r.nextSlot = r.nextItem + r.items
    /\ r.rawData \in Arenas \cup {Null}
    /\ r.maxcap > 0 =>
        /\ r.maxcap \in Capacities
        /\ r.mask = MaskOf(r.maxcap)
        /\ r.rawData \in Arenas
        /\ r.data = AlignFor(r.rawData)

RingsWhole ==
    /\ ring \in [Objects -> [Fields -> Nat] \cup {NoObject}]
    /\ \A b \in Alive : Whole(ring[b])

\* Each block belongs to one ring, and is large enough for it.
BlocksOwned ==
    /\ DOMAIN heap = {ring[b].rawData : b \in Alive} \ {Null}
    /\ \A a, b \in Alive : a # b /\ ring[a].rawData = ring[b].rawData
            => ring[a].rawData = Null
    /\ \A a \in DOMAIN heap : heap[a] \in 0 .. Word - 1
    /\ \A b \in Alive : ring[b].maxcap > 0 => heap[ring[b].rawData] = Room(ring[b].maxcap)

\* The elements are those that the rings hold.
ElementsOwned ==
    /\ DOMAIN mem = UNION {Held(ring[b]) : b \in Alive}
    /\ \A a \in DOMAIN mem : mem[a] \in Values

RInv == RingsWhole /\ BlocksOwned /\ ElementsOwned

-----------------------------------------------------------------------------
(***************************************************************************)
(* Sizes and addresses.                                                    *)
(***************************************************************************)
\* The sizes are positive.
LEMMA Sizes ==
    ASSUME RingAssumption
    PROVE  /\ ElementSize \in Nat /\ ElementSize > 0
           /\ Alignment \in Nat /\ Alignment > 0
           /\ ElementSize % Alignment = 0
           /\ Word \in Int
           /\ MaxIndex \in Nat
           /\ Capacities \subseteq Nat
           /\ \A a \in Arenas : a \in Nat /\ a # Null /\ a > 0
<1>1. /\ ElementSize \in Nat /\ ElementSize > 0
      /\ Alignment \in Nat /\ Alignment > 0
      /\ ElementSize % Alignment = 0 /\ MaxIndex \in Nat
  BY DEF RingAssumption
<1>2. Word \in Int
  <2>1. \A n \in Nat : 2^n \in Int
    OBVIOUS
  <2> QED BY <2>1 DEF RingAssumption, Word
<1>3. \A a \in Arenas : a \in Nat /\ a # Null /\ a > 0
  BY DEF RingAssumption, Null
<1> QED BY <1>1, <1>2, <1>3 DEF RingAssumption

\* What a ring with room for elements asks malloc for does not overflow.
LEMMA BytesExact ==
    ASSUME RingAssumption, MemoryAssumption, NEW c \in Capacities, c > 0
    PROVE  /\ MaskOf(c) \in Nat /\ c <= MaskOf(c) + 1
           /\ Room(c) \in 0 .. Word - 1
           /\ Bytes(MaskOf(c)) = Room(c)
<1>1. PICK W \in Nat : W = Word /\ W > 0
  <2>1. MaskOf(c) \in 0 .. Word - 1
    BY DEF MemoryAssumption
  <2> QED BY <2>1, Sizes
<1>2. PICK S \in Nat : S = ElementSize /\ S > 0
  BY Sizes
<1>3. PICK A \in Nat : A = Alignment /\ A > 0
  BY Sizes
<1>4. PICK m \in Nat : m = MaskOf(c)
  BY <1>1 DEF MemoryAssumption
<1>5. Room(c) = (m + 1) * S + A - 1
  BY <1>2, <1>3, <1>4 DEF Room
<1>6. (m + 1) * S >= m + 1
  BY <1>2
<1>7. (m + 1) * S + A - 1 \in 0 .. W - 1 /\ m + 1 \in 0 .. W - 1
  BY <1>1, <1>2, <1>3, <1>5, <1>6 DEF MemoryAssumption
<1>8. (m + 1) % W = m + 1 /\ ((m + 1) * S + A - 1) % W = (m + 1) * S + A - 1
  BY <1>1, <1>7, ModSmall
<1>9. Bytes(MaskOf(c)) = (m + 1) * S + A - 1
  BY <1>1, <1>2, <1>3, <1>4, <1>8 DEF Bytes
<1>10. c <= m + 1
  BY <1>4 DEF MemoryAssumption
<1> QED BY <1>1, <1>4, <1>5, <1>7, <1>9, <1>10

\* align_for goes on to the next aligned address.
LEMMA AlignForAligns ==
    ASSUME RingAssumption, NEW p \in Nat
    PROVE  /\ AlignFor(p) \in p .. p + Alignment - 1
           /\ \E q \in Nat : AlignFor(p) = Alignment * q
<1>1. PICK A \in Nat : A = Alignment /\ A > 0
  BY Sizes
<1>2. PICK q \in Nat : q = p \div A
  BY <1>1, DivRange
<1>3. PICK r \in 0 .. A - 1 : r = p % A /\ p = A * q + r
  BY <1>1, <1>2, DivRange, ModRange
<1>4. CASE r = 0
  <2>1. (A * 1 + 0) % A = 0
    BY <1>1, ModUnique
  <2>2. (A - r) % A = 0
    BY <1>4, <2>1
  <2> QED BY <1>1, <1>3, <1>4, <2>2 DEF AlignFor
<1>5. CASE r # 0
  <2>1. A - r \in 0 .. A - 1
    BY <1>3, <1>5
  <2>2. (A - r) % A = A - r
    BY <1>1, <2>1, ModSmall
  <2>3. AlignFor(p) = p + (A - r)
    BY <1>1, <1>3, <2>2 DEF AlignFor
  <2>4. p + (A - r) = A * (q + 1) /\ q + 1 \in Nat
    BY <1>3
  <2>5. p + (A - r) \in p .. p + A - 1
    BY <2>1
  <2> QED BY <1>1, <2>3, <2>4, <2>5
<1> QED BY <1>4, <1>5

\* A slot is inside its block, and aligned.
LEMMA SlotInside ==
    ASSUME RingAssumption, MemoryAssumption, NEW r, Whole(r), r.maxcap > 0, NEW i \in Nat
    PROVE  /\ Slot(r, i) \in Nat
           /\ r.rawData <= Slot(r, i)
           /\ Slot(r, i) + ElementSize <= r.rawData + Room(r.maxcap)
           /\ Slot(r, i) % Alignment = 0
<1>1. PICK S \in Nat : S = ElementSize /\ S > 0
  BY Sizes
<1>2. PICK A \in Nat : A = Alignment /\ A > 0
  BY Sizes
<1>3. PICK c \in Capacities : c = r.maxcap /\ c \in Nat /\ c > 0
  BY DEF Whole, Fields
<1>4. PICK m \in Nat : m = MaskOf(c) /\ m = r.mask
  BY <1>3, BytesExact DEF Whole
<1>5. PICK w \in Nat : w = r.rawData
  BY DEF Whole, Fields
<1>6. PICK d \in Nat : d = r.data /\ d >= w /\ d <= w + A - 1 /\ \E q \in Nat : d = A * q
  <2>1. r.data = AlignFor(w)
    BY <1>5 DEF Whole
  <2>2. AlignFor(w) \in w .. w + A - 1 /\ \E q \in Nat : AlignFor(w) = A * q
    BY <1>2, AlignForAligns
  <2> QED BY <2>1, <2>2
<1>7. PICK k \in 0 .. m : k = i % (m + 1)
  BY ModRange
<1>8. Slot(r, i) = d + k * S
  BY <1>1, <1>4, <1>6, <1>7 DEF Slot
<1>9. k * S \in Nat /\ k * S + S <= (m + 1) * S
  <2>1. k * S + S = (k + 1) * S
    OBVIOUS
  <2>2. (k + 1) * S <= (m + 1) * S
    BY <1>7
  <2> QED BY <1>7, <2>1, <2>2
<1>10. Room(c) = (m + 1) * S + A - 1
  BY <1>1, <1>2, <1>4 DEF Room
<1>11. PICK h \in Nat : h = (m + 1) * S
  OBVIOUS
<1>12. (d + k * S) + S <= w + (h + A - 1)
  BY <1>6, <1>9, <1>11
<1>13. (d + k * S) % A = 0
  <2>1. PICK q \in Nat : d = A * q
    BY <1>6
  <2>2. PICK n \in Int : S = A * n + (S % A)
    BY <1>2, ModRange
  <2>3. S % A = 0
    BY <1>1, <1>2, Sizes
  <2>4. PICK z \in Int : z = q + k * n
    OBVIOUS
  <2>5. d + k * S = A * z + 0
    BY <2>1, <2>2, <2>3, <2>4
  <2>6. (A * z + 0) % A = 0
    BY <1>2, ModUnique
  <2> QED BY <2>5, <2>6
<1>14. d + k * S \in Nat /\ w <= d + k * S
  BY <1>6, <1>9
<1> QED BY <1>1, <1>2, <1>3, <1>5, <1>8, <1>10, <1>11, <1>12, <1>13, <1>14

\* Elements that are held by one ring have slots of their own.
LEMMA SlotsDistinct ==
    ASSUME RingAssumption, MemoryAssumption, NEW r, Whole(r), r.maxcap > 0,
           NEW i \in Nat, NEW j \in Nat, i < j + r.maxcap, j < i + r.maxcap,
           Slot(r, i) = Slot(r, j)
    PROVE  i = j
<1>1. PICK S \in Nat : S = ElementSize /\ S > 0
  BY Sizes
<1>2. PICK c \in Capacities : c = r.maxcap /\ c \in Nat /\ c > 0
  BY DEF Whole, Fields
<1>3. PICK m \in Nat : m = r.mask /\ c <= m + 1
  BY <1>2, BytesExact DEF Whole
<1>4. PICK d \in Nat : d = r.data
  BY DEF Whole, Fields
<1>5. PICK k \in 0 .. m : k = i % (m + 1)
  BY ModRange
<1>6. PICK l \in 0 .. m : l = j % (m + 1)
  BY ModRange
<1>7. d + k * S = d + l * S
  BY <1>1, <1>3, <1>4, <1>5, <1>6 DEF Slot
<1>8. k * S = l * S
  <2>1. k * S \in Nat /\ l * S \in Nat
    OBVIOUS
  <2> QED BY <1>7, <2>1
<1>9. k = l
  BY <1>1, <1>8
<1>10. i < j + (m + 1) /\ j < i + (m + 1)
  BY <1>2, <1>3
<1> QED BY <1>5, <1>6, <1>9, <1>10, ModInjective

\* Those of different rings too, for their blocks are apart.
LEMMA SlotsApart ==
    ASSUME RingAssumption, MemoryAssumption,
           NEW r, Whole(r), r.maxcap > 0, NEW s, Whole(s), s.maxcap > 0,
           r.rawData # s.rawData, NEW i \in Nat, NEW j \in Nat
    PROVE  Slot(r, i) # Slot(s, j)
<1>1. /\ r.rawData \in Arenas /\ s.rawData \in Arenas
      /\ r.rawData \in Nat /\ s.rawData \in Nat
      /\ r.maxcap \in Capacities /\ s.maxcap \in Capacities
      /\ r.maxcap \in Nat /\ s.maxcap \in Nat
  BY DEF Whole, Fields
<1>2. PICK x \in Nat : x = Slot(r, i)
  BY SlotInside
<1>3. PICK y \in Nat : y = Slot(s, j)
  BY SlotInside
<1>4. PICK R \in Nat : R = Room(r.maxcap)
  BY <1>1, BytesExact
<1>5. PICK Q \in Nat : Q = Room(s.maxcap)
  BY <1>1, BytesExact
<1>6. PICK S \in Nat : S = ElementSize /\ S > 0
  BY Sizes
<1>7. r.rawData <= x /\ x + S <= r.rawData + R
  BY <1>2, <1>4, <1>6, SlotInside
<1>8. s.rawData <= y /\ y + S <= s.rawData + Q
  BY <1>3, <1>5, <1>6, SlotInside
<1>9. r.rawData + R <= s.rawData \/ s.rawData + Q <= r.rawData
  BY <1>1, <1>4, <1>5 DEF MemoryAssumption
<1> QED BY <1>1, <1>2, <1>3, <1>6, <1>7, <1>8, <1>9

-----------------------------------------------------------------------------
(***************************************************************************)
(* The members.                                                            *)
(***************************************************************************)
\* An object is told from none.
LEMMA AliveIs ==
    ASSUME RingsWhole, NEW b \in Objects
    PROVE  b \in Alive <=> ring[b] \in [Fields -> Nat]
<1>1. NoObject.maxcap = -1
  BY DEF NoObject
<1>2. ASSUME NEW r \in [Fields -> Nat]
      PROVE  r # NoObject
  BY <1>1 DEF Fields
<1> QED BY <1>2 DEF RingsWhole, Alive

\* Exchanging all members is exchanging the objects.
LEMMA SwappedIs ==
    ASSUME NEW r, NEW s \in [Fields -> Nat]
    PROVE  Swapped(r, s) = s
  BY DEF Swapped

\* A ring that was moved from is whole, and holds nothing.
LEMMA EmptyIs ==
    /\ Whole(Empty) /\ Empty \in [Fields -> Nat]
    /\ Empty.maxcap = 0 /\ Empty.rawData = Null /\ Empty.items = 0
  BY DEF Empty, Whole, Fields, Null

\* What an enqueue makes of a ring.
LEMMA EnqueueMembers ==
    ASSUME RingsWhole, NEW b \in Alive, ring[b].slots_ > 0,
           ring' = [ring EXCEPT ![b].slots_ = @ - 1, ![b].items = @ + 1,
                                ![b].nextSlot = @ + 1]
    PROVE  \E s \in [Fields -> Nat] :
                /\ ring' = [ring EXCEPT ![b] = s]
                /\ s.slots_ = ring[b].slots_ - 1
                /\ s.items = ring[b].items + 1
                /\ s.nextSlot = ring[b].nextSlot + 1
                /\ \A f \in Fields \ {"slots_", "items", "nextSlot"} : s[f] = ring[b][f]
<1>1. PICK r \in [Fields -> Nat] : r = ring[b]
  BY AliveIs DEF Alive
<1>2. /\ r.slots_ \in Nat /\ r.slots_ > 0 /\ r.items \in Nat /\ r.nextSlot \in Nat
      /\ r.slots_ - 1 \in Nat /\ r.items + 1 \in Nat /\ r.nextSlot + 1 \in Nat
  BY <1>1 DEF Fields
<1> DEFINE s1 == [r EXCEPT !.slots_ = r.slots_ - 1]
           s2 == [s1 EXCEPT !.items = r.items + 1]
           s3 == [s2 EXCEPT !.nextSlot = r.nextSlot + 1]
<1>3. /\ s1 \in [Fields -> Nat] /\ s1.slots_ = r.slots_ - 1
      /\ \A f \in Fields \ {"slots_"} : s1[f] = r[f]
  BY <1>2 DEF Fields
<1>4. s1.items = r.items /\ s1.nextSlot = r.nextSlot
  BY <1>3 DEF Fields
<1> HIDE DEF s1
<1>5. /\ s2 \in [Fields -> Nat] /\ s2.items = r.items + 1
      /\ \A f \in Fields \ {"items"} : s2[f] = s1[f]
  BY <1>2, <1>3 DEF Fields
<1> HIDE DEF s2
<1>6. /\ s3 \in [Fields -> Nat] /\ s3.nextSlot = r.nextSlot + 1
      /\ \A f \in Fields \ {"nextSlot"} : s3[f] = s2[f]
  BY <1>2, <1>5 DEF Fields
<1> HIDE DEF s3
<1>7. ring' = [ring EXCEPT ![b] = s3]
  BY <1>1, <1>4 DEF s1, s2, s3, RingsWhole, Alive
<1>8. /\ s3.slots_ = r.slots_ - 1 /\ s3.items = r.items + 1
      /\ \A f \in Fields \ {"slots_", "items", "nextSlot"} : s3[f] = r[f]
  BY <1>3, <1>5, <1>6 DEF Fields
<1> QED BY <1>1, <1>6, <1>7, <1>8

\* What a dequeue makes of it.
LEMMA DequeueMembers ==
    ASSUME RingsWhole, NEW b \in Alive, ring[b].items > 0,
           ring' = [ring EXCEPT ![b].slots_ = @ + 1, ![b].items = @ - 1,
                                ![b].nextItem = @ + 1]
    PROVE  \E s \in [Fields -> Nat] :
                /\ ring' = [ring EXCEPT ![b] = s]
                /\ s.slots_ = ring[b].slots_ + 1
                /\ s.items = ring[b].items - 1
                /\ s.nextItem = ring[b].nextItem + 1
                /\ \A f \in Fields \ {"slots_", "items", "nextItem"} : s[f] = ring[b][f]
<1>1. PICK r \in [Fields -> Nat] : r = ring[b]
  BY AliveIs DEF Alive
<1>2. /\ r.slots_ \in Nat /\ r.items > 0 /\ r.items \in Nat /\ r.nextItem \in Nat
      /\ r.slots_ + 1 \in Nat /\ r.items - 1 \in Nat /\ r.nextItem + 1 \in Nat
  BY <1>1 DEF Fields
<1> DEFINE s1 == [r EXCEPT !.slots_ = r.slots_ + 1]
           s2 == [s1 EXCEPT !.items = r.items - 1]
           s3 == [s2 EXCEPT !.nextItem = r.nextItem + 1]
<1>3. /\ s1 \in [Fields -> Nat] /\ s1.slots_ = r.slots_ + 1
      /\ \A f \in Fields \ {"slots_"} : s1[f] = r[f]
  BY <1>2 DEF Fields
<1>4. s1.items = r.items /\ s1.nextItem = r.nextItem
  BY <1>3 DEF Fields
<1> HIDE DEF s1
<1>5. /\ s2 \in [Fields -> Nat] /\ s2.items = r.items - 1
      /\ \A f \in Fields \ {"items"} : s2[f] = s1[f]
  BY <1>2, <1>3 DEF Fields
<1> HIDE DEF s2
<1>6. /\ s3 \in [Fields -> Nat] /\ s3.nextItem = r.nextItem + 1
      /\ \A f \in Fields \ {"nextItem"} : s3[f] = s2[f]
  BY <1>2, <1>5 DEF Fields
<1> HIDE DEF s3
<1>7. ring' = [ring EXCEPT ![b] = s3]
  BY <1>1, <1>4 DEF s1, s2, s3, RingsWhole, Alive
<1>8. /\ s3.slots_ = r.slots_ + 1 /\ s3.items = r.items - 1
      /\ \A f \in Fields \ {"slots_", "items", "nextItem"} : s3[f] = r[f]
  BY <1>3, <1>5, <1>6 DEF Fields
<1> QED BY <1>1, <1>6, <1>7, <1>8

-----------------------------------------------------------------------------
(***************************************************************************)
(* The elements that rings hold.                                           *)
(***************************************************************************)
\* The slots of the elements of a ring.
LEMMA HeldIs ==
    ASSUME NEW r, Whole(r), NEW a, a \in Held(r)
    PROVE  /\ r.items > 0 /\ r.maxcap > 0
           /\ \E i \in Nat : i < r.items /\ r.nextItem + i \in Nat /\ a = Slot(r, r.nextItem + i)
<1>1. /\ r.items \in Nat /\ r.slots_ \in Nat /\ r.nextItem \in Nat /\ r.maxcap \in Nat
      /\ r.slots_ + r.items = r.maxcap
  BY DEF Whole, Fields
<1>2. PICK i \in 0 .. r.items - 1 : a = Slot(r, r.nextItem + i)
  BY DEF Held
<1> QED BY <1>1, <1>2

\* Nothing is held by a ring without items.
LEMMA HeldNone ==
    ASSUME NEW r, r.items = 0
    PROVE  Held(r) = {}
  BY DEF Held

\* Which slots these are depends on four of its members.
LEMMA HeldSame ==
    ASSUME NEW r, NEW s, NEW i \in Int, s.data = r.data, s.mask = r.mask
    PROVE  Slot(s, i) = Slot(r, i)
  BY DEF Slot

\* Every element is in a slot of its own: what the two lemmas on slots say of a ring
\* and of two of them.
LEMMA HeldApart ==
    ASSUME RingAssumption, MemoryAssumption,
           NEW r, Whole(r), NEW s, Whole(s), r.rawData = s.rawData => r.rawData = Null,
           NEW i \in Nat, r.maxcap > 0
    PROVE  Slot(r, i) \notin Held(s)
<1> SUFFICES ASSUME Slot(r, i) \in Held(s) PROVE FALSE
  OBVIOUS
<1>1. PICK j \in Nat : j < s.items /\ s.nextItem + j \in Nat
                       /\ Slot(r, i) = Slot(s, s.nextItem + j)
  BY HeldIs
<1>2. s.maxcap > 0
  BY HeldIs
<1>3. r.rawData # s.rawData
  BY Sizes DEF Whole
<1> QED BY <1>1, <1>2, <1>3, SlotsApart

\* An enqueue adds the slot at nextSlot, which held nothing.
LEMMA HeldMore ==
    ASSUME RingAssumption, MemoryAssumption, NEW r, Whole(r), r.slots_ > 0,
           NEW s \in [Fields -> Nat],
           s.items = r.items + 1,
           \A f \in Fields \ {"slots_", "items", "nextSlot"} : s[f] = r[f]
    PROVE  /\ Held(s) = Held(r) \cup {Slot(r, r.nextSlot)}
           /\ Slot(r, r.nextSlot) \notin Held(r)
<1>1. /\ s.data = r.data /\ s.mask = r.mask /\ s.nextItem = r.nextItem
  BY DEF Fields
<1>2. /\ r.items \in Nat /\ r.slots_ \in Nat /\ r.nextItem \in Nat
      /\ r.maxcap = r.slots_ + r.items /\ r.maxcap > 0
      /\ r.nextSlot = r.nextItem + r.items
  BY DEF Whole, Fields
<1>3. PICK k \in Nat : k = r.items
  BY <1>2
<1>4. PICK n \in Nat : n = r.nextItem
  BY <1>2
<1>5. \A i \in Int : Slot(s, i) = Slot(r, i)
  BY <1>1, HeldSame
<1>6. Held(s) = {Slot(r, n + i) : i \in 0 .. k}
  BY <1>1, <1>3, <1>4, <1>5 DEF Held
<1>7. Held(r) = {Slot(r, n + i) : i \in 0 .. k - 1}
  BY <1>3, <1>4 DEF Held
<1>8. 0 .. k = 0 .. k - 1 \cup {k}
  OBVIOUS
<1>9. Held(s) = Held(r) \cup {Slot(r, r.nextSlot)}
  BY <1>2, <1>3, <1>4, <1>6, <1>7, <1>8
<1>10. ASSUME NEW i \in 0 .. k - 1
       PROVE  Slot(r, n + i) # Slot(r, n + k)
  BY <1>2, <1>3, SlotsDistinct
<1> QED BY <1>2, <1>3, <1>4, <1>7, <1>9, <1>10

\* A dequeue takes the slot at nextItem away, and no other.
LEMMA HeldLess ==
    ASSUME RingAssumption, MemoryAssumption, NEW r, Whole(r), r.items > 0,
           NEW s \in [Fields -> Nat],
           s.items = r.items - 1, s.nextItem = r.nextItem + 1,
           \A f \in Fields \ {"slots_", "items", "nextItem"} : s[f] = r[f]
    PROVE  /\ Held(s) = Held(r) \ {Slot(r, r.nextItem)}
           /\ Slot(r, r.nextItem) \in Held(r)
<1>1. /\ s.data = r.data /\ s.mask = r.mask
  BY DEF Fields
<1>2. /\ r.items \in Nat /\ r.slots_ \in Nat /\ r.nextItem \in Nat
      /\ r.maxcap = r.slots_ + r.items /\ r.maxcap > 0
  BY DEF Whole, Fields
<1>3. PICK k \in Nat : k = r.items /\ k > 0
  BY <1>2
<1>4. PICK n \in Nat : n = r.nextItem
  BY <1>2
<1>5. \A i \in Int : Slot(s, i) = Slot(r, i)
  BY <1>1, HeldSame
<1>6. Held(s) = {Slot(r, (n + 1) + i) : i \in 0 .. (k - 1) - 1}
  BY <1>3, <1>4, <1>5 DEF Held
<1>7. Held(r) = {Slot(r, n + i) : i \in 0 .. k - 1}
  BY <1>3, <1>4 DEF Held
<1>8. ASSUME NEW i \in 1 .. k - 1
      PROVE  Slot(r, n + i) # Slot(r, n)
  BY <1>2, <1>3, SlotsDistinct
<1>9. ASSUME NEW a, a \in Held(s)
      PROVE  a \in Held(r) /\ a # Slot(r, n)
  <2>1. PICK i \in 0 .. (k - 1) - 1 : a = Slot(r, (n + 1) + i)
    BY <1>6, <1>9
  <2>2. (n + 1) + i = n + (i + 1) /\ i + 1 \in 1 .. k - 1
    BY <2>1
  <2>3. a = Slot(r, n + (i + 1))
    BY <2>1, <2>2
  <2> QED BY <1>7, <1>8, <2>2, <2>3
<1>10. ASSUME NEW a \in Held(r), a # Slot(r, n)
       PROVE  a \in Held(s)
  <2>1. PICK i \in 0 .. k - 1 : a = Slot(r, n + i)
    BY <1>7
  <2>2. i # 0
    BY <1>10, <2>1
  <2>3. i - 1 \in 0 .. (k - 1) - 1 /\ n + i = (n + 1) + (i - 1)
    BY <2>1, <2>2
  <2>4. a = Slot(r, (n + 1) + (i - 1))
    BY <2>1, <2>3
  <2> QED BY <1>6, <2>3, <2>4
<1>11. Slot(r, n) \in Held(r)
  <2>1. 0 \in 0 .. k - 1 /\ n + 0 = n
    BY <1>3
  <2> QED BY <1>7, <2>1
<1> QED BY <1>4, <1>9, <1>10, <1>11

-----------------------------------------------------------------------------
(***************************************************************************)
(* The steps.                                                              *)
(***************************************************************************)
\* A step that gives one object other members.
LEMMA OneChanged ==
    ASSUME RingsWhole, NEW b \in Objects, NEW s \in [Fields -> Nat], Whole(s),
           ring' = [ring EXCEPT ![b] = s]
    PROVE  /\ RingsWhole'
           /\ Alive' = Alive \cup {b} /\ ring'[b] = s
           /\ \A x \in Alive \ {b} : ring'[x] = ring[x]
<1>1. s # NoObject
  <2>1. NoObject.maxcap = -1
    BY DEF NoObject
  <2> QED BY <2>1 DEF Fields
<1>2. ring'[b] = s /\ \A x \in Objects \ {b} : ring'[x] = ring[x]
  BY DEF RingsWhole
<1>3. Alive' = Alive \cup {b}
  BY <1>1, <1>2 DEF Alive
<1>4. ring' \in [Objects -> [Fields -> Nat] \cup {NoObject}]
  BY DEF RingsWhole
<1>5. \A x \in Alive' : Whole(ring'[x])
  BY <1>2, <1>3 DEF RingsWhole, Alive
<1>6. RingsWhole'
  BY <1>4, <1>5 DEF RingsWhole, Whole
<1> QED BY <1>2, <1>3, <1>6 DEF Alive

\* What the constructor makes.
LEMMA Constructed ==
    ASSUME RingAssumption, MemoryAssumption, ~MallocFails, RingsWhole,
           NEW b \in Objects, NEW c \in Capacities, Construct(b, c)
    PROVE  /\ b \notin Alive /\ Alive' = Alive \cup {b} /\ mem' = mem
           /\ \A x \in Alive : ring'[x] = ring[x]
           /\ RingsWhole'
           /\ ring'[b].maxcap = c /\ ring'[b].items = 0
           /\ \E raw \in Arenas \ DOMAIN heap :
                /\ ring'[b].rawData = raw
                /\ heap' = [a \in DOMAIN heap \cup {raw} |->
                                IF a = raw THEN Bytes(MaskOf(c)) ELSE heap[a]]
<1>1. PICK raw \in Arenas \ DOMAIN heap :
        /\ ring' = [ring EXCEPT ![b] =
                [maxcap |-> c, mask |-> MaskOf(c), rawData |-> raw, data |-> AlignFor(raw),
                 slots_ |-> c, items |-> 0, nextSlot |-> 0, nextItem |-> 0]]
        /\ heap' = [a \in DOMAIN heap \cup {raw} |->
                        IF a = raw THEN Bytes(MaskOf(c)) ELSE heap[a]]
  BY Sizes DEF Construct
<1>2. /\ b \notin Alive /\ mem' = mem
      /\ raw \in Nat /\ raw # Null /\ raw > 0
  BY Sizes DEF Construct
<1> DEFINE s == [maxcap |-> c, mask |-> MaskOf(c), rawData |-> raw, data |-> AlignFor(raw),
                 slots_ |-> c, items |-> 0, nextSlot |-> 0, nextItem |-> 0]
<1>3. c \in Nat /\ MaskOf(c) \in Nat /\ AlignFor(raw) \in Nat
  BY <1>2, Sizes, AlignForAligns DEF MemoryAssumption
<1>4. s \in [Fields -> Nat]
  BY <1>2, <1>3 DEF Fields
<1>5. Whole(s)
  BY <1>3, <1>4 DEF Whole
<1>6. s.rawData = raw /\ s.maxcap = c /\ s.items = 0 /\ ring' = [ring EXCEPT ![b] = s]
  BY <1>1
<1> HIDE DEF s
<1>7. /\ RingsWhole'
      /\ Alive' = Alive \cup {b} /\ ring'[b] = s
      /\ \A x \in Alive \ {b} : ring'[x] = ring[x]
  BY <1>4, <1>5, <1>6, OneChanged
<1> QED BY <1>1, <1>2, <1>6, <1>7

\* A new ring has a block that is no other's.
LEMMA ConstructKeeps ==
    ASSUME RingAssumption, MemoryAssumption, ~MallocFails, RInv,
           NEW b \in Objects, NEW c \in Capacities, Construct(b, c)
    PROVE  RInv'
<1> USE DEF RInv
<1>1. PICK raw \in Arenas \ DOMAIN heap :
        /\ ring'[b].rawData = raw
        /\ heap' = [a \in DOMAIN heap \cup {raw} |->
                        IF a = raw THEN Bytes(MaskOf(c)) ELSE heap[a]]
  BY Constructed
<1>2. /\ raw \in Nat /\ raw # Null /\ raw > 0
      /\ c \in Nat /\ MaskOf(c) \in Nat /\ MaskOf(c) \in 0 .. Word - 1
  BY Sizes DEF MemoryAssumption
<1>3. /\ b \notin Alive /\ Alive' = Alive \cup {b} /\ mem' = mem
      /\ \A x \in Alive : ring'[x] = ring[x]
      /\ RingsWhole'
      /\ ring'[b].maxcap = c /\ ring'[b].items = 0
  BY Constructed
<1>4. \A x \in Alive : ring[x].rawData # raw
  BY <1>1, <1>2 DEF BlocksOwned
<1>5. BlocksOwned'
  <2>1. DOMAIN heap' = DOMAIN heap \cup {raw}
    BY <1>1
  <2>2. DOMAIN heap' = {ring'[x].rawData : x \in Alive'} \ {Null}
    BY <1>1, <1>2, <1>3, <2>1 DEF BlocksOwned
  <2>3. \A x, y \in Alive' : x # y /\ ring'[x].rawData = ring'[y].rawData
            => ring'[x].rawData = Null
    BY <1>1, <1>2, <1>3, <1>4 DEF BlocksOwned
  <2>4. Bytes(MaskOf(c)) \in 0 .. Word - 1
    <3>1. PICK W \in Nat : W = Word /\ W > 0
      BY <1>2, Sizes
    <3>2. PICK z \in Int : z = ((MaskOf(c) + 1) % W) * ElementSize + Alignment - 1
      BY <1>2, <3>1, Sizes
    <3> QED BY <3>1, <3>2 DEF Bytes
  <2>5. \A a \in DOMAIN heap' : heap'[a] \in 0 .. Word - 1
    BY <1>1, <2>4 DEF BlocksOwned
  <2>6. \A x \in Alive' : ring'[x].maxcap > 0
            => heap'[ring'[x].rawData] = Room(ring'[x].maxcap)
    <3>1. ASSUME NEW x \in Alive, x # b, ring[x].maxcap > 0
          PROVE  heap'[ring[x].rawData] = Room(ring[x].maxcap)
      <4>1. ring[x].rawData \in Arenas /\ ring[x].rawData # Null
        BY <3>1, Sizes DEF RingsWhole, Whole
      <4>2. ring[x].rawData \in DOMAIN heap /\ ring[x].rawData # raw
        BY <1>4, <4>1 DEF BlocksOwned
      <4> QED BY <1>1, <3>1, <4>2 DEF BlocksOwned
    <3>2. c > 0 => heap'[raw] = Room(c)
      BY <1>1, BytesExact
    <3> QED BY <1>1, <1>3, <3>1, <3>2
  <2> QED BY <2>2, <2>3, <2>5, <2>6 DEF BlocksOwned
<1>6. ElementsOwned'
  <2>1. Held(ring'[b]) = {}
    BY <1>3, HeldNone
  <2>2. UNION {Held(ring'[x]) : x \in Alive'} = UNION {Held(ring[x]) : x \in Alive}
    BY <1>3, <2>1
  <2> QED BY <1>3, <2>2 DEF ElementsOwned, Held, Slot
<1> QED BY <1>3, <1>5, <1>6

\* What an exchange of all members does.
LEMMA SwapMembers ==
    ASSUME RingsWhole, NEW a \in Objects, NEW b \in Objects, Swap(a, b)
    PROVE  /\ a \in Alive /\ b \in Alive /\ Alive' = Alive
           /\ ring'[a] = ring[b] /\ ring'[b] = ring[a]
           /\ \A x \in Alive \ {a, b} : ring'[x] = ring[x]
           /\ RingsWhole'
<1>1. a \in Alive /\ b \in Alive
  BY DEF Swap
<1>2. ring[a] \in [Fields -> Nat] /\ ring[b] \in [Fields -> Nat]
  BY <1>1, AliveIs
<1>3. ring' = [[ring EXCEPT ![a] = ring[b]] EXCEPT ![b] = ring[a]]
  BY <1>2, SwappedIs DEF Swap
<1>4. /\ ring'[a] = ring[b] /\ ring'[b] = ring[a]
      /\ \A x \in Objects \ {a, b} : ring'[x] = ring[x]
      /\ ring' \in [Objects -> [Fields -> Nat] \cup {NoObject}]
  BY <1>2, <1>3 DEF RingsWhole
<1>5. Alive' = Alive
  BY <1>1, <1>4 DEF Alive
<1>6. \A x \in Alive' : Whole(ring'[x])
  BY <1>1, <1>4, <1>5 DEF RingsWhole, Alive
<1> QED BY <1>1, <1>4, <1>5, <1>6 DEF RingsWhole, Whole, Alive

\* An exchange takes block and elements along.
LEMMA SwapKeeps ==
    ASSUME RInv, NEW a \in Objects, NEW b \in Objects, Swap(a, b)
    PROVE  RInv'
<1> USE DEF RInv
<1>1. /\ a \in Alive /\ b \in Alive /\ Alive' = Alive
      /\ ring'[a] = ring[b] /\ ring'[b] = ring[a]
      /\ \A x \in Alive \ {a, b} : ring'[x] = ring[x]
      /\ RingsWhole'
  BY SwapMembers
<1>2. heap' = heap /\ mem' = mem
  BY DEF Swap
<1>3. {ring'[x].rawData : x \in Alive'} = {ring[x].rawData : x \in Alive}
  BY <1>1
<1>4. {Held(ring'[x]) : x \in Alive'} = {Held(ring[x]) : x \in Alive}
  BY <1>1
<1>5. \A x, y \in Alive' : x # y /\ ring'[x].rawData = ring'[y].rawData
        => ring'[x].rawData = Null
  BY <1>1 DEF BlocksOwned
<1>6. \A x \in Alive' : ring'[x].maxcap > 0
        => heap'[ring'[x].rawData] = Room(ring'[x].maxcap)
  BY <1>1, <1>2 DEF BlocksOwned
<1>7. BlocksOwned'
  BY <1>2, <1>3, <1>5, <1>6 DEF BlocksOwned
<1>8. ElementsOwned'
  BY <1>2, <1>4 DEF ElementsOwned, Held, Slot
<1> QED BY <1>1, <1>7, <1>8

\* What a move does to the two objects.
LEMMA MoveMembers ==
    ASSUME RingsWhole, NEW b \in Objects, NEW o \in Objects, MoveConstruct(b, o)
    PROVE  /\ b \notin Alive /\ o \in Alive /\ Alive' = Alive \cup {b}
           /\ ring'[b] = ring[o] /\ ring'[o] = Empty
           /\ \A x \in Alive \ {o} : ring'[x] = ring[x]
           /\ RingsWhole'
<1>1. b \notin Alive /\ o \in Alive /\ b # o
  BY DEF MoveConstruct
<1>2. ring[o] \in [Fields -> Nat] /\ Whole(ring[o])
  BY <1>1, AliveIs DEF RingsWhole
<1>3. Swapped(Empty, ring[o]) = ring[o] /\ Swapped(ring[o], Empty) = Empty
  BY <1>2, SwappedIs, EmptyIs
<1>4. ring' = [[ring EXCEPT ![b] = ring[o]] EXCEPT ![o] = Empty]
  BY <1>3 DEF MoveConstruct
<1>5. /\ ring'[b] = ring[o] /\ ring'[o] = Empty
      /\ \A x \in Objects \ {b, o} : ring'[x] = ring[x]
      /\ ring' \in [Objects -> [Fields -> Nat] \cup {NoObject}]
  BY <1>1, <1>2, <1>4, EmptyIs DEF RingsWhole
<1>6. Empty # NoObject
  <2>1. NoObject.maxcap = -1
    BY DEF NoObject
  <2> QED BY <2>1, EmptyIs
<1>7. Alive' = Alive \cup {b}
  BY <1>1, <1>5, <1>6 DEF Alive
<1>8. \A x \in Alive' : Whole(ring'[x])
  BY <1>1, <1>2, <1>5, <1>7, EmptyIs DEF RingsWhole, Alive
<1> QED BY <1>1, <1>5, <1>7, <1>8 DEF RingsWhole, Whole, Alive

\* A move leaves a ring without block or elements behind.
LEMMA MoveConstructKeeps ==
    ASSUME RInv, NEW b \in Objects, NEW o \in Objects, MoveConstruct(b, o)
    PROVE  RInv'
<1> USE DEF RInv
<1>1. /\ b \notin Alive /\ o \in Alive /\ Alive' = Alive \cup {b}
      /\ ring'[b] = ring[o] /\ ring'[o] = Empty
      /\ \A x \in Alive \ {o} : ring'[x] = ring[x]
      /\ RingsWhole'
  BY MoveMembers
<1>2. heap' = heap /\ mem' = mem
  BY DEF MoveConstruct
<1>3. {ring'[x].rawData : x \in Alive'} \ {Null} = {ring[x].rawData : x \in Alive} \ {Null}
  BY <1>1, EmptyIs
<1>4. UNION {Held(ring'[x]) : x \in Alive'} = UNION {Held(ring[x]) : x \in Alive}
  <2>1. Held(Empty) = {}
    BY EmptyIs, HeldNone
  <2>2. \A e : (\E x \in Alive' : e \in Held(ring'[x])) <=> \E x \in Alive : e \in Held(ring[x])
    BY <1>1, <2>1
  <2> QED BY <2>2
<1>5. \A x, y \in Alive' : x # y /\ ring'[x].rawData = ring'[y].rawData
        => ring'[x].rawData = Null
  BY <1>1, EmptyIs DEF BlocksOwned
<1>6. \A x \in Alive' : ring'[x].maxcap > 0
        => heap'[ring'[x].rawData] = Room(ring'[x].maxcap)
  BY <1>1, <1>2, EmptyIs DEF BlocksOwned
<1>7. BlocksOwned'
  BY <1>2, <1>3, <1>5, <1>6 DEF BlocksOwned
<1>8. ElementsOwned'
  BY <1>2, <1>4 DEF ElementsOwned, Held, Slot
<1> QED BY <1>1, <1>7, <1>8

\* Enqueues and dequeues leave the blocks alone.
LEMMA BlocksSame ==
    ASSUME BlocksOwned, heap' = heap, Alive' = Alive,
           \A x \in Alive : /\ ring'[x].rawData = ring[x].rawData
                            /\ ring'[x].maxcap = ring[x].maxcap
    PROVE  BlocksOwned'
<1>1. {ring'[x].rawData : x \in Alive'} = {ring[x].rawData : x \in Alive}
  OBVIOUS
<1> QED BY <1>1 DEF BlocksOwned

\* What an enqueue makes of the rings.
LEMMA Enqueued ==
    ASSUME RingsWhole, NEW b \in Objects, NEW v \in Values, TryEnqueue(b, v)
    PROVE  /\ b \in Alive /\ Alive' = Alive /\ RingsWhole'
           /\ \A x \in Alive \ {b} : ring'[x] = ring[x]
           /\ \E r, s \in [Fields -> Nat] :
                /\ r = ring[b] /\ Whole(r) /\ r.slots_ > 0
                /\ s = ring'[b] /\ Whole(s) /\ s.items = r.items + 1
                /\ \A f \in Fields \ {"slots_", "items", "nextSlot"} : s[f] = r[f]
                /\ mem' = [a \in DOMAIN mem \cup {Slot(r, r.nextSlot)} |->
                                IF a = Slot(r, r.nextSlot) THEN v ELSE mem[a]]
<1>1. PICK r \in [Fields -> Nat] : r = ring[b] /\ Whole(r) /\ r.slots_ > 0 /\ b \in Alive
  BY AliveIs DEF TryEnqueue, RingsWhole
<1>2. PICK s \in [Fields -> Nat] :
        /\ ring' = [ring EXCEPT ![b] = s]
        /\ s.slots_ = r.slots_ - 1
        /\ s.items = r.items + 1
        /\ s.nextSlot = r.nextSlot + 1
        /\ \A f \in Fields \ {"slots_", "items", "nextSlot"} : s[f] = r[f]
  <2>1. /\ ring[b].slots_ > 0
        /\ ring' = [ring EXCEPT ![b].slots_ = @ - 1, ![b].items = @ + 1,
                                ![b].nextSlot = @ + 1]
    BY DEF TryEnqueue
  <2>2. \E s \in [Fields -> Nat] :
          /\ ring' = [ring EXCEPT ![b] = s]
          /\ s.slots_ = ring[b].slots_ - 1
          /\ s.items = ring[b].items + 1
          /\ s.nextSlot = ring[b].nextSlot + 1
          /\ \A f \in Fields \ {"slots_", "items", "nextSlot"} : s[f] = ring[b][f]
    BY <1>1, <2>1, EnqueueMembers
  <2> QED BY <1>1, <2>2
<1>3. /\ s.maxcap = r.maxcap /\ s.mask = r.mask /\ s.rawData = r.rawData
      /\ s.data = r.data /\ s.nextItem = r.nextItem
  BY <1>2 DEF Fields
<1>4. Whole(s)
  <2>1. /\ r.slots_ \in Nat /\ r.items \in Nat /\ r.nextItem \in Nat
        /\ r.slots_ + r.items = r.maxcap /\ r.nextSlot = r.nextItem + r.items
    BY <1>1 DEF Whole, Fields
  <2>2. s.slots_ + s.items = s.maxcap /\ s.nextSlot = s.nextItem + s.items
    BY <1>2, <1>3, <2>1
  <2> QED BY <1>1, <1>3, <2>2 DEF Whole
<1>5. /\ RingsWhole' /\ Alive' = Alive /\ ring'[b] = s
      /\ \A x \in Alive \ {b} : ring'[x] = ring[x]
  <2>1. /\ RingsWhole' /\ Alive' = Alive \cup {b} /\ ring'[b] = s
        /\ \A x \in Alive \ {b} : ring'[x] = ring[x]
    BY <1>2, <1>4, OneChanged
  <2> QED BY <1>1, <2>1
<1>6. mem' = [a \in DOMAIN mem \cup {Slot(r, r.nextSlot)} |->
                    IF a = Slot(r, r.nextSlot) THEN v ELSE mem[a]]
  BY <1>1 DEF TryEnqueue
<1> QED BY <1>1, <1>2, <1>4, <1>5, <1>6

\* An element is put where none was.
LEMMA TryEnqueueKeeps ==
    ASSUME RingAssumption, MemoryAssumption, RInv,
           NEW b \in Objects, NEW v \in Values, TryEnqueue(b, v)
    PROVE  RInv'
<1> USE DEF RInv
<1>1. /\ b \in Alive /\ Alive' = Alive /\ RingsWhole'
      /\ \A x \in Alive \ {b} : ring'[x] = ring[x]
  BY Enqueued
<1>2. PICK r, s \in [Fields -> Nat] :
        /\ r = ring[b] /\ Whole(r) /\ r.slots_ > 0
        /\ s = ring'[b] /\ Whole(s) /\ s.items = r.items + 1
        /\ \A f \in Fields \ {"slots_", "items", "nextSlot"} : s[f] = r[f]
        /\ mem' = [a \in DOMAIN mem \cup {Slot(r, r.nextSlot)} |->
                        IF a = Slot(r, r.nextSlot) THEN v ELSE mem[a]]
  BY Enqueued
<1>3. s.maxcap = r.maxcap /\ s.rawData = r.rawData
  BY <1>2 DEF Fields
<1>4. BlocksOwned'
  <2>1. heap' = heap
    BY DEF TryEnqueue
  <2> QED BY <1>1, <1>2, <1>3, <2>1, BlocksSame
<1> DEFINE at == Slot(r, r.nextSlot)
<1>5. Held(s) = Held(r) \cup {at}
  BY <1>2, HeldMore
<1>6. mem' = [a \in DOMAIN mem \cup {at} |-> IF a = at THEN v ELSE mem[a]]
  BY <1>2
<1>7. ElementsOwned'
  <2> HIDE DEF at
  <2>1. \A e : (\E x \in Alive' : e \in Held(ring'[x]))
                    <=> e = at \/ \E x \in Alive : e \in Held(ring[x])
    BY <1>1, <1>2, <1>5
  <2>2. DOMAIN mem' = UNION {Held(ring'[x]) : x \in Alive'}
    BY <1>6, <2>1 DEF ElementsOwned
  <2>3. \A a \in DOMAIN mem' : mem'[a] \in Values
    BY <1>6 DEF ElementsOwned
  <2> QED BY <2>2, <2>3 DEF ElementsOwned, Held, Slot
<1> QED BY <1>1, <1>4, <1>7

\* No ring but its own holds an element.
LEMMA HeldByOne ==
    ASSUME RingAssumption, MemoryAssumption, RInv,
           NEW b \in Alive, NEW x \in Alive \ {b}, NEW e \in Held(ring[b])
    PROVE  e \notin Held(ring[x])
<1>1. Whole(ring[b]) /\ Whole(ring[x])
  BY DEF RInv, RingsWhole
<1>2. PICK i \in Nat : e = Slot(ring[b], i) /\ ring[b].maxcap > 0
  BY <1>1, HeldIs
<1>3. ring[b].rawData = ring[x].rawData => ring[b].rawData = Null
  BY DEF RInv, BlocksOwned
<1> QED BY <1>1, <1>2, <1>3, HeldApart

\* What a dequeue makes of the rings.
LEMMA Dequeued ==
    ASSUME RingsWhole, NEW b \in Objects, TryDequeue(b)
    PROVE  /\ b \in Alive /\ Alive' = Alive /\ RingsWhole'
           /\ \A x \in Alive \ {b} : ring'[x] = ring[x]
           /\ \E r, s \in [Fields -> Nat] :
                /\ r = ring[b] /\ Whole(r) /\ r.items > 0
                /\ s = ring'[b] /\ Whole(s)
                /\ s.items = r.items - 1 /\ s.nextItem = r.nextItem + 1
                /\ \A f \in Fields \ {"slots_", "items", "nextItem"} : s[f] = r[f]
                /\ mem' = [a \in DOMAIN mem \ {Slot(r, r.nextItem)} |-> mem[a]]
<1>1. PICK r \in [Fields -> Nat] : r = ring[b] /\ Whole(r) /\ r.items > 0 /\ b \in Alive
  BY AliveIs DEF TryDequeue, RingsWhole
<1>2. PICK s \in [Fields -> Nat] :
        /\ ring' = [ring EXCEPT ![b] = s]
        /\ s.slots_ = r.slots_ + 1
        /\ s.items = r.items - 1
        /\ s.nextItem = r.nextItem + 1
        /\ \A f \in Fields \ {"slots_", "items", "nextItem"} : s[f] = r[f]
  <2>1. /\ ring[b].items > 0
        /\ ring' = [ring EXCEPT ![b].slots_ = @ + 1, ![b].items = @ - 1,
                                ![b].nextItem = @ + 1]
    BY DEF TryDequeue
  <2>2. \E s \in [Fields -> Nat] :
          /\ ring' = [ring EXCEPT ![b] = s]
          /\ s.slots_ = ring[b].slots_ + 1
          /\ s.items = ring[b].items - 1
          /\ s.nextItem = ring[b].nextItem + 1
          /\ \A f \in Fields \ {"slots_", "items", "nextItem"} : s[f] = ring[b][f]
    BY <1>1, <2>1, DequeueMembers
  <2> QED BY <1>1, <2>2
<1>3. /\ s.maxcap = r.maxcap /\ s.mask = r.mask /\ s.rawData = r.rawData
      /\ s.data = r.data /\ s.nextSlot = r.nextSlot
  BY <1>2 DEF Fields
<1>4. Whole(s)
  <2>1. /\ r.slots_ \in Nat /\ r.items \in Nat /\ r.nextItem \in Nat
        /\ r.slots_ + r.items = r.maxcap /\ r.nextSlot = r.nextItem + r.items
    BY <1>1 DEF Whole, Fields
  <2>2. s.slots_ + s.items = s.maxcap /\ s.nextSlot = s.nextItem + s.items
    BY <1>2, <1>3, <2>1
  <2> QED BY <1>1, <1>3, <2>2 DEF Whole
<1>5. /\ RingsWhole' /\ Alive' = Alive /\ ring'[b] = s
      /\ \A x \in Alive \ {b} : ring'[x] = ring[x]
  <2>1. /\ RingsWhole' /\ Alive' = Alive \cup {b} /\ ring'[b] = s
        /\ \A x \in Alive \ {b} : ring'[x] = ring[x]
    BY <1>2, <1>4, OneChanged
  <2> QED BY <1>1, <2>1
<1>6. mem' = [a \in DOMAIN mem \ {Slot(r, r.nextItem)} |-> mem[a]]
  BY <1>1 DEF TryDequeue, Without
<1> QED BY <1>1, <1>2, <1>4, <1>5, <1>6

\* The element that is taken is destroyed, and no other.
LEMMA TryDequeueKeeps ==
    ASSUME RingAssumption, MemoryAssumption, RInv, NEW b \in Objects, TryDequeue(b)
    PROVE  RInv'
<1> USE DEF RInv
<1>1. /\ b \in Alive /\ Alive' = Alive /\ RingsWhole'
      /\ \A x \in Alive \ {b} : ring'[x] = ring[x]
  BY Dequeued
<1>2. PICK r, s \in [Fields -> Nat] :
        /\ r = ring[b] /\ Whole(r) /\ r.items > 0
        /\ s = ring'[b] /\ Whole(s)
        /\ s.items = r.items - 1 /\ s.nextItem = r.nextItem + 1
        /\ \A f \in Fields \ {"slots_", "items", "nextItem"} : s[f] = r[f]
        /\ mem' = [a \in DOMAIN mem \ {Slot(r, r.nextItem)} |-> mem[a]]
  BY Dequeued
<1>3. s.maxcap = r.maxcap /\ s.rawData = r.rawData
  BY <1>2 DEF Fields
<1>4. BlocksOwned'
  <2>1. heap' = heap
    BY DEF TryDequeue
  <2> QED BY <1>1, <1>2, <1>3, <2>1, BlocksSame
<1> DEFINE at == Slot(r, r.nextItem)
<1>5. Held(s) = Held(r) \ {at} /\ at \in Held(r)
  BY <1>2, HeldLess
<1>6. mem' = [a \in DOMAIN mem \ {at} |-> mem[a]]
  BY <1>2
<1>7. ElementsOwned'
  <2> HIDE DEF at
  <2>1. \A x \in Alive \ {b} : at \notin Held(ring[x])
    BY <1>1, <1>2, <1>5, HeldByOne
  <2>2. \A e : (\E x \in Alive' : e \in Held(ring'[x]))
                    <=> e # at /\ \E x \in Alive : e \in Held(ring[x])
    BY <1>1, <1>2, <1>5, <2>1
  <2>3. DOMAIN mem' = UNION {Held(ring'[x]) : x \in Alive'}
    BY <1>6, <2>2 DEF ElementsOwned
  <2>4. \A a \in DOMAIN mem' : mem'[a] \in Values
    BY <1>6 DEF ElementsOwned
  <2> QED BY <2>3, <2>4 DEF ElementsOwned, Held, Slot
<1> QED BY <1>1, <1>4, <1>7

\* What is left of the others when a ring is destroyed.
LEMMA DestroyMembers ==
    ASSUME RingsWhole, NEW b \in Objects, Destroy(b)
    PROVE  /\ b \in Alive /\ Alive' = Alive \ {b} /\ ring'[b] = NoObject
           /\ \A x \in Alive' : ring'[x] = ring[x]
           /\ RingsWhole'
<1>1. b \in Alive /\ ring' = [ring EXCEPT ![b] = NoObject]
  BY DEF Destroy
<1>2. /\ ring'[b] = NoObject /\ \A x \in Objects \ {b} : ring'[x] = ring[x]
      /\ ring' \in [Objects -> [Fields -> Nat] \cup {NoObject}]
  BY <1>1 DEF RingsWhole
<1>3. Alive' = Alive \ {b}
  BY <1>1, <1>2 DEF Alive
<1>4. \A x \in Alive' : Whole(ring'[x])
  BY <1>2, <1>3 DEF RingsWhole, Alive
<1> QED BY <1>1, <1>2, <1>3, <1>4 DEF RingsWhole, Whole, Alive

\* The destructor frees one block and destroys the elements of one ring.
LEMMA DestroyKeeps ==
    ASSUME RingAssumption, MemoryAssumption, RInv, NEW b \in Objects, Destroy(b)
    PROVE  RInv'
<1> USE DEF RInv
<1>1. /\ b \in Alive /\ Alive' = Alive \ {b}
      /\ \A x \in Alive' : ring'[x] = ring[x]
      /\ RingsWhole'
  BY DestroyMembers
<1>2. /\ mem' = [a \in DOMAIN mem \ Held(ring[b]) |-> mem[a]]
      /\ heap' = [a \in DOMAIN heap \ {ring[b].rawData} |-> heap[a]]
  BY DEF Destroy, Without
<1>3. BlocksOwned'
  <2>1. {ring'[x].rawData : x \in Alive'} \ {Null}
            = ({ring[x].rawData : x \in Alive} \ {Null}) \ {ring[b].rawData}
    BY <1>1 DEF BlocksOwned
  <2>2. \A x, y \in Alive' : x # y /\ ring'[x].rawData = ring'[y].rawData
            => ring'[x].rawData = Null
    BY <1>1 DEF BlocksOwned
  <2>3. ASSUME NEW x \in Alive', ring'[x].maxcap > 0
        PROVE  heap'[ring'[x].rawData] = Room(ring'[x].maxcap)
    <3>1. x \in Alive /\ x # b /\ ring'[x] = ring[x]
      BY <1>1
    <3>2. ring[x].rawData \in Arenas /\ ring[x].rawData # Null
      BY <2>3, <3>1, Sizes DEF RingsWhole, Whole
    <3>3. ring[x].rawData # ring[b].rawData /\ ring[x].rawData \in DOMAIN heap
      BY <1>1, <3>1, <3>2 DEF BlocksOwned
    <3> QED BY <1>2, <2>3, <3>1, <3>3 DEF BlocksOwned
  <2> QED BY <1>2, <2>1, <2>2, <2>3 DEF BlocksOwned
<1>4. ElementsOwned'
  <2>1. \A x \in Alive \ {b} : \A e \in Held(ring[b]) : e \notin Held(ring[x])
    BY <1>1, HeldByOne
  <2>2. \A e : (\E x \in Alive' : e \in Held(ring'[x]))
                    <=> e \notin Held(ring[b]) /\ \E x \in Alive : e \in Held(ring[x])
    BY <1>1, <2>1
  <2>3. DOMAIN mem' = UNION {Held(ring'[x]) : x \in Alive'}
    BY <1>2, <2>2 DEF ElementsOwned
  <2> QED BY <1>2, <2>3 DEF ElementsOwned, Held, Slot
<1> QED BY <1>1, <1>3, <1>4

-----------------------------------------------------------------------------
(***************************************************************************)
(* The theorem on memory.                                                  *)
(***************************************************************************)
\* A ring holds as many elements as it counts.
LEMMA HeldCount ==
    ASSUME RingAssumption, MemoryAssumption, NEW r, Whole(r)
    PROVE  Cardinality(Held(r)) = r.items
<1>1. /\ r.items \in Nat /\ r.slots_ \in Nat /\ r.nextItem \in Nat
      /\ r.maxcap = r.slots_ + r.items
  BY DEF Whole, Fields
<1>2. PICK k \in Nat : k = r.items
  BY <1>1
<1>3. PICK n \in Nat : n = r.nextItem
  BY <1>1
<1>4. Held(r) = {Slot(r, n + i) : i \in 0 .. k - 1}
  BY <1>2, <1>3 DEF Held
<1>5. IsFiniteSet(0 .. k - 1) /\ Cardinality(0 .. k - 1) = k
  BY FS_Interval
<1> DEFINE F == [i \in 0 .. k - 1 |-> Slot(r, n + i)]
<1>6. F \in Surjection(0 .. k - 1, Held(r))
  BY <1>4 DEF Surjection
<1>7. ASSUME NEW i \in 0 .. k - 1, NEW j \in 0 .. k - 1, F[i] = F[j]
      PROVE  i = j
  <2>1. r.maxcap \in Nat /\ r.maxcap >= k /\ r.maxcap > 0
    BY <1>1, <1>2
  <2>2. n + i \in Nat /\ n + j \in Nat /\ n + i < (n + j) + r.maxcap /\ n + j < (n + i) + r.maxcap
    BY <2>1
  <2>3. Slot(r, n + i) = Slot(r, n + j)
    BY <1>7
  <2>4. n + i = n + j
    BY <2>1, <2>2, <2>3, SlotsDistinct
  <2> QED BY <2>4
<1>8. F \in Injection(0 .. k - 1, Held(r))
  <2>1. F \in [0 .. k - 1 -> Held(r)]
    BY <1>4
  <2> QED BY <1>7, <2>1 DEF Injection, IsInjective
<1> HIDE DEF F
<1>9. Cardinality(Held(r)) = Cardinality(0 .. k - 1)
  BY <1>5, <1>6, <1>8, FS_Surjection
<1> QED BY <1>2, <1>5, <1>9

\* What the invariant says of memory.
LEMMA RInvGives ==
    ASSUME RingAssumption, MemoryAssumption, RInv
    PROVE  TypeOK /\ OwnedOnce /\ ElementsInside
<1> USE DEF RInv
<1>1. \A b \in Alive : Whole(ring[b])
  BY DEF RingsWhole
<1>2. ASSUME NEW b \in Alive, NEW a \in Held(ring[b])
      PROVE  /\ a \in Nat /\ a % Alignment = 0
             /\ ring[b].rawData \in DOMAIN heap
             /\ ring[b].rawData <= a
             /\ a + ElementSize <= ring[b].rawData + heap[ring[b].rawData]
  <2>1. PICK i \in Nat : a = Slot(ring[b], i) /\ ring[b].maxcap > 0
    BY <1>1, HeldIs
  <2>2. /\ a \in Nat /\ a % Alignment = 0
        /\ ring[b].rawData <= a
        /\ a + ElementSize <= ring[b].rawData + Room(ring[b].maxcap)
    BY <1>1, <2>1, SlotInside
  <2>3. ring[b].rawData # Null
    BY <1>1, <2>1, Sizes DEF Whole
  <2>4. ring[b].rawData \in DOMAIN heap /\ heap[ring[b].rawData] = Room(ring[b].maxcap)
    BY <2>1, <2>3 DEF BlocksOwned
  <2> QED BY <2>2, <2>4
<1>3. TypeOK
  <2>1. \A b \in Alive : ring[b] \in [Fields -> Nat] /\ ring[b].rawData \in Arenas \cup {Null}
    BY <1>1 DEF Whole
  <2>2. DOMAIN heap \subseteq Arenas
    BY <2>1 DEF BlocksOwned
  <2>3. \A a \in DOMAIN mem : a \in Nat /\ mem[a] \in Values
    BY <1>2 DEF ElementsOwned
  <2> QED BY <2>1, <2>2, <2>3 DEF TypeOK, RingsWhole, BlocksOwned
<1>4. \A b \in Alive : Cardinality(Held(ring[b])) = ring[b].items
  BY <1>1, HeldCount
<1>5. OwnedOnce
  BY <1>4 DEF OwnedOnce, BlocksOwned, ElementsOwned
<1>6. ElementsInside
  BY <1>2 DEF ElementsInside
<1> QED BY <1>3, <1>5, <1>6

\* Nothing is owned at the start.
LEMMA InitEstablishes ==
    ASSUME Init
    PROVE  RInv
<1>1. Alive = {} /\ DOMAIN heap = {} /\ DOMAIN mem = {}
  BY DEF Init, Alive
<1> QED BY <1>1 DEF Init, RInv, RingsWhole, BlocksOwned, ElementsOwned

\* Every step keeps the invariant.
LEMMA StepKeeps ==
    ASSUME RingAssumption, MemoryAssumption, ~MallocFails, RInv, [Next]_vars
    PROVE  RInv'
<1>1. CASE UNCHANGED vars
  BY <1>1 DEF vars, RInv, RingsWhole, Whole, Alive, BlocksOwned, ElementsOwned, Held, Slot
<1>2. CASE Next
  BY <1>2, ConstructKeeps, SwapKeeps, MoveConstructKeeps, TryEnqueueKeeps,
     TryDequeueKeeps, DestroyKeeps DEF Next
<1> QED BY <1>1, <1>2

\* The types, and: where malloc does not fail, however rings are made, moved, swapped
\* and destroyed, each block has one ring that will free it, each element one ring
\* that will destroy it, and each lies aligned in the block of its ring.
THEOREM MemoryOwned ==
    ASSUME RingAssumption, MemoryAssumption, ~MallocFails
    PROVE  Spec => [](TypeOK /\ OwnedOnce /\ ElementsInside)
<1>1. Init => RInv
  BY InitEstablishes
<1>2. RInv /\ [Next]_vars => RInv'
  BY StepKeeps
<1>3. RInv => TypeOK /\ OwnedOnce /\ ElementsInside
  BY RInvGives
<1> QED BY <1>1, <1>2, <1>3, PTL DEF Spec

-----------------------------------------------------------------------------
(***************************************************************************)
(* The values.                                                             *)
(***************************************************************************)
\* The elements of a ring in some memory.
ElementsIn(r, m) == [i \in 1 .. r.items |-> m[Slot(r, r.nextItem + i - 1)]]

\* They are a sequence, as long as the ring counts.
LEMMA ElementsLength ==
    ASSUME NEW r, Whole(r), NEW m
    PROVE  /\ Len(ElementsIn(r, m)) = r.items
           /\ DOMAIN ElementsIn(r, m) = 1 .. r.items
           /\ r.items = 0 => ElementsIn(r, m) = <<>>
  BY DEF ElementsIn, Whole, Fields

\* The slots that they are read from are those that are held.
LEMMA ElementHeld ==
    ASSUME NEW r, Whole(r), NEW i \in 1 .. r.items
    PROVE  Slot(r, r.nextItem + i - 1) \in Held(r)
<1>1. r.nextItem \in Nat /\ r.items \in Nat
  BY DEF Whole, Fields
<1>2. i - 1 \in 0 .. r.items - 1 /\ r.nextItem + i - 1 = r.nextItem + (i - 1)
  BY <1>1
<1>3. Slot(r, r.nextItem + (i - 1)) \in Held(r)
  BY <1>2 DEF Held
<1> QED BY <1>2, <1>3

\* Memory that is the same in these slots has the same elements.
LEMMA ElementsSame ==
    ASSUME NEW r, Whole(r), NEW m, NEW n, \A a \in Held(r) : n[a] = m[a]
    PROVE  ElementsIn(r, n) = ElementsIn(r, m)
  BY ElementHeld DEF ElementsIn

\* A sequence with one more element.
LEMMA AppendIs ==
    ASSUME NEW E, NEW n \in Nat, NEW f \in [1 .. n -> E], NEW e \in E
    PROVE  Append(f, e) = [i \in 1 .. n + 1 |-> IF i = n + 1 THEN e ELSE f[i]]
<1>1. f \in Seq(E) /\ Len(f) = n
  OBVIOUS
<1>2. /\ Append(f, e) \in Seq(E) /\ Len(Append(f, e)) = n + 1
      /\ \A i \in 1 .. n : Append(f, e)[i] = f[i]
      /\ Append(f, e)[n + 1] = e
  BY <1>1, AppendProperties
<1>3. PICK g : g = Append(f, e)
  OBVIOUS
<1>4. n + 1 \in Nat /\ g \in Seq(E) /\ Len(g) = n + 1
  BY <1>2, <1>3
<1>5. g \in [1 .. n + 1 -> E]
  BY <1>4
<1>6. ASSUME NEW i \in 1 .. n + 1
      PROVE  g[i] = IF i = n + 1 THEN e ELSE f[i]
  <2>1. CASE i = n + 1
    BY <1>1, <1>2, <1>3, <2>1
  <2>2. CASE i # n + 1
    <3>1. i \in 1 .. n
      BY <2>2
    <3> QED BY <1>2, <1>3, <2>2, <3>1
  <2> QED BY <2>1, <2>2
<1> QED BY <1>3, <1>5, <1>6

\* The same without its head.
LEMMA TailIs ==
    ASSUME NEW E, NEW n \in Nat, n > 0, NEW f \in [1 .. n -> E]
    PROVE  Tail(f) = [i \in 1 .. n - 1 |-> f[i + 1]]
<1>1. f \in Seq(E) /\ Len(f) = n /\ f # <<>>
  OBVIOUS
<1>2. /\ Tail(f) \in Seq(E) /\ Len(Tail(f)) = n - 1
      /\ \A i \in 1 .. n - 1 : Tail(f)[i] = f[i + 1]
  BY <1>1, HeadTailProperties
<1>3. PICK g : g = Tail(f)
  OBVIOUS
<1>4. n - 1 \in Nat /\ g \in Seq(E) /\ Len(g) = n - 1
  BY <1>2, <1>3
<1>5. g \in [1 .. n - 1 -> E]
  BY <1>4
<1> QED BY <1>2, <1>3, <1>5

\* An enqueue appends.
LEMMA ElementsMore ==
    ASSUME NEW r, Whole(r),
           NEW s \in [Fields -> Nat],
           s.items = r.items + 1,
           \A f \in Fields \ {"slots_", "items", "nextSlot"} : s[f] = r[f],
           NEW m, NEW n, \A a \in Held(r) : n[a] = m[a],
           NEW v, n[Slot(r, r.nextSlot)] = v
    PROVE  ElementsIn(s, n) = Append(ElementsIn(r, m), v)
<1>1. /\ s.data = r.data /\ s.mask = r.mask /\ s.nextItem = r.nextItem
  BY DEF Fields
<1>2. PICK k \in Nat : k = r.items
  BY DEF Whole, Fields
<1>3. PICK d \in Nat : d = r.nextItem /\ r.nextSlot = d + k
  BY <1>2 DEF Whole, Fields
<1>4. \A i \in Int : Slot(s, i) = Slot(r, i)
  BY <1>1, HeldSame
<1>5. ElementsIn(s, n) = [i \in 1 .. k + 1 |-> n[Slot(r, d + i - 1)]]
  BY <1>1, <1>2, <1>3, <1>4 DEF ElementsIn
<1> DEFINE old == [i \in 1 .. k |-> m[Slot(r, d + i - 1)]]
<1>6. ElementsIn(r, m) = old
  BY <1>2, <1>3 DEF ElementsIn
<1>7. \A i \in 1 .. k : n[Slot(r, d + i - 1)] = old[i]
  BY <1>2, <1>3, ElementHeld
<1>8. n[Slot(r, d + (k + 1) - 1)] = v
  <2>1. d + (k + 1) - 1 = d + k
    OBVIOUS
  <2> QED BY <1>3, <2>1
<1>9. old \in [1 .. k -> {old[i] : i \in 1 .. k} \cup {v}]
  OBVIOUS
<1> HIDE DEF old
<1>10. Append(old, v) = [i \in 1 .. k + 1 |-> IF i = k + 1 THEN v ELSE old[i]]
  <2>1. PICK E : E = {old[i] : i \in 1 .. k} \cup {v}
    OBVIOUS
  <2>2. old \in [1 .. k -> E] /\ v \in E
    BY <1>9, <2>1
  <2> QED BY <2>2, AppendIs
<1>11. ASSUME NEW i \in 1 .. k + 1
       PROVE  n[Slot(r, d + i - 1)] = IF i = k + 1 THEN v ELSE old[i]
  BY <1>7, <1>8
<1> QED BY <1>5, <1>6, <1>10, <1>11

\* A dequeue takes the head.
LEMMA ElementsLess ==
    ASSUME NEW r, Whole(r), r.items > 0,
           NEW s \in [Fields -> Nat],
           s.items = r.items - 1, s.nextItem = r.nextItem + 1,
           \A f \in Fields \ {"slots_", "items", "nextItem"} : s[f] = r[f],
           NEW m
    PROVE  /\ ElementsIn(s, m) = Tail(ElementsIn(r, m))
           /\ ElementsIn(r, m) # <<>>
<1>1. /\ s.data = r.data /\ s.mask = r.mask
  BY DEF Fields
<1>2. PICK k \in Nat : k = r.items /\ k > 0
  BY DEF Whole, Fields
<1>3. PICK d \in Nat : d = r.nextItem
  BY DEF Whole, Fields
<1>4. \A i \in Int : Slot(s, i) = Slot(r, i)
  BY <1>1, HeldSame
<1>5. ElementsIn(s, m) = [i \in 1 .. k - 1 |-> m[Slot(r, (d + 1) + i - 1)]]
  BY <1>2, <1>3, <1>4 DEF ElementsIn
<1> DEFINE old == [i \in 1 .. k |-> m[Slot(r, d + i - 1)]]
<1>6. ElementsIn(r, m) = old
  BY <1>2, <1>3 DEF ElementsIn
<1>7. ASSUME NEW i \in 1 .. k - 1
      PROVE  m[Slot(r, (d + 1) + i - 1)] = old[i + 1]
  <2>1. (d + 1) + i - 1 = d + (i + 1) - 1 /\ i + 1 \in 1 .. k
    OBVIOUS
  <2> QED BY <2>1
<1>8. old \in [1 .. k -> {old[i] : i \in 1 .. k}]
  OBVIOUS
<1>9. old # <<>>
  <2>1. 1 \in DOMAIN old
    BY <1>2, <1>8
  <2> QED BY <2>1
<1> HIDE DEF old
<1>10. Tail(old) = [i \in 1 .. k - 1 |-> old[i + 1]]
  <2>1. PICK E : E = {old[i] : i \in 1 .. k}
    OBVIOUS
  <2>2. old \in [1 .. k -> E]
    BY <1>8, <2>1
  <2>3. k > 0
    BY <1>2
  <2> QED BY <2>2, <2>3, TailIs
<1> QED BY <1>5, <1>6, <1>7, <1>9, <1>10

\* What RingValues sees of the rings.
CapacityNow == [b \in Objects |-> ring[b].maxcap]
ContentsNow == [b \in Objects |-> IF b \in Alive THEN Elements(ring[b]) ELSE <<>>]

\* It is there for the objects that are alive.
LEMMA ValuesAre ==
    ASSUME RingsWhole
    PROVE  /\ \A x \in Alive : /\ CapacityNow[x] = ring[x].maxcap
                               /\ ContentsNow[x] = ElementsIn(ring[x], mem)
           /\ \A x \in Objects \ Alive : CapacityNow[x] = -1 /\ ContentsNow[x] = <<>>
  BY DEF CapacityNow, ContentsNow, Elements, ElementsIn, Alive, NoObject

\* After a step as before it.
LEMMA ValuesThen ==
    ASSUME RingsWhole'
    PROVE  /\ \A x \in Alive' : /\ CapacityNow'[x] = ring'[x].maxcap
                                /\ ContentsNow'[x] = ElementsIn(ring'[x], mem')
           /\ \A x \in Objects \ Alive' : CapacityNow'[x] = -1 /\ ContentsNow'[x] = <<>>
  BY DEF CapacityNow, ContentsNow, Elements, ElementsIn, Alive, NoObject, Slot

\* The same objects are alive in both.
LEMMA SameAlive ==
    ASSUME RingsWhole
    PROVE  RingAbstraction!Alive = Alive
<1>1. \A x \in Alive : ring[x].maxcap \in Nat
  BY DEF RingsWhole, Whole, Fields
<1>2. \A x \in Objects : x \in Alive <=> ring[x].maxcap # -1
  BY <1>1 DEF Alive, NoObject
<1> QED BY <1>2 DEF RingAbstraction!Alive, RingAbstraction!None, Alive

\* A ring that a step leaves alone keeps its value, if its elements stay.
LEMMA ValueKept ==
    ASSUME RingsWhole, RingsWhole', NEW x \in Objects, x \in Alive <=> x \in Alive',
           x \in Alive => /\ ring'[x] = ring[x]
                          /\ \A a \in Held(ring[x]) : mem'[a] = mem[a]
    PROVE  CapacityNow'[x] = CapacityNow[x] /\ ContentsNow'[x] = ContentsNow[x]
<1>1. CASE x \in Alive
  <2>1. Whole(ring[x])
    BY <1>1 DEF RingsWhole
  <2>2. ElementsIn(ring[x], mem') = ElementsIn(ring[x], mem)
    BY <1>1, <2>1, ElementsSame
  <2> QED BY <1>1, <2>2, ValuesAre, ValuesThen
<1>2. CASE x \notin Alive
  BY <1>2, ValuesAre, ValuesThen
<1> QED BY <1>1, <1>2

\* A new ring has its capacity, and nothing in it.
LEMMA ConstructCreates ==
    ASSUME RingAssumption, MemoryAssumption, ~MallocFails, RingsWhole,
           NEW b \in Objects, NEW c \in Capacities, Construct(b, c)
    PROVE  RingAbstraction!Create(b)
<1>1. /\ b \notin Alive /\ Alive' = Alive \cup {b} /\ mem' = mem
      /\ \A x \in Alive : ring'[x] = ring[x]
      /\ RingsWhole'
      /\ ring'[b].maxcap = c /\ ring'[b].items = 0
  BY Constructed
<1>2. \A x \in Objects \ {b} :
        CapacityNow'[x] = CapacityNow[x] /\ ContentsNow'[x] = ContentsNow[x]
  BY <1>1, ValueKept
<1>3. CapacityNow'[b] = c
  BY <1>1, ValuesThen
<1>4. ContentsNow'[b] = ContentsNow[b]
  <2>1. Whole(ring'[b])
    BY <1>1 DEF RingsWhole, Whole
  <2>2. ElementsIn(ring'[b], mem') = <<>>
    BY <1>1, <2>1, ElementsLength
  <2> QED BY <1>1, <2>2, ValuesAre, ValuesThen
<1>5. CapacityNow' = [CapacityNow EXCEPT ![b] = c]
  BY <1>2, <1>3 DEF CapacityNow
<1>6. ContentsNow' = ContentsNow
  BY <1>2, <1>4 DEF ContentsNow
<1>7. b \notin RingAbstraction!Alive
  BY <1>1, SameAlive
<1> QED BY <1>5, <1>6, <1>7 DEF RingAbstraction!Create, CapacityNow, ContentsNow

\* Two rings that are swapped exchange their values.
LEMMA SwapExchanges ==
    ASSUME RingsWhole, NEW a \in Objects, NEW b \in Objects, Swap(a, b)
    PROVE  RingAbstraction!Exchange(a, b)
<1>1. /\ a \in Alive /\ b \in Alive /\ Alive' = Alive
      /\ ring'[a] = ring[b] /\ ring'[b] = ring[a]
      /\ \A x \in Alive \ {a, b} : ring'[x] = ring[x]
      /\ RingsWhole'
  BY SwapMembers
<1>2. mem' = mem
  BY DEF Swap
<1>3. \A x \in Objects \ {a, b} :
        CapacityNow'[x] = CapacityNow[x] /\ ContentsNow'[x] = ContentsNow[x]
  BY <1>1, <1>2, ValueKept
<1>4. /\ CapacityNow'[a] = CapacityNow[b] /\ ContentsNow'[a] = ContentsNow[b]
      /\ CapacityNow'[b] = CapacityNow[a] /\ ContentsNow'[b] = ContentsNow[a]
  BY <1>1, <1>2, ValuesAre, ValuesThen
<1>5. CapacityNow' = [CapacityNow EXCEPT ![a] = CapacityNow[b], ![b] = CapacityNow[a]]
  BY <1>3, <1>4 DEF CapacityNow
<1>6. ContentsNow' = [ContentsNow EXCEPT ![a] = ContentsNow[b], ![b] = ContentsNow[a]]
  BY <1>3, <1>4 DEF ContentsNow
<1>7. {a, b} \subseteq RingAbstraction!Alive
  BY <1>1, SameAlive
<1> QED BY <1>5, <1>6, <1>7 DEF RingAbstraction!Exchange, CapacityNow, ContentsNow

\* A ring that is moved from has no room and nothing in it.
LEMMA MoveMoves ==
    ASSUME RingsWhole, NEW b \in Objects, NEW o \in Objects, MoveConstruct(b, o)
    PROVE  RingAbstraction!MoveNew(b, o)
<1>1. /\ b \notin Alive /\ o \in Alive /\ Alive' = Alive \cup {b}
      /\ ring'[b] = ring[o] /\ ring'[o] = Empty
      /\ \A x \in Alive \ {o} : ring'[x] = ring[x]
      /\ RingsWhole'
  BY MoveMembers
<1>2. mem' = mem
  BY DEF MoveConstruct
<1>3. \A x \in Objects \ {b, o} :
        CapacityNow'[x] = CapacityNow[x] /\ ContentsNow'[x] = ContentsNow[x]
  BY <1>1, <1>2, ValueKept
<1>4. CapacityNow'[b] = CapacityNow[o] /\ ContentsNow'[b] = ContentsNow[o]
  BY <1>1, <1>2, ValuesAre, ValuesThen
<1>5. CapacityNow'[o] = 0 /\ ContentsNow'[o] = <<>>
  BY <1>1, EmptyIs, ElementsLength, ValuesThen
<1>6. CapacityNow' = [CapacityNow EXCEPT ![b] = CapacityNow[o], ![o] = 0]
  BY <1>1, <1>3, <1>4, <1>5 DEF CapacityNow
<1>7. ContentsNow' = [ContentsNow EXCEPT ![b] = ContentsNow[o], ![o] = <<>>]
  BY <1>1, <1>3, <1>4, <1>5 DEF ContentsNow
<1>8. b \notin RingAbstraction!Alive /\ o \in RingAbstraction!Alive
  BY <1>1, SameAlive
<1> QED BY <1>6, <1>7, <1>8 DEF RingAbstraction!MoveNew, CapacityNow, ContentsNow

\* An enqueue puts an element at the end of one ring.
LEMMA TryEnqueuePuts ==
    ASSUME RingAssumption, MemoryAssumption, RInv,
           NEW b \in Objects, NEW v \in Values, TryEnqueue(b, v)
    PROVE  RingAbstraction!Put(b)
<1> USE DEF RInv
<1>1. /\ b \in Alive /\ Alive' = Alive /\ RingsWhole'
      /\ \A x \in Alive \ {b} : ring'[x] = ring[x]
  BY Enqueued
<1>2. PICK r, s \in [Fields -> Nat] :
        /\ r = ring[b] /\ Whole(r) /\ r.slots_ > 0
        /\ s = ring'[b] /\ Whole(s) /\ s.items = r.items + 1
        /\ \A f \in Fields \ {"slots_", "items", "nextSlot"} : s[f] = r[f]
        /\ mem' = [a \in DOMAIN mem \cup {Slot(r, r.nextSlot)} |->
                        IF a = Slot(r, r.nextSlot) THEN v ELSE mem[a]]
  BY Enqueued
<1> DEFINE at == Slot(r, r.nextSlot)
<1>3. at \notin Held(r)
  BY <1>2, HeldMore
<1>4. r.nextSlot \in Nat /\ r.maxcap \in Nat /\ r.maxcap > 0 /\ r.items < r.maxcap
  BY <1>2 DEF Whole, Fields
<1>5. \A x \in Alive \ {b} : at \notin Held(ring[x])
  <2>1. ASSUME NEW x \in Alive \ {b}
        PROVE  at \notin Held(ring[x])
    <3>1. Whole(ring[x]) /\ (r.rawData = ring[x].rawData => r.rawData = Null)
      BY <1>1, <1>2 DEF RingsWhole, BlocksOwned
    <3> QED BY <1>2, <1>4, <3>1, HeldApart
  <2> QED BY <2>1
<1>6. \A x \in Alive : \A a \in Held(ring[x]) : mem'[a] = mem[a]
  <2> HIDE DEF at
  <2>1. mem' = [a \in DOMAIN mem \cup {at} |-> IF a = at THEN v ELSE mem[a]]
    BY <1>2 DEF at
  <2>2. \A x \in Alive : at \notin Held(ring[x]) /\ Held(ring[x]) \subseteq DOMAIN mem
    BY <1>2, <1>3, <1>5 DEF ElementsOwned
  <2> QED BY <2>1, <2>2
<1>7. \A x \in Objects \ {b} :
        CapacityNow'[x] = CapacityNow[x] /\ ContentsNow'[x] = ContentsNow[x]
  BY <1>1, <1>6, ValueKept
<1>8. ContentsNow'[b] = Append(ContentsNow[b], v)
  <2>1. mem'[at] = v /\ \A a \in Held(r) : mem'[a] = mem[a]
    BY <1>1, <1>2, <1>6
  <2>2. ElementsIn(s, mem') = Append(ElementsIn(r, mem), v)
    <3>1. PICK m, n : m = mem /\ n = mem'
      OBVIOUS
    <3>2. n[Slot(r, r.nextSlot)] = v /\ \A a \in Held(r) : n[a] = m[a]
      BY <2>1, <3>1
    <3>3. /\ Whole(r) /\ s.items = r.items + 1
          /\ \A f \in Fields \ {"slots_", "items", "nextSlot"} : s[f] = r[f]
      BY <1>2
    <3>4. ElementsIn(s, n) = Append(ElementsIn(r, m), v)
      BY <3>2, <3>3, ElementsMore, SMTT(30)
    <3> QED BY <3>1, <3>4
  <2> QED BY <1>1, <1>2, <2>2, ValuesAre, ValuesThen
<1>9. CapacityNow'[b] = CapacityNow[b]
  <2>1. s.maxcap = r.maxcap
    BY <1>2 DEF Fields
  <2> QED BY <1>1, <1>2, <2>1, ValuesAre, ValuesThen
<1>10. CapacityNow' = CapacityNow
  BY <1>7, <1>9 DEF CapacityNow
<1>11. ContentsNow' = [ContentsNow EXCEPT ![b] = Append(@, v)]
  BY <1>7, <1>8 DEF ContentsNow
<1>12. Len(ContentsNow[b]) < CapacityNow[b]
  <2>1. Len(ElementsIn(r, mem)) = r.items
    BY <1>2, ElementsLength
  <2>2. CapacityNow[b] = r.maxcap /\ ContentsNow[b] = ElementsIn(r, mem)
    BY <1>1, <1>2, ValuesAre
  <2> QED BY <1>4, <2>1, <2>2
<1>13. b \in RingAbstraction!Alive
  BY <1>1, SameAlive
<1> QED BY <1>10, <1>11, <1>12, <1>13 DEF RingAbstraction!Put, CapacityNow, ContentsNow

\* A dequeue takes the oldest element of one ring.
LEMMA TryDequeueGets ==
    ASSUME RingAssumption, MemoryAssumption, RInv, NEW b \in Objects, TryDequeue(b)
    PROVE  RingAbstraction!Get(b)
<1> USE DEF RInv
<1>1. /\ b \in Alive /\ Alive' = Alive /\ RingsWhole'
      /\ \A x \in Alive \ {b} : ring'[x] = ring[x]
  BY Dequeued
<1>2. PICK r, s \in [Fields -> Nat] :
        /\ r = ring[b] /\ Whole(r) /\ r.items > 0
        /\ s = ring'[b] /\ Whole(s)
        /\ s.items = r.items - 1 /\ s.nextItem = r.nextItem + 1
        /\ \A f \in Fields \ {"slots_", "items", "nextItem"} : s[f] = r[f]
        /\ mem' = [a \in DOMAIN mem \ {Slot(r, r.nextItem)} |-> mem[a]]
  BY Dequeued
<1> DEFINE at == Slot(r, r.nextItem)
<1>3. Held(s) = Held(r) \ {at} /\ at \in Held(r)
  BY <1>2, HeldLess
<1>4. \A x \in Alive \ {b} : at \notin Held(ring[x])
  BY <1>1, <1>2, <1>3, HeldByOne
<1>5. \A a \in DOMAIN mem \ {at} : mem'[a] = mem[a]
  BY <1>2
<1>6. \A x \in Alive : Held(ring[x]) \subseteq DOMAIN mem
  BY DEF ElementsOwned
<1> HIDE DEF at
<1>7. \A x \in Alive \ {b} : \A a \in Held(ring[x]) : mem'[a] = mem[a]
  BY <1>4, <1>5, <1>6
<1>8. \A x \in Objects \ {b} :
        CapacityNow'[x] = CapacityNow[x] /\ ContentsNow'[x] = ContentsNow[x]
  BY <1>1, <1>7, ValueKept
<1>9. ContentsNow'[b] = Tail(ContentsNow[b]) /\ ContentsNow[b] # <<>>
  <2>1. \A a \in Held(s) : mem'[a] = mem[a]
    BY <1>1, <1>2, <1>3, <1>5, <1>6
  <2>2. ElementsIn(s, mem') = ElementsIn(s, mem)
    BY <1>2, <2>1, ElementsSame
  <2>3. ElementsIn(s, mem) = Tail(ElementsIn(r, mem)) /\ ElementsIn(r, mem) # <<>>
    <3>1. /\ Whole(r) /\ r.items > 0
          /\ s.items = r.items - 1 /\ s.nextItem = r.nextItem + 1
          /\ \A f \in Fields \ {"slots_", "items", "nextItem"} : s[f] = r[f]
      BY <1>2
    <3> QED BY <3>1, ElementsLess, SMTT(30)
  <2> QED BY <1>1, <1>2, <2>2, <2>3, ValuesAre, ValuesThen
<1>10. CapacityNow'[b] = CapacityNow[b]
  <2>1. s.maxcap = r.maxcap
    BY <1>2 DEF Fields
  <2> QED BY <1>1, <1>2, <2>1, ValuesAre, ValuesThen
<1>11. CapacityNow' = CapacityNow
  BY <1>8, <1>10 DEF CapacityNow
<1>12. ContentsNow' = [ContentsNow EXCEPT ![b] = Tail(@)]
  BY <1>8, <1>9 DEF ContentsNow
<1>13. b \in RingAbstraction!Alive
  BY <1>1, SameAlive
<1> QED BY <1>9, <1>11, <1>12, <1>13 DEF RingAbstraction!Get, CapacityNow, ContentsNow

\* A ring that is destroyed leaves the others their elements.
LEMMA DestroyDestroys ==
    ASSUME RingAssumption, MemoryAssumption, RInv, NEW b \in Objects, Destroy(b)
    PROVE  RingAbstraction!Destroy(b)
<1> USE DEF RInv
<1>1. /\ b \in Alive /\ Alive' = Alive \ {b} /\ ring'[b] = NoObject
      /\ \A x \in Alive' : ring'[x] = ring[x]
      /\ RingsWhole'
  BY DestroyMembers
<1>2. mem' = [a \in DOMAIN mem \ Held(ring[b]) |-> mem[a]]
  BY DEF Destroy, Without
<1>3. \A x \in Alive \ {b} : \A a \in Held(ring[x]) : a \notin Held(ring[b])
  BY <1>1, HeldByOne
<1>4. \A x \in Alive : Held(ring[x]) \subseteq DOMAIN mem
  BY DEF ElementsOwned
<1>5. \A x \in Alive \ {b} : \A a \in Held(ring[x]) : mem'[a] = mem[a]
  BY <1>2, <1>3, <1>4
<1>6. \A x \in Objects \ {b} :
        CapacityNow'[x] = CapacityNow[x] /\ ContentsNow'[x] = ContentsNow[x]
  BY <1>1, <1>5, ValueKept
<1>7. CapacityNow'[b] = -1 /\ ContentsNow'[b] = <<>>
  BY <1>1, ValuesThen
<1>8. CapacityNow' = [CapacityNow EXCEPT ![b] = -1]
  BY <1>6, <1>7 DEF CapacityNow
<1>9. ContentsNow' = [ContentsNow EXCEPT ![b] = <<>>]
  BY <1>6, <1>7 DEF ContentsNow
<1>10. b \in RingAbstraction!Alive
  BY <1>1, SameAlive
<1> QED BY <1>8, <1>9, <1>10
      DEF RingAbstraction!Destroy, RingAbstraction!None, CapacityNow, ContentsNow

\* What the implementation does, or a stutter.
LEMMA StepImplements ==
    ASSUME RingAssumption, MemoryAssumption, ~MallocFails, RInv, [Next]_vars
    PROVE  [RingAbstraction!Next]_(RingAbstraction!vars)
<1>1. CASE UNCHANGED vars
  BY <1>1 DEF vars, RingAbstraction!vars, Alive, Elements, Slot
<1>2. CASE Next
  BY <1>2, ConstructCreates, SwapExchanges, MoveMoves, TryEnqueuePuts, TryDequeueGets,
     DestroyDestroys DEF Next, RingAbstraction!Next, RInv
<1> QED BY <1>1, <1>2

\* Where malloc does not fail, rings behave as bounded FIFOs that are moved and swapped
\* as values: neither a move nor a swap loses, copies or reorders an element, and
\* none disturbs another ring.
THEOREM RingImplements ==
    ASSUME RingAssumption, MemoryAssumption, ~MallocFails
    PROVE  Spec => ImplementsValues
<1>1. Init => RInv
  BY InitEstablishes
<1>2. RInv /\ [Next]_vars => RInv'
  BY StepKeeps
<1>3. Init => RingAbstraction!Init
  BY DEF Init, RingAbstraction!Init, RingAbstraction!None, Alive, NoObject
<1>4. RInv /\ [Next]_vars => [RingAbstraction!Next]_(RingAbstraction!vars)
  BY StepImplements
<1> QED BY <1>1, <1>2, <1>3, <1>4, PTL DEF Spec, ImplementsValues, RingAbstraction!Spec

===============================================================================
