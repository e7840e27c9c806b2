------------------------- MODULE KernelSemaphoreProofs -------------------------
(***************************************************************************)
(* For every platform, unit of time and timeout that the kernel can count: *)
(* a timed wait does not give up early, and the semaphore is the one that  *)
(* LightweightSemaphore needs.                                             *)
(***************************************************************************)
EXTENDS KernelSemaphore, TLAPS

-----------------------------------------------------------------------------
(***************************************************************************)
(* Quotients and residues, for the units of time.                          *)
(***************************************************************************)
\* x % n is a residue, and x differs from it by a multiple of n.
LEMMA ModRange ==
    ASSUME NEW x \in Int, NEW n \in Int, n > 0
    PROVE  /\ x % n \in 0 .. n - 1
           /\ \E q \in Int : x = n * q + (x % n)
<1>1. x % n \in 0 .. n - 1
  OBVIOUS
<1>2. \E q \in Int : x = n * q + (x % n)
  OBVIOUS
<1> QED BY <1>1, <1>2

\* A residue is its own residue.
LEMMA ModSmall ==
    ASSUME NEW n \in Int, n > 0, NEW r \in 0 .. n - 1
    PROVE  r % n = r
  OBVIOUS

\* A quotient and its residue.
LEMMA DivRange ==
    ASSUME NEW x \in Nat, NEW n \in Nat, n > 0
    PROVE  /\ x \div n \in Nat
           /\ x = n * (x \div n) + (x % n)
           /\ x \div n <= x
<1>1. x \div n \in Int /\ x % n \in 0 .. n - 1 /\ x = n * (x \div n) + (x % n)
  OBVIOUS
<1>2. PICK q \in Int : q = x \div n
  BY <1>1
<1>3. PICK r \in 0 .. n - 1 : r = x % n
  BY <1>1
<1>4. x = n * q + r
  BY <1>1, <1>2, <1>3
<1>5. q >= 0
  <2>1. CASE q <= -1
    <3>1. n * q <= n * (-1)
      BY <2>1
    <3> QED BY <3>1, <1>4
  <2> QED BY <2>1
<1>6. q <= x
  <2>1. n * q >= q
    BY <1>5
  <2> QED BY <2>1, <1>4
<1> QED BY <1>1, <1>2, <1>5, <1>6

\* The quotient is unique too.
LEMMA DivUnique ==
    ASSUME NEW n \in Nat, n > 0, NEW q \in Nat, NEW r \in 0 .. n - 1
    PROVE  (n * q + r) \div n = q
  OBVIOUS

\* Dividing twice is dividing by the product.
LEMMA DivDiv ==
    ASSUME NEW x \in Nat, NEW m \in Nat, m > 0, NEW n \in Nat, n > 0
    PROVE  (x \div m) \div n = x \div (m * n)
<1>1. PICK q \in Nat : q = x \div m
  BY DivRange
<1>2. PICK p \in Nat : p = q \div n
  BY DivRange
<1>3. PICK r \in 0 .. m - 1 : x = m * q + r
  BY <1>1, DivRange, ModRange
<1>4. PICK s \in 0 .. n - 1 : q = n * p + s
  BY <1>2, DivRange, ModRange
<1>5. x = (m * n) * p + (m * s + r)
  BY <1>3, <1>4
<1>6. m * n \in Nat /\ m * n > 0 /\ m * s + r \in Nat
  OBVIOUS
<1>7. m * s <= m * (n - 1)
  OBVIOUS
<1>8. m * s + r <= m * n - 1
  BY <1>7
<1>9. ((m * n) * p + (m * s + r)) \div (m * n) = p
  BY <1>6, <1>8, DivUnique
<1> QED BY <1>1, <1>2, <1>5, <1>9


\* The timeouts that are asked for fit the word that the kernel is given, in
\* milliseconds (the stream buffers wait for 1 at a time).
TimeoutsFit == \A u \in Requests : u \div UsecsPerMsec < TimeoutWord

\* The model's clocks do not stop before the last wait may be over.
ClocksLast ==
    /\ LastCall <= MaxTime
    /\ \A u \in Requests : u * NsecsPerUsec <= MaxTime - LastCall

-----------------------------------------------------------------------------
(***************************************************************************)
(* The inductive invariant.                                                *)
(***************************************************************************)
Clock == IF platform = "posix" THEN wall ELSE now

\* The time that must pass in a timed wait.
Due == Granted(usecs) * NsecsPerUsec

\* While it is blocked: what has passed and what the kernel's timer has left are
\* no less than that, by whatever clock the timer goes.
TimerHolds ==
    at = "blocked" /\ call = "timed_wait" /\ ~disturbed /\ until # Never
        => now - began + (until - Clock) >= Due \/ now - began >= Due

KInv ==
    /\ TypeOK
    /\ began <= now
    /\ TimerHolds
    /\ NotEarly

-----------------------------------------------------------------------------
(***************************************************************************)
(* The timeouts.                                                           *)
(***************************************************************************)
\* The units are positive.
LEMMA Units ==
    ASSUME KernelAssumption
    PROVE  /\ NsecsPerUsec \in Nat /\ NsecsPerUsec > 0
           /\ UsecsPerMsec \in Nat /\ UsecsPerMsec > 0
           /\ MsecsPerTick \in Nat /\ MsecsPerTick > 0
           /\ TimeoutWord \in Nat /\ TimeoutWord > 0
           /\ MaxToken \in Nat /\ MaxToken > 0
           /\ UsecsPerSec \in Nat /\ UsecsPerSec > 0
           /\ NsecsPerSec \in Nat /\ NsecsPerSec > 0
<1>1. MsecsPerSec \in Nat /\ MsecsPerSec > 0
  BY DEF KernelAssumption
<1>2. /\ NsecsPerUsec \in Nat /\ NsecsPerUsec > 0
      /\ UsecsPerMsec \in Nat /\ UsecsPerMsec > 0
      /\ MsecsPerTick \in Nat /\ MsecsPerTick > 0
      /\ TimeoutWord \in Nat /\ TimeoutWord > 0
      /\ MaxToken \in Nat /\ MaxToken > 0
  BY DEF KernelAssumption
<1>3. UsecsPerSec \in Nat /\ UsecsPerSec > 0
  BY <1>1, <1>2 DEF UsecsPerSec
<1>4. NsecsPerSec \in Nat /\ NsecsPerSec > 0
  BY <1>2, <1>3 DEF NsecsPerSec
<1> QED BY <1>2, <1>3, <1>4

TimeSpecs == [sec : Nat, nsec : 0 .. NsecsPerSec - 1]

\* Splitting a timeout into seconds and nanoseconds loses none of it.
LEMMA SplitExact ==
    ASSUME KernelAssumption, NEW u \in Nat
    PROVE  Split(u) \in TimeSpecs /\ Total(Split(u)) = u * NsecsPerUsec
<1>1. PICK N \in Nat : N = NsecsPerUsec /\ N > 0
  BY Units
<1>2. PICK S \in Nat : S = UsecsPerSec /\ S > 0
  BY Units
<1>3. PICK q \in Nat : q = u \div S
  BY <1>2, DivRange
<1>4. PICK r \in 0 .. S - 1 : r = u % S
  BY <1>2, ModRange
<1>5. u = S * q + r
  BY <1>2, <1>3, <1>4, DivRange
<1>6. NsecsPerSec = N * S
  BY <1>1, <1>2 DEF NsecsPerSec
<1>7. Split(u) = [sec |-> q, nsec |-> r * N]
  BY <1>1, <1>2, <1>3, <1>4 DEF Split
<1>8. r * N \in Nat /\ r * N <= (S - 1) * N
  BY <1>1, <1>2, <1>4
<1>9. (S - 1) * N <= N * S - 1
  BY <1>1, <1>2
<1>10. r * N \in 0 .. NsecsPerSec - 1
  BY <1>6, <1>8, <1>9
<1>11. q * (N * S) + r * N = u * N
  BY <1>5
<1>12. Total(Split(u)) = u * NsecsPerUsec
  BY <1>1, <1>6, <1>7, <1>11 DEF Total
<1> QED BY <1>7, <1>10, <1>12 DEF TimeSpecs

\* One carry suffices to add a timeout to a time.
LEMMA DeadlineExact ==
    ASSUME KernelAssumption, NEW t \in TimeSpecs, NEW d \in TimeSpecs
    PROVE  /\ Deadline(t, d) \in TimeSpecs
           /\ Total(Deadline(t, d)) = Total(t) + Total(d)
<1>1. PICK P \in Nat : P = NsecsPerSec /\ P > 0
  BY Units
<1>2. /\ t.sec \in Nat /\ t.nsec \in 0 .. P - 1
      /\ d.sec \in Nat /\ d.nsec \in 0 .. P - 1
  BY <1>1 DEF TimeSpecs
<1>3. CASE t.nsec + d.nsec >= P
  <2>1. Deadline(t, d) = [sec |-> t.sec + d.sec + 1, nsec |-> t.nsec + d.nsec - P]
    BY <1>1, <1>2, <1>3 DEF Deadline
  <2>2. t.nsec + d.nsec - P \in 0 .. P - 1
    BY <1>2, <1>3
  <2>3. (t.sec + d.sec + 1) * P + (t.nsec + d.nsec - P)
            = (t.sec * P + t.nsec) + (d.sec * P + d.nsec)
    BY <1>2
  <2> QED BY <1>1, <1>2, <2>1, <2>2, <2>3 DEF TimeSpecs, Total
<1>4. CASE ~(t.nsec + d.nsec >= P)
  <2>1. Deadline(t, d) = [sec |-> t.sec + d.sec, nsec |-> t.nsec + d.nsec]
    BY <1>1, <1>2, <1>4 DEF Deadline
  <2>2. t.nsec + d.nsec \in 0 .. P - 1
    BY <1>2, <1>4
  <2>3. (t.sec + d.sec) * P + (t.nsec + d.nsec)
            = (t.sec * P + t.nsec) + (d.sec * P + d.nsec)
    BY <1>2
  <2> QED BY <1>1, <1>2, <2>1, <2>2, <2>3 DEF TimeSpecs, Total
<1> QED BY <1>3, <1>4

\* What the kernel is given on Windows and FreeRTOS, where it fits, is the part of
\* the timeout that these can count.
LEMMA UnitsExact ==
    ASSUME KernelAssumption, NEW u \in Nat, u \div UsecsPerMsec < TimeoutWord
    PROVE  /\ Msecs(u) = u \div UsecsPerMsec
           /\ Ticks(u) = u \div (UsecsPerMsec * MsecsPerTick)
           /\ Msecs(u) \in Nat /\ Ticks(u) \in Nat
<1>1. PICK M \in Nat : M = UsecsPerMsec /\ M > 0
  BY Units
<1>2. PICK T \in Nat : T = MsecsPerTick /\ T > 0
  BY Units
<1>3. PICK W \in Nat : W = TimeoutWord /\ W > 0
  BY Units
<1>4. PICK q \in Nat : q = u \div M
  BY <1>1, DivRange
<1>5. PICK p \in Nat : p = q \div T /\ p <= q
  BY <1>2, <1>4, DivRange
<1>6. q \in 0 .. W - 1 /\ p \in 0 .. W - 1
  BY <1>1, <1>3, <1>4, <1>5
<1>7. q % W = q /\ p % W = p
  BY <1>3, <1>6, ModSmall
<1>8. p = u \div (M * T)
  BY <1>1, <1>2, <1>4, <1>5, DivDiv
<1>9. Msecs(u) = q
  BY <1>1, <1>3, <1>4, <1>7 DEF Msecs
<1>10. Ticks(u) = p
  BY <1>1, <1>2, <1>3, <1>4, <1>5, <1>7 DEF Ticks
<1> QED BY <1>1, <1>2, <1>4, <1>8, <1>9, <1>10

\* What a platform can count of a timeout is no more than the timeout.
LEMMA GrantedIs ==
    ASSUME KernelAssumption, platform \in Platforms, NEW u \in Nat
    PROVE  /\ Granted(u) \in Nat /\ Granted(u) <= u
           /\ platform \in {"posix", "mach"} => Granted(u) = u
           /\ platform = "windows" =>
                Granted(u) * NsecsPerUsec = (u \div UsecsPerMsec) * NsecsPerMsec
           /\ platform = "freertos" =>
                Granted(u) * NsecsPerUsec =
                    (u \div (UsecsPerMsec * MsecsPerTick)) * (NsecsPerMsec * MsecsPerTick)
<1>1. PICK N \in Nat : N = NsecsPerUsec /\ N > 0
  BY Units
<1>2. PICK M \in Nat : M = UsecsPerMsec /\ M > 0
  BY Units
<1>3. PICK T \in Nat : T = MsecsPerTick /\ T > 0
  BY Units
<1>4. NsecsPerMsec = N * M
  BY <1>1, <1>2 DEF NsecsPerMsec
<1>5. CASE platform = "windows"
  <2>1. PICK q \in Nat : q = u \div M
    BY <1>2, DivRange
  <2>2. PICK r \in 0 .. M - 1 : u = M * q + r
    BY <1>2, <2>1, DivRange, ModRange
  <2>3. Granted(u) = q * M
    BY <1>2, <1>5, <2>1 DEF Granted
  <2>4. (q * M) * N = q * (N * M) /\ q * M \in Nat /\ q * M <= u
    BY <2>2
  <2> QED BY <1>1, <1>2, <1>4, <1>5, <2>1, <2>3, <2>4
<1>6. CASE platform = "freertos"
  <2>1. M * T \in Nat /\ M * T > 0
    BY <1>2, <1>3
  <2>2. PICK q \in Nat : q = u \div (M * T)
    BY <2>1, DivRange
  <2>3. PICK r \in 0 .. M * T - 1 : u = (M * T) * q + r
    BY <2>1, <2>2, DivRange, ModRange
  <2>4. Granted(u) = q * M * T
    BY <1>2, <1>3, <1>6, <2>2 DEF Granted
  <2>5. (q * M * T) * N = q * (N * M * T) /\ q * M * T \in Nat /\ q * M * T <= u
    BY <2>3
  <2> QED BY <1>1, <1>2, <1>3, <1>4, <1>6, <2>2, <2>4, <2>5
<1>7. CASE platform \in {"posix", "mach"}
  BY <1>7 DEF Granted
<1> QED BY <1>5, <1>6, <1>7 DEF KernelAssumption

\* The argument of the call: one of the requests, or none.
LEMMA UsecsFit ==
    ASSUME KernelAssumption, TimeoutsFit, TypeOK
    PROVE  usecs \in Nat /\ usecs \div UsecsPerMsec < TimeoutWord
<1>1. 0 \div UsecsPerMsec = 0
  BY Units
<1> QED BY <1>1, Units DEF KernelAssumption, TimeoutsFit, TypeOK

\* Arming sets the kernel's timer to what is due, on the clock that it goes by.
LEMMA ArmTimedSets ==
    ASSUME KernelAssumption, TimeoutsFit, TypeOK, ArmTimed
    PROVE  /\ ts' \in TimeSpecs /\ until' \in Nat \cup {Never}
           /\ until' # Never => until' - Clock >= Due
<1>1. PICK N \in Nat : N = NsecsPerUsec /\ N > 0
  BY Units
<1>2. PICK u \in Nat : u = usecs /\ u \div UsecsPerMsec < TimeoutWord
  BY UsecsFit
<1>3. now \in Nat /\ wall \in Nat /\ ts \in TimeSpecs
  BY DEF TypeOK, TimeSpecs
<1>4. Split(u) \in TimeSpecs /\ Total(Split(u)) = u * N
  BY <1>1, SplitExact
<1>5. platform \in Platforms
  BY DEF TypeOK
<1>6. CASE ArmPosix
  <2>1. WallTime \in TimeSpecs /\ Total(WallTime) = wall
    <3>1. PICK P \in Nat : P = NsecsPerSec /\ P > 0
      BY Units
    <3>2. PICK q \in Nat : q = wall \div P
      BY <1>3, <3>1, DivRange
    <3>3. PICK r \in 0 .. P - 1 : r = wall % P
      BY <1>3, <3>1, ModRange
    <3>4. wall = q * P + r
      BY <1>3, <3>1, <3>2, <3>3, DivRange
    <3>5. WallTime = [sec |-> q, nsec |-> r]
      BY <3>1, <3>2, <3>3 DEF WallTime
    <3> QED BY <3>1, <3>4, <3>5 DEF TimeSpecs, Total
  <2>2. /\ Deadline(WallTime, Split(u)) \in TimeSpecs
        /\ Total(Deadline(WallTime, Split(u))) = wall + u * N
    BY <1>4, <2>1, DeadlineExact
  <2>3. ts' \in TimeSpecs /\ until' = wall + u * N
    BY <1>2, <1>6, <2>2 DEF ArmPosix, Total
  <2>4. Due = u * N /\ Clock = wall
    BY <1>1, <1>2, <1>5, <1>6, GrantedIs DEF Due, Clock, ArmPosix
  <2>5. u * N \in Nat
    OBVIOUS
  <2> QED BY <1>3, <2>3, <2>4, <2>5
<1>7. CASE ArmMach
  <2>1. ts' \in TimeSpecs /\ until' = now + u * N
    BY <1>2, <1>4, <1>7 DEF ArmMach, Total
  <2>2. Due = u * N /\ Clock = now
    BY <1>1, <1>2, <1>5, <1>7, GrantedIs DEF Due, Clock, ArmMach
  <2>3. u * N \in Nat
    OBVIOUS
  <2> QED BY <1>3, <2>1, <2>2, <2>3
<1>8. CASE ArmWindows
  <2>1. PICK m \in Nat : m = Msecs(u) /\ m = u \div UsecsPerMsec
    BY <1>2, UnitsExact
  <2>2. PICK n \in Nat : n = NsecsPerMsec
    BY Units DEF NsecsPerMsec
  <2>3. ts' \in TimeSpecs /\ until' \in {Never, now + m * n}
    BY <1>2, <1>3, <1>8, <2>1, <2>2 DEF ArmWindows, EndOf
  <2>4. Due = m * n /\ Clock = now
    BY <1>2, <1>5, <1>8, <2>1, <2>2, GrantedIs DEF Due, Clock, ArmWindows
  <2>5. m * n \in Nat
    OBVIOUS
  <2> QED BY <1>3, <2>3, <2>4, <2>5
<1>9. CASE ArmFreeRTOS
  <2>1. PICK m \in Nat : m = Ticks(u) /\ m = u \div (UsecsPerMsec * MsecsPerTick)
    BY <1>2, UnitsExact
  <2>2. PICK n \in Nat : n = NsecsPerMsec * MsecsPerTick
    BY Units DEF NsecsPerMsec
  <2>3. ts' \in TimeSpecs /\ until' \in {Never, now + m * n}
    BY <1>2, <1>3, <1>9, <2>1, <2>2 DEF ArmFreeRTOS, EndOf
  <2>4. Due = m * n /\ Clock = now
    BY <1>2, <1>5, <1>9, <2>1, <2>2, GrantedIs DEF Due, Clock, ArmFreeRTOS
  <2>5. m * n \in Nat
    OBVIOUS
  <2> QED BY <1>3, <2>3, <2>4, <2>5
<1> QED BY <1>6, <1>7, <1>8, <1>9 DEF ArmTimed

\* What is due fits between the last call and the end of the model's time.
LEMMA DueFits ==
    ASSUME KernelAssumption, ClocksLast, TypeOK
    PROVE  Due \in Nat /\ Due <= MaxTime - LastCall
<1>1. PICK N \in Nat : N = NsecsPerUsec /\ N > 0
  BY Units
<1>2. PICK u \in Nat : u = usecs
  BY DEF TypeOK, KernelAssumption
<1>3. PICK g \in Nat : g = Granted(u) /\ g <= u
  BY GrantedIs DEF TypeOK
<1>4. Due = g * N
  BY <1>1, <1>2, <1>3 DEF Due
<1>5. g * N \in Nat /\ g * N <= u * N
  BY <1>3
<1>6. LastCall \in Nat /\ MaxTime \in Nat
  BY DEF KernelAssumption
<1>7. u * N <= MaxTime - LastCall
  <2>1. CASE u = 0
    BY <2>1, <1>6 DEF ClocksLast
  <2>2. CASE u \in Requests
    BY <1>1, <2>2 DEF ClocksLast
  <2> QED BY <1>2, <2>1, <2>2 DEF TypeOK
<1>8. PICK k \in Nat : k = u * N
  OBVIOUS
<1> QED BY <1>4, <1>5, <1>6, <1>7, <1>8

-----------------------------------------------------------------------------
(***************************************************************************)
(* The steps.                                                              *)
(***************************************************************************)
\* The numbers among the constants.
LEMMA Bounds ==
    ASSUME KernelAssumption, ClocksLast
    PROVE  /\ LastCall \in Nat /\ MaxTime \in Nat /\ ClockSets \in Nat /\ MaxToken \in Nat
           /\ LastCall <= MaxTime /\ Requests \subseteq Nat
  BY DEF KernelAssumption, ClocksLast

\* The waiter's steps keep the types.
LEMMA WaiterTyped ==
    ASSUME KernelAssumption, TimeoutsFit, ClocksLast, TypeOK, WaiterStep \/ Return
    PROVE  TypeOK'
<1>1. CASE Arm
  <2>1. until' \in Nat \cup {Never}
    BY <1>1, Bounds DEF Arm, TypeOK
  <2> QED BY <1>1, <2>1 DEF Arm, clocks, TypeOK
<1>2. CASE ArmTimed
  <2>1. ts' \in TimeSpecs /\ until' \in Nat \cup {Never}
    BY <1>2, ArmTimedSets
  <2> QED BY <1>2, <2>1 DEF ArmTimed, clocks, TypeOK, TimeSpecs
<1>3. CASE Take
  BY <1>3, Bounds DEF Take, clocks, TypeOK
<1>4. CASE TimeOut \/ Interrupt
  BY <1>4 DEF TimeOut, Interrupt, clocks, TypeOK
<1>5. CASE Return
  <2>1. NoTime \in TimeSpecs
    BY Units DEF NoTime, TimeSpecs
  <2>2. ts' \in TimeSpecs /\ until' \in Nat \cup {Never}
    BY <1>5, <2>1 DEF Return
  <2>3. began' \in 0 .. LastCall /\ usecs' \in Requests \cup {0}
    BY <1>5, Bounds DEF Return
  <2>4. at' = "idle" /\ disturbed' \in BOOLEAN
    BY <1>5 DEF Return
  <2>5. UNCHANGED <<platform, now, wall, sets, value, owed, call>>
    BY <1>5 DEF Return, clocks
  <2> QED BY <2>2, <2>3, <2>4, <2>5 DEF TypeOK, TimeSpecs
<1> QED BY <1>1, <1>2, <1>3, <1>4, <1>5 DEF WaiterStep

\* So do the others.
LEMMA TypeKept ==
    ASSUME KernelAssumption, TimeoutsFit, ClocksLast, TypeOK, [Next]_vars
    PROVE  TypeOK'
<1> USE Bounds
<1>1. CASE UNCHANGED vars \/ Over
  BY <1>1 DEF vars, clocks, waiter, Over, TypeOK
<1>2. ASSUME NEW c \in {"wait", "try_wait", "timed_wait"}, NEW u \in Requests \cup {0},
             Begin(c, u)
      PROVE  TypeOK'
  BY <1>2 DEF Begin, clocks, TypeOK
<1>3. CASE WaiterStep \/ Return
  BY <1>3, WaiterTyped
<1>4. ASSUME NEW n \in 1 .. MaxToken, Signal(n)
      PROVE  TypeOK'
  BY <1>4 DEF Signal, clocks, waiter, TypeOK
<1>5. CASE Post
  <2>1. value' \in 0 .. MaxToken /\ owed' \in 0 .. MaxToken + 1
    BY <1>5 DEF Post, TypeOK
  <2> QED BY <1>5, <2>1 DEF Post, clocks, waiter, TypeOK
<1>6. CASE Tick
  BY <1>6 DEF Tick, Later, waiter, TypeOK
<1>7. ASSUME NEW t \in 0 .. LastCall, SetClock(t)
      PROVE  TypeOK'
  BY <1>7 DEF SetClock, TypeOK
<1> QED BY <1>1, <1>2, <1>3, <1>4, <1>5, <1>6, <1>7 DEF Next

\* What is due does not change while the call lasts.
LEMMA DueKept ==
    ASSUME UNCHANGED <<platform, usecs>>
    PROVE  Due' = Due
  BY DEF Due, Granted

\* The kernel gives up only when its timer has run down, so enough time has passed.
LEMMA WaiterSleeps ==
    ASSUME KernelAssumption, TimeoutsFit, ClocksLast, KInv, WaiterStep \/ Return
    PROVE  (began <= now /\ TimerHolds /\ NotEarly)'
<1> USE DEF KInv
<1>1. /\ now \in Nat /\ began \in Nat /\ wall \in Nat /\ Due \in Nat
      /\ until \in Nat \cup {Never}
  BY DueFits, Bounds DEF TypeOK
<1>2. CASE Arm
  BY <1>2 DEF Arm, clocks, TimerHolds, NotEarly
<1>3. CASE ArmTimed
  <2>1. until' # Never => until' - Clock >= Due
    BY <1>3, ArmTimedSets
  <2>2. /\ UNCHANGED <<platform, now, wall, began, usecs>> /\ at' = "blocked"
        /\ until' \in Nat \cup {Never}
    BY <1>3, ArmTimedSets DEF ArmTimed, clocks
  <2>3. Clock' = Clock /\ Due' = Due /\ Clock \in Nat
    BY <1>1, <2>2, DueKept DEF Clock
  <2>4. ASSUME until' # Never
        PROVE  now' - began' + (until' - Clock') >= Due'
    <3>1. PICK d \in Nat : d = Due
      BY <1>1
    <3>2. PICK c \in Nat : c = Clock
      BY <2>3
    <3>3. PICK e \in Nat : e = until' /\ e - c >= d
      BY <2>1, <2>2, <2>4, <3>1, <3>2
    <3>4. now - began + (e - c) >= d
      <4>1. PICK n \in Nat : n = now - began
        BY <1>1
      <4>2. e - c >= d
        BY <3>3
      <4>3. n + (e - c) >= d
        BY <4>2
      <4> QED BY <4>1, <4>3
    <3> QED BY <2>2, <2>3, <3>1, <3>2, <3>3, <3>4
  <2>5. TimerHolds'
    BY <2>4 DEF TimerHolds
  <2> QED BY <1>1, <2>2, <2>5 DEF NotEarly
<1>4. CASE Take
  BY <1>4 DEF Take, clocks, TimerHolds, NotEarly
<1>5. CASE TimeOut
  <2>1. /\ UNCHANGED <<platform, now, wall, began, usecs, call, until, disturbed>>
        /\ at = "blocked" /\ at' = "false" /\ Expired
    BY <1>5 DEF TimeOut, clocks
  <2>2. until # Never /\ until <= Clock /\ Clock \in Nat
    BY <1>1, <2>1 DEF Expired, Clock
  <2>3. call = "timed_wait" /\ ~disturbed => now - began >= Due
    BY <1>1, <2>1, <2>2 DEF TimerHolds
  <2>4. Due' = Due /\ Due' = (Granted(usecs) * NsecsPerUsec)'
    BY <2>1, DueKept DEF Due
  <2> QED BY <1>1, <2>1, <2>3, <2>4 DEF TimerHolds, NotEarly
<1>6. CASE Interrupt
  BY <1>6 DEF Interrupt, clocks, TimerHolds, NotEarly
<1>7. CASE Return
  BY <1>1, <1>7 DEF Return, clocks, TimerHolds, NotEarly
<1> QED BY <1>2, <1>3, <1>4, <1>5, <1>6, <1>7 DEF WaiterStep

\* The clock by which time passes, and the one that may be set, run alike, but
\* for the settings; one that is set forward is marked.
LEMMA ClocksSleep ==
    ASSUME KernelAssumption, ClocksLast, KInv,
           Tick \/ (\E t \in 0 .. LastCall : SetClock(t))
    PROVE  (began <= now /\ TimerHolds /\ NotEarly)'
<1> USE DEF KInv
<1>1. /\ now \in 0 .. MaxTime /\ wall \in 0 .. MaxTime /\ began \in 0 .. LastCall
      /\ Due \in Nat /\ Due <= MaxTime - LastCall
      /\ until \in Nat \cup {Never}
      /\ MaxTime \in Nat /\ LastCall \in Nat
  BY DueFits, Bounds DEF TypeOK
<1>2. Due = Granted(usecs) * NsecsPerUsec /\ Due' = (Granted(usecs) * NsecsPerUsec)'
  BY DEF Due
<1>3. Due' = Due
  BY DueKept DEF Tick, SetClock, waiter
<1>4. CASE Tick
  <2>1. /\ UNCHANGED <<platform, began, usecs, call, until, disturbed, at>>
        /\ now' = Later(now) /\ wall' = Later(wall)
    BY <1>4 DEF Tick, waiter
  <2>2. now' >= now /\ now' \in Nat /\ now' <= MaxTime
    BY <1>1, <2>1 DEF Later
  <2>3. Clock \in Nat /\ Clock' \in Nat
    BY <1>1, <2>1 DEF Clock, Later
  <2>4. now' - Clock' >= now - Clock \/ now' = MaxTime
    BY <1>1, <2>1 DEF Clock, Later
  <2>5. now' = MaxTime => now' - began' >= Due'
    BY <1>1, <1>3, <2>1
  <2>6. TimerHolds'
    BY <1>1, <1>3, <2>1, <2>2, <2>3, <2>4, <2>5 DEF TimerHolds
  <2>7. NotEarly'
    BY <1>1, <1>2, <1>3, <2>1, <2>2 DEF NotEarly
  <2> QED BY <1>1, <2>1, <2>2, <2>6, <2>7
<1>5. ASSUME NEW t \in 0 .. LastCall, SetClock(t)
      PROVE  (began <= now /\ TimerHolds /\ NotEarly)'
  <2>1. /\ UNCHANGED <<platform, now, began, usecs, call, until, at>>
        /\ wall' = t /\ t \in Nat
    BY <1>1, <1>5 DEF SetClock
  <2>2. at # "idle" /\ ~disturbed' => ~disturbed /\ ~(t > wall)
    <3>1. disturbed' = (at # "idle" /\ (disturbed \/ t > wall))
      BY <1>5 DEF SetClock
    <3> QED BY <3>1, Zenon
  <2>3. Clock \in Nat /\ Clock' \in Nat /\ (~(t > wall) => Clock' <= Clock)
    BY <1>1, <2>1 DEF Clock
  <2>4. ASSUME at = "blocked", call = "timed_wait", ~disturbed', until # Never
        PROVE  now - began + (until - Clock') >= Due \/ now - began >= Due
    <3>1. ~disturbed /\ Clock' <= Clock
      BY <2>2, <2>3, <2>4
    <3>2. now - began + (until - Clock) >= Due \/ now - began >= Due
      BY <2>4, <3>1 DEF TimerHolds
    <3>3. PICK d \in Nat : d = Due
      BY <1>1
    <3>4. PICK c \in Nat : c = Clock
      BY <2>3
    <3>5. PICK k \in Nat : k = Clock' /\ k <= c
      BY <2>3, <3>1, <3>4
    <3>6. PICK e \in Nat : e = until
      BY <1>1, <2>4
    <3>7. now - began + (e - k) >= d \/ now - began >= d
      <4>1. PICK n \in Nat : n = now - began
        BY <1>1
      <4>2. n + (e - c) >= d \/ n >= d
        BY <3>2, <3>3, <3>4, <3>6, <4>1
      <4> QED BY <3>5, <4>1, <4>2
    <3> QED BY <3>3, <3>5, <3>6, <3>7
  <2>5. TimerHolds'
    BY <1>3, <2>1, <2>4 DEF TimerHolds
  <2>6. NotEarly'
    BY <1>2, <1>3, <2>1, <2>2 DEF NotEarly
  <2> QED BY <1>1, <2>1, <2>5, <2>6
<1> QED BY <1>4, <1>5

\* Every step keeps the invariant.
LEMMA StepKeeps ==
    ASSUME KernelAssumption, TimeoutsFit, ClocksLast, KInv, [Next]_vars
    PROVE  KInv'
<1>1. TypeOK'
  BY TypeKept DEF KInv
<1>2. CASE WaiterStep \/ Return
  BY <1>1, <1>2, WaiterSleeps DEF KInv
<1>3. CASE Tick \/ (\E t \in 0 .. LastCall : SetClock(t))
  BY <1>1, <1>3, ClocksSleep DEF KInv
<1>4. ASSUME NEW c, NEW u, Begin(c, u)
      PROVE  KInv'
  <2>1. began' = now /\ now' = now /\ at' = "armed"
    BY <1>4 DEF Begin, clocks
  <2>2. now \in Int
    BY Bounds DEF KInv, TypeOK
  <2> QED BY <1>1, <2>1, <2>2 DEF KInv, TimerHolds, NotEarly
<1>5. CASE UNCHANGED <<platform, clocks, waiter>>
  <2>1. UNCHANGED <<platform, now, wall, at, call, usecs, began, until, disturbed>>
    BY <1>5 DEF clocks, waiter
  <2>2. Due' = Due /\ Clock' = Clock
    BY <2>1, DueKept DEF Clock
  <2>3. NotEarly'
    BY <2>1, <2>2 DEF NotEarly, KInv, Due
  <2> QED BY <1>1, <2>1, <2>2, <2>3 DEF KInv, TimerHolds
<1> QED BY <1>2, <1>3, <1>4, <1>5 DEF Next, Signal, Post, Over, vars

\* It holds at the start.
LEMMA InitEstablishes ==
    ASSUME KernelAssumption, ClocksLast, Init
    PROVE  KInv
<1>1. NoTime \in TimeSpecs
  BY Units DEF NoTime, TimeSpecs
<1>2. TypeOK
  <2>1. ts \in TimeSpecs /\ until \in Nat \cup {Never}
    BY <1>1 DEF Init
  <2>2. /\ {now, wall} \subseteq 0 .. MaxTime /\ sets \in 0 .. ClockSets
        /\ value \in 0 .. MaxToken /\ owed \in 0 .. MaxToken + 1
        /\ began \in 0 .. LastCall /\ usecs \in Requests \cup {0}
    BY Bounds DEF Init
  <2>3. disturbed \in BOOLEAN
    BY DEF Init
  <2> QED BY <2>1, <2>2, <2>3 DEF Init, TypeOK, TimeSpecs
<1> QED BY <1>2 DEF Init, KInv, TimerHolds, NotEarly

\* The types, and: on every platform, a timed wait that nothing disturbed returns
\* false only after as much time as the platform can count of its timeout.
THEOREM TimedWaitNotEarly ==
    ASSUME KernelAssumption, TimeoutsFit, ClocksLast
    PROVE  Spec => [](TypeOK /\ NotEarly)
<1>1. Init => KInv
  BY InitEstablishes
<1>2. KInv /\ [Next]_vars => KInv'
  BY StepKeeps
<1>3. KInv => TypeOK /\ NotEarly
  BY DEF KInv
<1> QED BY <1>1, <1>2, <1>3, PTL DEF Spec

-----------------------------------------------------------------------------
(***************************************************************************)
(* The contract.                                                           *)
(***************************************************************************)
\* A wait without a timeout has no timer, whatever timeouts were asked for before.
Untimed ==
    /\ value \in Nat /\ owed \in Nat
    /\ at = "blocked" /\ call = "wait" => until = Never

\* Every step keeps that.
LEMMA UntimedKept ==
    ASSUME KernelAssumption, Untimed, [Next]_vars
    PROVE  Untimed'
<1> USE DEF Untimed
<1>1. CASE UNCHANGED vars \/ Over
  BY <1>1 DEF vars, waiter, Over
<1>2. ASSUME NEW c, NEW u, Begin(c, u)
      PROVE  Untimed'
  BY <1>2 DEF Begin
<1>3. CASE Arm
  BY <1>3 DEF Arm
<1>4. CASE ArmTimed
  BY <1>4 DEF ArmTimed
<1>5. CASE Take
  BY <1>5 DEF Take
<1>6. CASE TimeOut \/ Interrupt \/ Return
  BY <1>6 DEF TimeOut, Interrupt, Return
<1>7. ASSUME NEW n \in 1 .. MaxToken, Signal(n)
      PROVE  Untimed'
  BY <1>7, Units DEF Signal, waiter
<1>8. CASE Post
  <2>1. value' \in Nat /\ owed' \in Nat
    BY <1>8 DEF Post
  <2> QED BY <1>8, <2>1 DEF Post, waiter
<1>9. CASE Tick
  BY <1>9 DEF Tick, waiter
<1>10. ASSUME NEW t, SetClock(t)
       PROVE  Untimed'
  BY <1>10 DEF SetClock
<1> QED BY <1>1, <1>2, <1>3, <1>4, <1>5, <1>6, <1>7, <1>8, <1>9, <1>10
        DEF Next, WaiterStep

\* Each step of a platform's semaphore is one of the contract's, or none.
LEMMA StepImplements ==
    ASSUME KernelAssumption, Untimed, [Next]_vars
    PROVE  [Contract!Next]_Contract!vars
<1> USE DEF Contract!Next, Contract!vars, Contract!waiter
<1>1. CASE UNCHANGED <<platform, value, owed, at, call>>
  BY <1>1
<1>2. ASSUME NEW c \in {"wait", "try_wait", "timed_wait"}, NEW u, Begin(c, u)
      PROVE  Contract!Next
  BY <1>2 DEF Begin, Contract!Call
<1>3. CASE Arm \/ ArmTimed
  BY <1>3 DEF Arm, ArmTimed
<1>4. CASE Take
  BY <1>4 DEF Take, Contract!Take
<1>5. CASE TimeOut
  <2>1. call # "wait"
    BY <1>5 DEF TimeOut, Expired, Untimed
  <2> QED BY <1>5, <2>1 DEF TimeOut, Contract!Fail
<1>6. CASE Interrupt
  BY <1>6 DEF Interrupt, InterruptedFails, Contract!Fail
<1>7. CASE Return
  BY <1>7 DEF Return, Contract!Return
<1>8. CASE Post
  <2>1. UNCHANGED <<platform, at, call>>
    BY <1>8 DEF Post, waiter
  <2>2. PICK n \in Nat : /\ n > 0 /\ n <= owed /\ owed' = owed - n
                         /\ n = 1 \/ platform = "windows"
                         /\ \/ value + n <= MaxToken /\ value' = value + n
                            \/ value = MaxToken /\ platform = "freertos" /\ value' = value
    BY <1>8 DEF Post, Untimed
  <2>3. CASE value + n <= MaxToken /\ value' = value + n
    <3>1. owed' \in 0 .. owed - 1 /\ value' = value + (owed - owed') /\ value' <= MaxToken
      BY <2>2, <2>3 DEF Untimed
    <3> QED BY <2>1, <3>1 DEF Contract!Post
  <2>4. CASE value = MaxToken /\ platform = "freertos" /\ value' = value
    <3>1. owed > 0 /\ owed' = owed - 1
      BY <2>2, <2>4 DEF Untimed
    <3> QED BY <2>1, <2>4, <3>1 DEF Contract!Lose
  <2> QED BY <2>2, <2>3, <2>4
<1>9. ASSUME NEW n \in 1 .. MaxToken, Signal(n)
      PROVE  Contract!Next
  <2>1. owed = 0 /\ owed' \in Nat \ {0} /\ UNCHANGED <<platform, value, at, call>>
    BY <1>9, Units DEF Signal, waiter
  <2> QED BY <2>1 DEF Contract!Signal
<1>10. ASSUME NEW t, Tick \/ SetClock(t)
       PROVE  UNCHANGED <<platform, value, owed, at, call>>
  BY <1>10 DEF Tick, SetClock, waiter
<1> QED BY <1>1, <1>2, <1>3, <1>4, <1>5, <1>6, <1>7, <1>8, <1>9, <1>10
        DEF Next, WaiterStep, Over, vars, waiter

\* On every platform, with any constants: a signal posts as many tokens as it is asked
\* to but for what FreeRTOS loses, tokens are taken once, and a wait fails
\* only with a deadline, or where the kernel can interrupt it.
THEOREM KernelImplements ==
    ASSUME KernelAssumption
    PROVE  Spec => ImplementsContract
<1>1. Init => Untimed
  BY DEF Init, Untimed
<1>2. Untimed /\ [Next]_vars => Untimed'
  BY UntimedKept
<1>3. Init => Contract!Init
  BY DEF Init, Contract!Init
<1>4. Untimed /\ [Next]_vars => [Contract!Next]_Contract!vars
  BY StepImplements
<1> QED BY <1>1, <1>2, <1>3, <1>4, PTL DEF Spec, ImplementsContract, Contract!Spec

===============================================================================
