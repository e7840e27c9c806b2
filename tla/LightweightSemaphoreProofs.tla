---------------------- MODULE LightweightSemaphoreProofs ----------------------
(***************************************************************************)
(* For every initial count, spin limit and set of positive signal counts:  *)
(* the semaphore's invariants hold and it implements CountingSemaphore.    *)
(***************************************************************************)
EXTENDS LightweightSemaphore, TLAPS

\* m_count is -1 only for a registered waiter, and never lower.
CountBounded ==
    /\ sem.count >= -1
    /\ ~Registered => sem.count >= 0

\* The waiter's view never runs ahead of the count, so a positive load and a
\* restored count that was not negative stay positive.
ViewBehind ==
    /\ sem.view <= sem.count
    /\ sem.at = "take" => sem.view > 0
    /\ sem.at = "retake" => sem.count > 0

\* The inductive invariant.
IInv ==
    /\ TypeOK
    /\ CountBounded
    /\ ViewBehind
    /\ ExactlyOneToken

-----------------------------------------------------------------------------
\* The spin counter starts and stays in its range.
LEMMA SpinRange ==
    /\ SpinLimit \in 0..SpinLimit
    /\ 0 \in 0..SpinLimit
    /\ \A s \in 0..SpinLimit : s > 0 => s - 1 \in 0..SpinLimit
  BY SemaphoreAssumption DEF SemaphoreAssumption

\* Each step keeps the semaphore a record of its type.
LEMMA TypeStep ==
    ASSUME TypeOK, [Next]_sem
    PROVE  TypeOK'
<1> USE SpinRange DEF TypeOK
<1>1. /\ sem.count - 1 \in Int
      /\ sem.count + 1 \in Int
      /\ sem.kernel + 1 \in Nat
      /\ sem.kernel > 0 => sem.kernel - 1 \in Nat
      /\ Visible \subseteq Int
      /\ sem.spin > 0 => sem.spin - 1 \in 0..SpinLimit
  BY DEF Visible
<1>2. ASSUME NEW m \in Modes, Call(m) PROVE TypeOK'
  BY <1>2 DEF Call, Points
<1>3. CASE TryLoad
  <2>1. PICK v \in Visible :
           sem' = [sem EXCEPT !.view = v, !.spin = SpinLimit,
                              !.at = AfterTryLoad(v)]
    BY <1>3 DEF TryLoad
  <2>2. AfterTryLoad(v) \in Points
    BY DEF AfterTryLoad, Points
  <2> QED BY <1>1, <2>1, <2>2
<1>4. CASE Take
  BY <1>1, <1>4 DEF Take, Points
<1>5. CASE SpinLoad
  <2>1. PICK v \in Visible :
           sem' = [sem EXCEPT !.view = v, !.spin = @ - 1,
                              !.at = IF v > 0 THEN "take" ELSE "spin"]
    BY <1>5 DEF SpinLoad
  <2>2. (IF v > 0 THEN "take" ELSE "spin") \in Points
    BY DEF Points
  <2>3. sem.spin > 0
    BY <1>5 DEF SpinLoad
  <2> QED BY <1>1, <2>1, <2>2, <2>3
<1>6. CASE Register
  <2>1. AfterRegister \in Points
    BY DEF AfterRegister, Points
  <2> QED BY <1>1, <1>6, <2>1 DEF Register
<1>7. CASE KernelWake
  BY <1>1, <1>7 DEF KernelWake, Points
<1>8. CASE KernelGiveUp
  BY <1>8 DEF KernelGiveUp, Points
<1>9. CASE Restore
  BY <1>1, <1>9 DEF Restore, Points
<1>10. CASE Retake
  BY <1>1, <1>10 DEF Retake, Points
<1>11. CASE TrySema
  BY <1>1, <1>11 DEF TrySema, Points
<1>12. CASE Return
  BY <1>12 DEF Return, Points
<1>13. ASSUME NEW n \in SignalCounts, Signal(n) PROVE TypeOK'
  <2>1. sem.count + n \in Int
    BY SemaphoreAssumption DEF SemaphoreAssumption
  <2> QED BY <1>13, <2>1 DEF Signal, Owes
<1>14. CASE Post
  BY <1>1, <1>14 DEF Post
<1>15. CASE UNCHANGED sem
  BY <1>15
<1> QED
  BY <1>2, <1>3, <1>4, <1>5, <1>6, <1>7, <1>8, <1>9, <1>10, <1>11, <1>12,
     <1>13, <1>14, <1>15 DEF Next, WaiterStep

-----------------------------------------------------------------------------
\* The invariant holds at the start.
LEMMA InitEstablishes == Init => IInv
  BY SpinRange, SemaphoreAssumption
  DEF Init, IInv, TypeOK, CountBounded, ViewBehind, ExactlyOneToken, Registered,
      TokenOwed, Points, Modes, SemaphoreAssumption

\* Every step of either thread preserves the inductive invariant, provided
\* that signal() is never called with 0.
LEMMA NextPreserves ==
    ASSUME 0 \notin SignalCounts, IInv, [Next]_sem
    PROVE  IInv'
<1>1. TypeOK'
  BY TypeStep DEF IInv
<1>2. CountBounded' /\ ViewBehind' /\ ExactlyOneToken'
  <2> USE DEF IInv, TypeOK, CountBounded, ViewBehind, ExactlyOneToken,
              Registered, TokenOwed
  <2>1. ASSUME NEW m \in Modes, Call(m) 
         PROVE  CountBounded' /\ ViewBehind' /\ ExactlyOneToken'
    BY <2>1 DEF Call
  <2>2. CASE TryLoad
    BY <2>2 DEF TryLoad, Visible, AfterTryLoad
  <2>3. CASE Take
    BY <2>3 DEF Take
  <2>4. CASE SpinLoad
    BY <2>4 DEF SpinLoad, Visible
  <2>5. CASE Register
    BY <2>5 DEF Register, AfterRegister
  <2>6. CASE KernelWake
    BY <2>6 DEF KernelWake
  <2>7. CASE KernelGiveUp
    BY <2>7 DEF KernelGiveUp
  <2>8. CASE Restore
    BY <2>8 DEF Restore
  <2>9. CASE Retake
    BY <2>9 DEF Retake
  <2>10. CASE TrySema
    <3>1. CASE sem.kernel > 0
      <4>1. /\ sem.at = "trysema"
            /\ sem' = [sem EXCEPT !.kernel = @ - 1, !.at = "acquired"]
        BY <2>10, <3>1 DEF TrySema
      <4> QED BY <3>1, <4>1
    <3>2. CASE sem.kernel = 0
      BY <2>10, <3>2 DEF TrySema
    <3> QED BY <3>1, <3>2
  <2>11. CASE Return
    BY <2>11 DEF Return
  <2>12. ASSUME NEW n \in SignalCounts, Signal(n)
         PROVE  CountBounded' /\ ViewBehind' /\ ExactlyOneToken'
    <3>1. n \in Nat /\ n > 0
      BY SemaphoreAssumption DEF SemaphoreAssumption
    <3> QED BY <2>12, <3>1 DEF Signal, Owes
  <2>13. CASE Post
    BY <2>13 DEF Post
  <2>14. CASE UNCHANGED sem
    BY <2>14
  <2> HIDE DEF IInv, TypeOK, CountBounded, ViewBehind, ExactlyOneToken,
               Registered, TokenOwed
  <2> QED
    BY <2>1, <2>2, <2>3, <2>4, <2>5, <2>6, <2>7, <2>8, <2>9, <2>10, <2>11,
       <2>12, <2>13, <2>14 DEF Next, WaiterStep
<1> QED BY <1>1, <1>2 DEF IInv

-----------------------------------------------------------------------------
\* The semaphore's state stays well formed; signal()'s assertion on the old
\* count holds; no token is lost, doubled or left behind; and the fast path
\* finds a permit.  (atomicops.h: LightweightSemaphore.)
THEOREM SemaphoreCorrect ==
    ASSUME 0 \notin SignalCounts
    PROVE  Spec => [](/\ TypeOK
                      /\ SignalAssertion
                      /\ ExactlyOneToken
                      /\ FastPathHasPermit)
<1>1. IInv /\ [Next]_sem => IInv'
  BY NextPreserves
<1>2. IInv => /\ TypeOK
              /\ SignalAssertion
              /\ ExactlyOneToken
              /\ FastPathHasPermit
  BY DEF IInv, TypeOK, SignalAssertion, CountBounded, ViewBehind, FastPathHasPermit
<1> QED BY InitEstablishes, <1>1, <1>2, PTL DEF Spec

-----------------------------------------------------------------------------
\* Every step is one of the counting semaphore's, or invisible to it.
LEMMA StepImplements ==
    ASSUME 0 \notin SignalCounts, IInv, [Next]_sem
    PROVE  [Counting!Next]_(Counting!vars)
<1> USE DEF IInv, TypeOK, CountBounded, ViewBehind, ExactlyOneToken, Registered,
            TokenOwed, Counting!vars
<1>1. ASSUME NEW m \in Modes, Call(m) PROVE Counting!Call(m)
  BY <1>1 DEF Call, Counting!Call
<1>2. CASE TryLoad
  <2>1. UNCHANGED Counting!vars \/ Counting!Fail
    BY <1>2 DEF TryLoad, Visible, AfterTryLoad, Counting!Fail
  <2> QED BY <2>1 DEF Counting!Next
<1>3. CASE Take
  <2>1. Counting!Acquire
    BY <1>3 DEF Take, Counting!Acquire
  <2> QED BY <2>1 DEF Counting!Next
<1>4. CASE SpinLoad
  BY <1>4 DEF SpinLoad, Visible
<1>5. CASE Register
  <2>1. UNCHANGED Counting!vars \/ Counting!Acquire
    BY <1>5 DEF Register, AfterRegister, Counting!Acquire
  <2> QED BY <2>1 DEF Counting!Next
<1>6. CASE KernelWake
  <2>1. Counting!Acquire
    BY <1>6 DEF KernelWake, Counting!Acquire
  <2> QED BY <2>1 DEF Counting!Next
<1>7. CASE KernelGiveUp
  BY <1>7 DEF KernelGiveUp
<1>8. CASE Restore
  <2>1. UNCHANGED Counting!vars \/ Counting!Fail
    BY <1>8 DEF Restore, Counting!Fail
  <2> QED BY <2>1 DEF Counting!Next
<1>9. CASE Retake
  BY <1>9 DEF Retake
<1>10. CASE TrySema
  <2>1. UNCHANGED Counting!vars \/ Counting!Acquire
    <3>1. CASE sem.kernel > 0
      <4>1. /\ sem.at = "trysema"
            /\ sem' = [sem EXCEPT !.kernel = @ - 1, !.at = "acquired"]
        BY <1>10, <3>1 DEF TrySema
      <4> QED BY <3>1, <4>1 DEF Counting!Acquire
    <3>2. CASE sem.kernel = 0
      BY <1>10, <3>2 DEF TrySema
    <3> QED BY <3>1, <3>2
  <2> QED BY <2>1 DEF Counting!Next
<1>11. CASE Return
  <2>1. Counting!Return
    BY <1>11 DEF Return, Counting!Return
  <2> QED BY <2>1 DEF Counting!Next
<1>12. ASSUME NEW n \in SignalCounts, Signal(n) PROVE Counting!Signal(n)
  <2>1. n \in Nat /\ n > 0
    BY SemaphoreAssumption DEF SemaphoreAssumption
  <2> QED BY <1>12, <2>1 DEF Signal, Owes, Counting!Signal
<1>13. CASE Post
  BY <1>13 DEF Post
<1>14. CASE UNCHANGED sem
  BY <1>14
<1> HIDE DEF IInv, TypeOK, CountBounded, ViewBehind, ExactlyOneToken, Registered,
             TokenOwed, Counting!vars
<1> QED
  BY <1>1, <1>2, <1>3, <1>4, <1>5, <1>6, <1>7, <1>8, <1>9, <1>10, <1>11,
     <1>12, <1>13, <1>14 DEF Next, WaiterStep, Counting!Next, Modes, Counting!Modes

\* m_count and m_sema together behave as one counting semaphore whatever the
\* interleaving: permits are conserved, and a wait with a timeout reports
\* failure only when there is none.
THEOREM SemaphoreImplements ==
    ASSUME 0 \notin SignalCounts
    PROVE  Spec => ImplementsCounting
<1>1. Init => Counting!Init
  BY SemaphoreAssumption DEF Init, Counting!Init, Registered, SemaphoreAssumption
<1>2. IInv /\ [Next]_sem => IInv'
  BY NextPreserves
<1>3. IInv /\ [Next]_sem => [Counting!Next]_(Counting!vars)
  BY StepImplements
<1> QED BY InitEstablishes, <1>1, <1>2, <1>3, PTL
        DEF Spec, ImplementsCounting, Counting!Spec

-----------------------------------------------------------------------------
\* What a structure that owns a semaphore needs of it: the permits, and those
\* plus the one that a wait has got and not yet returned with.
Permits == sem.count + (IF Registered THEN 1 ELSE 0)
Held == Permits + (IF sem.at = "acquired" THEN 1 ELSE 0)

\* Inside a call, the waiter neither makes nor loses a permit, and does not
\* leave the call.
LEMMA WaiterKeeps ==
    ASSUME 0 \notin SignalCounts, IInv, WaiterStep
    PROVE  /\ IInv'
           /\ Held' = Held
           /\ sem.at \notin {"idle", "acquired", "failed"}
           /\ sem'.at # "idle"
           /\ sem'.signaler = sem.signaler
<1>0. IInv'
  BY NextPreserves DEF Next
<1> SUFFICES /\ Held' = Held
             /\ sem.at \notin {"idle", "acquired", "failed"}
             /\ sem'.at # "idle"
             /\ sem'.signaler = sem.signaler
  BY <1>0
<1> USE DEF IInv, TypeOK, CountBounded, ViewBehind, Held, Permits, Registered
<1>1. CASE TryLoad
  BY <1>1 DEF TryLoad, AfterTryLoad
<1>2. CASE Take
  BY <1>2 DEF Take
<1>3. CASE SpinLoad
  BY <1>3 DEF SpinLoad
<1>4. CASE Register
  BY <1>4 DEF Register, AfterRegister
<1>5. CASE KernelWake
  BY <1>5 DEF KernelWake
<1>6. CASE KernelGiveUp
  BY <1>6 DEF KernelGiveUp
<1>7. CASE Restore
  BY <1>7 DEF Restore
<1>8. CASE Retake
  BY <1>8 DEF Retake
<1>9. CASE TrySema
  <2>1. CASE sem.kernel > 0
    <3>1. /\ sem.at = "trysema"
          /\ sem' = [sem EXCEPT !.kernel = @ - 1, !.at = "acquired"]
      BY <1>9, <2>1 DEF TrySema
    <3> QED BY <3>1
  <2>2. CASE sem.kernel = 0
    BY <1>9, <2>2 DEF TrySema
  <2> QED BY <2>1, <2>2
<1> QED
  BY <1>1, <1>2, <1>3, <1>4, <1>5, <1>6, <1>7, <1>8, <1>9 DEF WaiterStep

\* A call begins, ends, or was not begun.
LEMMA CallKeeps ==
    ASSUME 0 \notin SignalCounts, IInv, NEW m \in Modes, Call(m)
    PROVE  /\ IInv'
           /\ Held' = Held
           /\ sem.at = "idle"
           /\ sem'.at = "try"
           /\ sem'.signaler = sem.signaler
<1>1. IInv'
  BY NextPreserves DEF Next
<1> QED BY <1>1 DEF IInv, TypeOK, Held, Permits, Registered, Call

\* A call that returns hands the permit it has got, if any, to its caller.
LEMMA ReturnKeeps ==
    ASSUME 0 \notin SignalCounts, IInv, Return
    PROVE  /\ IInv'
           /\ Held' = Held - (IF sem.at = "acquired" THEN 1 ELSE 0)
           /\ sem'.at = "idle"
           /\ sem'.signaler = sem.signaler
<1>1. IInv'
  BY NextPreserves DEF Next
<1> QED BY <1>1 DEF IInv, TypeOK, Held, Permits, Registered, Return

\* A signal adds its count, and leaves the waiter where it is.
LEMMA SignalKeeps ==
    ASSUME 0 \notin SignalCounts, IInv, NEW n \in SignalCounts, Signal(n)
    PROVE  /\ IInv'
           /\ Held' = Held + n
           /\ sem.signaler = "idle"
           /\ sem'.at = sem.at
<1>1. IInv'
  BY NextPreserves DEF Next
<1>2. n \in Nat
  BY SemaphoreAssumption DEF SemaphoreAssumption
<1> QED BY <1>1, <1>2 DEF IInv, TypeOK, Held, Permits, Registered, Signal

\* So does the token it owes.
LEMMA PostKeeps ==
    ASSUME 0 \notin SignalCounts, IInv, Post
    PROVE  /\ IInv'
           /\ Held' = Held
           /\ sem.signaler = "posting"
           /\ sem'.signaler = "idle"
           /\ sem'.at = sem.at
<1>1. IInv'
  BY NextPreserves DEF Next
<1> QED BY <1>1 DEF IInv, TypeOK, Held, Permits, Registered, Post

\* The two steps that only an owner of the semaphore takes: a wait that failed
\* asks again, and a reader outside of a wait looks at the count.
LEMMA OwnerKeeps ==
    ASSUME IInv,
           \/ /\ sem.at = "failed"
              /\ sem' = [sem EXCEPT !.at = "try"]
           \/ /\ sem.at = "idle"
              /\ \E v \in Visible : sem' = [sem EXCEPT !.view = v]
    PROVE  /\ IInv'
           /\ Held' = Held
           /\ sem'.signaler = sem.signaler
           /\ sem'.at = "idle" <=> sem.at = "idle"
  BY DEF IInv, TypeOK, CountBounded, ViewBehind, ExactlyOneToken, Registered,
         TokenOwed, Visible, Points, Permits, Held

\* What an owner sees of a semaphore in the invariant.
LEMMA IInvGives ==
    ASSUME IInv
    PROVE  /\ Held \in Nat
           /\ sem.count <= Held
           /\ sem.at = "acquired" => Held > 0
           /\ \A v \in Visible : v \in Int /\ v <= sem.count
  BY DEF IInv, TypeOK, CountBounded, Permits, Held, Visible

\* Who is registered with no token posted or under way has no permit to wait
\* for: none that was signaled passed it by.
LEMMA AsleepHoldsNone ==
    ASSUME IInv, sem.at = "kernel", sem.kernel = 0, sem.signaler = "idle"
    PROVE  Held = 0
  BY DEF IInv, TypeOK, CountBounded, ExactlyOneToken, TokenOwed, Registered,
         Permits, Held

=============================================================================
