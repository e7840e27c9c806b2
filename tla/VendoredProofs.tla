----------------------------- MODULE VendoredProofs -----------------------------
(***************************************************************************)
(* The helpers under src/common, for every number of callbacks and scopes, *)
(* every word length and every unit: the callbacks of scope guards are     *)
(* called once or dismissed, and sizes are printed and allocated for what  *)
(* they are.  The calendar: days, dates, weekdays and months agree with it *)
(* for some 27000 years before and after ours.  And the results of an      *)
(* option of the command line: its callback is sent what its policy says.  *)
(***************************************************************************)
EXTENDS MCVendored, SequenceTheorems, FiniteSetTheorems, WellFoundedInduction, TLAPS

-----------------------------------------------------------------------------
(***************************************************************************)
(* Induction on the natural numbers, and functions defined by it.          *)
(***************************************************************************)
\* A set of numbers that has 0, and with each number the next one, has all.
LEMMA Induction ==
    ASSUME NEW T, 0 \in T, \A n \in Nat : n \in T => n + 1 \in T
    PROVE  Nat \subseteq T
<1> SUFFICES ASSUME Nat \ T # {} PROVE FALSE
  OBVIOUS
<1>1. PICK x \in Nat \ T : \A y \in Nat \ T : <<y, x>> \notin OpToRel(<, Nat)
  <2>1. Nat \ T \subseteq Nat
    OBVIOUS
  <2> QED BY <2>1, NatLessThanWellFounded, WFMin
<1>2. \A y \in Nat : y < x => y \in T
  BY <1>1 DEF OpToRel
<1>3. x \in Nat /\ x # 0 /\ x \notin T
  BY <1>1
<1>4. x - 1 \in Nat /\ x - 1 < x /\ (x - 1) + 1 = x
  BY <1>3
<1>5. x - 1 \in T
  BY <1>2, <1>4
<1> QED BY <1>3, <1>4, <1>5

\* From a first value and a function from each value to the next there is a
\* function on the numbers that has them all.
LEMMA Recursion ==
    ASSUME NEW S, NEW a \in S, NEW next \in [S -> S]
    PROVE  \E g \in [Nat -> S] : g[0] = a /\ \A n \in Nat : g[n + 1] = next[g[n]]
<1> DEFINE Begins(n, f) ==
              /\ f \in [0 .. n -> S] /\ f[0] = a
              /\ \A k \in 1 .. n : f[k] = next[f[k - 1]]
           T == {n \in Nat : \E f : Begins(n, f)}
           Agree(f, h) == {k \in Nat : k \in DOMAIN f /\ k \in DOMAIN h => f[k] = h[k]}
<1>1. \A n \in Nat : \E f : Begins(n, f)
  <2>1. 0 \in T
    <3>1. Begins(0, [k \in 0 .. 0 |-> a])
      OBVIOUS
    <3> QED BY <3>1
  <2>2. ASSUME NEW n \in Nat, n \in T
        PROVE  n + 1 \in T
    <3>1. PICK f : Begins(n, f)
      BY <2>2
    <3> DEFINE h == [k \in 0 .. n + 1 |-> IF k = n + 1 THEN next[f[n]] ELSE f[k]]
    <3>2. h \in [0 .. n + 1 -> S] /\ h[0] = a
      BY <3>1
    <3>3. ASSUME NEW k \in 1 .. n + 1
          PROVE  h[k] = next[h[k - 1]]
      <4>1. CASE k = n + 1
        BY <4>1, <3>1
      <4>2. CASE k # n + 1
        <5>1. k \in 1 .. n /\ k - 1 \in 0 .. n
          BY <4>2
        <5>2. h[k] = f[k] /\ h[k - 1] = f[k - 1]
          BY <5>1
        <5> QED BY <5>1, <5>2, <3>1
      <4> QED BY <4>1, <4>2
    <3>4. Begins(n + 1, h)
      BY <3>2, <3>3
    <3> HIDE DEF h
    <3> QED BY <3>4
  <2> HIDE DEF T
  <2>3. Nat \subseteq T
    BY <2>1, <2>2, Induction
  <2> QED BY <2>3 DEF T
<1>2. ASSUME NEW m \in Nat, NEW n \in Nat, NEW f, NEW h, Begins(m, f), Begins(n, h)
      PROVE  \A k \in Nat : k <= m /\ k <= n => f[k] = h[k]
  <2>1. DOMAIN f = 0 .. m /\ DOMAIN h = 0 .. n
    BY <1>2
  <2>2. 0 \in Agree(f, h)
    BY <1>2
  <2>3. ASSUME NEW k \in Nat, k \in Agree(f, h)
        PROVE  k + 1 \in Agree(f, h)
    <3> SUFFICES ASSUME k + 1 \in 0 .. m, k + 1 \in 0 .. n
                 PROVE  f[k + 1] = h[k + 1]
      BY <2>1
    <3>1. /\ k \in 0 .. m /\ k \in 0 .. n
          /\ k + 1 \in 1 .. m /\ k + 1 \in 1 .. n /\ (k + 1) - 1 = k
      OBVIOUS
    <3>2. f[k] = h[k]
      BY <2>1, <2>3, <3>1
    <3>3. f[k + 1] = next[f[k]] /\ h[k + 1] = next[h[k]]
      BY <1>2, <3>1
    <3> QED BY <3>2, <3>3
  <2> HIDE DEF Agree
  <2>4. Nat \subseteq Agree(f, h)
    BY <2>2, <2>3, Induction
  <2> QED BY <2>1, <2>4 DEF Agree
<1> DEFINE F(n) == CHOOSE f : Begins(n, f)
           g == [n \in Nat |-> F(n)[n]]
<1>3. \A n \in Nat : Begins(n, F(n))
  BY <1>1
<1> HIDE DEF F
<1>4. ASSUME NEW n \in Nat
      PROVE  /\ F(n)[n] \in S
             /\ F(n)[n] = IF n = 0 THEN a ELSE next[F(n - 1)[n - 1]]
  <2>1. F(n)[n] \in S /\ F(0)[0] = a
    BY <1>3
  <2>2. CASE n # 0
    <3>1. n - 1 \in Nat /\ n \in 1 .. n /\ n - 1 <= n
      BY <2>2
    <3>2. F(n)[n] = next[F(n)[n - 1]]
      BY <1>3, <3>1
    <3>3. Begins(n - 1, F(n - 1)) /\ Begins(n, F(n))
      BY <1>3, <3>1
    <3> HIDE DEF Begins
    <3>4. F(n - 1)[n - 1] = F(n)[n - 1]
      BY <1>2, <3>1, <3>3
    <3> QED BY <2>1, <2>2, <3>2, <3>4
  <2> QED BY <2>1, <2>2
<1>5. g \in [Nat -> S]
  BY <1>4
<1>6. g[0] = a
  BY <1>4
<1>7. ASSUME NEW n \in Nat
      PROVE  g[n + 1] = next[g[n]]
  <2>1. n + 1 \in Nat /\ n + 1 # 0 /\ (n + 1) - 1 = n
    OBVIOUS
  <2>2. F(n + 1)[n + 1] = next[F(n)[n]]
    BY <1>4, <2>1
  <2> QED BY <2>1, <2>2
<1> HIDE DEF g
<1> QED BY <1>5, <1>6, <1>7

-----------------------------------------------------------------------------
(***************************************************************************)
(* Scope guards.                                                           *)
(***************************************************************************)
\* A callback that was handed to a guard has been called, or dismissed, or is
\* in the hands of one guard.
Once(c) ==
    \/ calls[c] = 1 /\ c \notin dismissed /\ Guard!Active(c) = {}
    \/ calls[c] = 0 /\ c \in dismissed /\ Guard!Active(c) = {}
    \/ calls[c] = 0 /\ c \notin dismissed /\ \E i : Guard!Active(c) = {i}

\* The inductive invariant of the guards.
GuardInv ==
    /\ guards \in Seq([callback : Callbacks, active : BOOLEAN]) /\ Len(guards) <= Depth
    /\ made \subseteq Callbacks /\ dismissed \subseteq made
    /\ calls \in [Callbacks -> 0 .. 1]
    /\ \A i \in DOMAIN guards : guards[i].callback \in made
    /\ \A c \in Callbacks \ made : calls[c] = 0
    /\ \A c \in made : Once(c)

\* A guard that is made passive keeps its callback, and the others are as they were.
LEMMA PassiveGuard ==
    ASSUME NEW s \in Seq([callback : Callbacks, active : BOOLEAN]),
           NEW i \in 1 .. Len(s),
           NEW u, u = [s EXCEPT ![i].active = FALSE]
    PROVE  /\ u \in Seq([callback : Callbacks, active : BOOLEAN]) /\ Len(u) = Len(s)
           /\ \A j \in 1 .. Len(s) :
                u[j] = IF j = i THEN [s[i] EXCEPT !.active = FALSE] ELSE s[j]
<1> DEFINE G == [callback : Callbacks, active : BOOLEAN]
<1>1. PICK x : x = [s[i] EXCEPT !.active = FALSE]
  OBVIOUS
<1>2. u = [s EXCEPT ![i] = x]
  BY <1>1
<1>3. s[i] \in G
  BY ElementOfSeq
<1>4. x \in G
  BY <1>1, <1>3
<1>5. s \in Seq(G)
  OBVIOUS
<1> HIDE DEF G
<1>6. /\ [s EXCEPT ![i] = x] \in Seq(G) /\ Len([s EXCEPT ![i] = x]) = Len(s)
      /\ \A j \in 1 .. Len(s) : [s EXCEPT ![i] = x][j] = IF j = i THEN x ELSE s[j]
  BY <1>4, <1>5, ExceptSeq
<1>7. /\ u \in Seq(G) /\ Len(u) = Len(s)
      /\ \A j \in 1 .. Len(s) : u[j] = IF j = i THEN x ELSE s[j]
  BY <1>2, <1>6
<1> QED BY <1>1, <1>7 DEF G

\* What moving a guard does to those that are active: the new one takes over.
LEMMA GuardMoves ==
    ASSUME GuardInv, NEW i \in DOMAIN guards, Guard!Move(i)
    PROVE  GuardInv'
<1> DEFINE G == [callback : Callbacks, active : BOOLEAN]
           n == Len(guards)
           passive == [guards EXCEPT ![i].active = FALSE]
<1>1. /\ guards \in Seq(G) /\ n \in Nat /\ DOMAIN guards = 1 .. n /\ i \in 1 .. n
      /\ \A j \in 1 .. n : guards[j] \in G
  BY LenProperties, ElementOfSeq DEF GuardInv
<1>2. /\ n < Depth /\ guards' = Append(passive, guards[i])
      /\ UNCHANGED <<made, calls, dismissed>>
  BY DEF Guard!Move
<1>3. /\ passive \in Seq(G) /\ Len(passive) = n
      /\ \A j \in 1 .. n :
          passive[j] = IF j = i THEN [guards[i] EXCEPT !.active = FALSE] ELSE guards[j]
  BY <1>1, PassiveGuard
<1> HIDE DEF passive
<1>4. /\ guards' \in Seq(G) /\ Len(guards') = n + 1 /\ DOMAIN guards' = 1 .. n + 1
      /\ \A j \in 1 .. n : guards'[j] = passive[j]
      /\ guards'[n + 1] = guards[i]
  BY <1>1, <1>2, <1>3
<1>5. /\ \A j \in 1 .. n : guards'[j].callback = guards[j].callback
      /\ guards'[n + 1].callback = guards[i].callback
      /\ \A j \in 1 .. n : j # i => guards'[j].active = guards[j].active
      /\ ~guards'[i].active
      /\ guards'[n + 1].active = guards[i].active
  BY <1>1, <1>3, <1>4
<1>6. ASSUME NEW c \in made
      PROVE  Once(c)'
  <2>1. Once(c)
    BY DEF GuardInv
  <2>2. CASE guards[i].active /\ guards[i].callback = c
    <3>1. i \in Guard!Active(c)
      BY <1>1, <2>2 DEF Guard!Active
    <3>2. calls[c] = 0 /\ c \notin dismissed /\ Guard!Active(c) = {i}
      BY <2>1, <3>1 DEF Once
    <3>3. \A j \in 1 .. n : j # i => ~(guards[j].callback = c /\ guards[j].active)
      BY <1>1, <3>2 DEF Guard!Active
    <3>4. \A j \in 1 .. n + 1 : (guards'[j].callback = c /\ guards'[j].active) <=> j = n + 1
      <4>1. ASSUME NEW j \in 1 .. n
            PROVE  ~(guards'[j].callback = c /\ guards'[j].active)
        BY <1>5, <3>3
      <4>2. guards'[n + 1].callback = c /\ guards'[n + 1].active
        BY <1>5, <2>2
      <4>3. \A j \in 1 .. n + 1 : j \in 1 .. n \/ j = n + 1
        BY <1>1
      <4>4. n + 1 \notin 1 .. n
        BY <1>1
      <4> QED BY <4>1, <4>2, <4>3, <4>4
    <3>5. Guard!Active(c)' = {n + 1}
      <4>1. Guard!Active(c)' = {j \in 1 .. n + 1 : guards'[j].callback = c /\ guards'[j].active}
        BY <1>4 DEF Guard!Active
      <4>2. n + 1 \in 1 .. n + 1
        BY <1>1
      <4> QED BY <3>4, <4>1, <4>2
    <3> QED BY <1>2, <3>2, <3>5 DEF Once
  <2>3. CASE ~(guards[i].active /\ guards[i].callback = c)
    <3>1. Guard!Active(c)' = Guard!Active(c)
      BY <1>1, <1>4, <1>5, <2>3 DEF Guard!Active
    <3> QED BY <1>2, <2>1, <3>1 DEF Once
  <2> QED BY <2>2, <2>3
<1>7. Depth \in Nat
  BY VendoredAssumption DEF VendoredAssumption, Guard!GuardAssumption
<1>8. guards' \in Seq(G) /\ Len(guards') <= Depth
  BY <1>1, <1>2, <1>4, <1>7
<1>9. \A j \in DOMAIN guards' : guards'[j].callback \in made
  BY <1>1, <1>4, <1>5 DEF GuardInv
<1> QED BY <1>2, <1>6, <1>8, <1>9 DEF GuardInv

\* A guard that is dismissed: its callback, if it is still the guard's, is never called.
LEMMA GuardDismisses ==
    ASSUME GuardInv, NEW i \in DOMAIN guards, Guard!Dismiss(i)
    PROVE  GuardInv'
<1> DEFINE G == [callback : Callbacks, active : BOOLEAN]
           n == Len(guards)
<1>1. /\ guards \in Seq(G) /\ n \in Nat /\ DOMAIN guards = 1 .. n /\ i \in 1 .. n
      /\ \A j \in 1 .. n : guards[j] \in G
  BY LenProperties, ElementOfSeq DEF GuardInv
<1>2. /\ guards' = [guards EXCEPT ![i].active = FALSE]
      /\ dismissed' =
          IF guards[i].active THEN dismissed \cup {guards[i].callback} ELSE dismissed
      /\ UNCHANGED <<made, calls>>
  BY DEF Guard!Dismiss
<1>3. /\ guards' \in Seq(G) /\ Len(guards') = n /\ DOMAIN guards' = 1 .. n
      /\ \A j \in 1 .. n : guards'[j].callback = guards[j].callback
      /\ \A j \in 1 .. n : j # i => guards'[j].active = guards[j].active
      /\ ~guards'[i].active
  <2>1. /\ guards' \in Seq(G) /\ Len(guards') = n
        /\ \A j \in 1 .. n :
            guards'[j] = IF j = i THEN [guards[i] EXCEPT !.active = FALSE] ELSE guards[j]
    BY <1>1, <1>2, PassiveGuard
  <2>2. DOMAIN guards' = 1 .. n
    BY <1>1, <2>1, LenProperties
  <2> QED BY <1>1, <2>1, <2>2
<1>4. ASSUME NEW c \in made
      PROVE  Once(c)'
  <2>1. Once(c)
    BY DEF GuardInv
  <2>2. CASE guards[i].active /\ guards[i].callback = c
    <3>1. i \in Guard!Active(c)
      BY <1>1, <2>2 DEF Guard!Active
    <3>2. calls[c] = 0 /\ c \notin dismissed /\ Guard!Active(c) = {i}
      BY <2>1, <3>1 DEF Once
    <3>3. \A j \in 1 .. n : j # i => ~(guards[j].callback = c /\ guards[j].active)
      BY <1>1, <3>2 DEF Guard!Active
    <3>4. Guard!Active(c)' = {}
      BY <1>1, <1>3, <2>2, <3>3 DEF Guard!Active
    <3> QED BY <1>2, <2>2, <3>2, <3>4 DEF Once
  <2>3. CASE ~(guards[i].active /\ guards[i].callback = c)
    <3>1. Guard!Active(c)' = Guard!Active(c)
      BY <1>1, <1>3, <2>3 DEF Guard!Active
    <3>2. c \in dismissed' <=> c \in dismissed
      BY <1>2, <2>3
    <3> QED BY <1>2, <2>1, <3>1, <3>2 DEF Once
  <2> QED BY <2>2, <2>3
<1>5. dismissed' \subseteq made
  BY <1>1, <1>2 DEF GuardInv
<1> QED BY <1>2, <1>3, <1>4, <1>5 DEF GuardInv

\* A scope that is left calls the callback of its guard if that is active.
LEMMA GuardLeaves ==
    ASSUME GuardInv, Guard!Leave
    PROVE  GuardInv'
<1> DEFINE G == [callback : Callbacks, active : BOOLEAN]
           n == Len(guards)
           top == guards[n]
<1>1. /\ guards \in Seq(G) /\ n \in Nat /\ DOMAIN guards = 1 .. n /\ guards # <<>>
      /\ \A j \in 1 .. n : guards[j] \in G
  BY LenProperties, ElementOfSeq DEF GuardInv, Guard!Leave
<1>2. n \in 1 .. n /\ n - 1 \in Nat
  BY <1>1
<1>3. /\ calls' = IF top.active THEN [calls EXCEPT ![top.callback] = @ + 1] ELSE calls
      /\ guards' = SubSeq(guards, 1, n - 1)
      /\ UNCHANGED <<made, dismissed>>
  BY DEF Guard!Leave, Guard!Top
<1>4. /\ guards' \in Seq(G) /\ Len(guards') = n - 1 /\ DOMAIN guards' = 1 .. n - 1
      /\ \A j \in 1 .. n - 1 : guards'[j] = guards[j]
  BY <1>1, <1>2, <1>3
<1>5. /\ top \in G /\ top.callback \in made
      /\ made \subseteq Callbacks /\ calls \in [Callbacks -> 0 .. 1]
  BY <1>1, <1>2 DEF GuardInv
<1>6. \A c : Guard!Active(c)' = Guard!Active(c) \ {n}
  BY <1>1, <1>2, <1>4 DEF Guard!Active
<1>7. ASSUME NEW c \in made
      PROVE  Once(c)' /\ calls'[c] \in 0 .. 1
  <2>1. Once(c) /\ c \in Callbacks
    BY <1>5 DEF GuardInv
  <2>2. CASE top.active /\ top.callback = c
    <3>1. n \in Guard!Active(c)
      BY <1>1, <1>2, <2>2 DEF Guard!Active
    <3>2. calls[c] = 0 /\ c \notin dismissed /\ Guard!Active(c) = {n}
      BY <2>1, <3>1 DEF Once
    <3>3. Guard!Active(c)' = {}
      BY <1>6, <3>2
    <3>4. calls'[c] = 1
      BY <1>3, <1>5, <2>1, <2>2, <3>2
    <3> QED BY <1>3, <3>2, <3>3, <3>4 DEF Once
  <2>3. CASE ~(top.active /\ top.callback = c)
    <3>1. n \notin Guard!Active(c)
      BY <2>3 DEF Guard!Active
    <3>2. Guard!Active(c)' = Guard!Active(c)
      BY <1>6, <3>1
    <3>3. calls'[c] = calls[c]
      BY <1>3, <1>5, <2>1, <2>3
    <3> QED BY <1>3, <1>5, <2>1, <3>2, <3>3 DEF Once
  <2> QED BY <2>2, <2>3
<1>8. \A c \in Callbacks \ made : calls'[c] = 0
  BY <1>3, <1>5 DEF GuardInv
<1>9. calls' \in [Callbacks -> 0 .. 1]
  <2>1. calls' = [c \in Callbacks |-> calls'[c]]
    BY <1>3, <1>5
  <2>2. \A c \in Callbacks : calls'[c] \in 0 .. 1
    BY <1>7, <1>8
  <2> QED BY <2>1, <2>2
<1>10. Depth \in Nat
  BY VendoredAssumption DEF VendoredAssumption, Guard!GuardAssumption
<1>11. Len(guards') <= Depth
  BY <1>1, <1>4, <1>10 DEF GuardInv
<1>12. \A j \in DOMAIN guards' : guards'[j].callback \in made
  BY <1>1, <1>4 DEF GuardInv
<1> QED BY <1>3, <1>4, <1>7, <1>8, <1>9, <1>11, <1>12 DEF GuardInv

\* A new guard, of a callback that no guard had before.
LEMMA GuardMade ==
    ASSUME GuardInv, NEW c \in Callbacks, Guard!Make(c)
    PROVE  GuardInv'
<1> DEFINE G == [callback : Callbacks, active : BOOLEAN]
           n == Len(guards)
           new == [callback |-> c, active |-> TRUE]
<1>1. /\ guards \in Seq(G) /\ n \in Nat /\ DOMAIN guards = 1 .. n
      /\ \A j \in 1 .. n : guards[j] \in G
  BY LenProperties, ElementOfSeq DEF GuardInv
<1>2. /\ c \notin made /\ n < Depth /\ guards' = Append(guards, new)
      /\ made' = made \cup {c} /\ UNCHANGED <<calls, dismissed>>
  BY DEF Guard!Make, Guard!Push
<1>3. new \in G
  OBVIOUS
<1>4. /\ guards' \in Seq(G) /\ Len(guards') = n + 1 /\ DOMAIN guards' = 1 .. n + 1
      /\ \A j \in 1 .. n : guards'[j] = guards[j]
      /\ guards'[n + 1] = new
  BY <1>1, <1>2, <1>3
<1>5. Guard!Active(c) = {}
  BY <1>1, <1>2 DEF Guard!Active, GuardInv
<1>6. ASSUME NEW b \in made'
      PROVE  Once(b)'
  <2>1. CASE b = c
    <3>1. \A j \in 1 .. n : guards[j].callback # c
      BY <1>1, <1>2 DEF GuardInv
    <3>2. Guard!Active(c)' = {n + 1}
      BY <1>1, <1>4, <3>1 DEF Guard!Active
    <3>3. calls[c] = 0 /\ c \notin dismissed
      BY <1>2 DEF GuardInv
    <3> QED BY <1>2, <2>1, <3>2, <3>3 DEF Once
  <2>2. CASE b # c
    <3>1. b \in made
      BY <1>2, <2>2
    <3>2. Guard!Active(b)' = Guard!Active(b)
      BY <1>1, <1>4, <2>2 DEF Guard!Active
    <3> QED BY <1>2, <3>1, <3>2 DEF Once, GuardInv
  <2> QED BY <2>1, <2>2
<1>7. Depth \in Nat
  BY VendoredAssumption DEF VendoredAssumption, Guard!GuardAssumption
<1>8. Len(guards') <= Depth
  BY <1>1, <1>2, <1>4, <1>7
<1>9. \A j \in DOMAIN guards' : guards'[j].callback \in made'
  BY <1>1, <1>2, <1>4 DEF GuardInv
<1>10. /\ made' \subseteq Callbacks /\ dismissed' \subseteq made'
       /\ calls' \in [Callbacks -> 0 .. 1]
       /\ \A b \in Callbacks \ made' : calls'[b] = 0
  BY <1>2 DEF GuardInv
<1> QED BY <1>4, <1>6, <1>8, <1>9, <1>10 DEF GuardInv

\* Guards, however they are made, moved, dismissed and left.
LEMMA GuardGoesOn ==
    ASSUME GuardInv, [Guard!Next]_guardVars
    PROVE  GuardInv'
<1>1. CASE UNCHANGED guardVars \/ Guard!Over
  <2>1. UNCHANGED <<guards, made, calls, dismissed>>
    BY <1>1 DEF guardVars, Guard!Over, Guard!vars
  <2>2. \A c : Once(c)' <=> Once(c)
    BY <2>1 DEF Once, Guard!Active
  <2> QED BY <2>1, <2>2 DEF GuardInv
<1> QED BY <1>1, GuardMade, GuardMoves, GuardDismisses, GuardLeaves DEF Guard!Next

\* At the beginning there are none.
LEMMA GuardBegins == Guard!Init => GuardInv
<1> SUFFICES ASSUME Guard!Init PROVE GuardInv
  OBVIOUS
<1>1. guards = <<>> /\ made = {} /\ calls = [c \in Callbacks |-> 0] /\ dismissed = {}
  BY DEF Guard!Init
<1>2. Depth \in Nat
  BY VendoredAssumption DEF VendoredAssumption, Guard!GuardAssumption
<1>3. /\ guards \in Seq([callback : Callbacks, active : BOOLEAN])
      /\ Len(guards) = 0 /\ DOMAIN guards = {}
  BY <1>1
<1> QED BY <1>1, <1>2, <1>3 DEF GuardInv

\* Once is what ExactlyOnce counts.
LEMMA GuardOnce == GuardInv => Guard!ExactlyOnce
<1> SUFFICES ASSUME GuardInv, NEW c \in made
             PROVE  calls[c] + Guard!Cardinality(Guard!Active(c))
                      + (IF c \in dismissed THEN 1 ELSE 0) = 1
  BY DEF Guard!ExactlyOnce
<1>1. Guard!Cardinality(Guard!Active(c)) = Cardinality(Guard!Active(c))
  BY DEF Guard!Cardinality, Cardinality
<1>2. Once(c)
  BY DEF GuardInv
<1>3. CASE \E i : Guard!Active(c) = {i}
  <2>1. Cardinality(Guard!Active(c)) = 1
    BY <1>3, FS_Singleton
  <2>2. calls[c] = 0 /\ c \notin dismissed
    BY <1>2, <1>3 DEF Once
  <2> QED BY <1>1, <2>1, <2>2
<1>4. CASE Guard!Active(c) = {}
  <2>1. Cardinality(Guard!Active(c)) = 0
    BY <1>4, FS_EmptySet
  <2>2. \/ calls[c] = 1 /\ c \notin dismissed
        \/ calls[c] = 0 /\ c \in dismissed
    BY <1>2, <1>4 DEF Once
  <2> QED BY <1>1, <2>1, <2>2
<1> QED BY <1>2, <1>3, <1>4 DEF Once

-----------------------------------------------------------------------------
(***************************************************************************)
(* Sizes.                                                                  *)
(***************************************************************************)
\* A quotient is the number of times that the divisor fits.
LEMMA QuotientIs ==
    ASSUME NEW x \in Nat, NEW n \in Nat, n > 0
    PROVE  /\ x \div n \in Nat /\ n * (x \div n) <= x /\ x < n * (x \div n) + n
           /\ x >= n => x \div n > 0
           /\ x < n => x \div n = 0
<1>1. x \div n \in Int /\ x % n \in 0 .. n - 1 /\ x = n * (x \div n) + (x % n)
  OBVIOUS
<1>2. PICK q \in Int : q = x \div n
  BY <1>1
<1>3. PICK r \in 0 .. n - 1 : r = x % n
  BY <1>1
<1>4. x = n * q + r
  BY <1>1, <1>2, <1>3
<1>5. q >= 0
  <2>1. CASE q <= -1
    <3>1. n * q <= n * (-1)
      BY <2>1
    <3> QED BY <3>1, <1>4
  <2> QED BY <2>1
<1>6. x < n => q = 0
  <2>1. CASE q >= 1
    <3>1. n * q >= n
      BY <2>1
    <3> QED BY <3>1, <1>4
  <2> QED BY <2>1, <1>5
<1>7. q = 0 => x < n
  <2>1. q = 0 => n * q = 0
    OBVIOUS
  <2> QED BY <2>1, <1>4
<1>8. n * q <= x /\ x < n * q + n
  BY <1>4
<1> QED BY <1>2, <1>5, <1>6, <1>7, <1>8

\* What an inequality says of the multiples.
LEMMA Times ==
    ASSUME NEW a \in Nat, NEW b \in Nat, NEW c \in Nat
    PROVE  /\ a <= b => a * c <= b * c
           /\ a * c \in Nat /\ a * c = c * a
  OBVIOUS

\* A unit is so many of the unit below.
LEMMA ScaleIs ==
    /\ Sizes!Scale \in [Nat -> Nat]
    /\ Sizes!Scale[0] = 1
    /\ \A n \in Nat : Sizes!Scale[n + 1] = Unit * Sizes!Scale[n]
<1> DEFINE G(g) == g = [n \in Nat |-> IF n = 0 THEN 1 ELSE Unit * g[n - 1]]
           next == [m \in Nat |-> Unit * m]
<1>1. next \in [Nat -> Nat] /\ \A m \in Nat : next[m] = Unit * m
  BY VendoredAssumption DEF VendoredAssumption, Sizes!SizesAssumption
<1> HIDE DEF next
<1>2. PICK g \in [Nat -> Nat] : g[0] = 1 /\ \A n \in Nat : g[n + 1] = next[g[n]]
  <2>1. PICK S : S = Nat
    OBVIOUS
  <2>2. PICK one \in S : one = 1
    BY <2>1
  <2>3. PICK f \in [S -> S] : f = next
    BY <1>1, <2>1
  <2>4. \E g \in [Nat -> S] : g[0] = one /\ \A n \in Nat : g[n + 1] = f[g[n]]
    BY Recursion
  <2> QED BY <2>1, <2>2, <2>3, <2>4
<1>3. \A n \in Nat : g[n] = IF n = 0 THEN 1 ELSE Unit * g[n - 1]
  <2> SUFFICES ASSUME NEW n \in Nat
               PROVE  g[n] = IF n = 0 THEN 1 ELSE Unit * g[n - 1]
    OBVIOUS
  <2>1. n # 0 => n - 1 \in Nat /\ (n - 1) + 1 = n
    OBVIOUS
  <2> QED BY <1>1, <1>2, <2>1
<1>4. G(g)
  BY <1>3
<1>5. Sizes!Scale = CHOOSE f : G(f)
  BY DEF Sizes!Scale
<1>6. G(Sizes!Scale)
  BY <1>4, <1>5
<1> HIDE DEF G
<1>7. \A n \in Nat : Sizes!Scale[n] = IF n = 0 THEN 1 ELSE Unit * Sizes!Scale[n - 1]
  BY <1>6 DEF G
<1> DEFINE T == {n \in Nat : Sizes!Scale[n] \in Nat}
<1>8. Nat \subseteq T
  <2>1. 0 \in T
    BY <1>7
  <2>2. ASSUME NEW n \in Nat, n \in T
        PROVE  n + 1 \in T
    <3>1. Sizes!Scale[n + 1] = Unit * Sizes!Scale[n]
      BY <1>7
    <3>2. Unit \in Nat /\ Sizes!Scale[n] \in Nat
      BY <2>2, VendoredAssumption DEF VendoredAssumption, Sizes!SizesAssumption
    <3> QED BY <3>1, <3>2
  <2> HIDE DEF T
  <2> QED BY <2>1, <2>2, Induction
<1>9. Sizes!Scale \in [Nat -> Nat]
  BY <1>6, <1>8 DEF G
<1> QED BY <1>7, <1>9

\* A larger scale factor, or a larger number of units, is more bytes.
LEMMA Scaled ==
    ASSUME NEW a \in Nat, NEW b \in Nat, NEW c \in Nat, a <= b
    PROVE  c * a <= c * b
  OBVIOUS

\* The number that is shown says how many units there are in the input.
Fits(num, scale) ==
    /\ num * scale <= input
    /\ input < (num + 1) * scale

\* Before the loop, in it, and when the number is printed.
Entered == bytes = input /\ suffix = 0

Looping ==
    /\ bytes > 0
    /\ suffix = 0 => /\ bytes = input /\ bytes > Unit
                     /\ shown = [num |-> input, den |-> 1]
    /\ suffix > 0 => /\ shown.den = Unit /\ shown.num >= Unit
                     /\ bytes = shown.num \div Unit
                     /\ Fits(shown.num, Sizes!Scale[suffix - 1])

Printed ==
    /\ Fits(shown.num, IF suffix = 0 THEN 1 ELSE Sizes!Scale[suffix - 1])
    /\ suffix > 0 => shown.num >= shown.den
    /\ suffix < Suffixes - 1 => shown.num <= shown.den * Unit

\* The inductive invariant of the two computations.
SizesInv ==
    /\ input \in Nat /\ bytes \in Nat /\ suffix \in Nat /\ suffix < Suffixes
    /\ shown \in [num : Nat, den : {1, Unit}] /\ size \in ElementSizes
    /\ sizesAt = "enter" => Entered
    /\ sizesAt = "loop" => Looping
    /\ sizesAt = "printed" => Printed
    /\ sizesAt = "bytes" => bytes >= input * size
    /\ sizesAt = "thrown" => input * size >= Word

\* A number of units that fits is still right in the unit above, without the
\* remainder.
LEMMA FitsAbove ==
    ASSUME NEW m \in Nat, NEW s \in Nat, NEW u \in Nat, u > 0, input \in Nat, Fits(m, s)
    PROVE  Fits(m \div u, u * s)
<1>1. PICK q \in Nat : q = m \div u /\ u * q <= m /\ m < u * q + u
  BY QuotientIs
<1>2. u * q \in Nat /\ u * q + u \in Nat /\ u * q + u = u * (q + 1)
  BY <1>1
<1>3. s * (u * q) <= s * m
  BY <1>1, <1>2, Scaled
<1>4. s * (m + 1) <= s * (u * (q + 1))
  <2>1. m + 1 <= u * q + u
    BY <1>1, <1>2
  <2> QED BY <1>2, <2>1, Scaled
<1>5. s * m = m * s /\ s * (m + 1) = (m + 1) * s
  OBVIOUS
<1>6. s * (u * q) = q * (u * s) /\ s * (u * (q + 1)) = (q + 1) * (u * s)
  OBVIOUS
<1>7. /\ m * s \in Int /\ (m + 1) * s \in Int
      /\ q * (u * s) \in Int /\ (q + 1) * (u * s) \in Int
  OBVIOUS
<1>8. m * s <= input /\ input < (m + 1) * s
  BY DEF Fits
<1>9. q * (u * s) <= input
  BY <1>3, <1>5, <1>6, <1>7, <1>8
<1>10. input < (q + 1) * (u * s)
  BY <1>4, <1>5, <1>6, <1>7, <1>8
<1> QED BY <1>1, <1>9, <1>10 DEF Fits

\* What is assumed of the units.
LEMMA UnitsAre ==
    /\ Unit \in Nat /\ Unit > 1 /\ Suffixes \in Nat /\ Suffixes > 0
    /\ Word \in Nat /\ Word > 0
    /\ ElementSizes \subseteq 1 .. Word - 1
  BY VendoredAssumption DEF VendoredAssumption, Sizes!SizesAssumption

\* prettyPrintBytes begins.
LEMMA SizesEnter ==
    ASSUME SizesInv, Sizes!Enter
    PROVE  SizesInv'
<1>1. /\ Entered /\ shown' = [num |-> bytes, den |-> 1]
      /\ sizesAt' = IF bytes > Unit THEN "loop" ELSE "printed"
      /\ UNCHANGED <<input, bytes, suffix, size>>
      /\ input \in Nat /\ bytes = input /\ suffix = 0
  BY DEF Sizes!Enter, SizesInv, Entered
<1>2. shown'.num = input /\ shown'.den = 1 /\ shown' \in [num : Nat, den : {1, Unit}]
  BY <1>1
<1>3. CASE bytes > Unit
  <2>1. Looping'
    BY <1>1, <1>2, <1>3, UnitsAre DEF Looping
  <2> QED BY <1>1, <1>2, <1>3, <2>1 DEF SizesInv
<1>4. CASE ~(bytes > Unit)
  <2>1. bytes <= Unit
    BY <1>1, <1>4, UnitsAre
  <2>2. Fits(shown.num, 1)'
    BY <1>1, <1>2 DEF Fits
  <2>3. Printed'
    BY <1>1, <1>2, <2>1, <2>2, UnitsAre DEF Printed
  <2> QED BY <1>1, <1>2, <1>4, <2>3 DEF SizesInv
<1> QED BY <1>3, <1>4

\* Its loop: another division, or the number is printed.
LEMMA SizesLoop ==
    ASSUME SizesInv, Sizes!Loop
    PROVE  SizesInv'
<1>1. /\ sizesAt = "loop" /\ Looping /\ UNCHANGED <<input, size>>
      /\ input \in Nat /\ bytes \in Nat /\ suffix \in Nat /\ suffix < Suffixes
      /\ shown \in [num : Nat, den : {1, Unit}] /\ shown.num \in Nat
  BY DEF Sizes!Loop, SizesInv
<1>2. PICK b \in Nat : /\ b = bytes \div Unit
                       /\ (bytes >= Unit => b > 0) /\ (bytes < Unit => b = 0)
                       /\ Unit * b <= bytes /\ bytes < Unit * b + Unit
  BY <1>1, QuotientIs, UnitsAre
<1>3. CASE Sizes!GoesOn
  <2>1. /\ shown' = [num |-> bytes, den |-> Unit] /\ bytes' = b /\ suffix' = suffix + 1
        /\ sizesAt' = "loop" /\ suffix < Suffixes - 1 /\ b > 0
    BY <1>2, <1>3 DEF Sizes!Loop, Sizes!Divide, Sizes!GoesOn
  <2>2. bytes >= Unit
    BY <1>1, <1>2, <2>1, UnitsAre
  <2>3. Fits(bytes, Sizes!Scale[suffix])
    <3>1. CASE suffix = 0
      <4>1. Sizes!Scale[suffix] = 1 /\ bytes = input
        BY <1>1, <3>1, ScaleIs DEF Looping
      <4> QED BY <1>1, <4>1 DEF Fits
    <3>2. CASE suffix # 0
      <4>1. /\ suffix - 1 \in Nat /\ (suffix - 1) + 1 = suffix /\ suffix > 0
        BY <1>1, <3>2
      <4>2. /\ Sizes!Scale[suffix] = Unit * Sizes!Scale[suffix - 1]
            /\ Sizes!Scale[suffix - 1] \in Nat
        BY <4>1, ScaleIs
      <4>3. bytes = shown.num \div Unit /\ Fits(shown.num, Sizes!Scale[suffix - 1])
        BY <1>1, <4>1 DEF Looping
      <4>4. Fits(shown.num \div Unit, Unit * Sizes!Scale[suffix - 1])
        BY <1>1, <4>2, <4>3, FitsAbove, UnitsAre
      <4> QED BY <4>2, <4>3, <4>4
    <3> QED BY <3>1, <3>2
  <2>4. suffix' > 0 /\ suffix' - 1 = suffix /\ suffix' \in Nat /\ suffix' < Suffixes
    BY <1>1, <2>1, UnitsAre
  <2>5. shown'.num = bytes /\ shown'.den = Unit /\ shown' \in [num : Nat, den : {1, Unit}]
    BY <1>1, <2>1
  <2>6. Fits(shown.num, Sizes!Scale[suffix - 1])'
    BY <1>1, <2>3, <2>4, <2>5 DEF Fits
  <2>7. bytes' > 0 /\ bytes' = shown'.num \div Unit
    BY <1>2, <2>1, <2>5
  <2>8. Looping'
    BY <2>2, <2>4, <2>5, <2>6, <2>7 DEF Looping
  <2> QED BY <1>1, <2>1, <2>4, <2>5, <2>8 DEF SizesInv
<1>4. CASE ~Sizes!GoesOn
  <2>1. sizesAt' = "printed" /\ UNCHANGED <<bytes, suffix, shown>>
    BY <1>4 DEF Sizes!Loop
  <2>2. bytes < Unit \/ ~(suffix < Suffixes - 1)
    BY <1>1, <1>2, <1>4, UnitsAre DEF Sizes!GoesOn
  <2>3. Fits(shown.num, IF suffix = 0 THEN 1 ELSE Sizes!Scale[suffix - 1])
    <3>1. CASE suffix = 0
      <4>1. shown.num = input
        BY <1>1, <3>1 DEF Looping
      <4> QED BY <1>1, <3>1, <4>1 DEF Fits
    <3>2. CASE suffix # 0
      <4>1. Fits(shown.num, Sizes!Scale[suffix - 1])
        BY <1>1, <3>2 DEF Looping
      <4> QED BY <3>2, <4>1
    <3> QED BY <3>1, <3>2
  <2>4. suffix > 0 => shown.num >= shown.den
    BY <1>1 DEF Looping
  <2>5. suffix < Suffixes - 1 => shown.num <= shown.den * Unit
    <3> SUFFICES ASSUME suffix < Suffixes - 1
                 PROVE  shown.num <= shown.den * Unit
      OBVIOUS
    <3>1. bytes < Unit
      BY <2>2
    <3>2. suffix > 0 /\ shown.den = Unit /\ bytes = shown.num \div Unit
      BY <1>1, <3>1, UnitsAre DEF Looping
    <3>3. PICK m \in Nat : m = shown.num
      BY <1>1
    <3>4. PICK q \in Nat : q = m \div Unit /\ m < Unit * q + Unit
      BY QuotientIs, UnitsAre
    <3>5. q + 1 <= Unit /\ q + 1 \in Nat
      BY <3>1, <3>2, <3>3, <3>4, UnitsAre
    <3>6. Unit * (q + 1) <= Unit * Unit
      BY <3>5, UnitsAre, Scaled
    <3>7. Unit * (q + 1) = Unit * q + Unit /\ Unit * q \in Int /\ Unit * Unit \in Int
      BY UnitsAre
    <3>8. m <= Unit * Unit
      BY <3>4, <3>6, <3>7, UnitsAre
    <3> QED BY <3>2, <3>3, <3>8
  <2>6. Printed
    BY <2>3, <2>4, <2>5 DEF Printed
  <2>7. Printed'
    BY <1>1, <2>1, <2>6 DEF Printed, Fits
  <2>8. size \in ElementSizes
    BY DEF SizesInv
  <2> QED BY <1>1, <2>1, <2>7, <2>8 DEF SizesInv
<1> QED BY <1>3, <1>4

\* AlignedAllocator::allocate.
LEMMA SizesAllocate ==
    ASSUME SizesInv, Sizes!Allocate
    PROVE  SizesInv'
<1>1. /\ sizesAt = "enter" /\ UNCHANGED <<input, suffix, shown, size>>
      /\ input \in Nat /\ bytes \in Nat /\ suffix \in Nat /\ suffix < Suffixes
      /\ shown \in [num : Nat, den : {1, Unit}] /\ size \in ElementSizes
  BY DEF Sizes!Allocate, SizesInv
<1>2. PICK k \in Nat : k = size /\ k > 0
  BY <1>1, UnitsAre
<1>3. PICK w \in Nat : w = Word - 1
  BY UnitsAre
<1>4. PICK q \in Nat : q = w \div k /\ k * q <= w /\ w < k * q + k
  BY <1>2, QuotientIs
<1>5. PICK n \in Nat : n = input
  BY <1>1
<1>6. Sizes!TooMany(input) <=> n > q
  BY <1>2, <1>3, <1>4, <1>5 DEF Sizes!TooMany
<1>7. n * k \in Nat /\ n * k = k * n /\ k * q + k = k * (q + 1) /\ k * q \in Nat
  OBVIOUS
<1>8. CASE n > q
  <2>1. sizesAt' = "thrown" /\ UNCHANGED bytes
    BY <1>6, <1>8 DEF Sizes!Allocate
  <2>2. q + 1 \in Nat /\ q + 1 <= n
    BY <1>8
  <2>3. k * (q + 1) <= k * n
    BY <2>2, Scaled
  <2>4. n * k >= Word
    BY <1>3, <1>4, <1>7, <2>3, UnitsAre
  <2>5. input' * size' >= Word
    BY <1>1, <1>2, <1>5, <2>4
  <2> QED BY <1>1, <2>1, <2>5 DEF SizesInv
<1>9. CASE ~(n > q)
  <2>1. sizesAt' = "bytes" /\ bytes' = (input * size) % Word
    BY <1>6, <1>9 DEF Sizes!Allocate
  <2>2. k * n <= k * q
    BY <1>9, Scaled
  <2>3. n * k < Word
    BY <1>3, <1>4, <1>7, <2>2, UnitsAre
  <2>4. (n * k) % Word = n * k
    <3>1. PICK p \in Nat : p = n * k
      BY <1>7
    <3>2. p % Word = p
      BY <2>3, <3>1, UnitsAre
    <3> QED BY <3>1, <3>2
  <2>5. bytes' = n * k
    BY <1>2, <1>5, <2>1, <2>4
  <2>6. bytes' \in Nat /\ bytes' >= input' * size'
    BY <1>1, <1>2, <1>5, <1>7, <2>5
  <2> QED BY <1>1, <2>1, <2>6 DEF SizesInv
<1> QED BY <1>8, <1>9

\* Sizes, however they are computed.
LEMMA SizesGoOn ==
    ASSUME SizesInv, [Sizes!Next]_sizesVars
    PROVE  SizesInv'
<1>1. CASE UNCHANGED sizesVars \/ Sizes!Over
  <2>1. UNCHANGED <<input, bytes, suffix, shown, sizesAt, size>>
    BY <1>1 DEF sizesVars, Sizes!Over, Sizes!vars
  <2> QED BY <2>1 DEF SizesInv, Entered, Looping, Printed, Fits
<1> QED BY <1>1, SizesEnter, SizesLoop, SizesAllocate DEF Sizes!Next

\* At the beginning nothing has been computed.
LEMMA SizesBegin == Sizes!Init => SizesInv
<1> SUFFICES ASSUME Sizes!Init PROVE SizesInv
  OBVIOUS
<1>1. /\ input \in 0 .. Word - 1 /\ bytes = input /\ suffix = 0
      /\ shown = [num |-> 0, den |-> 1] /\ sizesAt = "enter" /\ size \in ElementSizes
  BY DEF Sizes!Init
<1> QED BY <1>1, UnitsAre DEF SizesInv, Entered

\* The sizes that are printed and allocated are what they should be.
LEMMA SizesTrue == SizesInv => Sizes!PrintedTrue /\ Sizes!AllocatedEnough
<1> SUFFICES ASSUME SizesInv
             PROVE  Sizes!PrintedTrue /\ Sizes!AllocatedEnough
  OBVIOUS
<1>1. Sizes!PrintedTrue
  BY DEF SizesInv, Printed, Fits, Sizes!PrintedTrue
<1>2. Sizes!AllocatedEnough
  BY DEF SizesInv, Sizes!AllocatedEnough
<1> QED BY <1>1, <1>2

-----------------------------------------------------------------------------
(***************************************************************************)
(* The calendar.  A year is counted from March, so that a leap day is its  *)
(* last; years come in eras of 400.                                        *)
(***************************************************************************)
\* The month of a day of the year, which begins in March.
LEMMA MonthOfYear ==
    ASSUME NEW mp \in 0 .. 11, NEW d \in 1 .. 31, NEW doy \in Int,
           doy = (153 * mp + 2) \div 5 + d - 1,
           doy < (153 * (mp + 1) + 2) \div 5
    PROVE  (5 * doy + 2) \div 153 = mp
  OBVIOUS

\* The months of a year that begins in March, from 0, and the days before each.
MarchMonth(m) == IF m > 2 THEN m - 3 ELSE m + 9
MarchYear(y, m) == IF m <= 2 THEN y - 1 ELSE y
DaysBefore(mp) == (153 * mp + 2) \div 5

\* The days before a year that begins in March.
YearStart(y) == (y \div 400) * 146097 + (y % 400) * 365 + (y % 400) \div 4 - (y % 400) \div 100

\* The day before the first of a month.
MonthStart(y, m) == YearStart(MarchYear(y, m)) + DaysBefore(MarchMonth(m)) - 719469

\* It is a day.
LEMMA MonthStartIs ==
    ASSUME NEW y \in Int, NEW m \in 1 .. 12
    PROVE  MonthStart(y, m) \in Int
<1>1. MarchYear(y, m) \in Int /\ MarchMonth(m) \in 0 .. 11
  BY DEF MarchYear, MarchMonth
<1>2. YearStart(MarchYear(y, m)) \in Int
  BY <1>1 DEF YearStart
<1>3. DaysBefore(MarchMonth(m)) \in Int
  BY <1>1 DEF DaysBefore
<1> QED BY <1>2, <1>3 DEF MonthStart

\* What to_days computes.
LEMMA ToDaysIs ==
    ASSUME NEW y \in Int, NEW m \in 1 .. 12, NEW d \in Int
    PROVE  Walk!ToDays(Walk!Ymd(y, m, d)) = MonthStart(y, m) + d
<1>1. PICK n \in Int : n = y - (IF m <= 2 THEN 1 ELSE 0) /\ n = MarchYear(y, m)
  BY DEF MarchYear
<1>2. PICK q \in Int : q = n \div 400 /\ n - q * 400 = n % 400
  OBVIOUS
<1>3. Walk!Quotient(IF n >= 0 THEN n ELSE n - 399, 400) = q
  BY <1>2 DEF Walk!Quotient
<1>4. PICK r \in Int : r = n % 400
  OBVIOUS
<1>5. (153 * (IF m > 2 THEN m - 3 ELSE m + 9) + 2) \div 5 = DaysBefore(MarchMonth(m))
  BY DEF DaysBefore, MarchMonth
<1>6. PICK e \in Int : e = DaysBefore(MarchMonth(m))
  BY <1>5
<1>7. Walk!ToDays([y |-> y, m |-> m, d |-> d])
        = q * 146097 + (r * 365 + r \div 4 - r \div 100 + (e + d - 1)) - 719468
  BY <1>1, <1>2, <1>3, <1>4, <1>5, <1>6 DEF Walk!ToDays
<1>8. YearStart(MarchYear(y, m)) = q * 146097 + r * 365 + r \div 4 - r \div 100
  BY <1>1, <1>2, <1>4 DEF YearStart
<1>9. Walk!ToDays(Walk!Ymd(y, m, d)) = Walk!ToDays([y |-> y, m |-> m, d |-> d])
  BY DEF Walk!Ymd
<1> QED BY <1>6, <1>7, <1>8, <1>9 DEF MonthStart

\* How long a year that begins in March is.
LEMMA YearsFollow ==
    ASSUME NEW y \in Int
    PROVE  YearStart(y + 1) = YearStart(y) + (IF Walk!LeapYear(y + 1) THEN 366 ELSE 365)
  BY DEF YearStart, Walk!LeapYear

\* Months follow one another.
LEMMA MonthsFollow ==
    ASSUME NEW y \in Int, NEW m \in 1 .. 12
    PROVE  MonthStart(y, m) + Walk!MonthLength(y, m)
             = IF m < 12 THEN MonthStart(y, m + 1) ELSE MonthStart(y + 1, 1)
<1>1. CASE m = 2
  <2>1. YearStart(y) = YearStart(y - 1) + (IF Walk!LeapYear(y) THEN 366 ELSE 365)
    <3>1. y - 1 \in Int /\ (y - 1) + 1 = y
      OBVIOUS
    <3> QED BY <3>1, YearsFollow
  <2>2. YearStart(y - 1) \in Int /\ YearStart(y) \in Int
    BY DEF YearStart
  <2>3. DaysBefore(0) = 0 /\ DaysBefore(11) = 337
    BY DEF DaysBefore
  <2>4. Walk!MonthLength(y, m) = IF Walk!LeapYear(y) THEN 29 ELSE 28
    BY <1>1 DEF Walk!MonthLength
  <2>5. MonthStart(y, m) = YearStart(y - 1) + DaysBefore(11) - 719469
    BY <1>1 DEF MonthStart, MarchYear, MarchMonth
  <2>6. MonthStart(y, m + 1) = YearStart(y) + DaysBefore(0) - 719469
    BY <1>1 DEF MonthStart, MarchYear, MarchMonth
  <2> QED BY <1>1, <2>1, <2>2, <2>3, <2>4, <2>5, <2>6
<1>2. CASE m # 2
  <2>1. PICK ny \in Int, nm \in 1 .. 12 :
          ny = (IF m < 12 THEN y ELSE y + 1) /\ nm = (IF m < 12 THEN m + 1 ELSE 1)
    OBVIOUS
  <2>2. MarchYear(ny, nm) = MarchYear(y, m)
    BY <1>2, <2>1 DEF MarchYear
  <2>3. DaysBefore(MarchMonth(m)) + Walk!MonthLength(y, m) = DaysBefore(MarchMonth(nm))
    BY <1>2, <2>1 DEF Walk!MonthLength, DaysBefore, MarchMonth
  <2>4. YearStart(MarchYear(y, m)) \in Int
    BY DEF YearStart, MarchYear
  <2>5. DaysBefore(MarchMonth(m)) \in Int /\ Walk!MonthLength(y, m) \in Int
    BY DEF DaysBefore, MarchMonth, Walk!MonthLength
  <2>6. MonthStart(y, m) + Walk!MonthLength(y, m) = MonthStart(ny, nm)
    BY <2>2, <2>3, <2>4, <2>5 DEF MonthStart
  <2> QED BY <2>1, <2>6
<1> QED BY <1>1, <1>2

\* A date of the calendar.
IsDate(c) ==
    /\ c \in [y : Int, m : 1 .. 12, d : Nat]
    /\ c.d \in 1 .. Walk!MonthLength(c.y, c.m)

\* A record is its fields.
LEMMA DateFields ==
    ASSUME NEW c, IsDate(c)
    PROVE  /\ c = Walk!Ymd(c.y, c.m, c.d)
           /\ c.y \in Int /\ c.m \in 1 .. 12 /\ c.d \in Nat /\ c.d > 0
           /\ c.d <= Walk!MonthLength(c.y, c.m) /\ Walk!MonthLength(c.y, c.m) \in 28 .. 31
<1>1. c \in [y : Int, m : 1 .. 12, d : Nat]
  BY DEF IsDate
<1>2. Walk!MonthLength(c.y, c.m) \in 28 .. 31
  BY DEF Walk!MonthLength
<1> QED BY <1>1, <1>2 DEF IsDate, Walk!Ymd

\* The day after a date of the calendar is one, and is one day later.
LEMMA DayAfterIs ==
    ASSUME NEW c, IsDate(c)
    PROVE  /\ IsDate(Walk!DayAfter(c))
           /\ Walk!ToDays(c) \in Int
           /\ Walk!ToDays(Walk!DayAfter(c)) = Walk!ToDays(c) + 1
<1>1. /\ c = Walk!Ymd(c.y, c.m, c.d)
      /\ c.y \in Int /\ c.m \in 1 .. 12 /\ c.d \in Nat /\ c.d > 0
      /\ c.d <= Walk!MonthLength(c.y, c.m) /\ Walk!MonthLength(c.y, c.m) \in 28 .. 31
  BY DateFields
<1>2. PICK y \in Int, m \in 1 .. 12, d \in Nat : y = c.y /\ m = c.m /\ d = c.d
  BY <1>1
<1>3. c = Walk!Ymd(y, m, d) /\ d > 0 /\ d <= Walk!MonthLength(y, m)
      /\ Walk!MonthLength(y, m) \in 28 .. 31
  BY <1>1, <1>2
<1>4. MonthStart(y, m) \in Int /\ Walk!ToDays(c) = MonthStart(y, m) + d
  <2>1. MonthStart(y, m) \in Int
    BY MonthStartIs
  <2>2. Walk!ToDays(Walk!Ymd(y, m, d)) = MonthStart(y, m) + d
    BY ToDaysIs
  <2> QED BY <1>3, <2>1, <2>2
<1>5. CASE d < Walk!MonthLength(y, m)
  <2>1. Walk!DayAfter(c) = Walk!Ymd(y, m, d + 1)
    BY <1>3, <1>5 DEF Walk!DayAfter, Walk!Ymd
  <2>2. IsDate(Walk!Ymd(y, m, d + 1))
    BY <1>3, <1>5 DEF IsDate, Walk!Ymd
  <2>3. Walk!ToDays(Walk!Ymd(y, m, d + 1)) = MonthStart(y, m) + (d + 1)
    BY ToDaysIs
  <2> QED BY <1>4, <2>1, <2>2, <2>3
<1>6. CASE ~(d < Walk!MonthLength(y, m))
  <2>1. d = Walk!MonthLength(y, m)
    BY <1>3, <1>6
  <2>2. PICK ny \in Int, nm \in 1 .. 12 :
          ny = (IF m < 12 THEN y ELSE y + 1) /\ nm = (IF m < 12 THEN m + 1 ELSE 1)
    OBVIOUS
  <2>3. Walk!DayAfter(c) = Walk!Ymd(ny, nm, 1)
    BY <1>3, <1>6, <2>2 DEF Walk!DayAfter, Walk!Ymd
  <2>4. IsDate(Walk!Ymd(ny, nm, 1))
    <3>1. 1 <= Walk!MonthLength(ny, nm) /\ Walk!MonthLength(ny, nm) \in Int
      BY DEF Walk!MonthLength
    <3> QED BY <3>1 DEF IsDate, Walk!Ymd
  <2>5. MonthStart(ny, nm) = MonthStart(y, m) + d
    BY <2>1, <2>2, MonthsFollow
  <2>6. Walk!ToDays(Walk!Ymd(ny, nm, 1)) = MonthStart(ny, nm) + 1
    BY ToDaysIs
  <2> QED BY <1>4, <2>3, <2>4, <2>5, <2>6
<1> QED BY <1>5, <1>6

\* The day before is a date of the calendar, and the one that it comes after.
LEMMA DayBeforeIs ==
    ASSUME NEW c, IsDate(c)
    PROVE  /\ IsDate(Walk!DayBefore(c))
           /\ Walk!ToDays(Walk!DayBefore(c)) = Walk!ToDays(c) - 1
<1>1. /\ c = Walk!Ymd(c.y, c.m, c.d)
      /\ c.y \in Int /\ c.m \in 1 .. 12 /\ c.d \in Nat /\ c.d > 0
      /\ c.d <= Walk!MonthLength(c.y, c.m) /\ Walk!MonthLength(c.y, c.m) \in 28 .. 31
  BY DateFields
<1>2. PICK y \in Int, m \in 1 .. 12, d \in Nat : y = c.y /\ m = c.m /\ d = c.d
  BY <1>1
<1>3. c = Walk!Ymd(y, m, d) /\ d > 0 /\ d <= Walk!MonthLength(y, m)
      /\ Walk!MonthLength(y, m) \in 28 .. 31
  BY <1>1, <1>2
<1>4. PICK b : b = Walk!DayBefore(c)
  OBVIOUS
<1>5. IsDate(b) /\ Walk!DayAfter(b) = c
  <2>1. CASE d > 1
    <3>1. b = Walk!Ymd(y, m, d - 1)
      BY <1>3, <1>4, <2>1 DEF Walk!DayBefore, Walk!Ymd
    <3> QED BY <1>3, <2>1, <3>1 DEF IsDate, Walk!DayAfter, Walk!Ymd
  <2>2. CASE d = 1 /\ m > 1
    <3>1. b = Walk!Ymd(y, m - 1, Walk!MonthLength(y, m - 1))
      BY <1>3, <1>4, <2>2 DEF Walk!DayBefore, Walk!Ymd
    <3>2. m - 1 \in 1 .. 12 /\ m - 1 < 12 /\ Walk!MonthLength(y, m - 1) \in 28 .. 31
      BY <2>2 DEF Walk!MonthLength
    <3> QED BY <1>3, <2>2, <3>1, <3>2 DEF IsDate, Walk!DayAfter, Walk!Ymd
  <2>3. CASE d = 1 /\ m = 1
    <3>1. b = Walk!Ymd(y - 1, 12, 31)
      BY <1>3, <1>4, <2>3 DEF Walk!DayBefore, Walk!Ymd
    <3>2. Walk!MonthLength(y - 1, 12) = 31
      BY DEF Walk!MonthLength
    <3> QED BY <1>3, <2>3, <3>1, <3>2 DEF IsDate, Walk!DayAfter, Walk!Ymd
  <2> QED BY <1>3, <2>1, <2>2, <2>3
<1>6. Walk!ToDays(b) \in Int /\ Walk!ToDays(c) = Walk!ToDays(b) + 1
  BY <1>5, DayAfterIs
<1> QED BY <1>4, <1>5, <1>6

\* What is assumed of unsigned.
LEMMA WordIs == UnsignedWord \in Nat /\ UnsignedWord % 14 = 4 /\ UnsignedWord >= 16777216
  BY VendoredAssumption
     DEF VendoredAssumption, Walk!CalendarAssumption, Walk!DatesAssumption

\* The years of which a year_month_day can say the days.
Representable(y) == y >= -32767 /\ y <= 32767

\* The day of a year that begins in March; only a leap year has a last.
LEMMA DaysOfYear ==
    ASSUME NEW y \in Int, NEW m \in 1 .. 12, NEW d \in Int,
           1 <= d, d <= Walk!MonthLength(y, m)
    PROVE  /\ 0 <= DaysBefore(MarchMonth(m)) + d - 1
           /\ DaysBefore(MarchMonth(m)) + d - 1 <= 365
           /\ DaysBefore(MarchMonth(m)) + d - 1 < DaysBefore(MarchMonth(m) + 1)
           /\ DaysBefore(MarchMonth(m)) + d - 1 = 365 => m = 2 /\ Walk!LeapYear(y)
  BY DEF Walk!MonthLength, DaysBefore, MarchMonth

\* What from_days computes, of a day of an era.
LEMMA FromDaysIs ==
    ASSUME NEW t \in Int, NEW q \in Int, NEW doe \in Int, 0 <= doe, doe <= 146096,
           t + 719468 = q * 146097 + doe
    PROVE  Walk!FromDays(t) = Walk!DateOfEra(q, doe)
<1>1. PICK n \in Int : n = t + 719468
  OBVIOUS
<1>2. Walk!Quotient(IF n >= 0 THEN n ELSE n - 146096, 146097) = q
  <2>1. n = q * 146097 + doe
    BY <1>1
  <2>2. CASE n >= 0
    BY <2>1, <2>2 DEF Walk!Quotient
  <2>3. CASE ~(n >= 0)
    BY <2>1, <2>3 DEF Walk!Quotient
  <2> QED BY <2>2, <2>3
<1>3. n - q * 146097 = doe
  BY <1>1
<1>4. Walk!Unsigned(doe) = doe
  BY WordIs DEF Walk!Unsigned
<1>5. Walk!FromDays(t)
        = LET era == Walk!Quotient(IF n >= 0 THEN n ELSE n - 146096, 146097)
          IN  Walk!DateOfEra(era, Walk!Unsigned(n - era * 146097))
  BY <1>1 DEF Walk!FromDays
<1> QED BY <1>2, <1>3, <1>4, <1>5

\* from_days finds the date that to_days was given.
LEMMA FromDaysInverts ==
    ASSUME NEW c, IsDate(c), Representable(c.y)
    PROVE  Walk!FromDays(Walk!ToDays(c)) = c
<1>1. /\ c = Walk!Ymd(c.y, c.m, c.d)
      /\ c.y \in Int /\ c.m \in 1 .. 12 /\ c.d \in Nat /\ c.d > 0
      /\ c.d <= Walk!MonthLength(c.y, c.m) /\ Walk!MonthLength(c.y, c.m) \in 28 .. 31
  BY DateFields
<1>2. PICK y \in Int, m \in 1 .. 12, d \in 1 .. 31 : y = c.y /\ m = c.m /\ d = c.d
  BY <1>1
<1>3. c = Walk!Ymd(y, m, d) /\ d <= Walk!MonthLength(y, m)
  BY <1>1, <1>2
<1>4. PICK n \in Int : n = MarchYear(y, m) /\ n + (IF m <= 2 THEN 1 ELSE 0) = y
  BY DEF MarchYear
<1>5. PICK mp \in 0 .. 11 : /\ mp = MarchMonth(m)
                            /\ (IF mp < 10 THEN mp + 3 ELSE mp - 9) = m
  BY DEF MarchMonth
<1>6. PICK q \in Int, yoe \in 0 .. 399 : q = n \div 400 /\ yoe = n % 400 /\ n = q * 400 + yoe
  OBVIOUS
<1>7. PICK doy \in Int : doy = DaysBefore(mp) + d - 1
  BY DEF DaysBefore
<1>8. 0 <= doy /\ doy <= 365 /\ doy < DaysBefore(mp + 1)
  BY <1>3, <1>5, <1>7, DaysOfYear
<1>9. doy = 365 => Walk!LeapYear(yoe + 1)
  <2>1. doy = 365 => m = 2 /\ Walk!LeapYear(y)
    BY <1>3, <1>5, <1>7, DaysOfYear
  <2>2. m = 2 => y = q * 400 + yoe + 1
    BY <1>4, <1>6
  <2>3. y = q * 400 + yoe + 1 /\ Walk!LeapYear(y) => Walk!LeapYear(yoe + 1)
    BY DEF Walk!LeapYear
  <2> QED BY <2>1, <2>2, <2>3
<1>10. PICK doe \in Int : doe = yoe * 365 + yoe \div 4 - yoe \div 100 + doy
  OBVIOUS
<1>11. 0 <= doe /\ doe <= 146096
  BY <1>8, <1>9, <1>10 DEF Walk!LeapYear
<1>12. PICK t \in Int : t = Walk!ToDays(c) /\ t + 719468 = q * 146097 + doe
  <2>1. Walk!ToDays(c) = YearStart(n) + DaysBefore(mp) - 719469 + d
    BY <1>3, <1>4, <1>5, ToDaysIs DEF MonthStart
  <2>2. YearStart(n) = q * 146097 + yoe * 365 + yoe \div 4 - yoe \div 100
    BY <1>6 DEF YearStart
  <2>3. DaysBefore(mp) \in Int
    BY DEF DaysBefore
  <2> QED BY <1>7, <1>10, <2>1, <2>2, <2>3
<1>13. Walk!FromDays(t) = Walk!DateOfEra(q, doe)
  BY <1>11, <1>12, FromDaysIs
<1>14. Walk!YearOfEra(doe) = yoe
  BY <1>8, <1>9, <1>10 DEF Walk!LeapYear, Walk!YearOfEra
<1>15. Walk!DayFromMarch(doe, yoe) = doy
  BY <1>10 DEF Walk!DayFromMarch
<1>16. Walk!DateOfEra(q, doe) = Walk!DateOfYear(n, doy)
  <2>1. yoe + q * 400 = n
    BY <1>6
  <2> QED BY <1>14, <1>15, <2>1 DEF Walk!DateOfEra
<1>17. (5 * doy + 2) \div 153 = mp
  BY <1>7, <1>8, MonthOfYear DEF DaysBefore
<1>18. doy - (153 * mp + 2) \div 5 + 1 = d
  BY <1>7 DEF DaysBefore
<1>19. Walk!UnsignedChar(m) = m /\ Walk!UnsignedChar(d) = d
  BY DEF Walk!UnsignedChar
<1>20. Walk!Short(y) = y
  <2>1. y >= -32767 /\ y <= 32767
    BY <1>2 DEF Representable
  <2> QED BY <2>1 DEF Walk!Short
<1>21. Walk!DateOfYear(n, doy) = Walk!Ymd(y, m, d)
  BY <1>4, <1>5, <1>17, <1>18, <1>19, <1>20 DEF Walk!DateOfYear
<1> QED BY <1>3, <1>12, <1>13, <1>16, <1>21

\* The last day of a month is what everyone knows.
LEMMA LastDayIs ==
    ASSUME NEW ym, NEW y \in Int, NEW m \in 1 .. 12, ym.y = y, ym.m = m
    PROVE  Walk!LastDay(ym) = Walk!MonthLength(y, m)
<1> DEFINE days == [Walk!MonthDayLast EXCEPT ![2] = 28]
<1>1. \A k \in 1 .. 12 :
        days[k] = IF k = 2 THEN 28 ELSE IF k \in {4, 6, 9, 11} THEN 30 ELSE 31
  BY DEF Walk!MonthDayLast
<1>2. Walk!IsLeap(y) <=> Walk!LeapYear(y)
  BY DEF Walk!IsLeap, Walk!LeapYear
<1>3. Walk!LastDay(ym)
        = IF (m # 2 \/ ~Walk!IsLeap(y)) /\ Walk!MonthOk(m) THEN days[m] ELSE 29
  BY DEF Walk!LastDay
<1>4. Walk!MonthOk(m)
  BY DEF Walk!MonthOk
<1> HIDE DEF days
<1> QED BY <1>1, <1>2, <1>3, <1>4 DEF Walk!MonthLength

\* The days that a month can have are those of a leap year.
LEMMA MonthDayIs ==
    ASSUME NEW m \in 1 .. 12
    PROVE  Walk!MonthDayLast[m] = Walk!MonthLength(2000, m)
<1>1. Walk!LeapYear(2000)
  BY DEF Walk!LeapYear
<1> QED BY <1>1 DEF Walk!MonthDayLast, Walk!MonthLength

\* The weekday of a day.
LEMMA WeekdayIs ==
    ASSUME NEW t \in Int, t >= -16000000, t <= 16000000
    PROVE  Walk!WeekdayFromDays(t) = (t + 4) % 7
<1>1. PICK w \in Int : w = UnsignedWord /\ w % 14 = 4 /\ w >= 16777216
  BY WordIs
<1>2. PICK k \in Int : w = 14 * k + 4
  BY <1>1
<1>3. CASE t >= 0
  <2>1. t % w = t /\ (t + 4) % w = t + 4
    BY <1>1, <1>3
  <2> QED BY <1>1, <1>3, <2>1 DEF Walk!WeekdayFromDays, Walk!Unsigned
<1>4. CASE t < 0
  <2>1. t % w = t + w
    BY <1>1, <1>4
  <2>2. CASE t >= -4
    <3>1. (t + w + 4) % w = t + 4
      BY <1>1, <1>4, <2>2
    <3> QED BY <1>1, <1>4, <2>1, <2>2, <3>1 DEF Walk!WeekdayFromDays, Walk!Unsigned
  <2>3. CASE t < -4
    <3>1. (t + w) % 7 = (t + 4) % 7
      BY <1>2
    <3> QED BY <1>1, <2>1, <2>3, <3>1 DEF Walk!WeekdayFromDays, Walk!Unsigned
  <2> QED BY <2>2, <2>3
<1> QED BY <1>3, <1>4

\* The days from a weekday to another.
LEMMA WeekdayMinusIs ==
    ASSUME NEW x \in 0 .. 6, NEW y \in 0 .. 6
    PROVE  Walk!WeekdayMinus(x, y) = (x - y) % 7
  BY DEF Walk!WeekdayMinus, Walk!Quotient

\* The weekday after some days.
LEMMA WeekdayPlusIs ==
    ASSUME NEW wd \in 0 .. 6, NEW n \in Int
    PROVE  Walk!WeekdayPlus(wd, n) = (wd + n) % 7
<1>1. PICK s \in Int : s = wd + n
  OBVIOUS
<1>2. Walk!Quotient(IF s >= 0 THEN s ELSE s - 6, 7) = s \div 7
  BY DEF Walk!Quotient
<1>3. PICK r \in 0 .. 6 : r = s - 7 * (s \div 7) /\ r = s % 7
  OBVIOUS
<1>4. Walk!Weekday(r) = r
  BY DEF Walk!Weekday, Walk!UnsignedChar
<1>5. Walk!WeekdayPlus(wd, n) = Walk!Weekday(s - 7 * (s \div 7))
  BY <1>1, <1>2 DEF Walk!WeekdayPlus
<1> QED BY <1>1, <1>3, <1>4, <1>5

\* The p-th month of year q is n months after that of ym, and q is a short.
MonthsOn(ym, n, q, p) ==
    /\ ym.y \in Int /\ ym.m \in 1 .. 12 /\ n \in Int /\ q \in Int /\ p \in 1 .. 12
    /\ 12 * q + p = 12 * ym.y + ym.m + n
    /\ -32767 <= q /\ q <= 32767

\* A month that is moved by a number of months.
LEMMA YearMonthPlusIs ==
    ASSUME NEW ym, NEW n, NEW q, NEW p, MonthsOn(ym, n, q, p)
    PROVE  Walk!YearMonthPlus(ym, n) = Walk!YearMonth(q, p)
<1> n \in Int /\ q \in Int /\ p \in 1 .. 12 /\ -32767 <= q /\ q <= 32767
  BY DEF MonthsOn
<1>0. PICK y \in Int, m \in 1 .. 12 : ym.y = y /\ ym.m = m /\ 12 * q + p = 12 * y + m + n
  BY DEF MonthsOn
<1>1. PICK s \in Int : s = m - 1 + n
  OBVIOUS
<1>2. PICK e \in Int : e = s \div 12
  OBVIOUS
<1>3. Walk!Quotient(IF s >= 0 THEN s ELSE s - 11, 12) = e
  BY <1>2 DEF Walk!Quotient
<1>4. y + e = q /\ s - e * 12 + 1 = p
  BY <1>0, <1>1, <1>2
<1>5. Walk!Short(q) = q
  BY DEF Walk!Short
<1>6. Walk!UnsignedChar(p) = p
  BY DEF Walk!UnsignedChar
<1>7. Walk!YearMonthPlus(ym, n)
        = Walk!YearMonth(Walk!Short(y + e), Walk!UnsignedChar(s - e * 12 + 1))
  BY <1>0, <1>1, <1>3 DEF Walk!YearMonthPlus, Walk!YearPlus
<1> QED BY <1>4, <1>5, <1>6, <1>7

\* A small number survives unsigned.
LEMMA SignedIs ==
    ASSUME NEW n \in Int, n >= -100, n <= 100
    PROVE  Walk!Signed(Walk!Unsigned(n)) = n
<1>1. PICK w \in Int : w = UnsignedWord /\ w % 14 = 4 /\ w >= 16777216
  BY WordIs
<1>2. n % w = IF n >= 0 THEN n ELSE n + w
  BY <1>1
<1> QED BY <1>1, <1>2 DEF Walk!Signed, Walk!Unsigned

\* The months from a month to another.
LEMMA MonthMinusIs ==
    ASSUME NEW x \in 1 .. 12, NEW y \in 1 .. 12
    PROVE  Walk!MonthMinus(x, y) = (x - y) % 12
<1>1. PICK w \in Int : w = UnsignedWord /\ w % 14 = 4 /\ w >= 16777216
  BY WordIs
<1>2. PICK n \in -11 .. 11 : n = x - y
  OBVIOUS
<1>3. n % w = (IF n >= 0 THEN n ELSE n + w) /\ (n + w + 12) % w = n + 12
  BY <1>1
<1>4. Walk!Unsigned(n) = IF n >= 0 THEN n ELSE n + w
  BY <1>1, <1>3 DEF Walk!Unsigned
<1>5. Walk!Unsigned((n + w) + 12) = n + 12
  BY <1>1, <1>3 DEF Walk!Unsigned
<1>6. CASE n >= 0
  <2>1. Walk!MonthMinus(x, y) = Walk!Signed(n)
    BY <1>2, <1>4, <1>6 DEF Walk!MonthMinus
  <2> QED BY <1>1, <1>2, <1>6, <2>1 DEF Walk!Signed
<1>7. CASE n < 0
  <2>1. Walk!MonthMinus(x, y) = Walk!Signed(n + 12)
    BY <1>1, <1>2, <1>4, <1>5, <1>7 DEF Walk!MonthMinus
  <2> QED BY <1>1, <1>2, <1>7, <2>1 DEF Walk!Signed
<1> QED BY <1>6, <1>7

\* The month after some months.
LEMMA MonthPlusIs ==
    ASSUME NEW m \in 1 .. 12, NEW n \in Int
    PROVE  Walk!MonthPlus(m, n) = ((m - 1 + n) % 12) + 1
<1>1. PICK s \in Int : s = m + n - 1 /\ s = m - 1 + n
  OBVIOUS
<1>2. Walk!Quotient(IF s >= 0 THEN s ELSE s - 11, 12) = s \div 12
  BY DEF Walk!Quotient
<1>3. PICK r \in 1 .. 12 : r = s - (s \div 12) * 12 + 1 /\ r = (s % 12) + 1
  OBVIOUS
<1>4. Walk!MonthPlus(m, n) = Walk!UnsignedChar(s - (s \div 12) * 12 + 1)
  BY <1>1, <1>2 DEF Walk!MonthPlus
<1> QED BY <1>1, <1>3, <1>4 DEF Walk!UnsignedChar

\* How often the weekday of a day of the month has come by then.
OccurrencesBy(d) == Cardinality({k \in 1 .. d : (d - k) % 7 = 0})

\* They are one more than the weeks before.
LEMMA OccurrencesAre ==
    ASSUME NEW d \in 1 .. 31
    PROVE  OccurrencesBy(d) = (d - 1) \div 7 + 1
<1> DEFINE Last(n) == {k \in 1 .. n : (n - k) % 7 = 0}
<1>1. ASSUME NEW n \in Int, n >= 8
      PROVE  Last(n) = Last(n - 7) \cup {n} /\ n \notin Last(n - 7)
  <2>1. ASSUME NEW k \in Int
        PROVE  k \in 1 .. n /\ (n - k) % 7 = 0
                 <=> k = n \/ (k \in 1 .. n - 7 /\ (n - 7 - k) % 7 = 0)
    BY <1>1
  <2> QED BY <1>1, <2>1
<1>2. ASSUME NEW n \in 1 .. 7
      PROVE  IsFiniteSet(Last(n)) /\ Cardinality(Last(n)) = 1
  <2>1. Last(n) = {n}
    OBVIOUS
  <2> HIDE DEF Last
  <2> QED BY <2>1, FS_Singleton
<1> HIDE DEF Last
<1> DEFINE AsMany(n) == IsFiniteSet(Last(n)) /\ Cardinality(Last(n)) = (n - 1) \div 7 + 1
<1>3. ASSUME NEW n \in Int, n >= 8, AsMany(n - 7)
      PROVE  AsMany(n)
  <2>1. IsFiniteSet(Last(n)) /\ Cardinality(Last(n)) = Cardinality(Last(n - 7)) + 1
    BY <1>1, <1>3, FS_AddElement
  <2>2. (n - 1) \div 7 + 1 = ((n - 7 - 1) \div 7 + 1) + 1
    OBVIOUS
  <2>3. Cardinality(Last(n - 7)) = (n - 7 - 1) \div 7 + 1
    BY <1>3
  <2> QED BY <2>1, <2>2, <2>3
<1>4. \A n \in 1 .. 7 : AsMany(n)
  <2>1. \A n \in 1 .. 7 : (n - 1) \div 7 + 1 = 1
    OBVIOUS
  <2> QED BY <1>2, <2>1
<1> HIDE DEF AsMany
<1>5. \A n \in 8 .. 14 : AsMany(n)
  <2> SUFFICES ASSUME NEW n \in 8 .. 14 PROVE AsMany(n)
    OBVIOUS
  <2>1. n - 7 \in 1 .. 7 /\ n \in Int /\ n >= 8
    OBVIOUS
  <2> QED BY <1>3, <1>4, <2>1
<1>6. \A n \in 15 .. 21 : AsMany(n)
  <2> SUFFICES ASSUME NEW n \in 15 .. 21 PROVE AsMany(n)
    OBVIOUS
  <2>1. n - 7 \in 8 .. 14 /\ n \in Int /\ n >= 8
    OBVIOUS
  <2> QED BY <1>3, <1>5, <2>1
<1>7. \A n \in 22 .. 28 : AsMany(n)
  <2> SUFFICES ASSUME NEW n \in 22 .. 28 PROVE AsMany(n)
    OBVIOUS
  <2>1. n - 7 \in 15 .. 21 /\ n \in Int /\ n >= 8
    OBVIOUS
  <2> QED BY <1>3, <1>6, <2>1
<1>8. \A n \in 29 .. 35 : AsMany(n)
  <2> SUFFICES ASSUME NEW n \in 29 .. 35 PROVE AsMany(n)
    OBVIOUS
  <2>1. n - 7 \in 22 .. 28 /\ n \in Int /\ n >= 8
    OBVIOUS
  <2> QED BY <1>3, <1>7, <2>1
<1>9. AsMany(d)
  <2>1. d \in 1 .. 7 \/ d \in 8 .. 14 \/ d \in 15 .. 21 \/ d \in 22 .. 28 \/ d \in 29 .. 35
    OBVIOUS
  <2> QED BY <1>4, <1>5, <1>6, <1>7, <1>8, <2>1
<1> QED BY <1>9 DEF AsMany, Last, OccurrencesBy

\* What a number is, of a unit: so many, and a rest.
LEMMA UnitsOf ==
    ASSUME NEW n \in Int, NEW u \in Nat, u > 0
    PROVE  /\ n \div u \in Int /\ u * (n \div u) <= n /\ n < u * (n \div u) + u
           /\ \A q \in Int : u * q <= n /\ n < u * q + u => q = n \div u
  OBVIOUS

\* A number of days rounded down to a unit.
LEMMA FloorIs ==
    ASSUME NEW n \in Int, NEW u \in Nat, u > 0
    PROVE  Walk!DurationFloor(n, u) = n \div u
<1>1. PICK t \in Int : t = Walk!DurationTrunc(n, u)
                       /\ (n >= 0 => t = n \div u) /\ (n < 0 => t = -((-n) \div u))
  BY DEF Walk!DurationTrunc, Walk!Quotient
<1>2. Walk!DurationFloor(n, u) = IF t * u > n THEN t - 1 ELSE t
  BY <1>1 DEF Walk!DurationFloor
<1>3. \A q \in Int : u * q <= n /\ n < u * q + u => q = n \div u
  BY UnitsOf
<1>4. CASE n >= 0
  <2>1. u * t <= n /\ t * u = u * t
    BY <1>1, <1>4, UnitsOf
  <2> QED BY <1>1, <1>2, <1>4, <2>1
<1>5. CASE n < 0
  <2>1. PICK k \in Int : k = (-n) \div u /\ u * k <= -n /\ -n < u * k + u
    <3>1. -n \in Int
      OBVIOUS
    <3> QED BY <3>1, UnitsOf
  <2>2. t = -k
    BY <1>1, <1>5, <2>1
  <2>3. t * u = -(u * k) /\ u * t = -(u * k) /\ u * (t - 1) = -(u * k) - u
    BY <2>2
  <2>4. CASE t * u > n
    <3>1. u * (t - 1) <= n /\ n < u * (t - 1) + u /\ t - 1 \in Int
      BY <2>1, <2>3, <2>4
    <3> QED BY <1>2, <1>3, <2>4, <3>1
  <2>5. CASE ~(t * u > n)
    <3>1. u * t <= n /\ n < u * t + u
      BY <2>1, <2>3, <2>5
    <3> QED BY <1>2, <1>3, <2>5, <3>1
  <2> QED BY <2>4, <2>5
<1> QED BY <1>4, <1>5

\* A number of days rounded up to a unit.
LEMMA CeilIs ==
    ASSUME NEW n \in Int, NEW u \in Nat, u > 0
    PROVE  Walk!DurationCeil(n, u) = -((-n) \div u)
<1>1. PICK t \in Int : t = Walk!DurationTrunc(n, u)
                       /\ (n >= 0 => t = n \div u) /\ (n < 0 => t = -((-n) \div u))
  BY DEF Walk!DurationTrunc, Walk!Quotient
<1>2. Walk!DurationCeil(n, u) = IF t * u < n THEN t + 1 ELSE t
  BY <1>1 DEF Walk!DurationCeil
<1>3. PICK k \in Int : k = (-n) \div u /\ u * k <= -n /\ -n < u * k + u
  <2>1. -n \in Int
    OBVIOUS
  <2> QED BY <2>1, UnitsOf
<1>4. \A q \in Int : u * q <= -n /\ -n < u * q + u => q = (-n) \div u
  <2>1. -n \in Int
    OBVIOUS
  <2> QED BY <2>1, UnitsOf
<1>5. CASE n < 0
  <2>1. t = -k
    BY <1>1, <1>3, <1>5
  <2>2. t * u = -(u * k)
    BY <2>1
  <2> QED BY <1>2, <1>3, <2>1, <2>2
<1>6. CASE n >= 0
  <2>1. u * t <= n /\ n < u * t + u
    BY <1>1, <1>6, UnitsOf
  <2>2. t * u = u * t /\ u * (-t) = -(u * t) /\ u * (-t - 1) = -(u * t) - u
    OBVIOUS
  <2>3. CASE t * u < n
    <3>1. u * (-t - 1) <= -n /\ -n < u * (-t - 1) + u /\ -t - 1 \in Int
      BY <2>1, <2>2, <2>3
    <3>2. -t - 1 = (-n) \div u
      BY <1>4, <3>1
    <3> QED BY <1>2, <1>3, <2>3, <3>2
  <2>4. CASE ~(t * u < n)
    <3>1. u * (-t) <= -n /\ -n < u * (-t) + u /\ -t \in Int
      BY <2>1, <2>2, <2>4
    <3>2. -t = (-n) \div u
      BY <1>4, <3>1
    <3> QED BY <1>2, <1>3, <2>4, <3>2
  <2> QED BY <2>3, <2>4
<1> QED BY <1>5, <1>6

\* Rounded to the nearest, to the even one of two.
LEMMA RoundIs ==
    ASSUME NEW n \in Int, NEW u \in Nat, u > 0, NEW r, r = Walk!DurationRound(n, u),
           NEW q \in {n \div u, n \div u + 1}
    PROVE  \/ Walk!Magnitude(n - r * u) < Walk!Magnitude(n - q * u)
           \/ r = q
           \/ (Walk!Magnitude(n - r * u) = Walk!Magnitude(n - q * u) /\ r % 2 = 0)
<1>1. PICK t \in Int : t = n \div u /\ u * t <= n /\ n < u * t + u
  BY UnitsOf
<1>2. PICK p \in Int : p = t * u /\ p <= n /\ n < p + u /\ (t + 1) * u = p + u
  BY <1>1
<1>3. PICK a \in Nat : a = n - p
  BY <1>2
<1>4. PICK b \in Nat : b = p + u - n
  BY <1>2
<1>5. r = IF a < b \/ (a = b /\ t % 2 = 0) THEN t ELSE t + 1
  <2>1. Walk!DurationFloor(n, u) = t
    BY <1>1, FloorIs
  <2>2. n - t * u = a /\ (t + 1) * u - n = b
    BY <1>2, <1>3, <1>4
  <2> QED BY <2>1, <2>2 DEF Walk!DurationRound
<1>6. Walk!Magnitude(n - t * u) = a /\ Walk!Magnitude(n - (t + 1) * u) = b
  <2>1. n - t * u = a /\ n - (t + 1) * u = -b
    BY <1>2, <1>3, <1>4
  <2> QED BY <2>1 DEF Walk!Magnitude
<1>7. q = t \/ q = t + 1
  BY <1>1
<1>8. t % 2 # 0 => (t + 1) % 2 = 0
  OBVIOUS
<1>9. CASE a < b \/ (a = b /\ t % 2 = 0)
  <2>1. r = t
    BY <1>5, <1>9
  <2> QED BY <1>6, <1>7, <1>9, <2>1
<1>10. CASE ~(a < b \/ (a = b /\ t % 2 = 0))
  <2>1. r = t + 1 /\ (b < a \/ (a = b /\ r % 2 = 0))
    BY <1>5, <1>8, <1>10
  <2> QED BY <1>6, <1>7, <2>1
<1> QED BY <1>9, <1>10

\* An hour survives the twelve-hour clock.
LEMMA HoursAre ==
    ASSUME NEW h \in 0 .. 23
    PROVE  Walk!Make24(Walk!Make12(h), ~Walk!IsAm(h)) = h
  BY DEF Walk!Make24, Walk!Make12, Walk!IsAm

\* What is assumed of the walk.
LEMMA WalkIs ==
    /\ WalkLength \in Nat /\ WalkLength <= 10000000
    /\ MaxMoves \in Nat /\ MaxMoves <= 20
    /\ Shifts \subseteq -100 .. 100 /\ Units \subseteq Nat \ {0, 1}
    /\ Anchors \subseteq MCAnchors
  BY VendoredAssumption DEF VendoredAssumption, Walk!CalendarAssumption

\* The months since year 0.
MonthsOf(c) == 12 * c.y + c.m - 1

\* The inductive invariant of the walk.  Its date is one of the calendar, of which
\* to_days computes the day it has walked to.
OnTheDay ==
    /\ IsDate(civil) /\ Walk!ToDays(civil) = z /\ dow = (z + 4) % 7
    /\ z \in Int

InReach ==
    /\ walked \in Int
    /\ -WalkLength <= walked /\ walked <= WalkLength
    /\ walked <= z + 719468 /\ z <= walked + 11007

\* An object that was taken on the walk and moved: no further away than its moves
\* allow, and where the count of months says.
Counted ==
    /\ count \in Int
    /\ count <= MonthsOf(civil) + 1200 * moves
    /\ MonthsOf(civil) <= count + 1200 * moves

Moved ==
    /\ from = Walk!YearMonth(civil.y, civil.m)
    /\ Counted
    /\ day \in 1 .. 31
    /\ ymd = Walk!Ymd(count \div 12, (count % 12) + 1, day)

WalkInv ==
    /\ OnTheDay /\ InReach
    /\ moves \in Int /\ -1 <= moves /\ moves <= MaxMoves
    /\ moves >= 0 => Moved

\* The years to which a walk leads.
LEMMA YearsOfWalk ==
    ASSUME NEW c, IsDate(c), -10719468 <= Walk!ToDays(c), Walk!ToDays(c) <= 10011007
    PROVE  -27500 <= c.y /\ c.y <= 29500
<1>1. PICK y \in Int, m \in 1 .. 12, d \in 1 .. 31 : y = c.y /\ m = c.m /\ d = c.d
  <2>1. c.d \in Nat /\ c.d > 0 /\ c.d <= 31 /\ c.y \in Int /\ c.m \in 1 .. 12
    BY DEF IsDate, Walk!MonthLength
  <2> QED BY <2>1
<1>2. c = Walk!Ymd(y, m, d)
  BY <1>1, DateFields
<1>3. Walk!ToDays(c) = MonthStart(y, m) + d
  BY <1>2, ToDaysIs
<1>4. PICK n \in Int : n = MarchYear(y, m) /\ n <= y /\ y <= n + 1
  BY DEF MarchYear
<1>5. PICK e \in 0 .. 337 : e = DaysBefore(MarchMonth(m))
  BY DEF DaysBefore, MarchMonth
<1>6. PICK q \in Int, r \in 0 .. 399 : q = n \div 400 /\ r = n % 400 /\ n = q * 400 + r
  OBVIOUS
<1>7. YearStart(n) = q * 146097 + r * 365 + r \div 4 - r \div 100
  BY <1>6 DEF YearStart
<1>8. Walk!ToDays(c) = q * 146097 + r * 365 + r \div 4 - r \div 100 + e - 719469 + d
  BY <1>3, <1>4, <1>5, <1>7 DEF MonthStart
<1>9. 0 <= r \div 4 - r \div 100 /\ r \div 4 - r \div 100 <= 100
  OBVIOUS
<1>10. PICK t \in Int : t = Walk!ToDays(c) /\ -10719468 <= t /\ t <= 10011007
  BY <1>8
<1>11. -10719468 <= q * 146097 + r * 365 + 100 + 337 - 719469 + 31
  BY <1>8, <1>9, <1>10
<1>12. q * 146097 + r * 365 - 719469 <= 10011007
  BY <1>8, <1>9, <1>10
<1>13. -27500 <= n /\ n <= 29499
  BY <1>6, <1>11, <1>12
<1> QED BY <1>1, <1>4, <1>13

\* Where a walk is.
LEMMA WalkedTo ==
    ASSUME WalkInv
    PROVE  /\ z \in Int /\ -10719468 <= z /\ z <= 10011007
           /\ -27500 <= civil.y /\ civil.y <= 29500
           /\ Walk!FromDays(z) = civil
<1>1. /\ z \in Int /\ -10719468 <= z /\ z <= 10011007
      /\ IsDate(civil) /\ Walk!ToDays(civil) = z
  BY WalkIs DEF WalkInv, OnTheDay, InReach
<1>2. -27500 <= civil.y /\ civil.y <= 29500
  BY <1>1, YearsOfWalk
<1>3. civil.y \in Int
  BY <1>1, DateFields
<1>4. Representable(civil.y)
  BY <1>2, <1>3 DEF Representable
<1> QED BY <1>1, <1>2, <1>4, FromDaysInverts

\* Where a moved object is.
LEMMA MovedTo ==
    ASSUME WalkInv, moves >= 0
    PROVE  /\ count \in Int /\ -30000 <= count \div 12 /\ count \div 12 <= 32000
           /\ (count \div 12) \in Int /\ ((count % 12) + 1) \in 1 .. 12
<1>1. PICK y \in Int, m \in 1 .. 12 : y = civil.y /\ m = civil.m
  BY DateFields DEF WalkInv, OnTheDay
<1>2. -27500 <= y /\ y <= 29500
  BY <1>1, WalkedTo
<1>3. PICK n \in Int : n = moves /\ 0 <= n /\ n <= 20
  BY WalkIs DEF WalkInv
<1>4. PICK k \in Int : /\ k = count
                       /\ k <= 12 * y + m - 1 + 1200 * n
                       /\ 12 * y + m - 1 <= k + 1200 * n
  BY <1>1, <1>3 DEF WalkInv, Moved, Counted, MonthsOf
<1>5. -30000 <= k \div 12 /\ k \div 12 <= 32000
  BY <1>2, <1>3, <1>4
<1> QED BY <1>4, <1>5

\* The walk begins at a day whose date and weekday are known.
LEMMA WalkBegins == Walk!Init => WalkInv
<1> SUFFICES ASSUME Walk!Init PROVE WalkInv
  OBVIOUS
<1>1. PICK a \in MCAnchors :
        /\ z = a.z /\ civil = Walk!Ymd(a.y, a.m, a.d) /\ dow = a.wd
        /\ walked = 0 /\ moves = -1
  BY WalkIs DEF Walk!Init
<1>2. ASSUME NEW y \in Int, NEW m \in 1 .. 12, NEW d \in 1 .. 28
      PROVE  /\ IsDate(Walk!Ymd(y, m, d))
             /\ Walk!ToDays(Walk!Ymd(y, m, d)) = MonthStart(y, m) + d
  <2>1. IsDate(Walk!Ymd(y, m, d))
    BY DEF IsDate, Walk!Ymd, Walk!MonthLength
  <2> QED BY <2>1, ToDaysIs
<1>3. /\ MonthStart(1600, 2) = -135110 /\ MonthStart(1900, 2) = -25537
      /\ MonthStart(1970, 1) = -1 /\ MonthStart(2000, 2) = 10987
      /\ MonthStart(0, 3) = -719469
  BY DEF MonthStart, MarchYear, MarchMonth, DaysBefore, YearStart
<1>4. /\ IsDate(civil) /\ Walk!ToDays(civil) = z /\ dow = (z + 4) % 7
      /\ z \in Int /\ -719468 <= z /\ z <= 11007
  <2>1. CASE a = [z |-> -135085, y |-> 1600, m |-> 2, d |-> 25, wd |-> 5]
    <3>1. civil = Walk!Ymd(1600, 2, 25) /\ z = -135085 /\ dow = 5
      BY <1>1, <2>1
    <3>2. MonthStart(1600, 2) + 25 = -135085
      BY <1>3
    <3>3. IsDate(civil) /\ Walk!ToDays(civil) = z
      BY <1>2, <3>1, <3>2
    <3>4. z + 135085 = 0
      BY <3>1
    <3>5. z \in Int /\ dow = 5
      BY <3>1
    <3>6. (z + 4) % 7 = 5
      BY <3>4, <3>5
    <3> QED BY <3>3, <3>4, <3>5, <3>6
  <2>2. CASE a = [z |-> -25517, y |-> 1900, m |-> 2, d |-> 20, wd |-> 2]
    <3>1. civil = Walk!Ymd(1900, 2, 20) /\ z = -25517 /\ dow = 2
      BY <1>1, <2>2
    <3>2. MonthStart(1900, 2) + 20 = -25517
      BY <1>3
    <3>3. IsDate(civil) /\ Walk!ToDays(civil) = z
      BY <1>2, <3>1, <3>2
    <3>4. z + 25517 = 0
      BY <3>1
    <3>5. z \in Int /\ dow = 2
      BY <3>1
    <3>6. (z + 4) % 7 = 2
      BY <3>4, <3>5
    <3> QED BY <3>3, <3>4, <3>5, <3>6
  <2>3. CASE a = [z |-> 0, y |-> 1970, m |-> 1, d |-> 1, wd |-> 4]
    <3>1. civil = Walk!Ymd(1970, 1, 1) /\ z = 0 /\ dow = 4
      BY <1>1, <2>3
    <3>2. MonthStart(1970, 1) + 1 = 0 /\ (0 + 4) % 7 = 4
      BY <1>3
    <3>3. IsDate(civil) /\ Walk!ToDays(civil) = z
      BY <1>2, <3>1, <3>2
    <3> QED BY <3>1, <3>2, <3>3
  <2>4. CASE a = [z |-> 11007, y |-> 2000, m |-> 2, d |-> 20, wd |-> 0]
    <3>1. civil = Walk!Ymd(2000, 2, 20) /\ z = 11007 /\ dow = 0
      BY <1>1, <2>4
    <3>2. MonthStart(2000, 2) + 20 = 11007 /\ (11007 + 4) % 7 = 0
      BY <1>3
    <3>3. IsDate(civil) /\ Walk!ToDays(civil) = z
      BY <1>2, <3>1, <3>2
    <3> QED BY <3>1, <3>2, <3>3
  <2>5. CASE a = [z |-> -719468, y |-> 0, m |-> 3, d |-> 1, wd |-> 3]
    <3>1. civil = Walk!Ymd(0, 3, 1) /\ z = -719468 /\ dow = 3
      BY <1>1, <2>5
    <3>2. MonthStart(0, 3) + 1 = -719468
      BY <1>3
    <3>3. IsDate(civil) /\ Walk!ToDays(civil) = z
      BY <1>2, <3>1, <3>2
    <3>4. z + 719468 = 0
      BY <3>1
    <3>5. z \in Int /\ dow = 3
      BY <3>1
    <3>6. (z + 4) % 7 = 3
      BY <3>4, <3>5
    <3> QED BY <3>3, <3>4, <3>5, <3>6
  <2> QED BY <1>1, <2>1, <2>2, <2>3, <2>4, <2>5 DEF MCAnchors
<1>5. OnTheDay
  BY <1>4 DEF OnTheDay
<1>6. InReach
  BY <1>1, <1>4, WalkIs DEF InReach
<1> QED BY <1>1, <1>5, <1>6, WalkIs DEF WalkInv

\* A day forward.
LEMMA WalkTomorrow ==
    ASSUME WalkInv, Walk!Tomorrow
    PROVE  WalkInv'
<1>1. /\ moves = -1 /\ walked \in 0 .. WalkLength - 1
      /\ z' = z + 1 /\ civil' = Walk!DayAfter(civil) /\ dow' = (dow + 1) % 7
      /\ walked' = walked + 1 /\ moves' = moves
  BY DEF Walk!Tomorrow
<1>2. IsDate(civil) /\ Walk!ToDays(civil) = z /\ z \in Int /\ dow = (z + 4) % 7
  BY DEF WalkInv, OnTheDay
<1>3. IsDate(civil') /\ Walk!ToDays(civil') = z'
  BY <1>1, <1>2, DayAfterIs
<1>4. z' \in Int /\ dow' = (z' + 4) % 7
  BY <1>1, <1>2
<1>5. /\ walked' \in Int /\ -WalkLength <= walked' /\ walked' <= WalkLength
      /\ walked' <= z' + 719468 /\ z' <= walked' + 11007
  BY <1>1, <1>2, WalkIs DEF WalkInv, InReach
<1>6. moves' \in Int /\ -1 <= moves' /\ moves' <= MaxMoves /\ ~(moves' >= 0)
  BY <1>1, WalkIs
<1>7. OnTheDay'
  BY <1>3, <1>4 DEF OnTheDay
<1>8. InReach'
  BY <1>5 DEF InReach
<1> QED BY <1>6, <1>7, <1>8 DEF WalkInv

\* A day back.
LEMMA WalkYesterday ==
    ASSUME WalkInv, Walk!Yesterday
    PROVE  WalkInv'
<1>1. /\ moves = -1 /\ walked \in -WalkLength + 1 .. 0
      /\ z' = z - 1 /\ civil' = Walk!DayBefore(civil) /\ dow' = (dow + 6) % 7
      /\ walked' = walked - 1 /\ moves' = moves
  BY DEF Walk!Yesterday
<1>2. IsDate(civil) /\ Walk!ToDays(civil) = z /\ z \in Int /\ dow = (z + 4) % 7
  BY DEF WalkInv, OnTheDay
<1>3. IsDate(civil') /\ Walk!ToDays(civil') = z'
  BY <1>1, <1>2, DayBeforeIs
<1>4. z' \in Int /\ dow' = (z' + 4) % 7
  BY <1>1, <1>2
<1>5. /\ walked' \in Int /\ -WalkLength <= walked' /\ walked' <= WalkLength
      /\ walked' <= z' + 719468 /\ z' <= walked' + 11007
  BY <1>1, <1>2, WalkIs DEF WalkInv, InReach
<1>6. moves' \in Int /\ -1 <= moves' /\ moves' <= MaxMoves /\ ~(moves' >= 0)
  BY <1>1, WalkIs
<1>7. OnTheDay'
  BY <1>3, <1>4 DEF OnTheDay
<1>8. InReach'
  BY <1>5 DEF InReach
<1> QED BY <1>6, <1>7, <1>8 DEF WalkInv

\* An object that is taken is the date of the walk.
LEMMA WalkTake ==
    ASSUME WalkInv, Walk!Take
    PROVE  WalkInv'
<1>1. /\ moves = -1 /\ moves' = 0 /\ ymd' = Walk!FromDays(z)
      /\ from' = Walk!YearMonth(civil.y, civil.m)
      /\ count' = 12 * civil.y + civil.m - 1 /\ day' = civil.d
      /\ z' = z /\ civil' = civil /\ dow' = dow /\ walked' = walked
  BY DEF Walk!Take
<1>2. PICK y \in Int, m \in 1 .. 12, d \in 1 .. 31 : y = civil.y /\ m = civil.m /\ d = civil.d
  <2>1. IsDate(civil)
    BY DEF WalkInv, OnTheDay
  <2>2. civil.d \in Nat /\ civil.d > 0 /\ civil.d <= 31 /\ civil.y \in Int /\ civil.m \in 1 .. 12
    BY <2>1 DEF IsDate, Walk!MonthLength
  <2> QED BY <2>2
<1>3. civil = Walk!Ymd(y, m, d)
  BY <1>2, DateFields DEF WalkInv, OnTheDay
<1>4. ymd' = Walk!Ymd(y, m, d)
  BY <1>1, <1>3, WalkedTo
<1>5. count' = 12 * y + m - 1 /\ day' = d
  BY <1>1, <1>2
<1>6. count' \div 12 = y /\ (count' % 12) + 1 = m
  BY <1>5
<1>7. MonthsOf(civil') = count' /\ count' \in Int
  BY <1>1, <1>2, <1>5 DEF MonthsOf
<1>8. Counted'
  BY <1>1, <1>7 DEF Counted
<1>9. Moved'
  BY <1>1, <1>2, <1>4, <1>5, <1>6, <1>8 DEF Moved
<1>10. OnTheDay' /\ InReach'
  BY <1>1 DEF WalkInv, OnTheDay, InReach
<1>11. 0 \in Int /\ -1 <= 0 /\ 0 <= MaxMoves
  BY WalkIs
<1> QED BY <1>1, <1>9, <1>10, <1>11 DEF WalkInv

\* What a move leaves of the walk.
LEMMA WalkMove ==
    ASSUME WalkInv, NEW newYmd, NEW newCount \in Int, NEW newDay \in 1 .. 31,
           Walk!Move(newYmd, newCount, newDay),
           newCount <= count + 1200, count <= newCount + 1200,
           newYmd = Walk!Ymd(newCount \div 12, (newCount % 12) + 1, newDay)
    PROVE  WalkInv'
<1>1. /\ moves \in 0 .. MaxMoves - 1
      /\ ymd' = newYmd /\ count' = newCount /\ day' = newDay /\ moves' = moves + 1
      /\ z' = z /\ civil' = civil /\ dow' = dow /\ walked' = walked /\ from' = from
  BY DEF Walk!Move
<1>2. Moved
  BY <1>1, WalkIs DEF WalkInv
<1>3. PICK s \in Int : s = MonthsOf(civil)
  BY DateFields DEF WalkInv, OnTheDay, MonthsOf
<1>4. /\ count \in Int /\ moves \in Int
      /\ count <= s + 1200 * moves /\ s <= count + 1200 * moves
  BY <1>1, <1>2, <1>3, WalkIs DEF Moved, Counted
<1>5. newCount <= s + 1200 * (moves + 1) /\ s <= newCount + 1200 * (moves + 1)
  BY <1>4
<1>6. Counted'
  BY <1>1, <1>3, <1>5 DEF Counted
<1>7. Moved'
  BY <1>1, <1>2, <1>6 DEF Moved
<1>8. moves' \in Int /\ -1 <= moves' /\ moves' <= MaxMoves
  BY <1>1, WalkIs
<1>9. OnTheDay' /\ InReach'
  BY <1>1 DEF WalkInv, OnTheDay, InReach
<1> QED BY <1>7, <1>8, <1>9 DEF WalkInv

\* An object that is moved, in figures.
Figures(k, y, m, d) ==
    /\ k = count /\ d = day /\ y = k \div 12 /\ m = (k % 12) + 1
    /\ y = Walk!Year /\ m = Walk!Month
    /\ k = 12 * y + m - 1
    /\ -30000 <= y /\ y <= 32000
    /\ ymd = Walk!Ymd(y, m, d) /\ ymd.y = y /\ ymd.m = m /\ ymd.d = d

\* There are such figures whenever there is an object.
LEMMA MovedIs ==
    ASSUME WalkInv, moves >= 0
    PROVE  \E k \in Int, y \in Int, m \in 1 .. 12, d \in 1 .. 31 : Figures(k, y, m, d)
<1>1. /\ count \in Int /\ -30000 <= count \div 12 /\ count \div 12 <= 32000
      /\ (count \div 12) \in Int /\ ((count % 12) + 1) \in 1 .. 12
  BY MovedTo
<1>2. day \in 1 .. 31 /\ ymd = Walk!Ymd(count \div 12, (count % 12) + 1, day)
  BY DEF WalkInv, Moved
<1>3. PICK k \in Int, y \in Int, m \in 1 .. 12, d \in 1 .. 31 :
        k = count /\ d = day /\ y = count \div 12 /\ m = (count % 12) + 1
  BY <1>1, <1>2
<1>4. ymd = Walk!Ymd(y, m, d)
  BY <1>2, <1>3
<1>5. ymd.y = y /\ ymd.m = m /\ ymd.d = d
  BY <1>4 DEF Walk!Ymd
<1>6. y = Walk!Year /\ m = Walk!Month
  BY <1>3 DEF Walk!Year, Walk!Month
<1>7. k = 12 * y + m - 1 /\ y = k \div 12 /\ m = (k % 12) + 1
  BY <1>3
<1>8. -30000 <= y /\ y <= 32000
  BY <1>1, <1>3
<1>9. Figures(k, y, m, d)
  BY <1>3, <1>4, <1>5, <1>6, <1>7, <1>8 DEF Figures
<1> QED BY <1>9

\* Months are added.
LEMMA WalkAddMonths ==
    ASSUME WalkInv, Walk!AddMonths
    PROVE  WalkInv'
<1>1. PICK n \in -100 .. 100 : Walk!Move(Walk!YmdPlus(ymd, n), count + n, day)
  BY WalkIs DEF Walk!AddMonths
<1>2. moves >= 0
  BY <1>1, WalkIs DEF Walk!Move
<1>3. PICK k \in Int, y \in Int, m \in 1 .. 12, d \in 1 .. 31 : Figures(k, y, m, d)
  BY <1>2, MovedIs
<1>4. /\ k = count /\ d = day /\ k = 12 * y + m - 1 /\ -30000 <= y /\ y <= 32000
        /\ ymd.y = y /\ ymd.m = m /\ ymd.d = d
  BY <1>3 DEF Figures
<1>5. PICK t \in Int : t = k + n
  OBVIOUS
<1>6. t = 12 * y + m + n - 1
  BY <1>4, <1>5
<1>7. PICK q \in Int, p \in 1 .. 12 : q = t \div 12 /\ p = (t % 12) + 1
  OBVIOUS
<1>8. 12 * q + p = 12 * y + m + n
  <2>1. 12 * q + p = t + 1
    BY <1>7
  <2> QED BY <1>6, <2>1
<1>9. -32767 <= q /\ q <= 32767
  BY <1>4, <1>6, <1>7
<1>10. ymd.y = y /\ ymd.m = m
  BY <1>4
<1>11. Walk!YearMonthPlus(ymd, n) = Walk!YearMonth(q, p)
  <2>1. MonthsOn(ymd, n, q, p)
    BY <1>8, <1>9, <1>10 DEF MonthsOn
  <2> QED BY <2>1, YearMonthPlusIs
<1>12. Walk!YmdPlus(ymd, n) = Walk!Ymd(t \div 12, (t % 12) + 1, d)
  BY <1>4, <1>7, <1>11 DEF Walk!YmdPlus, Walk!YearMonth
<1>13. Walk!Move(Walk!YmdPlus(ymd, n), t, d)
  BY <1>1, <1>4, <1>5
<1>14. t <= count + 1200 /\ count <= t + 1200
  BY <1>4, <1>5
<1> QED BY <1>12, <1>13, <1>14, WalkMove

\* Years are added.
LEMMA WalkAddYears ==
    ASSUME WalkInv, Walk!AddYears
    PROVE  WalkInv'
<1>1. PICK n \in -100 .. 100 : Walk!Move(Walk!YmdPlusYears(ymd, n), count + 12 * n, day)
  BY WalkIs DEF Walk!AddYears
<1>2. moves >= 0
  BY <1>1, WalkIs DEF Walk!Move
<1>3. PICK k \in Int, y \in Int, m \in 1 .. 12, d \in 1 .. 31 : Figures(k, y, m, d)
  BY <1>2, MovedIs
<1>4. /\ k = count /\ d = day /\ k = 12 * y + m - 1 /\ -30000 <= y /\ y <= 32000
        /\ ymd = Walk!Ymd(y, m, d)
  BY <1>3 DEF Figures
<1>5. PICK t \in Int : t = k + 12 * n
  OBVIOUS
<1>6. t \div 12 = y + n /\ (t % 12) + 1 = m
  BY <1>4, <1>5
<1>7. Walk!YearPlus(y, n) = y + n
  BY <1>4 DEF Walk!YearPlus, Walk!Short
<1>8. Walk!YmdPlusYears(ymd, n) = Walk!Ymd(t \div 12, (t % 12) + 1, d)
  BY <1>4, <1>6, <1>7 DEF Walk!YmdPlusYears, Walk!Ymd
<1>9. Walk!Move(Walk!YmdPlusYears(ymd, n), t, d)
  BY <1>1, <1>4, <1>5
<1>10. t <= count + 1200 /\ count <= t + 1200
  BY <1>4, <1>5
<1> QED BY <1>8, <1>9, <1>10, WalkMove

\* The last day of the month is taken.
LEMMA WalkToLast ==
    ASSUME WalkInv, Walk!ToLast
    PROVE  WalkInv'
<1>1. Walk!Move(Walk!YmdLast(ymd), count, Walk!Length)
  BY DEF Walk!ToLast
<1>2. moves >= 0
  BY <1>1, WalkIs DEF Walk!Move
<1>3. PICK k \in Int, y \in Int, m \in 1 .. 12, d \in 1 .. 31 : Figures(k, y, m, d)
  BY <1>2, MovedIs
<1>4. /\ k = count /\ y = k \div 12 /\ m = (k % 12) + 1
        /\ y = Walk!Year /\ m = Walk!Month
        /\ ymd.y = y /\ ymd.m = m
  BY <1>3 DEF Figures
<1>5. PICK l \in 1 .. 31 : l = Walk!MonthLength(y, m)
  BY DEF Walk!MonthLength
<1>6. Walk!Length = l
  BY <1>4, <1>5 DEF Walk!Length
<1>7. Walk!LastDay(ymd) = l
  BY <1>4, <1>5, LastDayIs
<1>8. Walk!YmdLast(ymd) = Walk!Ymd(k \div 12, (k % 12) + 1, l)
  BY <1>4, <1>7 DEF Walk!YmdLast
<1>9. Walk!Move(Walk!YmdLast(ymd), k, l)
  BY <1>1, <1>4, <1>6
<1>10. k <= count + 1200 /\ count <= k + 1200
  BY <1>4
<1> QED BY <1>8, <1>9, <1>10, WalkMove

\* The object goes through sys_days and back.
LEMMA WalkThroughDays ==
    ASSUME WalkInv, Walk!ThroughDays
    PROVE  WalkInv'
<1>1. Walk!Move(Walk!FromDays(Walk!ToDays(ymd)),
                IF day > Walk!Length THEN count + 1 ELSE count,
                IF day > Walk!Length THEN day - Walk!Length ELSE day)
  BY DEF Walk!ThroughDays
<1>2. moves >= 0
  BY <1>1, WalkIs DEF Walk!Move
<1>3. PICK k \in Int, y \in Int, m \in 1 .. 12, d \in 1 .. 31 : Figures(k, y, m, d)
  BY <1>2, MovedIs
<1>4. /\ k = count /\ d = day /\ y = k \div 12 /\ m = (k % 12) + 1
        /\ y = Walk!Year /\ m = Walk!Month
        /\ k = 12 * y + m - 1 /\ -30000 <= y /\ y <= 32000
        /\ ymd = Walk!Ymd(y, m, d)
  BY <1>3 DEF Figures
<1>5. PICK l \in 28 .. 31 : l = Walk!MonthLength(y, m)
  BY DEF Walk!MonthLength
<1>6. Walk!Length = l
  BY <1>4, <1>5 DEF Walk!Length
<1>7. CASE d <= l
  <2>1. IsDate(Walk!Ymd(y, m, d))
    BY <1>5, <1>7 DEF IsDate, Walk!Ymd
  <2>2. Representable(Walk!Ymd(y, m, d).y)
    <3>1. Representable(y)
      BY <1>4 DEF Representable
    <3> QED BY <3>1 DEF Walk!Ymd
  <2>3. Walk!FromDays(Walk!ToDays(ymd)) = Walk!Ymd(k \div 12, (k % 12) + 1, d)
    BY <1>4, <2>1, <2>2, FromDaysInverts
  <2>4. Walk!Move(Walk!FromDays(Walk!ToDays(ymd)), k, d)
    BY <1>1, <1>4, <1>6, <1>7
  <2>5. k <= count + 1200 /\ count <= k + 1200
    BY <1>4
  <2> QED BY <2>3, <2>4, <2>5, WalkMove
<1>8. CASE ~(d <= l)
  <2>1. PICK e \in 1 .. 3 : e = d - l
    BY <1>8
  <2>2. PICK t \in Int, ny \in Int, nm \in 1 .. 12 :
          /\ t = k + 1 /\ ny = t \div 12 /\ nm = (t % 12) + 1
          /\ ny = (IF m < 12 THEN y ELSE y + 1) /\ nm = (IF m < 12 THEN m + 1 ELSE 1)
    <3>1. (k + 1) \div 12 = (IF m < 12 THEN y ELSE y + 1)
      BY <1>4
    <3>2. ((k + 1) % 12) + 1 = (IF m < 12 THEN m + 1 ELSE 1)
      BY <1>4
    <3> QED BY <3>1, <3>2
  <2>3. Walk!ToDays(Walk!Ymd(y, m, d)) = Walk!ToDays(Walk!Ymd(ny, nm, e))
    <3>1. Walk!ToDays(Walk!Ymd(y, m, d)) = MonthStart(y, m) + d
      BY ToDaysIs
    <3>2. Walk!ToDays(Walk!Ymd(ny, nm, e)) = MonthStart(ny, nm) + e
      BY ToDaysIs
    <3>3. MonthStart(ny, nm) = MonthStart(y, m) + l /\ MonthStart(y, m) \in Int
      BY <1>5, <2>2, MonthsFollow, MonthStartIs
    <3> QED BY <2>1, <3>1, <3>2, <3>3
  <2>4. IsDate(Walk!Ymd(ny, nm, e))
    BY DEF IsDate, Walk!Ymd, Walk!MonthLength
  <2>5. Representable(Walk!Ymd(ny, nm, e).y)
    <3>1. Representable(ny)
      BY <1>4, <2>2 DEF Representable
    <3> QED BY <3>1 DEF Walk!Ymd
  <2>6. Walk!FromDays(Walk!ToDays(ymd)) = Walk!Ymd(t \div 12, (t % 12) + 1, e)
    BY <1>4, <2>2, <2>3, <2>4, <2>5, FromDaysInverts
  <2>7. Walk!Move(Walk!FromDays(Walk!ToDays(ymd)), t, e)
    BY <1>1, <1>4, <1>6, <1>8, <2>1, <2>2
  <2>8. t <= count + 1200 /\ count <= t + 1200
    BY <1>4, <2>2
  <2> QED BY <2>6, <2>7, <2>8, WalkMove
<1> QED BY <1>7, <1>8

\* The walk, however it goes on.
LEMMA WalkGoesOn ==
    ASSUME WalkInv, [Walk!Next]_walkVars
    PROVE  WalkInv'
<1>1. CASE UNCHANGED walkVars
  BY <1>1 DEF walkVars, WalkInv, OnTheDay, InReach, Moved, Counted
<1> QED BY <1>1, WalkTomorrow, WalkYesterday, WalkTake, WalkAddMonths, WalkAddYears,
           WalkToLast, WalkThroughDays DEF Walk!Next

\* The dates that are ok.
LEMMA YmdOkIs ==
    ASSUME NEW c, NEW y \in Int, NEW m \in 1 .. 12, NEW d \in Int,
           c.y = y, c.m = m, c.d = d, -32767 <= y
    PROVE  Walk!YmdOk(c) <=> 1 <= d /\ d <= Walk!MonthLength(y, m)
<1>1. Walk!YearMonthOk(c)
  BY DEF Walk!YearMonthOk, Walk!YearOk, Walk!NanYear, Walk!MonthOk
<1>2. Walk!LastDay(c) = Walk!MonthLength(y, m) /\ Walk!MonthLength(y, m) \in Int
  BY LastDayIs DEF Walk!MonthLength
<1> QED BY <1>1, <1>2 DEF Walk!YmdOk

\* A day comes before the one after it.
LEMMA DaysInOrder ==
    ASSUME NEW c, IsDate(c)
    PROVE  /\ Walk!YmdLess(c, Walk!DayAfter(c)) /\ ~Walk!YmdLess(Walk!DayAfter(c), c)
           /\ Walk!DayAfter(c).d \in {1, Walk!DayPlus(c.d, 1)}
<1>1. PICK y \in Int, m \in 1 .. 12, d \in 1 .. 31 : y = c.y /\ m = c.m /\ d = c.d
  <2>1. c.d \in Nat /\ c.d > 0 /\ c.d <= 31 /\ c.y \in Int /\ c.m \in 1 .. 12
    BY DEF IsDate, Walk!MonthLength
  <2>2. c.d \in 1 .. 31
    BY <2>1
  <2> QED BY <2>1, <2>2
<1>2. c = Walk!Ymd(y, m, d) /\ c.y = y /\ c.m = m /\ c.d = d
  BY <1>1, DateFields
<1>3. CASE d < Walk!MonthLength(y, m)
  <2>1. Walk!DayAfter(c) = Walk!Ymd(y, m, d + 1)
    BY <1>2, <1>3 DEF Walk!DayAfter, Walk!Ymd
  <2>2. Walk!DayPlus(d, 1) = d + 1
    BY DEF Walk!DayPlus, Walk!UnsignedChar
  <2> QED BY <1>2, <2>1, <2>2 DEF Walk!YmdLess, Walk!YearMonthLess, Walk!Ymd
<1>4. CASE ~(d < Walk!MonthLength(y, m)) /\ m < 12
  <2>1. Walk!DayAfter(c) = Walk!Ymd(y, m + 1, 1)
    BY <1>2, <1>4 DEF Walk!DayAfter
  <2> QED BY <1>2, <2>1 DEF Walk!YmdLess, Walk!YearMonthLess, Walk!Ymd
<1>5. CASE ~(d < Walk!MonthLength(y, m)) /\ ~(m < 12)
  <2>1. Walk!DayAfter(c) = Walk!Ymd(y + 1, 1, 1)
    BY <1>2, <1>5 DEF Walk!DayAfter
  <2> QED BY <1>2, <2>1 DEF Walk!YmdLess, Walk!YearMonthLess, Walk!Ymd
<1> QED BY <1>3, <1>4, <1>5

\* The days that a month can have.
LEMMA MonthDaysAre ==
    ASSUME NEW m \in 1 .. 12, NEW d \in 0 .. 32
    PROVE  Walk!MonthDayOk(m, d) <=> d \in 1 .. Walk!MonthLength(2000, m)
<1>1. Walk!MonthDayLast[m] = Walk!MonthLength(2000, m)
  BY MonthDayIs
<1>2. Walk!MonthOk(m)
  BY DEF Walk!MonthOk
<1> QED BY <1>1, <1>2 DEF Walk!MonthDayOk

\* The date of a day in the walk, and its weekday in the month.
Nth == Walk!Ymw(civil.y, civil.m, dow, Walk!Occurrence)

CivilIs(y, m, d, i) ==
    /\ civil = Walk!Ymd(y, m, d) /\ civil.y = y /\ civil.m = m /\ civil.d = d
    /\ Nth = Walk!Ymw(y, m, dow, i)
    /\ Walk!FromDays(z) = civil
MonthIs(y, m, d, l, f) ==
    /\ -27500 <= y /\ y <= 29500
    /\ l = Walk!MonthLength(y, m) /\ d <= l
    /\ f = MonthStart(y, m) + 1
DayIs(d, f, i) ==
    /\ i = (d - 1) \div 7 + 1 /\ z = f + d - 1
    /\ z >= -10719468 /\ z <= 10011007 /\ dow = (z + 4) % 7
DateOfWalk(y, m, d, l, f, i) ==
    CivilIs(y, m, d, i) /\ MonthIs(y, m, d, l, f) /\ DayIs(d, f, i)

\* There is such a date on every day of the walk.
LEMMA DateOfWalkIs ==
    ASSUME WalkInv
    PROVE  \E y \in Int, m \in 1 .. 12, d \in 1 .. 31, l \in 28 .. 31, f \in Int, i \in 1 .. 5 :
              DateOfWalk(y, m, d, l, f, i)
<1>1. IsDate(civil) /\ Walk!ToDays(civil) = z /\ dow = (z + 4) % 7
  BY DEF WalkInv, OnTheDay
<1>2. PICK y \in Int, m \in 1 .. 12, d \in 1 .. 31 : y = civil.y /\ m = civil.m /\ d = civil.d
  <2>1. civil.d \in Nat /\ civil.d > 0 /\ civil.d <= 31 /\ civil.y \in Int /\ civil.m \in 1 .. 12
    BY <1>1 DEF IsDate, Walk!MonthLength
  <2>2. civil.d \in 1 .. 31
    BY <2>1
  <2> QED BY <2>1, <2>2
<1>3. civil = Walk!Ymd(y, m, d) /\ d <= Walk!MonthLength(y, m)
  BY <1>1, <1>2, DateFields
<1>4. PICK l \in 28 .. 31 : l = Walk!MonthLength(y, m)
  BY DEF Walk!MonthLength
<1>5. PICK f \in Int : f = MonthStart(y, m) + 1
  <2>1. MonthStart(y, m) \in Int
    BY MonthStartIs
  <2> QED BY <2>1
<1>6. z = f + d - 1
  <2>1. Walk!ToDays(Walk!Ymd(y, m, d)) = MonthStart(y, m) + d
    BY ToDaysIs
  <2>2. MonthStart(y, m) \in Int
    BY MonthStartIs
  <2> QED BY <1>1, <1>3, <1>5, <2>1, <2>2
<1>7. PICK i \in 1 .. 5 : i = (d - 1) \div 7 + 1
  OBVIOUS
<1>8. Walk!Occurrence = i
  <2>1. Walk!Occurrence = OccurrencesBy(civil.d)
    <3>1. \A S : Walk!Cardinality(S) = Cardinality(S)
      BY DEF Walk!Cardinality, Cardinality
    <3> QED BY <3>1 DEF Walk!Occurrence, OccurrencesBy
  <2>2. OccurrencesBy(civil.d) = OccurrencesBy(d)
    BY <1>2
  <2>3. OccurrencesBy(d) = (d - 1) \div 7 + 1
    BY OccurrencesAre
  <2> QED BY <1>7, <2>1, <2>2, <2>3
<1>9. Nth = Walk!Ymw(y, m, dow, i)
  BY <1>2, <1>8 DEF Nth
<1>10. /\ z >= -10719468 /\ z <= 10011007
       /\ -27500 <= y /\ y <= 29500 /\ Walk!FromDays(z) = civil
  BY <1>2, WalkedTo
<1>11. DateOfWalk(y, m, d, l, f, i)
  <2>1. CivilIs(y, m, d, i)
    <3>1. Walk!FromDays(z) = civil
      BY <1>10
    <3>2. civil = Walk!Ymd(y, m, d)
      BY <1>3
    <3> QED BY <1>2, <1>9, <3>1, <3>2 DEF CivilIs
  <2>2. MonthIs(y, m, d, l, f)
    BY <1>3, <1>4, <1>5, <1>10 DEF MonthIs
  <2>3. DayIs(d, f, i)
    BY <1>1, <1>6, <1>7, <1>10 DEF DayIs
  <2> QED BY <2>1, <2>2, <2>3 DEF DateOfWalk
<1> QED BY <1>11

\* The n-th weekday of the month, and whether there is another.
LEMMA NthIs ==
    ASSUME WalkInv
    PROVE  /\ Walk!YmwFromDays(z) = Nth /\ Walk!YmwToDays(Nth) = z /\ Walk!YmwOk(Nth)
           /\ Walk!YmwOk([Nth EXCEPT !.index = @ + 1]) <=> (Walk!WeekLeft \/ Nth.index < 4)
           /\ Walk!LastWeekdayToDays(Nth, dow) = z <=> ~Walk!WeekLeft
<1>1. PICK y \in Int, m \in 1 .. 12, d \in 1 .. 31, l \in 28 .. 31, f \in Int, i \in 1 .. 5 :
        DateOfWalk(y, m, d, l, f, i)
  BY DateOfWalkIs
<1>2. /\ Walk!FromDays(z) = civil /\ civil.y = y /\ civil.m = m /\ civil.d = d
      /\ Nth = Walk!Ymw(y, m, dow, i)
  BY <1>1 DEF DateOfWalk, CivilIs
<1>3. i = (d - 1) \div 7 + 1
  BY <1>1 DEF DateOfWalk, DayIs
<1>4. PICK g \in 0 .. 6 : g = (d - 1) % 7 /\ g + (i - 1) * 7 = d - 1
  BY <1>3
<1>5. l = Walk!MonthLength(y, m) /\ d <= l /\ -27500 <= y
  BY <1>1 DEF DateOfWalk, MonthIs
<1>6. z \in Int /\ z = f + d - 1 /\ z >= -10719468 /\ z <= 10011007
  BY <1>1 DEF DateOfWalk, DayIs
<1>7. Walk!WeekdayFromDays(z) = dow /\ dow \in 0 .. 6 /\ dow = (z + 4) % 7
  <2>1. dow = (z + 4) % 7
    BY <1>1 DEF DateOfWalk, DayIs
  <2>2. Walk!WeekdayFromDays(z) = (z + 4) % 7
    BY <1>6, WeekdayIs
  <2> QED BY <1>6, <2>1, <2>2
<1>8. Nth.y = y /\ Nth.m = m /\ Nth.wd = dow /\ Nth.index = i
  BY <1>2 DEF Walk!Ymw
<1>9. Walk!YmwFromDays(z) = Nth
  BY <1>2, <1>7, <1>3 DEF Walk!YmwFromDays
<1>10. PICK w \in 0 .. 6 : w = (f + 4) % 7 /\ w = Walk!WeekdayFromDays(f)
  <2>1. f >= -16000000 /\ f <= 16000000
    BY <1>6
  <2> QED BY <2>1, WeekdayIs
<1>11. Walk!ToDays(Walk!Ymd(y, m, 1)) = f
  <2>1. Walk!ToDays(Walk!Ymd(y, m, 1)) = MonthStart(y, m) + 1
    BY ToDaysIs
  <2>2. f = MonthStart(y, m) + 1
    BY <1>1 DEF DateOfWalk, MonthIs
  <2> QED BY <2>1, <2>2
<1>12. Walk!WeekdayMinus(dow, w) = g
  <2>1. Walk!WeekdayMinus(dow, w) = (dow - w) % 7
    BY <1>7, WeekdayMinusIs
  <2>2. (dow - w) % 7 = (d - 1) % 7
    <3>1. PICK a \in Int : f + 4 = 7 * a + w
      BY <1>10
    <3>2. PICK b \in Int : f + d + 3 = 7 * b + dow
      BY <1>6, <1>7
    <3>3. PICK k \in Int, c \in Int : k = b - a /\ c = dow - w /\ c + 7 * k = d - 1
      BY <1>7, <3>1, <3>2
    <3>4. c % 7 = (c + 7 * k) % 7
      OBVIOUS
    <3> QED BY <3>3, <3>4
  <2> QED BY <1>4, <2>1, <2>2
<1>13. Walk!YmwToDays(Nth) = z
  <2>1. Walk!WeekdayFromDays(f) = w
    BY <1>10
  <2>2. Walk!YmwToDays(Nth) = f + g + (i - 1) * 7
    BY <1>8, <1>11, <1>12, <2>1 DEF Walk!YmwToDays
  <2>3. g + (i - 1) * 7 = d - 1
    BY <1>4
  <2> QED BY <1>6, <2>2, <2>3
<1>14. Walk!WeekLeft <=> d + 7 <= l
  BY <1>2, <1>5 DEF Walk!WeekLeft
<1>15. ASSUME NEW x, NEW k \in 1 .. 6, x.y = y, x.m = m, x.wd = dow, x.index = k
       PROVE  Walk!YmwOk(x) <=> k <= 4 \/ g + (k - 1) * 7 + 1 <= l
  <2>1. Walk!YearMonthOk(x) /\ Walk!WeekdayOk(x.wd) /\ x.index >= 1
    BY <1>5, <1>7, <1>15
       DEF Walk!YearMonthOk, Walk!YearOk, Walk!NanYear, Walk!MonthOk, Walk!WeekdayOk
  <2>2. Walk!WeekdayOf(Walk!Ymd(x.y, x.m, 1)) = w
    BY <1>10, <1>11, <1>15 DEF Walk!WeekdayOf
  <2>3. Walk!LastDay(x) = l
    BY <1>5, <1>15, LastDayIs
  <2>4. Walk!WeekdayMinus(x.wd, Walk!WeekdayOf(Walk!Ymd(x.y, x.m, 1))) = g
    BY <1>12, <1>15, <2>2
  <2> QED BY <1>15, <2>1, <2>3, <2>4 DEF Walk!YmwOk
<1>16. Walk!YmwOk(Nth)
  <2>1. Walk!YmwOk(Nth) <=> i <= 4 \/ g + (i - 1) * 7 + 1 <= l
    BY <1>8, <1>15
  <2>2. g + (i - 1) * 7 + 1 = d
    BY <1>4
  <2> QED BY <1>5, <2>1, <2>2
<1>17. Walk!YmwOk([Nth EXCEPT !.index = @ + 1]) <=> (Walk!WeekLeft \/ Nth.index < 4)
  <2>1. PICK x : x = [Nth EXCEPT !.index = @ + 1]
    OBVIOUS
  <2>2. x.y = y /\ x.m = m /\ x.wd = dow /\ x.index = i + 1
    BY <1>2, <2>1 DEF Walk!Ymw
  <2>3. Walk!YmwOk(x) <=> i + 1 <= 4 \/ g + (i + 1 - 1) * 7 + 1 <= l
    BY <1>15, <2>2
  <2>4. g + (i + 1 - 1) * 7 + 1 = d + 7
    BY <1>4
  <2>5. i + 1 <= 4 <=> i < 4
    OBVIOUS
  <2> QED BY <1>8, <1>14, <2>1, <2>3, <2>4, <2>5
<1>18. Walk!LastWeekdayToDays(Nth, dow) = z <=> ~Walk!WeekLeft
  <2>1. PICK e \in Int : e = f + l - 1
    OBVIOUS
  <2>2. Walk!ToDays(Walk!YmdLast(Nth)) = e
    <3>1. Walk!YmdLast(Nth) = Walk!Ymd(y, m, l)
      BY <1>5, <1>8, LastDayIs DEF Walk!YmdLast
    <3>2. Walk!ToDays(Walk!Ymd(y, m, l)) = MonthStart(y, m) + l
      BY ToDaysIs
    <3>3. f = MonthStart(y, m) + 1
      BY <1>1 DEF DateOfWalk, MonthIs
    <3>4. MonthStart(y, m) \in Int
      BY MonthStartIs
    <3> QED BY <2>1, <3>1, <3>2, <3>3, <3>4
  <2>3. PICK v \in 0 .. 6 : v = (e + 4) % 7 /\ v = Walk!WeekdayFromDays(e)
    <3>1. e >= -16000000 /\ e <= 16000000
      BY <1>6, <2>1
    <3> QED BY <3>1, WeekdayIs
  <2>4. PICK h \in 0 .. 6 : h = (l - d) % 7
    OBVIOUS
  <2>5. Walk!WeekdayMinus(v, dow) = h
    <3>1. Walk!WeekdayMinus(v, dow) = (v - dow) % 7
      BY <1>7, WeekdayMinusIs
    <3>2. PICK a \in Int : f + l + 3 = 7 * a + v
      BY <2>1, <2>3
    <3>3. PICK b \in Int : f + d + 3 = 7 * b + dow
      BY <1>6, <1>7
    <3>4. PICK k \in Int, c \in Int : k = a - b /\ c = v - dow /\ c + 7 * k = l - d
      <4>1. dow \in Int
        BY <1>7
      <4> QED BY <3>2, <3>3, <4>1
    <3>5. c % 7 = (c + 7 * k) % 7
      OBVIOUS
    <3> QED BY <2>4, <3>1, <3>4, <3>5
  <2>6. Walk!WeekdayFromDays(e) = v
    BY <2>3
  <2>7. Walk!LastWeekdayToDays(Nth, dow) = e - h
    BY <2>2, <2>5, <2>6 DEF Walk!LastWeekdayToDays
  <2>8. e - h = z <=> h = l - d
    BY <1>6, <2>1
  <2>9. h = l - d <=> ~(d + 7 <= l)
    BY <1>5, <2>4
  <2> QED BY <1>14, <2>7, <2>8, <2>9
<1> QED BY <1>9, <1>13, <1>16, <1>17, <1>18

\* A number of months that is added and taken away again.
LEMMA NthThereAndBack ==
    ASSUME WalkInv, NEW n \in Shifts
    PROVE  Walk!YmwPlus(Walk!YmwPlus(Nth, n), -n) = Nth
<1>1. PICK y \in Int, m \in 1 .. 12, d \in 1 .. 31, l \in 28 .. 31, f \in Int, i \in 1 .. 5 :
        DateOfWalk(y, m, d, l, f, i)
  BY DateOfWalkIs
<1>2. Nth = Walk!Ymw(y, m, dow, i) /\ -27500 <= y /\ y <= 29500
  BY <1>1 DEF DateOfWalk, CivilIs, MonthIs
<1>3. n \in -100 .. 100
  BY WalkIs
<1>4. PICK q \in Int, p \in 1 .. 12 : 12 * q + p = 12 * y + m + n
  <2>1. PICK t \in Int : t = 12 * y + m + n - 1
    BY <1>3
  <2>2. t \div 12 \in Int /\ (t % 12) + 1 \in 1 .. 12 /\ 12 * (t \div 12) + ((t % 12) + 1) = t + 1
    OBVIOUS
  <2> QED BY <1>3, <2>1, <2>2
<1>5. -32767 <= q /\ q <= 32767
  BY <1>2, <1>3, <1>4
<1>6. Walk!YearMonthPlus(Nth, n) = Walk!YearMonth(q, p)
  <2>1. Nth.y = y /\ Nth.m = m
    BY <1>2 DEF Walk!Ymw
  <2>2. MonthsOn(Nth, n, q, p)
    BY <1>3, <1>4, <1>5, <2>1 DEF MonthsOn
  <2> QED BY <2>2, YearMonthPlusIs
<1>7. Walk!YmwPlus(Nth, n) = Walk!Ymw(q, p, dow, i)
  BY <1>2, <1>6 DEF Walk!YmwPlus, Walk!YearMonth, Walk!Ymw
<1>8. PICK x : x = Walk!Ymw(q, p, dow, i)
  OBVIOUS
<1>9. Walk!YearMonthPlus(x, -n) = Walk!YearMonth(y, m)
  <2>1. x.y = q /\ x.m = p
    BY <1>8 DEF Walk!Ymw
  <2>2. PICK k \in Int : k = -n
    BY <1>3
  <2>3. 12 * y + m = 12 * q + p + k
    BY <1>3, <1>4, <2>2
  <2>4. -32767 <= y /\ y <= 32767
    BY <1>2
  <2>5. MonthsOn(x, k, y, m)
    BY <2>1, <2>3, <2>4 DEF MonthsOn
  <2> QED BY <2>2, <2>5, YearMonthPlusIs
<1> QED BY <1>2, <1>7, <1>8, <1>9 DEF Walk!YmwPlus, Walk!YearMonth, Walk!Ymw

\* Every conversion agrees with the walk.
LEMMA ConversionsHold == WalkInv => Walk!ConversionsTrue
<1> SUFFICES ASSUME WalkInv PROVE Walk!ConversionsTrue
  OBVIOUS
<1>1. PICK y \in Int, m \in 1 .. 12, d \in 1 .. 31, l \in 28 .. 31, f \in Int, i \in 1 .. 5 :
        DateOfWalk(y, m, d, l, f, i)
  BY DateOfWalkIs
<1>2. civil = Walk!Ymd(y, m, d) /\ civil.y = y /\ civil.m = m /\ civil.d = d
  BY <1>1 DEF DateOfWalk, CivilIs
<1>3. d <= Walk!MonthLength(y, m) /\ -32767 <= y
  BY <1>1 DEF DateOfWalk, MonthIs
<1>4. Walk!FromDays(z) = civil /\ Walk!ToDays(civil) = z /\ IsDate(civil)
  BY WalkedTo DEF WalkInv, OnTheDay
<1>5. Walk!YmdOk(civil)
  BY <1>2, <1>3, YmdOkIs
<1>6. Walk!WeekdayFromDays(z) = dow
  <2>1. z \in Int /\ z >= -16000000 /\ z <= 16000000
    BY WalkedTo
  <2>2. dow = (z + 4) % 7
    BY DEF WalkInv, OnTheDay
  <2> QED BY <2>1, <2>2, WeekdayIs
<1>7. /\ Walk!YmdLess(civil, Walk!DayAfter(civil)) /\ ~Walk!YmdLess(Walk!DayAfter(civil), civil)
      /\ Walk!DayAfter(civil).d \in {1, Walk!DayPlus(civil.d, 1)}
  BY <1>4, DaysInOrder
<1>8. Walk!ToDays(Walk!DayAfter(civil)) = z + 1
  BY <1>4, DayAfterIs
<1>9. \A e \in 0 .. 32 : Walk!MonthDayOk(civil.m, e) <=> e \in 1 .. Walk!MonthLength(2000, civil.m)
  BY <1>2, MonthDaysAre
<1>10. /\ Walk!YmwFromDays(z) = Nth /\ Walk!YmwToDays(Nth) = z /\ Walk!YmwOk(Nth)
       /\ Walk!YmwOk([Nth EXCEPT !.index = @ + 1]) <=> (Walk!WeekLeft \/ Nth.index < 4)
       /\ Walk!LastWeekdayToDays(Nth, dow) = z <=> ~Walk!WeekLeft
  BY NthIs
<1>11. \A n \in Shifts : Walk!YmwPlus(Walk!YmwPlus(Nth, n), -n) = Nth
  BY NthThereAndBack
<1> HIDE DEF Nth
<1>12. PICK nth : nth = Nth
  OBVIOUS
<1>13. nth = Walk!Ymw(civil.y, civil.m, dow, Walk!Occurrence)
  BY <1>12 DEF Nth
<1> QED BY <1>4, <1>5, <1>6, <1>7, <1>8, <1>9, <1>10, <1>11, <1>12, <1>13 DEF Walk!ConversionsTrue

\* A date that is moved is where the count of months says.
LEMMA MovesHold == WalkInv => Walk!MovesTrue
<1> SUFFICES ASSUME WalkInv, moves >= 0
             PROVE  /\ ymd = Walk!Ymd(Walk!Year, Walk!Month, day)
                    /\ Walk!YmdOk(ymd) <=> day <= Walk!Length
                    /\ Walk!YearMonthMinus(ymd, from)
                         = 12 * ymd.y + ymd.m - 12 * from.y - from.m
                    /\ Walk!YearMonthPlus(from, Walk!YearMonthMinus(ymd, from))
                         = Walk!YearMonth(ymd.y, ymd.m)
                    /\ Walk!MonthPlus(from.m, Walk!MonthMinus(ymd.m, from.m)) = ymd.m
  BY DEF Walk!MovesTrue
<1>1. PICK k \in Int, y \in Int, m \in 1 .. 12, d \in 1 .. 31 : Figures(k, y, m, d)
  BY MovedIs
<1>2. /\ ymd = Walk!Ymd(y, m, d) /\ ymd.y = y /\ ymd.m = m /\ ymd.d = d
      /\ y = Walk!Year /\ m = Walk!Month /\ d = day
      /\ -30000 <= y /\ y <= 32000
  BY <1>1 DEF Figures
<1>3. ymd = Walk!Ymd(Walk!Year, Walk!Month, day)
  BY <1>2
<1>4. Walk!YmdOk(ymd) <=> day <= Walk!Length
  <2>1. -32767 <= y /\ 1 <= d
    BY <1>2
  <2>2. Walk!YmdOk(ymd) <=> 1 <= d /\ d <= Walk!MonthLength(y, m)
    BY <1>2, <2>1, YmdOkIs
  <2> QED BY <1>2, <2>1, <2>2 DEF Walk!Length
<1>5. PICK fy \in Int, fm \in 1 .. 12 : from.y = fy /\ from.m = fm
  <2>1. from = Walk!YearMonth(civil.y, civil.m)
    BY DEF WalkInv, Moved
  <2>2. civil.y \in Int /\ civil.m \in 1 .. 12
    BY DateFields DEF WalkInv, OnTheDay
  <2> QED BY <2>1, <2>2 DEF Walk!YearMonth
<1>6. Walk!YearMonthMinus(ymd, from) = 12 * (y - fy) + (m - fm)
  <2>1. PICK n \in Int : n = m - fm /\ n >= -100 /\ n <= 100
    OBVIOUS
  <2>2. Walk!Signed(Walk!Unsigned(n)) = n
    BY <2>1, SignedIs
  <2> QED BY <1>2, <1>5, <2>1, <2>2 DEF Walk!YearMonthMinus
<1>7. Walk!YearMonthPlus(from, Walk!YearMonthMinus(ymd, from)) = Walk!YearMonth(y, m)
  <2>1. PICK n \in Int : n = 12 * (y - fy) + (m - fm)
    OBVIOUS
  <2>2. 12 * y + m = 12 * fy + fm + n
    BY <2>1
  <2>3. -32767 <= y /\ y <= 32767
    BY <1>2
  <2>4. MonthsOn(from, n, y, m)
    BY <1>5, <2>2, <2>3 DEF MonthsOn
  <2>5. Walk!YearMonthPlus(from, n) = Walk!YearMonth(y, m)
    BY <2>4, YearMonthPlusIs
  <2> QED BY <1>6, <2>1, <2>5
<1>8. Walk!MonthPlus(fm, Walk!MonthMinus(m, fm)) = m
  <2>1. PICK n \in 0 .. 11 : n = (m - fm) % 12
    OBVIOUS
  <2>2. Walk!MonthMinus(m, fm) = n
    BY <2>1, MonthMinusIs
  <2>3. Walk!MonthPlus(fm, n) = ((fm - 1 + n) % 12) + 1
    BY MonthPlusIs
  <2>4. ((fm - 1 + n) % 12) + 1 = m
    BY <2>1
  <2> QED BY <2>2, <2>3, <2>4
<1>9. 12 * (y - fy) + (m - fm) = 12 * ymd.y + ymd.m - 12 * from.y - from.m
  BY <1>2, <1>5
<1> QED BY <1>2, <1>3, <1>4, <1>5, <1>6, <1>7, <1>8, <1>9

\* Numbers of days are rounded to what is nearest.
LEMMA RoundingHolds == WalkInv => Walk!RoundingTrue
<1> SUFFICES ASSUME WalkInv PROVE Walk!RoundingTrue
  OBVIOUS
<1>1. z \in Int /\ dow \in 0 .. 6
  BY DEF WalkInv, OnTheDay
<1>2. ASSUME NEW u \in Units
      PROVE  /\ Walk!DurationFloor(z, u) = z \div u
             /\ Walk!DurationCeil(z, u) = -((-z) \div u)
             /\ \A q \in {z \div u, z \div u + 1} :
                   \/ Walk!Magnitude(z - Walk!DurationRound(z, u) * u)
                        < Walk!Magnitude(z - q * u)
                   \/ Walk!DurationRound(z, u) = q
                   \/ (/\ Walk!Magnitude(z - Walk!DurationRound(z, u) * u)
                            = Walk!Magnitude(z - q * u)
                       /\ Walk!DurationRound(z, u) % 2 = 0)
  <2>1. u \in Nat /\ u > 0
    BY WalkIs
  <2> QED BY <1>1, <2>1, FloorIs, CeilIs, RoundIs
<1>3. ASSUME NEW wd \in 0 .. 6
      PROVE  Walk!WeekdayPlus(wd, Walk!WeekdayMinus(dow, wd)) = dow
  <2>1. PICK n \in 0 .. 6 : n = (dow - wd) % 7
    BY <1>1
  <2>2. Walk!WeekdayMinus(dow, wd) = n
    BY <1>1, <2>1, WeekdayMinusIs
  <2>3. Walk!WeekdayPlus(wd, n) = (wd + n) % 7
    BY WeekdayPlusIs
  <2>4. (wd + n) % 7 = dow
    BY <1>1, <2>1
  <2> QED BY <2>2, <2>3, <2>4
<1>4. Walk!WeekdayPlus(dow, z) = (dow + z) % 7
  BY <1>1, WeekdayPlusIs
<1>5. Walk!Make24(Walk!Make12(z % 24), ~Walk!IsAm(z % 24)) = z % 24
  <2>1. z % 24 \in 0 .. 23
    BY <1>1
  <2> QED BY <2>1, HoursAre
<1> QED BY <1>2, <1>3, <1>4, <1>5 DEF Walk!RoundingTrue

-----------------------------------------------------------------------------
(***************************************************************************)
(* The results of an option.                                               *)
(***************************************************************************)
\* The callback was run with what the policy says of the results.
Ran ==
    /\ results # <<>> /\ ~Values!ReductionFails(results)
    /\ proc = Values!Reduced(results) /\ sent = Values!OrElse(proc, results)

\* The inductive invariant of the option.
ResultsInv ==
    /\ results \in Seq(Seq(Int))
    /\ typeMin \in Int /\ typeMax \in Int /\ expectedMin \in Int /\ expectedMax \in Int
    /\ state \in {"parsing", "validated", "callback_run"}
    /\ state = "validated" => proc = <<>>
    /\ state = "callback_run" => Ran

\* The bounds that the reduction uses are numbers.
LEMMA ItemsAre ==
    ASSUME ResultsInv
    PROVE  Values!ItemsMin \in Int /\ Values!ItemsMax \in Int
<1>1. Unlimited \in Int
  BY VendoredAssumption DEF Values!ResultsAssumption
<1>2. PICK p \in Int : p = typeMin * expectedMin
  BY DEF ResultsInv
<1>3. PICK q \in Int : q = typeMax * expectedMax
  BY DEF ResultsInv
<1> QED BY <1>1, <1>2, <1>3 DEF Values!ItemsMin, Values!ItemsMax

\* A validator replaces some results and drops none.
LEMMA ValidatedIs ==
    ASSUME NEW r \in Seq(Seq(Int))
    PROVE  Values!Validated(r) \in Seq(Seq(Int)) /\ Len(Values!Validated(r)) = Len(r)
<1>1. CASE validator.kind # "transform"
  BY <1>1 DEF Values!Validated
<1>2. CASE validator.kind = "transform"
  <2> DEFINE v(i) == IF Values!Applies(i, Len(r)) THEN Append(r[i], Values!Mark) ELSE r[i]
  <2>1. Values!Validated(r) = [i \in DOMAIN r |-> v(i)]
    BY <1>2 DEF Values!Validated
  <2>2. PICK n \in Nat : n = Len(r) /\ DOMAIN r = 1 .. n
    BY LenProperties
  <2>3. ASSUME NEW i \in 1 .. n
        PROVE  v(i) \in Seq(Int)
    <3>1. r[i] \in Seq(Int)
      BY <2>2, <2>3, ElementOfSeq
    <3>2. Append(r[i], Values!Mark) \in Seq(Int)
      BY <3>1 DEF Values!Mark
    <3> QED BY <3>1, <3>2
  <2> HIDE DEF v
  <2>4. [i \in 1 .. n |-> v(i)] \in Seq(Seq(Int)) /\ Len([i \in 1 .. n |-> v(i)]) = n
    BY <2>3
  <2> QED BY <2>1, <2>2, <2>4
<1> QED BY <1>1, <1>2

\* What the reduction yields depends on the results alone, and on how many there are.
LEMMA ReducedAfter ==
    ASSUME UNCHANGED <<policy, typeMin, typeMax, expectedMin, expectedMax>>,
           NEW r, Len(r) = Len(results), results' = r
    PROVE  /\ Values!Reduced(results)' = Values!Reduced(r)
           /\ Values!ReductionFails(results)' <=> Values!ReductionFails(r)
<1>1. Values!ItemsMin' = Values!ItemsMin /\ Values!ItemsMax' = Values!ItemsMax
  BY DEF Values!ItemsMin, Values!ItemsMax
<1>2. Values!Trim(results)' = Values!Trim(r)
  BY <1>1 DEF Values!Trim
<1>3. Values!Out(results)' = Values!Out(r)
  BY <1>2 DEF Values!Out
<1>4. Values!Reduced(results)' = Values!Reduced(r)
  BY <1>1, <1>3 DEF Values!Reduced
<1>5. Values!ReductionFails(results)' <=> Values!ReductionFails(r)
  BY <1>1 DEF Values!ReductionFails
<1> QED BY <1>4, <1>5

\* An option is configured while it has no results.
LEMMA ResultsConfigured ==
    ASSUME ResultsInv,
           \/ \E e \in Expectations : Values!Expected(e) \/ Values!TypeSize(e)
           \/ \E e, f \in Expectations : Values!ExpectedRange(e, f)
           \/ \E p \in Policies : Values!SetPolicy(p)
    PROVE  ResultsInv'
<1> USE DEF ResultsInv
<1>1. Expectations \subseteq Int /\ Unlimited \in Int
  BY VendoredAssumption DEF Values!ResultsAssumption
<1>2. Values!Configure
  BY DEF Values!Expected, Values!TypeSize, Values!ExpectedRange, Values!SetPolicy
<1>3. results = <<>> /\ UNCHANGED <<results, proc>>
  BY <1>2 DEF Values!Configure
<1>4. state # "callback_run"
  BY <1>3 DEF Ran
<1>5. state' \in {state, "parsing"}
  BY DEF Values!Expected, Values!TypeSize, Values!ExpectedRange, Values!SetPolicy
<1>6. typeMin' \in Int /\ typeMax' \in Int /\ expectedMin' \in Int /\ expectedMax' \in Int
  <2>1. ASSUME NEW e \in Expectations, Values!Expected(e)
        PROVE  typeMin' \in Int /\ typeMax' \in Int /\ expectedMin' \in Int /\ expectedMax' \in Int
    BY <1>1, <2>1 DEF Values!Expected, Values!Larger
  <2>2. ASSUME NEW e \in Expectations, Values!TypeSize(e)
        PROVE  typeMin' \in Int /\ typeMax' \in Int /\ expectedMin' \in Int /\ expectedMax' \in Int
    BY <1>1, <2>2 DEF Values!TypeSize
  <2>3. ASSUME NEW e \in Expectations, NEW f \in Expectations, Values!ExpectedRange(e, f)
        PROVE  typeMin' \in Int /\ typeMax' \in Int /\ expectedMin' \in Int /\ expectedMax' \in Int
    BY <1>1, <2>3 DEF Values!ExpectedRange, Values!Smaller, Values!Larger
  <2>4. ASSUME NEW p \in Policies, Values!SetPolicy(p)
        PROVE  typeMin' \in Int /\ typeMax' \in Int /\ expectedMin' \in Int /\ expectedMax' \in Int
    BY <2>4 DEF Values!SetPolicy
  <2> QED BY <2>1, <2>2, <2>3, <2>4
<1> QED BY <1>3, <1>4, <1>5, <1>6

\* Results are added or cleared.
LEMMA ResultsAdded ==
    ASSUME ResultsInv,
           \/ \E v \in Numbers : Values!AddResult(<<<<v>>>>)
           \/ Values!AddResult(<<Values!Braces>>)
           \/ \E v, w \in Numbers : Values!AddResult(<<<<v>>, <<w>>>>)
           \/ \E n \in BOOLEAN, v \in {<<>>} \cup {<<m>> : m \in Numbers} : Values!AddFlag(n, v)
           \/ Values!Clear
    PROVE  ResultsInv'
<1>1. Numbers \subseteq Int
  BY VendoredAssumption DEF Values!ResultsAssumption
<1>2. ASSUME NEW parts \in Seq(Seq(Int)), Values!AddResult(parts)
      PROVE  ResultsInv'
  <2>1. results \o parts \in Seq(Seq(Int))
    BY ConcatProperties DEF ResultsInv
  <2> QED BY <1>2, <2>1 DEF Values!AddResult, Values!config, ResultsInv
<1>3. ASSUME NEW n \in BOOLEAN, NEW v \in {<<>>} \cup {<<m>> : m \in Numbers},
             Values!AddFlag(n, v)
      PROVE  ResultsInv'
  <2>1. PICK k \in Int : k = IF v = <<>> THEN 1 ELSE v[1]
    BY <1>1
  <2>2. Values!FlagValue(n, v) = IF n THEN <<-k>> ELSE <<k>>
    BY <2>1 DEF Values!FlagValue
  <2>3. Values!FlagValue(n, v) \in Seq(Int)
    <3>1. PICK j \in Int : j = -k
      OBVIOUS
    <3>2. <<j>> \in Seq(Int) /\ <<k>> \in Seq(Int)
      OBVIOUS
    <3>3. Values!FlagValue(n, v) \in {<<j>>, <<k>>}
      BY <2>2, <3>1
    <3> QED BY <3>2, <3>3
  <2>4. Append(results, Values!FlagValue(n, v)) \in Seq(Seq(Int))
    BY <2>3, AppendProperties DEF ResultsInv
  <2> QED BY <1>3, <2>4 DEF Values!AddFlag, Values!config, ResultsInv
<1>4. CASE Values!Clear
  BY <1>4 DEF Values!Clear, Values!config, ResultsInv
<1>5. \A v \in Numbers : <<<<v>>>> \in Seq(Seq(Int))
  BY <1>1
<1>6. \A v, w \in Numbers : <<<<v>>, <<w>>>> \in Seq(Seq(Int))
  BY <1>1
<1>7. <<Values!Braces>> \in Seq(Seq(Int))
  BY DEF Values!Braces
<1> QED BY <1>2, <1>3, <1>4, <1>5, <1>6, <1>7

\* The callback is run, or an error is thrown.
LEMMA ResultsRun ==
    ASSUME ResultsInv, Values!RunCallback
    PROVE  ResultsInv'
<1>1. PICK r : r = IF state = "parsing" THEN Values!Validated(results) ELSE results
  OBVIOUS
<1>2. r \in Seq(Seq(Int)) /\ Len(r) = Len(results)
  BY <1>1, ValidatedIs DEF ResultsInv
<1>3. /\ results # <<>>
      /\ UNCHANGED <<policy, typeMin, typeMax, expectedMin, expectedMax>>
  BY DEF Values!RunCallback, Values!config
<1>4. CASE outcome' = "ValidationError"
  <2>1. UNCHANGED <<results, proc, state, sent>>
    BY <1>4 DEF Values!RunCallback, Values!None
  <2>2. Ran => Ran'
    BY <1>3, <2>1, ReducedAfter DEF Ran, Values!OrElse
  <2> QED BY <1>3, <2>1, <2>2 DEF ResultsInv
<1>5. CASE outcome' = "ArgumentMismatch"
  <2>1. results' = r /\ proc' = <<>> /\ state' = "validated"
    BY <1>1, <1>5 DEF Values!RunCallback, Values!None
  <2> QED BY <1>2, <1>3, <2>1 DEF ResultsInv
<1>6. CASE outcome' = Values!None
  <2>1. /\ state \in {"parsing", "validated"} => ~Values!ReductionFails(r)
        /\ results' = r /\ state' = "callback_run"
        /\ proc' = IF state \in {"parsing", "validated"} THEN Values!Reduced(r) ELSE proc
        /\ sent' = Values!OrElse(proc', r)
    BY <1>1, <1>6 DEF Values!RunCallback, Values!None
  <2>2. ~Values!ReductionFails(r) /\ proc' = Values!Reduced(r)
    BY <1>1, <2>1 DEF ResultsInv, Ran
  <2>3. r # <<>>
    BY <1>2, <1>3 DEF ResultsInv
  <2>4. Values!Reduced(results)' = Values!Reduced(r)
        /\ (Values!ReductionFails(results)' <=> Values!ReductionFails(r))
    BY <1>2, <1>3, <2>1, ReducedAfter
  <2>5. Ran'
    BY <2>1, <2>2, <2>3, <2>4 DEF Ran, Values!OrElse
  <2> QED BY <1>2, <1>3, <2>1, <2>5 DEF ResultsInv
<1> QED BY <1>4, <1>5, <1>6 DEF Values!RunCallback

LEMMA ResultsGoOn ==
    ASSUME ResultsInv, Values!Next
    PROVE  ResultsInv'
BY ResultsConfigured, ResultsAdded, ResultsRun DEF Values!Next

LEMMA ResultsBegin == Values!Init => ResultsInv
BY DEF Values!Init, ResultsInv

\* What an option reads is what its callback is sent.
LEMMA ResultsRead ==
    ASSUME ResultsInv, Values!RunCallback, ~Values!StaleSingle
    PROVE  /\ Values!Unchecked
              \/ Values!Read = IF outcome' = Values!None THEN sent' ELSE <<>>
           /\ outcome' = Values!None => Values!Read' = sent'
<1>1. PICK r : r = IF state = "parsing" THEN Values!Validated(results) ELSE results
  OBVIOUS
<1>2. outcome' = Values!None =>
        /\ ~(state = "parsing" /\ Values!ValidationFails(results))
        /\ state \in {"parsing", "validated"} => ~Values!ReductionFails(r)
        /\ results' = r /\ state' = "callback_run"
        /\ proc' = IF state \in {"parsing", "validated"} THEN Values!Reduced(r) ELSE proc
        /\ sent' = Values!OrElse(proc', r)
  BY <1>1 DEF Values!RunCallback, Values!None
<1>3. outcome' # Values!None =>
        \/ state = "parsing" /\ Values!ValidationFails(results)
        \/ state \in {"parsing", "validated"} /\ Values!ReductionFails(r)
  BY <1>1 DEF Values!RunCallback, Values!None
<1>4. outcome' = Values!None => Values!Read' = sent'
  BY <1>2 DEF Values!Read, Values!OrElse
<1>5. CASE state = "callback_run"
  BY <1>1, <1>2, <1>3, <1>4, <1>5 DEF Values!Read, Values!OrElse, ResultsInv, Ran
<1>6. CASE state # "callback_run" /\ ~Values!Unchecked
  <2>1. r = IF state = "parsing" THEN Values!Validated(results)
            ELSE Values!OrElse(proc, results)
    BY <1>1, <1>6 DEF ResultsInv, Values!OrElse
  <2>2. Values!Read
          = IF (state = "parsing" /\ Values!ValidationFails(results)) \/ Values!ReductionFails(r)
            THEN <<>> ELSE Values!OrElse(Values!Reduced(r), r)
    BY <1>6, <2>1 DEF Values!Read, Values!Unchecked
  <2>3. state \in {"parsing", "validated"}
    BY <1>6 DEF ResultsInv
  <2> QED BY <1>2, <1>3, <1>4, <2>2, <2>3
<1> QED BY <1>4, <1>5, <1>6

\* The last of a sequence are a suffix of it.
LEMMA SuffixIs ==
    ASSUME NEW S, NEW r \in Seq(S), NEW t \in Seq(S), Len(t) <= Len(r),
           \A i \in 1 .. Len(t) : t[i] = r[Len(r) - Len(t) + i]
    PROVE  Values!IsSuffix(t, r)
<1>1. PICK n \in Nat, k \in Nat : n = Len(r) /\ k = Len(t) /\ k <= n
  BY LenProperties
<1> DEFINE rr == [i \in 1 .. n |-> r[(n - i) + 1]]
           rt == [i \in 1 .. k |-> t[(k - i) + 1]]
<1>2. Values!Reverse(r) = rr /\ Values!Reverse(t) = rt
  BY <1>1 DEF Values!Reverse
<1>3. rr \in Seq(S) /\ Len(rr) = n /\ rt \in Seq(S) /\ Len(rt) = k
  BY <1>1
<1>4. \A i \in 1 .. k : rt[i] = rr[i]
  <2> TAKE i \in 1 .. k
  <2>1. PICK j \in 1 .. k : j = (k - i) + 1 /\ n - k + j = (n - i) + 1
    OBVIOUS
  <2>2. t[j] = r[n - k + j]
    BY <1>1
  <2>3. i \in 1 .. n
    BY <1>1
  <2> QED BY <2>1, <2>2, <2>3
<1> HIDE DEF rr, rt
<1>5. SubSeq(rt, 1, k) = SubSeq(rr, 1, k)
  <2>1. SubSeq(rt, 1, k) = [i \in 1 .. k |-> rt[i]]
    BY <1>3
  <2>2. SubSeq(rr, 1, k) = [i \in 1 .. k |-> rr[i]]
    BY <1>1, <1>3
  <2> QED BY <1>4, <2>1, <2>2
<1> QED BY <1>1, <1>2, <1>3, <1>5 DEF Values!IsSuffix, Values!IsPrefix

\* As many of the last ones as there may be.
LEMMA LastAre ==
    ASSUME NEW S, NEW r \in Seq(S), NEW n \in 1 .. Len(r)
    PROVE  /\ Values!LastOf(r, n) \in Seq(S) /\ Len(Values!LastOf(r, n)) = n
           /\ \A i \in 1 .. n : Values!LastOf(r, n)[i] = r[Len(r) - n + i]
<1>1. PICK l \in Nat, m \in Nat : l = Len(r) /\ m = l - n + 1 /\ m >= 1 /\ n <= l
  BY LenProperties
<1>2. Values!LastOf(r, n) = SubSeq(r, m, l)
  BY <1>1 DEF Values!LastOf
<1>3. SubSeq(r, m, l) = [i \in 1 .. n |-> r[m + i - 1]]
  BY <1>1
<1>4. \A i \in 1 .. n : m + i - 1 \in 1 .. l /\ m + i - 1 = l - n + i
  BY <1>1
<1>5. \A i \in 1 .. n : r[m + i - 1] \in S
  BY <1>1, <1>4
<1> DEFINE t == [i \in 1 .. n |-> r[m + i - 1]]
<1>6. t \in Seq(S) /\ Len(t) = n
  BY <1>5
<1>7. \A i \in 1 .. n : t[i] = r[l - n + i]
  BY <1>4
<1> QED BY <1>1, <1>2, <1>3, <1>6, <1>7

\* A single result joined is that result.
LEMMA JoinOfOne ==
    ASSUME NEW r \in Seq(Seq(Int)), Len(r) = 1
    PROVE  Values!FlattenSeq(r) = r[1]
<1> DEFINE One(f) == f = [i \in 1 .. 1 |-> IF i = 1 THEN r[i] ELSE f[i - 1] \o r[i]]
<1>1. One([i \in 1 .. 1 |-> r[1]])
  OBVIOUS
<1>2. One(CHOOSE f : One(f))
  BY <1>1
<1>3. (CHOOSE f : One(f))[1] = r[1]
  BY <1>2
<1> QED BY <1>3 DEF Values!FlattenSeq

\* Results that are no braces are sent as the policy says.
LEMMA SentIs == ResultsInv => Values!SentIsPolicy
<1> SUFFICES ASSUME ResultsInv, state = "callback_run", Values!AllNumbers(results)
             PROVE  LET n == Len(sent)
                        limited == n = Values!Smaller(Values!Larger(Values!ItemsMax, 1), Len(results))
                    IN  /\ n > 0
                        /\ policy = "TakeAll" => sent = results
                        /\ policy = "TakeLast" => limited /\ Values!IsSuffix(sent, results)
                        /\ policy = "TakeFirst" => limited /\ Values!IsPrefix(sent, results)
                        /\ policy = "Reverse" => limited /\ Values!IsSuffix(Values!Reverse(sent), results)
                        /\ policy \in {"Join", "Sum"} => n = 1
                        /\ policy = "Join" => sent[1] = Values!FlattenSeq(results)
                        /\ policy = "Throw" => /\ sent = results
                                               /\ n >= Values!ItemsMin /\ n <= Values!Larger(Values!ItemsMax, 1)
  BY DEF Values!SentIsPolicy
<1>1. /\ results \in Seq(Seq(Int)) /\ results # <<>> /\ ~Values!ReductionFails(results)
      /\ proc = Values!Out(results) /\ sent = Values!OrElse(proc, results)
  BY DEF ResultsInv, Ran, Values!Reduced
<1>2. PICK l \in Nat : l = Len(results) /\ l > 0
  BY <1>1
<1>3. PICK least \in Int, most \in Int : least = Values!ItemsMin /\ most = Values!ItemsMax
  BY ItemsAre
<1>4. PICK k \in 1 .. l : k = Values!Trim(results)
                          /\ k = Values!Smaller(Values!Larger(Values!ItemsMax, 1), Len(results))
  BY <1>2, <1>3 DEF Values!Trim, Values!Smaller, Values!Larger
<1> DEFINE last == Values!LastOf(results, k)
<1>5. /\ last \in Seq(Seq(Int)) /\ Len(last) = k
      /\ \A i \in 1 .. k : last[i] = results[l - k + i]
  BY <1>1, <1>2, LastAre
<1>6. last # <<>>
  BY <1>5
<1>7. Values!IsSuffix(last, results)
  <2>1. Len(last) <= Len(results)
    BY <1>2, <1>5
  <2>2. \A i \in 1 .. Len(last) : last[i] = results[Len(results) - Len(last) + i]
    BY <1>2, <1>5
  <2> QED BY <1>1, <1>5, <2>1, <2>2, SuffixIs
<1> HIDE DEF last
<1>8. CASE policy = "TakeLast"
  <2>1. sent = IF l # k THEN last ELSE results
    BY <1>1, <1>2, <1>4, <1>6, <1>8 DEF Values!Out, Values!OrElse, last
  <2>2. CASE l # k
    BY <1>4, <1>5, <1>8, <1>7, <2>1, <2>2
  <2>3. CASE l = k
    <3>1. \A i \in 1 .. Len(results) : results[i] = results[Len(results) - Len(results) + i]
      BY <1>2
    <3>2. Values!IsSuffix(results, results)
      BY <1>1, <1>2, <3>1, SuffixIs
    <3> QED BY <1>2, <1>4, <1>8, <2>1, <2>3, <3>2
  <2> QED BY <2>2, <2>3
<1>9. CASE policy = "Reverse"
  <2> DEFINE back == [i \in 1 .. k |-> last[(k - i) + 1]]
  <2>1. Values!Reverse(last) = back
    BY <1>5 DEF Values!Reverse
  <2>2. ASSUME NEW i \in 1 .. k
        PROVE  last[(k - i) + 1] \in Seq(Int)
    <3>1. (k - i) + 1 \in 1 .. Len(last)
      BY <1>2, <1>4, <1>5
    <3> QED BY <1>5, <3>1
  <2>3. back \in Seq(Seq(Int)) /\ Len(back) = k /\ \A i \in 1 .. k : back[i] = last[(k - i) + 1]
    BY <2>2
  <2> HIDE DEF back
  <2>4. back # <<>>
    BY <2>3
  <2>5. sent = IF l # k \/ k > 1 THEN back ELSE results
    BY <1>1, <1>2, <1>4, <1>9, <2>1, <2>4 DEF Values!Out, Values!OrElse, last
  <2>6. CASE l # k \/ k > 1
    <3>1. Values!Reverse(sent) = [i \in 1 .. k |-> back[(k - i) + 1]]
      BY <2>3, <2>5, <2>6 DEF Values!Reverse
    <3>2. \A i \in 1 .. k : back[(k - i) + 1] = last[i]
      <4> TAKE i \in 1 .. k
      <4>1. PICK j \in 1 .. k : j = (k - i) + 1 /\ (k - j) + 1 = i
        OBVIOUS
      <4> QED BY <2>3, <4>1
    <3>3. last = [i \in 1 .. k |-> last[i]]
      BY <1>5
    <3>4. Values!Reverse(sent) = last
      BY <3>1, <3>2, <3>3
    <3> QED BY <1>4, <1>9, <1>7, <2>3, <2>5, <2>6, <3>4
  <2>7. CASE l = k /\ k = 1
    <3>1. sent = results /\ Len(results) = 1
      BY <1>2, <2>5, <2>7
    <3>2. Values!Reverse(results) = [i \in 1 .. 1 |-> results[(1 - i) + 1]]
      BY <3>1 DEF Values!Reverse
    <3>3. results = [i \in 1 .. 1 |-> results[i]]
      BY <1>1, <3>1
    <3>4. \A i \in 1 .. 1 : (1 - i) + 1 = i
      OBVIOUS
    <3>5. Values!Reverse(results) = results
      BY <3>2, <3>3, <3>4
    <3>6. Values!IsSuffix(results, results)
      BY <1>1, <3>1, SuffixIs
    <3> QED BY <1>4, <1>9, <2>7, <3>1, <3>5, <3>6
  <2> QED BY <2>6, <2>7
<1>10. CASE policy = "TakeFirst"
  <2> DEFINE first == SubSeq(results, 1, k)
  <2>1. first = [i \in 1 .. k |-> results[i]]
    BY <1>1, <1>2
  <2>2. first \in Seq(Seq(Int)) /\ Len(first) = k
    <3>1. \A i \in 1 .. k : results[i] \in Seq(Int)
      BY <1>1, <1>2
    <3> QED BY <2>1, <3>1
  <2> HIDE DEF first
  <2>3. first # <<>>
    BY <2>2
  <2>4. sent = IF l # k THEN first ELSE results
    BY <1>1, <1>2, <1>4, <1>10, <2>3 DEF Values!Out, Values!OrElse, first
  <2>5. Len(sent) = k /\ SubSeq(sent, 1, k) = SubSeq(results, 1, k)
    <3>1. CASE l # k
      <4>1. SubSeq(first, 1, k) = [i \in 1 .. k |-> first[i]]
        BY <2>2
      <4>2. SubSeq(first, 1, k) = first
        BY <2>1, <4>1
      <4> QED BY <2>2, <2>4, <3>1, <4>2 DEF first
    <3>2. CASE l = k
      BY <1>2, <2>4, <3>2
    <3> QED BY <3>1, <3>2
  <2>6. Values!IsPrefix(sent, results)
    BY <1>2, <2>5 DEF Values!IsPrefix
  <2> QED BY <1>4, <1>10, <2>5, <2>6
<1>11. CASE policy = "Join"
  <2>1. CASE l = 1
    <3>1. sent = results
      BY <1>1, <1>2, <1>11, <2>1 DEF Values!Out, Values!OrElse
    <3> QED BY <1>1, <1>2, <1>11, <2>1, <3>1, JoinOfOne
  <2>2. CASE l # 1
    <3>1. sent = <<Values!FlattenSeq(results)>>
      BY <1>1, <1>2, <1>11, <2>2 DEF Values!Out, Values!OrElse
    <3> QED BY <1>11, <3>1
  <2> QED BY <2>1, <2>2
<1>12. CASE policy = "Sum"
  <2>1. sent = <<Values!SumOf(results)>>
    BY <1>1, <1>12 DEF Values!Out, Values!OrElse
  <2> QED BY <1>12, <2>1
<1>13. CASE policy = "Throw"
  <2>1. sent = results
    BY <1>1, <1>13 DEF Values!Out, Values!OrElse
  <2>2. results # <<Values!Braces, Values!Percent>>
    BY DEF Values!AllNumbers, Values!Braces, Values!Percent, Values!Range
  <2>3. l >= Values!Larger(least, 1) /\ l <= Values!Larger(most, 1)
    BY <1>1, <1>2, <1>3, <1>13, <2>2 DEF Values!ReductionFails, Values!Larger
  <2> QED BY <1>2, <1>3, <1>13, <2>1, <2>3 DEF Values!Larger
<1>14. CASE policy \notin {"TakeLast", "Reverse", "TakeFirst", "Join", "Sum", "Throw"}
  <2>1. sent = results
    BY <1>1, <1>14 DEF Values!Out, Values!OrElse
  <2> QED BY <1>2, <1>14, <2>1
<1> QED BY <1>8, <1>9, <1>10, <1>11, <1>12, <1>13, <1>14

-----------------------------------------------------------------------------
(***************************************************************************)
(* The parts, among the others that are carried along.                     *)
(***************************************************************************)
\* The inductive invariant of the helpers.
HelpersInv == GuardInv /\ SizesInv

\* Both begin, whichever part the behaviour is one of.
LEMMA HelpersBegin == MCInit => HelpersInv
  BY GuardBegins, SizesBegin DEF MCInit, HelpersInv

\* And go on while another part moves.
LEMMA HelpersGoOn == HelpersInv /\ [MCNext]_vars => HelpersInv'
<1> SUFFICES ASSUME HelpersInv, [MCNext]_vars
             PROVE  HelpersInv'
  OBVIOUS
<1>1. [Guard!Next]_guardVars
  BY DEF MCNext, vars, InGuard, InSizes, InLine, InValues, InWalk, InDated, InSemver
<1>2. [Sizes!Next]_sizesVars
  BY DEF MCNext, vars, InGuard, InSizes, InLine, InValues, InWalk, InDated, InSemver
<1> QED BY <1>1, <1>2, GuardGoesOn, SizesGoOn DEF HelpersInv

\* For every number of callbacks and scopes, every word length, unit and number
\* of suffixes: a guard's callback is called or dismissed exactly once however
\* the guard is moved, the number that prettyPrintBytes shows is right to within
\* a unit of the suffix before, and allocate() hands out enough or throws.
THEOREM HelpersCorrect == MCSpec => []HelpersTrue
<1>1. MCSpec => []HelpersInv
  BY HelpersBegin, HelpersGoOn, PTL DEF MCSpec
<1>2. HelpersInv => HelpersTrue
  BY GuardOnce, SizesTrue DEF HelpersInv, HelpersTrue
<1> QED BY <1>1, <1>2, PTL

\* The walk begins, whichever part the behaviour is one of.
LEMMA CalendarBegins == MCInit => WalkInv
  BY WalkBegins DEF MCInit

\* And goes on while another part moves.
LEMMA CalendarGoesOn == WalkInv /\ [MCNext]_vars => WalkInv'
<1> SUFFICES ASSUME WalkInv, [MCNext]_vars
             PROVE  WalkInv'
  OBVIOUS
<1>1. [Walk!Next]_walkVars
  BY DEF MCNext, vars, InGuard, InSizes, InLine, InValues, InWalk, InDated, InSemver
<1> QED BY <1>1, WalkGoesOn

\* For every walk of up to ten million days in either direction from a day that is
\* known, every set of units, and every number of moves up to 20 by up to 100 months
\* or years: from_days and to_days agree with the calendar and invert one another,
\* weekdays, the n-th weekday of a month and its last are right, a date that is moved
\* is where the count of months says, and days are rounded to what is nearest.
THEOREM CalendarCorrect == MCSpec => []CalendarTrue
<1>1. MCSpec => []WalkInv
  BY CalendarBegins, CalendarGoesOn, PTL DEF MCSpec
<1>2. WalkInv => CalendarTrue
  BY ConversionsHold, MovesHold, RoundingHolds DEF CalendarTrue
<1> QED BY <1>1, <1>2, PTL

\* The option begins, whichever part the behaviour is one of.
LEMMA OptionBegins == MCInit => ResultsInv
BY ResultsBegin DEF MCInit

\* And goes on while another part moves.
LEMMA OptionGoesOn == ResultsInv /\ [MCNext]_vars => ResultsInv'
<1> SUFFICES ASSUME ResultsInv, [MCNext]_vars
             PROVE  ResultsInv'
  OBVIOUS
<1>1. CASE InValues(Values!Next)
  BY <1>1, ResultsGoOn DEF InValues
<1>2. CASE UNCHANGED valuesVars
  <2>1. UNCHANGED <<policy, typeMin, typeMax, expectedMin, expectedMax, results, proc, state, sent>>
    BY <1>2 DEF valuesVars
  <2>2. Ran => Ran'
    BY <2>1, ReducedAfter DEF Ran, Values!OrElse
  <2> QED BY <2>1, <2>2 DEF ResultsInv
<1>3. InValues(Values!Next) \/ UNCHANGED valuesVars
  BY DEF MCNext, vars, InGuard, InSizes, InLine, InWalk, InDated, InSemver
<1> QED BY <1>1, <1>2, <1>3

\* The callback of an option is sent what its policy makes of all its results,
\* whatever was configured, added, validated and cleared before
\* (Option::run_callback, _reduce_results).
THEOREM ResultsCorrect == MCSpec => []ResultsTrue
<1>1. MCSpec => []ResultsInv
  BY OptionBegins, OptionGoesOn, PTL DEF MCSpec
<1>2. ResultsInv => ResultsTrue
  BY SentIs DEF ResultsTrue
<1> QED BY <1>1, <1>2, PTL

\* An option that is read before its callback has run, or after, shows what the
\* callback is sent (Option::results, reduced_results).
THEOREM ReadsCorrect == MCSpec => Values!ReadIsSent
<1>1. MCSpec => []ResultsInv
  BY OptionBegins, OptionGoesOn, PTL DEF MCSpec
<1>2. ResultsInv /\ [MCNext]_vars =>
        [Values!RunCallback /\ ~Values!StaleSingle =>
            /\ Values!Unchecked
               \/ Values!Read = IF outcome' = Values!None THEN sent' ELSE <<>>
            /\ outcome' = Values!None => Values!Read' = sent']_(Values!vars)
  BY ResultsRead
<1> QED BY <1>1, <1>2, PTL DEF MCSpec, Values!ReadIsSent

=================================================================================
