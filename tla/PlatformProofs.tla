----------------------------- MODULE PlatformProofs -----------------------------
(***************************************************************************)
(* The parts of MCPlatform share nothing: each of its behaviours is one of *)
(* every part, so what is proved of a part holds of the whole.             *)
(***************************************************************************)
EXTENDS MCPlatform, FiniteSetTheorems, TLAPS

KP == INSTANCE KernelSemaphoreProofs WITH at <- waiterAt
RP == INSTANCE RingLifecycleProofs

-----------------------------------------------------------------------------
(***************************************************************************)
(* The logger: its inductive invariant.                                    *)
(***************************************************************************)
Locations == {"idle", "get", "read", "count", "log", "spd", "write", "drop",
              "set", "assign", "unlock"}

\* The variables that the counting is about have their types; refs only Int.
LoggerTyped ==
    /\ loggerMutex \in Threads \cup {Log!None}
    /\ currentLogger \in Log!Loggers
    /\ refs \in [Log!Loggers -> Int]
    /\ unmade \subseteq SpdLoggers
    /\ at \in [Threads -> Locations]
    /\ ptr \in [Threads -> Log!Loggers \cup {Log!None}]
    /\ since \in [Threads -> SUBSET Log!Loggers]
    /\ replaced \subseteq Log!Loggers

\* The others.
RestTyped ==
    /\ spdLock \in Threads \cup {Log!None}
    /\ calls \in [Threads -> 0 .. Calls]
    /\ handler \in
        [Threads -> {"none", "info", "infoWrite", "debug", "debugWrite", "store"}]
    /\ signals \in 0 .. Signals
    /\ halted \in BOOLEAN

\* The mutex excludes: the thread inside holds it.
Excluded ==
    \A t \in Threads : at[t] \in {"read", "count", "assign", "unlock"} => loggerMutex = t

\* Where a thread has a pointer.
Pointers ==
    \A t \in Threads :
        /\ at[t] \in {"count", "log", "drop", "set", "assign", "unlock"} =>
             ptr[t] \in Log!Loggers
        /\ at[t] \in {"idle", "get", "read"} => ptr[t] = Log!None
        /\ at[t] = "count" => ptr[t] = currentLogger

\* The shared_ptrs to a logger: those of the threads, but for one that has read
\* the pointer and not counted itself, and the current one.
Holders(l) == {t \in Threads : ptr[t] = l /\ at[t] # "count"}
Counted(l) ==
    refs[l] = Cardinality(Holders(l)) + (IF currentLogger = l THEN 1 ELSE 0)
Counts == \A l \in Log!Loggers : Counted(l)

\* A logger that is to be set is new: it is set once.
New(l) == l # currentLogger /\ l \notin replaced
Fresh ==
    /\ \A l \in unmade : New(l) /\ \A t \in Threads : ptr[t] # l
    /\ \A t \in Threads :
        at[t] \in {"set", "assign"} =>
          New(ptr[t]) /\ \A u \in Threads \ {t} : ptr[u] # ptr[t]

\* Loggers that were replaced do not come back.
Gone ==
    /\ currentLogger \notin replaced
    /\ \A t \in Threads : since[t] \subseteq replaced
    /\ \A t \in Threads : at[t] = "log" => ptr[t] \notin since[t]

LInv ==
    /\ LoggerTyped
    /\ Excluded
    /\ Pointers
    /\ Counts
    /\ Fresh
    /\ Gone

-----------------------------------------------------------------------------
(***************************************************************************)
(* The logger: what its steps have in common.                              *)
(***************************************************************************)
\* Sizes are counted alike in both modules.
LEMMA SameSize ==
    \A S : (Log!IsFiniteSet(S) <=> IsFiniteSet(S)) /\ Log!Cardinality(S) = Cardinality(S)
  BY DEF Log!IsFiniteSet, IsFiniteSet, Log!Cardinality, Cardinality

\* The names of no thread and no logger are told apart.
LEMMA Names ==
    ASSUME Log!LoggingAssumption
    PROVE  /\ IsFiniteSet(Threads)
           /\ Log!None \notin Threads /\ Log!None \notin Log!Loggers
           /\ NullLogger \in Log!Loggers /\ SpdLoggers \subseteq Log!Loggers
  BY SameSize DEF Log!LoggingAssumption, Log!Loggers

\* The holders of a logger are some of the threads.
LEMMA HoldersFinite ==
    ASSUME Log!LoggingAssumption, NEW l \in Log!Loggers
    PROVE  /\ IsFiniteSet(Holders(l))
           /\ Cardinality(Holders(l)) \in Nat
           /\ Cardinality(Threads) \in Nat
           /\ Cardinality(Holders(l)) <= Cardinality(Threads)
<1>1. Holders(l) \subseteq Threads
  BY DEF Holders
<1> QED BY <1>1, Names, FS_Subset, FS_CardinalityType

\* A step that neither touches the pointers and counts nor moves a thread to or
\* from the point between its reading and its counting.
LEMMA CountsKept ==
    ASSUME Counts,
           UNCHANGED <<refs, currentLogger, ptr>>,
           \A u \in Threads : at'[u] = "count" <=> at[u] = "count"
    PROVE  Counts'
<1> SUFFICES ASSUME NEW l \in Log!Loggers PROVE Counted(l)'
  BY DEF Counts
<1>1. Holders(l)' = Holders(l)
  BY DEF Holders
<1>2. Counted(l)
  BY DEF Counts
<1> QED BY <1>1, <1>2 DEF Counted

\* A step that leaves the logger's variables alone, but for its own place.
LEMMA MovedTyped ==
    ASSUME LoggerTyped, NEW t \in Threads, NEW from \in Locations, NEW to \in Locations,
           Log!Goes(t, from, to)
    PROVE  /\ at' \in [Threads -> Locations]
           /\ at[t] = from /\ at'[t] = to
           /\ \A u \in Threads : u # t => at'[u] = at[u]
  BY DEF LoggerTyped, Log!Goes

-----------------------------------------------------------------------------
(***************************************************************************)
(* The steps that move no pointer.                                         *)
(***************************************************************************)
\* A call begins without a logger.
LEMMA BeginLogKeeps ==
    ASSUME Log!LoggingAssumption, LInv, NEW t \in Threads, Log!BeginLog(t)
    PROVE  LInv'
<1> USE DEF LInv, Log!BeginLog, Log!logger, Log!interrupt
<1>1. /\ at' \in [Threads -> Locations] /\ at[t] = "idle" /\ at'[t] = "get"
      /\ \A u \in Threads : u # t => at'[u] = at[u]
  BY MovedTyped DEF Locations
<1>2. LoggerTyped'
  BY <1>1 DEF LoggerTyped
<1>3. Excluded'
  BY <1>1 DEF Excluded
<1>4. Pointers'
  BY <1>1 DEF Pointers
<1>5. Counts'
  BY <1>1, CountsKept
<1>6. Fresh'
  BY <1>1 DEF Fresh, New
<1>7. Gone'
  BY <1>1 DEF Gone, LoggerTyped
<1> QED BY <1>2, <1>3, <1>4, <1>5, <1>6, <1>7

\* Nor does a line written to spdlog directly have one.
LEMMA BeginSpdlogKeeps ==
    ASSUME Log!LoggingAssumption, LInv, NEW t \in Threads, Log!BeginSpdlog(t)
    PROVE  LInv'
<1> USE DEF LInv, Log!BeginSpdlog, Log!logger, Log!interrupt
<1>1. /\ at' \in [Threads -> Locations] /\ at[t] = "idle" /\ at'[t] = "spd"
      /\ \A u \in Threads : u # t => at'[u] = at[u]
  BY MovedTyped DEF Locations
<1>2. LoggerTyped'
  BY <1>1 DEF LoggerTyped
<1>3. Excluded'
  BY <1>1 DEF Excluded
<1>4. Pointers'
  BY <1>1 DEF Pointers
<1>5. Counts'
  BY <1>1, CountsKept
<1>6. Fresh'
  BY <1>1 DEF Fresh, New
<1>7. Gone'
  BY <1>1 DEF Gone, LoggerTyped
<1> QED BY <1>2, <1>3, <1>4, <1>5, <1>6, <1>7

\* A thread enters getLogger when nobody is inside the mutex.
LEMMA LockToGetKeeps ==
    ASSUME Log!LoggingAssumption, LInv, NEW t \in Threads, Log!LockToGet(t)
    PROVE  LInv'
<1> USE DEF LInv, Log!LockToGet, Log!Lock, Log!interrupt
<1>1. /\ at' \in [Threads -> Locations] /\ at[t] = "get" /\ at'[t] = "read"
      /\ \A u \in Threads : u # t => at'[u] = at[u]
  BY MovedTyped DEF Locations
<1>2. LoggerTyped'
  BY <1>1 DEF LoggerTyped
<1>3. Excluded'
  BY <1>1, Names DEF Excluded
<1>4. Pointers'
  BY <1>1 DEF Pointers
<1>5. Counts'
  BY <1>1, CountsKept
<1>6. Fresh'
  BY <1>1 DEF Fresh, New
<1>7. Gone'
  BY <1>1 DEF Gone, LoggerTyped
<1> QED BY <1>2, <1>3, <1>4, <1>5, <1>6, <1>7

\* So does one that enters setLogger.
LEMMA LockToSetKeeps ==
    ASSUME Log!LoggingAssumption, LInv, NEW t \in Threads, Log!LockToSet(t)
    PROVE  LInv'
<1> USE DEF LInv, Log!LockToSet, Log!Lock, Log!interrupt
<1>1. /\ at' \in [Threads -> Locations] /\ at[t] = "set" /\ at'[t] = "assign"
      /\ \A u \in Threads : u # t => at'[u] = at[u]
  BY MovedTyped DEF Locations
<1>2. LoggerTyped'
  BY <1>1 DEF LoggerTyped
<1>3. Excluded'
  BY <1>1, Names DEF Excluded
<1>4. Pointers'
  BY <1>1 DEF Pointers
<1>5. Counts'
  BY <1>1, CountsKept
<1>6. Fresh'
  BY <1>1 DEF Fresh, New
<1>7. Gone'
  BY <1>1 DEF Gone, LoggerTyped
<1> QED BY <1>2, <1>3, <1>4, <1>5, <1>6, <1>7

\* The one thread inside leaves setLogger.
LEMMA UnlockAfterSetKeeps ==
    ASSUME Log!LoggingAssumption, LInv, NEW t \in Threads, Log!UnlockAfterSet(t)
    PROVE  LInv'
<1> USE DEF LInv, Log!UnlockAfterSet, Log!Unlock, Log!interrupt
<1>1. /\ at' \in [Threads -> Locations] /\ at[t] = "unlock" /\ at'[t] = "drop"
      /\ \A u \in Threads : u # t => at'[u] = at[u]
  BY MovedTyped DEF Locations
<1>2. LoggerTyped'
  BY <1>1 DEF LoggerTyped
<1>3. Excluded'
  BY <1>1, Names DEF Excluded
<1>4. Pointers'
  BY <1>1 DEF Pointers
<1>5. Counts'
  BY <1>1, CountsKept
<1>6. Fresh'
  BY <1>1 DEF Fresh, New
<1>7. Gone'
  BY <1>1 DEF Gone, LoggerTyped
<1> QED BY <1>2, <1>3, <1>4, <1>5, <1>6, <1>7

\* ILogger::log goes on to spdlog or returns.
LEMMA LogKeeps ==
    ASSUME Log!LoggingAssumption, LInv, NEW t \in Threads, Log!Log(t)
    PROVE  LInv'
<1> USE DEF LInv, Log!Log, Log!logger, Log!interrupt
<1>0. PICK to \in {"spd", "drop"} : Log!Goes(t, "log", to)
  BY Zenon
<1>1. /\ at' \in [Threads -> Locations] /\ at[t] = "log" /\ at'[t] \in {"spd", "drop"}
      /\ \A u \in Threads : u # t => at'[u] = at[u]
  BY <1>0, MovedTyped DEF Locations
<1>2. LoggerTyped'
  BY <1>1 DEF LoggerTyped
<1>3. Excluded'
  BY <1>1 DEF Excluded
<1>4. Pointers'
  BY <1>1 DEF Pointers
<1>5. Counts'
  BY <1>1, CountsKept
<1>6. Fresh'
  BY <1>1 DEF Fresh, New
<1>7. Gone'
  BY <1>1 DEF Gone, LoggerTyped
<1> QED BY <1>2, <1>3, <1>4, <1>5, <1>6, <1>7

\* A line is written through spdlog, under its lock.
LEMMA WriteKeeps ==
    ASSUME Log!LoggingAssumption, LInv, NEW t \in Threads,
           Log!WriteBegins(t) \/ Log!WriteEnds(t)
    PROVE  LInv'
<1> USE DEF LInv, Log!logger, Log!interrupt
<1>1. /\ at' \in [Threads -> Locations] /\ at[t] \in {"spd", "write"}
      /\ \/ at'[t] = "write"
         \/ at'[t] = "idle" /\ ptr[t] = Log!None
         \/ at'[t] = "drop" /\ ptr[t] \in Log!Loggers
      /\ \A u \in Threads : u # t => at'[u] = at[u]
  <2>1. CASE Log!WriteBegins(t)
    BY <2>1, MovedTyped DEF Log!WriteBegins, Locations
  <2>2. CASE Log!WriteEnds(t) /\ ptr[t] = Log!None
    BY <2>2, MovedTyped DEF Log!WriteEnds, Locations
  <2>3. CASE Log!WriteEnds(t) /\ ptr[t] # Log!None
    BY <2>3, MovedTyped DEF Log!WriteEnds, Locations, LoggerTyped
  <2> QED BY <2>1, <2>2, <2>3
<1>2. UNCHANGED <<Log!logger, ptr, since>>
  BY DEF Log!WriteBegins, Log!WriteEnds
<1>3. LoggerTyped'
  BY <1>1, <1>2 DEF LoggerTyped
<1>4. Excluded'
  BY <1>1, <1>2 DEF Excluded
<1>5. Pointers'
  BY <1>1, <1>2 DEF Pointers
<1>6. Counts'
  BY <1>1, <1>2, CountsKept
<1>7. Fresh'
  BY <1>1, <1>2 DEF Fresh, New
<1>8. Gone'
  BY <1>1, <1>2 DEF Gone, LoggerTyped
<1> QED BY <1>3, <1>4, <1>5, <1>6, <1>7, <1>8

\* A step that leaves the logger's variables and the threads alone: those of the
\* signal handler.
LEMMA UntouchedKeeps ==
    ASSUME LInv, UNCHANGED <<Log!logger, at, ptr, since>>
    PROVE  LInv'
<1> USE DEF LInv, Log!logger
<1>1. Counts'
  BY CountsKept
<1> QED BY <1>1 DEF LoggerTyped, Excluded, Pointers, Fresh, New, Gone

-----------------------------------------------------------------------------
(***************************************************************************)
(* The steps that make, copy, drop and replace a shared_ptr.               *)
(***************************************************************************)
\* The copy in getLogger reads the pointer, which it does not count yet.
LEMMA ReadCurrentKeeps ==
    ASSUME Log!LoggingAssumption, LInv, NEW t \in Threads, Log!ReadCurrent(t)
    PROVE  LInv'
<1> USE DEF LInv, Log!ReadCurrent, Log!logger, Log!interrupt
<1>1. /\ at' \in [Threads -> Locations] /\ at[t] = "read" /\ at'[t] = "count"
      /\ \A u \in Threads : u # t => at'[u] = at[u]
  BY MovedTyped DEF Locations
<1>2. /\ ptr[t] = Log!None /\ ptr'[t] = currentLogger
      /\ \A u \in Threads : u # t => ptr'[u] = ptr[u]
  BY <1>1 DEF Pointers, LoggerTyped
<1>3. LoggerTyped'
  BY <1>1 DEF LoggerTyped
<1>4. Excluded'
  BY <1>1 DEF Excluded
<1>5. Pointers'
  BY <1>1, <1>2 DEF Pointers, LoggerTyped
<1>6. Counts'
  <2> SUFFICES ASSUME NEW l \in Log!Loggers PROVE Counted(l)'
    BY DEF Counts
  <2>1. Holders(l)' = Holders(l)
    BY <1>1, <1>2, Names DEF Holders
  <2>2. Counted(l)
    BY DEF Counts
  <2> QED BY <2>1, <2>2 DEF Counted
<1>7. Fresh'
  BY <1>1, <1>2 DEF Fresh, New
<1>8. Gone'
  BY <1>1 DEF Gone, LoggerTyped
<1> QED BY <1>3, <1>4, <1>5, <1>6, <1>7, <1>8

\* Then it counts itself, and leaves the mutex.
LEMMA CountCopyKeeps ==
    ASSUME Log!LoggingAssumption, LInv, NEW t \in Threads, Log!CountCopy(t)
    PROVE  LInv'
<1> USE DEF LInv, Log!CountCopy, Log!Unlock, Log!interrupt
<1>1. /\ at' \in [Threads -> Locations] /\ at[t] = "count" /\ at'[t] = "log"
      /\ \A u \in Threads : u # t => at'[u] = at[u]
  BY MovedTyped DEF Locations
<1>2. ptr[t] = currentLogger /\ loggerMutex = t
  BY <1>1 DEF Pointers, Excluded
<1>3. LoggerTyped'
  BY <1>1, <1>2 DEF LoggerTyped
<1>4. Excluded'
  BY <1>1, <1>2, Names DEF Excluded
<1>5. Pointers'
  BY <1>1, <1>2 DEF Pointers, LoggerTyped
<1>6. Counts'
  <2> SUFFICES ASSUME NEW l \in Log!Loggers PROVE Counted(l)'
    BY DEF Counts
  <2>1. Counted(l) /\ Cardinality(Holders(l)) \in Nat /\ IsFiniteSet(Holders(l))
    BY HoldersFinite DEF Counts
  <2>2. CASE l # currentLogger
    <3>1. Holders(l)' = Holders(l)
      BY <1>1, <1>2, <2>2 DEF Holders
    <3>2. refs'[l] = refs[l]
      BY <1>2, <2>2 DEF LoggerTyped
    <3> QED BY <2>1, <3>1, <3>2 DEF Counted
  <2>3. CASE l = currentLogger
    <3>1. Holders(l)' = Holders(l) \cup {t} /\ t \notin Holders(l)
      BY <1>1, <1>2, <2>3 DEF Holders
    <3>2. Cardinality(Holders(l)') = Cardinality(Holders(l)) + 1
      BY <2>1, <3>1, FS_AddElement
    <3>3. refs'[l] = refs[l] + 1
      BY <1>2, <2>3 DEF LoggerTyped
    <3> QED BY <2>1, <2>3, <3>2, <3>3 DEF Counted
  <2> QED BY <2>2, <2>3
<1>7. Fresh'
  BY <1>1 DEF Fresh, New
<1>8. Gone'
  BY <1>1, <1>2 DEF Gone, LoggerTyped
<1> QED BY <1>3, <1>4, <1>5, <1>6, <1>7, <1>8

\* The temporary goes at the end of the call, and its count with it.
LEMMA DropKeeps ==
    ASSUME Log!LoggingAssumption, LInv, NEW t \in Threads, Log!Drop(t)
    PROVE  LInv'
<1> USE DEF LInv, Log!Drop, Log!interrupt
<1>1. /\ at' \in [Threads -> Locations] /\ at[t] = "drop" /\ at'[t] = "idle"
      /\ \A u \in Threads : u # t => at'[u] = at[u]
  BY MovedTyped DEF Locations
<1>2. /\ ptr[t] \in Log!Loggers /\ ptr'[t] = Log!None
      /\ \A u \in Threads : u # t => ptr'[u] = ptr[u]
  BY <1>1 DEF Pointers, LoggerTyped
<1>3. LoggerTyped'
  <2>1. refs' \in [Log!Loggers -> Int]
    BY <1>2 DEF LoggerTyped
  <2>2. ptr' \in [Threads -> Log!Loggers \cup {Log!None}]
    BY DEF LoggerTyped
  <2> QED BY <1>1, <2>1, <2>2 DEF LoggerTyped
<1>4. Excluded'
  BY <1>1 DEF Excluded
<1>5. Pointers'
  BY <1>1, <1>2 DEF Pointers
<1>6. Counts'
  <2> SUFFICES ASSUME NEW l \in Log!Loggers PROVE Counted(l)'
    BY DEF Counts
  <2>1. Counted(l) /\ Cardinality(Holders(l)) \in Nat /\ IsFiniteSet(Holders(l))
    BY HoldersFinite DEF Counts
  <2>2. CASE l # ptr[t]
    <3>1. Holders(l)' = Holders(l)
      BY <1>1, <1>2, <2>2, Names DEF Holders
    <3>2. refs'[l] = refs[l]
      BY <1>2, <2>2 DEF LoggerTyped
    <3> QED BY <2>1, <3>1, <3>2 DEF Counted
  <2>3. CASE l = ptr[t]
    <3>1. Holders(l)' = Holders(l) \ {t} /\ t \in Holders(l)
      BY <1>1, <1>2, <2>3, Names DEF Holders
    <3>2. Cardinality(Holders(l)') = Cardinality(Holders(l)) - 1
      BY <2>1, <3>1, FS_RemoveElement
    <3>3. refs'[l] = refs[l] - 1
      BY <1>2, <2>3 DEF LoggerTyped
    <3> QED BY <2>1, <2>3, <3>2, <3>3 DEF Counted
  <2> QED BY <2>2, <2>3
<1>7. Fresh'
  <2>1. unmade \subseteq Log!Loggers
    BY Names DEF LoggerTyped
  <2>2. \A u \in Threads : at[u] \in {"set", "assign"} => ptr[u] \in Log!Loggers
    BY DEF Pointers
  <2> QED BY <1>1, <1>2, <2>1, <2>2, Names DEF Fresh, New
<1>8. Gone'
  BY <1>1 DEF Gone, LoggerTyped
<1> QED BY <1>3, <1>4, <1>5, <1>6, <1>7, <1>8

\* setLogger is called with a logger just made, which nobody else refers to.
LEMMA BeginSetKeeps ==
    ASSUME Log!LoggingAssumption, LInv, NEW t \in Threads,
           NEW n \in SpdLoggers, Log!BeginSet(t, n)
    PROVE  LInv'
<1> USE DEF LInv, Log!BeginSet, Log!interrupt
<1>1. /\ at' \in [Threads -> Locations] /\ at[t] = "idle" /\ at'[t] = "set"
      /\ \A u \in Threads : u # t => at'[u] = at[u]
  BY MovedTyped DEF Locations
<1>2. /\ ptr[t] = Log!None /\ ptr'[t] = n
      /\ \A u \in Threads : u # t => ptr'[u] = ptr[u]
  BY <1>1 DEF Pointers, LoggerTyped
<1>3. n \in Log!Loggers /\ n \in unmade /\ New(n) /\ \A u \in Threads : ptr[u] # n
  BY Names DEF Fresh
<1>4. LoggerTyped'
  <2>1. refs' \in [Log!Loggers -> Int]
    BY <1>3 DEF LoggerTyped
  <2>2. ptr' \in [Threads -> Log!Loggers \cup {Log!None}]
    BY <1>3 DEF LoggerTyped
  <2> QED BY <1>1, <2>1, <2>2 DEF LoggerTyped
<1>5. Excluded'
  BY <1>1 DEF Excluded
<1>6. Pointers'
  BY <1>1, <1>2, <1>3 DEF Pointers
<1>7. Counts'
  <2> SUFFICES ASSUME NEW l \in Log!Loggers PROVE Counted(l)'
    BY DEF Counts
  <2>1. Counted(l) /\ Cardinality(Holders(l)) \in Nat /\ IsFiniteSet(Holders(l))
    BY HoldersFinite DEF Counts
  <2>2. CASE l # n
    <3>1. Holders(l)' = Holders(l)
      BY <1>1, <1>2, <2>2, Names DEF Holders
    <3>2. refs'[l] = refs[l]
      BY <2>2 DEF LoggerTyped
    <3> QED BY <2>1, <3>1, <3>2 DEF Counted
  <2>3. CASE l = n
    <3>1. Holders(l)' = {t}
      BY <1>1, <1>2, <1>3, <2>3 DEF Holders
    <3>2. Cardinality(Holders(l)') = 1
      BY <3>1, FS_Singleton
    <3>3. refs'[l] = 1
      BY <1>3, <2>3 DEF LoggerTyped
    <3>4. currentLogger' # l
      BY <1>3, <2>3 DEF New
    <3> QED BY <3>2, <3>3, <3>4 DEF Counted
  <2> QED BY <2>2, <2>3
<1>8. Fresh'
  <2>1. \A m \in unmade' : New(m)' /\ \A u \in Threads : ptr'[u] # m
    BY <1>1, <1>2, <1>3 DEF Fresh, New
  <2>2. ASSUME NEW u \in Threads, at'[u] \in {"set", "assign"}
        PROVE  New(ptr[u])' /\ \A v \in Threads \ {u} : ptr'[v] # ptr'[u]
    BY <1>1, <1>2, <1>3, <2>2 DEF Fresh, New
  <2>3. ASSUME NEW u \in Threads, at'[u] \in {"set", "assign"}
        PROVE  New(ptr[u])'
    BY <1>1, <1>2, <1>3, <2>3 DEF Fresh, New
  <2> QED BY <2>1, <2>2, <2>3 DEF Fresh
<1>9. Gone'
  BY <1>1 DEF Gone, LoggerTyped
<1> QED BY <1>4, <1>5, <1>6, <1>7, <1>8, <1>9

\* The assignment counts the new logger once more, and the old one once less.
LEMMA AssignLoggerKeeps ==
    ASSUME Log!LoggingAssumption, LInv, NEW t \in Threads, Log!AssignLogger(t)
    PROVE  LInv'
<1> USE DEF LInv, Log!AssignLogger, Log!Assign, Log!interrupt
<1>1. /\ at' \in [Threads -> Locations] /\ at[t] = "assign" /\ at'[t] = "unlock"
      /\ \A u \in Threads : u # t => at'[u] = at[u]
  BY MovedTyped DEF Locations
<1>2. /\ ptr[t] \in Log!Loggers /\ New(ptr[t]) /\ loggerMutex = t
      /\ \A u \in Threads \ {t} : ptr[u] # ptr[t]
  BY <1>1 DEF Pointers, Fresh, Excluded
<1>3. LoggerTyped'
  BY <1>1, <1>2 DEF LoggerTyped
<1>4. Excluded'
  BY <1>1, <1>2 DEF Excluded
<1>5. Pointers'
  BY <1>1, <1>2 DEF Pointers, Excluded
<1>6. Counts'
  <2> SUFFICES ASSUME NEW l \in Log!Loggers PROVE Counted(l)'
    BY DEF Counts
  <2>1. Counted(l) /\ Cardinality(Holders(l)) \in Nat /\ Holders(l)' = Holders(l)
    BY <1>1, HoldersFinite DEF Counts, Holders
  <2>2. ptr[t] # currentLogger /\ currentLogger' = ptr[t]
    BY <1>2 DEF New
  <2>3. CASE l = ptr[t]
    <3>1. refs'[l] = refs[l] + 1
      BY <2>2, <2>3 DEF LoggerTyped
    <3> QED BY <2>1, <2>2, <2>3, <3>1 DEF Counted
  <2>4. CASE l = currentLogger
    <3>1. refs'[l] = refs[l] - 1
      BY <2>2, <2>4 DEF LoggerTyped
    <3> QED BY <2>1, <2>2, <2>4, <3>1 DEF Counted
  <2>5. CASE l # ptr[t] /\ l # currentLogger
    <3>1. refs'[l] = refs[l]
      BY <2>2, <2>5 DEF LoggerTyped
    <3> QED BY <2>1, <2>2, <2>5, <3>1 DEF Counted
  <2> QED BY <2>3, <2>4, <2>5
<1>7. Fresh'
  BY <1>1, <1>2, Names DEF Fresh, New, LoggerTyped
<1>8. Gone'
  BY <1>1, <1>2 DEF Gone, LoggerTyped, New
<1> QED BY <1>3, <1>4, <1>5, <1>6, <1>7, <1>8

-----------------------------------------------------------------------------
(***************************************************************************)
(* The logger: what follows.                                               *)
(***************************************************************************)
\* Every thread starts idle, and only the NullLogger is made.
LEMMA InitEstablishes ==
    ASSUME Log!LoggingAssumption, Log!Init
    PROVE  LInv /\ RestTyped
<1> USE DEF Log!Init
<1>1. LoggerTyped
  BY Names DEF LoggerTyped, Locations
<1>2. Counts
  <2> SUFFICES ASSUME NEW l \in Log!Loggers PROVE Counted(l)
    BY DEF Counts
  <2>1. Holders(l) = {}
    BY Names DEF Holders
  <2>2. Cardinality(Holders(l)) = 0
    BY <2>1, FS_EmptySet
  <2> QED BY <2>2 DEF Counted
<1>3. Excluded /\ Pointers
  BY DEF Excluded, Pointers
<1>4. Fresh /\ Gone
  BY Names DEF Fresh, Gone, New, Log!LoggingAssumption
<1>5. RestTyped
  <2>1. Calls \in Nat /\ Signals \in {0, 1}
    BY DEF Log!LoggingAssumption
  <2>2. calls \in [Threads -> 0 .. Calls] /\ signals \in 0 .. Signals
    BY <2>1
  <2> QED BY <2>2 DEF RestTyped
<1> QED BY <1>1, <1>2, <1>3, <1>4, <1>5 DEF LInv

\* Every step keeps the invariant.
LEMMA StepKeeps ==
    ASSUME Log!LoggingAssumption, LInv, [Log!Next]_(Log!vars)
    PROVE  LInv'
<1>1. CASE UNCHANGED Log!vars \/ Log!Over
  BY <1>1, UntouchedKeeps DEF Log!vars, Log!thread, Log!Over
<1>2. ASSUME NEW t \in Threads, Log!CallBegins(t)
      PROVE  LInv'
  BY <1>2, BeginLogKeeps, BeginSpdlogKeeps, BeginSetKeeps DEF Log!CallBegins
<1>3. ASSUME NEW t \in Threads, Log!CallGoesOn(t)
      PROVE  LInv'
  BY <1>3, LockToGetKeeps, ReadCurrentKeeps, CountCopyKeeps, LogKeeps, DropKeeps,
     WriteKeeps, LockToSetKeeps, AssignLoggerKeeps, UnlockAfterSetKeeps DEF Log!CallGoesOn
<1>4. ASSUME NEW t \in Threads, Log!Signal(t) \/ Log!HandlerStep(t)
      PROVE  LInv'
  BY <1>4, UntouchedKeeps DEF Log!Signal, Log!HandlerStep, Log!HandlerLogs,
    Log!HandlerStores, Log!thread
<1> QED BY <1>1, <1>2, <1>3, <1>4 DEF Log!Next

\* And the types of the variables that have no part in the counting.
LEMMA RestKept ==
    ASSUME Log!LoggingAssumption, LInv, RestTyped, [Log!Next]_(Log!vars)
    PROVE  RestTyped'
<1> USE DEF RestTyped
<1>1. CASE UNCHANGED Log!vars \/ Log!Over
  BY <1>1 DEF Log!vars, Log!thread, Log!interrupt, Log!Over
<1>2. ASSUME NEW t \in Threads, Log!CallBegins(t)
      PROVE  RestTyped'
  <2>1. /\ calls[t] > 0
        /\ calls' = [calls EXCEPT ![t] = @ - 1]
        /\ UNCHANGED <<spdLock, Log!interrupt>>
    BY <1>2 DEF Log!CallBegins, Log!BeginLog, Log!BeginSpdlog, Log!BeginSet
  <2>2. Calls \in Nat
    BY DEF Log!LoggingAssumption
  <2>3. calls' \in [Threads -> 0 .. Calls]
    BY <2>1, <2>2
  <2> QED BY <2>1, <2>3 DEF Log!interrupt
<1>3. ASSUME NEW t \in Threads, Log!CallGoesOn(t)
      PROVE  RestTyped'
  <2>1. spdLock' \in {spdLock, t, Log!None} /\ UNCHANGED <<calls, Log!interrupt>>
    BY <1>3 DEF Log!CallGoesOn, Log!LockToGet, Log!ReadCurrent, Log!CountCopy, Log!Log,
       Log!Drop, Log!WriteBegins,
       Log!LockSpdlog, Log!WriteEnds, Log!LockToSet, Log!AssignLogger, Log!UnlockAfterSet
  <2> QED BY <2>1 DEF Log!interrupt
<1>4. ASSUME NEW t \in Threads, Log!Signal(t)
      PROVE  RestTyped'
  <2>1. Signals \in {0, 1}
    BY DEF Log!LoggingAssumption
  <2> QED BY <1>4, <2>1 DEF Log!Signal, Log!thread
<1>5. ASSUME NEW t \in Threads, Log!HandlerStep(t)
      PROVE  RestTyped'
  <2>1. /\ \/ handler' = [handler EXCEPT ![t] = "infoWrite"]
           \/ handler' = [handler EXCEPT ![t] = "debug"]
           \/ handler' = [handler EXCEPT ![t] = "debugWrite"]
           \/ handler' = [handler EXCEPT ![t] = "store"]
           \/ handler' = [handler EXCEPT ![t] = "none"]
        /\ spdLock' \in {spdLock, t, Log!None}
        /\ halted' \in {halted, TRUE}
        /\ UNCHANGED <<calls, signals>>
    BY <1>5 DEF Log!HandlerStep, Log!HandlerLogs, Log!HandlerStores, Log!LockSpdlog,
       Log!thread
  <2> QED BY <2>1
<1> QED BY <1>1, <1>2, <1>3, <1>4, <1>5 DEF Log!Next

\* The counts stay in their range: a thread refers to one logger at a time.
LEMMA TypesFollow ==
    ASSUME Log!LoggingAssumption, LInv, RestTyped
    PROVE  Log!TypeOK
<1>1. \A l \in Log!Loggers : refs[l] \in 0 .. 2 * Cardinality(Threads) + 1
  <2> TAKE l \in Log!Loggers
  <2>1. Counted(l)
    BY DEF LInv, Counts
  <2> QED BY <2>1, HoldersFinite DEF Counted
<1>2. refs \in [Log!Loggers -> 0 .. 2 * Cardinality(Threads) + 1]
  BY <1>1 DEF LInv, LoggerTyped
<1> QED BY <1>2, SameSize DEF LInv, LoggerTyped, RestTyped, Locations, Log!TypeOK

\* What the invariant says of the loggers in use.
LEMMA LInvGives ==
    ASSUME Log!LoggingAssumption, LInv
    PROVE  Log!LoggerKept
<1> USE DEF LInv
<1>1. \A l \in Log!Loggers :
        Counted(l) /\ IsFiniteSet(Holders(l)) /\ Cardinality(Holders(l)) \in Nat
  BY HoldersFinite DEF Counts
<1>2. refs[currentLogger] > 0
  <2>1. currentLogger \in Log!Loggers
    BY DEF LoggerTyped
  <2> QED BY <1>1, <2>1 DEF Counted
<1>3. ASSUME NEW t \in Threads, at[t] \in {"log", "spd", "write"}, ptr[t] # Log!None
      PROVE  refs[ptr[t]] > 0
  <2>1. ptr[t] \in Log!Loggers
    BY <1>3 DEF LoggerTyped
  <2>2. t \in Holders(ptr[t])
    BY <1>3 DEF Holders
  <2>3. Cardinality(Holders(ptr[t])) # 0
    BY <1>1, <2>1, <2>2, FS_EmptySet
  <2>4. PICK n \in Nat : n = Cardinality(Holders(ptr[t]))
    BY <1>1, <2>1
  <2>5. refs[ptr[t]] \in {n, n + 1}
    BY <1>1, <2>1, <2>4 DEF Counted
  <2> QED BY <2>3, <2>4, <2>5
<1>4. Log!LoggerAlive
  BY <1>2, <1>3 DEF Log!LoggerAlive, Pointers
<1>5. Log!CountsExact
  <2> SUFFICES ASSUME loggerMutex = Log!None, NEW l \in Log!Loggers
               PROVE  refs[l] = (IF currentLogger = l THEN 1 ELSE 0)
                                  + Cardinality({t \in Threads : ptr[t] = l})
    BY SameSize DEF Log!CountsExact
  <2>1. \A t \in Threads : at[t] # "count"
    BY Names DEF Excluded
  <2>2. Holders(l) = {t \in Threads : ptr[t] = l}
    BY <2>1 DEF Holders
  <2> QED BY <1>1, <2>2 DEF Counted
<1>6. Log!NotStale
  BY DEF Log!NotStale, Gone
<1> QED BY <1>4, <1>5, <1>6 DEF Log!LoggerKept

\* The types, and the three claims about the logger of DataStream.hpp that
\* getLogger, setLogger and the macros make together: whoever replaces the logger
\* and whoever drops the last reference, nobody logs with a destroyed or stale one.
THEOREM LoggerCorrect ==
    ASSUME Log!LoggingAssumption
    PROVE  Log!Spec => [](Log!TypeOK /\ Log!LoggerKept)
<1> DEFINE Inv == LInv /\ RestTyped
<1>1. Log!Init => Inv
  BY InitEstablishes
<1>2. Inv /\ [Log!Next]_(Log!vars) => Inv'
  BY StepKeeps, RestKept
<1>3. Inv => Log!TypeOK /\ Log!LoggerKept
  BY TypesFollow, LInvGives
<1> QED BY <1>1, <1>2, <1>3, PTL DEF Log!Spec

\* A behaviour of the platform is one of the logger, which stutters while another
\* part moves.
LEMMA LoggerPart == MCSpec => Log!Spec
<1>1. MCInit => Log!Init
  BY DEF MCInit
<1>2. [MCNext]_vars => [Log!Next]_(Log!vars)
  BY DEF MCNext, InKernel, InRing, InLog, vars, logVars, Log!vars, Log!logger, Log!thread,
    Log!interrupt
<1> QED BY <1>1, <1>2, PTL DEF MCSpec, Log!Spec

\* The logger of the platform is alive while it is used, its references are
\* counted, and no message goes to one that was replaced before the call.
THEOREM PlatformLogger == MCSpec => []LoggerKept
<1>1. Log!Spec => [](Log!TypeOK /\ Log!LoggerKept)
  BY PlatformAssumption, LoggerCorrect DEF PlatformAssumption
<1> QED BY LoggerPart, <1>1, PTL DEF LoggerKept

-----------------------------------------------------------------------------
(***************************************************************************)
(* The kernel's semaphore.                                                 *)
(***************************************************************************)
\* KP is Kernel with its proofs.
LEMMA SameKernel ==
    /\ KP!KernelAssumption <=> Kernel!KernelAssumption
    /\ KP!Init <=> Kernel!Init
    /\ KP!Next <=> Kernel!Next
    /\ (UNCHANGED kernelVars => UNCHANGED KP!vars)
    /\ KP!TypeOK <=> Kernel!TypeOK
    /\ KP!NotEarly <=> NotEarly
<1> USE DEF KP!UsecsPerSec, KP!NsecsPerSec, KP!NsecsPerMsec, KP!Never, KP!NoTime,
      Kernel!UsecsPerSec, Kernel!NsecsPerSec, Kernel!NsecsPerMsec, Kernel!Never,
      Kernel!NoTime
<1>1. KP!KernelAssumption <=> Kernel!KernelAssumption
  BY DEF KP!KernelAssumption, Kernel!KernelAssumption
<1>2. KP!Init <=> Kernel!Init
  BY DEF KP!Init, Kernel!Init
<1>3. KP!Next <=> Kernel!Next
  <2> USE DEF KP!vars, KP!clocks, KP!waiter, Kernel!vars, Kernel!clocks, Kernel!waiter
  <2>1. \A c, u : KP!Begin(c, u) <=> Kernel!Begin(c, u)
    BY DEF KP!Begin, Kernel!Begin
  <2>2. KP!WaiterStep <=> Kernel!WaiterStep
    BY DEF KP!WaiterStep, KP!Arm, KP!ArmTimed, KP!ArmPosix, KP!ArmMach, KP!ArmWindows,
      KP!ArmFreeRTOS, KP!Take, KP!TimeOut, KP!Expired, KP!Interrupt,
      KP!InterruptedFails, KP!Split, KP!Deadline, KP!WallTime, KP!Msecs, KP!Ticks,
      KP!EndOf, KP!Total, Kernel!WaiterStep, Kernel!Arm, Kernel!ArmTimed,
      Kernel!ArmPosix, Kernel!ArmMach, Kernel!ArmWindows, Kernel!ArmFreeRTOS,
      Kernel!Take, Kernel!TimeOut, Kernel!Expired, Kernel!Interrupt,
      Kernel!InterruptedFails, Kernel!Split, Kernel!Deadline, Kernel!WallTime,
      Kernel!Msecs, Kernel!Ticks, Kernel!EndOf, Kernel!Total
  <2>3. /\ KP!Return <=> Kernel!Return
        /\ \A n : KP!Signal(n) <=> Kernel!Signal(n)
        /\ KP!Post <=> Kernel!Post
    BY DEF KP!Return, KP!Signal, KP!Post, Kernel!Return, Kernel!Signal, Kernel!Post
  <2>4. /\ KP!Tick <=> Kernel!Tick
        /\ \A t : KP!SetClock(t) <=> Kernel!SetClock(t)
        /\ KP!Over <=> Kernel!Over
    BY DEF KP!Tick, KP!Later, KP!SetClock, KP!Over, Kernel!Tick, Kernel!Later,
      Kernel!SetClock, Kernel!Over
  <2> HIDE DEF KP!vars, KP!clocks, KP!waiter, Kernel!vars, Kernel!clocks, Kernel!waiter
  <2> QED BY <2>1, <2>2, <2>3, <2>4 DEF KP!Next, Kernel!Next
<1>4. UNCHANGED kernelVars => UNCHANGED KP!vars
  BY DEF KP!vars, KP!clocks, KP!waiter, kernelVars
<1>5. KP!TypeOK <=> Kernel!TypeOK
  BY DEF KP!TypeOK, Kernel!TypeOK
<1>6. KP!NotEarly <=> NotEarly
  BY DEF NotEarly, KP!NotEarly, KP!Granted, Kernel!NotEarly, Kernel!Granted
<1> QED BY <1>1, <1>2, <1>3, <1>4, <1>5, <1>6

\* A behaviour of the platform is one of the kernel's semaphore.
LEMMA KernelPart == MCSpec => KP!Spec
<1>1. MCInit => KP!Init
  BY SameKernel DEF MCInit
<1>2. [MCNext]_vars => [KP!Next]_KP!vars
  BY SameKernel DEF MCNext, InKernel, InRing, InLog, vars
<1> QED BY <1>1, <1>2, PTL DEF MCSpec, KP!Spec

\* A timed wait of the kernel's semaphore does not give up early, on any platform
\* and whoever sets the clock.
THEOREM PlatformNotEarly ==
    ASSUME KP!TimeoutsFit, KP!ClocksLast
    PROVE  MCSpec => []NotEarly
<1>1. KP!KernelAssumption
  BY PlatformAssumption, SameKernel DEF PlatformAssumption
<1>2. KP!Spec => [](KP!TypeOK /\ KP!NotEarly)
  BY <1>1, KP!TimedWaitNotEarly
<1>3. KP!NotEarly => NotEarly
  BY SameKernel
<1> QED BY KernelPart, <1>2, <1>3, PTL

-----------------------------------------------------------------------------
(***************************************************************************)
(* The rings.                                                              *)
(***************************************************************************)
\* RP is Ring with its proofs.
LEMMA SameRing ==
    /\ RP!RingAssumption <=> Ring!RingAssumption
    /\ RP!MemoryAssumption <=> Ring!MemoryAssumption
    /\ RP!Init <=> Ring!Init
    /\ RP!Next <=> Ring!Next
    /\ (UNCHANGED ringVars => UNCHANGED RP!vars)
    /\ RP!TypeOK <=> Ring!TypeOK
    /\ RP!OwnedOnce /\ RP!ElementsInside <=> RingsOwnMemory
<1> USE DEF RP!Null, Ring!Null, RP!Word, Ring!Word, RP!NoObject, Ring!NoObject,
      RP!Fields, Ring!Fields, RP!Alive, Ring!Alive, RP!Slot, Ring!Slot, RP!Held, Ring!Held
<1>1. \A c : RP!MaskOf(c) = Ring!MaskOf(c)
  <2>1. \A S : RP!SumSet(S) = Ring!SumSet(S)
    BY Zenon DEF RP!SumSet, Ring!SumSet, RP!FoldSet, Ring!FoldSet, RP!MapThenFoldSet,
      Ring!MapThenFoldSet
  <2>2. \A B : RP!WordOf(B) = Ring!WordOf(B)
    BY <2>1 DEF RP!WordOf, Ring!WordOf
  <2>3. /\ \A x : RP!Bits(x) = Ring!Bits(x)
        /\ \A B, k : RP!Smear(B, k) = Ring!Smear(B, k)
    BY DEF RP!Bits, Ring!Bits, RP!Smear, Ring!Smear
  <2> QED BY <2>2, <2>3 DEF RP!MaskOf, Ring!MaskOf
<1>2. /\ RP!RingAssumption <=> Ring!RingAssumption
      /\ RP!MemoryAssumption <=> Ring!MemoryAssumption
  BY <1>1 DEF RP!RingAssumption, Ring!RingAssumption, RP!MemoryAssumption,
    Ring!MemoryAssumption, RP!Room, Ring!Room
<1>3. RP!Init <=> Ring!Init
  BY DEF RP!Init, Ring!Init
<1>4. RP!Next <=> Ring!Next
  <2>1. \A b, c : RP!Construct(b, c) <=> Ring!Construct(b, c)
    BY Zenon DEF RP!Construct, RP!MaskOf, RP!Smear, RP!Bits, RP!WordOf, RP!SumSet,
      RP!FoldSet, RP!MapThenFoldSet, RP!AlignFor, RP!Bytes,
      Ring!Construct, Ring!MaskOf, Ring!Smear, Ring!Bits, Ring!WordOf, Ring!SumSet,
      Ring!FoldSet, Ring!MapThenFoldSet, Ring!AlignFor, Ring!Bytes
  <2>2. \A a, b : /\ RP!Swap(a, b) <=> Ring!Swap(a, b)
                  /\ RP!MoveConstruct(a, b) <=> Ring!MoveConstruct(a, b)
    BY DEF RP!Swap, Ring!Swap, RP!MoveConstruct, Ring!MoveConstruct, RP!Swapped,
      Ring!Swapped, RP!Empty, Ring!Empty
  <2>3. \A b, v : RP!TryEnqueue(b, v) <=> Ring!TryEnqueue(b, v)
    BY DEF RP!TryEnqueue, Ring!TryEnqueue
  <2>4. \A b : /\ RP!TryDequeue(b) <=> Ring!TryDequeue(b)
               /\ RP!Destroy(b) <=> Ring!Destroy(b)
    BY DEF RP!TryDequeue, Ring!TryDequeue, RP!Destroy, Ring!Destroy, RP!Without,
      Ring!Without
  <2> QED BY <2>1, <2>2, <2>3, <2>4 DEF RP!Next, Ring!Next
<1>5. UNCHANGED ringVars => UNCHANGED RP!vars
  BY DEF RP!vars, ringVars
<1>6. RP!TypeOK <=> Ring!TypeOK
  BY DEF RP!TypeOK, Ring!TypeOK
<1>7. RP!OwnedOnce /\ RP!ElementsInside <=> RingsOwnMemory
  <2>1. \A S : RP!Cardinality(S) = Ring!Cardinality(S)
    BY DEF RP!Cardinality, Ring!Cardinality
  <2> QED BY <2>1 DEF RP!OwnedOnce, Ring!OwnedOnce, RP!ElementsInside,
            Ring!ElementsInside, RingsOwnMemory
<1> QED BY <1>2, <1>3, <1>4, <1>5, <1>6, <1>7

\* A behaviour of the platform is one of the rings.
LEMMA RingPart == MCSpec => RP!Spec
<1>1. MCInit => RP!Init
  BY SameRing DEF MCInit
<1>2. [MCNext]_vars => [RP!Next]_RP!vars
  BY SameRing DEF MCNext, InKernel, InRing, InLog, vars
<1> QED BY <1>1, <1>2, PTL DEF MCSpec, RP!Spec

\* Where malloc does not fail, each block has one ring that will free it, each element
\* one that will destroy it, and each element lies, aligned, in the block of its ring.
THEOREM PlatformRings ==
    ASSUME ~MallocFails
    PROVE  MCSpec => []RingsOwnMemory
<1>1. RP!RingAssumption /\ RP!MemoryAssumption
  BY PlatformAssumption, SameRing DEF PlatformAssumption
<1>2. RP!Spec => [](RP!TypeOK /\ RP!OwnedOnce /\ RP!ElementsInside)
  BY <1>1, RP!MemoryOwned
<1>3. RP!OwnedOnce /\ RP!ElementsInside => RingsOwnMemory
  BY SameRing
<1> QED BY RingPart, <1>2, <1>3, PTL

-----------------------------------------------------------------------------
(***************************************************************************)
(* All three.                                                              *)
(***************************************************************************)
\* Each variable has its type.
THEOREM PlatformTypes ==
    ASSUME KP!TimeoutsFit, KP!ClocksLast, ~MallocFails
    PROVE  MCSpec => []TypesOK
<1>1. KP!Spec => [](KP!TypeOK /\ KP!NotEarly)
  BY PlatformAssumption, SameKernel, KP!TimedWaitNotEarly DEF PlatformAssumption
<1>2. RP!Spec => [](RP!TypeOK /\ RP!OwnedOnce /\ RP!ElementsInside)
  BY PlatformAssumption, SameRing, RP!MemoryOwned DEF PlatformAssumption
<1>3. Log!Spec => [](Log!TypeOK /\ Log!LoggerKept)
  BY PlatformAssumption, LoggerCorrect DEF PlatformAssumption
<1>4. KP!TypeOK /\ RP!TypeOK /\ Log!TypeOK => TypesOK
  BY SameKernel, SameRing DEF TypesOK
<1> QED BY <1>1, <1>2, <1>3, <1>4, KernelPart, RingPart, LoggerPart, PTL

\* The kernel's semaphore is what LightweightSemaphore needs on every platform,
\* whatever the timeouts are, and, where malloc does not fail, rings are values that
\* are moved.
THEOREM PlatformImplements ==
    ASSUME ~MallocFails
    PROVE  MCSpec => ImplementsPromises
<1>1. KP!Spec => KP!ImplementsContract
  BY PlatformAssumption, SameKernel, KP!KernelImplements DEF PlatformAssumption
<1>2. RP!Spec => RP!ImplementsValues
  BY PlatformAssumption, SameRing, RP!RingImplements DEF PlatformAssumption
<1>3. KP!ImplementsContract => Kernel!ImplementsContract
  <2>1. KP!Contract!Init => Kernel!Contract!Init
    BY DEF KP!Contract!Init, Kernel!Contract!Init
  <2>2. [KP!Contract!Next]_(KP!Contract!vars) => [Kernel!Contract!Next]_(Kernel!Contract!vars)
    BY DEF KP!Contract!Next, KP!Contract!vars, Kernel!Contract!Next, Kernel!Contract!vars,
      KP!Contract!Call, KP!Contract!Take, KP!Contract!Fail, KP!Contract!Return,
      KP!Contract!Signal, KP!Contract!Post, KP!Contract!Lose, KP!Contract!waiter,
      Kernel!Contract!Call, Kernel!Contract!Take, Kernel!Contract!Fail,
      Kernel!Contract!Return, Kernel!Contract!Signal, Kernel!Contract!Post,
      Kernel!Contract!Lose, Kernel!Contract!waiter
  <2> QED BY <2>1, <2>2, PTL DEF KP!ImplementsContract, Kernel!ImplementsContract,
            KP!Contract!Spec, Kernel!Contract!Spec
<1>4. RP!ImplementsValues => Ring!ImplementsValues
  <2> USE DEF RP!RingAbstraction!Alive, RP!RingAbstraction!None, RP!Alive, RP!NoObject,
        RP!Elements, RP!Slot,
        Ring!RingAbstraction!Alive, Ring!RingAbstraction!None, Ring!Alive, Ring!NoObject,
        Ring!Elements, Ring!Slot
  <2>1. RP!RingAbstraction!Init => Ring!RingAbstraction!Init
    BY DEF RP!RingAbstraction!Init, Ring!RingAbstraction!Init
  <2>2. RP!RingAbstraction!Next => Ring!RingAbstraction!Next
    <3>1. ASSUME NEW b \in Objects
          PROVE  /\ RP!RingAbstraction!Create(b) => Ring!RingAbstraction!Create(b)
                 /\ RP!RingAbstraction!Put(b) => Ring!RingAbstraction!Put(b)
                 /\ RP!RingAbstraction!Get(b) => Ring!RingAbstraction!Get(b)
                 /\ RP!RingAbstraction!Destroy(b) => Ring!RingAbstraction!Destroy(b)
      BY DEF RP!RingAbstraction!Create, Ring!RingAbstraction!Create,
        RP!RingAbstraction!Put, Ring!RingAbstraction!Put,
        RP!RingAbstraction!Get, Ring!RingAbstraction!Get,
        RP!RingAbstraction!Destroy, Ring!RingAbstraction!Destroy
    <3>2. ASSUME NEW a \in Objects, NEW b \in Objects
          PROVE  /\ RP!RingAbstraction!MoveNew(a, b) => Ring!RingAbstraction!MoveNew(a, b)
                 /\ RP!RingAbstraction!Exchange(a, b)
                        => Ring!RingAbstraction!Exchange(a, b)
      BY DEF RP!RingAbstraction!MoveNew, Ring!RingAbstraction!MoveNew,
        RP!RingAbstraction!Exchange, Ring!RingAbstraction!Exchange
    <3> QED BY <3>1, <3>2 DEF RP!RingAbstraction!Next, Ring!RingAbstraction!Next
  <2>3. UNCHANGED RP!RingAbstraction!vars => UNCHANGED Ring!RingAbstraction!vars
    BY DEF RP!RingAbstraction!vars, Ring!RingAbstraction!vars
  <2>4. [RP!RingAbstraction!Next]_(RP!RingAbstraction!vars)
            => [Ring!RingAbstraction!Next]_(Ring!RingAbstraction!vars)
    BY <2>2, <2>3
  <2> QED BY <2>1, <2>4, PTL DEF RP!ImplementsValues, Ring!ImplementsValues,
            RP!RingAbstraction!Spec, Ring!RingAbstraction!Spec
<1> QED BY <1>1, <1>2, <1>3, <1>4, KernelPart, RingPart, PTL DEF ImplementsPromises

=================================================================================
