--------------------------- MODULE CommandLineResults ---------------------------
(***************************************************************************)
(* What a CLI::Option makes of the arguments it is given: they are added   *)
(* to its results, validated, reduced by its policy for options that are   *)
(* given several times, sent to its callback, and read with as<T>() at any *)
(* time.  A result is a sequence of numbers: a number that stands for an   *)
(* argument, or several that were joined; a validator that transforms adds *)
(* its mark.                                                               *)
(***************************************************************************)
EXTENDS Integers, Sequences, SequencesExt

CONSTANTS
    Numbers,        \* what an argument may stand for
    Refused,        \* those that a validator which checks refuses
    Policies,       \* of {"TakeAll", "TakeLast", "Reverse", "TakeFirst", "Join",
                    \*     "Sum", "Throw"}
    Validators,     \* [kind: {"none", "check", "transform"}, index: an item or -1]
    Expectations,   \* arguments of expected()
    MaxConfigured,  \* bound on the calls that configure the option
    MaxResults,     \* bound on its results
    Unlimited       \* expected_max_vector_size

ResultsAssumption ==
    /\ Numbers \subseteq Int /\ Refused \subseteq Numbers
    /\ Expectations \subseteq Int
    /\ MaxConfigured \in Nat /\ MaxResults \in Nat /\ Unlimited \in Nat

VARIABLES
    policy, typeMin, typeMax, expectedMin, expectedMax, flagLike, validator,
    results,        \* results_
    proc,           \* proc_results_
    state,          \* current_option_state_
    sent,           \* what the callback was run with, for these results
    outcome,        \* of the last call: None or the error it threw
    configured      \* counts the calls that configure

config == <<policy, typeMin, typeMax, expectedMin, expectedMax, flagLike,
            validator>>
vars == <<config, results, proc, state, sent, outcome, configured>>

None == "none"
Mark == 0               \* of a value that was transformed
Braces == <<-98>>       \* "{}", an empty container
Percent == <<-99>>      \* "%%", which follows it

Init ==
    /\ policy = "Throw"
    /\ typeMin = 1 /\ typeMax = 1
    /\ expectedMin = 1 /\ expectedMax = 1
    /\ flagLike = FALSE
    /\ validator \in Validators
    /\ results = <<>>
    /\ proc = <<>>
    /\ state = "parsing"
    /\ sent = <<>>
    /\ outcome = None
    /\ configured = 0

ItemsMin == typeMin * expectedMin
ItemsMax == IF typeMax * expectedMax > Unlimited THEN Unlimited ELSE typeMax * expectedMax

-----------------------------------------------------------------------------
(***************************************************************************)
(* Configuration.                                                          *)
(***************************************************************************)
Smaller(a, b) == IF a < b THEN a ELSE b
Larger(a, b) == IF a < b THEN b ELSE a

\* An option is configured before it is given.
Configure ==
    /\ results = <<>>
    /\ configured < MaxConfigured
    /\ configured' = configured + 1
    /\ outcome' = None
    /\ UNCHANGED <<results, proc, sent, validator>>

\* expected(value).  That it allows extra arguments is a matter of parsing.
Expected(value) ==
    /\ Configure
    /\ \/ /\ value < 0
          /\ expectedMin' = -value
          /\ expectedMax' = Larger(expectedMax, -value)
          /\ flagLike' = FALSE
       \/ /\ value = Unlimited
          /\ expectedMin' = 1
          /\ expectedMax' = Unlimited
          /\ flagLike' = FALSE
       \/ /\ value >= 0 /\ value # Unlimited
          /\ expectedMin' = value
          /\ expectedMax' = value
          /\ flagLike' = (value = 0)
    /\ UNCHANGED <<policy, typeMin, typeMax, state>>

\* expected(min, max)
ExpectedRange(min, max) ==
    /\ Configure
    /\ LET low == IF min < 0 THEN -min ELSE min
           high == IF max < 0 THEN Unlimited ELSE max
       IN  /\ expectedMin' = Smaller(low, high)
           /\ expectedMax' = Larger(low, high)
    /\ UNCHANGED <<policy, typeMin, typeMax, flagLike, state>>

\* type_size(size)
TypeSize(size) ==
    /\ Configure
    /\ typeMax' = IF size < 0 THEN -size ELSE size
    /\ typeMin' = IF typeMax' < Unlimited THEN typeMax' ELSE typeMin
    /\ expectedMax' = IF size < 0 THEN Unlimited ELSE expectedMax
    /\ UNCHANGED <<policy, expectedMin, flagLike, state>>

\* multi_option_policy()
SetPolicy(p) ==
    /\ Configure
    /\ p # policy
    /\ policy' = p
    /\ expectedMax' = IF policy = "Throw" /\ expectedMax = Unlimited /\ expectedMin > 1
                      THEN expectedMin ELSE expectedMax
    /\ state' = "parsing"
    /\ UNCHANGED <<typeMin, typeMax, expectedMin, flagLike>>

-----------------------------------------------------------------------------
(***************************************************************************)
(* Validation and reduction.                                               *)
(***************************************************************************)
\* The index that a validator is shown for a result: items of a type count
\* from 0; those that a policy which keeps the last ones will drop are negative.
IndexOf(i, count) ==
    LET most == IF typeMax > 1 THEN ItemsMax ELSE expectedMax
        from == IF most < count /\ policy \in {"TakeLast", "Reverse"} THEN most - count ELSE 0
        index == from + i - 1
    IN  IF typeMax > 1 /\ index >= 0 THEN index % typeMax ELSE index

Applies(i, count) == validator.index = -1 \/ validator.index = IndexOf(i, count)

ValidationFails(r) ==
    /\ validator.kind = "check"
    /\ \E i \in DOMAIN r : Applies(i, Len(r)) /\ r[i][1] \in Refused

Validated(r) ==
    IF validator.kind # "transform" THEN r
    ELSE [i \in DOMAIN r |-> IF Applies(i, Len(r)) THEN Append(r[i], Mark) ELSE r[i]]

LastOf(r, n) == SubSeq(r, Len(r) - n + 1, Len(r))

\* How many results a policy may keep; at least one.  (Fault: none, of a flag.)
TrimToExpected(r) == Smaller(ItemsMax, Len(r))
Trim(r) == Smaller(Larger(ItemsMax, 1), Len(r))

\* What is no number is put behind one another instead.
AllNumbers(r) == \A x \in Range(r) : x[1] # Braces[1]
SumOf(r) == IF AllNumbers(r) THEN <<FoldSeq(LAMBDA x, y : x[1] + y, 0, r)>>
            ELSE FlattenSeq(r)

\* What _reduce_results leaves in its output; nothing if all is kept as it is.
Out(r) ==
    LET trim == Trim(r)
    IN  CASE policy = "TakeLast" /\ Len(r) # trim -> LastOf(r, trim)
          [] policy = "Reverse" /\ (Len(r) # trim \/ trim > 1) -> Reverse(LastOf(r, trim))
          [] policy = "TakeFirst" /\ Len(r) # trim -> SubSeq(r, 1, trim)
          [] policy = "Join" /\ Len(results) > 1 -> <<FlattenSeq(r)>>
          [] policy = "Sum" -> <<SumOf(r)>>
          [] OTHER -> <<>>

OrElse(out, r) == IF out = <<>> THEN r ELSE out

Reduced(r) ==
    LET out == Out(r)
        empty == ~AllNumbers(r) /\ OrElse(out, r) = <<Braces>>
    IN  IF empty /\ ItemsMin > 0 THEN <<Braces, Percent>> ELSE out

ReductionFails(r) ==
    /\ policy = "Throw"
    /\ \/ Len(r) < Larger(ItemsMin, 1)
       \/ Len(r) > Larger(ItemsMax, 1) /\ ~(ItemsMax <= 1 /\ r = <<Braces, Percent>>)

-----------------------------------------------------------------------------
(***************************************************************************)
(* Operations.                                                             *)
(***************************************************************************)
\* add_result(): an argument is split at the delimiter, or in brackets at commas.
AddResult(parts) ==
    /\ Len(results) + Len(parts) <= MaxResults
    /\ results' = results \o parts
    /\ state' = "parsing"
    /\ outcome' = None
    /\ sent' = <<>>
    /\ UNCHANGED <<config, proc, configured>>

\* get_flag_value(): the value of a flag that was given without one is true,
\* and of a name that was defined as false it is the negation.
FlagValue(negated, input) ==
    LET value == IF input = <<>> THEN 1 ELSE input[1]
    IN  IF negated THEN <<-value>> ELSE <<value>>

AddFlag(negated, input) ==
    /\ ItemsMax = 0 /\ flagLike
    /\ Len(results) < MaxResults
    /\ results' = Append(results, FlagValue(negated, input))
    /\ state' = "parsing"
    /\ outcome' = None
    /\ sent' = <<>>
    /\ UNCHANGED <<config, proc, configured>>

Clear ==
    /\ results' = <<>>
    /\ state' = "parsing"
    /\ outcome' = None
    /\ sent' = <<>>
    /\ UNCHANGED <<config, proc, configured>>

\* run_callback(): what is validated is not validated again, and what is
\* reduced is not reduced again.
RunCallback ==
    /\ results # <<>>
    /\ UNCHANGED <<config, configured>>
    /\ LET r == IF state = "parsing" THEN Validated(results) ELSE results
       IN  \/ /\ state = "parsing" /\ ValidationFails(results)
              /\ outcome' = "ValidationError"
              /\ UNCHANGED <<results, proc, state, sent>>
           \/ /\ ~(state = "parsing" /\ ValidationFails(results))
              /\ state \in {"parsing", "validated"} /\ ReductionFails(r)
              /\ outcome' = "ArgumentMismatch"
              /\ results' = r
              /\ proc' = <<>>
              /\ state' = "validated"
              /\ UNCHANGED sent
           \/ /\ ~(state = "parsing" /\ ValidationFails(results))
              /\ state \in {"parsing", "validated"} => ~ReductionFails(r)
              /\ outcome' = None
              /\ results' = r
              /\ proc' = IF state \in {"parsing", "validated"} THEN Reduced(r) ELSE proc
              /\ state' = "callback_run"
              /\ sent' = OrElse(proc', r)

\* results<T>() of an option that was given; nothing if it throws.
Read ==
    IF state = "callback_run" \/ (Len(results) = 1 /\ validator.kind = "none")
    THEN OrElse(proc, results)
    ELSE LET r == IF state = "parsing" THEN Validated(results) ELSE OrElse(proc, results)
         IN  IF (state = "parsing" /\ ValidationFails(results)) \/ ReductionFails(r)
             THEN <<>> ELSE OrElse(Reduced(r), r)

Next ==
    \/ \E e \in Expectations : Expected(e) \/ TypeSize(e)
    \/ \E e, f \in Expectations : ExpectedRange(e, f)
    \/ \E p \in Policies : SetPolicy(p)
    \/ \E v \in Numbers : AddResult(<<<<v>>>>)
    \/ results = <<>> /\ AddResult(<<Braces>>)
    \/ \E v, w \in Numbers : AddResult(<<<<v>>, <<w>>>>)
    \/ \E n \in BOOLEAN, v \in {<<>>} \cup {<<m>> : m \in Numbers} : AddFlag(n, v)
    \/ Clear
    \/ RunCallback

Spec == Init /\ [][Next]_vars

-----------------------------------------------------------------------------
\* Types.
TypeOK ==
    /\ policy \in Policies
    /\ typeMin \in Nat /\ typeMax \in Nat
    /\ expectedMin \in 0 .. Unlimited /\ expectedMax \in 0 .. Unlimited
    /\ flagLike \in BOOLEAN
    /\ Len(results) <= MaxResults
    /\ Len(proc) <= Larger(MaxResults, 2)
    /\ state \in {"parsing", "validated", "callback_run"}
    /\ outcome \in {None, "ValidationError", "ArgumentMismatch"}
    /\ configured \in 0 .. MaxConfigured

\* What was sent to the callback is what the policy says of all results that
\* the option has, in its words: the last ones, the first ones, all of them,
\* one for all; and never nothing.
SentIsPolicy ==
    state = "callback_run" /\ AllNumbers(results) =>
        LET n == Len(sent)
            limited == n = Smaller(Larger(ItemsMax, 1), Len(results))
        IN  /\ n > 0
            /\ policy = "TakeAll" => sent = results
            /\ policy = "TakeLast" => limited /\ IsSuffix(sent, results)
            /\ policy = "TakeFirst" => limited /\ IsPrefix(sent, results)
            /\ policy = "Reverse" => limited /\ IsSuffix(Reverse(sent), results)
            /\ policy \in {"Join", "Sum"} => n = 1
            /\ policy = "Join" => sent[1] = FlattenSeq(results)
            /\ policy = "Throw" => /\ sent = results
                                   /\ n >= ItemsMin /\ n <= Larger(ItemsMax, 1)

\* proc_results_ outlives clear(); a single result that no validator looks at is
\* then read through it.
StaleSingle ==
    state # "callback_run" /\ Len(results) = 1 /\ validator.kind = "none" /\ proc # <<>>

\* An option that is read before its callback has run (in the callback of
\* another) shows what its callback is sent afterwards, and one whose callback
\* was run shows what was sent; or both refuse.
Unchecked == Len(results) = 1 /\ validator.kind = "none"
ReadIsSent ==
    [][RunCallback /\ ~StaleSingle =>
        /\ Unchecked \/ Read = IF outcome' = None THEN sent' ELSE <<>>
        /\ outcome' = None => Read' = sent']_vars
===============================================================================
