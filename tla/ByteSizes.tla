------------------------------- MODULE ByteSizes -------------------------------
(***************************************************************************)
(* Two computations on sizes in bytes: prettyPrintBytes, which divides a   *)
(* number down to a unit, and AlignedAllocator::allocate, which multiplies *)
(* one up.  Each behaviour computes them for one input.                    *)
(***************************************************************************)
EXTENDS Integers

CONSTANTS
    Word,           \* 2^64: what a uint64_t and a size_t are counted modulo
    Unit,           \* 1024
    Suffixes,       \* 7, from "B" to "EB"
    ElementSizes    \* sizeof(ElementType)

SizesAssumption ==
    /\ {Word, Suffixes} \subseteq Nat \ {0}
    /\ Unit \in Nat \ {0, 1}
    /\ ElementSizes \subseteq 1 .. Word - 1

VARIABLES
    input,          \* the argument
    bytes,          \* what is left of it
    i,              \* the suffix
    shown,          \* the number to print, a fraction
    at,             \* "enter", "loop", "printed"; or allocate()'s "bytes", "thrown"
    size            \* sizeof(ElementType)

vars == <<input, bytes, i, shown, at, size>>

TypeOK ==
    /\ input \in 0 .. Word - 1
    /\ bytes \in 0 .. Word - 1
    /\ i \in 0 .. Suffixes - 1
    /\ shown \in [num : Nat, den : {1, Unit}]
    /\ at \in {"enter", "loop", "printed", "bytes", "thrown"}
    /\ size \in ElementSizes

Init ==
    /\ input \in 0 .. Word - 1
    /\ bytes = input
    /\ i = 0
    /\ shown = [num |-> 0, den |-> 1]
    /\ at = "enter"
    /\ size \in ElementSizes

-----------------------------------------------------------------------------
\* prettyPrintBytes: exactly one unit is still printed in the unit below.
Enter ==
    /\ at = "enter"
    /\ shown' = [num |-> bytes, den |-> 1]
    /\ at' = IF bytes > Unit THEN "loop" ELSE "printed"
    /\ UNCHANGED <<input, bytes, i, size>>

\* (Fault: the suffixes are not counted.)
GoesOnUncounted == bytes \div Unit > 0
GoesOn == bytes \div Unit > 0 /\ i < Suffixes - 1

\* (Fault: the number is taken after the division.)
DivideFirst ==
    /\ bytes' = bytes \div Unit
    /\ shown' = [num |-> bytes', den |-> Unit]
    /\ i' = i + 1
Divide ==
    /\ shown' = [num |-> bytes, den |-> Unit]
    /\ bytes' = bytes \div Unit
    /\ i' = i + 1

Loop ==
    /\ at = "loop"
    /\ IF GoesOn
       THEN Divide /\ UNCHANGED at
       ELSE at' = "printed" /\ UNCHANGED <<bytes, i, shown>>
    /\ UNCHANGED <<input, size>>

-----------------------------------------------------------------------------
\* AlignedAllocator::allocate: the guard against a product that does not fit.
\* (Fault: it lets one element too many pass.)
TooManyOffByOne(n) == n - 1 > (Word - 1) \div size
TooMany(n) == n > (Word - 1) \div size

Allocate ==
    /\ at = "enter"
    /\ IF TooMany(input)
       THEN at' = "thrown" /\ UNCHANGED bytes
       ELSE at' = "bytes" /\ bytes' = (input * size) % Word
    /\ UNCHANGED <<input, i, shown, size>>

Over ==
    /\ at \in {"printed", "bytes", "thrown"}
    /\ UNCHANGED vars

Next == Enter \/ Loop \/ Allocate \/ Over

Spec == Init /\ [][Next]_vars

-----------------------------------------------------------------------------
\* The bytes in a unit.
Scale[n \in Nat] == IF n = 0 THEN 1 ELSE Unit * Scale[n - 1]

\* The number that is printed with its suffix is at most the input, and falls
\* short of it by less than one unit of the suffix before, though each division
\* drops a remainder; it never has more digits than it needs.
PrintedTrue ==
    at = "printed" =>
        LET below == IF i = 0 THEN 1 ELSE Scale[i - 1]
        IN  /\ shown.num * below <= input
            /\ input < (shown.num + 1) * below
            /\ i > 0 => shown.num >= shown.den
            /\ i < Suffixes - 1 => shown.num <= shown.den * Unit

\* Memory that is handed out has room for all the elements that were asked for,
\* and a request that fits is not refused.
AllocatedEnough ==
    /\ at = "bytes" => bytes >= input * size
    /\ at = "thrown" => input * size >= Word

=============================================================================
