---------------------------- MODULE SemanticVersion ----------------------------
(***************************************************************************)
(* semver.hpp: a version is read from texts, one after another, and is     *)
(* asked whether it satisfies ranges.  A text is a sequence of numbers,    *)
(* words and other characters; a number keeps its digits, for leading      *)
(* zeros, and the word "a" stands for a beginning of "alpha".              *)
(*                                                                         *)
(* A read that fails has assigned some of the fields.  A range is read     *)
(* while it is evaluated, one comparator after another.                    *)
(***************************************************************************)
EXTENDS Integers, Sequences, SequencesExt

CONSTANTS
    Texts,     \* what a version is read from
    Ranges,    \* well-formed ranges: alternatives of comparators, <<op>> \o a version
    Oddities,  \* other texts that are taken for ranges
    MaxReads

Types == <<"alpha", "beta", "rc", "none">>
Version(mj, mn, pt, type, number) ==
    [major |-> mj, minor |-> mn, patch |-> pt, type |-> type,
     number |-> IF type = "none" THEN 0 ELSE number]

VARIABLES
    version,   \* the version that is read and asked about
    reads,     \* reads left
    lastRead,  \* ghost: [ok, text]
    phase,     \* "idle", or where satisfies is, or how it ended
    range,     \* ghost: the range evaluated, <<>> for an oddity
    parser,    \* its current token and what is left of the text
    include,   \* include_prerelease
    contains, allow       \* contains and allow_compare

vars == <<version, reads, lastRead, phase, range, parser, include, contains, allow>>

------------------------------------------------------------------------------
(* Versions as text.                                                        *)

Digits(n) == IF n < 10 THEN 1 ELSE IF n < 100 THEN 2 ELSE 3
N(n) == <<<<"n", n, Digits(n)>>>>
C(c) == <<<<"c", c>>>>
W(w) == <<<<"w", w>>>>

WordLength == [alpha |-> 5, beta |-> 4, rc |-> 2, none |-> 0, a |-> 1, z |-> 1]
TokenLength(t) == IF t[1] = "n" THEN t[3] ELSE IF t[1] = "w" THEN WordLength[t[2]] ELSE 1
TextLength(text) == FoldLeft(LAMBDA n, t : n + TokenLength(t), 0, text)

Core(v) == N(v.major) \o C(".") \o N(v.minor) \o C(".") \o N(v.patch)
ToChars(v) ==
    Core(v) \o (IF v.type = "none" THEN <<>>
                ELSE C("-") \o W(v.type) \o (IF v.number = 0 THEN <<>> ELSE C(".") \o N(v.number)))
StringLength(v) ==
    Digits(v.major) + Digits(v.minor) + Digits(v.patch) + 2
    + (IF v.type = "none" THEN 0
       ELSE WordLength[v.type] + 1 + (IF v.number = 0 THEN 0 ELSE Digits(v.number) + 1))

\* A text has the form of a version up to its k-th token.
Typed == {"alpha", "beta", "rc"}
Fits(text, k) ==
    /\ Len(text) >= k
    /\ \A i \in 1..k :
        CASE i \in {1, 3, 5, 9} -> text[i][1] = "n" /\ text[i][2] <= 255
          [] i \in {2, 4, 8} -> text[i] = <<"c", ".">>
          [] i = 6 -> text[i] = <<"c", "-">>
          [] i = 7 -> text[i][1] = "w" /\ text[i][2] \in Typed

\* The text ends within the word: it is taken for alpha, and reading goes on
\* behind the text, where a number may be found.
BeyondText(text) == Fits(text, 6) /\ (Len(text) = 6 \/ SubSeq(text, 7, Len(text)) = W("a"))

Complete(text) == \E k \in {5, 7, 9} : Len(text) = k /\ Fits(text, k)

\* The fields that a read assigns.  (Fault: a release leaves the number of what
\* the version was before.)
FieldsReadKeepingNumber(v, text) ==
    [v EXCEPT !.major = IF Fits(text, 1) THEN text[1][2] ELSE @,
              !.minor = IF Fits(text, 3) THEN text[3][2] ELSE @,
              !.patch = IF Fits(text, 5) THEN text[5][2] ELSE @,
              !.type = IF BeyondText(text) THEN "alpha"
                       ELSE IF Fits(text, 7) THEN text[7][2]
                       ELSE IF Complete(text) THEN "none" ELSE @,
              !.number = IF Fits(text, 9) THEN text[9][2] ELSE @]

FieldsRead(v, text) ==
    [v EXCEPT !.major = IF Fits(text, 1) THEN text[1][2] ELSE @,
              !.minor = IF Fits(text, 3) THEN text[3][2] ELSE @,
              !.patch = IF Fits(text, 5) THEN text[5][2] ELSE @,
              !.type = IF BeyondText(text) THEN "alpha"
                       ELSE IF Fits(text, 7) THEN text[7][2]
                       ELSE IF Complete(text) THEN "none" ELSE @,
              !.number = IF Fits(text, 9) THEN text[9][2]
                         ELSE IF Complete(text) THEN 0 ELSE @]

\* What from_chars may leave: nothing is read of a text of less than five.
FromChars(v, text) ==
    IF TextLength(text) < 5 THEN {v}
    ELSE {FieldsRead(v, text)} \cup
         (IF BeyondText(text) THEN {[FieldsRead(v, text) EXCEPT !.number = 7]} ELSE {})

------------------------------------------------------------------------------
(* The order of versions.                                                   *)

Rank(type) == CHOOSE i \in DOMAIN Types : Types[i] = type
Compare(a, b) ==
    IF a.major # b.major THEN a.major - b.major
    ELSE IF a.minor # b.minor THEN a.minor - b.minor
    ELSE IF a.patch # b.patch THEN a.patch - b.patch
    ELSE IF a.type # b.type THEN Rank(a.type) - Rank(b.type)
    ELSE a.number - b.number
SameCore(a, b) ==
    Compare(Version(a.major, a.minor, a.patch, "none", 0),
            Version(b.major, b.minor, b.patch, "none", 0)) = 0

Satisfies(comparator, v) ==
    LET c == Compare(v, comparator.ver)
    IN  CASE comparator.op = "=" -> c = 0
          [] comparator.op = ">" -> c > 0
          [] comparator.op = ">=" -> c >= 0
          [] comparator.op = "<" -> c < 0
          [] comparator.op = "<=" -> c <= 0
Comparator(c) == [op |-> c[1], ver |-> Version(c[2], c[3], c[4], c[5], c[6])]

------------------------------------------------------------------------------
(* The text of a range, its lexer and its parser.                           *)

RangeVersion(v) ==
    Core(v) \o (IF v.type = "none" THEN <<>> ELSE C("-") \o W(v.type) \o C(".") \o N(v.number))
OperatorText ==
    [o \in {"=", "<", ">", "<=", ">="} |->
        CASE o = "<=" -> C("<") \o C("=") [] o = ">=" -> C(">") \o C("=") [] OTHER -> C(o)]
RangeText(r) ==
    FlattenSeq([i \in DOMAIN r |->
        (IF i = 1 THEN <<>> ELSE C("|") \o C("|"))
        \o FlattenSeq([k \in DOMAIN r[i] |->
               OperatorText[r[i][k][1]] \o RangeVersion(Comparator(r[i][k]).ver) \o C(" ")])])

Token(type, text) == [type |-> type, number |-> 0, word |-> "", rest |-> text]

\* A number that is none of a byte stays in the text, as do the digits of one
\* with leading zeros that its value has not.
LexNumber(t, text) ==
    LET left == t[3] - Digits(t[2])
    IN  IF t[2] > 255 THEN Token("number", <<t>> \o text)
        ELSE [Token("number", (IF left = 0 THEN <<>> ELSE <<<<"n", t[2] % 10 ^ left, left>>>>)
                              \o text)
              EXCEPT !.number = t[2]]

LexOperator(c, text) ==
    IF c # "=" /\ text # <<>> /\ Head(text) = <<"c", "=">>
    THEN [Token("operator", Tail(text)) EXCEPT !.word = c \o "="]
    ELSE [Token("operator", text) EXCEPT !.word = c]

LexWord(w, text) ==
    [Token("prerelease", text) EXCEPT
        !.word = IF w \in Typed THEN w ELSE IF w = "a" /\ text = <<>> THEN "alpha" ELSE "none"]

\* A character of no kind is never left: get_next_token does not return.
NextToken(text) ==
    LET s == SelectInSeq(text, LAMBDA t : t # <<"c", " ">>)
        t == text[s]
        after == SubSeq(text, s + 1, Len(text))
    IN  IF s = 0 THEN Token("end_of_line", <<>>)
        ELSE IF t[1] = "n" THEN LexNumber(t, after)
        ELSE IF t[1] = "w" THEN LexWord(t[2], after)
        ELSE CASE t[2] \in {"<", ">", "="} -> LexOperator(t[2], after)
               [] t[2] = "|" -> Token("logical_or", SubSeq(after, 2, Len(after)))
               [] t[2] = "." -> Token("dot", after)
               [] t[2] = "-" -> Token("hyphen", after)
               [] OTHER -> Token("endless", text)

\* A parser: the current token, what is left, and how it fares.
Parser(t) == [type |-> t.type, number |-> t.number, word |-> t.word, rest |-> t.rest,
              thrown |-> FALSE]
Reads(p) == ~p.thrown /\ p.type # "endless"
AdvanceToken(p, type) ==
    IF ~Reads(p) THEN p
    ELSE IF p.type # type THEN [p EXCEPT !.thrown = TRUE]
    ELSE Parser(NextToken(p.rest))

\* A release ends where the hyphen of a prerelease might follow.
VersionTokens ==
    <<"number", "dot", "number", "dot", "number", "hyphen", "prerelease", "dot", "number">>
ParseVersion(p) ==
    LET Take(r, type) ==
            IF r.ended \/ (type = "hyphen" /\ r.parser.type # "hyphen")
            THEN [r EXCEPT !.ended = TRUE]
            ELSE [r EXCEPT !.parser = AdvanceToken(@, type), !.tokens = Append(@, r.parser)]
        r == FoldLeft(Take, [parser |-> p, tokens |-> <<>>, ended |-> FALSE], VersionTokens)
        prerelease == ~r.ended /\ Reads(r.parser)
    IN  [parser |-> r.parser,
         ver |-> Version(r.tokens[1].number, r.tokens[3].number, r.tokens[5].number,
                         IF prerelease THEN r.tokens[7].word ELSE "none",
                         IF prerelease THEN r.tokens[9].number ELSE 0)]

\* A comparator without an operator asks for the version itself.
Operator(p) == IF p.type = "operator" THEN p.word ELSE "="
AfterOperator(p) == IF p.type = "operator" THEN AdvanceToken(p, "operator") ELSE p

------------------------------------------------------------------------------
(* Reading a version, and asking it.                                        *)

Init ==
    /\ version = Version(0, 1, 0, "none", 0)
    /\ reads = MaxReads
    /\ lastRead = [ok |-> TRUE, text |-> ToChars(version)]
    /\ phase = "idle"
    /\ range = <<>>
    /\ parser = Parser(NextToken(<<>>))
    /\ include = FALSE /\ contains = FALSE /\ allow = FALSE

FromString(text) ==
    /\ phase = "idle"
    /\ reads > 0
    /\ reads' = reads - 1
    /\ version' \in FromChars(version, text)
    /\ lastRead' = [ok |-> Complete(text), text |-> text]
    /\ UNCHANGED <<phase, range, parser, include, contains, allow>>

Asking == UNCHANGED <<version, reads, lastRead, range, include>>
Then(p, next) == IF p.thrown THEN "thrown" ELSE IF p.type = "endless" THEN "endless" ELSE next

Ask(text) ==
    /\ phase = "idle"
    /\ parser' = Parser(NextToken(text))
    /\ phase' = Then(parser', "alternative")
    /\ include' \in BOOLEAN
    /\ contains' = TRUE /\ allow' = FALSE
    /\ UNCHANGED <<version, reads, lastRead>>
AskRange == \E r \in Ranges : Ask(RangeText(r)) /\ range' = r
AskOddity == \E text \in Oddities : Ask(text) /\ range' = <<>>

Alternative ==
    /\ phase = "alternative"
    /\ parser' = IF parser.type = "logical_or" THEN AdvanceToken(parser, "logical_or") ELSE parser
    /\ phase' = Then(parser', "comparators")
    /\ contains' = TRUE
    /\ allow' = include
    /\ Asking

AtComparator == parser.type \in {"operator", "number"}
\* A comparator that does not hold ends its alternative where the parser is.
TryComparator ==
    /\ phase = "comparators"
    /\ AtComparator
    /\ \E r \in {ParseVersion(AfterOperator(parser))} :
       LET comparator == [op |-> Operator(parser), ver |-> r.ver]
           holds == Reads(r.parser) /\ Satisfies(comparator, version)
       IN  /\ parser' = r.parser
           /\ phase' = Then(r.parser, IF holds THEN "comparators" ELSE "end")
           /\ allow' = (allow \/ (Reads(r.parser) /\ version.type # "none"
                                    /\ SameCore(r.ver, version)))
           /\ contains' = holds
    /\ Asking

EndAlternative ==
    /\ phase = "end" \/ (phase = "comparators" /\ ~AtComparator)
    /\ phase' = IF contains /\ (version.type = "none" \/ allow) THEN "true"
                ELSE IF parser.type = "logical_or" THEN "alternative" ELSE "false"
    /\ UNCHANGED <<parser, contains, allow>>
    /\ Asking

Next ==
    \/ \E text \in Texts : FromString(text)
    \/ AskRange \/ AskOddity \/ Alternative \/ TryComparator \/ EndAlternative

Spec == Init /\ [][Next]_vars

------------------------------------------------------------------------------
(* Properties.                                                              *)

TypeOK ==
    /\ \A field \in {"major", "minor", "patch", "number"} : version[field] \in 0..255
    /\ version.type \in Typed \cup {"none"}
    /\ reads \in 0..MaxReads
    /\ phase \in {"idle", "alternative", "comparators", "end", "true", "false", "thrown", "endless"}
    /\ include \in BOOLEAN /\ contains \in BOOLEAN /\ allow \in BOOLEAN

Fresh == Version(0, 0, 0, "none", 0)

\* What a version was before does not show in one that is read, and every
\* version that reads leave, those that failed half way too, is printed in the
\* length that string_length tells, at most 21, and reads back as itself.
VersionsReadBack ==
    /\ lastRead.ok => version = FieldsRead(Fresh, lastRead.text)
    /\ Complete(ToChars(version)) /\ FieldsRead(Fresh, ToChars(version)) = version
    /\ TextLength(ToChars(version)) = StringLength(version) /\ StringLength(version) <= 21

\* satisfies decides a range as its comparators do: an alternative holds when
\* all of them do and, for a prerelease, one has its core.  But one that fails
\* before its last comparator ends the range, with alternatives left.
RangesTrue ==
    LET Holds(a) == \A k \in DOMAIN a : Satisfies(Comparator(a[k]), version)
        Allowed(a) == \/ version.type = "none" \/ include
                      \/ \E k \in DOMAIN a : SameCore(Comparator(a[k]).ver, version)
        FailsEarly(a) == \E k \in 1..(Len(a) - 1) : ~Satisfies(Comparator(a[k]), version)
        Reached(i) == \A h \in 1..(i - 1) : ~FailsEarly(range[h])
        Decided == \E i \in DOMAIN range : Reached(i) /\ Holds(range[i]) /\ Allowed(range[i])
    IN  range # <<>> =>
            /\ phase \notin {"thrown", "endless"}
            /\ phase \in {"true", "false"} => ((phase = "true") <=> Decided)

VersionsTrue == VersionsReadBack /\ RangesTrue
================================================================================
