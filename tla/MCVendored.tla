------------------------------- MODULE MCVendored -------------------------------
(***************************************************************************)
(* What the repository carries under src/common: the helpers, CLI11, and   *)
(* the date and version libraries.  They share nothing, so a behaviour is  *)
(* one of a single part, and the others stay in an initial state.          *)
(***************************************************************************)
EXTENDS Integers, Sequences, TLC

CONSTANTS
    \* of ScopeGuard and ByteSizes
    Callbacks, Depth, Word, Unit, Suffixes, ElementSizes,
    \* of CommandLine and CommandLineResults
    Apps, Root, Options, Grammars, MaxArgs, Unlimited,
    Validators, Expectations, Numbers, Refused, Policies, MaxConfigured, MaxResults,
    \* of CalendarWalk and DateText
    Anchors, Shifts, UnsignedWord, WalkLength, MaxMoves, Units, Objects, Formats,
    \* of SemanticVersion
    Texts, Ranges, Oddities, MaxReads

VARIABLES
    part,
    guards, made, calls, dismissed,
    input, bytes, suffix, shown, sizesAt, size,
    grammar, given, args, stack, arguments, delivered, missing, used, parsed,
    recorded, called, appAt,
    policy, typeMin, typeMax, expectedMin, expectedMax, flagLike, validator,
    results, proc, state, sent, outcome, configured,
    z, civil, dow, walked, ymd, moves, count, day, from,
    object, format, textPhase, place, command, modified, negative, text, altered,
    locals, fds, result,
    version, reads, lastRead, rangePhase, range, parser, include, contains, allow

-----------------------------------------------------------------------------
\* Programs that use CLI11: what they say of their apps and options.
NoApp == [subs |-> <<>>, opts |-> <<>>, named |-> TRUE, fallthrough |-> FALSE,
          prefix |-> FALSE, extras |-> FALSE, required |-> FALSE, subMin |-> 0,
          subMax |-> 0, optMin |-> 0, optMax |-> 0, atEnd |-> FALSE,
          complete |-> FALSE, silent |-> FALSE, immediate |-> FALSE]
RootApp == [NoApp EXCEPT !.named = FALSE]

ValueOf(names) ==
    [names |-> names, positional |-> FALSE, min |-> 1, max |-> 1, extra |-> FALSE,
     required |-> FALSE, needs |-> {}, excludes |-> {}, help |-> FALSE,
     trigger |-> FALSE, env |-> FALSE]
FlagOf(names) == [ValueOf(names) EXCEPT !.min = 0, !.max = 0]

Defaults ==
    [tokens |-> {},
     app |-> [a \in Apps |-> NoApp],
     opt |-> "help" :> [FlagOf({"h"}) EXCEPT !.help = TRUE]
             @@ "f" :> FlagOf({"f"})
             @@ "v" :> ValueOf({"v"})
             @@ "p" :> [ValueOf({}) EXCEPT !.positional = TRUE]]

Argument(kind, names, value) == [kind |-> kind, names |-> names, value |-> value]
Short(names) == Argument("short", names, FALSE)
LongWith(name) == Argument("long", <<name>>, TRUE)
Plain(w) == Argument("word", <<w>>, FALSE)
Mark == Argument("--", <<"--">>, FALSE)
End == Argument("++", <<"++">>, FALSE)

\* One app: a flag and an option that exclude one another, and a positional.
OneApp ==
    [Defaults EXCEPT
        !.tokens = {Short(<<"h">>), Short(<<"f", "v">>), LongWith("v"), Short(<<"v">>),
                    Plain("other"), Mark},
        !.app["root"] = [RootApp EXCEPT !.opts = <<"help", "f", "v", "p">>],
        !.opt["v"].env = TRUE, !.opt["v"].excludes = {"f"},
        !.opt["f"].excludes = {"v"}, !.opt["p"].required = TRUE]

\* An unlimited option; a subcommand with a positional of its own, which hands
\* what it does not know to the root.
Listing ==
    [Defaults EXCEPT
        !.tokens = {Short(<<"f">>), Short(<<"v">>), Plain("s"), Plain("other"), Mark},
        !.app["root"] = [RootApp EXCEPT !.opts = <<"help", "v">>, !.subs = <<"s">>],
        !.app["s"] = [NoApp EXCEPT !.opts = <<"p", "f">>, !.fallthrough = TRUE,
                                   !.complete = TRUE],
        !.opt["v"].max = Unlimited, !.opt["v"].extra = TRUE,
        !.opt["p"].required = TRUE, !.opt["f"].needs = {"v"}]

\* A group of two options of which one is required, with a subcommand in it, and
\* a subcommand that is complete when it returns.
Grouped ==
    [Defaults EXCEPT
        !.tokens = {Short(<<"f">>), Short(<<"v">>), Plain("s"), Plain("t"), Plain("other"),
                    End},
        !.app["root"] = [RootApp EXCEPT !.opts = <<"help">>, !.subs = <<"g", "t">>,
                                        !.extras = TRUE, !.optMax = 2],
        !.app["g"] = [NoApp EXCEPT !.named = FALSE, !.opts = <<"f", "v">>,
                                   !.subs = <<"s">>, !.optMin = 1, !.optMax = 1],
        !.app["t"] = [NoApp EXCEPT !.opts = <<"p">>, !.complete = TRUE,
                                   !.immediate = TRUE, !.extras = TRUE],
        !.opt["v"].min = 0, !.opt["v"].trigger = TRUE, !.opt["p"].env = TRUE]

\* Positionals at the end; a subcommand whose rest belongs to another program.
Ending ==
    [Defaults EXCEPT
        !.tokens = {Short(<<"h">>), Short(<<"v">>), Plain("s"), Plain("t"), Plain("other")},
        !.app["root"] = [RootApp EXCEPT !.opts = <<"help">>, !.subs = <<"s", "t">>,
                                        !.subMin = 1, !.subMax = 1],
        !.app["s"] = [NoApp EXCEPT !.prefix = TRUE],
        !.app["t"] = [NoApp EXCEPT !.opts = <<"p", "v">>, !.atEnd = TRUE,
                                   !.silent = TRUE],
        !.opt["p"].required = TRUE, !.opt["v"].trigger = TRUE]

\* A group that asks for more options than it has.
Impossible ==
    [Defaults EXCEPT !.tokens = {Short(<<"f">>)},
                     !.app["root"] = [RootApp EXCEPT !.opts = <<"f">>, !.optMin = 2]]

MCGrammars == [plain |-> OneApp, listing |-> Listing, grouped |-> Grouped,
               ending |-> Ending, impossible |-> Impossible]

MCExpectations == {-2, 0, 2}
MCValidators ==
    {[kind |-> "none", index |-> -1], [kind |-> "check", index |-> -1],
     [kind |-> "transform", index |-> 0]}

-----------------------------------------------------------------------------
\* Days whose date and weekday are known: before two ends of February of years
\* that are and are not leap years, the epoch, and the first day of an era.
MCAnchors ==
    {[z |-> -135085, y |-> 1600, m |-> 2, d |-> 25, wd |-> 5],
     [z |-> -25517, y |-> 1900, m |-> 2, d |-> 20, wd |-> 2],
     [z |-> 0, y |-> 1970, m |-> 1, d |-> 1, wd |-> 4],
     [z |-> 11007, y |-> 2000, m |-> 2, d |-> 20, wd |-> 0],
     [z |-> -719468, y |-> 0, m |-> 3, d |-> 1, wd |-> 3]}
MCShifts == {-25, -1, 1, 11, 14}

\* What is written: kinds, with days at the ends of years and of ISO years.
Absent == -99999
Thing(kind, z0, sec, offset) == [kind |-> kind, day |-> z0, sec |-> sec, offset |-> offset]
MCObjects ==
    {Thing("date", d, 0, Absent) :
        d \in {-719468, -718374, -135085, -25508, -1, 0, 364, 10956, 11016, 14244, 14245,
               16436, 17896, 19357, 22280}}
    \cup {Thing("time", t[1], t[2], 0) :
        t \in {<<0, 0>>, <<-1, 86399>>, <<-25508, 43200>>, <<11016, 46800>>}}
    \cup {Thing("local", t[1], t[2], t[3]) :
        t \in {<<0, 1800, 60>>, <<10956, 86340, -330>>, <<17896, 43261, Absent>>}}
    \cup {Thing("duration", 0, s, Absent) : s \in {0, 3661, 90061, -59}}
    \cup {Thing("weekday", d, 0, Absent) : d \in {0, 3, 4}}
    \cup {Thing("year_month", d, 0, Absent) : d \in {0, 11016}}

\* Formats, with the days of which they say all there is: Always, the years that
\* have four digits, those that have two, or Never.
Form(kind, target, chars, days) ==
    [kind |-> kind, target |-> target, chars |-> chars, first |-> days[1], last |-> days[2]]
Always == <<-800000, 30000>>
Positive == <<-719468, 30000>>
Modern == <<-365, 36158>>
Never == <<1, 0>>
MCFormats ==
    {Form("date", "date", <<"%","F">>, Positive),
     Form("date", "date", <<"%","Y","-","%","j">>, Always),
     Form("date", "date", <<"%","G","-","W","%","V","-","%","u">>, Always),
     Form("date", "date", <<"%","Y","-","%","U","-","%","w">>, Always),
     Form("date", "date", <<"%","Y"," ","%","W"," ","%","a">>, Always),
     Form("date", "date", <<"%","d"," ","%","b"," ","%","C","%","y">>, Always),
     Form("date", "date", <<"%","D"," ","%","A">>, Modern),
     Form("date", "date", <<"%","D"," ","%","E","x"," ","%","C">>, Positive),
     Form("date", "date", <<"%","e","/","%","m","/","%","E","Y"," ","%","G","-","%","V">>, Never),
     Form("date", "date", <<"%","g","-","%","V","-","%","u">>, Modern),
     Form("date", "date", <<"%","Y","%","m","%","d"," ","%","U"," ","%","V"," ","%","G">>, Always),
     Form("date", "date", <<"%","Y"," ","%","W"," ","%","u"," ","%","V"," ","%","g">>, Never),
     Form("date", "date", <<"%","F"," ","%","O","y"," ","%","O","d","%","%","%","E","m">>, Positive),
     Form("date", "date", <<"%","H">>, Never),
     Form("time", "time", <<"%","F"," ","%","T","%","z">>, Always),
     Form("time", "time", <<"%","c"," ","%","Z">>, Always),
     Form("time", "local", <<"%","x"," ","%","I",":","%","M"," ","%","p"," ","%","H">>, <<0, 36158>>),
     Form("time", "time", <<"%","F"," ","%","r","%","t">>, Always),
     Form("local", "time", <<"%","F","T","%","R","%","E","z">>, Never),
     Form("local", "local", <<"%","F","T","%","R",":","%","S">>, Always),
     Form("local", "time", <<"%","F","T","%","X","%","z">>, <<0, 10956>>),
     Form("duration", "duration", <<"%","j"," ","%","T">>, Never),
     Form("duration", "duration", <<"%","H",":","%","M",":","%","O","S">>, Never),
     Form("duration", "duration", <<"%","Q","%","q">>, Never),
     Form("weekday", "weekday", <<"%","a","%","n","%","u">>, Always),
     Form("weekday", "weekday", <<"%","a"," ","%","E","w">>, Always),
     Form("year_month", "year_month", <<"%","Y"," ","%","h","%","E","w">>, Never),
     Form("year_month", "year_month", <<"%","Y","%","t","%","h">>, Always),
     Form("year_month", "year_month", <<"%","b"," ","%","y">>, Modern)}

-----------------------------------------------------------------------------
\* Texts of versions, ranges, and what looks like a range: numbers are
\* <<"n", value, digits>>, and words and characters tokens of their own.
Num(n) == <<"n", n, IF n < 10 THEN 1 ELSE IF n < 100 THEN 2 ELSE 3>>
Ch(c) == <<"c", c>>
Word1(w) == <<"w", w>>
Triple(a, b, c) == <<Num(a), Ch("."), Num(b), Ch("."), Num(c)>>
Pre(w) == <<Ch("-"), Word1(w)>>
Dotted(n) == <<Ch("."), Num(n)>>

MCTexts ==
    {Triple(1, 2, 3), Triple(1, 2, 3) \o Pre("rc") \o Dotted(5), Triple(2, 0, 0),
     Triple(1, 2, 3) \o Pre("alpha"), Triple(255, 100, 255) \o Pre("alpha") \o Dotted(255),
     Triple(1, 2, 3) \o Pre("beta") \o Dotted(1), <<Num(1), Ch("."), Num(2)>>,
     Triple(1, 9, 256), Triple(2, 2, 2) \o <<Ch("-")>>, Triple(2, 2, 2) \o Pre("a"),
     Triple(3, 1, 1) \o Pre("z"), <<<<"n", 3, 2>>>> \o Dotted(0) \o Dotted(0),
     Triple(1, 3, 0) \o Pre("beta") \o Dotted(300)}

Than(op, a, b, c) == <<op, a, b, c, "none", 0>>
MCRanges ==
    {<<<<Than("=", 1, 2, 3)>>>>,
     <<<<Than(">", 1, 2, 3), Than("<", 2, 2, 2)>>, <<Than("=", 1, 2, 3)>>>>,
     <<<<Than("<", 1, 0, 0), Than(">", 0, 1, 0)>>, <<Than(">=", 1, 2, 3)>>>>,
     <<<<Than(">=", 1, 2, 3), Than("<=", 2, 0, 0)>>>>,
     <<<<Than("<", 1, 2, 3)>>, <<Than(">", 1, 9, 0), Than("<=", 3, 0, 0)>>>>,
     <<<<<<">", 1, 2, 3, "alpha", 0>>, Than("<", 2, 0, 0)>>>>,
     <<<<<<">=", 1, 2, 3, "rc", 5>>>>, <<Than("=", 0, 1, 0)>>>>,
     <<<<<<"<=", 1, 2, 3, "beta", 1>>, Than(">", 1, 0, 0)>>, <<Than("<", 1, 2, 3)>>,
       <<Than(">", 2, 2, 0)>>>>}
MCOddities ==
    {<<>>, <<Num(1), Ch("."), Num(2)>>, <<Ch(">")>>, <<Ch("?"), Num(1)>>,
     Triple(1, 2, 3) \o <<Ch(" "), Ch("-"), Ch(" ")>> \o Triple(2, 0, 0),
     Triple(1, 2, 3) \o Pre("a"), Triple(1, 2, 3) \o Pre("z") \o Dotted(1),
     <<<<"n", 1, 2>>>> \o Dotted(2) \o Dotted(3), Triple(1, 2, 300),
     <<Ch("<")>> \o Triple(1, 0, 0) \o <<Ch("|"), Ch("|")>>,
     <<Ch("|"), Ch("|")>> \o Triple(1, 2, 3) \o <<Ch(" "), Ch("?")>>}

-----------------------------------------------------------------------------
Guard == INSTANCE ScopeGuard
Sizes == INSTANCE ByteSizes WITH i <- suffix, at <- sizesAt
Line == INSTANCE CommandLine WITH results <- arguments, at <- appAt
Values == INSTANCE CommandLineResults
Walk == INSTANCE CalendarWalk
Dated == INSTANCE DateText WITH phase <- textPhase, at <- place, parsed <- locals
Semver == INSTANCE SemanticVersion WITH phase <- rangePhase

ASSUME VendoredAssumption ==
    /\ Guard!GuardAssumption /\ Sizes!SizesAssumption /\ Values!ResultsAssumption
    /\ Walk!CalendarAssumption /\ Anchors \subseteq MCAnchors /\ Dated!TextAssumption

guardVars == <<guards, made, calls, dismissed>>
sizesVars == <<input, bytes, suffix, shown, sizesAt, size>>
lineVars == <<grammar, given, args, stack, arguments, delivered, missing, used, parsed,
              recorded, called, appAt>>
valuesVars == <<policy, typeMin, typeMax, expectedMin, expectedMax, flagLike, validator,
                results, proc, state, sent, outcome, configured>>
walkVars == <<z, civil, dow, walked, ymd, moves, count, day, from>>
datedVars == <<object, format, textPhase, place, command, modified, negative, text,
               altered, locals, fds, result>>
semverVars == <<version, reads, lastRead, rangePhase, range, parser, include, contains,
                allow>>
vars == <<part, guardVars, sizesVars, lineVars, valuesVars, walkVars, datedVars,
          semverVars>>

AnObject == CHOOSE o \in Objects : o.kind = "date"
Parts == {"guard", "sizes", "line", "values", "walk", "dated", "semver"}
MCInit ==
    /\ part \in Parts
    /\ Guard!Init
    /\ IF part = "sizes" THEN Sizes!Init
       ELSE Sizes!Init /\ input = 0 /\ size = CHOOSE s \in ElementSizes : TRUE
    /\ Line!Init
    /\ part # "line" => grammar = "plain"
    /\ Values!Init
    /\ part # "values" => validator.kind = "none"
    /\ Walk!Init
    /\ part # "walk" => z = 0
    /\ Dated!Init
    /\ part # "dated" =>
        /\ object = AnObject
        /\ format = CHOOSE f \in Formats : f.kind = "date"
    /\ Semver!Init

InGuard(A) ==
    /\ part = "guard" /\ A
    /\ UNCHANGED <<part, sizesVars, lineVars, valuesVars, walkVars, datedVars, semverVars>>
InSizes(A) ==
    /\ part = "sizes" /\ A
    /\ UNCHANGED <<part, guardVars, lineVars, valuesVars, walkVars, datedVars, semverVars>>
InLine(A) ==
    /\ part = "line" /\ A
    /\ UNCHANGED <<part, guardVars, sizesVars, valuesVars, walkVars, datedVars, semverVars>>
InValues(A) ==
    /\ part = "values" /\ A
    /\ UNCHANGED <<part, guardVars, sizesVars, lineVars, walkVars, datedVars, semverVars>>
InWalk(A) ==
    /\ part = "walk" /\ A
    /\ UNCHANGED <<part, guardVars, sizesVars, lineVars, valuesVars, datedVars, semverVars>>
InDated(A) ==
    /\ part = "dated" /\ A
    /\ UNCHANGED <<part, guardVars, sizesVars, lineVars, valuesVars, walkVars, semverVars>>
InSemver(A) ==
    /\ part = "semver" /\ A
    /\ UNCHANGED <<part, guardVars, sizesVars, lineVars, valuesVars, walkVars, datedVars>>

MCNext ==
    \/ InGuard(Guard!Next) \/ InSizes(Sizes!Next) \/ InLine(Line!Next)
    \/ InValues(Values!Next) \/ InWalk(Walk!Next) \/ InDated(Dated!Next)
    \/ InSemver(Semver!Next)

\* parse() goes on until it returns or throws.
MCSpec == MCInit /\ [][MCNext]_vars /\ WF_lineVars(InLine(Line!Parse))

-----------------------------------------------------------------------------
\* The types of all parts.
TypesOK ==
    /\ Guard!TypeOK /\ Sizes!TypeOK /\ Line!TypeOK /\ Values!TypeOK
    /\ Walk!TypeOK /\ Dated!TypeOK /\ Semver!TypeOK

\* Callbacks of scope guards are called or dismissed exactly once; sizes are
\* printed and allocated for what they are.
HelpersTrue == Guard!ExactlyOnce /\ Sizes!PrintedTrue /\ Sizes!AllocatedEnough

\* No argument of the command line is lost or used twice.
ArgumentsKept == Line!ArgumentsKept

\* A parse that ends well has what the program asked for, a request for help
\* comes before any complaint, and a parse does not see what another has left.
ParsedIsTrue == Line!ParsedIsTrue /\ Line!HelpFirst /\ Line!StartsFresh

\* The callback of an option is sent what its policy makes of its arguments.
ResultsTrue == Values!SentIsPolicy

\* Every parse ends, and an option that is read shows what its callback is sent.
ParseAnswers == Line!ParseEnds /\ Values!ReadIsSent

\* Days, dates, weekdays and months agree with the calendar.
CalendarTrue == Walk!ConversionsTrue /\ Walk!MovesTrue /\ Walk!RoundingTrue

\* What is written as text is read back, and what is read is what the text says.
TextTrue == Dated!TextTrue

\* Versions are read back, and ranges hold what their comparators say.
VersionsTrue == Semver!VersionsTrue
===============================================================================
