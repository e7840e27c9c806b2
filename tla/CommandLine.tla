------------------------------ MODULE CommandLine ------------------------------
(***************************************************************************)
(* CLI::App::parse(argc, argv), with which main of both examples reads its *)
(* command line: a tree of apps, each with options, nested subcommands and *)
(* nameless subcommands (option groups), is shown one argument after the   *)
(* other; then callbacks, help, requirements and extras are processed.     *)
(*                                                                         *)
(* The calls of _parse on top of one another are a stack.  An argument is  *)
(* a token with its place on the command line.  Values have the type size  *)
(* 1.                                                                      *)
(***************************************************************************)
EXTENDS Integers, Sequences, FiniteSets, SequencesExt

CONSTANTS
    Apps, Root, Options,
    Grammars,       \* what programs say of their apps and options, by name
    MaxArgs,        \* bound on the number of arguments
    Unlimited       \* expected_max_vector_size

None == "none"

VARIABLES
    grammar,        \* the name of this program
    given,          \* the arguments
    args,           \* those that are left, with their places
    stack,          \* the calls of _parse: the app, positional_only, and whether
                    \* _parse_single has returned true
    results,        \* results_ of each option, as the places they come from
    delivered,      \* those that its callback was last run with
    missing,        \* missing_ of each app
    used,           \* the places of names, subcommands and marks
    parsed,         \* parsed_ of each app
    recorded,       \* parsed_subcommands_ of each app
    called,         \* the apps whose final callback was run, in order
    at              \* "begin", "parse", the steps of _process, or how it ended

tree == <<results, delivered, missing, parsed, recorded>>
vars == <<grammar, given, args, stack, tree, used, called, at>>

App(a) == Grammars[grammar].app[a]
Opt(o) == Grammars[grammar].opt[o]
Subs(a) == Range(App(a).subs)
Opts(a) == Range(App(a).opts)

Errors == {"InvalidError", "ArgumentMismatch", "ExtrasError", "RequiredError",
           "RequiresError", "ExcludesError"}
Ended == at \in Errors \cup {"ok", "CallForHelp"}

\* A variable that an environment has set is a result from no place.
Environment == 0

Init ==
    /\ grammar \in DOMAIN Grammars
    /\ given = <<>>
    /\ args = <<>>
    /\ stack = <<>>
    /\ results = [o \in Options |-> <<>>]
    /\ delivered = [o \in Options |-> <<>>]
    /\ missing = [a \in Apps |-> <<>>]
    /\ used = {}
    /\ parsed = [a \in Apps |-> 0]
    /\ recorded = [a \in Apps |-> <<>>]
    /\ called = <<>>
    /\ at = "begin"

-----------------------------------------------------------------------------
(***************************************************************************)
(* The tree.                                                               *)
(***************************************************************************)
Parent(a) ==
    IF \E p \in Apps : a \in Subs(p) THEN CHOOSE p \in Apps : a \in Subs(p) ELSE None

Below[a \in Apps] == {a} \cup UNION {Below[s] : s \in Subs(a)}
Above[a \in Apps] == {a} \cup (IF Parent(a) = None THEN {} ELSE Above[Parent(a)])

\* An option group is never disabled here; _configure leaves it no fallthrough.
Groups(a) == SelectSeq(App(a).subs, LAMBDA s : ~App(s).named)
FallsThrough(a) == Parent(a) # None /\ App(a).named /\ App(a).fallthrough

\* The first ancestor that is not an option group.
FallthroughParent[a \in Apps] ==
    LET p == Parent(a)
    IN  IF p = None THEN a
        ELSE IF Parent(p) # None /\ ~App(p).named THEN FallthroughParent[p] ELSE p

\* The subcommands of an app, those in its option groups included.
Commands[a \in Apps] ==
    {s \in Subs(a) : App(s).named} \cup UNION {Commands[g] : g \in Range(Groups(a))}

\* _find_subcommand, of an argument that is a word.
Finds(a, word, ignoreUsed) == word \in Commands[a] /\ (ignoreUsed => parsed[word] = 0)

MaxReached(a) ==
    App(a).subMax # 0 /\ Len(recorded[a]) >= App(a).subMax

\* count_all
CountAll[a \in Apps] ==
    SumFunction([i \in DOMAIN App(a).opts |-> Len(results[App(a).opts[i]])])
    + SumFunction([i \in DOMAIN App(a).subs |-> CountAll[App(a).subs[i]]])
    + (IF App(a).named THEN parsed[a] ELSE 0)

\* clear(), of an app and everything below it.  (Fault: its subcommands are
\* not cleared.)
ClearedOwn(a) == {a}
Cleared(a) == Below[a]

\* An app and the option groups that are counted with it.
Incremented[a \in Apps] == {a} \cup UNION {Incremented[g] : g \in Range(Groups(a))}

-----------------------------------------------------------------------------
(***************************************************************************)
(* What an argument is taken for.                                          *)
(***************************************************************************)
WordOf(t) == IF t.kind = "word" THEN t.names[1] ELSE None

ValidSubcommand(a, word, ignoreUsed) ==
    \E p \in Above[a] : ~MaxReached(p) /\ Finds(p, word, ignoreUsed)

Recognize(a, t, ignoreUsed) ==
    CASE t.kind = "--" -> "POSITIONAL_MARK"
      [] ValidSubcommand(a, WordOf(t), ignoreUsed) -> "SUBCOMMAND"
      [] t.kind \in {"long", "short"} -> "OPTION"
      [] t.kind = "++" /\ App(a).named /\ Parent(a) # None -> "SUBCOMMAND_TERMINATOR"
      [] OTHER -> "NONE"

-----------------------------------------------------------------------------
(***************************************************************************)
(* parse(): clear what a parse before has left, and begin.                 *)
(***************************************************************************)
\* _validate: at most one positional may be unlimited, or one more with a
\* requirement, and enough options must exist.
Valid(a) ==
    LET many == {o \in Opts(a) : Opt(o).positional /\ Opt(o).names = {}
                                 /\ Opt(o).max = Unlimited}
        optional == {o \in many : ~Opt(o).required}
    IN  /\ Cardinality(many) > 1 => Cardinality(optional) <= 1
        /\ App(a).optMin > 0 =>
                /\ App(a).optMax > 0 => App(a).optMin <= App(a).optMax
                /\ App(a).optMin <= Len(App(a).opts) + Len(Groups(a))

Begin ==
    /\ at = "begin" \/ Ended
    /\ LET cleared == IF parsed[Root] > 0 THEN Cleared(Root) ELSE {}
           emptied == UNION {Opts(a) : a \in cleared}
       IN  /\ results' = [o \in Options |-> IF o \in emptied THEN <<>> ELSE results[o]]
           /\ delivered' = [o \in Options |-> IF o \in emptied THEN <<>> ELSE delivered[o]]
           /\ missing' = [a \in Apps |-> IF a \in cleared THEN <<>> ELSE missing[a]]
           /\ recorded' = [a \in Apps |-> IF a \in cleared THEN <<>> ELSE recorded[a]]
           /\ IF \A a \in Apps : Valid(a)
              THEN /\ parsed' = [a \in Apps |-> IF a \in cleared \cup {Root} THEN 0 ELSE parsed[a]]
                   /\ at' = "given"
              ELSE /\ parsed' = [a \in Apps |-> IF a = Root THEN 1
                                                ELSE IF a \in cleared THEN 0 ELSE parsed[a]]
                   /\ at' = "InvalidError"
    /\ given' = <<>>
    /\ used' = {}
    /\ called' = <<>>
    /\ args' = <<>>
    /\ stack' = <<>>
    /\ UNCHANGED grammar

Frame(a) == [app |-> a, only |-> FALSE, open |-> TRUE, by |-> None]

\* _parse of the root is called with the arguments of a command line.
Give ==
    /\ at = "given"
    /\ \E n \in 0 .. MaxArgs : given' \in [1 .. n -> Grammars[grammar].tokens]
    /\ args' = [i \in DOMAIN given' |-> [place |-> i, token |-> given'[i]]]
    /\ stack' = <<Frame(Root)>>
    /\ parsed' = [a \in Apps |-> IF a \in Incremented[Root] THEN parsed[a] + 1 ELSE parsed[a]]
    /\ at' = "parse"
    /\ UNCHANGED <<grammar, results, delivered, missing, recorded, used, called>>

-----------------------------------------------------------------------------
(***************************************************************************)
(* _parse_single, of the call on top.                                      *)
(***************************************************************************)
Top == stack[Len(stack)]
Next1 == args[1]        \* args.back()
Class == IF Top.only THEN "NONE" ELSE Recognize(Top.app, Next1.token, TRUE)

Parsing(class) ==
    /\ at = "parse"
    /\ Top.open
    /\ args # <<>>
    /\ Class = class

\* The result of _parse_single is false: the call returns, but not the root's.
Close == stack' = [stack EXCEPT ![Len(stack)].open = (Top.app = Root)]

Throw(error) ==
    /\ at' = error
    /\ UNCHANGED <<args, stack, tree, used>>

\* Where _move_to_missing puts an argument.
MissingAt(a) ==
    IF App(a).extras \/ App(a).subs = <<>> \/ \A g \in Range(Groups(a)) : ~App(g).extras
    THEN a
    ELSE Groups(a)[SelectInSeq(Groups(a), LAMBDA g : App(g).extras)]

Missed(a) == missing' = [missing EXCEPT ![MissingAt(a)] = Append(@, Next1)]

\* What required positionals still need, when r are the results.
Lacks(o, r) == IF Len(r[o]) < Opt(o).min THEN Opt(o).min - Len(r[o]) ELSE 0
Remaining(a, r) ==
    SumFunction([i \in DOMAIN App(a).opts |->
        LET o == App(a).opts[i]
        IN  IF Opt(o).positional /\ Opt(o).required THEN Lacks(o, r) ELSE 0])

PositionalMark ==
    /\ Parsing("POSITIONAL_MARK")
    /\ args' = Tail(args)
    /\ IF /\ \A o \in Opts(Top.app) : Opt(o).positional => Lacks(o, results) = 0
          /\ Top.app # Root
       THEN /\ stack' = [stack EXCEPT ![Len(stack)].only = TRUE, ![Len(stack)].open = FALSE]
            /\ used' = used \cup {Next1.place}
            /\ UNCHANGED missing
       ELSE /\ stack' = [stack EXCEPT ![Len(stack)].only = TRUE]
            /\ Missed(Top.app)
            /\ UNCHANGED used
    /\ UNCHANGED <<grammar, given, results, delivered, parsed, recorded, called, at>>

Terminator ==
    /\ Parsing("SUBCOMMAND_TERMINATOR")
    /\ args' = Tail(args)
    /\ used' = used \cup {Next1.place}
    /\ Close
    /\ UNCHANGED <<grammar, given, tree, called, at>>

-----------------------------------------------------------------------------
(***************************************************************************)
(* A subcommand's _parse is called.                                        *)
(***************************************************************************)
Places(o) == Range(results[o])

\* A subcommand with an immediate callback forgets what an earlier call of it
\* has parsed, but for what it did not understand and its count.
\* (Fault: what it did not understand is forgotten too.)
Forgotten(s) == IF App(s).immediate /\ parsed[s] > 0 THEN Below[s] ELSE {}
UnkeptAll(s) == Forgotten(s)
Unkept(s) == Forgotten(s) \ {s}

\* It is called by the app `by`, or by nobody who records it.
Enter(s, by) ==
    LET forgotten == Forgotten(s)
        emptied == UNION {Opts(a) : a \in forgotten}
    IN  /\ args' = Tail(args)
        /\ results' = [o \in Options |-> IF o \in emptied THEN <<>> ELSE results[o]]
        /\ delivered' = [o \in Options |-> IF o \in emptied THEN <<>> ELSE delivered[o]]
        /\ missing' = [a \in Apps |-> IF a \in Unkept(s) THEN <<>> ELSE missing[a]]
        /\ parsed' = [a \in Apps |->
                        IF a \in forgotten \ {s} THEN 0
                        ELSE IF a \in Incremented[s] THEN parsed[a] + 1 ELSE parsed[a]]
        /\ recorded' = [a \in Apps |->
                        IF a \in forgotten THEN <<>>
                        ELSE IF a = by /\ ~App(s).silent THEN Append(recorded[a], s)
                        ELSE recorded[a]]
        /\ used' = used \cup {Next1.place} \cup UNION {Places(o) : o \in emptied}
                        \cup UNION {{m.place : m \in Range(missing[a])} : a \in forgotten \ {s}}
        /\ stack' = Append([stack EXCEPT ![Len(stack)].only = @ \/ (by = None /\ App(Top.app).atEnd)],
                           [Frame(s) EXCEPT !.by = by])

-----------------------------------------------------------------------------
(***************************************************************************)
(* _parse_positional.                                                      *)
(***************************************************************************)
\* The positional of the app itself that takes the argument.
Takes(a) ==
    LET last(o) == /\ App(a).atEnd /\ Len(args) <= Remaining(a, results)
                   /\ Opt(o).positional /\ Opt(o).required /\ Lacks(o, results) > 0
        open(o) == Opt(o).positional /\ (Lacks(o, results) > 0 \/ Opt(o).extra)
        late == SelectInSeq(App(a).opts, last)
        early == SelectInSeq(App(a).opts, open)
    IN  IF late # 0 THEN App(a).opts[late]
        ELSE IF early # 0 THEN App(a).opts[early] ELSE None

\* The parent will find a subcommand there and may call it.  (Fault: whether it
\* may is not asked.)
ParentFinds(a, word) == Finds(FallthroughParent[a], word, FALSE)
ParentMayTake(a, word) ==
    Finds(FallthroughParent[a], word, FALSE) /\ ~MaxReached(Parent(word))

Decided(what, a, o) == [what |-> what, app |-> a, opt |-> o]
False == Decided("false", None, None)

\* What the call for an app comes to; it may be told to halt on a subcommand.
Decision[c \in Apps \X BOOLEAN] ==
    LET a == c[1]
        word == WordOf(Next1.token)
        own == Takes(a)
        byGroups == SelectInSeq(Groups(a), LAMBDA g : Decision[<<g, FALSE>>] # False)
    IN  IF own # None THEN Decided("option", a, own)
        ELSE IF byGroups # 0 THEN Decision[<<Groups(a)[byGroups], FALSE>>]
        ELSE IF FallsThrough(a) THEN Decision[<<FallthroughParent[a], App(a).complete>>]
        ELSE IF Finds(a, word, FALSE) /\ ~MaxReached(a)
             THEN IF c[2] THEN False ELSE Decided("again", word, None)
        ELSE IF ParentMayTake(a, word) THEN False
        ELSE IF App(a).atEnd THEN Decided("error", a, None)
        ELSE IF Parent(a) # None /\ ~App(a).named THEN False
        ELSE Decided("missing", a, None)

\* positionals_at_end: after one of them nothing else is looked for.
OnlyIfAtEnd == stack' = [stack EXCEPT ![Len(stack)].only = @ \/ App(Top.app).atEnd]

\* A result is added; an option that is triggered on parsing forgets the last
\* one first, and has its callback run at once.
AddResults(o, places) ==
    LET kept == IF Opt(o).trigger THEN <<>> ELSE results[o]
    IN  /\ results' = [results EXCEPT ![o] = kept \o places]
        /\ delivered' = IF Opt(o).trigger THEN [delivered EXCEPT ![o] = places] ELSE delivered

Forget(o) == IF Opt(o).trigger THEN Places(o) ELSE {}

TakePositional(d) ==
    \/ /\ d.what = "option"
       /\ AddResults(d.opt, <<Next1.place>>)
       /\ used' = used \cup Forget(d.opt)
       /\ args' = Tail(args)
       /\ OnlyIfAtEnd
       /\ UNCHANGED <<missing, parsed, recorded, at>>
    \/ /\ d.what = "again"
       /\ Enter(d.app, None)
       /\ UNCHANGED at
    \/ /\ d.what = "missing"
       /\ LET moved == IF App(d.app).prefix THEN args ELSE <<Next1>>
          IN  /\ missing' = [missing EXCEPT ![MissingAt(d.app)] = @ \o moved]
              /\ args' = SubSeq(args, Len(moved) + 1, Len(args))
       /\ OnlyIfAtEnd
       /\ UNCHANGED <<results, delivered, parsed, recorded, used, at>>
    \/ /\ d.what = "false"
       /\ Close
       /\ UNCHANGED <<args, tree, used, at>>
    \/ /\ d.what = "error"
       /\ Throw("ExtrasError")

Positional ==
    /\ Parsing("NONE")
    /\ \E d \in {Decision[<<Top.app, FALSE>>]} : TakePositional(d)
    /\ UNCHANGED <<grammar, given, called>>

-----------------------------------------------------------------------------
(***************************************************************************)
(* _parse_subcommand.                                                      *)
(***************************************************************************)
Subcommand ==
    /\ Parsing("SUBCOMMAND")
    /\ LET word == WordOf(Next1.token)
           d == Decided("option", Top.app, Takes(Top.app))
       IN  \/ /\ Remaining(Top.app, results) > 0
              /\ AddResults(d.opt, <<Next1.place>>)
              /\ used' = used \cup Forget(d.opt)
              /\ args' = Tail(args)
              /\ UNCHANGED <<stack, missing, parsed, recorded>>
           \/ /\ Remaining(Top.app, results) = 0
              /\ Finds(Top.app, word, TRUE)
              /\ Enter(word, Top.app)
           \/ /\ Remaining(Top.app, results) = 0
              /\ ~Finds(Top.app, word, TRUE)
              /\ Close
              /\ UNCHANGED <<args, tree, used>>
    /\ UNCHANGED <<grammar, given, called, at>>

-----------------------------------------------------------------------------
(***************************************************************************)
(* _parse_arg.                                                             *)
(***************************************************************************)
\* Whose option a name is, from an app's point of view.
Resolution(name) ==
    LET R[a \in Apps] ==
            LET own == SelectInSeq(App(a).opts, LAMBDA o : name \in Opt(o).names)
                byGroups == SelectInSeq(Groups(a), LAMBDA g : R[g] # False)
            IN  IF own # 0 THEN Decided("option", a, App(a).opts[own])
                ELSE IF byGroups # 0 THEN R[Groups(a)[byGroups]]
                ELSE IF Parent(a) # None /\ ~App(a).named THEN False
                ELSE IF FallsThrough(a) THEN R[FallthroughParent[a]]
                ELSE Decided("missing", a, None)
    IN  R

\* At most so many values follow a name; an unlimited option that takes no
\* extra arguments is held to its minimum.
MaxNum(o) ==
    IF Opt(o).max >= Unlimited /\ ~Opt(o).extra THEN Opt(o).min ELSE Opt(o).max

Must(o, with) == IF Opt(o).min > 0 /\ ~with THEN 1 ELSE 0

\* The arguments behind the name that an option of app a eats: as many as it
\* must, whatever they look like, then those that look like values, while the
\* positionals that are required have enough.
Eaten(a, o, with) ==
    LET rest == Tail(args)
        must == Must(o, with)
        lacking == Remaining(a, [results EXCEPT ![o] = @ \o SubSeq(<<0>>, 1, must)])
        stops(i) ==
            \/ i > Len(rest)
            \/ i + (IF with THEN 1 ELSE 0) > MaxNum(o) /\ ~Opt(o).extra
            \/ Recognize(a, rest[i].token, FALSE) # "NONE"
            \/ Len(rest) - i + 1 <= lacking
    IN  IF must > Len(rest) THEN must
        ELSE CHOOSE n \in must .. Len(rest) :
                stops(n + 1) /\ \A i \in must + 1 .. n : ~stops(i)

TakeOption(a, o) ==
    LET t == Next1.token
        flag == MaxNum(o) = 0
        cluster == t.kind = "short" /\ Len(t.names) > 1
        with == ~flag /\ (t.value \/ cluster)
        eaten == Eaten(a, o, with)
        left == SubSeq(args, eaten + 2, Len(args))
        optional == MaxNum(o) > Must(o, with) + (IF with THEN 1 ELSE 0) \/ Opt(o).extra
        mark == optional /\ left # <<>> /\ left[1].token.kind = "--"
        itself == flag \/ with \/ eaten = 0
    IN  IF eaten > Len(args) - 1
        THEN Throw("ArgumentMismatch") /\ UNCHANGED <<missing, parsed, recorded>>
        ELSE /\ AddResults(o, (IF itself THEN <<Next1.place>> ELSE <<>>)
                              \o [i \in 1 .. eaten |-> args[i + 1].place])
             /\ args' = (IF flag /\ cluster
                         THEN <<[Next1 EXCEPT !.token.names = Tail(@)]>> ELSE <<>>)
                        \o (IF mark THEN Tail(left) ELSE left)
             /\ used' = used \cup Forget(o) \cup (IF itself THEN {} ELSE {Next1.place})
                             \cup (IF mark THEN {left[1].place} ELSE {})
             /\ UNCHANGED <<stack, missing, parsed, recorded, at>>

Option ==
    /\ Parsing("OPTION")
    /\ \E d \in {Resolution(Next1.token.names[1])[Top.app]} :
          \/ /\ d.what = "option"
              /\ TakeOption(d.app, d.opt)
           \/ /\ d.what = "missing"
              /\ missing' = [missing EXCEPT ![MissingAt(d.app)] = Append(@, Next1)]
              /\ args' = Tail(args)
              /\ UNCHANGED <<stack, results, delivered, parsed, recorded, used, at>>
    /\ UNCHANGED <<grammar, given, called>>

-----------------------------------------------------------------------------
(***************************************************************************)
(* What follows the arguments: the environment, callbacks, help, and the   *)
(* requirements, of the whole tree or of a subcommand that is complete.    *)
(***************************************************************************)
\* _process_env.
Consulted[a \in Apps] ==
    {a} \cup UNION {Consulted[s] : s \in {b \in Subs(a) :
                ~App(b).named \/ (CountAll[b] > 0 /\ ~App(b).complete)}}

WithEnvironment(a) ==
    [o \in Options |->
        IF /\ o \in UNION {Opts(b) : b \in Consulted[a]}
           /\ results[o] = <<>> /\ Opt(o).env
        THEN <<Environment>> ELSE results[o]]

\* _process_callbacks: those of an app and of what is not complete on its own.
\* (Fault: subcommands are left out.)
Incomplete[a \in Apps] ==
    {a} \cup UNION {Incomplete[s] : s \in {b \in Subs(a) : ~App(b).complete}}
CalledBackOwn(a) == Opts(a)
CalledBack(a) == UNION {Opts(b) : b \in Incomplete[a]}

\* _process_help_flags.
AsksForHelp ==
    LET H[c \in Apps \X BOOLEAN] ==
            LET asked == c[2] \/ \E o \in Opts(c[1]) : Opt(o).help /\ results[o] # <<>>
            IN  IF recorded[c[1]] = <<>> THEN asked
                ELSE \E s \in Range(recorded[c[1]]) : H[<<s, asked>>]
    IN  H

\* _process_requirements, of one option, and of an app and what is below it;
\* an option group that nothing was given to may be let off.
OptionError(o) ==
    IF Opt(o).required /\ results[o] = <<>> THEN "RequiredError"
    ELSE IF results[o] = <<>> THEN None
    ELSE IF \E n \in Opt(o).needs : results[n] = <<>> THEN "RequiresError"
    ELSE IF \E n \in Opt(o).excludes : results[n] # <<>> THEN "ExcludesError"
    ELSE None

UsedOptions(a) ==
    Cardinality({o \in Opts(a) : results[o] # <<>>})
    + Cardinality({g \in Range(Groups(a)) : CountAll[g] > 0})

LetOff(a, s) ==
    /\ ~App(s).named /\ ~App(s).required /\ CountAll[s] = 0
    /\ \/ App(a).optMin > 0 /\ App(a).optMin <= UsedOptions(a)
       \/ App(a).optMax > 0 /\ App(a).optMin <= UsedOptions(a)

FirstError(errors) ==
    LET failing == SelectSeq(errors, LAMBDA e : e # None)
    IN  IF failing = <<>> THEN None ELSE failing[1]

RequirementsError[a \in Apps] ==
    LET own == [i \in DOMAIN App(a).opts |-> OptionError(App(a).opts[i])]
        few == \/ App(a).subMin > Len(recorded[a])
               \/ App(a).optMin > UsedOptions(a)
               \/ App(a).optMax > 0 /\ App(a).optMax < UsedOptions(a)
        of(s) == IF LetOff(a, s) THEN None
                 ELSE FirstError(<<IF parsed[s] > 0 \/ ~App(s).named
                                   THEN RequirementsError[s] ELSE None,
                                   IF App(s).required /\ CountAll[s] = 0
                                   THEN "RequiredError" ELSE None>>)
    IN  FirstError(own \o <<IF few THEN "RequiredError" ELSE None>>
                       \o [i \in DOMAIN App(a).subs |-> of(App(a).subs[i])])

\* _process_extras.
ExtrasError[a \in Apps] ==
    \/ /\ ~App(a).extras /\ ~App(a).prefix
       /\ \E m \in Range(missing[a]) : m.token.kind # "--"
    \/ \E s \in Subs(a) : parsed[s] > 0 /\ ExtrasError[s]

\* run_callback: the final callbacks, in their order.  An app that has been
\* completed has none.
FinalCallbacks[a \in Apps] ==
    FlattenSeq([i \in DOMAIN recorded[a] |->
                    IF Parent(recorded[a][i]) = a
                    THEN FinalCallbacks[recorded[a][i]] ELSE <<>>])
    \o FlattenSeq([i \in DOMAIN Groups(a) |->
                    IF CountAll[Groups(a)[i]] > 0
                    THEN FinalCallbacks[Groups(a)[i]] ELSE <<>>])
    \o (IF /\ ~App(a).complete /\ parsed[a] > 0
           /\ App(a).named \/ CountAll[a] > 0 \/ a = Root
        THEN <<a>> ELSE <<>>)

\* The arguments of the call on top are at their end, or were refused.
Over == at = "parse" /\ (args = <<>> \/ ~Top.open)

\* The groups between an app and a subcommand that it called have called it too.
Between(by, s) ==
    IF by = None \/ App(s).silent THEN {} ELSE Above[s] \ (Above[by] \cup {s})

Return ==
    /\ Over
    /\ Top.app # Root
    /\ ~App(Top.app).complete
    /\ stack' = Front(stack)
    /\ recorded' = [a \in Apps |-> IF a \in Between(Top.by, Top.app)
                                   THEN Append(recorded[a], Top.app) ELSE recorded[a]]
    /\ UNCHANGED <<grammar, given, args, results, delivered, missing, used, parsed,
                   called, at>>

\* A subcommand with a parse_complete_callback, and the whole, are processed.
Processed ==
    /\ Over
    /\ Top.app = Root \/ App(Top.app).complete
    /\ results' = WithEnvironment(Top.app)
    /\ delivered' = [o \in Options |->
                        IF o \in CalledBack(Top.app) THEN results'[o] ELSE delivered[o]]
    /\ at' = "help"
    /\ UNCHANGED <<grammar, given, args, stack, missing, used, parsed, recorded, called>>

HelpFlags ==
    /\ at = "help"
    /\ at' = IF AsksForHelp[<<Top.app, FALSE>>] THEN "CallForHelp" ELSE "requirements"
    /\ UNCHANGED <<grammar, given, args, stack, tree, used, called>>

Requirements ==
    /\ at = "requirements"
    /\ \E error \in {RequirementsError[Top.app]} :
        at' = IF error # None THEN error
              ELSE IF Top.app # Root THEN "complete"
              ELSE IF ExtrasError[Root] THEN "ExtrasError" ELSE "callbacks"
    /\ UNCHANGED <<grammar, given, args, stack, tree, used, called>>

\* The callback of a subcommand that is complete; then it returns.
Complete ==
    /\ at = "complete"
    /\ at' = "parse"
    /\ called' = Append(called, Top.app)
    /\ stack' = Front(stack)
    /\ recorded' = [a \in Apps |-> IF a \in Between(Top.by, Top.app)
                                   THEN Append(recorded[a], Top.app) ELSE recorded[a]]
    /\ UNCHANGED <<grammar, given, args, results, delivered, missing, used, parsed>>

RunCallbacks ==
    /\ at = "callbacks"
    /\ at' = "ok"
    /\ called' = called \o FinalCallbacks[Root]
    /\ UNCHANGED <<grammar, given, args, stack, tree, used>>

Parse == PositionalMark \/ Terminator \/ Subcommand \/ Option \/ Positional
         \/ Return \/ Processed \/ HelpFlags \/ Requirements \/ Complete \/ RunCallbacks

Next ==
    \/ Begin
    \/ Give
    \/ Parse

Spec == Init /\ [][Next]_vars /\ WF_vars(Parse)

-----------------------------------------------------------------------------
\* Types.
TypeOK ==
    /\ grammar \in DOMAIN Grammars
    /\ \A o \in Options : Places(o) \cup Range(delivered[o]) \subseteq 0 .. MaxArgs
    /\ \A a \in Apps :
        /\ \A m \in Range(missing[a]) : m.place \in DOMAIN given
        /\ parsed[a] \in 0 .. MaxArgs + 1
        /\ Range(recorded[a]) \subseteq Below[a] \ {a}
    /\ \A f \in Range(stack) : f.app \in Apps /\ f.by \in Apps \cup {None}
    /\ used \subseteq 0 .. MaxArgs
    /\ Len(args) <= Len(given)
    /\ Range(called) \subseteq Apps
    /\ \/ Ended
       \/ at \in {"begin", "given", "parse", "help", "requirements", "complete", "callbacks"}

\* Where an argument has come to rest.
Homes(i) ==
    {o \in Options : i \in Places(o)}
    \cup {a \in Apps : \E m \in Range(missing[a]) : m.place = i}
    \cup (IF i \in used THEN {"used"} ELSE {})

Increasing(places) == \A i, j \in DOMAIN places : i < j => places[i] < places[j]

\* Whatever calls of _parse the arguments went through, and whichever app or
\* group took them (an option eats what follows it, a name falls through, a
\* word is handed from a group to its parent): when parsing ends well, each one
\* is a result of one option, is left over in one app, or has served as a name,
\* a subcommand or a mark; and results and leftovers are in order.
ArgumentsKept ==
    at = "ok" =>
        /\ \A i \in DOMAIN given :
            \/ Cardinality(Homes(i)) = 1
            \/ given[i].kind = "short" /\ Len(given[i].names) > 1 /\ Homes(i) # {}
        /\ \A o \in Options : Increasing(results[o])
        /\ \A a \in Apps : Increasing([i \in DOMAIN missing[a] |-> missing[a][i].place])

\* A subcommand that was called through those that record their calls.
Reached(a) ==
    \A b \in Above[a] \ {Root} : App(b).named => \E p \in Apps : b \in Range(recorded[p])

\* When parse() returns: the callback of every option was last run with all of
\* its results, wherever in the tree the option is and whenever its subcommand
\* was completed; no requirement of an option that was used is open; every
\* subcommand that was called has had its callback run, and no final callback
\* was run twice, though a subcommand of a group is recorded twice.
ParsedIsTrue ==
    at = "ok" =>
        /\ \A o \in Options : results[o] # <<>> => delivered[o] = results[o]
        /\ \A o \in Options : results[o] # <<>> =>
            /\ \A n \in Opt(o).needs : results[n] # <<>>
            /\ \A e \in Opt(o).excludes : results[e] = <<>>
        /\ \A a \in Apps :
            App(a).named /\ parsed[a] > 0 /\ Reached(a) => a \in Range(called)
        /\ \A i, j \in DOMAIN called :
            called[i] = called[j] /\ ~App(called[i]).complete => i = j

\* parse() may be called again, after it returned or threw, and begins with
\* nothing of what it has parsed before.
StartsFresh ==
    at = "given" =>
        /\ \A o \in Options : results[o] = <<>> /\ delivered[o] = <<>>
        /\ \A a \in Apps : missing[a] = <<>> /\ recorded[a] = <<>> /\ parsed[a] = 0

\* A request for help that the whole program has understood is answered, and
\* not by a complaint about what is missing or left over.
HelpFirst ==
    /\ at \in {"RequiredError", "RequiresError", "ExcludesError", "ExtrasError"}
    /\ Top.app = Root /\ args = <<>>
    => \A o \in Opts(Root) : Opt(o).help => results[o] = <<>>

\* parse() comes to an end: the root's loop goes on when a call has refused an
\* argument, and one of them must take it.
ParseEnds == at = "parse" ~> Ended
================================================================================
