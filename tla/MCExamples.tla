------------------------------- MODULE MCExamples -------------------------------
(***************************************************************************)
(* The two example programs.  A behaviour is one of Source.cpp or one of   *)
(* Simple.cpp; the other program has not begun.                            *)
(***************************************************************************)
EXTENDS SourceExample

VARIABLES
    program,                            \* "source" or "simple"
    simpleMain, cancel, pushedAtCancel  \* of SimpleExample

Simple == INSTANCE SimpleExample WITH main <- simpleMain

ASSUME SimpleAssumption == Simple!SimpleAssumption

sourceOnly == <<main, run, flag, stopFlag, pushedAtHalt, dangling>>
simpleOnly == <<simpleMain, cancel, pushedAtCancel>>
allVars == <<program, sourceOnly, simpleOnly, pipeline, memory, sigint>>

MCInit ==
    \/ /\ program = "source"
       /\ Init
       /\ simpleMain = "begin" /\ cancel = FALSE /\ pushedAtCancel = NumBlocks
    \/ /\ program = "simple"
       /\ Simple!Init
       /\ main = "begin" /\ run = "none" /\ flag = 0 /\ stopFlag = 0
       /\ pushedAtHalt = NumBlocks /\ dangling = FALSE

InSource(A) == program = "source" /\ A /\ UNCHANGED <<simpleOnly, program>>
InSimple(A) == program = "simple" /\ A /\ UNCHANGED <<sourceOnly, program>>

MCNext == InSource(Next) \/ InSimple(Simple!Next)

\* The fairness of the program that runs.
MCFairness ==
    /\ WF_allVars(InSource(Running /\ MainStep))
    /\ WF_allVars(InSource(Running /\ SourceStep))
    /\ WF_allVars(InSource(Running /\ BufferStep))
    /\ WF_allVars(InSimple(Simple!Running /\ Simple!MainStep))
    /\ WF_allVars(InSimple(Simple!Running /\ Simple!BufferStep))

MCSpec == MCInit /\ [][MCNext]_allVars /\ MCFairness

-----------------------------------------------------------------------------
\* The types of the program that runs.
TypesOK ==
    /\ program = "source" => TypeOK
    /\ program = "simple" => Simple!TypeOK

\* wait() returns while the buffer's thread is still inside the pipeline; main
\* drops its references, the source's thread drops its own: nothing is destroyed
\* under a thread that uses it, whoever is last.
NothingUsedAfterDestroy ==
    /\ program = "source" => NoUseAfterDestroy
    /\ program = "simple" => Simple!NoUseAfterDestroy

\* What the programs learn from the sink is true of the stream: the status of
\* a stream that was stopped or cancelled, and that all that was pushed before
\* an interrupt has been processed when main goes on.
OutcomeIsTrue ==
    /\ program = "source" => StatusIsTrue
    /\ program = "simple" => Simple!WaitedForAll

\* stop(), cancel() and an interrupt end the stream with the block that is
\* being pushed.
InterruptTakesEffect ==
    /\ program = "source" => HaltTakesEffect
    /\ program = "simple" => Simple!CancelTakesEffect

\* When main returns, every object is destroyed and every thread has ended.
AllDestroyed ==
    /\ program = "source" => NothingLeft
    /\ program = "simple" => Simple!NothingLeft

\* The programs end, interrupted or not: every push, the sink's wait and the
\* joins in the destructors return.
ProgramsEnd == <>(IF program = "source" THEN ~Running ELSE ~Simple!Running)
===============================================================================
