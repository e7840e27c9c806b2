---------------------------- MODULE StreamContract ----------------------------
(***************************************************************************)
(* What a pipeline promises the sinks at its ends.  Each sink is shown     *)
(* what the source pushed, block by block and in order; an element on the  *)
(* way may put an end of its own in place of a block.  A sink's stream     *)
(* ends at most once, nothing follows the end, and the end is its status.  *)
(***************************************************************************)
EXTENDS Naturals, Sequences

CONSTANTS
    Sinks,
    Blocks,         \* records with a field eop, "none" for a data block
    Unset           \* the status of a stream that has not ended

VARIABLES
    sent,           \* what the source has pushed
    seen,           \* what each sink has been shown
    status          \* the end that each sink's promise holds

vars == <<sent, seen, status>>

Ends == {b \in Blocks : b.eop # "none"}

Init ==
    /\ sent = <<>>
    /\ seen = [s \in Sinks |-> <<>>]
    /\ status = [s \in Sinks |-> Unset]

Push(b) ==
    /\ \A i \in DOMAIN sent : sent[i] \notin Ends
    /\ sent' = Append(sent, b)
    /\ UNCHANGED <<seen, status>>

Show(s) ==
    LET next == Len(seen[s]) + 1 IN
    /\ status[s] = Unset
    /\ next <= Len(sent)
    /\ \E b \in {sent[next]} \cup Ends :
        /\ seen' = [seen EXCEPT ![s] = Append(@, b)]
        /\ status' = [status EXCEPT ![s] = IF b \in Ends THEN b.eop ELSE Unset]
    /\ UNCHANGED sent

Next ==
    \/ \E b \in Blocks : Push(b)
    \/ \E s \in Sinks : Show(s)

Spec == Init /\ [][Next]_vars

=============================================================================
