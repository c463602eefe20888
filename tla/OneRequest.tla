----------------------------- MODULE OneRequest -----------------------------
(***************************************************************************)
(* What a pane that loads promises to the user, as if its last request     *)
(* were the only one that was ever sent: it says that it is loading until  *)
(* that request ends, and then shows its answer or an error.  Requests     *)
(* that were superseded do not exist here.                                 *)
(***************************************************************************)
CONSTANTS Questions, Nothing

VARIABLES asked, loading, failed, pane   \* the question under way, the flags, what is shown

state == <<asked, loading, failed, pane>>

Init ==
    /\ asked \in {{}} \cup {{q} : q \in Questions}
    /\ loading = (asked # {}) /\ failed = FALSE
    /\ pane \in Questions \cup {Nothing}

\* A new question replaces the one under way.
Ask(q) ==
    /\ asked' = {q} /\ loading' = TRUE /\ failed' = FALSE
    /\ pane' \in {pane, Nothing}

\* The answer to the last question, and to no other.
Show ==
    /\ asked # {} /\ asked' = {} /\ loading' = FALSE
    /\ pane' \in asked
    /\ UNCHANGED failed

Fail ==
    /\ asked # {} /\ asked' = {} /\ loading' = FALSE
    /\ failed' = TRUE /\ pane' \in {pane, Nothing}

\* The user goes back, and no answer is expected.
Cancel == asked' = {} /\ loading' = FALSE /\ failed' = FALSE /\ pane' = Nothing

\* The pane is emptied while its question, if any, stays; an error may go.
Clear ==
    /\ pane' \in {pane, Nothing} /\ failed' \in {failed, FALSE}
    /\ UNCHANGED <<asked, loading>>

\* An error of something else is shown here.
Alarm == failed' = TRUE /\ UNCHANGED <<asked, loading, pane>>

Next ==
    \/ UNCHANGED state
    \/ Show \/ Fail \/ Cancel \/ Clear \/ Alarm
    \/ \E q \in Questions : Ask(q)

Spec == Init /\ [][Next]_state
=============================================================================
