-------------------------------- MODULE Door --------------------------------
(***************************************************************************)
(* What signing in promises to the administrator, without requests, tabs,  *)
(* cookies, counts or blocks: one setup; sessions that are given once each *)
(* and end for good; and no password looked at for an address that has     *)
(* guessed wrong Limit times since its last respite.                       *)
(***************************************************************************)
EXTENDS Naturals

CONSTANT Limit

VARIABLES
    owner,           \* is there an administrator
    live, given,     \* the sessions that last, and how many were given
    wrong, inside    \* wrong guesses since the last respite, guesses being looked at

state == <<owner, live, given, wrong, inside>>
sessions == <<owner, live, given>>

\* Somebody may have set up and signed in before we look.
Init ==
    /\ owner \in BOOLEAN /\ given \in {0, 1} /\ (given = 1 => owner)
    /\ live \subseteq 1 .. given
    /\ wrong = 0 /\ inside = 0

\* A session nobody had before.
Give == given' = given + 1 /\ live' = live \cup {given'}

SetUp ==
    /\ ~owner /\ owner' = TRUE /\ Give
    /\ UNCHANGED <<wrong, inside>>

\* A guess is let in.
Enter ==
    /\ wrong < Limit /\ inside' = inside + 1
    /\ UNCHANGED <<wrong, sessions>>

TurnAway ==
    /\ inside > 0 /\ inside' = inside - 1 /\ wrong' = wrong + 1
    /\ UNCHANGED sessions

Admit ==
    /\ owner /\ inside > 0 /\ inside' = inside - 1 /\ wrong' = 0
    /\ Give /\ UNCHANGED owner

\* Guesses whose connection is lost are forgotten.
Abandon == inside' \in 0 .. inside /\ UNCHANGED <<wrong, sessions>>

End(s) == live' = live \ {s} /\ UNCHANGED <<owner, given, wrong, inside>>

\* Time passes for the address.
Respite == wrong' = 0 /\ UNCHANGED <<inside, sessions>>

Next ==
    \/ SetUp \/ Enter \/ TurnAway \/ Admit \/ Abandon \/ Respite
    \/ \E s \in live : End(s)

Spec == Init /\ [][Next]_state
=============================================================================
