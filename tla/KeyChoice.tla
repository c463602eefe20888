----------------------------- MODULE KeyChoice -----------------------------
(***************************************************************************)
(* What the master key file promises to the processes that share a data    *)
(* directory: one key is chosen for ever, and every process that starts    *)
(* gets that key or an error.                                              *)
(***************************************************************************)
CONSTANTS Processes, Keys, NoKey

VARIABLES chosen, holds     \* the key of the installation, the key of each process

Init == chosen = NoKey /\ holds = [p \in Processes |-> NoKey]

Choose(k) ==
    /\ chosen = NoKey /\ chosen' = k
    /\ UNCHANGED holds

Learn(p) ==
    /\ chosen # NoKey
    /\ holds' = [holds EXCEPT ![p] = chosen]
    /\ UNCHANGED chosen

\* A process ends.
Forget(p) ==
    /\ holds' = [holds EXCEPT ![p] = NoKey]
    /\ UNCHANGED chosen

Next == (\E k \in Keys : Choose(k)) \/ (\E p \in Processes : Learn(p) \/ Forget(p))

Spec == Init /\ [][Next]_<<chosen, holds>>
=============================================================================
