------------------------------ MODULE MCAccess ------------------------------
(* Access for TLC: handlers, credentials and secrets are interchangeable. *)
EXTENDS Access, TLC

Symmetry ==
    Permutations(Handlers) \cup Permutations(Credentials) \cup Permutations(Secrets)
=============================================================================
