----------------------------- MODULE MCMonitors -----------------------------
(* Monitors for TLC: accounts and calls are interchangeable. *)
EXTENDS Monitors, TLC

Symmetry == Permutations(Accounts) \cup Permutations(Clients)
NoHistory == <<process, monitor, calls, disk, late>>
=============================================================================
