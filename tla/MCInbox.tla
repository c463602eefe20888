------------------------------ MODULE MCInbox -------------------------------
(* The accounts are alike for what the properties of Inbox say. *)
EXTENDS Inbox, TLC

Symmetry == Permutations(Accounts)
=============================================================================
