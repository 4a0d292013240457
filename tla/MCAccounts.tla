----------------------------- MODULE MCAccounts -----------------------------
(***************************************************************************)
(* Instances of Accounts for TLC.                                          *)
(***************************************************************************)
EXTENDS Accounts, TLC

\* Nothing tells requests, or emails, apart.
Symmetry == Permutations(Requests) \cup Permutations(Emails)
=============================================================================
