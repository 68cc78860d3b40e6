----------------------------- MODULE MCAccounts -----------------------------
(* Accounts with constants that are model values. *)
EXTENDS Accounts, TLC
CONSTANTS r1, r2
Symmetry == Permutations({r1, r2})
=============================================================================
