---------------------------- MODULE MCUserAdmin ----------------------------
(***************************************************************************)
(* Small instances of UserAdmin.                                           *)
(***************************************************************************)
EXTENDS UserAdmin, TLC

\* Accounts and slots are interchangeable.
Symmetry == Permutations(Users) \cup Permutations(Requests)
===========================================================================
