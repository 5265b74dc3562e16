------------------------- MODULE MCAccountCreation -------------------------
(***************************************************************************)
(* Small instances of AccountCreation for TLC.                             *)
(***************************************************************************)
EXTENDS AccountCreation, TLC

\* Requests, handles and pairs are interchangeable.
Symmetry ==
  Permutations(Requests) \cup Permutations(Handles) \cup Permutations(Pairs)
=============================================================================
