------------------------------- MODULE MCQuota -------------------------------
(***************************************************************************)
(* Small instances of Quota for TLC.                                       *)
(***************************************************************************)
EXTENDS Quota, TLC

\* The grants of one user, one after the other.
OneOwner == [g \in Grants |-> CHOOSE u \in Users : TRUE]

OneCredit == [g \in Grants |-> 1]

Symmetry == Permutations(Requests) \cup Permutations(Grants)
=============================================================================
