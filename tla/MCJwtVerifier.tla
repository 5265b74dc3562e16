---------------------------- MODULE MCJwtVerifier ----------------------------
(***************************************************************************)
(* Small instances of JwtVerifier for TLC.                                 *)
(***************************************************************************)
EXTENDS JwtVerifier, TLC

Symmetry == Permutations(Threads)
=============================================================================
