------------------------------- MODULE MCLinks -------------------------------
(***************************************************************************)
(* A small instance of Links: any TCX program is like any other.           *)
(***************************************************************************)
EXTENDS Links, TLC

Symmetry == Permutations(TCX)
=============================================================================
