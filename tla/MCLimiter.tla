----------------------------- MODULE MCLimiter -----------------------------
(***************************************************************************)
(* An instance of Limiter for TLC.                                         *)
(***************************************************************************)
EXTENDS Limiter, TLC

Symmetry == Permutations(Clients) \cup Permutations(Systems)
=============================================================================
