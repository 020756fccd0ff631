------------------------------ MODULE MCRollout ------------------------------
(* Rollout with two or three symmetric servers. *)
EXTENDS Rollout, TLC

Symmetry == Permutations(Servers)
=============================================================================
