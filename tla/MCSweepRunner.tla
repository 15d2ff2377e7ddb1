---------------------------- MODULE MCSweepRunner ----------------------------
(* SweepRunner on small candidate spaces. *)
EXTENDS SweepRunner, TLC

Symmetry == Permutations(Configs)
==============================================================================
