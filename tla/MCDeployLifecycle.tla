-------------------------- MODULE MCDeployLifecycle --------------------------
(* DeployLifecycle with interchangeable terminate calls. *)
EXTENDS DeployLifecycle, TLC

Symmetry == Permutations(Terminators)
==============================================================================
