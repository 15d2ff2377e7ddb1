---------------------------- MODULE MCServiceJobs ----------------------------
(* ServiceJobs on small clusters: d1 and d2 are one pool, d3 another. *)
EXTENDS ServiceJobs, TLC

CONSTANTS d1, d2, d3

TwoDevices == {d1, d2}
OnePool == {{d1, d2}}
ThreeDevices == {d1, d2, d3}
TwoPools == {{d1, d2}, {d3}}

\* Devices of one pool and threads may be renamed (safety runs only).
Symmetry == Permutations({d1, d2}) \cup Permutations(Threads)

\* So may jobs when none or all of them deploy.
JobSymmetry == Symmetry \cup Permutations(Jobs)
==============================================================================
