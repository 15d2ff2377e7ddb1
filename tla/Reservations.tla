---------------------------- MODULE Reservations ----------------------------
(***************************************************************************)
(* What the reservation ledger promises its callers, with no versions, no  *)
(* plans and no threads: a request is granted a set of free devices at     *)
(* most once in its life, holds them exclusively, and gives all of them    *)
(* back in one step.  ServiceJobs is shown to implement this module.       *)
(***************************************************************************)
CONSTANTS Jobs,     \* the request ids that may ever ask for devices
          Devices   \* the devices of the cluster registry

VARIABLES grant,    \* grant[j]: the devices j holds now ({} when none)
          spent     \* the requests that have been granted devices already

vars == <<grant, spent>>

TypeOK ==
  /\ grant \in [Jobs -> SUBSET Devices]
  /\ spent \in SUBSET Jobs

Init ==
  /\ grant = [j \in Jobs |-> {}]
  /\ spent = {}

\* Some request other than j holds d.
Taken(j, d) == \E k \in Jobs \ {j} : d \in grant[k]

Grant(j, devs) ==
  /\ j \notin spent
  /\ devs # {}
  /\ \A d \in devs : ~Taken(j, d)
  /\ grant' = [grant EXCEPT ![j] = devs]
  /\ spent' = spent \cup {j}

GiveBack(j) ==
  /\ grant[j] # {}
  /\ grant' = [grant EXCEPT ![j] = {}]
  /\ UNCHANGED spent

Next == \E j \in Jobs : \/ \E devs \in SUBSET Devices : Grant(j, devs)
                        \/ GiveBack(j)

Spec == Init /\ [][Next]_vars
=============================================================================
