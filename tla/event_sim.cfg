CONSTANTS
  Requests <- MCRequests
  Clusters <- MCClusters
  Workloads <- MCWorkloads
  Unit = 6
SPECIFICATION Spec
CHECK_DEADLOCK FALSE
INVARIANTS WorkConserving FirstComeFirstServed FairShare
PROPERTY AllServed
