\* Replicas that are given one service address by the KV store.
SPECIFICATION Spec
CONSTANTS
  n1 = n1
  n2 = n2
  Node <- MCNodes
  Hostname <- MCHostname
  Deployments <- AlikeConsul
  Store <- MCStore
  Edits <- AddressEdits
  MaxEdits = 1
  MaxInt = 63
  ByteFactor <- MCByteFactor
  DurationFactor <- MCDurationFactor
  DefaultMaxStackLength = 9
INVARIANTS
  ReplicaIdsDiffer
