\* Two replicas, an operator who edits the KV store twice, an agent that may not answer.
SPECIFICATION Spec
CONSTANTS
  n1 = n1
  n2 = n2
  Node <- MCNodes
  Hostname <- MCHostname
  Deployments <- MCDeployments
  Store <- MCStore
  Edits <- MCEdits
  MaxEdits = 2
  MaxInt = 63
  ByteFactor <- MCByteFactor
  DurationFactor <- MCDurationFactor
  DefaultMaxStackLength = 9
INVARIANTS
  TypeOK
  WithdrawnIsUnlisted
  RestartReplaces
  LimitsAreAsWritten
PROPERTIES
  BlankEntryPrevails
  OnlyNamesakesUnlist
  StartIsDecided
