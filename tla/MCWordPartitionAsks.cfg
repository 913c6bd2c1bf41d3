\* Two word partitions that share three peers; two replicas cover each.
SPECIFICATION FairSpec
CONSTANTS
  p1 = p1
  p2 = p2
  p3 = p3
  Peers = {p1, p2, p3}
  WordPartitions <- TwoWordPartitions
  ReplicasInOrder <- Shared
  Batches <- OneOrTwo
  AmountOfReplicasCoveringAPartition = 2
INVARIANTS
  TypeOK
  NoPeerIsAskedTwice
  UnsettledWordPartitionsAwaitACall
  SettledAsTheySay
PROPERTIES
  RunsEnd
