SPECIFICATION Spec
CONSTANTS
  N = 2
  Resource = {"cpu"}
  None = None
  Template <- PreemptionTemplates
  Plugin <- KubePlugin
  Clusters <- PreemptionClusters
  Batches <- PreemptionBatches
  PreFilter <- KubePreFilter
  Filter <- KubeFilter
INVARIANTS
  TypeOK
  SnapshotInSync
  SearchSound
  VictimsNeeded
  ReplicasStand
  EvictedOnlyForHigher
  NoOvercommit
PROPERTIES
  MinimalEviction
  AlwaysCloser
  ImplementsFirstFit
CHECK_DEADLOCK FALSE
