SPECIFICATION CommandSpec
CONSTANTS
  N = 2
  Resource = {"cpu"}
  None = None
  Template <- CommandTemplates
  Plugin <- KubePlugin
  Clusters <- CommandClusters
  Batches <- CommandBatches
  Invocations <- Invoked
  PreFilter <- KubePreFilter
  Filter <- KubeFilter
INVARIANTS
  SnapshotInSync
  ReplicasStand
  EvictedOnlyForHigher
  NoOvercommit
  VictimsEligible
  ExitTruthful
  ReportAgrees
CHECK_DEADLOCK FALSE
