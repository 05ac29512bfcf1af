SPECIFICATION CommandSpec
CONSTANTS
  N = 2
  Resource = {"cpu"}
  None = None
  Template <- CommandTemplates
  Plugin <- KubePlugin
  Clusters <- BlindClusters
  Batches <- BlindBatches
  Invocations <- AllInvoked
  PreFilter <- KubePreFilter
  Filter <- KubeFilter
INVARIANTS
  ZeroMeansFits
CHECK_DEADLOCK FALSE
