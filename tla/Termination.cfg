SPECIFICATION CommandFairSpec
CONSTANTS
  N = 2
  Resource = {"cpu"}
  None = None
  Template <- CommandTemplates
  Plugin <- KubePlugin
  Clusters <- RestlessClusters
  Batches <- RestlessBatches
  Invocations <- AllInvoked
  PreFilter <- KubePreFilter
  Filter <- KubeFilter
PROPERTIES
  RunEnds
  InterruptEnds
CHECK_DEADLOCK FALSE
