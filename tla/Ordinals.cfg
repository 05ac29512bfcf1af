SPECIFICATION Spec
CONSTANTS
  N = 2
  Resource = {"cpu"}
  None = None
  Template <- DocumentedTemplates
  Plugin <- KubePlugin
  Clusters <- ReservedClusters
  Batches <- OrdinalBatches
  PreFilter <- KubePreFilter
  Filter <- KubeFilter
INVARIANTS
  BreakIsFinal
CHECK_DEADLOCK FALSE
