SPECIFICATION Spec
CONSTANTS
  N = 2
  Resource = {"cpu"}
  None = None
  Template <- DocumentedTemplates
  Plugin <- KubePlugin
  Clusters <- NoOpClusters
  Batches <- NoOpBatches
  PreFilter <- KubePreFilter
  Filter <- KubeFilter
INVARIANTS
  NothingLowerToEvict
CHECK_DEADLOCK FALSE
