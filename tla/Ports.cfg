SPECIFICATION Spec
CONSTANTS
  N = 2
  Resource = {"cpu"}
  None = None
  Template <- DocumentedTemplates
  Plugin <- KubePlugin
  Clusters <- PortClusters
  Batches <- PortBatches
  PreFilter <- KubePreFilter
  Filter <- KubeFilter
INVARIANTS
  RejectionsReported
CHECK_DEADLOCK FALSE
