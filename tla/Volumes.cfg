SPECIFICATION Spec
CONSTANTS
  N = 2
  Resource = {"cpu"}
  None = None
  Template <- DocumentedTemplates
  Plugin <- KubePlugin
  Clusters <- OneVolumeClusters
  Batches <- OrdinalBatches
  PreFilter <- KubePreFilter
  Filter <- KubeFilter
INVARIANTS
  VolumesSuffice
CHECK_DEADLOCK FALSE
