SPECIFICATION Spec
CONSTANTS
  N = 2
  Resource = {"cpu"}
  None = None
  Template <- DocumentedTemplates
  Plugin <- KubePlugin
  Clusters <- FriendClusters
  Batches <- FriendBatches
  PreFilter <- KubePreFilter
  Filter <- KubeFilter
INVARIANTS
  NilOnlyIfNoSetExists
CHECK_DEADLOCK FALSE
