SPECIFICATION Spec
CONSTANTS
  N = 2
  Resource = {"cpu", "gpu"}
  None = None
  Template <- FilterTemplates
  Plugin <- KubePlugin
  Clusters <- FilterClusters
  Batches <- FilterBatches
  PreFilter <- KubePreFilter
  Filter <- KubeFilter
INVARIANTS
  FeasibilityAgrees
  PlacedReplicasStillFit
  CapacityHonest
  ClaimsAccounted
  VerdictExact
  TaintsBlamedAlone
  CellsAgree
PROPERTIES
  ImplementsFirstFit
CHECK_DEADLOCK FALSE
