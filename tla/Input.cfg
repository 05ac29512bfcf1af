SPECIFICATION Spec
CONSTANTS
  None = None
  Unset = Unset
  Blank = Blank
  Garbled = Garbled
  Unreadable = Unreadable
  Qualified = {"nvidia.com/gpu", "a/b/c"}
  WellFormed = {"nvidia.com/gpu"}
  HugePages = {"hugepages-2Mi"}
  Given <- AllGiven
INVARIANTS
  ManifestsFaithful
  FlagsFaithful
CHECK_DEADLOCK FALSE
