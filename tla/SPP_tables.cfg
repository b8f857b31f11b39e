SPECIFICATION Spec
CONSTANTS
  Pages = 4
  LinesPerPage = 4
  Tags = {0, 1, 2}
  SigBits = 2
  SigShift = 1
  SigDeltaBits = 3
  SigMax = 3
  STSets = 1
  STWays = 2
  PTSets = 1
  PTWays = 2
  CSigMax = 3
  CDeltaMax = 3
  FilterSlots = 2
  Remainders = 2
  GHREntries = 2
  GlobalCounterMax = 3
  UnsRange = 65536
  PFThreshold = 25
  IssueThreshold = 40
  FillThreshold = 60
  MaxDepth = 2
  LookaheadOn = TRUE
  FilterOn = TRUE
  GHROn = TRUE
  STSetOf <- MCSTSetOf
  TagOf <- MCTagOf
  PTSetOf <- MCPTSetOf
  SlotOf <- MCSlotOf
  RemainderOf <- MCRemainderOf
  NextSig <- MCNextSig
  DemandLines = {0,1,2,4,8,15}
  EvictableLines = {2}
  MaxDemands = 8
INVARIANTS
  LRUPermutation
  TagsUnique
  CountersWithinTotal
  ConfidencesWithin100
  DeltasDistinct
PROPERTIES
  RemembersRecentPages
