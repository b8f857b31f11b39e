SPECIFICATION Spec
CONSTANTS
  o1 = o1
  o2 = o2
  la = la
  lb = lb
  lc = lc
  ld = ld
  Lines = {la, lb, lc}
  NoLine = NoLine
  Ops = {o1}
  OpTypes = {"ST"}
  MaxUnique = 3
  Waiters <- MCWaiters
  Ids <- MCIds
  Entries = 4
  PrefWatermark = 1
  WBValve = 2
  L1FillEntries = 1
  L1Ways = {0}
  DcacheWays = {0}
  StoresDoNotBlock = FALSE
  OffPathOps = TRUE
  SwitchFetch = TRUE
  Fetches = {}
  Prefetches = {}
  ReadMax = 1
  WriteMax = 1
  HighMark = 0
  LowMark = 1
SYMMETRY MCSymmetry
INVARIANTS
  NeverWedged
  WaitsForNothingElse
