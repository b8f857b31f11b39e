SPECIFICATION FairSpec
CONSTANTS
  o1 = o1
  o2 = o2
  la = la
  lb = lb
  lc = lc
  ld = ld
  Lines = {la, lb}
  NoLine = NoLine
  Ops = {o1}
  OpTypes = {"ST"}
  MaxUnique = 1
  Waiters <- MCWaiters
  Ids <- MCIds
  Entries = 3
  PrefWatermark = 1
  WBValve = 1
  L1FillEntries = 1
  L1Ways = {0}
  DcacheWays = {0}
  StoresDoNotBlock = FALSE
  OffPathOps = TRUE
  SwitchFetch = TRUE
  Fetches = {la}
  Prefetches = {}
  ReadMax = 1
  WriteMax = 1
  HighMark = 0
  LowMark = 1
INVARIANT
  RamulatorAgrees
PROPERTIES
  ImplementsService
  FetchServed
