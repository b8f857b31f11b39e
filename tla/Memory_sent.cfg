SPECIFICATION Spec
CONSTANTS
  o1 = o1
  o2 = o2
  la = la
  lb = lb
  lc = lc
  ld = ld
  Lines = {la, lb}
  NoLine = NoLine
  Ops = {o1}
  OpTypes = {"LD"}
  MaxUnique = 2
  Waiters <- MCWaiters
  Ids <- MCIds
  Entries = 4
  PrefWatermark = 1
  WBValve = 2
  L1FillEntries = 2
  L1Ways = {0}
  DcacheWays = {0}
  StoresDoNotBlock = FALSE
  OffPathOps = FALSE
  SwitchFetch = TRUE
  Fetches = {}
  Prefetches = {la, lb}
  ReadMax = 1
  WriteMax = 1
  HighMark = 0
  LowMark = 1
INVARIANT
  SentWentOut
