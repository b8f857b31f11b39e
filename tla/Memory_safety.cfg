SPECIFICATION Spec
CONSTANTS
  o1 = o1
  o2 = o2
  la = la
  lb = lb
  lc = lc
  ld = ld
  Lines = {la, lb}
  NoLine = NoLine
  Ops = {o1}
  OpTypes = {"LD", "ST"}
  MaxUnique = 2
  Waiters <- MCWaiters
  Ids <- MCIds
  Entries = 3
  PrefWatermark = 1
  WBValve = 1
  L1FillEntries = 1
  L1Ways = {0}
  DcacheWays = {0}
  StoresDoNotBlock = FALSE
  OffPathOps = TRUE
  SwitchFetch = TRUE
  Fetches = {}
  Prefetches = {la}
  ReadMax = 1
  WriteMax = 1
  HighMark = 0
  LowMark = 1
INVARIANTS
  TypeOK
  NobodyForgotten
  OneReadPerClass
  SentIsCounted
  UsefulOnce
PROPERTIES
  StoresReachMemory
  WokenWithLine
