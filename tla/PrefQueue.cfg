SPECIFICATION FairSpec
CONSTANTS
  c1 = c1
  c2 = c2
  l1 = l1
  l2 = l2
  l3 = l3
  l4 = l4
  Cores = {c1, c2}
  Lines = {l1, l2, l3}
  CoreOf <- MCCoreOf
  NoLine = NoLine
  QueueSize = 2
  ScheduleNum = 2
  AddFilterOn = TRUE
  OverwriteOnFull = FALSE
  ReqDrop = TRUE
  DemandReserve = 2
  Entries = 3
  PrefWatermark = 1
  WBValve = 2
  MaxOthers = 2
INVARIANTS
  TypeOK
  RoomForDemands
  NoLineTwice
  BoundedOvertaking
PROPERTIES
  QueuedLeaves
