SPECIFICATION FairSpec
CONSTANTS
  Regs = {"r"}
  Addrs = {"a"}
  Insts <- MCInsts
  ProgramLength = 2
  FetchLimit = 2
  IssueWidth = 2
  NodeTableSize = 2
  RetWidth = 2
  FillWidth = 0
  Stations <- MCStations
  StationSize = 2
  FUs = {"f"}
  MissBuffers = 1
PROPERTIES
  ImplementsInOrder
  Finishes
