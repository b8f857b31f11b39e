SPECIFICATION Spec
CONSTANTS
  Regs = {"r"}
  Addrs = {"a"}
  Insts <- MCInsts
  ProgramLength = 2
  FetchLimit = 3
  IssueWidth = 2
  NodeTableSize = 3
  RetWidth = 2
  FillWidth = 0
  Stations <- MCTwoStations
  StationSize = 1
  FUs = {"f"}
  MissBuffers = 1
INVARIANTS
  TypeOK
  NoLostWakeup
  MapsNameYoungest
  DataFlow
  StationsExact
  FrontEndInStep
