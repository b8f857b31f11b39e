SPECIFICATION Spec
CONSTANTS
  Regs = {"r"}
  Addrs = {"a"}
  Insts <- MCInsts
  ProgramLength = 2
  FetchLimit = 3
  IssueWidth = 2
  NodeTableSize = 2
  RetWidth = 2
  FillWidth = 1
  Stations <- MCStations
  StationSize = 1
  FUs = {"f"}
  MissBuffers = 1
INVARIANT NextIntoRSIsOldestIssued
