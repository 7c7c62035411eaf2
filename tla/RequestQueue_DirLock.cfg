SPECIFICATION Spec
CONSTANTS
  r1 = r1
  r2 = r2
  c1 = c1
  c2 = c2
  d1 = d1
  d2 = d2
  Request <- MCRequest
  ExitReq = ExitReq
  Dir <- MCDir
  DirOf <- SameDir
  Client <- MCClient
  Script <- ExitScript
  Server = Server
  SemIdZero = NoItem
  BufferSize = 2
  SegSize = 8
  MaxKills = 0
  MaxRestarts = 0
  NoItem = NoItem
CHECK_DEADLOCK FALSE
INVARIANTS
  DirectoryExclusion
