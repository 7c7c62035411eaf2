SPECIFICATION Spec
CONSTANTS
  r1 = r1
  r2 = r2
  c1 = c1
  c2 = c2
  d1 = d1
  d2 = d2
  Request <- MCRequest
  ExitReq = ExitReq
  Dir <- MCDir
  DirOf <- OtherDir
  Client <- MCClient
  Script <- PlainScript
  Server = Server
  SemIdZero = d1
  BufferSize = 2
  SegSize = 5
  MaxKills = 1
  MaxRestarts = 1
  NoItem = NoItem
CHECK_DEADLOCK FALSE
INVARIANTS
  ClientExclusion
  AtMostOnce
  PlaceIsEnd
