SPECIFICATION FairSpec
CONSTANTS
  c1 = c1
  c2 = c2
  a = a
  b = b
  Child = {c1, c2}
  Worker = {a, b}
  ChildOf <- Files
  Matches <- Lines
  MaxServers = 2
  MaxCleans = 1
  MaxKills = 1
CHECK_DEADLOCK FALSE
INVARIANTS
  TypeOK
  WriterExclusion
  Unmixed
  WholeOutput
  OwnOrLate
PROPERTIES
  ChildrenEnd
