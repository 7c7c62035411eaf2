SPECIFICATION FairSpec
CONSTANTS
  top = top
  sub = sub
  f1 = f1
  f2 = f2
  f3 = f3
  ln = ln
  h1 = h1
  key = key
  other = other
  Path <- MCPath
  Root = top
  Entries <- MCEntries
  Kind <- MCKind
  Text <- MCText
  Word <- MCWord
  Keyword = key
  Rank <- MCRank
  MaxFails = 1
CHECK_DEADLOCK FALSE
INVARIANTS
  TypeOK
  CountsExact
  QuietAtExit
  TotalBounded
PROPERTIES
  IsLister
  Terminates
