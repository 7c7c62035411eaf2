SPECIFICATION Spec
CONSTANTS
  top = top
  sub = sub
  f1 = f1
  f2 = f2
  h1 = h1
  key = key
  other = other
  Path <- MCPath
  Root = top
  Entries <- MCEntries
  Kind <- MCKind
  Text <- MCText
  Word <- MCWord
  Keyword = key
  Rank <- MCRank
  Modes = {1}
  MaxFails = 1
CHECK_DEADLOCK FALSE
INVARIANTS
  CountsExact
