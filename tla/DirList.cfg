SPECIFICATION FairSpec
CONSTANTS
  NULL = NULL
  top = top
  d1 = d1
  d2 = d2
  f1 = f1
  f2 = f2
  f3 = f3
  ln = ln
  h1 = h1
  Path <- MCPath
  Root = top
  Entries <- MCEntries
  Kind <- MCKind
  Text <- MCText
  Word = {}
  Keyword = top
  Rank <- MCRank
CHECK_DEADLOCK FALSE
INVARIANTS
  TypeOK
  Linked
  Released
PROPERTIES
  IsLister
  Terminates
