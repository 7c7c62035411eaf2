SPECIFICATION Spec
CONSTANTS
  f1 = f1
  f2 = f2
  l1 = l1
  h1 = h1
  key = key
  other = other
  Entry <- MCEntry
  Kind <- MCKind
  Text <- MCText
  Word <- MCWord
  Keyword = key
  BufferSize = 1
  EmptyInit = 2
  MaxTids = 3
  Main = Main
  Printer = Printer
  ExitChild = ExitChild
  NoStr = NoStr
  NoTid = NoTid
INVARIANT
  Fifo
