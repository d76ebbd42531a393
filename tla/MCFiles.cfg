CONSTANTS
  f = f
  d = d
  Proc = {p1, p2}
  NFd = 2
  File = {f}
  SubDir = {d}
  Root = root
  Stdin = stdin
  Stdout = stdout
  NoNode = NoNode
  Missing = missing
  Opens <- MCOpens
  Walks <- MCWalks
  BufSize = 2
  MaxTyped = 3
  MaxLen = 2
  MaxLost = 1
  Careful = TRUE
SYMMETRY Symmetry
SPECIFICATION Spec
INVARIANT RefsExact
INVARIANT ReadersWoken
INVARIANT InOrder
CHECK_DEADLOCK FALSE
