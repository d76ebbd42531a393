CONSTANTS
  f = f
  d = d
  Proc = {p1, p2}
  NFd = 2
  File = {f}
  SubDir = {d}
  Root = root
  Stdin = stdin
  Stdout = stdout
  NoNode = NoNode
  Missing = missing
  Opens <- MCOpens
  Walks <- MCWalks
  BufSize = 2
  MaxTyped = 3
  MaxLen = 2
  MaxLost = 1
  Careful = FALSE
SYMMETRY Symmetry
SPECIFICATION Spec
INVARIANT OpsDefined
CHECK_DEADLOCK FALSE
