CONSTANTS
  Proc = {a, b}
  user_main = a
  NFrame = 16
  Kept = {0}
  MaxForks = 3
  Program <- Wide
  Touched = {0, 5, 14}
  NoVal = NoVal
SPECIFICATION Spec
CHECK_DEADLOCK FALSE
INVARIANT NoFrameLost
