CONSTANTS
  NPage = 4
  Manager = {"default"}
  KeepTop = FALSE
SPECIFICATION Spec
INVARIANT ListSums
