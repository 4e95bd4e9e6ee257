SPECIFICATION Spec
CONSTANTS
  a = a
  b = b
  c = c
  Models <- MCTriple
  Profile <- MCProfile
  TotalMemory = 14
  Foreign = {4}
  Initially <- MCInitially
  Swaps = {s1}
  Calls <- MCNoCalls
  MaxPending = 1
INVARIANT NeverOutOfMemory
