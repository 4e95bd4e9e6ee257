SPECIFICATION Spec
CONSTANTS
  a = a
  b = b
  c = c
  Models <- MCPair
  Profile <- MCProfile
  TotalMemory = 14
  Foreign = {0, 4, 6}
  Initially <- MCInitially
  Swaps = {s1}
  Calls <- MCStops
  MaxPending = 2
INVARIANTS HotSwapTypeOK NeverOutOfMemory DirectZeroDowntimeIsTrue
