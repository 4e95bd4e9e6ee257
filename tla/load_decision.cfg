SPECIFICATION Spec
CONSTANTS
  Profiles <- MCProfiles
  Totals <- MCTotals
  Foreign <- MCForeign
  Overhead <- MCOverhead
  MaxLoaded = 2
INVARIANTS ProceedNeverOverflows CheapestSufficientStrategy DepartsByForeignMemory FreeAfterIsExact
CHECK_DEADLOCK FALSE
