SPECIFICATION Spec
CONSTANTS
  m1 = m1
  t1 = t1
  t2 = t2
  none = none
  Models <- MCModels
  Tasks <- MCTasks
  NoTask <- none
  MaxPending = 2
INVARIANTS LifecycleTypeOK DurableMirrorsState SaveIsCurrent
PROPERTIES DurableHistoryIsLegal CallsReturn
