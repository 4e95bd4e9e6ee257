SPECIFICATION Spec
CONSTANTS
  Requests = {r1, r2, r3}
  Drainers = {d1, d2}
INVARIANTS DrainTypeOK CounterTracksRequests
PROPERTIES NaturalDrainIsClean DrainEnds
