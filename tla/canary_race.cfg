SPECIFICATION Spec
CONSTANTS
  Deployments = {dA}
  dA = dA
  dB = dB
  nA = nA
  nB = nB
  m1 = m1
  m2 = m2
  m3 = m3
  w1 = w1
  w2 = w2
  Baseline <- MCBaseline
  Candidate <- MCCandidate
  Names = {nA}
  Versions <- MCVersions
  Stages <- MCStages
  Callers = {t1, t2}
  Supervisors = {}
  Operated = {}
INVARIANT RolledBackMeansV1
