SPECIFICATION Spec
CONSTANTS
  Tasks = {t1, t2}
  Requests = {r1, r2}
  MaxBulk = 1
  NoTask = NoTask
  NoEdge = NoEdge
INVARIANTS AlwaysAcyclic
CHECK_DEADLOCK FALSE
