SPECIFICATION Spec
CONSTANTS
  Tasks = {t1, t2, t3}
  Requests = {r1, r2}
  MaxBulk = 1
  NoTask = NoTask
  NoEdge = NoEdge
SYMMETRY Symmetry
CONSTRAINT NotRaced
INVARIANTS TypeOK WalkCoversDependencies AcyclicUnlessRaced
PROPERTIES KeepsGraphAcyclic CircularCreateJustified
CHECK_DEADLOCK FALSE
