\* The server waits for requests; nothing is left to do when rows run out.
CONSTANTS
  f1 = f1
  p1 = p1
  Requests = {r1, r2}
  Mixes <- BoardMixes
  Projects = {p1}
  Workflows = {w1, w2}
  Statuses = {s1, s2, s3, s4}
  Names = {"todo", "done", "more"}
  DefaultNames <- Seeded
  DoneNames = {"done"}
  Home = w1
  Tasks = {t1, t2}
  Users = {u1}
  NoTarget = NoTarget
  Sprints = {f1, f2}
  DefaultSprint <- FirstSprint
  Kinds = {"workspace", "project", "organization", "sprint", "members"}
  Places = {1, 2}
  Orgs = {1, 2}
  Nothing = none
  MaxCalls = 3
SPECIFICATION BoardSpec
INVARIANTS BoardTypeOK 
PROPERTIES   DeletesNoTask  
PROPERTIES ActiveSprintHeld SlugsSettle
SYMMETRY BoardSymmetry
CHECK_DEADLOCK FALSE
