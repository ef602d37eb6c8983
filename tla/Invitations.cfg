\* Requests wait for a free invitation when all of them exist.
CONSTANTS
  p1 = p1
  w1 = w1
  NoActor = NoActor
  NoInvite = NoInvite
  Users = {f, u}
  Workspaces = {w1}
  Projects = {p1}
  WorkspaceOf <- InW1
  Founder = f
  SuperAdmins = {}
  Clients <- Mixes
  Requests = {r1, r2}
  Invites = {i1, i2}
SPECIFICATION InvSpec
PROPERTIES AcceptanceComplete DeclinedStays NoSecondInvite
SYMMETRY Symmetry
CHECK_DEADLOCK FALSE
