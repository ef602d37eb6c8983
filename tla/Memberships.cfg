CONSTANTS
  p1 = p1
  w1 = w1
  NoActor = NoActor
  Users = {f, u}
  Workspaces = {w1, w2}
  Projects = {p1}
  WorkspaceOf <- InW1
  Founder = f
  SuperAdmins = {f}
  Clients <- Mixes
  Requests = {r1, r2}
SPECIFICATION Spec
PROPERTIES InsideIsMember OwnerKeepsRole RoleReachesWorkspaces
SYMMETRY Symmetry
