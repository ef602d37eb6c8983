\* Requests stop at the bounds on sign-ins and links.
CONSTANTS
  Users = {ann, bob}
  Requests = {r1, r2}
  Clients <- Mixes
  MaxSignIns = 2
  MaxResets = 1
SPECIFICATION Spec
PROPERTIES AdminRemains FirstAdminOnly SessionsStayEnded LinkUsedOnce
SYMMETRY Symmetry
CHECK_DEADLOCK FALSE
