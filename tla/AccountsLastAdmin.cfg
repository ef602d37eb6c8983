\* Requests stop at the bounds on sign-ins and links.
CONSTANTS
  Users = {ann, bob}
  Requests = {r1, r2}
  Clients <- Demotions
  MaxSignIns = 1
  MaxResets = 0
SPECIFICATION Spec
PROPERTIES LastAdminKept
CHECK_DEADLOCK FALSE
