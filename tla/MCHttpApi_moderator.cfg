SPECIFICATION Spec
CONSTANTS
  Conns = {c1}
  Logins = {"short", "long"}
  Width <- const_Width
  Lifetime = 1
  MaxNow = 2
  MaxIssued = 2
INVARIANTS
  RegisteredModeratorsModerate
