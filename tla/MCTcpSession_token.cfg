SPECIFICATION Spec
CONSTANTS
  Sessions = {s1}
  Logins = {alice}
  Roles <- const_Roles
  MaxPending = 1
INVARIANTS
  IssuedTokenOpens
