SPECIFICATION FairSpec
CONSTANTS
  Sessions = {s1}
  Logins = {alice, bob}
  Roles <- const_Roles
  MaxPending = 2
INVARIANTS
  IInv
  RoleIsCurrent
  OnlyModeratorsModerate
PROPERTIES
  LinesRun
  ImplementsAccess
