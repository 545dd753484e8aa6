SPECIFICATION Spec
CONSTANTS
  Callers = {w1}
  Logins = {alice}
  Accounts = {a1, a2}
  None = None
PROPERTIES
  TakenLoginRefused
