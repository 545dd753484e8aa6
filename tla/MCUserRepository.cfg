SPECIFICATION FairSpec
CONSTANTS
  Callers = {w1, w2, w3}
  Logins = {alice}
  Accounts = {a1, a2}
  None = None
INVARIANTS
  IInv
  LookupsStayTrue
PROPERTIES
  ImplementsRegistry
  EveryCallReturns
