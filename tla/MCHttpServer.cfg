SPECIFICATION FairServerSpec
CONSTANTS
  MaxRequests = 3
  Length = 3
  Room = 2
  MaxOpen = 2
  MaxQueued = 2
INVARIANTS
  TypeOK
  PatientClientsAreServed
  NothingLost
  ServerTypeOK
  ServerInv
PROPERTIES
  AnswersArrive
  SessionsEnd
  ConnectedAreServed
  NobodyWaitsForEver
CHECK_DEADLOCK FALSE
