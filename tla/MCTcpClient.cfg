SPECIFICATION MCSpec
CONSTANTS
  Sessions = {s1}
  Me = s1
  Logins = {alice, bob}
  Roles <- const_Roles
  Typed = {"/login", "/get_flats", "/quit"}
  MaxPending = 3
  MaxUnread = 2
INVARIANTS
  ClientTypeOK
  PatientTokensAreWhole
  PatientClientsKillNobody
  FramedTokenIsMine
  ClientInv
PROPERTIES
  QuitEnds
  WriterNotices
CHECK_DEADLOCK FALSE
