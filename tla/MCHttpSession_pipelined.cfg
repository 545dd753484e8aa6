SPECIFICATION Spec
CONSTANTS
  MaxRequests = 3
  Length = 2
  Room = 3
PROPERTIES
  AnswerBeforeNext
CHECK_DEADLOCK FALSE
