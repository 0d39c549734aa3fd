CONSTANTS
  Requests <- MCRequests
  Responses <- MCResponses
  MaxPackets = 2
SPECIFICATION Spec
CHECK_DEADLOCK FALSE
INVARIANT ShutdownIsGraceful
