CONSTANTS
  Client = {1, 2, 3}
  Nobody = 0
  MaxRestarts = 0
  MaxBroken = 0
SPECIFICATION MCSpec
CHECK_DEADLOCK FALSE
INVARIANT NobodyIsForgotten
