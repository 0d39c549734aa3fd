CONSTANTS
  Client = {1, 2, 3, 4}
  Nobody = 0
  MaxRestarts = 1
  MaxBroken = 2
SPECIFICATION MCSpec
INVARIANTS TypeOK OnePlace PlacesAreOpen ClientsKnowTheirSeats
PROPERTIES NobodyIsLeftBehind ServerForgets
CHECK_DEADLOCK FALSE
