SPECIFICATION Spec
CONSTANTS
  Openings <- PinnedOnly
  PromotionChoice = {"QUEEN", "KNIGHT"}
INVARIANTS
  NoMoveExposesKing
CHECK_DEADLOCK FALSE
