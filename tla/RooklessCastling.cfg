SPECIFICATION Spec
CONSTANTS
  Openings <- CastleOnly
  PromotionChoice = {"QUEEN", "KNIGHT"}
INVARIANTS
  CastlingHasRook
CHECK_DEADLOCK FALSE
