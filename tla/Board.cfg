SPECIFICATION Spec
CONSTANTS
  Openings <- AllOpenings
  PromotionChoice = {"QUEEN", "KNIGHT"}
INVARIANTS
  TypeOK
  KingsWhereKept
  PlainMovesAreLawful
  CastlingFollowsTheKing
  EnPassantOnTime
  FlagTellsTheEnd
PROPERTIES
  CapturesAreScored
CHECK_DEADLOCK FALSE
