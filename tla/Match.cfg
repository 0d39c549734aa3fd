SPECIFICATION Spec
CONSTANTS
  Square <- MiniSquare
  Position <- MiniSquare
  Origin = 1
  Board <- MiniBoard
  InitBoard <- InitMini
  Get <- MiniGet
  LegalMoves <- MiniLegalMoves
  CommitMove <- MiniCommitMove
  Promote <- MiniPromote
  PromotionChoice = {"QUEEN"}
  Uninitialized = Uninitialized
  N = 3
  MenuIsModal = FALSE
  MaxCommits = 2
  MaxRestarts = 1
INVARIANTS
  TypeOK
  CachesConverge
  CommitNamesSelection
  PromotionNotLost
CHECK_DEADLOCK FALSE
