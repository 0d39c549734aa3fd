SPECIFICATION PatientSpec
CONSTANTS
  Square <- MiniSquare
  Position <- MiniSquare
  Origin = 1
  Board <- MiniBoard
  InitBoard <- InitMini
  Get <- MiniGet
  LegalMoves <- MiniLegalMoves
  CommitMove <- MiniCommitMove
  Promote <- MiniPromote
  PromotionChoice = {"QUEEN"}
  Uninitialized = Uninitialized
  N = 4
  MenuIsModal = FALSE
  MaxCommits = 6
  MaxRestarts = 2
INVARIANTS
  ViewsAgree
  OfferedMovesAreLegal
  OneMover
  GameOverForBoth
PROPERTIES
  PlaysChess
CHECK_DEADLOCK FALSE
