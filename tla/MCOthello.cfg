CONSTANTS
  Starts <- MCStarts
  MaxGameMoves <- MCMaxMoves
SPECIFICATION GameSpec
INVARIANTS TypeOK SameGame ProgramsAgree NormalFormIsCommon StableForever CapHolds
PROPERTY UndoTakesBack
