SPECIFICATION LiveSpec
CONSTANTS
  REPLAY_WINDOW = 1
  Addresses = {home, away}
  Tokens = {t1, t2}
  Home = home
  MaxSeq = 2
  MaxMoves = 2
  MaxSent = 4
INVARIANTS
  TypeOK
  DropCostsNoNumber
  TokenSpentOnce
PROPERTIES AddressMovesAsked NoSilentDrop ValidationsDrain
CHECK_DEADLOCK FALSE
