SPECIFICATION Spec
CONSTANTS
  REPLAY_WINDOW = 1
  Addresses = {home, away}
  Tokens = {t1, t2}
  Home = home
  MaxSeq = 2
  MaxMoves = 2
  MaxSent = 4
INVARIANT AddressConfirmed
CHECK_DEADLOCK FALSE
