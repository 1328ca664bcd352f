CONSTANTS
  REPLAY_WINDOW = 3
  Seqs <- MCSeqs
SPECIFICATION Spec
INVARIANTS TypeOK BitmapExact HighestIsNewest
PROPERTIES FilterSpec
