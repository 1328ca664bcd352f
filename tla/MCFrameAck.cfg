SPECIFICATION Spec
CONSTANTS
  REPLAY_WINDOW = 2
  SessionIds = {sid1}
  Keys = {key1}
  NoSession = NoSession
  Calls = {c1, c2}
  Streams = {s1, s2}
  Paths = {"found", "missing", "malformed", "empty", "toolong"}
  MaxStreams = 1
  Retries <- Once
  NoPacket = NoPacket
  NoReply = NoReply
  Undecryptable = Undecryptable
INVARIANT AckReachesEvent
CHECK_DEADLOCK FALSE
