SPECIFICATION LiveSpec
CONSTANTS
  REPLAY_WINDOW = 1
  SessionIds = {sid1}
  Keys = {key1}
  NoSession = NoSession
  Calls = {c1, c2}
  Streams = {s1}
  Paths = {"found"}
  MaxStreams = 1
  Retries <- OneRetries
  NoPacket = NoPacket
  NoReply = NoReply
  Undecryptable = Undecryptable
PROPERTIES
  CallsTerminate
  InflightDrains
CHECK_DEADLOCK FALSE
