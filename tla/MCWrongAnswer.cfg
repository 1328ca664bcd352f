SPECIFICATION Spec
CONSTANTS
  REPLAY_WINDOW = 2
  SessionIds = {sid1, sid2}
  ClientNonces = {c1, c2}
  ServerNonces = {n1, n2}
  Keys <- NoncePairs
  MaxClients = 2
  Calls = {call1, call2}
  Streams = {s1}
  Paths = {"found"}
  MaxStreams = 1
  Retries <- NoRetries
  NoSession = NoSession
  NoNonce = NoNonce
  NoTicket = NoTicket
  MaxFaults = 1
  NoPacket = NoPacket
  NoReply = NoReply
  Undecryptable = Undecryptable
SYMMETRY Symmetry
INVARIANT AnswerMatchesCall
CHECK_DEADLOCK FALSE
