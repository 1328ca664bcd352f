SPECIFICATION LiveSpec
CONSTANTS
  ClientNonces = {c1, c2}
  ServerNonces = {n1, n2}
  SessionIds = {sid1, sid2}
  Keys <- NoncePairs
  MaxClients = 2
  NoSession = NoSession
  NoNonce = NoNonce
  NoTicket = NoTicket
INVARIANTS
  TypeOK
  SidKeepsKey
  AgreementUnlessStale
  OneSessionPerProof
  HandshakeGoesOn
  Bookkeeping
PROPERTIES TablesDrain
CHECK_DEADLOCK FALSE
