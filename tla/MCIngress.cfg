SPECIFICATION Spec
CONSTANTS
  RATE = 2
  BURST = 3
  COST = 2
  Characters = {"/", "a", ".", "1", "#", ":", "["}
  Letters = {"a"}
  SchemeCharacters = {"a", ".", "1"}
  RejectedNetlocs <- SomeRejected
  Names = {"x", "y"}
  Literals <- SomeLiterals
  METHOD_CODES = {"GET"}
  Signature <- SomeSignature
  Ips = {ip1, ip2}
  Calls <- SomeCalls
  Registrations <- SomeRegistrations
  HEADER_SIZE = 2
  TAG = 1
  MAX_PACKET_SIZE = 9
  MAX_PATH_BYTES = 7
  MAX_BODY_BYTES = 8
  FIELD_VALUES = 2
  MaxTime = 3
  MaxRoutes = 3
  MaxCalls = 2
  MaxRefused = 1
SYMMETRY Symmetry
INVARIANTS
  TypeOK
  WithinRate
  NumbersUnique
  SilenceExplained
  
PROPERTIES ImplementsMeter
CHECK_DEADLOCK FALSE
