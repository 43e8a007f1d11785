SPECIFICATION FairSpec
CONSTANTS
  Env <- MCEnv
  Stdin <- MCStdin
  Role <- MCRole
  Id <- MCId
  KeepConn = {1, 2}
  BuffLen = 3
  NewParams = 2
  Pads = {0, 1}
  Forged <- MCForged
  Extras = {"values", "multiplex", "unknown", "abort", "badbegin", "empty"}
  MaxExtras = 1
  MaxConns = 2
  MaxWire = 1
CHECK_DEADLOCK FALSE
INVARIANTS
  TypeOK
  RequestIntact
  Framed
  VectorHasRoom
PROPERTIES
  AcceptReturns
