\* One request with a body, a small send buffer, and backends that answer before
\* they have the body.
CONSTANTS
  MaxRequests = 1
  MaxBody = 1
  BodySizes = {1}
  Kinds = {"plain"}
  MaxHeaders = 3
  TxRoom = 1
  LoopGuard = 2
  EarlyResponse = TRUE
  Retries = 0
SPECIFICATION FairSpec
PROPERTY RequestEnds
