\* Two requests on one connection: bodies within, at and over
\* the limit, a body piece in the same read as the headers, a send buffer of one
\* piece that fills up, and backends that answer before they have the body.
CONSTANTS
  MaxRequests = 2
  MaxBody = 1
  BodySizes = {0, 1, 2}
  Kinds = {"plain", "expect", "chunked", "broken"}
  MaxHeaders = 3
  TxRoom = 1
  LoopGuard = 2
  EarlyResponse = TRUE
  Retries = 1
SPECIFICATION Spec
INVARIANT TypeOK
INVARIANT LoopRulesHold
INVARIANT NeverStalls
INVARIANT Framed
