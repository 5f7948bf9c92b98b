\* A chunked body of two pieces, a limit of one.
CONSTANTS
  MaxRequests = 1
  MaxBody = 1
  BodySizes = {2}
  Kinds = {"chunked"}
  MaxHeaders = 3
  TxRoom = 2
  LoopGuard = 3
  EarlyResponse = FALSE
  Retries = 0
SPECIFICATION Spec
INVARIANT BufferedWhole
