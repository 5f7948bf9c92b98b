SPECIFICATION Spec
CONSTANTS
  MaxRequests = 2
  BodySizes = {0, 2}
  Framings = {"length", "chunked", "broken", "bad"}
  RespSizes = {2}
  RetryCount = 1
  MaxHeaders = 2
  RbufSize = 1
  HeadRoom = 2
  HeadParts = {0}
  TxRoom = 1
  LoopGuard = 3
INVARIANTS TypeOK AssertionsHold NeverStalls CleanReuse WholeResponse BodySentOnce
