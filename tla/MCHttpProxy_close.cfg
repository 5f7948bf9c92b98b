SPECIFICATION Spec
CONSTANTS
  MaxRequests = 1
  BodySizes = {0}
  Framings = {"close"}
  RespSizes = {3}
  RetryCount = 0
  MaxHeaders = 2
  RbufSize = 1
  HeadRoom = 2
  HeadParts = {0}
  TxRoom = 1
  LoopGuard = 3
INVARIANTS UntilCloseWhole
