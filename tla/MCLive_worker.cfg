\* The answer to a HEAD request for a page with two includes.
CONSTANTS
  Running = {"page"}
  Docs <- MCTwoIncludes
  Cuts = {1, 2, 3, 5, 6}
  Answers <- MCAnswers
  MaxSsiSize = 15
  TxRoom = 1
  LoopGuard = 3
  Heads = {TRUE}
  MaxErrors = 0
  Script <- MCScript
  ReqSize = 2
  RespSize = 4
  SendRoom = 2
  BadHellos = {TRUE, FALSE}
SPECIFICATION LiveSpec
CHECK_DEADLOCK FALSE
INVARIANT WorkerKeepsConnection
