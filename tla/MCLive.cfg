\* SsiPage: a send buffer of one piece, reads that split a directive, one failure
\* of the client.  SslSocket: a send buffer smaller than a flight and a response.
CONSTANTS
  Running = {"proto", "proxy", "page", "tls"}
  Docs <- MCDocs
  Cuts = {1, 2, 3, 5, 6}
  Answers <- MCAnswers
  MaxSsiSize = 15
  TxRoom = 1
  LoopGuard = 3
  Heads = {FALSE}
  MaxErrors = 1
  Script <- MCScript
  ReqSize = 2
  RespSize = 4
  SendRoom = 2
  BadHellos = {TRUE, FALSE}
SPECIFICATION LiveSpec
CHECK_DEADLOCK FALSE
INVARIANT TypeOK
INVARIANT PageFlows
INVARIANT NodesMatchDocument
INVARIANT PageInOrder
INVARIANT TlsSound
PROPERTY RequestEnds
