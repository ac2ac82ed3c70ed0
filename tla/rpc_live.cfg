CONSTANTS
  c1 = c1
  c2 = c2
  None = None
  Loop = Loop
  Calls = {c1, c2}
  Unary = {c1}
  UnaryMethods = {c1}
  Stream = {}
  Inline = {}
  Cancellable = {c1}
  Unimplemented = {c2}
  Deadlined = {}
  Failing = {}
  Faults = {"conn_close"}
  SeqSpace = 8
  WireCap = 1
  MaxReq = 1
  MaxResp = 1
  InboundCap = 1
  OutCap = 2
  SInboundCap = 1
SPECIFICATION FairSpec
PROPERTIES
  
  TablesDrain
  DeadlineBoundsCalls
  CancelStopsHandler
CONSTRAINT Returns
CHECK_DEADLOCK FALSE
