CONSTANTS
  c1 = c1
  c2 = c2
  None = None
  Loop = Loop
  Calls = {c1}
  Unary = {}
  UnaryMethods = {}
  Stream = {c1}
  Inline = {c1}
  Cancellable = {}
  Unimplemented = {}
  Deadlined = {}
  Failing = {}
  Faults = {"server_close", "serve_cancel"}
  SeqSpace = 8
  WireCap = 1
  MaxReq = 2
  MaxResp = 0
  InboundCap = 1
  OutCap = 2
  SInboundCap = 1
SPECIFICATION FairSpec
PROPERTIES
  ServeStops
  
CHECK_DEADLOCK FALSE
