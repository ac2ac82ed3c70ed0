CONSTANTS
  c1 = c1
  c2 = c2
  None = None
  Loop = Loop
  Calls = {c1}
  Unary = {c1}
  UnaryMethods = {c1}
  Stream = {}
  Inline = {c1}
  Cancellable = {}
  Unimplemented = {}
  Deadlined = {}
  Failing = {}
  Faults = {}
  SeqSpace = 8
  WireCap = 2
  MaxReq = 1
  MaxResp = 1
  InboundCap = 1
  OutCap = 2
  SInboundCap = 1
SPECIFICATION Spec
INVARIANTS
  UnaryOkHasResponse
CHECK_DEADLOCK FALSE
