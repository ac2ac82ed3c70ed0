CONSTANTS
  c1 = c1
  c2 = c2
  None = None
  Loop = Loop
  Calls = {c1, c2}
  Unary = {}
  UnaryMethods = {}
  Stream = {c1, c2}
  Inline = {c1, c2}
  Cancellable = {c1}
  Unimplemented = {}
  Deadlined = {c1}
  Failing = {c1}
  Faults = {"conn_close", "server_close", "serve_cancel"}
  SeqSpace = 8
  WireCap = 2
  MaxReq = 3
  MaxResp = 3
  InboundCap = 1
  OutCap = 2
  SInboundCap = 1
SPECIFICATION Spec
INVARIANTS
  RequestsInOrder
  ResponsesInOrder
  StatusIsTrue
  InlineBeforeEof
  EndIsLast
PROPERTIES
  KeepsContract
CONSTRAINT Endings
CHECK_DEADLOCK FALSE
