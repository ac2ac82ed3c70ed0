SPECIFICATION FairSpec
CONSTANTS
  w = w
  x = x
  Senders = {w, x}
  Cancellable = {x}
  High = 1
  RecvCap = 1
  MaxSend = 2
  MayClose = TRUE
INVARIANTS OvershootBounded
PROPERTIES ImplementsFifo 
CHECK_DEADLOCK FALSE
