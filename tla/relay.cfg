SPECIFICATION LiveSpec
CHECK_DEADLOCK FALSE
CONSTANTS
  None = None
  MaxServes = 2
  MaxChans = 3
  MaxSends = 3
  Buf = 1
INVARIANTS
  RelayInOrder
  PairedFresh
  PanicNeedsCancel
PROPERTIES
  ServeEnds
  RelayDelivers
  RelayIsFifo
