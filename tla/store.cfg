CONSTANTS
  k1 = k1
  k2 = k2
  k3 = k3
  a = a
  b = b
  None = None
  Sockets = {k1, k2, k3}
  Ids = {a, b}
  IdOf <- MCIdOf
  MaxPeers = 2
  InboxCap = 2
  MaxMsgs <- MCMaxMsgs
SPECIFICATION Spec
INVARIANTS
  NoSendOnClosed
  LeftIsGone
  ReceivedInOrder
CHECK_DEADLOCK FALSE
