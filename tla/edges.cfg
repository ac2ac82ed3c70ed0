CONSTANTS
  MaxBytes = 3
  MaxList = 3
  s1 = s1
  s2 = s2
  None = None
  Zero = Zero
  Streams = {s1, s2}
  Sizes = {2, 3, 5}
  ChunkSize = 2
  MaxMsgs = 2
  WireCap = 2
  Cancellable = {s2}
SPECIFICATION EdgeSpec
CHECK_DEADLOCK FALSE
INVARIANTS
  ConfigurationAgrees
  FramesTravel
  
  CallsObserved
  
  CredentialsExact
  MessagesIntact
  NothingStuck
