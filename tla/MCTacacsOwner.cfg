SPECIFICATION Spec
CONSTANTS
  Ids = {id1, id2}
  MaxObjects = 2
  MaxSessions = 2
  MaxContinues = 1
  SingleConnectEnabled = TRUE
  None = None
INVARIANT ContinuesOwnConversation
CHECK_DEADLOCK FALSE
