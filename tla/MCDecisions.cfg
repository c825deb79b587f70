CONSTANTS
  Keys = {k1}
  Users = {"u1"}
  Words = {"a", "b"}
  Canonical <- MCCanonical
  Starts <- MCStarts
  Attempts <- MCAttempts
  Documents <- MCDocuments
  Contents <- MCContents
  MaxRounds = 2
  MaxRevision = 2
  Width = 2
  Mapped = 4
  RawClients <- MCFiles
  Writes <- MCWrites
  Usable = {"s1", "s2"}
  GroupIds = {"g"}
SPECIFICATION MCSpec
INVARIANTS
  
  ClientDecided
  
  ProjectionHolds
  EchoIsNeutral
  WireFaithful
  
  ObjectsHold
CHECK_DEADLOCK FALSE
