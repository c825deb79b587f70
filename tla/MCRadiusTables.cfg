CONSTANTS
  c1 = c1  c2 = c2  a = a
  Workers = {p1, p2}
  Clients = {c1, c2}
  Users = {u1, u2}
  MaxEntries = 1
  TunnelCap = 1
  MaxIssued = 4
  Scenes <- Conversations
  MaxResets = 1
  NoRec = NoRec
  Endpoints = {e1, e2}
  SessionIds = {s1}
  Names = {n}
  Nas = {a, b}
  Handlers = {d1}
  Senders = {o1, o2}
  Neighbours <- Roles
  MaxRows = 2
  MaxBytes = 3
  PageLimit = 1
  MaxHandles = 3
  MaxWires = 2
  CacheCap = 1
  Nil = Nil
SPECIFICATION TablesSpec
INVARIANTS OneDriver AcceptIsEarned IndexConsistent 
 
CHECK_DEADLOCK FALSE
