CONSTANTS
  RestClients = {r1}
  McpClients = {m1}
  Pagers = {p1}
  r1 = r1  m1 = m1  p1 = p1  Sink = Sink
  Populations <- RingPopulations
  Produced = {"match", "hidden"}
  Cap = 2
  SubBuf = 1
  StdoutBuf = 1
  MaxSubscribers = 1
  PageLimit = 1
  MaxSeq = 4
  MaxRevision = 2
  None = None
SPECIFICATION Spec
PROPERTIES ImplementsLog  
CHECK_DEADLOCK FALSE
