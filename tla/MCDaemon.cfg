CONSTANTS
  Listeners = {"legacy", "radsec", "dyn", "secure"}
  Kind <- MCKind
  BindOf <- MCBind
  Order <- MCOrder
  Optional = {"dyn"}
  Aaa = {"legacy", "radsec", "secure"}
  Conns = {c1, c2}
  MaxConns = 1
  Setups <- MCSetups
  Peers = {c1, c2}
  Certs <- MCCerts
  Packets <- MCPackets
  Documents <- MCDocuments
  Trusts <- MCTrusts
  Addr <- MCAddr
  MaxEntries = 2
SPECIFICATION MCSpec
INVARIANTS
  ReadyMeansServing
  AnsweredAsAdmitted
PROPERTY ShutdownLeavesNothing
CHECK_DEADLOCK FALSE
