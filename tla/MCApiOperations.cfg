CONSTANTS
  k1 = k1  k2 = k2
  Requests = {c1, c2}
  Pagers = {p1}
  Ids = {1, 2, 3}
  Scenes <- MCScenes
  Grants = {{"read"}, {"read", "write"}}
  NoKey = NoKey
  AnyRevision = AnyRevision
  MaxInFlight = 1
  Capacity = 1
  PageLimit = 1
  MaxArrivals = 3
  MaxGeneration = 2
  MaxEdits = 1
SPECIFICATION Spec
INVARIANTS
  OncePerKey
  AnswersItsRequest
  WalkIsComplete
PROPERTY
  EveryRequestAnswered
CHECK_DEADLOCK FALSE
