CONSTANTS
  t1 = t1  d1 = d1  d2 = d2
  MaxCrowdRevision = 2
  Lone = s1
  Users = {}
  Groups = {}
  Clients = {}
  Tokens = {t1}
  Data = {d1, d2}
  Creds = {x}
  NoData = NoData
  NoCred = NoCred
  Baselines <- SessionBaselines
  Readers = {r1, r2}
  AnyRevision = AnyRevision
  MaxRevision = 3
  SessionIds = {s1, s2}
  Handlers = {h1}
  MaxSess = 1
  NoToken = NoToken
  NoSession = NoSession
  NoRec = NoRec
SPECIFICATION MCSpec
INVARIANTS
  CookieSpeaksForBearer

  
  
