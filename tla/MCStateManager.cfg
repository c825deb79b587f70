CONSTANTS
  u1 = u1  g1 = g1  c1 = c1  t1 = t1  t2 = t2  d1 = d1  d2 = d2
  Users = {u1}
  Groups = {g1}
  Clients = {c1}
  Tokens = {t1, t2}
  Data = {d1, d2}
  Creds = {x, y}
  NoData = NoData
  NoCred = NoCred
  Baselines <- AllBaselines
  Readers = {r1}
  AnyRevision = AnyRevision
  MaxRevision = 5
  MaxTokenRevision = 4
SPECIFICATION MCSpec
INVARIANTS
  PublishedIsMerge
  PublishedIsValid
  SecretsReachable
  RevisionIdentifies
  BearerNamesOneToken
  GenerationIdentifiesGrant
PROPERTIES
  RevokedStaysRevoked
  GenerationFollowsToken
