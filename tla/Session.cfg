SPECIFICATION FairSpec
CONSTANTS
  k1 = k1
  k2 = k2
  k3 = k3
  p1 = p1
  p2 = p2
  Accounts = {ann, bob}
  Nil = Nil
  MaxCalls = 3
  MaxFlights = 2
  Kinds = {"api", "plan"}
  Files = {k1, k2, k3}
  KindOf <- MCKinds
  PhotoOf <- MCPhotos
  Newest <- MCNewest
  Recent = 1
  Ceiling = 1
  Cap = 1
  MaxTokens = 3
  Mishaps = {"net", "login", "store"}
  MaxMishaps = 1
  MaxActs = 4
INVARIANTS SessionTypeOK OnlyLateAnswersMix RefreshOnce CacheBounded
PROPERTY CallsEnd
CHECK_DEADLOCK FALSE
