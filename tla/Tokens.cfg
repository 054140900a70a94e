SPECIFICATION Spec
CONSTANTS
  a1 = a1
  a2 = a2
  s1 = s1
  s2 = s2
  NoAudience = NoAudience
  NoToken = NoToken
  NoRefreshToken = NoRefreshToken
  Audiences = {a1, a2}
  Scopes = {s1, s2}
  Default = a1
  GlobalScope <- Wanted
  Allowed <- Granted
  LoginAudiences <- DefaultLogin
  LoginScope <- OnlyS1
  DefaultScopes <- OnlyS1
  Kinds = {"token", "proxy", "transfer", "connect", "popup", "touch"}
  AsksOf <- Everything
  Requests = {r1, r2}
  RefreshTokens = {t1, t2, t3}
  MaxCached = 2
SYMMETRY Symmetric
INVARIANTS TypeOK TokenFitsRequest RefreshTokenUsable RotationPersisted
