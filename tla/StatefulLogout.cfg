SPECIFICATION FairSpec
CONSTANTS
  Requests = {r1, r2}
  Ids = {i1, i2}
  Logins = {l1, l2}
  NoId = NoId
  NoLogin = NoLogin
  Kinds <- LogoutRaces
  AtomicUpdate = TRUE
  LegacyCookies = TRUE
  CookieMayLapse = FALSE
  MayFail = FALSE
PROPERTIES RemovedIdStaysRemoved LogoutEndsPresentedSession
CHECK_DEADLOCK FALSE
