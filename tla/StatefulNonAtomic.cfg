SPECIFICATION Spec
CONSTANTS
  Requests = {r1, r2}
  Ids = {i1, i2, i3}
  Logins = {l1, l2}
  NoId = NoId
  NoLogin = NoLogin
  Kinds <- PopupKinds
  AtomicUpdate = FALSE
  LegacyCookies = TRUE
  CookieMayLapse = TRUE
  MayFail = TRUE
SYMMETRY Symmetric
INVARIANT IdBoundToOneLogin
