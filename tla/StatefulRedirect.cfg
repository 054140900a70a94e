SPECIFICATION Spec
CONSTANTS
  Requests = {r1, r2}
  Ids = {i1, i2, i3}
  Logins = {l1, l2, l3}
  NoId = NoId
  NoLogin = NoLogin
  Kinds <- RedirectKinds
  AtomicUpdate = TRUE
  LegacyCookies = FALSE
  CookieMayLapse = FALSE
  MayFail = TRUE
SYMMETRY Symmetric
INVARIANTS TypeOK NoResurrection OneRecordPerLogin
PROPERTY ImplementsContract
