SPECIFICATION Spec
CONSTANTS
  NoWrite = NoWrite
  NoLogin = NoLogin
  Requests = {r1, r2}
  Writes = {w1, w2, w3, w4, w5}
  Logins = {l1, l2}
  MaxChunks = 3
  Sizes <- UpToThree
  LegacyLogin = l1
SYMMETRY Symmetric
INVARIANT TypeOK
PROPERTIES LoneSaveReadsBack LoneLogoutClears
