SPECIFICATION Spec
CONSTANTS
  NoSession = NoSession
  NoToken = NoToken
  NoRequest = NoRequest
  NoCall = NoCall
  NoGrant = NoGrant
  NoNonce = NoNonce
  Audiences = {"me"}
  MaxCalls = 2
  Modes = {"off", "on", "without_keys"}
  NonceValues = {n1, n2}
  MaxRotations = 2
SYMMETRY Symmetric
INVARIANTS TypeOK AcceptedNotResent RefreshTokenCurrent NoSaveLost ProofFitsToken
