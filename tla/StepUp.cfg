SPECIFICATION Spec
CONSTANTS
  a1 = a1
  a2 = a2
  s1 = s1
  s2 = s2
  NoAudience = NoAudience
  NoToken = NoToken
  NoSession = NoSession
  NoAsk = NoAsk
  NoOutcome = NoOutcome
  NoPopup = NoPopup
  Audiences = {a1, a2}
  Scopes = {s1, s2}
  Default = a1
  GlobalScope <- Wanted
  Allowed <- Granted
  Calls = {c1, c2}
  DirectCalls = {c1}
  Popups = {p1, p2}
  TokenAsks <- Tokens1
  EnrollAsks <- Enrolls
  PopupAsks <- Popups1
  SignInMethods = {"signup", "login", "passwordless", "otp"}
  MayNeedMfa <- Both
  Faults = {"mfa_required", "mfa_without_token", "no_id_token", "refused", "denied"}
  RequestFaults = {"malformed", "expired", "refused", "no_factor", "cancelled"}
  PopupGrants = {"id_token"}
  MaxCached = 2
SYMMETRY Symmetric
INVARIANTS TypeOK AnswerFits PopupTokenFound GuardHasCall PageKnowsOutcome
