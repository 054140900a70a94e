SPECIFICATION Spec
CONSTANTS
  i1 = i1
  i2 = i2
  d1 = d1
  d2 = d2
  Requests = {r1, r2}
  States = {s1, s2}
  NoState = NoState
  Issuers = {i1, i2}
  NoIssuer = NoIssuer
  Domains = {d1, d2}
  NoDomain = NoDomain
  DomainOf <- OwnDomains
  Modes = {"redirect", "popup", "connect"}
SYMMETRY Symmetric
INVARIANTS TypeOK LoginNotDisturbed CodeMeetsItsTransaction AnsweredIsForgotten LoginStaysWithDomain
