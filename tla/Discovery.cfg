SPECIFICATION MDSpec
CHECK_DEADLOCK FALSE
CONSTANTS
  NoCall = NoCall
  NoDomain = NoDomain
  NoTime = NoTime
  Calls = {c1, c2}
  Domains = {d1, d2, d3}
  Aliases = {d1}
  useMtls = TRUE
  maxClients = 2
  ttl = 2
  maxEntries = 2
  FetchLimit = 1
  Horizon = 3
SYMMETRY Symmetric
INVARIANTS
  TypeOK OneFetchPerDomain WaitersHaveFetch Fresh Bounded MemoOfUsableClient
