CONSTANTS
    h1 = h1  h2 = h2  c1 = c1  c2 = c2  t1 = t1  t2 = t2  n1 = n1  n2 = n2  n3 = n3
    Handlers = {h1, h2}
    Clients = {c1, c2}
    LoginWindow = 2
    LoginBlock = 3
    LoginMaxFailures = 2
    LoginMapLimit = 1
    MaxStage = 1
    Creators = {h1, h2}
    Tokens = {t1, t2}
    SessionTTL = 2
    MaxLag = 1
    Requests = {h1, h2}
    Hosts = {n1, n2, n3}
    DnsCacheTTL = 2
    DnsCacheMax = 2
    MaxLookup = 1
    MaxDays = 3
    MaxAsked = 4
    LastDay = 3
SPECIFICATION ServersSpec
INVARIANTS ServersTypeOK FailuresBounded BlockedForCause SessionLifetime
INVARIANTS DialsFreshAnswer TrendLostOnlyAtMidnight TrendInFull
PROPERTIES BlockEndsForCause BlockEnds CacheAtLimit
