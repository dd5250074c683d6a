SPECIFICATION ContentsSpec
CONSTANTS
    Project = {p, q}
    Slug = {s1, s2, s3}
    Handler = {h1, h2}
    MaxWebhooks = 2
    SlugAttempts = 2
    None = None
    Row = {r1, r2}
    Proxy = {p1, p2}
    OwnProxy = {p1}
    MaxBody = 2
INVARIANTS
    TypesOK
    QuotaHolds TiesComeFromOverlap ChecksSuffice ProxySettingConsistent
PROPERTIES
    ImplementsAtomicEndpoints ReorderIsExact EveryCallEnds UpdatesMerge
CHECK_DEADLOCK FALSE
