SPECIFICATION Spec
CONSTANTS
    ra = ra  rb = rb  k1 = k1  k2 = k2
    Conns = {ra, rb}
    CacheKeys = {k1, k2}
    Boot <- BootConfig
    Files <- SomeFiles
    MaxReloads = 1
    Items <- TheItems
    KeyOf <- OneKey
    Keyed = {ra}
    Stored <- Redis
    DrainSlack = 2
    MaxArrivals = 3
    MaxTime = 4
INVARIANTS PermitsExact EveryQuestionAnswered EndsInTime DrainCovers BudgetKept
CHECK_DEADLOCK FALSE
