SPECIFICATION Spec
CONSTANTS
    r1 = r1  r2 = r2  r3 = r3  k1 = k1  k2 = k2  m1 = m1  m2 = m2  w1 = w1  w2 = w2
    None = None
    Requests = {r1, r2, r3}
    Keys = {k1}
    Models = {m1}
    Workers = {w1}
    ModelOf <- OneModel
    TokensOf <- UnitLen
    WorkerModel <- OneWorkerModel
    Asks <- AskK1
    DeadlineOf <- EarlyLate
    MaxPending <- TwoPermits
    MaxBatch = 2
    MaxReadmits = 1
    MaxGens = 3
    MaxTime = 2
INVARIANTS TypeOK WantedIsMapped CanceledIsUnmapped
PROPERTIES SweepSparesWaiters CachedBeforeUnmapped ImplementsCoalescing
SYMMETRY LaterOnes
CHECK_DEADLOCK FALSE
