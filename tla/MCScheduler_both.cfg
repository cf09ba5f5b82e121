SPECIFICATION FairSpec
CONSTANTS
    r1 = r1  r2 = r2  r3 = r3  k1 = k1  k2 = k2  m1 = m1  m2 = m2  w1 = w1  w2 = w2
    None = None
    Requests = {r1, r2}
    Keys = {k1, k2}
    Models = {m1, m2}
    Workers = {w1, w2}
    ModelOf <- KeyModel
    TokensOf <- TwoLens
    WorkerModel <- TwoWorkerModel
    Asks <- AskBoth
    DeadlineOf <- AllAtOne
    MaxPending <- OnePermit
    MaxBatch = 2
    MaxReadmits = 3
    MaxGens = 4
    MaxTime = 1
INVARIANTS PermitsConserved TokensExact AnswersComplete
PROPERTIES RequestsSettle ItemsDrain
CHECK_DEADLOCK FALSE
