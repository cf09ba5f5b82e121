SPECIFICATION Spec
CONSTANTS
    Workers = {w1, w2}
    MaxItems = 2
    ItemLens <- MixedLens
    MaxBatch = 2
    MaxTokens = 6
    MaxPanics = 2
    FactoryMayPanic = TRUE
INVARIANTS ReadyMeansWorker
CHECK_DEADLOCK FALSE
