SPECIFICATION FairSpec
CONSTANTS
    Workers = {w1, w2}
    MaxItems = 3
    ItemLens <- MixedLens
    MaxBatch = 2
    MaxTokens = 6
    MaxPanics = 3
    FactoryMayPanic = TRUE
INVARIANTS PoolSound DroppedOnlyWithoutWorkers NotOvertaken
PROPERTIES StartEnds ItemsEnd BatcherStops
CHECK_DEADLOCK FALSE
