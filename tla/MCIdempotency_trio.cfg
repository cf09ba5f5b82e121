SPECIFICATION Spec
CONSTANTS
    ra = ra  rb = rb  rc = rc  i1 = i1  i2 = i2
    None = None
    Redis = Redis
    Requests = {ra,rb,rc}
    Instances = {i1,i2}
    InstanceOf <- TwoInstances
    BodyOf <- OtherBody
    UsesRedis = TRUE
    LocalEvicts = FALSE
    RequestTimeout = 0
    Slack = 4
    DoneTtl = 1
    RedisTimeout = 1
    Delay = 1
    MaxTries = 1
INVARIANTS HolderHasRecord Exclusive ReplayMatches
SYMMETRY Symmetry
PROPERTIES ImplementsLease
