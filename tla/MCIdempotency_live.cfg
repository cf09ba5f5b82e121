SPECIFICATION FairSpec
CONSTANTS
    ra = ra  rb = rb  rc = rc  i1 = i1  i2 = i2
    None = None
    Redis = Redis
    Requests = {ra,rb}
    Instances = {i1}
    InstanceOf <- OneInstance
    BodyOf <- OneBody
    UsesRedis = TRUE
    LocalEvicts = TRUE
    RequestTimeout = 1
    Slack = 2
    DoneTtl = 2
    RedisTimeout = 1
    Delay = 1
    MaxTries = 2
PROPERTIES StoredIsFinal OthersDoNotRelease PendingEnds RequestsEnd
