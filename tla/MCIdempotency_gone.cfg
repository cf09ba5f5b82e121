SPECIFICATION Spec
CONSTANTS
    ra = ra  rb = rb  rc = rc  i1 = i1  i2 = i2
    None = None
    Redis = Redis
    Requests = {ra,rb}
    Instances = {i1}
    InstanceOf <- OneInstance
    BodyOf <- OneBody
    UsesRedis = FALSE
    LocalEvicts = FALSE
    RequestTimeout = 1
    Slack = 4
    DoneTtl = 1
    RedisTimeout = 1
    Delay = 1
    MaxTries = 1
PROPERTIES InProgressIsRunning
