CONSTANTS
    None = None
    Users = {u1, u2}
    Hosts = {h1, h2}
    DnsTime = 2
    ErrTime = 1
    CacheMax = 3
    MaxTasks = 2
    MaxAddr = 10
    ConTime = 1
SPECIFICATION Spec
CHECK_DEADLOCK FALSE
PROPERTIES
    Answered
