CONSTANTS
    h1 = h1
    h2 = h2
    Jobs = {j1, j2}
    Hosts = {h1, h2}
    NoHost = NoHost
    Backends <- MCBackends
    Shared = {j1}
    Hinted = {j1}
    Direct = {j2}
    DirectHost = h1
    Proxy = NoHost
    NoResume = {}
    OptProxy = FALSE
    PipelineLen = 1
    MaxRetry = 1
    RedirMax = 2
    PipeDisable = 1
    Locations = {h2}
SPECIFICATION Spec
CHECK_DEADLOCK FALSE
INVARIANTS
    OwnAnswer
    IdleClean
PROPERTY
    JobsEnd
