CONSTANTS
    None = None
    Users = {u1, u2, u3}
    Hosts = {1, 2}
    Proxies = {1}
    Expire = 4
    PoolMax = 2
    Persist = TRUE
    DownTime = 2
    HasDown = TRUE
SPECIFICATION Spec
INVARIANTS
    RightPeer
    LinkUp
    IdleEnds
