SPECIFICATION FairSpec
CONSTANTS
    s1 = s1
    s2 = s2
    h1 = h1
    Servers = {s1, s2}
    a1 = a1
    a2 = a2
    PoolOf <- Pools
    Hosts = {h1, h2}
    Gateway = gw
    DefaultIp = ip0
    RouterOf <- Routers
    None = none
    MaxCommands = 3
INVARIANTS LeaseHeld RightHost
PROPERTY CommandsReturn
