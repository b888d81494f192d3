SPECIFICATION FairSpec
CONSTANTS
    local = local
    remote = remote
    u1 = u1
    u2 = u2
    server1 = server1
    server2 = server2
    Params <- MCParams
    Users <- MCUsers
    Protocols <- MCProtocols
    Writers <- MCWriters
    Values = {1, 2}
    Echo = TRUE
    NoValue = none
    Default = 1
    Registered <- MCRegistered
    MaxCalls <- MCMaxCalls
INVARIANTS
    ListeningExact
    Converged
PROPERTIES
    CallsReturn
CHECK_DEADLOCK FALSE
