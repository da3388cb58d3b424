\* Two attempts from one address and one from another, for two slots and one per
\* address, while keys are authorized and the server is restarted.
CONSTANTS
    Peer = {1, 2, 3}
    None = none
    Addr = {"x", "y"}
    AddrOf <- TwoAddresses
    MaxClients = 2
    MaxPerIp = 1
    ClientKey = {"k", "l"}
    KeyOf <- TwoKeys
    AllowAny = TRUE
    Server = server
    Author = {author1, author2}
    MaxStreams = 1
    MaxRestarts = 1
SPECIFICATION FairSpec
INVARIANTS SlotsExact PerIpCap OnlyAuthorizedServed
PROPERTIES StalledIsDropped SessionFreed
