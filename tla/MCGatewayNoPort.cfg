CONSTANTS
    k1 = k1
    k2 = k2
    None = None
    Privkey <- MCKeys
    PeerMap <- MCPeerMaps
    IpNet <- MCIpNets
    Url <- MCUrls
    SocketAddr <- MCSocks
    Configs <- MCConfigs
    Partials <- NoPortPartials
    Custom <- MCCustom
    MaxRequests = 2
    MaxFaults = 0
SPECIFICATION MCSpec
INVARIANTS
    InSyncAnyPort
