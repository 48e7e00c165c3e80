CONSTANTS
    k1 = k1
    k2 = k2
    None = None
    Privkey <- MCKeys
    PeerMap <- MCPeerMaps
    IpNet <- MCIpNets
    Url <- MCUrls
    SocketAddr <- MCSocks
    Configs <- MCConfigs
    Partials <- NonePartials
    Custom <- MCCustom
    MaxRequests = 2
    MaxFaults = 0
SPECIFICATION MCFairSpec
PROPERTIES
    ReapplyChangesNothing
