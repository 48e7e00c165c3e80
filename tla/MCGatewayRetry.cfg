CONSTANTS
    k1 = k1
    k2 = k2
    None = None
    Privkey <- MCKeys
    PeerMap <- MCPeerMaps
    IpNet <- MCIpNets
    Url <- MCUrls
    SocketAddr <- MCSocks
    Configs <- PanicConfigs
    Partials <- PanicPartials
    Custom <- MCCustom
    MaxRequests = 2
    MaxFaults = 2
SPECIFICATION RetrySpec
PROPERTIES
    EveryRequestAnswered
    Converges
