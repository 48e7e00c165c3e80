CONSTANTS
    k1 = k1
    k2 = k2
    None = None
    Privkey <- MCKeys
    PeerMap <- MCPeerMaps
    IpNet <- MCIpNets
    Url <- MCUrls
    SocketAddr <- MCSocks
    Configs <- MCConfigs
    Partials <- MCPartials
    Custom <- MCCustom
    MaxRequests = 1
    MaxFaults = 1
SPECIFICATION MCSpec
INVARIANTS
    StartupInstallsCustom
