CONSTANTS
    k1 = k1
    k2 = k2
    None = None
    Privkey <- MCKeys
    PeerMap <- MCPeerMaps
    IpNet <- MCIpNets
    Url <- MCUrls
    SocketAddr <- MCSocks
    Configs <- MCConfigs
    Partials <- MCPartials
    Custom <- MCCustom
    MaxRequests = 4
    MaxFaults = 2
SPECIFICATION MCSpec
INVARIANTS
    TypeOK
    InSync
    RoutesExact
    RememberedAsIntended
PROPERTIES
    BystandersUndisturbed
    ReapplySetsBackOnly
    InterfacesChangeInApply
    ContractKept
