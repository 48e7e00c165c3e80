CONSTANTS
    None = None
    Privkey <- MCPrivkey
    PeerMap <- MCPeerMap
    IpNet <- MCIpNet
    Url = {}
    SocketAddr = {}
    Configs <- MCConfigs
    Partials <- MCPartials
    Custom = {}
    Rounds = 1
    Size = 2
    MaxPeers = 1
    PORT_RANGE = {50000, 50001, 50002}
    MaxFaults = 1
SPECIFICATION MCSpec
CHECK_DEADLOCK FALSE
INVARIANTS
    TestPasses

    
