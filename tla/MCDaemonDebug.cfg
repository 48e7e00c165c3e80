CONSTANTS
    n1 = n1
    n2 = n2
    k1 = k1
    k2 = k2
    e1 = e1
    e2 = e2
    None = None
    Port = {5000}
    Pubkey <- MCPubkey
    Endpoint = {e1}
    Confs <- OnePeer
    Found <- FoundOne
    Clock = {1, 3}
    Start = {1}
    Messages = {}
    WIREGUARD_HANDSHAKE_TIMEOUT = 1
    Usize = 64
    OverflowChecks = TRUE
    BROADCAST_QUEUE_TRAFFIC = 1
    BROADCAST_QUEUE_EVENTS = 2
    MaxChanges = 2
    MaxFaults = 0
    MaxRequests = 0
SPECIFICATION MCFairSpec
CHECK_DEADLOCK FALSE
PROPERTIES
    WatchdogKeepsPolling
