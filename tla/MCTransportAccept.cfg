SPECIFICATION Spec
CONSTANTS
    a = a
    b = b
    p = p
    t1 = t1
    t2 = t2
    None = None
    Device <- MCDevice
    Peer <- MCPeer
    Central <- MCCentral
    Task <- MCTask
    PeerOf <- MCPeerOf
    InitiatorTo <- MCInitiatorTo
    MAX_BLE_CONNECTIONS = 2
PROPERTY AcceptUnblocks
