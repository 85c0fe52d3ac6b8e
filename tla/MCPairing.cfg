SPECIFICATION Spec
CONSTANTS
    d1 = d1  d2 = d2  d3 = d3  a1 = a1  a2 = a2  a3 = a3  b1 = b1
    NoDevice = NoDevice  NoAddr = NoAddr
    Devices = {d1, d2}
    Addresses = {a1, a2}
    Owner <- MCOwner
    Listen <- MCListen
    Discoverable <- Everywhere
    Expected <- RightSize
    MaxPeers = 5
    MaxRoutes = 5
    Lossy = {d1}
    Start <- Fresh
    MaxRestarts = 1
    MaxTimeouts = 0
INVARIANTS AssembleTypeOK MutualTrust RoutesToPeers CompleteIsConnected
CHECK_DEADLOCK FALSE
