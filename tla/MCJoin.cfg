SPECIFICATION Spec
CONSTANTS
    d1 = d1  d2 = d2  d3 = d3  a1 = a1  a2 = a2  a3 = a3  b1 = b1
    NoDevice = NoDevice  NoAddr = NoAddr
    Devices = {d1, d2, d3}
    Addresses = {a1, a2, a3}
    Owner <- MCOwner
    Listen <- MCListen
    Discoverable <- Line
    Expected <- OneOther
    MaxPeers = 1
    MaxRoutes = 5
    Lossy = {}
    Start <- Joining
    MaxRestarts = 0
    MaxTimeouts = 1
INVARIANTS QueriesAnswerable TooManyMeansMoreDevices

