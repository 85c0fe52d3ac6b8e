SPECIFICATION LoopFairSpec
CONSTANTS
    EnsureInterval = 4
    Delays = {0, 1, 3, 4}
    MaxSkew = 1
    Off = Off
INVARIANTS LoopTypeOK NeverSleepsPastARequest
PROPERTY Served
