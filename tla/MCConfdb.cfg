SPECIFICATION ConfdbFairSpec
CONSTANTS
    r1 = r1  r2 = r2  w1 = w1  w2 = w2  k1 = k1  k2 = k2
    Accesses = {r1, r2, w1, w2}
    Writers = {w1, w2}
    Hookless = {r2}
    FromSnap = {w1}
    Impatient = {r1, w2}
    Abortable = {w2}
    Keys = {k1}
    MaxCrashes = 1
    NoTx = NoTx
INVARIANTS NoInternalError SomebodyUnblocks OneToken Isolation
PROPERTIES ImplementsStore EverybodyGetsATurn
CHECK_DEADLOCK FALSE
