SPECIFICATION BootFairSpec
CONSTANTS
    k1 = k1  k2 = k2  k3 = k3  b1 = b1  b2 = b2
    Kernels = {k1, k2}
    Bases = {b1, b2}
    Kernel0 = k1
    Base0 = b1
    Bootloaders = {"grub", "env"}
    MaxFaults = 2
    UndoFaults = {}
    NoSnap = NoSnap
INVARIANTS BootTypeOK NeverStuck CurrentIsGood MountsRunningKernel
PROPERTIES FinishedIsRunning Recovers
