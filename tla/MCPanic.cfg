SPECIFICATION Spec
CONSTANTS
    t1 = t1  t2 = t2  t3 = t3  t4 = t4  NoTask = NoTask
    Tasks = {t1, t2}
    Index <- MCIndex
    WaitTasks <- NoWait
    Lanes <- OneLane
    HasUndo = {t1, t2}
    HasCleanup = {}
    BlockedBy <- SerialFirstTwo
    Failing = {}
    Retrying = {}
    Waiting = {}
    SelfFinishing = {}
    MaxAborts = 1
    MaxRestarts = 0
INVARIANT NeverUnreadyAgain
