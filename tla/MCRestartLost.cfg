SPECIFICATION RestartSpec
CONSTANTS
    t1 = t1  t2 = t2  t3 = t3  NoTask = NoTask
    Tasks = {t1}
    Index <- MCIndex
    WaitTasks <- NoWait
    Lanes <- OneLane
    HasUndo = {t1}
    HasCleanup = {}
    BlockedBy <- NoBlocking
    Failing = {}
    Retrying = {}
    Waiting = {t1}
    SelfFinishing = {t1}
    MaxAborts = 1
    MaxRestarts = 1
    DoBoundary = {}
    UndoBoundary = {}
    Systems = {FALSE}
    RebootMaxAttempts = 2
INVARIANT WaitingChangeIsRebooted
