SPECIFICATION RestartSpec
CONSTANTS
    t1 = t1  t2 = t2  t3 = t3  NoTask = NoTask
    Tasks = {t1, t2, t3}
    Index <- MCIndex
    WaitTasks <- JoinWait
    Lanes <- TwoLanes
    HasUndo = {t1, t2}
    HasCleanup = {}
    BlockedBy <- NoBlocking
    Failing = {t1, t2}
    Retrying = {}
    Waiting = {t1, t2, t3}
    SelfFinishing = {t1, t2, t3}
    MaxAborts = 1
    MaxRestarts = 2
    DoBoundary = {t2, t3}
    UndoBoundary = {}
    Systems = {TRUE, FALSE}
    RebootMaxAttempts = 2
INVARIANTS RestartTypeOK RebootNotForgotten ClassicNeverReboots
PROPERTIES WaitAsksForReboot
