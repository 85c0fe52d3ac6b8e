SPECIFICATION FairSpec
CONSTANTS
    t1 = t1  t2 = t2  t3 = t3  t4 = t4  NoTask = NoTask
    Tasks = {t1, t2, t3}
    Index <- MCIndex
    WaitTasks <- JoinWait
    Lanes <- TwoLanes
    HasUndo = {t1, t3}
    HasCleanup = {t3}
    BlockedBy <- SerialFirstTwo
    Failing = {t1, t2, t3}
    Retrying = {t2}
    Waiting = {t1, t2, t3}
    SelfFinishing = {t1}
    MaxAborts = 1
    MaxRestarts = 2
INVARIANTS TypeOK NoLostWakeup EffectsMatchStatus CleanupWhenReady WaitIsDetected
PROPERTIES ReadyIsFinal Settles
