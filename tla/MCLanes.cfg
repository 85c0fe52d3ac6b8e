SPECIFICATION Spec
CONSTANTS
    t1 = t1  t2 = t2  t3 = t3  t4 = t4  NoTask = NoTask
    Tasks = {t1, t2, t3, t4}
    Index <- MCIndex
    WaitTasks <- SharedWait
    Lanes <- SharedLanes
    HasUndo = {t1, t3, t4}
    HasCleanup = {t1}
    BlockedBy <- SerialSnaps
    Failing = {t1, t2, t3, t4}
    Retrying = {t2}
    Waiting = {t2, t3}
    SelfFinishing = {t1}
    MaxAborts = 1
    MaxRestarts = 1
INVARIANTS PrerequisitesDone UndoOrder ReadyExact LaneAtomicity NeverUnreadyAgain
PROPERTIES ImplementsSaga
