-------------------------- MODULE TaskRunnerProofs --------------------------
(* Theorems about TaskRunner, for every change: any number of tasks, any    *)
(* wait relation, any lanes, any mix of handlers, any bounds.               *)
EXTENDS TaskRunner, TLAPS

-----------------------------------------------------------------------------
(* Facts about the operators.                                              *)

LEMMA LaneSetType == \A t \in Tasks : LaneSet(t) \subseteq LaneIds
  BY DEF LaneIds

LEMMA HaltTasksType == \A t : HaltTasks(t) \subseteq Tasks
  BY DEF HaltTasks

LEMMA UnreadyLanesType == \A st : UnreadyLanes(st) \subseteq LaneIds
  BY DEF UnreadyLanes, LaneIds

LEMMA LaneTasksToAbortType == \A st, wd, kill : LaneTasksToAbort(st, wd, kill) \subseteq Tasks
  BY DEF LaneTasksToAbort

\* SetStatus touches one task, and keeps the types of what it assigns.
LEMMA SetStatusType ==
  ASSUME TypeOK, NEW t \in Tasks, NEW new \in Statuses, SetStatus(t, new)
  PROVE  /\ status' \in [Tasks -> Statuses]
         /\ ready' \in BOOLEAN /\ panicked' \in BOOLEAN
  BY DEF TypeOK, SetStatus, DetectChangeReady, chgVars

\* A checkpoint of well-typed values is well-typed.
LEMMA CheckpointType ==
  ASSUME Checkpoint, status' \in [Tasks -> Statuses], waited' \in [Tasks -> WaitedStatuses],
         clean' \subseteq Tasks, later' \subseteq Tasks
  PROVE  disk' \in [status : [Tasks -> Statuses], waited : [Tasks -> WaitedStatuses],
                    clean : SUBSET Tasks, later : SUBSET Tasks]
  BY DEF Checkpoint, Snapshot

LEMMA NoAbortType ==
  NoAbort \in [batch : SUBSET Tasks, halted : SUBSET Tasks, seen : SUBSET Tasks,
               aborted : SUBSET LaneIds, lanes : SUBSET LaneIds,
               cause : Tasks \cup {NoTask}]
  BY DEF NoAbort

-----------------------------------------------------------------------------
(* Type correctness.                                                       *)

LEMMA InitType == Init => TypeOK
<1> SUFFICES ASSUME Init PROVE TypeOK
  OBVIOUS
<1>1. status \in [Tasks -> Statuses] /\ waited \in [Tasks -> WaitedStatuses]
  BY DEF Init, Statuses, WaitedStatuses
<1>2. disk \in [status : [Tasks -> Statuses], waited : [Tasks -> WaitedStatuses],
                clean : SUBSET Tasks, later : SUBSET Tasks]
  BY <1>1 DEF Init, Snapshot
<1>3. aborts \in 0..MaxAborts /\ restarts \in 0..MaxRestarts
  BY HandlerAssumption DEF Init
<1>4. QED
  BY <1>1, <1>2, <1>3, NoAbortType DEF Init, TypeOK

LEMMA EnsureType == TypeOK /\ EnsureStep => TypeOK'
<1> SUFFICES ASSUME TypeOK, EnsureStep PROVE TypeOK'
  OBVIOUS
<1> USE DEF taskVars, chgVars, runVars, timeVars, lockVars, boundVars
<1>1. CASE EnsureBegin
  BY <1>1 DEF EnsureBegin, TypeOK
<1>2. CASE EnsureEnd
  <2>1. disk' \in [status : [Tasks -> Statuses], waited : [Tasks -> WaitedStatuses],
                   clean : SUBSET Tasks, later : SUBSET Tasks]
    BY <1>2, CheckpointType DEF EnsureEnd, TypeOK
  <2>2. QED
    BY <1>2, <2>1 DEF EnsureEnd, TypeOK
<1>3. ASSUME NEW t \in Tasks, ConsiderKill(t) PROVE TypeOK'
  BY <1>3 DEF ConsiderKill, Considered, TypeOK
<1>4. ASSUME NEW t \in Tasks, ConsiderTryUndo(t) PROVE TypeOK'
  <2>1. TryUndoStatus(t) \in Statuses
    BY DEF TryUndoStatus, Statuses, ReadyStatuses
  <2>2. QED
    BY <1>4, <2>1, SetStatusType DEF ConsiderTryUndo, TryUndo, TypeOK
<1>5. ASSUME NEW t \in Tasks, ConsiderSkip(t) PROVE TypeOK'
  BY <1>5 DEF ConsiderSkip, Considered, TypeOK
<1>6. ASSUME NEW t \in Tasks, ConsiderClean(t) PROVE TypeOK'
  BY <1>6 DEF ConsiderClean, Considered, TypeOK
<1>7. ASSUME NEW t \in Tasks, ConsiderCannotUndo(t) PROVE TypeOK'
  BY <1>7, SetStatusType DEF ConsiderCannotUndo, Considered, TypeOK, Statuses, ReadyStatuses
<1>8. ASSUME NEW t \in Tasks, ConsiderLater(t) PROVE TypeOK'
  BY <1>8 DEF ConsiderLater, Considered, TypeOK
<1>9. ASSUME NEW t \in Tasks, ConsiderBlocked(t) PROVE TypeOK'
  BY <1>9 DEF ConsiderBlocked, Considered, TypeOK
<1>10. ASSUME NEW t \in Tasks, ConsiderRun(t) PROVE TypeOK'
  <2>1. PICK new \in {"Doing", "Undoing"} : SetStatus(t, new)
    BY <1>10 DEF ConsiderRun
  <2>2. new \in Statuses
    BY DEF Statuses
  <2>3. status' \in [Tasks -> Statuses] /\ ready' \in BOOLEAN /\ panicked' \in BOOLEAN
    BY <2>1, <2>2, SetStatusType
  <2>4. QED
    BY <1>10, <2>3 DEF ConsiderRun, Considered, TypeOK
<1>11. QED
  BY <1>1, <1>2, <1>3, <1>4, <1>5, <1>6, <1>7, <1>8, <1>9, <1>10 DEF EnsureStep

LEMMA HandlerType == TypeOK /\ HandlerStep => TypeOK'
<1> SUFFICES ASSUME TypeOK, HandlerStep PROVE TypeOK'
  OBVIOUS
<1> USE DEF taskVars, chgVars, runVars, timeVars, lockVars, boundVars
<1> DEFINE TaskType == /\ status' \in [Tasks -> Statuses] /\ waited' \in [Tasks -> WaitedStatuses]
                       /\ clean' \subseteq Tasks /\ later' \subseteq Tasks
                       /\ ready' \in BOOLEAN /\ panicked' \in BOOLEAN
           DiskType == disk' \in [status : [Tasks -> Statuses], waited : [Tasks -> WaitedStatuses],
                                  clean : SUBSET Tasks, later : SUBSET Tasks]
<1>1. ASSUME NEW t \in Tasks, HandlerSetsStatus(t) PROVE TypeOK'
  <2>1. TaskType
    BY <1>1, SetStatusType DEF HandlerSetsStatus, TypeOK, Statuses, ReadyStatuses
  <2>2. DiskType
    BY <1>1, <2>1, CheckpointType DEF HandlerSetsStatus
  <2>3. QED
    BY <1>1, <2>1, <2>2 DEF HandlerSetsStatus, TypeOK
<1>2. ASSUME NEW t \in Tasks, NEW ws \in WaitedStatuses, HandlerSetsWait(t, ws) PROVE TypeOK'
  <2>1. "Wait" \in Statuses
    BY DEF Statuses
  <2>2. TaskType
    BY <1>2, <2>1, SetStatusType DEF HandlerSetsWait, TypeOK
  <2>3. DiskType
    BY <1>2, <2>2, CheckpointType DEF HandlerSetsWait
  <2>4. QED
    BY <1>2, <2>2, <2>3 DEF HandlerSetsWait, TypeOK
<1>3. ASSUME NEW t \in Tasks, HandlerOk(t) PROVE TypeOK'
  <2>1. \/ \E new \in {"Done", "Undo", "Undone"} : SetStatus(t, new)
        \/ UNCHANGED <<status, chgVars>>
    BY <1>3 DEF HandlerOk
  <2>2. {"Done", "Undo", "Undone"} \subseteq Statuses
    BY DEF Statuses, ReadyStatuses
  <2>3. TaskType
    BY <1>3, <2>1, <2>2, SetStatusType DEF HandlerOk, Return, TypeOK
  <2>4. DiskType
    BY <1>3, <2>3, CheckpointType DEF HandlerOk
  <2>5. ensureSoon' \in BOOLEAN
    BY <1>3 DEF HandlerOk, TypeOK
  <2>6. QED
    BY <1>3, <2>3, <2>4, <2>5 DEF HandlerOk, Return, TypeOK
<1>4. ASSUME NEW t \in Tasks, NEW after \in BOOLEAN, Return(t), Retry(t, after) PROVE TypeOK'
  <2>1. TryUndoStatus(t) \in Statuses
    BY DEF TryUndoStatus, Statuses, ReadyStatuses
  <2>2. TaskType
    BY <1>4, <2>1, SetStatusType DEF Retry, Return, TypeOK
  <2>3. DiskType
    BY <1>4, <2>2, CheckpointType DEF Retry
  <2>4. QED
    BY <1>4, <2>2, <2>3 DEF Retry, Return, TypeOK
<1>5. ASSUME NEW t \in Tasks, NEW after \in BOOLEAN, HandlerRetry(t, after) PROVE TypeOK'
  BY <1>4, <1>5 DEF HandlerRetry
<1>6. ASSUME NEW t \in Tasks, HandlerError(t) PROVE TypeOK'
  <2>1. CASE stopped
    BY <1>4, <1>6, <2>1 DEF HandlerError
  <2>2. CASE ~stopped
    <3>1. ab' \in [batch : SUBSET Tasks, halted : SUBSET Tasks, seen : SUBSET Tasks,
                   aborted : SUBSET LaneIds, lanes : SUBSET LaneIds,
                   cause : Tasks \cup {NoTask}]
      BY <1>6, <2>2, NoAbortType, LaneSetType DEF HandlerError
    <3>2. /\ tombs' \in [Tasks -> {"none", "do", "undo", "cleanup"}] /\ killed' \subseteq Tasks
          /\ UNCHANGED <<stopped, someBlocked, clean, pass, aborts, restarts>>
      BY <1>6 DEF HandlerError, Return, TypeOK
    <3>3. /\ ensureSoon' \in BOOLEAN /\ lock' = "abort"
          /\ UNCHANGED <<status, waited, later, ready, panicked, wake, disk, dirty>>
      BY <1>6, <2>2 DEF HandlerError
    <3>4. QED
      BY <3>1, <3>2, <3>3 DEF TypeOK
  <2>3. QED
    BY <2>1, <2>2
<1>7. ASSUME NEW t \in Tasks, NEW ok \in BOOLEAN, CleanupReturns(t, ok) PROVE TypeOK'
  <2>1. TaskType
    BY <1>7 DEF CleanupReturns, TypeOK
  <2>2. DiskType
    BY <1>7, <2>1, CheckpointType DEF CleanupReturns
  <2>3. QED
    BY <1>7, <2>1, <2>2 DEF CleanupReturns, TypeOK
<1>8. QED
  BY <1>1, <1>2, <1>3, <1>5, <1>6, <1>7 DEF HandlerStep, HandlerReturns

LEMMA AbortedStatusType == TypeOK => \A t \in Tasks : AbortedStatus(t) \in Statuses
  BY DEF TypeOK, AbortedStatus, Statuses, ReadyStatuses

LEMMA AbortType == TypeOK /\ AbortStep => TypeOK'
<1> SUFFICES ASSUME TypeOK, AbortStep PROVE TypeOK'
  OBVIOUS
<1> USE DEF taskVars, chgVars, runVars, timeVars, lockVars, boundVars
<1> DEFINE AbType == [batch : SUBSET Tasks, halted : SUBSET Tasks, seen : SUBSET Tasks,
                      aborted : SUBSET LaneIds, lanes : SUBSET LaneIds,
                      cause : Tasks \cup {NoTask}]
           DiskType == disk' \in [status : [Tasks -> Statuses], waited : [Tasks -> WaitedStatuses],
                                  clean : SUBSET Tasks, later : SUBSET Tasks]
<1>1. CASE UserAbort
  <2>1. ab' \in AbType
    BY <1>1, NoAbortType DEF UserAbort, AbortBegin
  <2>2. aborts' \in 0..MaxAborts
    BY <1>1, HandlerAssumption DEF UserAbort, TypeOK
  <2>3. QED
    BY <1>1, <2>1, <2>2 DEF UserAbort, AbortBegin, TypeOK
<1>2. CASE PruneAbort
  <2>1. ab' \in AbType
    BY <1>2, NoAbortType, UnreadyLanesType DEF PruneAbort, AbortBegin
  <2>2. aborts' \in 0..MaxAborts
    BY <1>2, HandlerAssumption DEF PruneAbort, TypeOK
  <2>3. QED
    BY <1>2, <2>1, <2>2 DEF PruneAbort, AbortBegin, TypeOK
<1>3. ASSUME NEW t \in Tasks, AbortTask(t) PROVE TypeOK'
  <2>1. ab' \in AbType
    BY <1>3, HaltTasksType, LaneSetType DEF AbortTask, TypeOK
  <2>2. status' \in [Tasks -> Statuses] /\ ready' \in BOOLEAN /\ panicked' \in BOOLEAN
    BY <1>3, AbortedStatusType, SetStatusType DEF AbortTask
  <2>3. QED
    BY <1>3, <2>1, <2>2 DEF AbortTask, TypeOK
<1>4. CASE AbortLanes
  <2>1. ab' \in AbType
    BY <1>4, LaneTasksToAbortType DEF AbortLanes, TypeOK
  <2>2. QED
    BY <1>4, <2>1 DEF AbortLanes, TypeOK
<1>5. CASE AbortEnd
  <2>1. DiskType
    BY <1>5, CheckpointType DEF AbortEnd, TypeOK
  <2>2. QED
    BY <1>5, <2>1, NoAbortType DEF AbortEnd, TypeOK
<1>6. CASE AbortEndWithError
  <2>1. ab.cause \in Tasks /\ "Error" \in Statuses
    BY <1>6 DEF AbortEndWithError, TypeOK, Statuses, ReadyStatuses
  <2>2. status' \in [Tasks -> Statuses] /\ ready' \in BOOLEAN /\ panicked' \in BOOLEAN
    BY <1>6, <2>1, SetStatusType DEF AbortEndWithError
  <2>3. DiskType
    BY <1>6, <2>2, CheckpointType DEF AbortEndWithError, TypeOK
  <2>4. ensureSoon' \in BOOLEAN
    BY <1>6 DEF AbortEndWithError, TypeOK
  <2>5. QED
    BY <1>6, <2>2, <2>3, <2>4, NoAbortType DEF AbortEndWithError, TypeOK
<1>7. QED
  BY <1>1, <1>2, <1>3, <1>4, <1>5, <1>6 DEF AbortStep

LEMMA SystemType == TypeOK /\ SystemStep => TypeOK'
<1> SUFFICES ASSUME TypeOK, SystemStep PROVE TypeOK'
  OBVIOUS
<1> USE DEF taskVars, chgVars, runVars, timeVars, lockVars, boundVars
<1> DEFINE DiskType == disk' \in [status : [Tasks -> Statuses], waited : [Tasks -> WaitedStatuses],
                                  clean : SUBSET Tasks, later : SUBSET Tasks]
<1>1. ASSUME NEW t \in Tasks, TimePasses(t) PROVE TypeOK'
  <2>1. DiskType
    BY <1>1, CheckpointType DEF TimePasses, TypeOK
  <2>2. QED
    BY <1>1, <2>1 DEF TimePasses, TypeOK
<1>2. CASE Stop
  BY <1>2 DEF Stop, TypeOK
<1>3. ASSUME NEW rebooted \in BOOLEAN, StartUp(rebooted) PROVE TypeOK'
  <2>1. waited' \in [Tasks -> WaitedStatuses \ {"Default"}]
    BY <1>3 DEF StartUp, TypeOK, WaitedStatuses
  <2>2. \A t \in Tasks : waited'[t] \in Statuses
    BY <2>1 DEF WaitedStatuses, Statuses, ReadyStatuses
  <2>3. status' \in [Tasks -> Statuses]
    BY <1>3, <2>2 DEF StartUp, TypeOK
  <2>4. DiskType
    BY <1>3, <2>1, <2>3, CheckpointType DEF StartUp, TypeOK
  <2>5. ready' \in BOOLEAN
    BY <1>3 DEF StartUp, AllReady
  <2>6. restarts' \in 0..MaxRestarts
    BY <1>3, HandlerAssumption DEF StartUp, TypeOK
  <2>7. QED
    BY <1>3, <2>1, <2>3, <2>4, <2>5, <2>6, NoAbortType DEF StartUp, TypeOK
<1>4. QED
  BY <1>1, <1>2, <1>3 DEF SystemStep, Crash, Exit

LEMMA NextType == TypeOK /\ [Next]_vars => TypeOK'
<1>1. TypeOK /\ Next => TypeOK'
  BY EnsureType, HandlerType, AbortType, SystemType DEF Next
<1>2. TypeOK /\ UNCHANGED vars => TypeOK'
  BY DEF TypeOK, vars, taskVars, chgVars, runVars, timeVars, lockVars, boundVars
<1>3. QED
  BY <1>1, <1>2

\* Type correctness: every variable keeps its type through every handler,
\* abort, crash and restart.
THEOREM TypeCorrect == Spec => []TypeOK
<1>1. QED
  BY InitType, NextType, PTL DEF Spec

-----------------------------------------------------------------------------
(* The inductive invariant.  Each property is stated for memory and for    *)
(* the checkpoint, because a crash exchanges the one for the other; and it *)
(* says what an abort that is under way still owes.                        *)

\* Which tasks an abort has still to visit.
Pending == IF lock = "abort" THEN ab.batch \cup ab.halted ELSE {}

\* The tasks whose do handler was started by the pass under way.
Fresh == IF lock = "ensure" THEN {t \in Tasks : tombs[t] = "do" /\ status[t] = "Doing"} ELSE {}

WaitedSet(st, wd) == \A t \in Tasks : st[t] = "Wait" => wd[t] # "Default"

\* PrerequisitesDone, except for the tasks in owed.
Prereq(st, wd, owed) ==
    \A t \in Tasks : \A w \in WaitTasks[t] :
        Relies(st, wd, t) => st[w] = "Done" \/ t \in owed

Order(st, wd) ==
    \A t \in Tasks : EffectiveStatus(st, wd, t) \in {"Undoing", "Undone"} =>
        \A h \in HaltTasks(t) : OutOfTheWay(st, h)

\* Where no effect is, and where one is or, for fresh tasks, may soon be.
Effects(st, wd, di, fresh) ==
    \A t \in Tasks :
        /\ t \in HasUndo /\ EffectiveStatus(st, wd, t) \in {"Do", "Hold", "Undone"} => t \notin di
        /\ EffectiveStatus(st, wd, t) \in {"Doing", "Done", "Abort", "Undo"} => t \in di \cup fresh

MemoryInv == /\ WaitedSet(status, waited)
             /\ Prereq(status, waited, Pending)
             /\ Order(status, waited)
             /\ Effects(status, waited, dirty, Fresh)

DiskInv == /\ WaitedSet(disk.status, disk.waited)
           /\ Prereq(disk.status, disk.waited, {})
           /\ Order(disk.status, disk.waited)
           /\ Effects(disk.status, disk.waited, dirty, {})

\* What an abort has visited is dead, and what caused it has not finished.
AbortInv ==
    lock = "abort" =>
        /\ \A t \in ab.seen : ~Live(status, waited, t)
        /\ ab.cause # NoTask => status[ab.cause] \in {"Doing", "Undoing", "Abort"}

CleanMemory ==
    \A t \in Tasks : tombs[t] = "cleanup" \/ t \in clean => AllReady(status) /\ lock # "abort"

CleanDisk == disk.clean # {} => AllReady(disk.status)

Saved == lock = "free" => disk = Snapshot(status, waited, clean, later)

Inv == MemoryInv /\ AbortInv /\ ReadyExact /\ CleanMemory

IInv == TypeOK /\ Inv /\ DiskInv /\ CleanDisk /\ Saved

-----------------------------------------------------------------------------
(* What one SetStatus does to each part of the invariant.                  *)

LEMMA OneStatus ==
  ASSUME TypeOK, NEW t \in Tasks, NEW new, SetStatus(t, new)
  PROVE  status'[t] = new /\ \A u \in Tasks : u # t => status'[u] = status[u]
  BY DEF TypeOK, SetStatus

LEMMA OneEffective ==
  ASSUME TypeOK, NEW t \in Tasks, NEW new, SetStatus(t, new),
         \A u \in Tasks : u # t => waited'[u] = waited[u]
  PROVE  \A u \in Tasks : u # t =>
            /\ EffectiveStatus(status', waited', u) = EffectiveStatus(status, waited, u)
            /\ Relies(status', waited', u) = Relies(status, waited, u)
            /\ OutOfTheWay(status', u) = OutOfTheWay(status, u)
            /\ Live(status', waited', u) = Live(status, waited, u)
  BY OneStatus DEF EffectiveStatus, Relies, OutOfTheWay, Live

LEMMA OnePrereq ==
  ASSUME TypeOK, NEW t \in Tasks, NEW new, SetStatus(t, new),
         \A u \in Tasks : u # t => waited'[u] = waited[u],
         NEW P, NEW Q, Prereq(status, waited, P), P \ {t} \subseteq Q,
         Relies(status', waited', t) => \A w \in WaitTasks[t] : status'[w] = "Done",
         status[t] = "Done" => \A h \in HaltTasks(t) : h \in Q \/ ~Relies(status', waited', h)
  PROVE  Prereq(status', waited', Q)
<1> SUFFICES ASSUME NEW u \in Tasks, NEW w \in WaitTasks[u], Relies(status', waited', u)
             PROVE  status'[w] = "Done" \/ u \in Q
  BY DEF Prereq
<1>1. CASE u = t
  BY <1>1
<1>2. CASE u # t
  <2>1. Relies(status, waited, u)
    BY <1>2, OneEffective
  <2>2. status[w] = "Done" \/ u \in P
    BY <2>1 DEF Prereq
  <2>3. w \in Tasks /\ u \in HaltTasks(w)
    BY GraphAssumption DEF HaltTasks
  <2>4. QED
    BY <1>2, <2>2, <2>3, OneStatus
<1>3. QED
  BY <1>1, <1>2

LEMMA OneOrder ==
  ASSUME TypeOK, NEW t \in Tasks, NEW new, SetStatus(t, new),
         \A u \in Tasks : u # t => waited'[u] = waited[u],
         Order(status, waited),
         EffectiveStatus(status', waited', t) \in {"Undoing", "Undone"} =>
             \/ EffectiveStatus(status, waited, t) \in {"Undoing", "Undone"}
             \/ \A h \in HaltTasks(t) : OutOfTheWay(status, h),
         OutOfTheWay(status, t) => OutOfTheWay(status', t)
  PROVE  Order(status', waited')
<1> SUFFICES ASSUME NEW u \in Tasks,
                    EffectiveStatus(status', waited', u) \in {"Undoing", "Undone"},
                    NEW h \in HaltTasks(u)
             PROVE  OutOfTheWay(status', h)
  BY DEF Order
<1>1. OutOfTheWay(status, h)
  <2>1. CASE u = t
    BY <2>1 DEF Order
  <2>2. CASE u # t
    BY <2>2, OneEffective DEF Order
  <2>3. QED
    BY <2>1, <2>2
<1>2. h \in Tasks
  BY HaltTasksType
<1>3. QED
  BY <1>1, <1>2, OneEffective

LEMMA OneReady ==
  ASSUME TypeOK, NEW t \in Tasks, NEW new, SetStatus(t, new), ReadyExact, ~panicked
  PROVE  ReadyExact'
<1>1. DetectChangeReady(t, new) /\ (ready <=> AllReady(status))
  BY DEF SetStatus, ReadyExact
<1>2. CASE \E u \in Tasks \ {t} : ~Ready(status[u])
  <2>1. ~AllReady(status) /\ ~AllReady(status')
    BY <1>2, OneStatus DEF AllReady
  <2>2. UNCHANGED chgVars
    BY <1>1, <1>2 DEF DetectChangeReady
  <2>3. QED
    BY <1>1, <2>1, <2>2 DEF ReadyExact, chgVars
<1>3. CASE \A u \in Tasks \ {t} : Ready(status[u])
  <2>1. (AllReady(status) <=> Ready(status[t])) /\ (AllReady(status') <=> Ready(new))
    BY <1>3, OneStatus DEF AllReady
  <2>2. CASE Ready(status[t]) <=> Ready(new)
    <3>1. UNCHANGED chgVars
      BY <1>1, <2>2 DEF DetectChangeReady, Ready
    <3>2. QED
      BY <1>1, <2>1, <2>2, <3>1 DEF ReadyExact, chgVars
  <2>3. CASE ~(Ready(status[t]) <=> Ready(new))
    BY <1>1, <1>3, <2>1, <2>3 DEF DetectChangeReady, ReadyExact, Ready
  <2>4. QED
    BY <2>2, <2>3
<1>4. QED
  BY <1>2, <1>3

LEMMA OneEffects ==
  ASSUME TypeOK, NEW t \in Tasks, NEW new, SetStatus(t, new),
         \A u \in Tasks : u # t => waited'[u] = waited[u],
         NEW F, NEW G, Effects(status, waited, dirty, F), F \ {t} \subseteq G,
         \A u \in Tasks : u # t => (u \in dirty' <=> u \in dirty),
         t \in HasUndo /\ EffectiveStatus(status', waited', t) \in {"Do", "Hold", "Undone"}
             => t \notin dirty',
         EffectiveStatus(status', waited', t) \in {"Doing", "Done", "Abort", "Undo"}
             => t \in dirty' \cup G
  PROVE  Effects(status', waited', dirty', G)
<1> SUFFICES ASSUME NEW u \in Tasks
             PROVE  /\ u \in HasUndo /\ EffectiveStatus(status', waited', u) \in {"Do", "Hold", "Undone"}
                         => u \notin dirty'
                    /\ EffectiveStatus(status', waited', u) \in {"Doing", "Done", "Abort", "Undo"}
                         => u \in dirty' \cup G
  BY DEF Effects
<1>1. CASE u = t
  BY <1>1
<1>2. CASE u # t
  <2>1. EffectiveStatus(status', waited', u) = EffectiveStatus(status, waited, u)
    BY <1>2, OneEffective
  <2>2. QED
    BY <1>2, <2>1 DEF Effects
<1>3. QED
  BY <1>1, <1>2

LEMMA OneWaitedSet ==
  ASSUME TypeOK, NEW t \in Tasks, NEW new, SetStatus(t, new),
         \A u \in Tasks : u # t => waited'[u] = waited[u],
         WaitedSet(status, waited), new = "Wait" => waited'[t] # "Default"
  PROVE  WaitedSet(status', waited')
  BY OneStatus DEF WaitedSet

\* While a task is not ready, or while an abort runs, nothing is being cleaned.
LEMMA OneClean ==
  ASSUME CleanMemory, ~AllReady(status) \/ lock = "abort", clean' = clean,
         \A u \in Tasks : tombs'[u] = "cleanup" => tombs[u] = "cleanup"
  PROVE  CleanMemory'
  BY DEF CleanMemory

\* A step that changes no status and no effect keeps the invariant as long as
\* the debts of the abort and of the pass do not shrink.
LEMMA SameMemory ==
  ASSUME MemoryInv, UNCHANGED <<status, waited, dirty>>,
         Pending \subseteq Pending', Fresh \subseteq Fresh'
  PROVE  MemoryInv'
<1>1. WaitedSet(status, waited)' /\ Order(status, waited)'
  BY DEF MemoryInv, WaitedSet, Order, OutOfTheWay, EffectiveStatus
<1>2. Prereq(status, waited, Pending)'
  BY DEF MemoryInv, Prereq, Relies, EffectiveStatus
<1>3. Effects(status, waited, dirty, Fresh)'
  BY DEF MemoryInv, Effects, EffectiveStatus
<1>4. QED
  BY <1>1, <1>2, <1>3 DEF MemoryInv

LEMMA NoDebts == /\ lock # "abort" => Pending = {}
                 /\ lock # "ensure" => Fresh = {}
  BY DEF Pending, Fresh

-----------------------------------------------------------------------------
(* Ensure.                                                                 *)

LEMMA EnsureInv == IInv /\ EnsureStep => Inv'
<1> SUFFICES ASSUME IInv, EnsureStep PROVE Inv'
  OBVIOUS
<1> USE DEF taskVars, chgVars, runVars, timeVars, lockVars, boundVars
<1>0. TypeOK /\ Inv /\ MemoryInv
  BY DEF IInv, Inv
<1>1. CASE EnsureBegin
  <2>1. MemoryInv'
    BY <1>0, <1>1, NoDebts, SameMemory DEF EnsureBegin, Holds, Pending
  <2>2. AbortInv' /\ ReadyExact' /\ CleanMemory'
    BY <1>0, <1>1 DEF EnsureBegin, Inv, AbortInv, ReadyExact, CleanMemory, AllReady
  <2>3. QED
    BY <2>1, <2>2 DEF Inv
<1>2. CASE EnsureEnd
  <2>1. WaitedSet(status, waited)' /\ Order(status, waited)'
    BY <1>0, <1>2 DEF EnsureEnd, MemoryInv, WaitedSet, Order, OutOfTheWay, EffectiveStatus
  <2>2. Prereq(status, waited, Pending)'
    BY <1>0, <1>2 DEF EnsureEnd, Holds, MemoryInv, Prereq, Relies, EffectiveStatus, Pending
  <2>3. dirty' = dirty \cup Fresh
    BY <1>2 DEF EnsureEnd, Holds, Fresh
  <2>4. \A t \in Fresh : EffectiveStatus(status, waited, t) = "Doing"
    BY DEF Fresh, EffectiveStatus
  <2>5. Effects(status, waited, dirty, Fresh)'
    BY <1>0, <1>2, <2>3, <2>4 DEF EnsureEnd, MemoryInv, Effects, EffectiveStatus
  <2>6. AbortInv' /\ ReadyExact' /\ CleanMemory'
    BY <1>0, <1>2 DEF EnsureEnd, Inv, AbortInv, ReadyExact, CleanMemory, AllReady
  <2>7. QED
    BY <2>1, <2>2, <2>5, <2>6 DEF Inv, MemoryInv
<1>3. ASSUME NEW t \in Tasks, ConsiderKill(t) \/ ConsiderSkip(t) \/ ConsiderLater(t) \/ ConsiderBlocked(t)
      PROVE  Inv'
  <2>1. UNCHANGED <<taskVars, chgVars, tombs, lock, ab, dirty>> /\ lock = "ensure"
    BY <1>3 DEF ConsiderKill, ConsiderSkip, ConsiderLater, ConsiderBlocked, Considered, Holds
  <2>2. MemoryInv'
    BY <1>0, <2>1, SameMemory DEF Pending, Fresh
  <2>3. AbortInv' /\ ReadyExact' /\ CleanMemory'
    BY <1>0, <2>1 DEF Inv, AbortInv, ReadyExact, CleanMemory, AllReady
  <2>4. QED
    BY <2>2, <2>3 DEF Inv
<1>4. ASSUME NEW t \in Tasks, ConsiderClean(t) PROVE Inv'
  <2>1. /\ UNCHANGED <<status, waited, chgVars, lock, ab, dirty>> /\ lock = "ensure"
        /\ ready /\ ~panicked
    BY <1>4 DEF ConsiderClean, Considered, Holds
  <2>2. Fresh \subseteq Fresh'
    BY <1>0, <1>4, <2>1 DEF Fresh, ConsiderClean, TypeOK
  <2>3. MemoryInv'
    BY <1>0, <2>1, <2>2, SameMemory DEF Pending
  <2>4. CleanMemory'
    BY <1>0, <2>1 DEF Inv, ReadyExact, CleanMemory, AllReady
  <2>5. AbortInv' /\ ReadyExact'
    BY <1>0, <2>1 DEF Inv, AbortInv, ReadyExact, AllReady
  <2>6. QED
    BY <2>3, <2>4, <2>5 DEF Inv
<1>5. ASSUME NEW t \in Tasks, ConsiderTryUndo(t) PROVE Inv'
  <2> DEFINE new == TryUndoStatus(t)
  <2>1. /\ SetStatus(t, new) /\ status[t] = "Abort" /\ ~panicked /\ lock = "ensure"
        /\ UNCHANGED <<waited, clean, tombs, lock, ab, dirty>>
    BY <1>5 DEF ConsiderTryUndo, TryUndo, Holds
  <2>2. new = "Undo" \/ (new = "Hold" /\ t \notin HasUndo)
    BY DEF TryUndoStatus
  <2>3. EffectiveStatus(status, waited, t) = "Abort" /\ EffectiveStatus(status', waited', t) = new
    BY <1>0, <2>1, <2>2, OneStatus DEF EffectiveStatus
  <2>4. ~Relies(status', waited', t) /\ ~OutOfTheWay(status, t)
    BY <2>1, <2>2, <2>3 DEF Relies, OutOfTheWay
  <2>5. Prereq(status', waited', Pending')
    BY <1>0, <2>1, <2>4, NoDebts, OnePrereq DEF MemoryInv
  <2>6. Order(status', waited')
    BY <1>0, <2>1, <2>2, <2>3, <2>4, OneOrder DEF MemoryInv
  <2>7. Fresh \ {t} \subseteq Fresh' /\ t \notin Fresh
    BY <1>0, <2>1, OneStatus DEF Fresh
  <2>8. Effects(status', waited', dirty', Fresh')
    BY <1>0, <2>1, <2>2, <2>3, <2>7, OneEffects DEF MemoryInv, Effects
  <2>9. WaitedSet(status', waited')
    BY <1>0, <2>1, <2>2, OneWaitedSet DEF MemoryInv
  <2>10. ReadyExact' /\ AbortInv'
    BY <1>0, <2>1, OneReady DEF Inv, AbortInv
  <2>11. ~AllReady(status)
    BY <2>1 DEF AllReady, Ready, ReadyStatuses
  <2>12. CleanMemory'
    BY <1>0, <2>1, <2>11, OneClean DEF Inv
  <2>13. QED
    BY <2>5, <2>6, <2>8, <2>9, <2>10, <2>12 DEF Inv, MemoryInv
<1>6. ASSUME NEW t \in Tasks, ConsiderCannotUndo(t) PROVE Inv'
  <2>1. /\ SetStatus(t, "Done") /\ status[t] = "Undo" /\ t \notin HasUndo /\ ~panicked
        /\ lock = "ensure" /\ UNCHANGED <<waited, clean, tombs, lock, ab, dirty>>
    BY <1>6 DEF ConsiderCannotUndo, CannotUndo, Considered, Holds
  <2>2. EffectiveStatus(status, waited, t) = "Undo" /\ EffectiveStatus(status', waited', t) = "Done"
    BY <1>0, <2>1, OneStatus DEF EffectiveStatus
  <2>3. ~Relies(status', waited', t) /\ OutOfTheWay(status', t)
    BY <1>0, <2>1, <2>2, OneStatus DEF Relies, OutOfTheWay
  <2>4. Prereq(status', waited', Pending')
    BY <1>0, <2>1, <2>3, NoDebts, OnePrereq DEF MemoryInv
  <2>5. Order(status', waited')
    BY <1>0, <2>1, <2>2, <2>3, OneOrder DEF MemoryInv
  <2>6. Fresh \ {t} \subseteq Fresh' /\ t \notin Fresh
    BY <1>0, <2>1, OneStatus DEF Fresh
  <2>7. Effects(status', waited', dirty', Fresh')
    BY <1>0, <2>1, <2>2, <2>6, OneEffects DEF MemoryInv, Effects
  <2>8. WaitedSet(status', waited')
    BY <1>0, <2>1, OneWaitedSet DEF MemoryInv
  <2>9. ReadyExact' /\ AbortInv'
    BY <1>0, <2>1, OneReady DEF Inv, AbortInv
  <2>10. ~AllReady(status)
    BY <2>1 DEF AllReady, Ready, ReadyStatuses
  <2>11. CleanMemory'
    BY <1>0, <2>1, <2>10, OneClean DEF Inv
  <2>12. QED
    BY <2>4, <2>5, <2>7, <2>8, <2>9, <2>11 DEF Inv, MemoryInv
<1>7. ASSUME NEW t \in Tasks, ConsiderRun(t) PROVE Inv'
  <2> DEFINE do == status[t] \in {"Do", "Doing"}
             new == IF do THEN "Doing" ELSE "Undoing"
  <2>1. /\ SetStatus(t, new) /\ ~panicked /\ lock = "ensure"
        /\ UNCHANGED <<waited, clean, lock, ab, dirty>>
        /\ tombs' = [tombs EXCEPT ![t] = IF do THEN "do" ELSE "undo"]
    BY <1>7 DEF ConsiderRun, Considered, Holds
  <2>2. /\ tombs[t] = "none" /\ ~MustWait(status, t)
        /\ status[t] \in {"Do", "Doing", "Undo", "Undoing"}
        /\ ~(status[t] = "Undo" /\ t \notin HasUndo)
    BY <1>7 DEF ConsiderRun, Due, CannotUndo
  <2>3. /\ EffectiveStatus(status, waited, t) = status[t]
        /\ EffectiveStatus(status', waited', t) = new
    BY <1>0, <2>1, <2>2, OneStatus DEF EffectiveStatus
  <2>4. Relies(status', waited', t) => \A w \in WaitTasks[t] : status'[w] = "Done"
    <3> SUFFICES ASSUME Relies(status', waited', t), NEW w \in WaitTasks[t]
                 PROVE  status'[w] = "Done"
      OBVIOUS
    <3>1. status[t] \in {"Do", "Doing"}
      BY <2>3 DEF Relies
    <3>2. status[w] = "Done"
      <4>1. CASE status[t] = "Do"
        BY <2>2, <4>1 DEF MustWait
      <4>2. CASE status[t] = "Doing"
        BY <1>0, <2>1, <2>3, <4>2, NoDebts DEF MemoryInv, Prereq, Relies
      <4>3. QED
        BY <3>1, <4>1, <4>2
    <3>3. w \in Tasks /\ w # t
      BY <3>1, <3>2, GraphAssumption
    <3>4. QED
      BY <1>0, <2>1, <3>2, <3>3, OneStatus
  <2>5. Prereq(status', waited', Pending')
    BY <1>0, <2>1, <2>2, <2>4, NoDebts, OnePrereq DEF MemoryInv
  <2>6. new = "Undoing" /\ status[t] = "Undo" => \A h \in HaltTasks(t) : OutOfTheWay(status, h)
    <3> SUFFICES ASSUME status[t] = "Undo", NEW h \in HaltTasks(t) PROVE OutOfTheWay(status, h)
      OBVIOUS
    <3>1. Ready(status[h])
      BY <2>2 DEF MustWait
    <3>2. h \in Tasks /\ t \in WaitTasks[h]
      BY DEF HaltTasks
    <3>3. ~Relies(status, waited, h)
      BY <1>0, <2>1, <3>2, NoDebts DEF MemoryInv, Prereq
    <3>4. QED
      BY <3>1, <3>2, <3>3 DEF OutOfTheWay, Relies, EffectiveStatus, Ready, ReadyStatuses
  <2>7. ~OutOfTheWay(status, t)
    BY <2>2 DEF OutOfTheWay
  <2>8. Order(status', waited')
    BY <1>0, <2>1, <2>2, <2>3, <2>6, <2>7, OneOrder DEF MemoryInv
  <2>9. Fresh \ {t} \subseteq Fresh' /\ t \notin Fresh
    BY <1>0, <2>1, <2>2, OneStatus DEF Fresh, TypeOK
  <2>10. new = "Doing" => t \in Fresh'
    BY <1>0, <2>1, OneStatus DEF Fresh, TypeOK
  <2>11. Effects(status', waited', dirty', Fresh')
    BY <1>0, <2>1, <2>3, <2>9, <2>10, OneEffects DEF MemoryInv
  <2>12. WaitedSet(status', waited')
    BY <1>0, <2>1, OneWaitedSet DEF MemoryInv
  <2>13. ReadyExact' /\ AbortInv'
    BY <1>0, <2>1, OneReady DEF Inv, AbortInv
  <2>14. ~AllReady(status)
    BY <2>2 DEF AllReady, Ready, ReadyStatuses
  <2>15. CleanMemory'
    BY <1>0, <2>1, <2>14, OneClean DEF Inv, TypeOK
  <2>16. QED
    BY <2>5, <2>8, <2>11, <2>12, <2>13, <2>15 DEF Inv, MemoryInv
<1>8. QED
  BY <1>1, <1>2, <1>3, <1>4, <1>5, <1>6, <1>7 DEF EnsureStep

-----------------------------------------------------------------------------
(* Handlers.                                                               *)

\* What the status change of a task in progress does to the invariant: the
\* three ways a handler can be over, or say that it is.
LEMMA Finished ==
  ASSUME TypeOK, Inv, lock = "free", lock' = "free", ~panicked,
         NEW t \in Tasks, NEW new, SetStatus(t, new), clean' = clean,
         \A u \in Tasks : tombs'[u] = "cleanup" => tombs[u] = "cleanup",
         \A u \in Tasks : u # t => waited'[u] = waited[u],
         new = "Wait" => waited'[t] # "Default",
         LET e == EffectiveStatus(status', waited', t)
         IN  \/ /\ status[t] = "Doing" /\ dirty' = dirty
                /\ e = "Done" \/ (e = "Do" /\ t \notin HasUndo)
             \/ /\ status[t] = "Undoing" /\ dirty' = dirty \ {t}
                /\ e = "Undone"
             \/ /\ status[t] = "Abort" /\ dirty' = dirty
                /\ e = "Undo" \/ (e = "Hold" /\ t \notin HasUndo)
  PROVE  Inv'
<1> DEFINE e == EffectiveStatus(status', waited', t)
<1>1. MemoryInv /\ Pending = {} /\ Fresh = {} /\ Pending' = {} /\ Fresh' = {}
  BY DEF Inv, Pending, Fresh
<1>2. EffectiveStatus(status, waited, t) = status[t] /\ status[t] \in {"Doing", "Undoing", "Abort"}
  BY DEF EffectiveStatus
<1>3. Relies(status', waited', t) => \A w \in WaitTasks[t] : status'[w] = "Done"
  <2> SUFFICES ASSUME Relies(status', waited', t), NEW w \in WaitTasks[t]
               PROVE  status'[w] = "Done"
    OBVIOUS
  <2>1. status[t] = "Doing"
    BY DEF Relies
  <2>2. status[w] = "Done"
    BY <1>1, <1>2, <2>1 DEF MemoryInv, Prereq, Relies
  <2>3. w \in Tasks /\ w # t
    BY <2>1, <2>2, GraphAssumption
  <2>4. QED
    BY <2>2, <2>3, OneStatus
<1>4. Prereq(status', waited', Pending')
  BY <1>1, <1>2, <1>3, OnePrereq DEF MemoryInv
<1>5. ~OutOfTheWay(status, t)
  BY <1>2 DEF OutOfTheWay
<1>6. Order(status', waited')
  BY <1>1, <1>2, <1>5, OneOrder DEF MemoryInv
<1>7. Effects(status', waited', dirty', Fresh')
  <2>1. status[t] \in {"Doing", "Abort"} => t \in dirty
    BY <1>1, <1>2 DEF MemoryInv, Effects
  <2>2. QED
    BY <1>1, <2>1, OneEffects DEF MemoryInv
<1>8. WaitedSet(status', waited')
  BY <1>1, OneWaitedSet DEF MemoryInv
<1>9. ReadyExact' /\ AbortInv'
  BY OneReady DEF Inv, AbortInv
<1>10. ~AllReady(status)
  BY <1>2 DEF AllReady, Ready, ReadyStatuses
<1>11. CleanMemory'
  BY <1>10, OneClean DEF Inv
<1>12. QED
  BY <1>4, <1>6, <1>7, <1>8, <1>9, <1>11 DEF Inv, MemoryInv

\* A step under a free lock that changes no status and cleans nothing anew.
LEMMA Unfinished ==
  ASSUME Inv, lock = "free", lock' = "free", UNCHANGED <<status, waited, chgVars, clean, dirty>>,
         \A u \in Tasks : tombs'[u] = "cleanup" => tombs[u] = "cleanup"
  PROVE  Inv'
<1>1. MemoryInv'
  BY NoDebts, SameMemory DEF Inv
<1>2. AbortInv' /\ ReadyExact' /\ CleanMemory'
  BY DEF Inv, AbortInv, ReadyExact, CleanMemory, AllReady, chgVars
<1>3. QED
  BY <1>1, <1>2 DEF Inv

LEMMA HandlerInv == IInv /\ HandlerStep => Inv'
<1> SUFFICES ASSUME IInv, HandlerStep PROVE Inv'
  OBVIOUS
<1> USE DEF taskVars, chgVars, runVars, timeVars, lockVars, boundVars
<1>0. TypeOK /\ Inv
  BY DEF IInv
<1>1. ASSUME NEW t \in Tasks, HandlerSetsStatus(t) PROVE Inv'
  <2>1. PICK new \in {"Done", "Undone"} :
           /\ SetStatus(t, new)
           /\ \/ status[t] = "Doing" /\ new = "Done" /\ dirty' = dirty
              \/ status[t] = "Undoing" /\ new = "Undone" /\ dirty' = dirty \ {t}
    BY <1>1 DEF HandlerSetsStatus
  <2>2. EffectiveStatus(status', waited', t) = new
    BY <1>0, <2>1, OneStatus DEF EffectiveStatus
  <2>3. /\ lock = "free" /\ ~panicked /\ UNCHANGED <<waited, clean, tombs, lock>>
    BY <1>1 DEF HandlerSetsStatus, Running, Holds
  <2>4. QED
    BY <1>0, <2>1, <2>2, <2>3, Finished
<1>2. ASSUME NEW t \in Tasks, NEW ws \in WaitedStatuses, HandlerSetsWait(t, ws) PROVE Inv'
  <2>1. /\ SetStatus(t, "Wait") /\ waited' = [waited EXCEPT ![t] = ws]
        /\ lock = "free" /\ ~panicked /\ UNCHANGED <<clean, tombs, lock>>
    BY <1>2 DEF HandlerSetsWait, Running, Holds
  <2>2. /\ waited'[t] = ws /\ \A u \in Tasks : u # t => waited'[u] = waited[u]
    BY <1>0, <2>1 DEF TypeOK
  <2>3. EffectiveStatus(status', waited', t) = ws
    BY <1>0, <2>1, <2>2, OneStatus DEF EffectiveStatus
  <2>4. /\ ws # "Default"
        /\ \/ status[t] = "Doing" /\ dirty' = dirty /\ (ws = "Done" \/ (ws = "Do" /\ t \notin HasUndo))
           \/ status[t] = "Undoing" /\ dirty' = dirty \ {t} /\ ws = "Undone"
    BY <1>2 DEF HandlerSetsWait
  <2>5. QED
    BY <1>0, <2>1, <2>2, <2>3, <2>4, Finished
<1>3. ASSUME NEW t \in Tasks, HandlerOk(t) PROVE Inv'
  <2>1. /\ lock = "free" /\ ~panicked /\ UNCHANGED <<waited, clean, lock>>
        /\ tombs' = [tombs EXCEPT ![t] = "none"]
    BY <1>3 DEF HandlerOk, Return, Running, Holds
  <2>2. \A u \in Tasks : tombs'[u] = "cleanup" => tombs[u] = "cleanup"
    BY <1>0, <2>1 DEF TypeOK
  <2>3. CASE status[t] \in {"Doing", "Abort", "Undoing"}
    <3>1. PICK new \in {"Done", "Undo", "Undone"} :
             /\ SetStatus(t, new)
             /\ \/ status[t] = "Doing" /\ new = "Done" /\ dirty' = dirty
                \/ status[t] = "Abort" /\ new = "Undo" /\ dirty' = dirty
                \/ status[t] = "Undoing" /\ new = "Undone" /\ dirty' = dirty \ {t}
      BY <1>3, <2>3 DEF HandlerOk
    <3>2. EffectiveStatus(status', waited', t) = new
      BY <1>0, <3>1, OneStatus DEF EffectiveStatus
    <3>3. QED
      BY <1>0, <2>1, <2>2, <3>1, <3>2, Finished
  <2>4. CASE status[t] \notin {"Doing", "Abort", "Undoing"}
    <3>1. UNCHANGED <<status, chgVars, dirty>>
      BY <1>3, <2>4 DEF HandlerOk
    <3>2. QED
      BY <1>0, <2>1, <2>2, <3>1, Unfinished
  <2>5. QED
    BY <2>3, <2>4
<1>4. ASSUME NEW t \in Tasks, NEW after \in BOOLEAN, Return(t), Retry(t, after) PROVE Inv'
  <2>1. /\ lock = "free" /\ ~panicked /\ UNCHANGED <<waited, clean, lock, dirty>>
        /\ tombs' = [tombs EXCEPT ![t] = "none"]
    BY <1>4 DEF Retry, Return, Running, Holds
  <2>2. \A u \in Tasks : tombs'[u] = "cleanup" => tombs[u] = "cleanup"
    BY <1>0, <2>1 DEF TypeOK
  <2>3. CASE status[t] = "Abort"
    <3> DEFINE new == TryUndoStatus(t)
    <3>1. SetStatus(t, new) /\ (new = "Undo" \/ (new = "Hold" /\ t \notin HasUndo))
      BY <1>4, <2>3 DEF Retry, TryUndoStatus
    <3>2. EffectiveStatus(status', waited', t) = new
      BY <1>0, <3>1, OneStatus DEF EffectiveStatus
    <3>3. QED
      BY <1>0, <2>1, <2>2, <2>3, <3>1, <3>2, Finished
  <2>4. CASE status[t] # "Abort"
    <3>1. UNCHANGED <<status, chgVars>>
      BY <1>4, <2>4 DEF Retry
    <3>2. QED
      BY <1>0, <2>1, <2>2, <3>1, Unfinished
  <2>5. QED
    BY <2>3, <2>4
<1>5. ASSUME NEW t \in Tasks, NEW after \in BOOLEAN, HandlerRetry(t, after) PROVE Inv'
  BY <1>4, <1>5 DEF HandlerRetry
<1>6. ASSUME NEW t \in Tasks, HandlerError(t) PROVE Inv'
  <2>1. CASE stopped
    BY <1>4, <1>6, <2>1 DEF HandlerError
  <2>2. CASE ~stopped
    <3>1. /\ lock = "free" /\ lock' = "abort" /\ UNCHANGED <<status, waited, clean, chgVars, dirty>>
          /\ tombs' = [tombs EXCEPT ![t] = "none"]
          /\ status[t] \in {"Doing", "Undoing", "Abort"}
          /\ ab' = [NoAbort EXCEPT !.lanes = LaneSet(t), !.cause = t]
      BY <1>6, <2>2 DEF HandlerError, Return, Running, Holds
    <3>2. MemoryInv'
      BY <1>0, <3>1, NoDebts, SameMemory DEF Inv
    <3>3. ab'.seen = {} /\ ab'.cause = t
      BY <3>1 DEF NoAbort
    <3>4. AbortInv' /\ ReadyExact'
      BY <1>0, <3>1, <3>3 DEF Inv, AbortInv, ReadyExact, AllReady
    <3>5. ~AllReady(status)
      BY <3>1 DEF AllReady, Ready, ReadyStatuses
    <3>6. CleanMemory'
      BY <1>0, <3>1, <3>5, OneClean DEF Inv, TypeOK
    <3>7. QED
      BY <3>2, <3>4, <3>6 DEF Inv
  <2>3. QED
    BY <2>1, <2>2
<1>7. ASSUME NEW t \in Tasks, NEW ok \in BOOLEAN, CleanupReturns(t, ok) PROVE Inv'
  <2>1. /\ lock = "free" /\ UNCHANGED <<status, waited, chgVars, dirty, lock, ab>>
        /\ tombs[t] = "cleanup" /\ tombs' = [tombs EXCEPT ![t] = "none"]
        /\ clean' = IF ok THEN clean \cup {t} ELSE clean
    BY <1>7 DEF CleanupReturns, Holds
  <2>2. MemoryInv'
    BY <1>0, <2>1, NoDebts, SameMemory DEF Inv
  <2>3. AbortInv' /\ ReadyExact'
    BY <1>0, <2>1 DEF Inv, AbortInv, ReadyExact, AllReady
  <2>4. CleanMemory'
    BY <1>0, <2>1 DEF Inv, CleanMemory, AllReady, TypeOK
  <2>5. QED
    BY <2>2, <2>3, <2>4 DEF Inv
<1>8. QED
  BY <1>1, <1>2, <1>3, <1>5, <1>6, <1>7 DEF HandlerStep, HandlerReturns

-----------------------------------------------------------------------------
(* Aborting.                                                               *)

LEMMA AbortKeepsInv == IInv /\ AbortStep => Inv'
<1> SUFFICES ASSUME IInv, AbortStep PROVE Inv'
  OBVIOUS
<1> USE DEF taskVars, chgVars, runVars, timeVars, lockVars, boundVars
<1>0. TypeOK /\ Inv /\ MemoryInv
  BY DEF IInv, Inv
<1>1. ASSUME NEW work, AbortBegin(work), ~ready, work.seen = {}, work.cause = NoTask
      PROVE  Inv'
  <2>1. /\ lock = "free" /\ lock' = "abort" /\ ab' = work /\ ~panicked
        /\ UNCHANGED <<status, waited, clean, chgVars, dirty, tombs>>
    BY <1>1 DEF AbortBegin, Holds
  <2>2. MemoryInv'
    BY <1>0, <2>1, NoDebts, SameMemory
  <2>3. AbortInv' /\ ReadyExact'
    BY <1>0, <1>1, <2>1 DEF Inv, AbortInv, ReadyExact, AllReady
  <2>4. ~AllReady(status)
    BY <1>0, <1>1, <2>1 DEF Inv, ReadyExact
  <2>5. CleanMemory'
    BY <1>0, <2>1, <2>4, OneClean DEF Inv
  <2>6. QED
    BY <2>2, <2>3, <2>5 DEF Inv
<1>2. CASE UserAbort
  BY <1>1, <1>2 DEF UserAbort, NoAbort
<1>3. CASE PruneAbort
  BY <1>1, <1>3 DEF PruneAbort, NoAbort
<1>4. ASSUME NEW t \in Tasks, AbortTask(t) PROVE Inv'
  <2> DEFINE new == AbortedStatus(t)
             old == EffectiveStatus(status, waited, t)
  <2>1. /\ SetStatus(t, new) /\ lock = "abort" /\ ~panicked
        /\ UNCHANGED <<waited, clean, tombs, lock, dirty>>
    BY <1>4 DEF AbortTask, Holds
  <2>2. /\ ab'.seen = ab.seen \cup {t} /\ ab'.cause = ab.cause
        /\ ab'.batch = ab.batch \ {t}
        /\ ab'.halted = (ab.halted \cup HaltTasks(t)) \ (ab.seen \cup {t})
    BY <1>0, <1>4 DEF AbortTask, TypeOK
  <2>3. \/ old = "Do" /\ new = "Hold"
        \/ old = "Doing" /\ new = "Abort"
        \/ old = "Done" /\ new = "Undo"
        \/ old \notin {"Do", "Doing", "Done"} /\ new = status[t]
    BY DEF AbortedStatus
  <2>4. /\ old \in {"Do", "Doing", "Done"} => EffectiveStatus(status', waited', t) = new
        /\ old \notin {"Do", "Doing", "Done"} => EffectiveStatus(status', waited', t) = old
    BY <1>0, <2>1, <2>3, OneStatus DEF EffectiveStatus
  <2>5. ~Live(status', waited', t) /\ ~Relies(status', waited', t)
    BY <2>3, <2>4 DEF Live, Relies
  <2>6. \A u \in ab'.seen : ~Live(status', waited', u) /\ ~Relies(status', waited', u)
    <3> SUFFICES ASSUME NEW u \in ab.seen, u # t
                 PROVE  ~Live(status', waited', u) /\ ~Relies(status', waited', u)
      BY <2>2, <2>5
    <3>1. u \in Tasks /\ ~Live(status, waited, u)
      BY <1>0, <2>1 DEF Inv, AbortInv, TypeOK
    <3>2. ~Live(status', waited', u)
      BY <1>0, <2>1, <3>1, OneEffective
    <3>3. QED
      BY <3>2 DEF Live, Relies
  <2>7. Pending' = ab'.batch \cup ab'.halted /\ Pending = ab.batch \cup ab.halted /\ Fresh = {} /\ Fresh' = {}
    BY <2>1 DEF Pending, Fresh
  <2>8. Prereq(status', waited', Pending' \cup ab'.seen)
    BY <1>0, <2>1, <2>2, <2>5, <2>7, OnePrereq DEF MemoryInv
  <2>9. Prereq(status', waited', Pending')
    BY <2>6, <2>8 DEF Prereq
  <2>10. OutOfTheWay(status, t) => OutOfTheWay(status', t)
    BY <1>0, <2>1, <2>3, OneStatus DEF OutOfTheWay, EffectiveStatus
  <2>11. Order(status', waited')
    BY <1>0, <2>1, <2>3, <2>4, <2>10, OneOrder DEF MemoryInv
  <2>12. Effects(status', waited', dirty', Fresh')
    <3>1. /\ t \in HasUndo /\ old \in {"Do", "Hold", "Undone"} => t \notin dirty
          /\ old \in {"Doing", "Done", "Abort", "Undo"} => t \in dirty
      BY <1>0, <2>7 DEF MemoryInv, Effects
    <3>2. /\ t \in HasUndo /\ EffectiveStatus(status', waited', t) \in {"Do", "Hold", "Undone"}
              => t \notin dirty
          /\ EffectiveStatus(status', waited', t) \in {"Doing", "Done", "Abort", "Undo"}
              => t \in dirty
      BY <2>3, <2>4, <3>1
    <3>3. QED
      BY <1>0, <2>1, <2>7, <3>2, OneEffects DEF MemoryInv
  <2>13. WaitedSet(status', waited')
    BY <1>0, <2>1, <2>3, OneWaitedSet DEF MemoryInv, WaitedSet
  <2>14. ReadyExact'
    BY <1>0, <2>1, OneReady DEF Inv
  <2>15. ab'.cause # NoTask => status'[ab'.cause] \in {"Doing", "Undoing", "Abort"}
    <3> SUFFICES ASSUME ab.cause # NoTask
                 PROVE  status'[ab.cause] \in {"Doing", "Undoing", "Abort"}
      BY <2>2
    <3>1. ab.cause \in Tasks /\ status[ab.cause] \in {"Doing", "Undoing", "Abort"}
      BY <1>0, <2>1 DEF Inv, AbortInv, TypeOK
    <3>2. CASE ab.cause # t
      BY <1>0, <2>1, <3>1, <3>2, OneStatus
    <3>3. CASE ab.cause = t
      BY <1>0, <2>1, <2>3, <3>1, <3>3, OneStatus DEF EffectiveStatus
    <3>4. QED
      BY <3>2, <3>3
  <2>16. AbortInv'
    BY <2>6, <2>15 DEF AbortInv
  <2>17. CleanMemory'
    BY <1>0, <2>1, OneClean DEF Inv
  <2>18. QED
    BY <2>9, <2>11, <2>12, <2>13, <2>14, <2>16, <2>17 DEF Inv, MemoryInv
<1>5. CASE AbortLanes
  <2>1. /\ lock = "abort" /\ ab.batch = {} /\ ab.halted = {}
        /\ UNCHANGED <<status, waited, clean, chgVars, dirty, tombs, lock>>
    BY <1>5 DEF AbortLanes, Holds
  <2>2. ab'.seen = ab.seen /\ ab'.cause = ab.cause
    BY <1>0, <1>5 DEF AbortLanes, TypeOK
  <2>3. MemoryInv'
    BY <1>0, <2>1, NoDebts, SameMemory DEF Pending
  <2>4. AbortInv' /\ ReadyExact'
    BY <1>0, <2>1, <2>2 DEF Inv, AbortInv, ReadyExact, AllReady, Live, EffectiveStatus
  <2>5. CleanMemory'
    BY <1>0, <2>1, OneClean DEF Inv
  <2>6. QED
    BY <2>3, <2>4, <2>5 DEF Inv
<1>6. CASE AbortEnd
  <2>1. /\ lock = "abort" /\ lock' = "free" /\ ab.batch = {} /\ ab.halted = {}
        /\ UNCHANGED <<status, waited, clean, chgVars, dirty, tombs>>
    BY <1>6 DEF AbortEnd, AbortWorkDone, Holds
  <2>2. MemoryInv'
    BY <1>0, <2>1, NoDebts, SameMemory DEF Pending
  <2>3. AbortInv' /\ ReadyExact'
    BY <1>0, <2>1 DEF Inv, AbortInv, ReadyExact, AllReady
  <2>4. CleanMemory'
    BY <1>0, <2>1, OneClean DEF Inv
  <2>5. QED
    BY <2>2, <2>3, <2>4 DEF Inv
<1>7. CASE AbortEndWithError
  <2> DEFINE c == ab.cause
  <2>1. /\ SetStatus(c, "Error") /\ lock = "abort" /\ lock' = "free" /\ ~panicked
        /\ ab.batch = {} /\ ab.halted = {} /\ c # NoTask
        /\ UNCHANGED <<waited, clean, tombs, dirty>>
    BY <1>7 DEF AbortEndWithError, AbortWorkDone, Holds
  <2>2. c \in Tasks /\ status[c] \in {"Doing", "Undoing", "Abort"}
    BY <1>0, <2>1 DEF Inv, AbortInv, TypeOK
  <2>3. Pending = {} /\ Fresh = {} /\ Pending' = {} /\ Fresh' = {}
    BY <2>1 DEF Pending, Fresh
  <2>4. EffectiveStatus(status', waited', c) = "Error"
    BY <1>0, <2>1, <2>2, OneStatus DEF EffectiveStatus
  <2>5. ~Relies(status', waited', c) /\ ~OutOfTheWay(status, c)
    BY <2>2, <2>4 DEF Relies, OutOfTheWay
  <2>6. Prereq(status', waited', Pending')
    BY <1>0, <2>1, <2>2, <2>3, <2>5, OnePrereq DEF MemoryInv
  <2>7. Order(status', waited')
    BY <1>0, <2>1, <2>2, <2>4, <2>5, OneOrder DEF MemoryInv
  <2>8. Effects(status', waited', dirty', Fresh')
    BY <1>0, <2>1, <2>2, <2>3, <2>4, OneEffects DEF MemoryInv
  <2>9. WaitedSet(status', waited')
    BY <1>0, <2>1, <2>2, OneWaitedSet DEF MemoryInv
  <2>10. ReadyExact' /\ AbortInv'
    BY <1>0, <2>1, <2>2, OneReady DEF Inv, AbortInv
  <2>11. CleanMemory'
    BY <1>0, <2>1, OneClean DEF Inv
  <2>12. QED
    BY <2>6, <2>7, <2>8, <2>9, <2>10, <2>11 DEF Inv, MemoryInv
<1>8. QED
  BY <1>2, <1>3, <1>4, <1>5, <1>6, <1>7 DEF AbortStep

-----------------------------------------------------------------------------
(* Restarting, and the checkpoint.                                         *)

\* A restart does not change what a task will be, and takes nothing from Done.
LEMMA StartUpKeeps ==
  ASSUME TypeOK, DiskInv, NEW rebooted \in BOOLEAN, StartUp(rebooted), NEW t \in Tasks
  PROVE  /\ EffectiveStatus(status', waited', t) = EffectiveStatus(disk.status, disk.waited, t)
         /\ disk.status[t] # "Wait" => status'[t] = disk.status[t]
         /\ waited'[t] # "Default"
<1>1. /\ waited'[t] = IF disk.waited[t] = "Default" THEN "Done" ELSE disk.waited[t]
      /\ status'[t] = IF rebooted /\ disk.status[t] = "Wait" THEN waited'[t] ELSE disk.status[t]
  BY DEF StartUp
<1>2. disk.status[t] = "Wait" => disk.waited[t] # "Default"
  BY DEF DiskInv, WaitedSet
<1>3. disk.waited[t] \in WaitedStatuses
  BY DEF TypeOK
<1>4. QED
  BY <1>1, <1>2, <1>3 DEF EffectiveStatus, WaitedStatuses

LEMMA SystemInv == IInv /\ SystemStep => Inv'
<1> SUFFICES ASSUME IInv, SystemStep PROVE Inv'
  OBVIOUS
<1> USE DEF taskVars, chgVars, runVars, timeVars, lockVars, boundVars
<1>0. TypeOK /\ Inv /\ DiskInv
  BY DEF IInv
<1>1. ASSUME NEW t \in Tasks, TimePasses(t) PROVE Inv'
  BY <1>0, <1>1, Unfinished DEF TimePasses, Holds
<1>2. CASE Stop
  BY <1>0, <1>2, Unfinished DEF Stop, Holds
<1>3. ASSUME NEW rebooted \in BOOLEAN, StartUp(rebooted) PROVE Inv'
  <2>1. lock' = "free" /\ dirty' = dirty /\ Pending' = {} /\ Fresh' = {}
    BY <1>3 DEF StartUp, Pending, Fresh
  <2>2. WaitedSet(status', waited')
    BY <1>0, <1>3, StartUpKeeps DEF WaitedSet
  <2>3. Prereq(status', waited', Pending')
    <3> SUFFICES ASSUME NEW t \in Tasks, NEW w \in WaitTasks[t], Relies(status', waited', t)
                 PROVE  status'[w] = "Done"
      BY DEF Prereq
    <3>1. w \in Tasks
      BY GraphAssumption
    <3>2. Relies(disk.status, disk.waited, t)
      BY <1>0, <1>3, StartUpKeeps DEF Relies
    <3>3. disk.status[w] = "Done"
      BY <1>0, <3>2 DEF DiskInv, Prereq
    <3>4. QED
      BY <1>0, <1>3, <3>1, <3>3, StartUpKeeps
  <2>4. Order(status', waited')
    <3> SUFFICES ASSUME NEW t \in Tasks,
                        EffectiveStatus(status', waited', t) \in {"Undoing", "Undone"},
                        NEW h \in HaltTasks(t)
                 PROVE  OutOfTheWay(status', h)
      BY DEF Order
    <3>1. h \in Tasks
      BY HaltTasksType
    <3>2. OutOfTheWay(disk.status, h)
      BY <1>0, <1>3, StartUpKeeps DEF DiskInv, Order
    <3>3. status'[h] = disk.status[h]
      BY <1>0, <1>3, <3>1, <3>2, StartUpKeeps DEF OutOfTheWay
    <3>4. QED
      BY <3>2, <3>3 DEF OutOfTheWay
  <2>5. Effects(status', waited', dirty', Fresh')
    BY <1>0, <1>3, <2>1, StartUpKeeps DEF DiskInv, Effects
  <2>6. AbortInv' /\ ReadyExact'
    BY <1>3 DEF StartUp, AbortInv, ReadyExact
  <2>7. CleanMemory'
    <3> SUFFICES ASSUME disk.clean # {} PROVE AllReady(status')
      BY <1>3, <2>1 DEF StartUp, CleanMemory
    <3>1. AllReady(disk.status)
      BY DEF IInv, CleanDisk
    <3>2. QED
      BY <1>0, <1>3, <3>1, StartUpKeeps DEF AllReady, Ready, ReadyStatuses
  <2>8. QED
    BY <2>2, <2>3, <2>4, <2>5, <2>6, <2>7 DEF Inv, MemoryInv
<1>4. QED
  BY <1>1, <1>2, <1>3 DEF SystemStep, Crash, Exit

\* The two things a step can do to the disk.
DiskStep ==
    \/ Checkpoint /\ lock' = "free"
    \/ /\ UNCHANGED <<disk, dirty>>
       /\ lock' = "free" => UNCHANGED <<lock, status, waited, clean, later>>

LEMMA NextDiskStep == Next => DiskStep
<1> USE DEF taskVars, chgVars, runVars, timeVars, lockVars, boundVars, DiskStep
<1>1. EnsureStep => DiskStep
  BY DEF EnsureStep, EnsureBegin, EnsureEnd, ConsiderKill, ConsiderTryUndo, ConsiderSkip,
         ConsiderClean, ConsiderCannotUndo, ConsiderLater, ConsiderBlocked, ConsiderRun,
         Considered, Holds
<1>2. ASSUME NEW t \in Tasks, NEW after \in BOOLEAN, Return(t), Retry(t, after) PROVE DiskStep
  BY <1>2 DEF Return, Running, Holds, Retry
<1>3. HandlerStep => DiskStep
  BY <1>2 DEF HandlerStep, HandlerReturns, HandlerSetsStatus, HandlerSetsWait, HandlerOk, HandlerRetry,
              HandlerError, CleanupReturns, Running, Return, Holds
<1>4. AbortStep => DiskStep
  BY DEF AbortStep, UserAbort, PruneAbort, AbortBegin, AbortTask, AbortLanes, AbortEnd,
         AbortEndWithError, AbortWorkDone, Holds
<1>5. SystemStep => DiskStep
  BY DEF SystemStep, TimePasses, Stop, Crash, Exit, StartUp, Holds
<1>6. QED
  BY <1>1, <1>3, <1>4, <1>5 DEF Next

LEMMA CheckpointInv ==
  ASSUME IInv, TypeOK', Inv', DiskStep
  PROVE  DiskInv' /\ CleanDisk' /\ Saved'
<1>1. CASE Checkpoint /\ lock' = "free"
  <2>1. /\ disk'.status = status' /\ disk'.waited = waited' /\ disk'.clean = clean'
        /\ disk' = Snapshot(status', waited', clean', later')
    BY <1>1 DEF Checkpoint, Snapshot
  <2>2. Pending' = {} /\ Fresh' = {}
    BY <1>1 DEF Pending, Fresh
  <2>3. DiskInv'
    BY <2>1, <2>2 DEF Inv, MemoryInv, DiskInv
  <2>4. CleanDisk'
    BY <2>1 DEF Inv, CleanMemory, CleanDisk, TypeOK
  <2>5. QED
    BY <2>1, <2>3, <2>4 DEF Saved
<1>2. CASE /\ UNCHANGED <<disk, dirty>>
           /\ lock' = "free" => UNCHANGED <<lock, status, waited, clean, later>>
  <2>1. DiskInv'
    BY <1>2 DEF IInv, DiskInv, WaitedSet, Prereq, Order, Effects, Relies, OutOfTheWay, EffectiveStatus
  <2>2. CleanDisk'
    BY <1>2 DEF IInv, CleanDisk, AllReady
  <2>3. Saved'
    BY <1>2 DEF IInv, Saved, Snapshot
  <2>4. QED
    BY <2>1, <2>2, <2>3
<1>3. QED
  BY <1>1, <1>2 DEF DiskStep

-----------------------------------------------------------------------------
(* The invariant is inductive.                                             *)

LEMMA InitInv == Init => IInv
<1> SUFFICES ASSUME Init PROVE IInv
  OBVIOUS
<1>1. TypeOK
  BY InitType
<1>2. \A t \in Tasks : status[t] = "Do" /\ EffectiveStatus(status, waited, t) = "Do"
  BY DEF Init, EffectiveStatus
<1>3. lock = "free" /\ dirty = {} /\ Pending = {} /\ Fresh = {}
  BY DEF Init, Pending, Fresh
<1>4. disk = Snapshot(status, waited, clean, later) /\ disk.status = status
      /\ disk.waited = waited /\ disk.clean = {}
  BY DEF Init, Snapshot
<1>5. MemoryInv
  BY <1>2, <1>3 DEF MemoryInv, WaitedSet, Prereq, Order, Effects, Relies
<1>6. DiskInv
  BY <1>3, <1>4, <1>5 DEF MemoryInv, DiskInv
<1>7. ~AllReady(status)
  BY <1>2, TasksAssumption DEF AllReady, Ready, ReadyStatuses
<1>8. AbortInv /\ ReadyExact /\ CleanMemory
  BY <1>3, <1>7 DEF Init, AbortInv, ReadyExact, CleanMemory
<1>9. QED
  BY <1>1, <1>3, <1>4, <1>5, <1>6, <1>8 DEF IInv, Inv, CleanDisk, Saved

LEMMA NextInv == IInv /\ [Next]_vars => IInv'
<1> SUFFICES ASSUME IInv, [Next]_vars PROVE IInv'
  OBVIOUS
<1>1. TypeOK'
  BY NextType DEF IInv
<1>2. CASE Next
  <2>1. Inv'
    BY <1>2, EnsureInv, HandlerInv, AbortKeepsInv, SystemInv DEF Next
  <2>2. QED
    BY <1>1, <1>2, <2>1, NextDiskStep, CheckpointInv DEF IInv
<1>3. CASE UNCHANGED vars
  <2>1. UNCHANGED <<status, waited, clean, later, ready, panicked, tombs, lock, ab, disk, dirty>>
    BY <1>3 DEF vars, taskVars, chgVars, runVars, lockVars
  <2>2. MemoryInv'
    BY <2>1, SameMemory DEF IInv, Inv, Pending, Fresh
  <2>3. AbortInv' /\ ReadyExact' /\ CleanMemory'
    BY <2>1 DEF IInv, Inv, AbortInv, ReadyExact, CleanMemory, AllReady, Live, EffectiveStatus
  <2>4. DiskStep
    BY <2>1 DEF DiskStep
  <2>5. QED
    BY <1>1, <2>2, <2>3, <2>4, CheckpointInv DEF IInv, Inv
<1>4. QED
  BY <1>2, <1>3

LEMMA Inductive == Spec => []IInv
<1>1. QED
  BY InitInv, NextInv, PTL DEF Spec

-----------------------------------------------------------------------------
(* What follows from it.                                                   *)

\* No handler runs, and no undoable effect stays, without its prerequisites.
THEOREM PrerequisitesTheorem == Spec => []PrerequisitesDone
<1>1. IInv => PrerequisitesDone
  BY NoDebts DEF IInv, Inv, MemoryInv, Prereq, PrerequisitesDone
<1>2. QED
  BY <1>1, Inductive, PTL

\* Undo handlers run in the opposite order of the do handlers.
THEOREM UndoOrderTheorem == Spec => []UndoOrder
<1>1. IInv => UndoOrder
  BY DEF IInv, Inv, MemoryInv, Order, UndoOrder
<1>2. QED
  BY <1>1, Inductive, PTL

\* The checkpointed statuses tell the truth about the system, at every moment
\* at which snapd could crash.
THEOREM EffectsTheorem == Spec => []EffectsMatchStatus
<1>1. IInv => EffectsMatchStatus
  BY GraphAssumption DEF IInv, DiskInv, Effects, EffectsMatchStatus
<1>2. QED
  BY <1>1, Inductive, PTL

\* The ready channel is closed exactly when all tasks are ready.
THEOREM ReadyTheorem == Spec => []ReadyExact
<1>1. IInv => ReadyExact
  BY DEF IInv, Inv
<1>2. QED
  BY <1>1, Inductive, PTL

\* Cleanup waits for the whole change.
THEOREM CleanupTheorem == Spec => []CleanupWhenReady
<1>1. IInv => CleanupWhenReady
  BY DEF IInv, Inv, CleanMemory, CleanupWhenReady
<1>2. QED
  BY <1>1, Inductive, PTL

LEMMA ReadyStays ==
  ASSUME IInv, Next, ready, lock = "free" \/ restarts' = restarts, ~panicked, ~panicked'
  PROVE  status' = status
<1> USE DEF taskVars, chgVars, runVars, timeVars, lockVars, boundVars
<1>1. \A t \in Tasks : status[t] \in ReadyStatuses
  BY DEF IInv, Inv, ReadyExact, AllReady, Ready
<1>2. \A t \in Tasks : status[t] \notin {"Do", "Doing", "Undo", "Undoing", "Abort", "Wait"}
  BY <1>1 DEF ReadyStatuses
<1>3. CASE EnsureStep
  BY <1>2, <1>3 DEF EnsureStep, EnsureBegin, EnsureEnd, ConsiderKill, ConsiderTryUndo, ConsiderSkip,
              ConsiderClean, ConsiderCannotUndo, ConsiderLater, ConsiderBlocked, ConsiderRun,
              Due, CannotUndo
<1>4. CASE HandlerStep
  <2>1. ASSUME NEW t \in Tasks, HandlerOk(t) PROVE status' = status
    BY <1>2, <2>1 DEF HandlerOk
  <2>2. QED
    BY <1>2, <1>4, <2>1 DEF HandlerStep, HandlerReturns, HandlerSetsStatus, HandlerSetsWait, HandlerRetry,
                            HandlerError, CleanupReturns
<1>5. CASE AbortStep
  <2>1. ASSUME NEW t \in Tasks, AbortTask(t) PROVE status' = status
    <3>1. SetStatus(t, AbortedStatus(t)) /\ EffectiveStatus(status, waited, t) = status[t]
      BY <1>2, <2>1 DEF AbortTask, EffectiveStatus
    <3>2. CASE status[t] = "Done"
      <4>1. SetStatus(t, "Undo")
        BY <3>1, <3>2 DEF AbortedStatus
      <4>2. panicked'
        BY <1>1, <3>2, <4>1 DEF SetStatus, DetectChangeReady, Ready, ReadyStatuses
      <4>3. QED
        BY <4>2
    <3>3. CASE status[t] # "Done"
      <4>1. AbortedStatus(t) = status[t]
        BY <1>2, <3>1, <3>3 DEF AbortedStatus
      <4>2. QED
        BY <3>1, <4>1 DEF SetStatus, IInv, TypeOK
    <3>4. QED
      BY <3>2, <3>3
  <2>2. ASSUME AbortEndWithError PROVE FALSE
    BY <1>2, <2>2 DEF AbortEndWithError, AbortWorkDone, Holds, IInv, Inv, AbortInv, TypeOK
  <2>3. QED
    BY <1>5, <2>1, <2>2 DEF AbortStep, UserAbort, PruneAbort, AbortBegin, AbortLanes, AbortEnd
<1>6. CASE SystemStep
  <2>1. ASSUME NEW rebooted \in BOOLEAN, StartUp(rebooted) PROVE status' = status
    <3>1. lock = "free"
      BY <2>1 DEF StartUp, IInv, TypeOK
    <3>2. disk.status = status
      BY <3>1 DEF IInv, Saved, Snapshot
    <3>3. status' = [t \in Tasks |-> status[t]]
      BY <1>2, <2>1, <3>2 DEF StartUp
    <3>4. QED
      BY <3>3 DEF IInv, TypeOK
  <2>2. QED
    BY <1>6, <2>1 DEF SystemStep, TimePasses, Stop, Crash, Exit
<1>7. QED
  BY <1>3, <1>4, <1>5, <1>6 DEF Next

\* As long as the assertion of detectChangeReady does not fire, nothing that
\* happens after a change became ready changes the status of one of its tasks;
\* a crash does not either, once the change was checkpointed.
THEOREM FinalTheorem == Spec /\ []NeverUnreadyAgain => ReadyIsFinal
<1>1. ASSUME IInv, [Next]_vars, NeverUnreadyAgain, NeverUnreadyAgain'
      PROVE  [ready /\ (lock = "free" \/ restarts' = restarts) => status' = status]_vars
  BY <1>1, ReadyStays DEF NeverUnreadyAgain
<1>2. QED
  BY <1>1, Inductive, PTL DEF Spec, ReadyIsFinal
-----------------------------------------------------------------------------
(* Rolling back.                                                           *)

\* An undoable task all of whose lanes are lanes of a failed task is not live: it
\* was held before it ran, or it is on its way to be undone.
RolledBack(st, wd) ==
    \A e \in Tasks, t \in HasUndo :
        st[e] = "Error" /\ LaneSet(t) \subseteq LaneSet(e) => ~Live(st, wd, t)

\* What the abort that a failed task has caused owes to the tasks in its lanes.
Doomed ==
    lock = "abort" /\ ab.cause # NoTask =>
        \/ LaneSet(ab.cause) \subseteq ab.lanes
        \/ \A t \in Tasks : LaneSet(t) \subseteq LaneSet(ab.cause) =>
               ~Live(status, waited, t) \/ t \in ab.batch

RollbackInv == RolledBack(status, waited) /\ RolledBack(disk.status, disk.waited) /\ Doomed

\* A task that has no lane outside of the killed ones is not kept alive.
LEMMA NothingKeepsAlive ==
  ASSUME NEW st, NEW wd, NEW kill, NEW t \in Tasks, LaneSet(t) \subseteq kill, LaneSet(t) # {}
  PROVE  t \in LaneTasksToAbort(st, wd, kill)
<1>1. ASSUME NEW u \in Tasks, NEW l \in TrackedLanes(u, kill) PROVE l \notin kill
  <2>1. PICK j \in DOMAIN Lanes[u] : l = Lanes[u][j] /\ \A k \in 1..j : Lanes[u][k] \notin kill
    BY <1>1 DEF TrackedLanes
  <2>2. Lanes[u] \in Seq(Int)
    BY GraphAssumption
  <2>3. j \in 1..j
    BY <2>2
  <2>4. QED
    BY <2>1, <2>3
<1>2. QED
  BY <1>1 DEF LaneTasksToAbort

LEMMA HasLanes ==
  ASSUME NEW t \in Tasks
  PROVE  LaneSet(t) # {}
<1>1. Lanes[t] \in Seq(Int) /\ Lanes[t] # <<>>
  BY GraphAssumption
<1>2. 1 \in DOMAIN Lanes[t]
  BY <1>1
<1>3. QED
  BY <1>2 DEF LaneSet

LEMMA OneRolledBack ==
  ASSUME TypeOK, RolledBack(status, waited), NEW t \in Tasks, NEW new, SetStatus(t, new),
         \A u \in Tasks : u # t => waited'[u] = waited[u],
         new # "Error",
         t \in HasUndo /\ Live(status', waited', t) => Live(status, waited, t)
  PROVE  RolledBack(status', waited')
<1> SUFFICES ASSUME NEW e \in Tasks, NEW u \in HasUndo, status'[e] = "Error",
                    LaneSet(u) \subseteq LaneSet(e), Live(status', waited', u)
             PROVE  FALSE
  BY DEF RolledBack
<1>1. status[e] = "Error" /\ u \in Tasks
  BY OneStatus, GraphAssumption
<1>2. Live(status, waited, u)
  BY <1>1, OneEffective
<1>3. QED
  BY <1>1, <1>2 DEF RolledBack

LEMMA EnsureRollsBack ==
  ASSUME IInv, RollbackInv, EnsureStep
  PROVE  RolledBack(status', waited') /\ Doomed'
<1> USE DEF taskVars, chgVars, runVars, timeVars, lockVars, boundVars
<1>0. TypeOK /\ RolledBack(status, waited)
  BY DEF IInv, RollbackInv
<1>1. lock' # "abort" /\ waited' = waited
  BY DEF EnsureStep, EnsureBegin, EnsureEnd, ConsiderKill, ConsiderTryUndo, ConsiderSkip,
         ConsiderClean, ConsiderCannotUndo, ConsiderLater, ConsiderBlocked, ConsiderRun,
         Considered, Holds
<1>2. CASE status' = status
  BY <1>0, <1>1, <1>2 DEF Doomed
<1>3. ASSUME NEW t \in Tasks, NEW new, SetStatus(t, new),
             \/ status[t] = "Abort" /\ new \in {"Undo", "Hold"}
             \/ status[t] \in {"Do", "Doing"} /\ new = "Doing"
             \/ status[t] \in {"Undo", "Undoing"} /\ new = "Undoing"
             \/ t \notin HasUndo /\ new = "Done"
      PROVE  RolledBack(status', waited')
  <2>1. status'[t] = new
    BY <1>0, <1>3, OneStatus
  <2>2. t \in HasUndo /\ Live(status', waited', t) => Live(status, waited, t)
    BY <1>3, <2>1 DEF Live, EffectiveStatus
  <2>3. QED
    BY <1>0, <1>1, <1>3, <2>2, OneRolledBack
<1>4. CASE \E t \in Tasks : ConsiderTryUndo(t)
  BY <1>1, <1>3, <1>4 DEF ConsiderTryUndo, TryUndo, TryUndoStatus, Doomed
<1>5. CASE \E t \in Tasks : ConsiderCannotUndo(t)
  BY <1>1, <1>3, <1>5 DEF ConsiderCannotUndo, CannotUndo, Doomed
<1>6. CASE \E t \in Tasks : ConsiderRun(t)
  <2>1. PICK t \in Tasks : ConsiderRun(t)
    BY <1>6
  <2>2. \/ SetStatus(t, "Doing") /\ status[t] \in {"Do", "Doing"}
        \/ SetStatus(t, "Undoing") /\ status[t] \in {"Undo", "Undoing"}
    BY <2>1 DEF ConsiderRun, Due
  <2>3. QED
    BY <1>1, <1>3, <2>2 DEF Doomed
<1>7. QED
  BY <1>2, <1>4, <1>5, <1>6
     DEF EnsureStep, EnsureBegin, EnsureEnd, ConsiderKill, ConsiderSkip, ConsiderClean,
         ConsiderLater, ConsiderBlocked

LEMMA HandlerRollsBack ==
  ASSUME IInv, RollbackInv, HandlerStep
  PROVE  RolledBack(status', waited') /\ Doomed'
<1> USE DEF taskVars, chgVars, runVars, timeVars, lockVars, boundVars
<1>0. TypeOK /\ RolledBack(status, waited)
  BY DEF IInv, RollbackInv
<1>1. ASSUME NEW t \in Tasks, NEW new, SetStatus(t, new), new # "Error",
             \A u \in Tasks : u # t => waited'[u] = waited[u],
             LET e == EffectiveStatus(status', waited', t)
             IN  \/ status[t] = "Doing"
                 \/ status[t] \in {"Undoing", "Abort"} /\ e \in {"Undone", "Undo", "Hold"}
      PROVE  RolledBack(status', waited')
  <2>1. t \in HasUndo /\ Live(status', waited', t) => Live(status, waited, t)
    BY <1>1 DEF Live, EffectiveStatus
  <2>2. QED
    BY <1>0, <1>1, <2>1, OneRolledBack
<1>2. ASSUME NEW t \in Tasks, HandlerSetsStatus(t) PROVE RolledBack(status', waited') /\ Doomed'
  <2>1. PICK new \in {"Done", "Undone"} :
           /\ SetStatus(t, new)
           /\ status[t] = "Doing" \/ (status[t] = "Undoing" /\ new = "Undone")
    BY <1>2 DEF HandlerSetsStatus
  <2>2. EffectiveStatus(status', waited', t) = new
    BY <1>0, <2>1, OneStatus DEF EffectiveStatus
  <2>3. waited' = waited /\ lock' = "free"
    BY <1>2 DEF HandlerSetsStatus, Running, Holds
  <2>4. QED
    BY <1>1, <2>1, <2>2, <2>3 DEF Doomed
<1>3. ASSUME NEW t \in Tasks, NEW ws \in WaitedStatuses, HandlerSetsWait(t, ws)
      PROVE  RolledBack(status', waited') /\ Doomed'
  <2>1. /\ SetStatus(t, "Wait") /\ waited' = [waited EXCEPT ![t] = ws] /\ lock' = "free"
        /\ status[t] = "Doing" \/ (status[t] = "Undoing" /\ ws = "Undone")
    BY <1>3 DEF HandlerSetsWait, Running, Holds
  <2>2. waited'[t] = ws /\ \A u \in Tasks : u # t => waited'[u] = waited[u]
    BY <1>0, <2>1 DEF TypeOK
  <2>3. EffectiveStatus(status', waited', t) = ws
    BY <1>0, <2>1, <2>2, OneStatus DEF EffectiveStatus
  <2>4. QED
    BY <1>1, <2>1, <2>2, <2>3 DEF Doomed
<1>4. ASSUME NEW t \in Tasks, HandlerOk(t) PROVE RolledBack(status', waited') /\ Doomed'
  <2>1. waited' = waited /\ lock' = "free"
    BY <1>4 DEF HandlerOk, Return, Running, Holds
  <2>2. CASE status[t] \in {"Doing", "Abort", "Undoing"}
    <3>1. PICK new \in {"Done", "Undo", "Undone"} :
             /\ SetStatus(t, new)
             /\ status[t] = "Doing" \/ new \in {"Undo", "Undone"}
      BY <1>4, <2>2 DEF HandlerOk
    <3>2. EffectiveStatus(status', waited', t) = new
      BY <1>0, <3>1, OneStatus DEF EffectiveStatus
    <3>3. QED
      BY <1>1, <2>1, <2>2, <3>1, <3>2 DEF Doomed
  <2>3. CASE status[t] \notin {"Doing", "Abort", "Undoing"}
    BY <1>0, <1>4, <2>1, <2>3 DEF HandlerOk, Doomed
  <2>4. QED
    BY <2>2, <2>3
<1>5. ASSUME NEW t \in Tasks, NEW after \in BOOLEAN, Return(t), Retry(t, after)
      PROVE  RolledBack(status', waited') /\ Doomed'
  <2>1. waited' = waited /\ lock' = "free"
    BY <1>5 DEF Retry, Return, Running, Holds
  <2>2. CASE status[t] = "Abort"
    <3> DEFINE new == TryUndoStatus(t)
    <3>1. SetStatus(t, new) /\ new \in {"Undo", "Hold"}
      BY <1>5, <2>2 DEF Retry, TryUndoStatus
    <3> HIDE DEF new
    <3>2. EffectiveStatus(status', waited', t) = new
      BY <1>0, <3>1, OneStatus DEF EffectiveStatus
    <3>3. QED
      BY <1>1, <2>1, <2>2, <3>1, <3>2 DEF Doomed
  <2>3. CASE status[t] # "Abort"
    BY <1>0, <1>5, <2>1, <2>3 DEF Retry, Doomed
  <2>4. QED
    BY <2>2, <2>3
<1>6. ASSUME NEW t \in Tasks, HandlerError(t) PROVE RolledBack(status', waited') /\ Doomed'
  <2>1. CASE stopped
    BY <1>5, <1>6, <2>1 DEF HandlerError
  <2>2. CASE ~stopped
    <3>1. /\ UNCHANGED <<status, waited>>
          /\ ab' = [NoAbort EXCEPT !.lanes = LaneSet(t), !.cause = t]
      BY <1>6, <2>2 DEF HandlerError
    <3>2. ab'.lanes = LaneSet(t) /\ ab'.cause = t
      BY <3>1 DEF NoAbort
    <3>3. Doomed'
      BY <3>2 DEF Doomed, LaneSet
    <3>4. QED
      BY <1>0, <3>1, <3>3
  <2>3. QED
    BY <2>1, <2>2
<1>7. ASSUME NEW t \in Tasks, NEW ok \in BOOLEAN, CleanupReturns(t, ok)
      PROVE  RolledBack(status', waited') /\ Doomed'
  BY <1>0, <1>7 DEF CleanupReturns, Holds, Doomed
<1>8. QED
  BY <1>2, <1>3, <1>4, <1>5, <1>6, <1>7 DEF HandlerStep, HandlerReturns, HandlerRetry

\* A round over the lanes of the failed task reaches all that it dooms; what it
\* does not hand on has been visited before, and is dead.
LEMMA AbortRollsBack ==
  ASSUME IInv, RollbackInv, AbortStep
  PROVE  RolledBack(status', waited') /\ Doomed'
<1> USE DEF taskVars, chgVars, runVars, timeVars, lockVars, boundVars
<1>0. TypeOK /\ RolledBack(status, waited) /\ Doomed /\ AbortInv
  BY DEF IInv, Inv, RollbackInv
<1>1. ASSUME NEW work, AbortBegin(work), work.cause = NoTask
      PROVE  RolledBack(status', waited') /\ Doomed'
  BY <1>0, <1>1 DEF AbortBegin, Doomed
<1>2. CASE UserAbort
  BY <1>1, <1>2 DEF UserAbort, NoAbort
<1>3. CASE PruneAbort
  BY <1>1, <1>3 DEF PruneAbort, NoAbort
<1>4. ASSUME NEW t \in Tasks, AbortTask(t) PROVE RolledBack(status', waited') /\ Doomed'
  <2> DEFINE new == AbortedStatus(t)
             old == EffectiveStatus(status, waited, t)
  <2>1. SetStatus(t, new) /\ lock = "abort" /\ UNCHANGED <<waited, lock>>
    BY <1>4 DEF AbortTask, Holds
  <2>2. /\ ab'.cause = ab.cause /\ ab'.batch = ab.batch \ {t} /\ ab.lanes \subseteq ab'.lanes
    BY <1>0, <1>4 DEF AbortTask, TypeOK
  <2>3. \/ old = "Do" /\ new = "Hold"
        \/ old = "Doing" /\ new = "Abort"
        \/ old = "Done" /\ new = "Undo"
        \/ old \notin {"Do", "Doing", "Done"} /\ new = status[t]
    BY DEF AbortedStatus
  <2>4. ~Live(status', waited', t)
    BY <1>0, <2>1, <2>3, OneStatus DEF Live, EffectiveStatus
  <2>5. CASE new = "Error"
    <3>1. status' = status
      BY <1>0, <2>1, <2>3, <2>5 DEF SetStatus, TypeOK
    <3>2. QED
      BY <1>0, <2>1, <2>2, <2>4, <3>1 DEF Doomed
  <2>6. CASE new # "Error"
    <3>1. RolledBack(status', waited')
      BY <1>0, <2>1, <2>4, <2>6, OneRolledBack
    <3>2. \A u \in Tasks : Live(status', waited', u) => Live(status, waited, u) /\ u # t
      BY <1>0, <2>1, <2>4, OneEffective
    <3>3. Doomed'
      BY <1>0, <2>1, <2>2, <3>2 DEF Doomed
    <3>4. QED
      BY <3>1, <3>3
  <2>7. QED
    BY <2>5, <2>6
<1>5. CASE AbortLanes
  <2>1. lock = "abort" /\ ab.batch = {} /\ UNCHANGED <<status, waited, lock>>
    BY <1>5 DEF AbortLanes, Holds
  <2>2. /\ ab'.cause = ab.cause
        /\ ab'.batch = LaneTasksToAbort(status, waited, ab.lanes) \ ab.seen
    BY <1>0, <1>5 DEF AbortLanes, TypeOK
  <2>3. ASSUME ab.cause # NoTask, LaneSet(ab.cause) \subseteq ab.lanes, NEW t \in Tasks,
               LaneSet(t) \subseteq LaneSet(ab.cause), Live(status, waited, t)
        PROVE  t \in ab'.batch
    <3>1. LaneSet(t) \subseteq ab.lanes /\ LaneSet(t) # {}
      BY <2>3, HasLanes
    <3>2. t \in LaneTasksToAbort(status, waited, ab.lanes)
      BY <3>1, NothingKeepsAlive
    <3>3. t \notin ab.seen
      BY <1>0, <2>1, <2>3 DEF AbortInv
    <3>4. QED
      BY <2>2, <3>2, <3>3
  <2>4. Doomed'
    BY <1>0, <2>1, <2>2, <2>3 DEF Doomed
  <2>5. QED
    BY <1>0, <2>1, <2>4
<1>6. CASE AbortEnd
  BY <1>0, <1>6 DEF AbortEnd, Doomed
<1>7. CASE AbortEndWithError
  <2> DEFINE c == ab.cause
  <2>1. /\ SetStatus(c, "Error") /\ lock = "abort" /\ lock' = "free"
        /\ ab.batch = {} /\ ab.lanes = {} /\ c # NoTask /\ waited' = waited
    BY <1>7 DEF AbortEndWithError, AbortWorkDone, Holds
  <2>2. c \in Tasks
    BY <1>0, <2>1 DEF TypeOK
  <2> HIDE DEF c
  <2>3. LaneSet(c) # {}
    BY <2>2, HasLanes
  <2>4. \A t \in Tasks : LaneSet(t) \subseteq LaneSet(c) => ~Live(status, waited, t)
    BY <1>0, <2>1, <2>3 DEF Doomed, c
  <2>5. status'[c] = "Error" /\ \A u \in Tasks : u # c => status'[u] = status[u]
    BY <1>0, <2>1, <2>2, OneStatus
  <2>6. \A u \in Tasks : Live(status', waited', u) => Live(status, waited, u)
    BY <2>1, <2>5 DEF Live, EffectiveStatus
  <2>7. RolledBack(status', waited')
    BY <1>0, <2>4, <2>5, <2>6, GraphAssumption DEF RolledBack
  <2>8. QED
    BY <2>1, <2>7 DEF Doomed
<1>8. QED
  BY <1>2, <1>3, <1>4, <1>5, <1>6, <1>7 DEF AbortStep

LEMMA SystemRollsBack ==
  ASSUME IInv, RollbackInv, SystemStep
  PROVE  RolledBack(status', waited') /\ Doomed'
<1> USE DEF taskVars, chgVars, runVars, timeVars, lockVars, boundVars
<1>0. TypeOK /\ DiskInv /\ RolledBack(status, waited) /\ RolledBack(disk.status, disk.waited)
  BY DEF IInv, RollbackInv
<1>1. CASE (\E t \in Tasks : TimePasses(t)) \/ Stop
  BY <1>0, <1>1 DEF TimePasses, Stop, Holds, Doomed
<1>2. ASSUME NEW rebooted \in BOOLEAN, StartUp(rebooted)
      PROVE  RolledBack(status', waited') /\ Doomed'
  <2>1. Doomed'
    BY <1>2 DEF StartUp, Doomed
  <2>2. \A t \in Tasks : Live(status', waited', t) = Live(disk.status, disk.waited, t)
    BY <1>0, <1>2, StartUpKeeps DEF Live
  <2>3. ASSUME NEW e \in Tasks, status'[e] = "Error" PROVE disk.status[e] = "Error"
    <3>1. /\ waited'[e] = IF disk.waited[e] = "Default" THEN "Done" ELSE disk.waited[e]
          /\ status'[e] = IF rebooted /\ disk.status[e] = "Wait" THEN waited'[e] ELSE disk.status[e]
      BY <1>2 DEF StartUp
    <3>2. disk.waited[e] \in WaitedStatuses
      BY <1>0 DEF TypeOK
    <3>3. QED
      BY <2>3, <3>1, <3>2 DEF WaitedStatuses
  <2>4. RolledBack(status', waited')
    BY <1>0, <2>2, <2>3, GraphAssumption DEF RolledBack
  <2>5. QED
    BY <2>1, <2>4
<1>3. QED
  BY <1>1, <1>2 DEF SystemStep, Crash, Exit

LEMMA RollbackPreserved ==
  ASSUME IInv, RollbackInv, [Next]_vars
  PROVE  RollbackInv'
<1>1. CASE Next
  <2>1. RolledBack(status', waited') /\ Doomed'
    BY <1>1, EnsureRollsBack, HandlerRollsBack, AbortRollsBack, SystemRollsBack DEF Next
  <2>2. \/ disk'.status = status' /\ disk'.waited = waited'
        \/ disk' = disk
    BY <1>1, NextDiskStep DEF DiskStep, Checkpoint, Snapshot
  <2>3. RolledBack(disk'.status, disk'.waited)
    BY <2>1, <2>2 DEF RollbackInv
  <2>4. QED
    BY <2>1, <2>3 DEF RollbackInv, RolledBack, Live, EffectiveStatus, LaneSet
<1>2. CASE UNCHANGED vars
  <2>1. UNCHANGED <<status, waited, lock, ab, disk>>
    BY <1>2 DEF vars, taskVars, lockVars
  <2>2. QED
    BY <2>1 DEF RollbackInv, RolledBack, Doomed, Live, EffectiveStatus, LaneSet
<1>3. QED
  BY <1>1, <1>2

\* Whatever fails, is aborted, retried, stopped or restarted: next to a failed
\* task no undoable task without a lane of its own is Done, about to run, or
\* running with its result to be kept.
THEOREM FailureRollsBack == Spec => []RolledBack(status, waited)
<1>1. Init => RollbackInv
  BY DEF Init, RollbackInv, RolledBack, Doomed, Snapshot
<1>2. RollbackInv => RolledBack(status, waited)
  BY DEF RollbackInv
<1>3. QED
  BY <1>1, <1>2, RollbackPreserved, Inductive, PTL DEF Spec

-----------------------------------------------------------------------------
(* Lanes that keep a task alive.                                           *)

\* Lanes that always come together.
Joined(ls) == \A v \in Tasks : LaneSet(v) \cap ls = {} \/ ls \subseteq LaneSet(v)

\* Of two tasks that share a lane, the one that can be undone is in no lane which
\* the other is not in, or the other is in lanes that always come together, or the
\* lane they share has a task of its own that can be undone.  Snaps have a lane
\* each, or have merged their lanes, and tasks shared by snaps are in all of theirs.
SharedAsAWhole ==
    \A t \in HasUndo, u \in Tasks : \A l \in LaneSet(t) \cap LaneSet(u) :
        \/ LaneSet(t) \subseteq LaneSet(u)
        \/ Joined(LaneSet(u))
        \/ \E v \in HasUndo : l \in LaneSet(v) /\ Joined(LaneSet(v))

AliveLane(st, wd, l) == \A u \in Tasks : l \in LaneSet(u) => Live(st, wd, u)

\* An undoable task is live only with one of its lanes.
KeptAlive(st, wd) ==
    \A t \in HasUndo : Live(st, wd, t) => \E l \in LaneSet(t) : AliveLane(st, wd, l)

\* What an abort under way owes.  A live task has a lane that was not aborted and
\* is alive or is going to be aborted; an aborted lane has lost a task; the live
\* tasks in no lanes but those of a dead one go with it.
Keeps(t) ==
    \E l \in LaneSet(t) \ ab.aborted : AliveLane(status, waited, l) \/ l \in ab.lanes

AbortedLanesDead ==
    /\ \A l \in ab.aborted : \E x \in Tasks :
           l \in LaneSet(x) /\ (~Live(status, waited, x) \/ x \in ab.batch)
    /\ \A l \in ab.lanes : \E x \in Tasks : l \in LaneSet(x) /\ LaneSet(x) \subseteq ab.lanes

MatesDie ==
    \A u \in Tasks, t \in HasUndo :
        ~Live(status, waited, u) /\ Live(status, waited, t) /\ LaneSet(t) \subseteq LaneSet(u) =>
            t \in ab.batch \/ LaneSet(t) \subseteq ab.lanes

AbortOwes ==
    lock = "abort" =>
        /\ \A t \in HasUndo : Live(status, waited, t) => t \in ab.batch \/ Keeps(t)
        /\ AbortedLanesDead
        /\ MatesDie

LaneInv ==
    /\ lock # "abort" => KeptAlive(status, waited)
    /\ KeptAlive(disk.status, disk.waited)
    /\ AbortOwes

\* Outside of aborts no task dies, and no undoable task comes back to life.
Steady ==
    \A t \in Tasks : /\ Live(status, waited, t) => Live(status', waited', t)
                     /\ t \in HasUndo /\ Live(status', waited', t) => Live(status, waited, t)

LEMMA OneSteady ==
  ASSUME TypeOK, NEW t \in Tasks, NEW new, SetStatus(t, new),
         \A u \in Tasks : u # t => waited'[u] = waited[u],
         Live(status, waited, t) => Live(status', waited', t),
         t \in HasUndo /\ Live(status', waited', t) => Live(status, waited, t)
  PROVE  Steady
  BY OneEffective DEF Steady

LEMMA EnsureSteady ==
  ASSUME TypeOK, EnsureStep
  PROVE  Steady /\ lock' # "abort" /\ lock # "abort"
<1> USE DEF taskVars, chgVars, runVars, timeVars, lockVars, boundVars
<1>1. lock' # "abort" /\ lock # "abort" /\ waited' = waited
  BY DEF EnsureStep, EnsureBegin, EnsureEnd, ConsiderKill, ConsiderTryUndo, ConsiderSkip,
         ConsiderClean, ConsiderCannotUndo, ConsiderLater, ConsiderBlocked, ConsiderRun,
         Considered, Holds
<1>2. CASE status' = status
  BY <1>1, <1>2 DEF Steady
<1>3. ASSUME NEW t \in Tasks, NEW new, SetStatus(t, new),
             \/ status[t] = "Abort" /\ new \in {"Undo", "Hold"}
             \/ status[t] \in {"Do", "Doing"} /\ new = "Doing"
             \/ status[t] \in {"Undo", "Undoing"} /\ new = "Undoing"
             \/ status[t] = "Undo" /\ t \notin HasUndo /\ new = "Done"
      PROVE  Steady
  <2>1. status'[t] = new
    BY <1>3, OneStatus
  <2>2. /\ Live(status, waited, t) => Live(status', waited', t)
        /\ t \in HasUndo /\ Live(status', waited', t) => Live(status, waited, t)
    BY <1>3, <2>1 DEF Live, EffectiveStatus
  <2>3. QED
    BY <1>1, <1>3, <2>2, OneSteady
<1>4. CASE \E t \in Tasks : ConsiderTryUndo(t)
  BY <1>1, <1>3, <1>4 DEF ConsiderTryUndo, TryUndo, TryUndoStatus
<1>5. CASE \E t \in Tasks : ConsiderCannotUndo(t)
  BY <1>1, <1>3, <1>5 DEF ConsiderCannotUndo, CannotUndo
<1>6. CASE \E t \in Tasks : ConsiderRun(t)
  <2>1. PICK t \in Tasks : ConsiderRun(t)
    BY <1>6
  <2>2. \/ SetStatus(t, "Doing") /\ status[t] \in {"Do", "Doing"}
        \/ SetStatus(t, "Undoing") /\ status[t] \in {"Undo", "Undoing"}
    BY <2>1 DEF ConsiderRun, Due
  <2>3. QED
    BY <1>1, <1>3, <2>2
<1>7. Steady
  BY <1>2, <1>4, <1>5, <1>6
     DEF EnsureStep, EnsureBegin, EnsureEnd, ConsiderKill, ConsiderSkip, ConsiderClean,
         ConsiderLater, ConsiderBlocked
<1>8. QED
  BY <1>1, <1>7

\* A handler's step leaves the lock free, unless the handler fails.
LEMMA HandlerSteady ==
  ASSUME TypeOK, HandlerStep
  PROVE  /\ Steady /\ lock = "free"
         /\ \/ lock' = "free"
            \/ \E t \in Tasks : ab' = [NoAbort EXCEPT !.lanes = LaneSet(t), !.cause = t]
<1> USE DEF taskVars, chgVars, runVars, timeVars, lockVars, boundVars
<1> DEFINE Goal == Steady /\ lock = "free" /\ lock' = "free"
<1>1. ASSUME NEW t \in Tasks, NEW new, SetStatus(t, new),
             \A u \in Tasks : u # t => waited'[u] = waited[u],
             LET e == EffectiveStatus(status', waited', t)
             IN  \/ status[t] = "Doing" /\ e \in {"Do", "Done"}
                 \/ status[t] \in {"Undoing", "Abort"} /\ e \in {"Undone", "Undo", "Hold"}
      PROVE  Steady
  <2>1. /\ Live(status, waited, t) => Live(status', waited', t)
        /\ t \in HasUndo /\ Live(status', waited', t) => Live(status, waited, t)
    BY <1>1 DEF Live, EffectiveStatus
  <2>2. QED
    BY <1>1, <2>1, OneSteady
<1>2. ASSUME UNCHANGED <<status, waited>> PROVE Steady
  BY <1>2 DEF Steady
<1>3. ASSUME NEW t \in Tasks, HandlerSetsStatus(t) PROVE Goal
  <2>1. PICK new \in {"Done", "Undone"} :
           /\ SetStatus(t, new)
           /\ \/ status[t] = "Doing" /\ new = "Done"
              \/ status[t] = "Undoing" /\ new = "Undone"
    BY <1>3 DEF HandlerSetsStatus
  <2>2. EffectiveStatus(status', waited', t) = new
    BY <2>1, OneStatus DEF EffectiveStatus
  <2>3. waited' = waited /\ lock' = "free" /\ lock = "free"
    BY <1>3 DEF HandlerSetsStatus, Running, Holds
  <2>4. QED
    BY <1>1, <2>1, <2>2, <2>3
<1>4. ASSUME NEW t \in Tasks, NEW ws \in WaitedStatuses, HandlerSetsWait(t, ws) PROVE Goal
  <2>1. /\ SetStatus(t, "Wait") /\ waited' = [waited EXCEPT ![t] = ws]
        /\ lock' = "free" /\ lock = "free"
        /\ \/ status[t] = "Doing" /\ ws \in {"Do", "Done"}
           \/ status[t] = "Undoing" /\ ws = "Undone"
    BY <1>4 DEF HandlerSetsWait, Running, Holds
  <2>2. waited'[t] = ws /\ \A u \in Tasks : u # t => waited'[u] = waited[u]
    BY <2>1 DEF TypeOK
  <2>3. EffectiveStatus(status', waited', t) = ws
    BY <2>1, <2>2, OneStatus DEF EffectiveStatus
  <2>4. QED
    BY <1>1, <2>1, <2>2, <2>3
<1>5. ASSUME NEW t \in Tasks, HandlerOk(t) PROVE Goal
  <2>1. waited' = waited /\ lock' = "free" /\ lock = "free"
    BY <1>5 DEF HandlerOk, Return, Running, Holds
  <2>2. CASE status[t] \in {"Doing", "Abort", "Undoing"}
    <3>1. PICK new \in {"Done", "Undo", "Undone"} :
             /\ SetStatus(t, new)
             /\ \/ status[t] = "Doing" /\ new = "Done"
                \/ status[t] # "Doing" /\ new # "Done"
      BY <1>5, <2>2 DEF HandlerOk
    <3>2. EffectiveStatus(status', waited', t) = new
      BY <3>1, OneStatus DEF EffectiveStatus
    <3>3. QED
      BY <1>1, <2>1, <2>2, <3>1, <3>2
  <2>3. CASE status[t] \notin {"Doing", "Abort", "Undoing"}
    BY <1>2, <1>5, <2>1, <2>3 DEF HandlerOk
  <2>4. QED
    BY <2>2, <2>3
<1>6. ASSUME NEW t \in Tasks, NEW after \in BOOLEAN, Return(t), Retry(t, after) PROVE Goal
  <2>1. waited' = waited /\ lock' = "free" /\ lock = "free"
    BY <1>6 DEF Retry, Return, Running, Holds
  <2>2. CASE status[t] = "Abort"
    <3> DEFINE new == TryUndoStatus(t)
    <3>1. SetStatus(t, new) /\ new \in {"Undo", "Hold"}
      BY <1>6, <2>2 DEF Retry, TryUndoStatus
    <3> HIDE DEF new
    <3>2. EffectiveStatus(status', waited', t) = new
      BY <3>1, OneStatus DEF EffectiveStatus
    <3>3. QED
      BY <1>1, <2>1, <2>2, <3>1, <3>2
  <2>3. CASE status[t] # "Abort"
    BY <1>2, <1>6, <2>1, <2>3 DEF Retry
  <2>4. QED
    BY <2>2, <2>3
<1>7. ASSUME NEW t \in Tasks, HandlerError(t)
      PROVE  Goal \/ (/\ Steady /\ lock = "free"
                      /\ ab' = [NoAbort EXCEPT !.lanes = LaneSet(t), !.cause = t])
  <2>1. CASE stopped
    BY <1>6, <1>7, <2>1 DEF HandlerError
  <2>2. CASE ~stopped
    BY <1>2, <1>7, <2>2 DEF HandlerError, Return, Running, Holds
  <2>3. QED
    BY <2>1, <2>2
<1>8. ASSUME NEW t \in Tasks, NEW ok \in BOOLEAN, CleanupReturns(t, ok) PROVE Goal
  BY <1>2, <1>8 DEF CleanupReturns, Holds
<1>9. QED
  BY <1>3, <1>4, <1>5, <1>6, <1>7, <1>8 DEF HandlerStep, HandlerReturns, HandlerRetry

LEMMA SteadyKeeps ==
  ASSUME KeptAlive(status, waited), Steady
  PROVE  KeptAlive(status', waited')
<1> SUFFICES ASSUME NEW t \in HasUndo, Live(status', waited', t)
             PROVE  \E l \in LaneSet(t) : AliveLane(status', waited', l)
  BY DEF KeptAlive
<1>1. Live(status, waited, t)
  BY GraphAssumption DEF Steady
<1>2. PICK l \in LaneSet(t) : AliveLane(status, waited, l)
  BY <1>1 DEF KeptAlive
<1>3. AliveLane(status', waited', l)
  BY <1>2 DEF AliveLane, Steady
<1>4. QED
  BY <1>3

\* An abort begins with what it was asked for: all tasks, or whole sets of lanes.
LEMMA AbortOwesAtFirst ==
  ASSUME KeptAlive(status, waited), Steady, ab'.aborted = {},
         \A l \in ab'.lanes : \E x \in Tasks : l \in LaneSet(x) /\ LaneSet(x) \subseteq ab'.lanes
  PROVE  AbortOwes'
<1>1. KeptAlive(status', waited')
  BY SteadyKeeps
<1>2. ASSUME NEW t \in HasUndo, Live(status', waited', t)
      PROVE  \E l \in LaneSet(t) \ ab'.aborted : AliveLane(status', waited', l)
  BY <1>1, <1>2 DEF KeptAlive
<1>3. \A t \in HasUndo : Live(status, waited, t)' => Keeps(t)'
  BY <1>2 DEF Keeps, AliveLane, Live, EffectiveStatus, LaneSet
<1>4. MatesDie'
  BY <1>1 DEF MatesDie, KeptAlive, AliveLane, Live, EffectiveStatus, LaneSet
<1>5. AbortedLanesDead'
  BY DEF AbortedLanesDead, LaneSet
<1>6. QED
  BY <1>3, <1>4, <1>5 DEF AbortOwes

\* Aborting a task asks for its lanes, unless they have all been aborted: it
\* takes no lane from a task that is to live without asking for it.
LEMMA TaskAbortOwes ==
  ASSUME TypeOK, AbortOwes, NEW y \in Tasks, AbortTask(y)
  PROVE  AbortOwes'
<1> USE DEF taskVars, chgVars, runVars, timeVars, lockVars, boundVars
<1> DEFINE new == AbortedStatus(y)
           old == EffectiveStatus(status, waited, y)
<1>1. SetStatus(y, new) /\ lock = "abort" /\ UNCHANGED <<waited, lock>>
  BY DEF AbortTask, Holds
<1>2. /\ ab'.batch = ab.batch \ {y} /\ ab'.aborted = ab.aborted
      /\ ab'.lanes = IF LaneSet(y) \subseteq ab.aborted THEN ab.lanes
                     ELSE ab.lanes \cup LaneSet(y)
  BY DEF AbortTask, TypeOK
<1>3. \/ old = "Do" /\ new = "Hold"
      \/ old = "Doing" /\ new = "Abort"
      \/ old = "Done" /\ new = "Undo"
      \/ old \notin {"Do", "Doing", "Done"} /\ new = status[y]
  BY DEF AbortedStatus
<1>4. ~Live(status', waited', y)
  BY <1>1, <1>3, OneStatus DEF Live, EffectiveStatus
<1> HIDE DEF new, old
<1>5. \A u \in Tasks : Live(status', waited', u) <=> Live(status, waited, u) /\ u # y
  BY <1>1, <1>4, OneEffective
<1>6. /\ \A t \in HasUndo : Live(status, waited, t) => t \in ab.batch \/ Keeps(t)
      /\ AbortedLanesDead /\ MatesDie
  BY <1>1 DEF AbortOwes
<1>7. ASSUME NEW t \in HasUndo, Live(status', waited', t), t \notin ab'.batch
      PROVE  \E l \in LaneSet(t) \ ab'.aborted :
                 AliveLane(status', waited', l) \/ l \in ab'.lanes
  <2>1. Live(status, waited, t) /\ t \notin ab.batch
    BY <1>2, <1>5, <1>7, GraphAssumption
  <2>2. PICK l \in LaneSet(t) \ ab.aborted : AliveLane(status, waited, l) \/ l \in ab.lanes
    BY <1>6, <2>1 DEF Keeps
  <2>3. CASE l \in ab.lanes \/ l \in LaneSet(y)
    BY <1>2, <2>2, <2>3
  <2>4. CASE l \notin ab.lanes /\ l \notin LaneSet(y)
    <3>1. AliveLane(status', waited', l)
      BY <1>5, <2>2, <2>4 DEF AliveLane
    <3>2. QED
      BY <1>2, <2>2, <3>1
  <2>5. QED
    BY <2>3, <2>4
<1>8. ASSUME NEW l \in ab'.aborted
      PROVE  \E x \in Tasks : l \in LaneSet(x) /\ (~Live(status', waited', x) \/ x \in ab'.batch)
  <2>1. PICK x \in Tasks : l \in LaneSet(x) /\ (~Live(status, waited, x) \/ x \in ab.batch)
    BY <1>2, <1>6, <1>8 DEF AbortedLanesDead
  <2>2. QED
    BY <1>2, <1>5, <2>1
<1>9. ASSUME NEW l \in ab'.lanes
      PROVE  \E x \in Tasks : l \in LaneSet(x) /\ LaneSet(x) \subseteq ab'.lanes
  <2>1. CASE l \in ab.lanes
    <3>1. PICK x \in Tasks : l \in LaneSet(x) /\ LaneSet(x) \subseteq ab.lanes
      BY <1>6, <2>1 DEF AbortedLanesDead
    <3>2. QED
      BY <1>2, <3>1
  <2>2. CASE l \notin ab.lanes
    BY <1>2, <1>9, <2>2
  <2>3. QED
    BY <2>1, <2>2
<1>10. ASSUME NEW u \in Tasks, NEW t \in HasUndo, ~Live(status', waited', u),
              Live(status', waited', t), LaneSet(t) \subseteq LaneSet(u)
       PROVE  t \in ab'.batch \/ LaneSet(t) \subseteq ab'.lanes
  <2>1. Live(status, waited, t) /\ t # y
    BY <1>5, <1>10, GraphAssumption
  <2>2. CASE ~Live(status, waited, u)
    <3>1. t \in ab.batch \/ LaneSet(t) \subseteq ab.lanes
      BY <1>6, <1>10, <2>1, <2>2 DEF MatesDie
    <3>2. QED
      BY <1>2, <2>1, <3>1
  <2>3. CASE Live(status, waited, u)
    <3>1. u = y
      BY <1>5, <1>10, <2>3
    <3>2. t \in ab.batch \/ \E l \in LaneSet(t) : l \notin ab.aborted
      BY <1>6, <2>1 DEF Keeps
    <3>3. QED
      BY <1>2, <1>10, <2>1, <3>1, <3>2
  <2>4. QED
    BY <2>2, <2>3
<1>11. AbortedLanesDead'
  BY <1>8, <1>9 DEF AbortedLanesDead, Live, EffectiveStatus, LaneSet
<1>12. MatesDie'
  BY <1>10 DEF MatesDie, Live, EffectiveStatus, LaneSet
<1>13. \A t \in HasUndo : Live(status, waited, t)' => t \in ab'.batch \/ Keeps(t)'
  BY <1>7 DEF Keeps, AliveLane, Live, EffectiveStatus, LaneSet
<1>14. QED
  BY <1>11, <1>12, <1>13 DEF AbortOwes

\* Lanes that always come together are aborted together.
LEMMA JoinedGoTogether ==
  ASSUME AbortedLanesDead, NEW v \in Tasks, Joined(LaneSet(v)), LaneSet(v) \cap ab.lanes # {}
  PROVE  LaneSet(v) \subseteq ab.lanes
<1>1. PICK k \in LaneSet(v) : k \in ab.lanes
  OBVIOUS
<1>2. PICK x \in Tasks : k \in LaneSet(x) /\ LaneSet(x) \subseteq ab.lanes
  BY <1>1 DEF AbortedLanesDead
<1>3. QED
  BY <1>1, <1>2 DEF Joined

\* The lane that spares a task in a round has no dead task that the round has
\* not counted.
LEMMA SparedByAliveLane ==
  ASSUME SharedAsAWhole, AbortOwes, lock = "abort", ab.batch = {},
         NEW t \in HasUndo, Live(status, waited, t),
         t \notin LaneTasksToAbort(status, waited, ab.lanes), LaneSet(t) \cap ab.lanes # {}
  PROVE  \E l \in LaneSet(t) \ (ab.aborted \cup ab.lanes) : AliveLane(status, waited, l)
<1>0. HasUndo \subseteq Tasks /\ (\A u \in Tasks : Lanes[u] \in Seq(Int)) /\ AbortedLanesDead
  BY GraphAssumption DEF AbortOwes
<1>1. PICK l \in LaneSet(t) :
         /\ \E u \in Tasks : l \in TrackedLanes(u, ab.lanes)
         /\ \A u \in Tasks : l \in TrackedLanes(u, ab.lanes) => Live(status, waited, u)
  BY <1>0 DEF LaneTasksToAbort
<1>2. l \notin ab.lanes
  <2>0. PICK u \in Tasks : l \in TrackedLanes(u, ab.lanes)
    BY <1>1
  <2>1. PICK j \in DOMAIN Lanes[u] :
           l = Lanes[u][j] /\ \A k \in 1..j : Lanes[u][k] \notin ab.lanes
    BY <2>0 DEF TrackedLanes
  <2>2. j \in 1..j
    BY <1>0
  <2>3. QED
    BY <2>1, <2>2
<1>3. ASSUME NEW u \in Tasks, l \in LaneSet(u), ~Live(status, waited, u)
      PROVE  LaneSet(u) \cap ab.lanes # {}
  <2>1. PICK j \in DOMAIN Lanes[u] : l = Lanes[u][j]
    BY <1>3 DEF LaneSet
  <2>2. PICK k \in 1..j : Lanes[u][k] \in ab.lanes
    BY <1>1, <1>3, <2>1 DEF TrackedLanes
  <2>3. k \in DOMAIN Lanes[u]
    BY <1>0, <2>1, <2>2
  <2>4. Lanes[u][k] \in LaneSet(u)
    BY <2>3 DEF LaneSet
  <2>5. QED
    BY <2>2, <2>4
<1>4. ASSUME NEW u \in Tasks, l \in LaneSet(u), ~Live(status, waited, u) PROVE FALSE
  <2>1. CASE LaneSet(t) \subseteq LaneSet(u)
    BY <1>1, <1>2, <1>4, <2>1 DEF AbortOwes, MatesDie
  <2>2. CASE Joined(LaneSet(u))
    BY <1>0, <1>2, <1>3, <1>4, <2>2, JoinedGoTogether
  <2>3. ASSUME NEW v \in HasUndo, l \in LaneSet(v), Joined(LaneSet(v)) PROVE FALSE
    <3>1. v \in Tasks /\ LaneSet(v) \subseteq LaneSet(u)
      BY <1>0, <1>4, <2>3 DEF Joined
    <3>2. ~Live(status, waited, v)
      BY <1>2, <1>4, <2>3, <3>1 DEF AbortOwes, MatesDie
    <3>3. LaneSet(v) \cap ab.lanes # {}
      BY <1>3, <2>3, <3>1, <3>2
    <3>4. QED
      BY <1>0, <1>2, <2>3, <3>1, <3>3, JoinedGoTogether
  <2>4. QED
    BY <1>1, <1>4, <2>1, <2>2, <2>3 DEF SharedAsAWhole
<1>5. AliveLane(status, waited, l)
  BY <1>4 DEF AliveLane
<1>6. l \notin ab.aborted
  BY <1>0, <1>4 DEF AbortedLanesDead
<1>7. QED
  BY <1>2, <1>5, <1>6

LEMMA RoundOwes ==
  ASSUME SharedAsAWhole, TypeOK, AbortInv, AbortOwes, AbortLanes
  PROVE  AbortOwes'
<1> USE DEF taskVars, chgVars, runVars, timeVars, lockVars, boundVars
<1> DEFINE hit == LaneTasksToAbort(status, waited, ab.lanes)
<1>1. lock = "abort" /\ ab.batch = {} /\ UNCHANGED <<status, waited, lock>>
  BY DEF AbortLanes, Holds
<1>2. ab'.batch = hit \ ab.seen /\ ab'.aborted = ab.aborted \cup ab.lanes /\ ab'.lanes = {}
  BY DEF AbortLanes, TypeOK
<1>3. /\ \A t \in HasUndo : Live(status, waited, t) => Keeps(t)
      /\ AbortedLanesDead /\ MatesDie
  BY <1>1 DEF AbortOwes
<1>4. \A t \in Tasks : Live(status, waited, t) => t \notin ab.seen
  BY <1>1 DEF AbortInv
<1>5. \A t \in Tasks : LaneSet(t) \subseteq ab.lanes => t \in hit
  BY HasLanes, NothingKeepsAlive
<1>6. ASSUME NEW t \in HasUndo, Live(status, waited, t), t \notin ab'.batch
      PROVE  \E l \in LaneSet(t) \ ab'.aborted : AliveLane(status, waited, l)
  <2>1. t \in Tasks /\ t \notin hit
    BY <1>2, <1>4, <1>6, GraphAssumption
  <2>2. CASE LaneSet(t) \cap ab.lanes = {}
    BY <1>2, <1>3, <1>6, <2>2 DEF Keeps
  <2>3. CASE LaneSet(t) \cap ab.lanes # {}
    BY <1>1, <1>2, <1>6, <2>1, <2>3, SparedByAliveLane
  <2>4. QED
    BY <2>2, <2>3
<1>7. ASSUME NEW l \in ab'.aborted
      PROVE  \E x \in Tasks : l \in LaneSet(x) /\ (~Live(status, waited, x) \/ x \in ab'.batch)
  <2>1. CASE l \in ab.aborted
    BY <1>1, <1>3, <2>1 DEF AbortedLanesDead
  <2>2. CASE l \in ab.lanes
    <3>1. PICK x \in Tasks : l \in LaneSet(x) /\ LaneSet(x) \subseteq ab.lanes
      BY <1>3, <2>2 DEF AbortedLanesDead
    <3>2. QED
      BY <1>2, <1>4, <1>5, <3>1
  <2>3. QED
    BY <1>2, <1>7, <2>1, <2>2
<1>8. ASSUME NEW u \in Tasks, NEW t \in HasUndo, ~Live(status, waited, u),
             Live(status, waited, t), LaneSet(t) \subseteq LaneSet(u)
      PROVE  t \in ab'.batch
  <2>1. LaneSet(t) \subseteq ab.lanes
    BY <1>1, <1>3, <1>8 DEF MatesDie
  <2>2. QED
    BY <1>2, <1>4, <1>5, <1>8, <2>1, GraphAssumption
<1> HIDE DEF hit
<1>9. AbortedLanesDead'
  BY <1>1, <1>2, <1>7 DEF AbortedLanesDead, Live, EffectiveStatus, LaneSet
<1>10. MatesDie'
  BY <1>1, <1>8 DEF MatesDie, Live, EffectiveStatus, LaneSet
<1>11. \A t \in HasUndo : Live(status, waited, t)' => t \in ab'.batch \/ Keeps(t)'
  BY <1>1, <1>6 DEF Keeps, AliveLane, Live, EffectiveStatus, LaneSet
<1>12. QED
  BY <1>9, <1>10, <1>11 DEF AbortOwes

LEMMA AbortKeepsLanes ==
  ASSUME SharedAsAWhole, IInv, Doomed, LaneInv, AbortStep
  PROVE  (lock' # "abort" => KeptAlive(status', waited')) /\ AbortOwes'
<1> USE DEF taskVars, chgVars, runVars, timeVars, lockVars, boundVars
<1>0. TypeOK /\ AbortInv /\ AbortOwes
  BY DEF IInv, Inv, LaneInv
<1>1. ASSUME NEW work, AbortBegin(work), work.aborted = {},
             \A l \in work.lanes : \E x \in Tasks : l \in LaneSet(x) /\ LaneSet(x) \subseteq work.lanes
      PROVE  (lock' # "abort" => KeptAlive(status', waited')) /\ AbortOwes'
  <2>1. lock = "free" /\ lock' = "abort" /\ ab' = work /\ UNCHANGED <<status, waited>>
    BY <1>1 DEF AbortBegin, Holds
  <2>2. KeptAlive(status, waited) /\ Steady
    BY <2>1 DEF LaneInv, Steady
  <2>3. QED
    BY <1>1, <2>1, <2>2, AbortOwesAtFirst
<1>2. CASE UserAbort
  BY <1>1, <1>2 DEF UserAbort, NoAbort
<1>3. CASE PruneAbort
  <2> DEFINE work == [NoAbort EXCEPT !.lanes = UnreadyLanes(status)]
  <2>1. AbortBegin(work) /\ work.aborted = {} /\ work.lanes = UnreadyLanes(status)
    BY <1>3 DEF PruneAbort, NoAbort
  <2>2. ASSUME NEW l \in UnreadyLanes(status)
        PROVE  \E x \in Tasks : l \in LaneSet(x) /\ LaneSet(x) \subseteq UnreadyLanes(status)
    <3>1. PICK x \in {u \in Tasks : ~Ready(status[u])} : l \in LaneSet(x)
      BY <2>2 DEF UnreadyLanes
    <3>2. LaneSet(x) \subseteq UnreadyLanes(status)
      BY <3>1 DEF UnreadyLanes
    <3>3. QED
      BY <3>1, <3>2
  <2> HIDE DEF work
  <2>3. QED
    BY <1>1, <2>1, <2>2
<1>4. CASE \E t \in Tasks : AbortTask(t)
  <2>1. AbortOwes'
    BY <1>0, <1>4, TaskAbortOwes
  <2>2. lock' = "abort"
    BY <1>4 DEF AbortTask, Holds
  <2>3. QED
    BY <2>1, <2>2
<1>5. CASE AbortLanes
  <2>1. AbortOwes'
    BY <1>0, <1>5, RoundOwes
  <2>2. lock' = "abort"
    BY <1>5 DEF AbortLanes, Holds
  <2>3. QED
    BY <2>1, <2>2
<1>6. ASSUME AbortWorkDone PROVE KeptAlive(status, waited)
  BY <1>0, <1>6 DEF AbortWorkDone, Holds, AbortOwes, Keeps, KeptAlive
<1>7. CASE AbortEnd
  <2>1. UNCHANGED <<status, waited>> /\ lock' = "free" /\ AbortWorkDone
    BY <1>7 DEF AbortEnd
  <2>2. QED
    BY <1>6, <2>1 DEF AbortOwes
<1>8. CASE AbortEndWithError
  <2> DEFINE c == ab.cause
  <2>1. /\ SetStatus(c, "Error") /\ lock = "abort" /\ lock' = "free" /\ AbortWorkDone
        /\ ab.batch = {} /\ ab.lanes = {} /\ c # NoTask /\ waited' = waited
    BY <1>8 DEF AbortEndWithError, AbortWorkDone, Holds
  <2>2. c \in Tasks
    BY <1>0, <2>1 DEF TypeOK
  <2>3. ~Live(status, waited, c)
    BY <2>1, <2>2, HasLanes DEF Doomed
  <2> HIDE DEF c
  <2>4. status'[c] = "Error"
    BY <1>0, <2>1, <2>2, OneStatus
  <2>5. ~Live(status', waited', c)
    BY <2>4 DEF Live, EffectiveStatus
  <2>6. Steady
    BY <1>0, <2>1, <2>2, <2>3, <2>5, OneSteady
  <2>7. QED
    BY <1>6, <2>1, <2>6, SteadyKeeps DEF AbortOwes
<1>9. QED
  BY <1>2, <1>3, <1>4, <1>5, <1>7, <1>8 DEF AbortStep

LEMMA SystemKeepsLanes ==
  ASSUME IInv, LaneInv, SystemStep
  PROVE  lock' # "abort" /\ KeptAlive(status', waited')
<1> USE DEF taskVars, chgVars, runVars, timeVars, lockVars, boundVars
<1>0. TypeOK /\ DiskInv
  BY DEF IInv
<1>1. CASE (\E t \in Tasks : TimePasses(t)) \/ Stop
  <2>1. UNCHANGED <<status, waited, lock>> /\ lock = "free"
    BY <1>1 DEF TimePasses, Stop, Holds
  <2>2. QED
    BY <2>1 DEF LaneInv
<1>2. ASSUME NEW rebooted \in BOOLEAN, StartUp(rebooted)
      PROVE  lock' # "abort" /\ KeptAlive(status', waited')
  <2>1. lock' = "free"
    BY <1>2 DEF StartUp
  <2>2. \A t \in Tasks : Live(status', waited', t) = Live(disk.status, disk.waited, t)
    BY <1>0, <1>2, StartUpKeeps DEF Live
  <2>3. \A l : AliveLane(disk.status, disk.waited, l) => AliveLane(status', waited', l)
    BY <2>2 DEF AliveLane
  <2>4. KeptAlive(disk.status, disk.waited)
    BY DEF LaneInv
  <2>5. KeptAlive(status', waited')
    BY <2>2, <2>3, <2>4, GraphAssumption DEF KeptAlive
  <2>6. QED
    BY <2>1, <2>5
<1>3. QED
  BY <1>1, <1>2 DEF SystemStep, Crash, Exit

LEMMA LanesPreserved ==
  ASSUME SharedAsAWhole, IInv, RollbackInv, LaneInv, [Next]_vars
  PROVE  LaneInv'
<1>0. TypeOK /\ Doomed
  BY DEF IInv, RollbackInv
<1>1. CASE Next
  <2>1. (lock' # "abort" => KeptAlive(status', waited')) /\ AbortOwes'
    <3>1. CASE EnsureStep
      <4>1. KeptAlive(status', waited')
        BY <1>0, <3>1, EnsureSteady, SteadyKeeps DEF LaneInv
      <4>2. QED
        BY <1>0, <3>1, <4>1, EnsureSteady DEF AbortOwes
    <3>2. CASE HandlerStep
      <4>1. KeptAlive(status, waited) /\ Steady
        BY <1>0, <3>2, HandlerSteady DEF LaneInv
      <4>2. KeptAlive(status', waited')
        BY <4>1, SteadyKeeps
      <4>3. ASSUME NEW t \in Tasks, ab' = [NoAbort EXCEPT !.lanes = LaneSet(t), !.cause = t]
            PROVE  AbortOwes'
        <5>1. ab'.aborted = {} /\ ab'.lanes = LaneSet(t)
          BY <4>3 DEF NoAbort
        <5>2. QED
          BY <4>1, <5>1, AbortOwesAtFirst
      <4>4. lock' = "free" => AbortOwes'
        BY DEF AbortOwes
      <4>5. QED
        BY <1>0, <3>2, <4>2, <4>3, <4>4, HandlerSteady
    <3>3. CASE AbortStep
      BY <1>0, <3>3, AbortKeepsLanes
    <3>4. CASE SystemStep
      BY <3>4, SystemKeepsLanes DEF AbortOwes
    <3>5. QED
      BY <1>1, <3>1, <3>2, <3>3, <3>4 DEF Next
  <2>2. \/ disk'.status = status' /\ disk'.waited = waited' /\ lock' = "free"
        \/ disk' = disk
    BY <1>1, NextDiskStep DEF DiskStep, Checkpoint, Snapshot
  <2>3. KeptAlive(disk'.status, disk'.waited)
    BY <2>1, <2>2 DEF LaneInv
  <2>4. QED
    BY <2>1, <2>3 DEF LaneInv, KeptAlive, AliveLane, Live, EffectiveStatus, LaneSet
<1>2. CASE UNCHANGED vars
  <2>1. UNCHANGED <<status, waited, lock, ab, disk>>
    BY <1>2 DEF vars, taskVars, lockVars
  <2>2. AbortedLanesDead' = AbortedLanesDead
    BY <2>1 DEF AbortedLanesDead, Live, EffectiveStatus, LaneSet
  <2>3. MatesDie' = MatesDie
    BY <2>1 DEF MatesDie, Live, EffectiveStatus, LaneSet
  <2>4. \A t \in HasUndo : /\ Live(status, waited, t)' = Live(status, waited, t)
                          /\ Keeps(t)' = Keeps(t)
    BY <2>1 DEF Keeps, AliveLane, Live, EffectiveStatus, LaneSet
  <2>5. AbortOwes'
    BY <2>1, <2>2, <2>3, <2>4 DEF LaneInv, AbortOwes
  <2>6. KeptAlive(status, waited)' = KeptAlive(status, waited)
    BY <2>1 DEF KeptAlive, AliveLane, Live, EffectiveStatus, LaneSet
  <2>7. KeptAlive(disk.status, disk.waited)' = KeptAlive(disk.status, disk.waited)
    BY <2>1 DEF KeptAlive, AliveLane, Live, EffectiveStatus, LaneSet
  <2>8. QED
    BY <2>1, <2>5, <2>6, <2>7 DEF LaneInv
<1>3. QED
  BY <1>1, <1>2

\* Whenever no abort is under way, an undoable task that is Done, running or about
\* to run has a lane in which every task is: a restart finds it so too.
THEOREM KeptAliveByALane ==
  ASSUME SharedAsAWhole
  PROVE  Spec => [](lock # "abort" => KeptAlive(status, waited))
<1>1. Init => LaneInv
  <2> SUFFICES ASSUME Init PROVE LaneInv
    OBVIOUS
  <2>1. /\ lock = "free" /\ status = [t \in Tasks |-> "Do"]
        /\ disk.status = status /\ disk.waited = waited
    BY DEF Init, Snapshot
  <2>2. \A t \in Tasks : Live(status, waited, t)
    BY <2>1 DEF Live, EffectiveStatus
  <2>3. KeptAlive(status, waited)
    BY <2>2, HasLanes, GraphAssumption DEF KeptAlive, AliveLane
  <2>4. QED
    BY <2>1, <2>3 DEF LaneInv, AbortOwes
<1>2. LaneInv => (lock # "abort" => KeptAlive(status, waited))
  BY DEF LaneInv
<1>3. Init => RollbackInv
  BY DEF Init, RollbackInv, RolledBack, Doomed, Snapshot
<1>4. IInv /\ RollbackInv /\ LaneInv /\ [Next]_vars => LaneInv'
  BY LanesPreserved
<1>5. QED
  BY <1>1, <1>2, <1>3, <1>4, RollbackPreserved, Inductive, PTL DEF Spec

-----------------------------------------------------------------------------
(* The panic of detectChangeReady.                                         *)

\* An abort that a failure has caused is the only kind under way, and its cause is
\* not ready until the abort is over.
PanicInv == ~panicked /\ (lock = "abort" => ab.cause # NoTask)

LEMMA OneCalm ==
  ASSUME ~panicked, NEW t \in Tasks, NEW new, SetStatus(t, new),
         \/ ~Ready(status[t]) \/ Ready(new)
         \/ \E u \in Tasks \ {t} : ~Ready(status[u])
  PROVE  ~panicked'
<1>1. Ready(status[t]) \in BOOLEAN /\ Ready(new) \in BOOLEAN
  BY DEF Ready
<1>2. CASE Ready(status[t]) = Ready(new) \/ \E u \in Tasks \ {t} : ~Ready(status[u])
  BY <1>2 DEF SetStatus, DetectChangeReady, chgVars
<1>3. CASE Ready(new)
  BY <1>3 DEF SetStatus, DetectChangeReady, chgVars
<1>4. QED
  BY <1>1, <1>2, <1>3

LEMMA EnsureCalm == ASSUME PanicInv, EnsureStep PROVE PanicInv'
<1> USE DEF chgVars, Ready, ReadyStatuses
<1>1. CASE EnsureBegin \/ EnsureEnd
  BY <1>1 DEF EnsureBegin, EnsureEnd, PanicInv
<1>2. ASSUME NEW t \in Tasks, ConsiderTryUndo(t) PROVE PanicInv'
  BY <1>2, OneCalm DEF ConsiderTryUndo, TryUndo, lockVars, PanicInv
<1>3. ASSUME NEW t \in Tasks,
             ConsiderKill(t) \/ ConsiderSkip(t) \/ ConsiderClean(t) \/ ConsiderLater(t) \/ ConsiderBlocked(t)
      PROVE  PanicInv'
  BY <1>3 DEF ConsiderKill, ConsiderSkip, ConsiderClean, ConsiderLater, ConsiderBlocked,
              Considered, PanicInv
<1>4. ASSUME NEW t \in Tasks, ConsiderCannotUndo(t) PROVE PanicInv'
  BY <1>4, OneCalm DEF ConsiderCannotUndo, Considered, PanicInv
<1>5. ASSUME NEW t \in Tasks, ConsiderRun(t) PROVE PanicInv'
  <2>1. status[t] \in {"Do", "Doing", "Undo", "Undoing"}
    BY <1>5 DEF ConsiderRun, Due
  <2>2. ~panicked'
    BY <1>5, <2>1, OneCalm DEF ConsiderRun, PanicInv
  <2>3. QED
    BY <1>5, <2>2 DEF ConsiderRun, Considered, Holds, PanicInv
<1>6. QED
  BY <1>1, <1>2, <1>3, <1>4, <1>5 DEF EnsureStep

LEMMA HandlerCalm == ASSUME PanicInv, HandlerStep PROVE PanicInv'
<1> USE DEF chgVars, lockVars, Ready, ReadyStatuses
<1>1. ASSUME NEW t \in Tasks, HandlerSetsStatus(t) PROVE PanicInv'
  BY <1>1, OneCalm DEF HandlerSetsStatus, PanicInv
<1>2. ASSUME NEW t \in Tasks, NEW ws \in WaitedStatuses, HandlerSetsWait(t, ws) PROVE PanicInv'
  BY <1>2, OneCalm DEF HandlerSetsWait, PanicInv
<1>3. ASSUME NEW t \in Tasks, HandlerOk(t) PROVE PanicInv'
  <2>1. ~panicked'
    BY <1>3, OneCalm DEF HandlerOk, PanicInv
  <2>2. QED
    BY <1>3, <2>1 DEF HandlerOk, PanicInv
<1>4. ASSUME NEW t \in Tasks, NEW after \in BOOLEAN, Retry(t, after) PROVE PanicInv'
  BY <1>4, OneCalm DEF Retry, PanicInv
<1>5. ASSUME NEW t \in Tasks, HandlerError(t) PROVE PanicInv'
  <2>1. CASE ~stopped
    <3>1. ab'.cause = t /\ panicked' = panicked
      BY <1>5, <2>1 DEF HandlerError, NoAbort
    <3>2. QED
      BY <3>1, HandlerAssumption DEF PanicInv
  <2>2. QED
    BY <1>4, <1>5, <2>1 DEF HandlerError
<1>6. ASSUME NEW t \in Tasks, NEW ok \in BOOLEAN, CleanupReturns(t, ok) PROVE PanicInv'
  BY <1>6 DEF CleanupReturns, PanicInv
<1>7. QED
  BY <1>1, <1>2, <1>3, <1>4, <1>5, <1>6 DEF HandlerStep, HandlerReturns, HandlerRetry

LEMMA AbortCalm ==
  ASSUME IInv, PanicInv, AbortStep, aborts' = aborts PROVE PanicInv'
<1> USE DEF chgVars
<1>1. ASSUME UserAbort \/ PruneAbort PROVE FALSE
  <2>1. aborts \in Nat /\ aborts' = aborts + 1
    BY <1>1, HandlerAssumption DEF UserAbort, PruneAbort, IInv, TypeOK
  <2>2. QED
    BY <2>1
<1>2. ASSUME NEW t \in Tasks, AbortTask(t) PROVE PanicInv'
  <2>1. lock = "abort" /\ ab.cause \in Tasks /\ ~Ready(status[ab.cause])
    BY <1>2, HandlerAssumption
       DEF AbortTask, Holds, PanicInv, IInv, TypeOK, Inv, AbortInv, Ready, ReadyStatuses
  <2>2. SetStatus(t, AbortedStatus(t)) /\ lock' = lock
    BY <1>2 DEF AbortTask
  <2>3. ~panicked'
    BY <2>1, <2>2, OneCalm DEF PanicInv
  <2>4. ab'.cause = ab.cause
    BY <1>2 DEF AbortTask, IInv, TypeOK
  <2>5. QED
    BY <2>3, <2>4, <2>2 DEF PanicInv
<1>3. CASE AbortLanes
  <2>1. ab'.cause = ab.cause /\ panicked' = panicked /\ lock' = lock
    BY <1>3 DEF AbortLanes, IInv, TypeOK
  <2>2. QED
    BY <2>1 DEF PanicInv
<1>4. CASE AbortEnd
  BY <1>4 DEF AbortEnd, PanicInv
<1>5. CASE AbortEndWithError
  <2>1. ab.cause \in Tasks /\ SetStatus(ab.cause, "Error") /\ lock' = "free"
    BY <1>5 DEF AbortEndWithError, IInv, TypeOK
  <2>2. QED
    BY <2>1, OneCalm DEF PanicInv, Ready, ReadyStatuses
<1>6. QED
  BY <1>1, <1>2, <1>3, <1>4, <1>5 DEF AbortStep

\* Failures of handlers, at any time and in any number, retries, crashes and
\* reboots never make a ready change unready: it takes an abort of the change, by
\* the user or by Prune (the panic of detectChangeReady).
THEOREM PanicNeedsAbort == Spec /\ [](aborts = 0) => []NeverUnreadyAgain
<1>1. Init => PanicInv
  BY DEF Init, PanicInv
<1>2. IInv /\ PanicInv /\ [Next]_vars /\ aborts' = aborts => PanicInv'
  <2> SUFFICES ASSUME IInv, PanicInv, Next \/ UNCHANGED vars, aborts' = aborts PROVE PanicInv'
    OBVIOUS
  <2>1. CASE SystemStep
    BY <2>1 DEF SystemStep, TimePasses, Stop, Crash, Exit, StartUp, PanicInv, chgVars, lockVars
  <2>2. CASE UNCHANGED vars
    BY <2>2 DEF vars, chgVars, lockVars, PanicInv
  <2>3. QED
    BY <2>1, <2>2, EnsureCalm, HandlerCalm, AbortCalm DEF Next
<1>3. PanicInv => NeverUnreadyAgain
  BY DEF PanicInv, NeverUnreadyAgain
<1>4. aborts = 0 /\ (aborts = 0)' => aborts' = aborts
  OBVIOUS
<1>5. QED
  BY <1>1, <1>2, <1>3, <1>4, Inductive, PTL DEF Spec

\* A panic strikes with the lock held by an abort.
PanicHeld == panicked => lock = "abort"

\* However the change is aborted, no other step makes it unready: not a pass, not a
\* handler, and not the Error that ends the abort of a failed task.
THEOREM PanicWithinAbort == Spec => []PanicHeld
<1>1. Init => PanicHeld
  BY DEF Init, PanicHeld
<1>2. ASSUME IInv, PanicHeld, Next PROVE PanicHeld'
  <2> USE DEF taskVars, chgVars, runVars, timeVars, lockVars, boundVars
  <2>1. CASE EnsureStep
    <3>1. lock = "ensure" \/ lock = "free"
      BY <2>1 DEF EnsureStep, EnsureBegin, EnsureEnd, ConsiderKill, ConsiderTryUndo, ConsiderSkip,
         ConsiderClean, ConsiderCannotUndo, ConsiderLater, ConsiderBlocked, ConsiderRun,
         Considered, Holds
    <3>2. PanicInv
      BY <1>2, <3>1 DEF PanicInv, PanicHeld
    <3>3. QED
      BY <2>1, <3>2, EnsureCalm DEF PanicInv, PanicHeld
  <2>2. CASE HandlerStep
    <3>1. lock = "free"
      BY <1>2, <2>2, HandlerSteady DEF IInv
    <3>2. PanicInv
      BY <1>2, <3>1 DEF PanicInv, PanicHeld
    <3>3. QED
      BY <2>2, <3>2, HandlerCalm DEF PanicInv, PanicHeld
  <2>3. CASE UserAbort \/ PruneAbort \/ AbortLanes \/ \E t \in Tasks : AbortTask(t)
    BY <2>3 DEF UserAbort, PruneAbort, AbortBegin, AbortLanes, AbortTask, Holds, PanicHeld
  <2>4. CASE AbortEnd
    BY <2>4 DEF AbortEnd, AbortWorkDone, Holds, PanicHeld
  <2>5. CASE AbortEndWithError
    <3>1. ~panicked /\ ab.cause \in Tasks /\ SetStatus(ab.cause, "Error")
      BY <1>2, <2>5 DEF AbortEndWithError, AbortWorkDone, Holds, IInv, TypeOK
    <3>2. QED
      BY <3>1, OneCalm DEF Ready, ReadyStatuses, PanicHeld
  <2>6. CASE SystemStep
    BY <1>2, <2>6 DEF SystemStep, TimePasses, Stop, Holds, Crash, Exit, StartUp, PanicHeld
  <2>7. QED
    BY <1>2, <2>1, <2>2, <2>3, <2>4, <2>5, <2>6 DEF Next, AbortStep
<1>3. ASSUME PanicHeld, UNCHANGED vars PROVE PanicHeld'
  BY <1>3 DEF vars, chgVars, lockVars, PanicHeld
<1>4. QED
  BY <1>1, <1>2, <1>3, Inductive, PTL DEF Spec

-----------------------------------------------------------------------------
(* The lanes of a change that is over.                                     *)

\* A change that is over has rolled back every lane with a failed task, for every
\* graph of tasks in which lanes are shared as a whole.
THEOREM LanesRollBack ==
  ASSUME SharedAsAWhole
  PROVE  Spec => []LaneAtomicity
<1>1. IInv /\ PanicHeld /\ (lock # "abort" => KeptAlive(status, waited)) => LaneAtomicity
  <2> SUFFICES ASSUME IInv, PanicHeld, lock = "free", ready, KeptAlive(status, waited),
                      NEW t \in HasUndo, status[t] = "Done"
               PROVE  \E l \in LaneSet(t) : \A u \in Tasks : l \in LaneSet(u) => status[u] = "Done"
    BY DEF LaneAtomicity
  <2>1. AllReady(status)
    BY DEF IInv, Inv, ReadyExact, PanicHeld
  <2>2. PICK l \in LaneSet(t) : AliveLane(status, waited, l)
    BY DEF KeptAlive, Live, EffectiveStatus
  <2>3. \A u \in Tasks : Live(status, waited, u) => status[u] = "Done"
    BY <2>1 DEF AllReady, Ready, ReadyStatuses, Live, EffectiveStatus
  <2>4. QED
    BY <2>2, <2>3 DEF AliveLane
<1>2. QED
  BY <1>1, KeptAliveByALane, PanicWithinAbort, Inductive, PTL

-----------------------------------------------------------------------------
(* A change is a saga.                                                     *)

\* A failure is checkpointed in the step in which it is recorded, and only tasks
\* that can be undone are undone.
SagaInv ==
    /\ \A t \in Tasks : status[t] = "Error" <=> disk.status[t] = "Error"
    /\ \A t \in Tasks : status[t] = "Undoing" => t \in HasUndo
    /\ \A t \in Tasks : disk.status[t] = "Undoing" => t \in HasUndo

\* No task fails or recovers from a failure, and none begins to be undone
\* without an undo handler.
Orderly ==
    /\ \A t \in Tasks : status'[t] = "Error" <=> status[t] = "Error"
    /\ \A t \in Tasks : status'[t] = "Undoing" => status[t] = "Undoing" \/ t \in HasUndo

LEMMA OneOrderly ==
  ASSUME TypeOK, NEW t \in Tasks, NEW new, SetStatus(t, new), new # "Error", status[t] # "Error",
         new = "Undoing" => status[t] = "Undoing" \/ t \in HasUndo
  PROVE  Orderly
  BY DEF TypeOK, SetStatus, Orderly

\* How a step changes the effects.
Quiet == Orderly /\ dirty' = dirty
Undoes(t) == lock = "free" /\ status[t] = "Undoing" /\ Orderly /\ dirty' = dirty \ {t}

LEMMA EnsureSaga == ASSUME TypeOK, EnsureStep PROVE EnsureEnd \/ Quiet
<1> USE DEF taskVars
<1>1. ASSUME status' = status PROVE Orderly
  BY <1>1 DEF Orderly
<1>2. CASE EnsureBegin
  BY <1>1, <1>2 DEF EnsureBegin, Quiet
<1>3. ASSUME NEW t \in Tasks, ConsiderTryUndo(t) PROVE Quiet
  BY <1>3, OneOrderly DEF ConsiderTryUndo, TryUndo, TryUndoStatus, Quiet
<1>4. ASSUME NEW t \in Tasks,
             ConsiderKill(t) \/ ConsiderSkip(t) \/ ConsiderClean(t) \/ ConsiderLater(t) \/ ConsiderBlocked(t)
      PROVE  Quiet
  BY <1>1, <1>4 DEF ConsiderKill, ConsiderSkip, ConsiderClean, ConsiderLater, ConsiderBlocked,
                    Considered, Quiet
<1>5. ASSUME NEW t \in Tasks, ConsiderCannotUndo(t) PROVE Quiet
  BY <1>5, OneOrderly DEF ConsiderCannotUndo, Considered, Due, Quiet
<1>6. ASSUME NEW t \in Tasks, ConsiderRun(t) PROVE Quiet
  <2>1. /\ status[t] \in {"Do", "Doing", "Undo", "Undoing"}
        /\ status[t] = "Undo" => t \in HasUndo
        /\ dirty' = dirty
    BY <1>6 DEF ConsiderRun, Considered, Due, CannotUndo
  <2>2. SetStatus(t, IF status[t] \in {"Do", "Doing"} THEN "Doing" ELSE "Undoing")
    BY <1>6 DEF ConsiderRun
  <2>3. CASE status[t] \in {"Do", "Doing"}
    BY <2>1, <2>2, <2>3, OneOrderly DEF Quiet
  <2>4. CASE status[t] \in {"Undo", "Undoing"}
    BY <2>1, <2>2, <2>4, OneOrderly DEF Quiet
  <2>5. QED
    BY <2>1, <2>3, <2>4
<1>7. QED
  BY <1>2, <1>3, <1>4, <1>5, <1>6 DEF EnsureStep

LEMMA HandlerSaga == ASSUME TypeOK, HandlerStep PROVE Quiet \/ \E t \in Tasks : Undoes(t)
<1> USE DEF taskVars
<1>1. ASSUME status' = status PROVE Orderly
  BY <1>1 DEF Orderly
<1>2. ASSUME NEW t \in Tasks, HandlerSetsStatus(t) PROVE Quiet \/ Undoes(t)
  BY <1>2, OneOrderly DEF HandlerSetsStatus, Running, Holds, Quiet, Undoes
<1>3. ASSUME NEW t \in Tasks, NEW ws \in WaitedStatuses, HandlerSetsWait(t, ws)
      PROVE  Quiet \/ Undoes(t)
  <2>1. Orderly
    BY <1>3, OneOrderly DEF HandlerSetsWait
  <2>2. dirty' = dirty \/ (status[t] = "Undoing" /\ dirty' = dirty \ {t})
    BY <1>3 DEF HandlerSetsWait
  <2>3. QED
    BY <1>3, <2>1, <2>2 DEF HandlerSetsWait, Running, Holds, Quiet, Undoes
<1>4. ASSUME NEW t \in Tasks, HandlerOk(t) PROVE Quiet \/ Undoes(t)
  <2>1. Orderly
    BY <1>1, <1>4, OneOrderly DEF HandlerOk
  <2>2. dirty' = dirty \/ (status[t] = "Undoing" /\ dirty' = dirty \ {t})
    BY <1>4 DEF HandlerOk
  <2>3. QED
    BY <1>4, <2>1, <2>2 DEF HandlerOk, Return, Running, Holds, Quiet, Undoes
<1>5. ASSUME NEW t \in Tasks, NEW after \in BOOLEAN, Retry(t, after) PROVE Quiet
  BY <1>1, <1>5, OneOrderly DEF Retry, TryUndoStatus, Quiet
<1>6. ASSUME NEW t \in Tasks, HandlerError(t) PROVE Quiet
  BY <1>1, <1>5, <1>6 DEF HandlerError, Quiet
<1>7. ASSUME NEW t \in Tasks, NEW ok \in BOOLEAN, CleanupReturns(t, ok) PROVE Quiet
  BY <1>1, <1>7 DEF CleanupReturns, Quiet
<1>8. QED
  BY <1>2, <1>3, <1>4, <1>5, <1>6, <1>7 DEF HandlerStep, HandlerReturns, HandlerRetry

LEMMA AbortSaga == ASSUME TypeOK, AbortStep PROVE AbortEndWithError \/ Quiet
<1> USE DEF taskVars
<1>1. ASSUME status' = status PROVE Orderly
  BY <1>1 DEF Orderly
<1>2. ASSUME NEW t \in Tasks, AbortTask(t) PROVE Quiet
  <2>1. SetStatus(t, AbortedStatus(t)) /\ dirty' = dirty
    BY <1>2 DEF AbortTask
  <2>2. AbortedStatus(t) \in {"Hold", "Abort", "Undo"} \/ AbortedStatus(t) = status[t]
    BY DEF AbortedStatus
  <2>3. CASE AbortedStatus(t) = status[t]
    BY <1>1, <2>1, <2>3 DEF SetStatus, TypeOK, Quiet
  <2>4. CASE status[t] = "Error"
    BY <2>3, <2>4 DEF AbortedStatus, EffectiveStatus
  <2>5. CASE AbortedStatus(t) \in {"Hold", "Abort", "Undo"} /\ status[t] # "Error"
    BY <2>1, <2>5, OneOrderly DEF Quiet
  <2>6. QED
    BY <2>2, <2>3, <2>4, <2>5
<1>3. CASE UserAbort \/ PruneAbort \/ AbortLanes \/ AbortEnd
  BY <1>1, <1>3 DEF UserAbort, PruneAbort, AbortBegin, AbortLanes, AbortEnd, Quiet
<1>4. QED
  BY <1>2, <1>3 DEF AbortStep

\* What a step does to SagaInv when no task fails.
LEMMA OrderlyKeeps ==
  ASSUME SagaInv, Orderly, DiskStep
  PROVE  SagaInv' /\ Failed' = Failed
<1>1. disk' = disk \/ disk'.status = status'
  BY DEF DiskStep, Checkpoint, Snapshot
<1>2. /\ \A t \in Tasks : status'[t] = "Error" <=> disk'.status[t] = "Error"
      /\ \A t \in Tasks : disk'.status[t] = "Error" <=> disk.status[t] = "Error"
  BY <1>1 DEF SagaInv, Orderly
<1>3. /\ \A t \in Tasks : status'[t] = "Undoing" => t \in HasUndo
      /\ \A t \in Tasks : disk'.status[t] = "Undoing" => t \in HasUndo
  BY <1>1 DEF SagaInv, Orderly
<1>4. QED
  BY <1>2, <1>3 DEF SagaInv, Failed

LEMMA QuietStep ==
  ASSUME SagaInv, Quiet, DiskStep PROVE SagaInv' /\ UNCHANGED <<dirty, Failed>>
  BY OrderlyKeeps DEF Quiet

LEMMA UndoStep ==
  ASSUME IInv, SagaInv, DiskStep, NEW t \in Tasks, Undoes(t)
  PROVE  SagaInv' /\ Sagas!Undo(t)
<1>1. t \in HasUndo \ Failed
  BY DEF SagaInv, Undoes, Failed
<1>2. EffectiveStatus(status, waited, t) = "Undoing"
  BY DEF Undoes, EffectiveStatus
<1>3. ASSUME NEW h \in dirty, t \in WaitTasks[h] PROVE h \in Failed \/ h \notin HasUndo
  <2>1. h \in Tasks /\ h \in HaltTasks(t)
    BY <1>3 DEF IInv, TypeOK, HaltTasks
  <2>2. OutOfTheWay(status, h)
    BY <1>2, <2>1 DEF IInv, Inv, MemoryInv, Order
  <2>3. CASE status[h] \in {"Undone", "Hold"}
    <3>1. EffectiveStatus(status, waited, h) \in {"Undone", "Hold"}
      BY <2>3 DEF EffectiveStatus
    <3>2. QED
      BY <1>3, <2>1, <3>1 DEF IInv, Inv, MemoryInv, Effects
  <2>4. CASE status[h] = "Error"
    BY <2>1, <2>4 DEF SagaInv, Failed
  <2>5. QED
    BY <2>2, <2>3, <2>4 DEF OutOfTheWay
<1>4. dirty' = dirty \ {t} /\ SagaInv' /\ Failed' = Failed
  BY OrderlyKeeps DEF Undoes
<1>5. QED
  BY <1>1, <1>3, <1>4 DEF Sagas!Undo

LEMMA DoStep ==
  ASSUME IInv, SagaInv, EnsureEnd
  PROVE  SagaInv' /\ \E ts \in SUBSET Tasks : Sagas!Do(ts)
<1> DEFINE ts == {t \in Tasks : tombs[t] = "do" /\ status[t] = "Doing"}
<1>1. lock = "ensure" /\ status' = status /\ dirty' = dirty \cup ts /\ disk'.status = status'
  BY DEF EnsureEnd, Holds, taskVars, Checkpoint, Snapshot
<1>2. SagaInv' /\ Failed' = Failed
  BY <1>1 DEF SagaInv, Failed
<1>3. ts \cap Failed = {}
  BY DEF SagaInv, Failed
<1>4. ASSUME NEW t \in ts, NEW w \in WaitTasks[t] PROVE w \in dirty
  <2>1. t \in Tasks /\ w \in Tasks
    BY <1>4, GraphAssumption
  <2>2. Relies(status, waited, t)
    BY <1>4 DEF Relies, EffectiveStatus
  <2>3. t \notin Pending
    BY <1>1 DEF Pending
  <2>4. status[w] = "Done"
    BY <1>4, <2>1, <2>2, <2>3 DEF IInv, Inv, MemoryInv, Prereq
  <2>5. w \notin Fresh /\ EffectiveStatus(status, waited, w) = "Done"
    BY <2>4 DEF Fresh, EffectiveStatus
  <2>6. w \in dirty \cup Fresh
    BY <2>1, <2>5 DEF IInv, Inv, MemoryInv, Effects
  <2>7. QED
    BY <2>5, <2>6
<1>5. Sagas!Do(ts)
  BY <1>1, <1>2, <1>3, <1>4 DEF Sagas!Do
<1>6. QED
  BY <1>2, <1>5

LEMMA FailStep ==
  ASSUME IInv, SagaInv, AbortEndWithError
  PROVE  SagaInv' /\ Sagas!Fail(ab.cause) /\ ab.cause \in Tasks
<1>1. ab.cause \in Tasks /\ status \in [Tasks -> Statuses]
  BY DEF IInv, TypeOK, AbortEndWithError
<1>2. /\ status' = [status EXCEPT ![ab.cause] = "Error"]
      /\ dirty' = dirty /\ disk'.status = status'
  BY DEF AbortEndWithError, SetStatus, Checkpoint, Snapshot
<1>3. \A t \in Tasks : status'[t] = IF t = ab.cause THEN "Error" ELSE status[t]
  BY <1>1, <1>2
<1>4. SagaInv'
  BY <1>2, <1>3 DEF SagaInv
<1>5. Failed' = Failed \cup {ab.cause}
  BY <1>1, <1>2, <1>3 DEF SagaInv, Failed
<1>6. QED
  BY <1>1, <1>2, <1>4, <1>5 DEF Sagas!Fail

LEMMA StartUpSaga ==
  ASSUME IInv, SagaInv, NEW rebooted \in BOOLEAN, StartUp(rebooted)
  PROVE  SagaInv' /\ UNCHANGED <<dirty, Failed>>
<1>1. \A t \in Tasks : waited'[t] \in {"Do", "Done", "Undo", "Undone"}
  BY DEF StartUp, IInv, TypeOK, WaitedStatuses
<1>2. dirty' = dirty /\ disk'.status = status'
  BY DEF StartUp, Checkpoint, Snapshot
<1>3. \A t \in Tasks : status'[t] = IF rebooted /\ disk.status[t] = "Wait" THEN waited'[t]
                                    ELSE disk.status[t]
  BY DEF StartUp
<1>4. \A t \in Tasks : /\ status'[t] = "Error" <=> disk.status[t] = "Error"
                       /\ status'[t] = "Undoing" => disk.status[t] = "Undoing"
  BY <1>1, <1>3
<1>5. QED
  BY <1>2, <1>4 DEF SagaInv, Failed

\* Every step of the runner is a step of the saga, or none.
LEMMA SagaStep ==
  ASSUME IInv, SagaInv, [Next]_vars
  PROVE  SagaInv' /\ [Sagas!SagaNext]_<<dirty, Failed>>
<1>0. TypeOK
  BY DEF IInv
<1>1. ASSUME Quiet, Next PROVE SagaInv' /\ UNCHANGED <<dirty, Failed>>
  BY <1>1, NextDiskStep, QuietStep
<1>2. CASE EnsureStep
  <2>1. CASE EnsureEnd
    BY <2>1, DoStep DEF Sagas!SagaNext
  <2>2. QED
    BY <1>0, <1>1, <1>2, <2>1, EnsureSaga DEF Next
<1>3. CASE HandlerStep
  <2>1. ASSUME NEW t \in Tasks, Undoes(t) PROVE SagaInv' /\ Sagas!SagaNext
    BY <1>3, <2>1, NextDiskStep, UndoStep DEF Next, Sagas!SagaNext
  <2>2. QED
    BY <1>0, <1>1, <1>3, <2>1, HandlerSaga DEF Next
<1>4. CASE AbortStep
  <2>1. CASE AbortEndWithError
    BY <2>1, FailStep DEF Sagas!SagaNext
  <2>2. QED
    BY <1>0, <1>1, <1>4, <2>1, AbortSaga DEF Next
<1>5. CASE SystemStep
  <2>1. ASSUME NEW t \in Tasks, TimePasses(t) PROVE Quiet
    BY <2>1 DEF TimePasses, Quiet, Orderly
  <2>2. ASSUME Stop PROVE Quiet
    BY <2>2 DEF Stop, taskVars, Quiet, Orderly
  <2>3. ASSUME NEW rebooted \in BOOLEAN, Crash(rebooted) \/ Exit(rebooted)
        PROVE  SagaInv' /\ UNCHANGED <<dirty, Failed>>
    BY <2>3, StartUpSaga DEF Crash, Exit
  <2>4. QED
    BY <1>1, <1>5, <2>1, <2>2, <2>3 DEF SystemStep, Next
<1>6. CASE UNCHANGED vars
  BY <1>6 DEF vars, taskVars, SagaInv, Failed
<1>7. QED
  BY <1>2, <1>3, <1>4, <1>5, <1>6 DEF Next

\* The runner, with its passes, aborts, lanes, retries, crashes and reboots,
\* implements the saga: effects appear and disappear in the order of the
\* dependencies, for every change and every mix of handlers.
THEOREM RefinesSaga == Spec => ImplementsSaga
<1>1. Init => SagaInv /\ Sagas!SagaInit
  BY DEF Init, Snapshot, SagaInv, Sagas!SagaInit, Failed
<1>2. IInv /\ SagaInv /\ [Next]_vars => SagaInv' /\ [Sagas!SagaNext]_<<dirty, Failed>>
  BY SagaStep
<1>3. QED
  BY <1>1, <1>2, Inductive, PTL DEF Spec, ImplementsSaga, Sagas!SagaSpec, Sagas!sagaVars

\* No effect is left in the air: what a task has done that could be undone rests
\* on the effects of all tasks it waits for, until the task fails.
Founded ==
    \A t \in dirty \cap HasUndo : t \in Failed \/ WaitTasks[t] \subseteq dirty

\* Whatever is aborted, fails, is undone, crashes or is rebooted, and whichever
\* handlers run at the same time, every effect that a handler could still undo
\* stands on the effects it builds on.  It follows from the saga alone.
THEOREM EffectsFounded == Spec => []Founded
<1>1. Sagas!SagaInit => Founded
  BY DEF Sagas!SagaInit, Founded
<1>2. ASSUME Founded, [Sagas!SagaNext]_<<dirty, Failed>> PROVE Founded'
  <2>1. ASSUME NEW ts \in SUBSET Tasks, Sagas!Do(ts) PROVE Founded'
    BY <1>2, <2>1 DEF Sagas!Do, Founded
  <2>2. ASSUME NEW t \in Tasks, Sagas!Undo(t) PROVE Founded'
    <3> SUFFICES ASSUME NEW u \in dirty' \cap HasUndo, u \notin Failed', NEW w \in WaitTasks[u]
                 PROVE  w \in dirty'
      BY DEF Founded
    <3>1. u \in dirty /\ u # t /\ u \notin Failed
      BY <2>2 DEF Sagas!Undo
    <3>2. w \in dirty
      BY <1>2, <3>1 DEF Founded
    <3>3. w # t
      BY <2>2, <3>1 DEF Sagas!Undo
    <3>4. QED
      BY <2>2, <3>2, <3>3 DEF Sagas!Undo
  <2>3. ASSUME NEW t \in Tasks, Sagas!Fail(t) PROVE Founded'
    BY <1>2, <2>3 DEF Sagas!Fail, Founded
  <2>4. CASE UNCHANGED <<dirty, Failed>>
    BY <1>2, <2>4 DEF Founded
  <2>5. QED
    BY <1>2, <2>1, <2>2, <2>3, <2>4 DEF Sagas!SagaNext
<1>3. QED
  BY <1>1, <1>2, RefinesSaga, PTL DEF ImplementsSaga, Sagas!SagaSpec, Sagas!sagaVars
=============================================================================
