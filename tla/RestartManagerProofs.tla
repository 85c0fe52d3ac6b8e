------------------------ MODULE RestartManagerProofs ------------------------
(* Theorems about RestartManager, for every change and every number of      *)
(* stops, crashes and reboots.                                              *)
EXTENDS RestartManager, TaskRunnerProofs

-----------------------------------------------------------------------------
(* The restart manager adds to the task runner and takes nothing away.      *)

LEMMA RestartStepIsRunnerStep == [RestartNext]_allVars => [Next]_vars
<1> SUFFICES ASSUME [RestartNext]_allVars PROVE [Next]_vars
  OBVIOUS
<1>1. CASE RunnerStep
  BY <1>1 DEF RunnerStep, Next, HandlerStep, SystemStep
<1>2. ASSUME NEW t \in Tasks, FinishTaskWithRestart(t) PROVE [Next]_vars
  BY <1>2 DEF FinishTaskWithRestart, Next, HandlerStep, WaitedStatuses
<1>3. ASSUME NEW t \in Tasks, TaskWaitForRestart(t) PROVE [Next]_vars
  BY <1>3 DEF TaskWaitForRestart, Next, HandlerStep, WaitedStatuses
<1>4. CASE StopManager \/ StopRunner \/ RebootDidNotHappen
  BY <1>4 DEF StopManager, StopRunner, RebootDidNotHappen, Next, SystemStep
<1>5. ASSUME NEW rebooted \in BOOLEAN, Starts(rebooted) PROVE [Next]_vars
  BY <1>5 DEF Starts, Next, SystemStep, Crash
<1>6. CASE UNCHANGED allVars
  BY <1>6 DEF allVars
<1>7. QED
  BY <1>1, <1>2, <1>3, <1>4, <1>5, <1>6 DEF RestartNext

\* With restarts, the task runner still behaves as specified on its own, so all
\* its theorems hold of the two together (restart never sets a status the runner
\* could not set).
THEOREM RestartImplementsRunner == RestartSpec => Spec
<1>1. RestartInit => Init
  BY DEF RestartInit
<1>2. QED
  BY <1>1, RestartStepIsRunnerStep, PTL DEF RestartSpec, Spec

LEMMA RestartRunnerType == RestartSpec => []TypeOK
  BY RestartImplementsRunner, TypeCorrect, PTL

-----------------------------------------------------------------------------
(* Type correctness.                                                       *)

LEMMA ChangeStatusType ==
  ASSUME NEW st \in [Tasks -> Statuses] PROVE ChangeStatus(st) \in Statuses
<1> DEFINE seen == {i \in DOMAIN StatusOrder : \E t \in Tasks : st[t] = StatusOrder[i]}
           first == CHOOSE i \in seen : \A j \in seen : i <= j
<1>1. /\ DOMAIN StatusOrder = 1..10
      /\ \A i \in 1..10 : StatusOrder[i] \in Statuses
      /\ \A s \in Statuses : \E i \in 1..10 : StatusOrder[i] = s
  BY DEF StatusOrder, Statuses, ReadyStatuses
<1>2. seen # {} /\ seen \subseteq 1..10
  BY <1>1, TasksAssumption
<1>3. \E i \in seen : \A j \in seen : i <= j
  BY <1>2, SMTT(30)
<1>4. first \in seen
  BY <1>3
<1>5. StatusOrder[first] \in Statuses
  BY <1>1, <1>2, <1>4
<1>6. QED
  BY <1>5 DEF ChangeStatus, Statuses, ReadyStatuses

\* What the callback and the checkpoint assign is well-typed.
LEMMA NotifyType ==
  ASSUME RestartTypeOK, TypeOK', NEW p \in BOOLEAN, Notify(p)
  PROVE  /\ params' \in BOOLEAN /\ asked' \in BOOLEAN
         /\ observed' \in Statuses \cup {"Default"}
<1>1. ChangeStatus(status') \in Statuses
  BY ChangeStatusType DEF TypeOK
<1>2. QED
  BY <1>1 DEF Notify, RestartTypeOK

LEMMA SaveType ==
  ASSUME RestartTypeOK, Save, params' \in BOOLEAN, asked' \in BOOLEAN,
         tentative' \in 0..RebootMaxAttempts
  PROVE  rdisk' \in [params : BOOLEAN, asked : BOOLEAN, tentative : 0..RebootMaxAttempts]
  BY DEF Save, RestartTypeOK

\* A system is a classic one for ever, or never.
LEMMA SystemStays == [RestartNext]_allVars => onClassic' = onClassic
  BY DEF RestartNext, allVars, restartVars

LEMMA RestartNextType == TypeOK' /\ RestartTypeOK /\ [RestartNext]_allVars => RestartTypeOK'
<1> SUFFICES ASSUME TypeOK', RestartTypeOK, [RestartNext]_allVars PROVE RestartTypeOK'
  OBVIOUS
<1>0. onClassic' \in BOOLEAN
  BY SystemStays DEF RestartTypeOK
<1>1. ASSUME NEW p \in BOOLEAN, Notify(p), Save, UNCHANGED <<hook, tentative, phase, gaveUp>>
      PROVE  RestartTypeOK'
  <2>1. tentative' \in 0..RebootMaxAttempts
    BY <1>1 DEF RestartTypeOK
  <2>2. params' \in BOOLEAN /\ asked' \in BOOLEAN /\ observed' \in Statuses \cup {"Default"}
    BY <1>1, NotifyType
  <2>3. rdisk' \in [params : BOOLEAN, asked : BOOLEAN, tentative : 0..RebootMaxAttempts]
    BY <1>1, <2>1, <2>2, SaveType
  <2>4. QED
    BY <1>0, <1>1, <2>1, <2>2, <2>3 DEF RestartTypeOK
<1>2. CASE RunnerStep
  BY <1>1, <1>2 DEF RunnerStep, RestartTypeOK
<1>3. ASSUME NEW t \in Tasks, FinishTaskWithRestart(t) PROVE RestartTypeOK'
  BY <1>1, <1>3 DEF FinishTaskWithRestart
<1>4. ASSUME NEW t \in Tasks, TaskWaitForRestart(t) PROVE RestartTypeOK'
  BY <1>1, <1>4 DEF TaskWaitForRestart, RestartTypeOK
<1>5. CASE StopManager \/ StopRunner
  BY <1>0, <1>5 DEF StopManager, StopRunner, restartVars, RestartTypeOK
<1>6. CASE RebootDidNotHappen
  <2>1. rdisk.tentative + 1 \in 0..RebootMaxAttempts
    BY <1>6, RestartAssumption DEF RebootDidNotHappen, RestartTypeOK
  <2>2. rdisk' = [rdisk EXCEPT !.tentative = rdisk.tentative + 1]
    BY <1>6 DEF RebootDidNotHappen
  <2>3. rdisk' \in [params : BOOLEAN, asked : BOOLEAN, tentative : 0..RebootMaxAttempts]
    BY <2>1, <2>2 DEF RestartTypeOK
  <2>4. QED
    BY <1>0, <1>6, <2>1, <2>3 DEF RebootDidNotHappen, RestartTypeOK
<1>7. ASSUME NEW rebooted \in BOOLEAN, Starts(rebooted) PROVE RestartTypeOK'
  <2>1. ChangeStatus(status') \in Statuses
    BY ChangeStatusType DEF TypeOK
  <2>2. /\ params' \in BOOLEAN /\ asked' \in BOOLEAN /\ gaveUp' \in BOOLEAN
        /\ observed' \in Statuses \cup {"Default"}
    BY <1>7, <2>1 DEF Starts, RestartTypeOK
  <2>3. tentative' \in 0..RebootMaxAttempts
    BY <1>7, RestartAssumption DEF Starts
  <2>4. rdisk' \in [params : BOOLEAN, asked : BOOLEAN, tentative : 0..RebootMaxAttempts]
    BY <1>7, <2>2, <2>3, SaveType DEF Starts
  <2>5. QED
    BY <1>0, <1>7, <2>2, <2>3, <2>4 DEF Starts, RestartTypeOK
<1>8. CASE UNCHANGED allVars
  BY <1>8 DEF allVars, restartVars, RestartTypeOK
<1>9. QED
  BY <1>2, <1>3, <1>4, <1>5, <1>6, <1>7, <1>8 DEF RestartNext

\* The variables of the restart manager keep their types; in particular the
\* daemon never counts more attempts than rebootMaxAttempts.
THEOREM RestartTypeCorrect == RestartSpec => []RestartTypeOK
<1>1. ASSUME RestartInit PROVE RestartTypeOK
  <2>1. 0 \in 0..RebootMaxAttempts
    BY RestartAssumption
  <2>2. rdisk \in [params : BOOLEAN, asked : BOOLEAN, tentative : 0..RebootMaxAttempts]
    BY <1>1, <2>1 DEF RestartInit
  <2>3. QED
    BY <1>1, <2>1, <2>2, RestartAssumption DEF RestartInit, RestartTypeOK
<1>2. QED
  BY <1>1, RestartNextType, RestartRunnerType, PTL DEF RestartSpec

-----------------------------------------------------------------------------
(* Waiting tasks.                                                          *)

\* No task begins to wait.
NoNewWait == \A t \in Tasks : status'[t] = "Wait" => status[t] = "Wait"

LEMMA SetStatusNoNewWait ==
  ASSUME TypeOK, NEW t \in Tasks, NEW new, new # "Wait" \/ new = status[t], SetStatus(t, new)
  PROVE  NoNewWait
  BY DEF TypeOK, SetStatus, NoNewWait

\* Only SetToWait makes a task wait.
LEMMA RunnerNoNewWait ==
  ASSUME TypeOK,
         \/ EnsureStep \/ HandlerReturns \/ AbortStep
         \/ \E t \in Tasks : HandlerSetsStatus(t) \/ TimePasses(t)
  PROVE  NoNewWait
<1> USE DEF taskVars
<1>1. ASSUME status' = status PROVE NoNewWait
  BY <1>1 DEF NoNewWait
<1>2. CASE EnsureStep
  BY <1>1, <1>2, SetStatusNoNewWait
     DEF EnsureStep, EnsureBegin, EnsureEnd, ConsiderKill, ConsiderTryUndo, TryUndo, TryUndoStatus,
         ConsiderSkip, ConsiderClean, ConsiderCannotUndo, ConsiderLater, ConsiderBlocked, ConsiderRun
<1>3. CASE HandlerReturns
  <2>1. ASSUME NEW t \in Tasks, HandlerOk(t) PROVE NoNewWait
    BY <1>1, <2>1, SetStatusNoNewWait DEF HandlerOk
  <2>2. ASSUME NEW t \in Tasks, NEW after \in BOOLEAN, Retry(t, after) PROVE NoNewWait
    BY <1>1, <2>2, SetStatusNoNewWait DEF Retry, TryUndoStatus
  <2>3. ASSUME NEW t \in Tasks, HandlerError(t) PROVE NoNewWait
    BY <1>1, <2>2, <2>3 DEF HandlerError
  <2>4. QED
    BY <1>1, <1>3, <2>1, <2>2, <2>3 DEF HandlerReturns, HandlerRetry, CleanupReturns
<1>4. CASE AbortStep
  <2>1. ASSUME NEW t \in Tasks, AbortTask(t) PROVE NoNewWait
    BY <2>1, SetStatusNoNewWait DEF AbortTask, AbortedStatus
  <2>2. ASSUME AbortEndWithError PROVE NoNewWait
    BY <2>2, SetStatusNoNewWait DEF AbortEndWithError, TypeOK
  <2>3. QED
    BY <1>1, <1>4, <2>1, <2>2 DEF AbortStep, UserAbort, PruneAbort, AbortBegin, AbortLanes, AbortEnd
<1>5. ASSUME NEW t \in Tasks, HandlerSetsStatus(t) \/ TimePasses(t) PROVE NoNewWait
  BY <1>1, <1>5, SetStatusNoNewWait DEF HandlerSetsStatus, TimePasses
<1>6. QED
  BY <1>2, <1>3, <1>4, <1>5

\* Parameters do not disappear without a request.
LEMMA NotifyKeeps ==
  ASSUME ~onClassic, RestartTypeOK, NEW p \in BOOLEAN, p \/ asked, Notify(p)
  PROVE  params' \/ asked'
  BY DEF Notify, RestartTypeOK

Covered == asked \/ params \/ gaveUp
CoveredOnDisk == rdisk.asked \/ rdisk.params \/ gaveUp

\* A step of the runner either checkpoints everything or nothing.
LEMMA SaveCovers ==
  ASSUME RebootNotForgotten, ~onClassic, DiskStep, Saved', Save, gaveUp' = gaveUp,
         (\E t \in Tasks : status'[t] = "Wait") => Covered'
  PROVE  (\E t \in Tasks : disk'.status[t] = "Wait") => CoveredOnDisk'
<1>1. CASE lock' = "free"
  <2>1. disk'.status = status' /\ rdisk'.asked = asked' /\ rdisk'.params = params'
    BY <1>1 DEF Saved, Snapshot, Save
  <2>2. QED
    BY <2>1 DEF Covered, CoveredOnDisk
<1>2. CASE lock' # "free"
  BY <1>2 DEF DiskStep, Save, RebootNotForgotten, CoveredOnDisk
<1>3. QED
  BY <1>1, <1>2

LEMMA NotForgottenStep ==
  IInv /\ IInv' /\ RestartTypeOK /\ RebootNotForgotten /\ [RestartNext]_allVars => RebootNotForgotten'
<1> SUFFICES ASSUME IInv, IInv', RestartTypeOK, RebootNotForgotten, [RestartNext]_allVars, ~onClassic
             PROVE  RebootNotForgotten'
  BY SystemStays DEF RebootNotForgotten
<1>0. TypeOK /\ Saved'
  BY DEF IInv
<1>1. ASSUME NEW p \in BOOLEAN, Notify(p), Save, gaveUp' = gaveUp, Next \/ UNCHANGED vars,
             p \/ (NoNewWait /\ p = params)
      PROVE  RebootNotForgotten'
  <2>1. p \/ asked => params' \/ asked'
    BY <1>1, NotifyKeeps
  <2>2. (\E t \in Tasks : status'[t] = "Wait") => Covered'
    BY <1>1, <2>1 DEF NoNewWait, RebootNotForgotten, Covered
  <2>3. CASE Next
    BY <1>0, <1>1, <2>2, <2>3, NextDiskStep, SaveCovers DEF RebootNotForgotten, Covered, CoveredOnDisk
  <2>4. CASE UNCHANGED vars
    <3>1. DiskStep
      BY <2>4 DEF DiskStep, vars, taskVars, lockVars
    <3>2. QED
      BY <1>0, <1>1, <2>2, <3>1, SaveCovers DEF RebootNotForgotten, Covered, CoveredOnDisk
  <2>5. QED
    BY <1>1, <2>3, <2>4
<1>2. CASE RunnerStep
  <2>1. NoNewWait
    BY <1>0, <1>2, RunnerNoNewWait DEF RunnerStep
  <2>2. Next
    BY <1>2 DEF RunnerStep, Next, HandlerStep, SystemStep
  <2>3. params \in BOOLEAN
    BY DEF RestartTypeOK
  <2>4. QED
    BY <1>1, <1>2, <2>1, <2>2, <2>3 DEF RunnerStep
<1>3. ASSUME NEW t \in Tasks, FinishTaskWithRestart(t) PROVE RebootNotForgotten'
  <2>1. ~SkipsRestart(t)
    BY DEF SkipsRestart
  <2>2. Notify(TRUE) /\ Save /\ gaveUp' = gaveUp
    BY <1>3, <2>1 DEF FinishTaskWithRestart
  <2>3. Next \/ UNCHANGED vars
    BY <1>3 DEF FinishTaskWithRestart, Next, HandlerStep, WaitedStatuses
  <2>4. QED
    BY <1>1, <2>2, <2>3
<1>4. ASSUME NEW t \in Tasks, TaskWaitForRestart(t) PROVE RebootNotForgotten'
  <2>1. Covered
    BY <1>4 DEF TaskWaitForRestart, PendingForSystemRestart, RebootNotForgotten, Covered
  <2>2. Notify(params) /\ Save /\ gaveUp' = gaveUp /\ params \in BOOLEAN
    BY <1>4 DEF TaskWaitForRestart, RestartTypeOK
  <2>3. Covered'
    BY <2>1, <2>2, NotifyKeeps DEF Covered
  <2>4. DiskStep
    BY <1>4, NextDiskStep DEF TaskWaitForRestart, Next, HandlerStep, WaitedStatuses
  <2>5. QED
    BY <1>0, <2>2, <2>3, <2>4, SaveCovers DEF RebootNotForgotten, Covered, CoveredOnDisk
<1>5. CASE StopManager \/ StopRunner \/ RebootDidNotHappen
  <2>1. status' = status /\ disk' = disk /\ UNCHANGED <<params, asked, gaveUp>>
    BY <1>5 DEF StopManager, StopRunner, RebootDidNotHappen, Stop, vars, taskVars, restartVars
  <2>2. rdisk'.params = rdisk.params /\ rdisk'.asked = rdisk.asked
    BY <1>5 DEF StopManager, StopRunner, RebootDidNotHappen, restartVars, RestartTypeOK
  <2>3. QED
    BY <2>1, <2>2 DEF RebootNotForgotten
<1>6. ASSUME NEW rebooted \in BOOLEAN, Starts(rebooted) PROVE RebootNotForgotten'
  <2>1. lock' = "free" /\ Save
    BY <1>6 DEF Starts, StartUp
  <2>2. ASSUME NEW t \in Tasks, status'[t] = "Wait"
        PROVE  ~rebooted /\ disk.status[t] = "Wait"
    <3>1. waited'[t] # "Wait"
      BY DEF IInv, TypeOK, WaitedStatuses
    <3>2. QED
      BY <1>6, <2>2, <3>1 DEF Starts, StartUp
  <2>3. ASSUME NEW t \in Tasks, status'[t] = "Wait" PROVE Covered'
    <3>1. ~rebooted /\ CoveredOnDisk
      BY <2>2, <2>3 DEF RebootNotForgotten, CoveredOnDisk
    <3>2. gaveUp' = (gaveUp \/ rdisk.asked)
      BY <1>6, <3>1 DEF Starts, RestartTypeOK
    <3>3. rdisk.params => params' \/ asked'
      BY <1>6 DEF Starts
    <3>4. QED
      BY <3>1, <3>2, <3>3 DEF Covered, CoveredOnDisk
  <2>4. disk'.status = status' /\ rdisk'.asked = asked' /\ rdisk'.params = params'
    BY <1>0, <2>1 DEF Saved, Snapshot, Save
  <2>5. QED
    BY <2>3, <2>4 DEF RebootNotForgotten, Covered
<1>7. CASE UNCHANGED allVars
  BY <1>7 DEF allVars, vars, taskVars, restartVars, RebootNotForgotten
<1>8. QED
  BY <1>2, <1>3, <1>4, <1>5, <1>6, <1>7 DEF RestartNext

LEMMA RestartInductive == RestartSpec => []IInv
  BY RestartImplementsRunner, Inductive, PTL

\* On a core system no stop, crash, abort, failure or refused reboot makes snapd
\* forget that a task of a change waits for a reboot.
THEOREM RebootTheorem == RestartSpec => []RebootNotForgotten
<1>1. RestartInit => RebootNotForgotten
  BY DEF RestartInit, Init, Snapshot, RebootNotForgotten
<1>2. QED
  BY <1>1, NotForgottenStep, RestartInductive, RestartTypeCorrect, PTL DEF RestartSpec

-----------------------------------------------------------------------------
(* Classic systems.                                                        *)

\* ClassicNeverReboots, and what a crash brings back.
ClassicInv ==
    onClassic =>
        /\ ~asked /\ ~rdisk.asked /\ phase = "up"
        /\ \A t \in Tasks : status[t] = "Wait" => waited[t] \in {"Do", "Done"}
        /\ \A t \in Tasks : disk.status[t] = "Wait" => disk.waited[t] \in {"Do", "Done"}

\* A step that makes no task wait leaves waitedStatus alone.
LEMMA RunnerKeepsWaited ==
  ASSUME \/ EnsureStep \/ HandlerReturns \/ AbortStep
         \/ \E t \in Tasks : HandlerSetsStatus(t) \/ TimePasses(t)
  PROVE  waited' = waited
<1> USE DEF taskVars
<1>1. CASE EnsureStep
  BY <1>1 DEF EnsureStep, EnsureBegin, EnsureEnd, ConsiderKill, ConsiderTryUndo, Considered,
         ConsiderSkip, ConsiderClean, ConsiderCannotUndo, ConsiderLater, ConsiderBlocked, ConsiderRun
<1>2. ASSUME NEW t \in Tasks, NEW after \in BOOLEAN, Retry(t, after) PROVE waited' = waited
  BY <1>2 DEF Retry
<1>3. CASE HandlerReturns
  BY <1>2, <1>3 DEF HandlerReturns, HandlerOk, HandlerRetry, HandlerError, CleanupReturns
<1>4. CASE AbortStep
  BY <1>4 DEF AbortStep, UserAbort, PruneAbort, AbortBegin, AbortTask, AbortLanes, AbortEnd,
              AbortEndWithError
<1>5. ASSUME NEW t \in Tasks, HandlerSetsStatus(t) \/ TimePasses(t) PROVE waited' = waited
  BY <1>5 DEF HandlerSetsStatus, TimePasses
<1>6. QED
  BY <1>1, <1>3, <1>4, <1>5

LEMMA ClassicStep ==
  IInv /\ IInv' /\ RestartTypeOK /\ ClassicInv /\ [RestartNext]_allVars => ClassicInv'
<1> SUFFICES ASSUME IInv, IInv', RestartTypeOK, ClassicInv, [RestartNext]_allVars, onClassic
             PROVE  ClassicInv'
  BY SystemStays DEF ClassicInv
<1>0. TypeOK /\ TypeOK' /\ Saved'
  BY DEF IInv
<1>1. ASSUME NEW p \in BOOLEAN, Notify(p), Save, phase' = phase, Next \/ UNCHANGED vars,
             \A t \in Tasks : status'[t] = "Wait" => waited'[t] \in {"Do", "Done"}
      PROVE  ClassicInv'
  <2>1. ~asked' /\ phase' = "up"
    BY <1>1 DEF Notify, ClassicInv
  <2>2. ~rdisk'.asked
    BY <1>1, <2>1 DEF Save, ClassicInv
  <2>3. DiskStep
    BY <1>1, NextDiskStep DEF DiskStep, vars, taskVars, lockVars
  <2>4. \A t \in Tasks : disk'.status[t] = "Wait" => disk'.waited[t] \in {"Do", "Done"}
    BY <1>0, <1>1, <2>3 DEF DiskStep, Saved, Snapshot, ClassicInv
  <2>5. QED
    BY <1>1, <2>1, <2>2, <2>4 DEF ClassicInv
<1>2. CASE RunnerStep
  <2>1. NoNewWait /\ waited' = waited
    BY <1>0, <1>2, RunnerNoNewWait, RunnerKeepsWaited DEF RunnerStep
  <2>2. Next
    BY <1>2 DEF RunnerStep, Next, HandlerStep, SystemStep
  <2>3. params \in BOOLEAN
    BY DEF RestartTypeOK
  <2>4. \A t \in Tasks : status'[t] = "Wait" => waited'[t] \in {"Do", "Done"}
    BY <2>1 DEF NoNewWait, ClassicInv
  <2>5. QED
    BY <1>1, <1>2, <2>2, <2>3, <2>4 DEF RunnerStep
<1>3. ASSUME NEW t \in Tasks, NEW ws \in {"Do", "Done"}, HandlerSetsWait(t, ws)
      PROVE  \A u \in Tasks : status'[u] = "Wait" => waited'[u] \in {"Do", "Done"}
  BY <1>0, <1>3 DEF HandlerSetsWait, SetStatus, ClassicInv, TypeOK
<1>4. ASSUME NEW t \in Tasks, HandlerSetsStatus(t)
      PROVE  \A u \in Tasks : status'[u] = "Wait" => waited'[u] \in {"Do", "Done"}
  BY <1>0, <1>4, RunnerNoNewWait, RunnerKeepsWaited DEF NoNewWait, ClassicInv
<1>5. ASSUME NEW t \in Tasks, FinishTaskWithRestart(t) PROVE ClassicInv'
  <2>1. PICK p \in BOOLEAN : Notify(p)
    BY <1>5 DEF FinishTaskWithRestart
  <2>2. \A u \in Tasks : status'[u] = "Wait" => waited'[u] \in {"Do", "Done"}
    BY <1>3, <1>4, <1>5 DEF FinishTaskWithRestart, SkipsRestart, vars, taskVars, ClassicInv
  <2>3. Next \/ UNCHANGED vars
    BY <1>5 DEF FinishTaskWithRestart, Next, HandlerStep, WaitedStatuses
  <2>4. QED
    BY <1>1, <1>5, <2>1, <2>2, <2>3 DEF FinishTaskWithRestart
<1>6. ASSUME NEW t \in Tasks, TaskWaitForRestart(t) PROVE ClassicInv'
  <2>1. Next /\ params \in BOOLEAN
    BY <1>6 DEF TaskWaitForRestart, Next, HandlerStep, WaitedStatuses, RestartTypeOK
  <2>2. \A u \in Tasks : status'[u] = "Wait" => waited'[u] \in {"Do", "Done"}
    BY <1>3, <1>6 DEF TaskWaitForRestart
  <2>3. QED
    BY <1>1, <1>6, <2>1, <2>2 DEF TaskWaitForRestart
<1>7. CASE StopManager \/ StopRunner
  BY <1>7 DEF StopManager, StopRunner, Stop, vars, taskVars, restartVars, ClassicInv
<1>8. CASE RebootDidNotHappen
  BY <1>8 DEF RebootDidNotHappen, ClassicInv
<1>9. ASSUME NEW rebooted \in BOOLEAN, Starts(rebooted) PROVE ClassicInv'
  <2>1. ~asked' /\ phase' = "up" /\ lock' = "free" /\ Save
    BY <1>9 DEF Starts, StartUp
  <2>2. \A t \in Tasks : status'[t] = "Wait" => waited'[t] \in {"Do", "Done"}
    BY <1>0, <1>9 DEF Starts, StartUp, TypeOK, WaitedStatuses, ClassicInv
  <2>3. QED
    BY <1>0, <2>1, <2>2 DEF Save, Saved, Snapshot, ClassicInv
<1>10. CASE UNCHANGED allVars
  BY <1>10 DEF allVars, vars, taskVars, restartVars, ClassicInv
<1>11. QED
  BY <1>2, <1>5, <1>6, <1>7, <1>8, <1>9, <1>10 DEF RestartNext

\* On a classic system no sequence of steps makes snapd reboot it, or wait for a
\* reboot in order to undo.
THEOREM ClassicTheorem == RestartSpec => []ClassicNeverReboots
<1>1. RestartInit => ClassicInv
  BY DEF RestartInit, Init, Snapshot, ClassicInv
<1>2. ClassicInv => ClassicNeverReboots
  BY DEF ClassicInv, ClassicNeverReboots
<1>3. QED
  BY <1>1, <1>2, ClassicStep, RestartInductive, RestartTypeCorrect, PTL DEF RestartSpec

-----------------------------------------------------------------------------
(* A change that begins to wait.                                           *)

\* A change that reads as Wait has a task that waits.
LEMMA WaitHasTask ==
  ASSUME NEW st \in [Tasks -> Statuses], ChangeStatus(st) = "Wait"
  PROVE  \E t \in Tasks : st[t] = "Wait"
<1> DEFINE seen == {i \in DOMAIN StatusOrder : \E t \in Tasks : st[t] = StatusOrder[i]}
           first == CHOOSE i \in seen : \A j \in seen : i <= j
<1>1. /\ DOMAIN StatusOrder = 1..10
      /\ \A s \in Statuses : \E i \in 1..10 : StatusOrder[i] = s
  BY DEF StatusOrder, Statuses, ReadyStatuses
<1>2. seen # {} /\ seen \subseteq 1..10
  BY <1>1, TasksAssumption
<1>3. \E i \in seen : \A j \in seen : i <= j
  BY <1>2, SMTT(30)
<1>4. first \in seen
  BY <1>3
<1>5. \E t \in Tasks : st[t] = StatusOrder[first]
  BY <1>4
<1>6. (\E t \in Tasks : st[t] = "Wait") \/ StatusOrder[first] = "Wait"
  BY DEF ChangeStatus
<1>7. QED
  BY <1>5, <1>6

\* The callback was last told the status that the change has, or nothing yet.
ObservedInv == observed \in {"Default", ChangeStatus(status)}

\* A change that waits in memory only, in the middle of a critical section, has
\* asked already.
AskedInv ==
    ~onClassic /\ hook /\ ChangeStatus(status) = "Wait" /\ ChangeStatus(disk.status) # "Wait"
        => asked \/ gaveUp

LEMMA NotifyObserves ==
  ASSUME ObservedInv, NEW p \in BOOLEAN, Notify(p)
  PROVE  ObservedInv'
<1>1. CASE status' = status
  BY <1>1 DEF ObservedInv, Notify
<1>2. CASE status' # status
  BY <1>2 DEF ObservedInv, Notify
<1>3. QED
  BY <1>1, <1>2

\* When the change begins to wait the callback takes the parameters, or the reboot
\* was asked for or given up before.
LEMMA NotifyAsks ==
  ASSUME RestartTypeOK, TypeOK', RebootNotForgotten', ObservedInv, ~onClassic, onClassic' = onClassic,
         hook, gaveUp' = gaveUp, NEW p \in BOOLEAN, Notify(p),
         ChangeStatus(status') = "Wait", ChangeStatus(status) # "Wait"
  PROVE  asked' \/ gaveUp
<1>1. status' # status
  OBVIOUS
<1>2. observed # "Wait"
  BY DEF ObservedInv
<1>3. CASE p
  BY <1>1, <1>2, <1>3 DEF Notify, CanNeedRestart
<1>4. CASE ~p
  <2>1. ~params'
    BY <1>4 DEF Notify
  <2>2. \E t \in Tasks : status'[t] = "Wait"
    BY WaitHasTask DEF TypeOK
  <2>3. QED
    BY <2>1, <2>2 DEF RebootNotForgotten
<1>5. QED
  BY <1>3, <1>4

\* What a step does that calls the callback and is checkpointed or not.
LEMMA CallbackStep ==
  ASSUME RestartTypeOK, TypeOK', RebootNotForgotten', Saved', ObservedInv, AskedInv, DiskStep,
         onClassic' = onClassic, hook' = hook, gaveUp' = gaveUp, NEW p \in BOOLEAN, Notify(p), Save
  PROVE  /\ AskedInv'
         /\ ~onClassic /\ hook /\ ChangeStatus(disk'.status) = "Wait"
            /\ ChangeStatus(disk.status) # "Wait" => rdisk'.asked \/ gaveUp
<1>1. asked => asked'
  BY DEF Notify, RestartTypeOK
<1>2. ASSUME ~onClassic, hook, ChangeStatus(status') = "Wait", ChangeStatus(disk.status) # "Wait"
      PROVE  asked' \/ gaveUp
  <2>1. CASE ChangeStatus(status) = "Wait"
    BY <1>1, <1>2, <2>1 DEF AskedInv
  <2>2. CASE ChangeStatus(status) # "Wait"
    BY <1>2, <2>2, NotifyAsks
  <2>3. QED
    BY <2>1, <2>2
<1>3. CASE lock' = "free"
  <2>1. disk'.status = status' /\ rdisk'.asked = asked'
    BY <1>3 DEF Saved, Snapshot, Save
  <2>2. QED
    BY <1>2, <2>1 DEF AskedInv
<1>4. CASE lock' # "free"
  <2>1. disk' = disk
    BY <1>4 DEF DiskStep
  <2>2. QED
    BY <1>2, <2>1 DEF AskedInv
<1>5. QED
  BY <1>3, <1>4

\* The steps of the restart manager, as the property tells them apart.
LEMMA RestartSteps ==
  ASSUME [RestartNext]_allVars, RestartTypeOK
  PROVE  \/ /\ \E p \in BOOLEAN : Notify(p)
            /\ Save /\ DiskStep /\ hook' = hook /\ gaveUp' = gaveUp
         \/ /\ status' = status /\ disk' = disk /\ UNCHANGED <<asked, gaveUp, observed>>
            /\ rdisk'.asked = rdisk.asked
            /\ hook' => hook
         \/ \E rebooted \in BOOLEAN : Starts(rebooted)
<1>1. CASE RunnerStep
  <2>1. Next
    BY <1>1 DEF RunnerStep, Next, HandlerStep, SystemStep
  <2>2. Notify(params) /\ Save /\ hook' = hook /\ gaveUp' = gaveUp /\ params \in BOOLEAN
    BY <1>1 DEF RunnerStep, RestartTypeOK
  <2>3. QED
    BY <2>1, <2>2, NextDiskStep
<1>2. ASSUME NEW t \in Tasks, FinishTaskWithRestart(t)
      PROVE  /\ \E p \in BOOLEAN : Notify(p)
             /\ Save /\ DiskStep /\ hook' = hook /\ gaveUp' = gaveUp
  <2>1. Next \/ UNCHANGED vars
    BY <1>2 DEF FinishTaskWithRestart, Next, HandlerStep, WaitedStatuses
  <2>2. DiskStep
    BY <2>1, NextDiskStep DEF DiskStep, vars, taskVars, lockVars
  <2>3. \E p \in BOOLEAN : Notify(p)
    BY <1>2 DEF FinishTaskWithRestart
  <2>4. QED
    BY <1>2, <2>2, <2>3 DEF FinishTaskWithRestart
<1>3. ASSUME NEW t \in Tasks, TaskWaitForRestart(t)
      PROVE  /\ \E p \in BOOLEAN : Notify(p)
             /\ Save /\ DiskStep /\ hook' = hook /\ gaveUp' = gaveUp
  <2>1. Next
    BY <1>3 DEF TaskWaitForRestart, Next, HandlerStep, WaitedStatuses
  <2>2. Notify(params) /\ Save /\ hook' = hook /\ gaveUp' = gaveUp /\ params \in BOOLEAN
    BY <1>3 DEF TaskWaitForRestart, RestartTypeOK
  <2>3. QED
    BY <2>1, <2>2, NextDiskStep
<1>4. CASE StopManager \/ StopRunner \/ RebootDidNotHappen
  BY <1>4 DEF StopManager, StopRunner, RebootDidNotHappen, Stop, vars, taskVars, restartVars, RestartTypeOK
<1>5. CASE UNCHANGED allVars
  BY <1>5 DEF allVars, vars, taskVars, restartVars
<1>6. QED
  BY <1>1, <1>2, <1>3, <1>4, <1>5 DEF RestartNext

\* After a reboot nothing waits, and otherwise the checkpoint is what it was.
LEMMA StartsAsked ==
  ASSUME IInv, IInv', NEW rebooted \in BOOLEAN, Starts(rebooted)
  PROVE  ObservedInv' /\ AskedInv' /\ restarts' # restarts
<1>1. TypeOK /\ disk'.status = status'
  BY DEF Starts, StartUp, IInv, Checkpoint, Snapshot
<1>2. ObservedInv'
  BY DEF Starts, ObservedInv
<1>3. AskedInv'
  BY <1>1 DEF AskedInv
<1>4. restarts' # restarts
  BY <1>1, HandlerAssumption DEF Starts, StartUp, TypeOK
<1>5. QED
  BY <1>2, <1>3, <1>4

LEMMA AskedStep ==
  ASSUME IInv, IInv', RestartTypeOK, RebootNotForgotten', ObservedInv, AskedInv, [RestartNext]_allVars
  PROVE  /\ ObservedInv' /\ AskedInv'
         /\ ~onClassic /\ hook /\ hook' /\ restarts' = restarts
            /\ ChangeStatus(disk'.status) = "Wait" /\ ChangeStatus(disk.status) # "Wait"
            => rdisk'.asked \/ gaveUp
<1>0. TypeOK' /\ Saved' /\ onClassic' = onClassic
  BY SystemStays DEF IInv
<1>1. ASSUME NEW p \in BOOLEAN, Notify(p), Save, DiskStep, hook' = hook, gaveUp' = gaveUp
      PROVE  /\ ObservedInv' /\ AskedInv'
             /\ ~onClassic /\ hook /\ ChangeStatus(disk'.status) = "Wait"
                /\ ChangeStatus(disk.status) # "Wait" => rdisk'.asked \/ gaveUp
  BY <1>0, <1>1, NotifyObserves, CallbackStep
<1>2. ASSUME status' = status, disk' = disk, UNCHANGED <<asked, gaveUp, observed>>, hook' => hook
      PROVE  /\ ObservedInv' /\ AskedInv'
             /\ ChangeStatus(disk'.status) = ChangeStatus(disk.status)
  BY <1>0, <1>2 DEF ObservedInv, AskedInv
<1>3. ASSUME NEW rebooted \in BOOLEAN, Starts(rebooted)
      PROVE  ObservedInv' /\ AskedInv' /\ restarts' # restarts
  BY <1>3, StartsAsked
<1>4. QED
  BY <1>1, <1>2, <1>3, RestartSteps

\* For every change, whatever is aborted, fails, is stopped or crashes: the
\* checkpoint that first shows the change waiting has the request for the reboot.
THEOREM WaitAsksTheorem == RestartSpec => WaitAsksForReboot
<1> DEFINE J == ObservedInv /\ AskedInv
           A == ~onClassic /\ hook /\ hook' /\ restarts' = restarts
                /\ ChangeStatus(disk'.status) = "Wait" /\ ChangeStatus(disk.status) # "Wait"
                => rdisk'.asked \/ gaveUp
<1>1. RestartInit => J
  BY DEF RestartInit, Init, Snapshot, ObservedInv, AskedInv
<1>2. IInv /\ IInv' /\ RestartTypeOK /\ RebootNotForgotten' /\ J /\ [RestartNext]_allVars => J' /\ A
  BY AskedStep
<1>3. QED
  BY <1>1, <1>2, RestartInductive, RestartTypeCorrect, RebootTheorem, PTL
     DEF RestartSpec, WaitAsksForReboot
-----------------------------------------------------------------------------
(* A change that waits, as long as the restart manager is not stopped.     *)

HookedInv ==
    ~onClassic =>
        /\ ChangeStatus(status) = "Wait" => asked \/ gaveUp
        /\ ChangeStatus(disk.status) = "Wait" => rdisk.asked \/ gaveUp

\* After a reboot nothing waits; a start without one keeps the request that was
\* made, or gives up on it.
LEMMA StartsHooked ==
  ASSUME IInv, IInv', RestartTypeOK, HookedInv, NEW rebooted \in BOOLEAN, Starts(rebooted), ~onClassic
  PROVE  HookedInv'
<1>1. /\ status' \in [Tasks -> Statuses] /\ waited' \in [Tasks -> WaitedStatuses]
      /\ disk.status \in [Tasks -> Statuses]
  BY DEF IInv, TypeOK
<1>2. lock' = "free" /\ Save /\ Saved'
  BY DEF Starts, StartUp, IInv
<1>3. ASSUME ChangeStatus(status') = "Wait" PROVE gaveUp'
  <2>1. PICK t \in Tasks : status'[t] = "Wait"
    BY <1>1, <1>3, WaitHasTask
  <2>2. waited'[t] # "Wait"
    BY <1>1 DEF WaitedStatuses
  <2>3. ~rebooted
    BY <2>1, <2>2 DEF Starts, StartUp
  <2>4. status' = [u \in Tasks |-> disk.status[u]]
    BY <2>3 DEF Starts, StartUp
  <2>5. status' = disk.status
    BY <1>1, <2>4
  <2>6. rdisk.asked \/ gaveUp
    BY <1>3, <2>5 DEF HookedInv
  <2>7. QED
    BY <2>3, <2>6 DEF Starts
<1>4. disk'.status = status'
  BY <1>2 DEF Saved, Snapshot
<1>5. QED
  BY <1>3, <1>4 DEF HookedInv

LEMMA HookedStep ==
  ASSUME IInv, IInv', RestartTypeOK, RebootNotForgotten', ObservedInv, HookedInv, hook,
         [RestartNext]_allVars
  PROVE  HookedInv'
<1> SUFFICES ASSUME ~onClassic PROVE HookedInv'
  BY SystemStays DEF HookedInv
<1>0. TypeOK' /\ Saved' /\ onClassic' = onClassic
  BY SystemStays DEF IInv
<1>1. ASSUME NEW p \in BOOLEAN, Notify(p), Save, DiskStep, gaveUp' = gaveUp PROVE HookedInv'
  <2>1. asked => asked'
    BY <1>1 DEF Notify, RestartTypeOK
  <2>2. ASSUME ChangeStatus(status') = "Wait" PROVE asked' \/ gaveUp
    <3>1. CASE ChangeStatus(status) = "Wait"
      BY <2>1, <3>1 DEF HookedInv
    <3>2. CASE ChangeStatus(status) # "Wait"
      BY <1>0, <1>1, <2>2, <3>2, NotifyAsks
    <3>3. QED
      BY <3>1, <3>2
  <2>3. CASE lock' = "free"
    <3>1. disk'.status = status' /\ rdisk'.asked = asked'
      BY <1>0, <1>1, <2>3 DEF Saved, Snapshot, Save
    <3>2. QED
      BY <1>1, <2>2, <3>1 DEF HookedInv
  <2>4. CASE lock' # "free"
    <3>1. disk' = disk /\ rdisk' = rdisk
      BY <1>1, <2>4 DEF DiskStep, Save
    <3>2. QED
      BY <1>1, <2>2, <3>1 DEF HookedInv
  <2>5. QED
    BY <2>3, <2>4
<1>2. ASSUME status' = status, disk' = disk, UNCHANGED <<asked, gaveUp>>, rdisk'.asked = rdisk.asked
      PROVE  HookedInv'
  BY <1>2 DEF HookedInv
<1>3. ASSUME NEW rebooted \in BOOLEAN, Starts(rebooted) PROVE HookedInv'
  BY <1>3, StartsHooked
<1>4. QED
  BY <1>1, <1>2, <1>3, RestartSteps

\* The callback gone at an orderly stop is the only way to lose a reboot: as long
\* as the restart manager is not stopped before the handlers, a core system whose
\* change waits has asked for the reboot or given up on it, over all crashes.
THEOREM RebootedUnlessStopped == RestartSpec /\ []hook => []WaitingChangeIsRebooted
<1> DEFINE J == ObservedInv /\ AskedInv
<1>1. RestartInit => J /\ HookedInv
  <2> SUFFICES ASSUME RestartInit PROVE J /\ HookedInv
    OBVIOUS
  <2>1. status = [t \in Tasks |-> "Do"] /\ disk.status = status /\ observed = "Default"
    BY DEF RestartInit, Init, Snapshot
  <2>2. status \in [Tasks -> Statuses] /\ \A t \in Tasks : status[t] # "Wait"
    BY <2>1 DEF Statuses
  <2>3. ChangeStatus(status) # "Wait"
    BY <2>2, WaitHasTask
  <2>4. QED
    BY <2>1, <2>3 DEF ObservedInv, AskedInv, HookedInv
<1>2. IInv /\ IInv' /\ RestartTypeOK /\ RebootNotForgotten' /\ J /\ [RestartNext]_allVars => J'
  BY AskedStep
<1>3. /\ IInv /\ IInv' /\ RestartTypeOK /\ RebootNotForgotten' /\ J /\ HookedInv /\ hook
      /\ [RestartNext]_allVars
      => HookedInv'
  BY HookedStep
<1>4. HookedInv => WaitingChangeIsRebooted
  BY DEF HookedInv, WaitingChangeIsRebooted
<1>5. QED
  BY <1>1, <1>2, <1>3, <1>4, RestartInductive, RestartTypeCorrect, RebootTheorem, PTL DEF RestartSpec
=============================================================================
