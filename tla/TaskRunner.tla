----------------------------- MODULE TaskRunner -----------------------------
(***************************************************************************)
(* The engine of overlord/state: TaskRunner drives the tasks of a change   *)
(* through their do, undo and cleanup handlers; Change aborts lanes; State *)
(* checkpoints itself whenever its lock is released.                       *)
(*                                                                         *)
(* Locking.  An Ensure pass and an abort hold the state lock from end to   *)
(* end but set task statuses one at a time, and every SetStatus can close  *)
(* the change's ready channel.  They are therefore sequences of steps here *)
(* (lock # "free"), which no other holder of the lock can enter but which  *)
(* a crash can interrupt.  All other critical sections are one step.       *)
(*                                                                         *)
(* Memory and disk.  disk is what the last Unlock wrote.  dirty is a       *)
(* history variable: the tasks whose effect on the system is in place.     *)
(* Handlers begin by taking the state lock, so an effect can exist only    *)
(* once the pass that started the handler has been checkpointed.           *)
(***************************************************************************)
EXTENDS Change

CONSTANTS
    Failing,        \* tasks whose do or undo handler may return an error
    Retrying,       \* tasks whose handler may return Retry
    Waiting,        \* tasks whose handler may wait for a system restart
    SelfFinishing,  \* tasks whose handler sets the final status by itself
    MaxAborts,      \* bound: aborts by the user or by Prune
    MaxRestarts,    \* bound: crashes and restarts of snapd
    NoTask

ASSUME HandlerAssumption ==
    /\ Failing \subseteq Tasks
    /\ Retrying \subseteq Tasks
    /\ Waiting \subseteq Tasks
    /\ SelfFinishing \subseteq Tasks
    /\ MaxAborts \in Nat
    /\ MaxRestarts \in Nat
    /\ NoTask \notin Tasks

VARIABLES
    status, waited,     \* Task.status, Task.waitedStatus
    clean,              \* tasks with Task.clean set
    later,              \* tasks whose Task.atTime is in the future
    ready,              \* the change's ready channel is closed
    panicked,           \* detectChangeReady found the change unready again
    tombs,              \* TaskRunner.tombs: which handler's goroutine runs
    killed,             \* tasks whose tomb was killed
    stopped,            \* TaskRunner.stopped
    someBlocked,        \* TaskRunner.someBlocked
    ensureSoon,         \* an Ensure was asked for with EnsureBefore(0)
    wake,               \* tasks whose atTime an EnsureBefore was asked for
    lock,               \* who holds the state lock over several steps
    pass,               \* the tasks the current Ensure has still to consider
    ab,                 \* the abort in progress
    disk,               \* the last checkpoint
    dirty,              \* history: tasks whose effect is in place
    aborts, restarts    \* how much of the bounds is used up

taskVars == <<status, waited, clean, later>>
chgVars == <<ready, panicked>>
runVars == <<tombs, killed, stopped, someBlocked>>
timeVars == <<ensureSoon, wake>>
lockVars == <<lock, pass, ab>>
boundVars == <<aborts, restarts>>
vars == <<taskVars, chgVars, runVars, timeVars, lockVars, disk, dirty, boundVars>>

WaitedStatuses == {"Default", "Do", "Done", "Undo", "Undone"}

Snapshot(st, wd, cl, la) == [status |-> st, waited |-> wd, clean |-> cl, later |-> la]

NoAbort == [batch |-> {}, halted |-> {}, seen |-> {}, aborted |-> {}, lanes |-> {},
            cause |-> NoTask]

LaneIds == UNION {LaneSet(t) : t \in Tasks}

TypeOK ==
    /\ status \in [Tasks -> Statuses]
    /\ waited \in [Tasks -> WaitedStatuses]
    /\ clean \subseteq Tasks
    /\ later \subseteq Tasks
    /\ ready \in BOOLEAN /\ panicked \in BOOLEAN
    /\ tombs \in [Tasks -> {"none", "do", "undo", "cleanup"}]
    /\ killed \subseteq Tasks
    /\ stopped \in BOOLEAN /\ someBlocked \in BOOLEAN
    /\ ensureSoon \in BOOLEAN
    /\ wake \subseteq Tasks
    /\ lock \in {"free", "ensure", "abort"}
    /\ pass \subseteq Tasks
    /\ ab \in [batch : SUBSET Tasks, halted : SUBSET Tasks, seen : SUBSET Tasks,
               aborted : SUBSET LaneIds, lanes : SUBSET LaneIds,
               cause : Tasks \cup {NoTask}]
    /\ disk \in [status : [Tasks -> Statuses], waited : [Tasks -> WaitedStatuses],
                 clean : SUBSET Tasks, later : SUBSET Tasks]
    /\ dirty \subseteq Tasks
    /\ aborts \in 0..MaxAborts /\ restarts \in 0..MaxRestarts

Init ==
    /\ status = [t \in Tasks |-> "Do"]
    /\ waited = [t \in Tasks |-> "Default"]
    /\ clean = {} /\ later = {}
    /\ ready = FALSE /\ panicked = FALSE
    /\ tombs = [t \in Tasks |-> "none"] /\ killed = {}
    /\ stopped = FALSE /\ someBlocked = FALSE
    /\ ensureSoon = TRUE /\ wake = {}
    /\ lock = "free" /\ pass = {} /\ ab = NoAbort
    /\ disk = Snapshot(status, waited, clean, later)
    /\ dirty = {}
    /\ aborts = 0 /\ restarts = 0

-----------------------------------------------------------------------------
(* Status changes.                                                         *)

\* Who may act.  The panic of detectChangeReady is the end of what is modelled.
Holds(who) == lock = who /\ ~panicked

\* Mutant: the task whose status changes is not excluded.
DetectChangeReadyAll(t, new) ==
    IF Ready(status[t]) = Ready(new) \/ \E u \in Tasks : ~Ready(status[u])
    THEN UNCHANGED chgVars
    ELSE ready' = TRUE /\ UNCHANGED panicked

\* detectChangeReady(t), run when t crosses between ready and not ready.
DetectChangeReady(t, new) ==
    IF Ready(status[t]) = Ready(new) \/ \E u \in Tasks \ {t} : ~Ready(status[u])
    THEN UNCHANGED chgVars
    ELSE IF ready /\ ~Ready(new)
    THEN panicked' = TRUE /\ UNCHANGED ready
    ELSE ready' = TRUE /\ UNCHANGED panicked

SetStatus(t, new) ==
    /\ status' = [status EXCEPT ![t] = new]
    /\ DetectChangeReady(t, new)

\* Unlock: the state is written out before anybody else can see it.
Checkpoint == disk' = Snapshot(status', waited', clean', later')

\* Mutant: a task stopped in flight is never undone.
TryUndoStatusHold(t) == "Hold"

\* tryUndo, for a task known to be in Abort.
TryUndoStatus(t) == IF t \in HasUndo THEN "Undo" ELSE "Hold"

TryUndo(t) ==
    /\ SetStatus(t, TryUndoStatus(t))
    /\ ensureSoon' = (ensureSoon \/ t \in HasUndo \/ WaitTasks[t] # {})

-----------------------------------------------------------------------------
(* Ensure.  A pass walks all tasks in the arbitrary order of a Go map.     *)

EnsureBegin ==
    /\ Holds("free") /\ ~stopped
    /\ lock' = "ensure" /\ pass' = Tasks
    /\ someBlocked' = FALSE
    /\ ensureSoon' = FALSE /\ wake' = {}
    /\ UNCHANGED <<taskVars, chgVars, tombs, killed, stopped, ab, disk, dirty, boundVars>>

\* The loop turns to task t, and is finished with it.
Considered(t) ==
    /\ Holds("ensure") /\ t \in pass
    /\ pass' = pass \ {t}
    /\ UNCHANGED <<waited, stopped, lock, ab, disk, dirty, boundVars>>

\* An aborted task whose handler still runs is told to die.
ConsiderKill(t) ==
    /\ Considered(t)
    /\ status[t] = "Abort" /\ tombs[t] # "none"
    /\ killed' = killed \cup {t}
    /\ UNCHANGED <<taskVars, chgVars, tombs, someBlocked, timeVars>>

\* An aborted task nobody runs gets its next status; the same iteration then
\* goes on with that status, so t stays in the pass.
ConsiderTryUndo(t) ==
    /\ Holds("ensure") /\ t \in pass
    /\ status[t] = "Abort" /\ tombs[t] = "none"
    /\ TryUndo(t)
    /\ UNCHANGED <<waited, clean, later, runVars, wake, lockVars, disk, dirty, boundVars>>

\* Nothing to do: already handled, waiting, clean, or with unmet dependencies.
ConsiderSkip(t) ==
    /\ Considered(t)
    /\ status[t] # "Abort"
    /\ \/ tombs[t] # "none"
       \/ status[t] = "Wait"
       \/ Ready(status[t]) /\ (t \in clean \/ ~ready)
       \/ MustWait(status, t)
    /\ UNCHANGED <<taskVars, chgVars, tombs, killed, someBlocked, timeVars>>

\* Mutant: cleans a task as soon as the task itself is ready.
ConsiderCleanEarly(t) ==
    /\ Considered(t)
    /\ tombs[t] = "none" /\ Ready(status[t]) /\ t \notin clean
    /\ IF t \in HasCleanup
       THEN tombs' = [tombs EXCEPT ![t] = "cleanup"] /\ UNCHANGED clean
       ELSE clean' = clean \cup {t} /\ UNCHANGED tombs
    /\ UNCHANGED <<status, later, chgVars, killed, someBlocked, timeVars>>

ConsiderClean(t) ==
    /\ Considered(t)
    /\ tombs[t] = "none" /\ Ready(status[t]) /\ t \notin clean /\ ready
    /\ IF t \in HasCleanup
       THEN tombs' = [tombs EXCEPT ![t] = "cleanup"] /\ UNCHANGED clean
       ELSE clean' = clean \cup {t} /\ UNCHANGED tombs
    /\ UNCHANGED <<status, later, chgVars, killed, someBlocked, timeVars>>

\* A task that is due for its do or undo handler.
Due(t) ==
    /\ tombs[t] = "none"
    /\ status[t] \in {"Do", "Doing", "Undo", "Undoing"}
    /\ ~MustWait(status, t)

CannotUndo(t) == status[t] = "Undo" /\ t \notin HasUndo

Blocked(t) == \E u \in BlockedBy[t] : tombs[u] # "none"

ConsiderCannotUndo(t) ==
    /\ Considered(t)
    /\ Due(t) /\ CannotUndo(t)
    /\ SetStatus(t, "Done")
    /\ ensureSoon' = (ensureSoon \/ WaitTasks[t] # {})
    /\ UNCHANGED <<clean, later, tombs, killed, someBlocked, wake>>

ConsiderLater(t) ==
    /\ Considered(t)
    /\ Due(t) /\ ~CannotUndo(t) /\ t \in later
    /\ wake' = wake \cup {t}
    /\ UNCHANGED <<taskVars, chgVars, tombs, killed, someBlocked, ensureSoon>>

ConsiderBlocked(t) ==
    /\ Considered(t)
    /\ Due(t) /\ ~CannotUndo(t) /\ t \notin later /\ Blocked(t)
    /\ someBlocked' = TRUE
    /\ UNCHANGED <<taskVars, chgVars, tombs, killed, timeVars>>

\* run(t): from Do to Doing, from Undo to Undoing, or again after a retry or
\* a restart.
ConsiderRun(t) ==
    /\ Considered(t)
    /\ Due(t) /\ ~CannotUndo(t) /\ t \notin later /\ ~Blocked(t)
    /\ LET do == status[t] \in {"Do", "Doing"}
       IN  /\ SetStatus(t, IF do THEN "Doing" ELSE "Undoing")
           /\ tombs' = [tombs EXCEPT ![t] = IF do THEN "do" ELSE "undo"]
    /\ UNCHANGED <<clean, later, killed, someBlocked, timeVars>>

EnsureEnd ==
    /\ Holds("ensure") /\ pass = {}
    /\ lock' = "free"
    /\ dirty' = dirty \cup {t \in Tasks : tombs[t] = "do" /\ status[t] = "Doing"}
    /\ UNCHANGED <<taskVars, chgVars, runVars, timeVars, pass, ab, boundVars>>
    /\ Checkpoint

-----------------------------------------------------------------------------
(* Handlers.  A handler may change its task's status while it runs, and    *)
(* then returns nil; otherwise its result decides.                         *)

Running(t) == Holds("free") /\ tombs[t] \in {"do", "undo"}

\* t.SetStatus(Done) or t.SetStatus(Undone) by the handler itself; ignored by
\* Task.SetStatus when the task was aborted meanwhile.
HandlerSetsStatus(t) ==
    /\ Running(t) /\ t \in SelfFinishing
    /\ \/ status[t] = "Doing" /\ SetStatus(t, "Done") /\ UNCHANGED dirty
       \/ status[t] = "Undoing" /\ SetStatus(t, "Undone") /\ dirty' = dirty \ {t}
    /\ UNCHANGED <<waited, clean, later, runVars, timeVars, lockVars, boundVars>>
    /\ Checkpoint

\* restart.FinishTaskWithRestart (done, with a reboot to follow) and
\* restart.TaskWaitForRestart (run me again after it): Task.SetToWait.  The
\* latter is only used by task kinds that have no undo handler.
HandlerSetsWait(t, ws) ==
    /\ Running(t) /\ t \in Waiting
    /\ \/ status[t] = "Doing" /\ (ws = "Done" \/ (ws = "Do" /\ t \notin HasUndo))
       \/ status[t] = "Undoing" /\ ws = "Undone"
    /\ waited' = [waited EXCEPT ![t] = ws]
    /\ SetStatus(t, "Wait")
    /\ dirty' = IF ws = "Undone" THEN dirty \ {t} ELSE dirty
    /\ UNCHANGED <<clean, later, runVars, timeVars, lockVars, boundVars>>
    /\ Checkpoint

\* The goroutine is over: it leaves the runner's tombs.
Return(t) ==
    /\ Running(t)
    /\ tombs' = [tombs EXCEPT ![t] = "none"]
    /\ killed' = killed \ {t}
    /\ UNCHANGED <<stopped, someBlocked, clean, pass, boundVars>>

\* Mutant: forgets the tasks that were blocked by this one.
HandlerOkForgetsBlocked(t) ==
    /\ Return(t)
    /\ CASE status[t] = "Doing" -> SetStatus(t, "Done")
         [] status[t] = "Abort" -> SetStatus(t, "Undo")
         [] status[t] = "Undoing" -> SetStatus(t, "Undone")
         [] OTHER -> UNCHANGED <<status, chgVars>>
    /\ LET next == CASE status'[t] = "Done" -> HaltTasks(t)
                     [] status'[t] = "Undone" -> WaitTasks[t]
                     [] OTHER -> {}
       IN  ensureSoon' = (ensureSoon \/ status[t] = "Abort" \/ next # {})
    /\ dirty' = IF status[t] = "Undoing" THEN dirty \ {t} ELSE dirty
    /\ UNCHANGED <<waited, later, wake, lock, ab>>
    /\ Checkpoint

HandlerOk(t) ==
    /\ Return(t)
    /\ CASE status[t] = "Doing" -> SetStatus(t, "Done")
         [] status[t] = "Abort" -> SetStatus(t, "Undo")
         [] status[t] = "Undoing" -> SetStatus(t, "Undone")
         [] OTHER -> UNCHANGED <<status, chgVars>>
    /\ LET next == CASE status'[t] = "Done" -> HaltTasks(t)
                     [] status'[t] = "Undone" -> WaitTasks[t]
                     [] OTHER -> {}
       IN  ensureSoon' = (ensureSoon \/ someBlocked \/ status[t] = "Abort" \/ next # {})
    /\ dirty' = IF status[t] = "Undoing" THEN dirty \ {t} ELSE dirty
    /\ UNCHANGED <<waited, later, wake, lock, ab>>
    /\ Checkpoint

\* The handler asks to be called again, at once or after a delay.
Retry(t, after) ==
    /\ IF status[t] = "Abort"
       THEN /\ SetStatus(t, TryUndoStatus(t))
            /\ ensureSoon' = (ensureSoon \/ someBlocked \/ t \in HasUndo \/ WaitTasks[t] # {})
            /\ UNCHANGED <<later, wake>>
       ELSE /\ ensureSoon' = (ensureSoon \/ someBlocked)
            /\ later' = IF after THEN later \cup {t} ELSE later
            /\ wake' = IF after THEN wake \cup {t} ELSE wake
            /\ UNCHANGED <<status, chgVars>>
    /\ UNCHANGED <<waited, lock, ab, dirty>>
    /\ Checkpoint

HandlerRetry(t, after) ==
    /\ Return(t) /\ t \in Retrying
    /\ status[t] \in {"Doing", "Undoing", "Abort"}
    /\ Retry(t, after)

\* The handler fails: its lanes are aborted before it is put in Error, all
\* without releasing the lock.  While stopping, an error reads as a retry.
HandlerError(t) ==
    /\ Return(t) /\ t \in Failing
    /\ status[t] \in {"Doing", "Undoing", "Abort"}
    /\ \/ stopped /\ Retry(t, FALSE)
       \/ /\ ~stopped
          /\ lock' = "abort" /\ ab' = [NoAbort EXCEPT !.lanes = LaneSet(t), !.cause = t]
          /\ ensureSoon' = (ensureSoon \/ someBlocked)
          /\ UNCHANGED <<taskVars, chgVars, wake, disk, dirty>>

CleanupReturns(t, ok) ==
    /\ Holds("free") /\ tombs[t] = "cleanup"
    /\ tombs' = [tombs EXCEPT ![t] = "none"]
    /\ killed' = killed \ {t}
    /\ clean' = IF ok THEN clean \cup {t} ELSE clean
    /\ UNCHANGED <<status, waited, later, chgVars, stopped, someBlocked, timeVars,
                   lockVars, dirty, boundVars>>
    /\ Checkpoint

-----------------------------------------------------------------------------
(* Aborting.  abortTasks works through a batch of tasks in taskIDs order   *)
(* and then through the tasks halted by those; the lanes it meets that are *)
(* not yet aborted make another round of abortLanes.                       *)

AbortBegin(work) ==
    /\ Holds("free")
    /\ lock' = "abort" /\ ab' = work
    /\ UNCHANGED <<taskVars, chgVars, runVars, timeVars, pass, disk, dirty, restarts>>

\* Mutant: also aborts a change that is ready.
UserAbortAnytime ==
    /\ aborts < MaxAborts /\ aborts' = aborts + 1
    /\ AbortBegin([NoAbort EXCEPT !.batch = Tasks])

\* POST /v2/changes/<id> {"action": "abort"}
UserAbort ==
    /\ aborts < MaxAborts /\ aborts' = aborts + 1
    /\ ~ready
    /\ AbortBegin([NoAbort EXCEPT !.batch = Tasks])

\* State.Prune on a change that has been around for too long.
PruneAbort ==
    /\ aborts < MaxAborts /\ aborts' = aborts + 1
    /\ ~ready /\ ~PendingForSystemRestart(status, waited)
    /\ AbortBegin([NoAbort EXCEPT !.lanes = UnreadyLanes(status)])

AbortedStatus(t) ==
    CASE EffectiveStatus(status, waited, t) = "Do" -> "Hold"
      [] EffectiveStatus(status, waited, t) = "Doing" -> "Abort"
      [] EffectiveStatus(status, waited, t) = "Done" -> "Undo"
      [] OTHER -> status[t]

\* Mutant: walks the tasks in the order of a map.
NextToAbortAny(t) == t \in ab.batch \/ (ab.batch = {} /\ t \in ab.halted)

\* What abortTasks turns to next.
NextToAbort(t) ==
    \/ t \in ab.batch /\ \A u \in ab.batch : Index[t] <= Index[u]
    \/ ab.batch = {} /\ t \in ab.halted

\* Mutant: leaves alone the tasks that wait for an aborted one.
AbortTaskAlone(t) ==
    /\ Holds("abort") /\ NextToAbort(t)
    /\ SetStatus(t, AbortedStatus(t))
    /\ ab' = [ab EXCEPT !.batch = ab.batch \ {t}, !.halted = ab.halted \ {t},
                        !.seen = ab.seen \cup {t},
                        !.lanes = IF LaneSet(t) \subseteq ab.aborted THEN ab.lanes
                                  ELSE ab.lanes \cup LaneSet(t)]
    /\ UNCHANGED <<waited, clean, later, runVars, timeVars, lock, pass, disk, dirty, boundVars>>

AbortTask(t) ==
    /\ Holds("abort") /\ NextToAbort(t)
    /\ SetStatus(t, AbortedStatus(t))
    /\ LET seen == ab.seen \cup {t}
       IN  ab' = [ab EXCEPT !.batch = ab.batch \ {t},
                            !.halted = (ab.halted \cup HaltTasks(t)) \ seen,
                            !.seen = seen,
                            !.lanes = IF LaneSet(t) \subseteq ab.aborted THEN ab.lanes
                                      ELSE ab.lanes \cup LaneSet(t)]
    /\ UNCHANGED <<waited, clean, later, runVars, timeVars, lock, pass, disk, dirty, boundVars>>

AbortLanes ==
    /\ Holds("abort")
    /\ ab.batch = {} /\ ab.halted = {} /\ ab.lanes # {}
    /\ ab' = [ab EXCEPT !.batch = LaneTasksToAbort(status, waited, ab.lanes) \ ab.seen,
                        !.aborted = ab.aborted \cup ab.lanes,
                        !.lanes = {}]
    /\ UNCHANGED <<taskVars, chgVars, runVars, timeVars, lock, pass, disk, dirty, boundVars>>

AbortWorkDone == Holds("abort") /\ ab.batch = {} /\ ab.halted = {} /\ ab.lanes = {}

\* The abort asked for by the user or by Prune is over; both are followed by
\* an Ensure.
AbortEnd ==
    /\ AbortWorkDone /\ ab.cause = NoTask
    /\ lock' = "free" /\ ab' = NoAbort
    /\ ensureSoon' = TRUE
    /\ UNCHANGED <<taskVars, chgVars, runVars, wake, pass, dirty, boundVars>>
    /\ Checkpoint

\* The rest of TaskRunner.abortLanes and of the failed handler's goroutine.
AbortEndWithError ==
    /\ AbortWorkDone /\ ab.cause # NoTask
    /\ killed' = killed \cup {t \in Tasks : status[t] = "Abort" /\ tombs[t] # "none"}
    /\ ensureSoon' = (ensureSoon \/ ~AllReady(status))
    /\ SetStatus(ab.cause, "Error")
    /\ lock' = "free" /\ ab' = NoAbort
    /\ UNCHANGED <<waited, clean, later, tombs, stopped, someBlocked, wake, pass, dirty, boundVars>>
    /\ Checkpoint

-----------------------------------------------------------------------------
(* Time, stopping, and what survives a restart.                            *)

\* The clock reaches a task's atTime; the ensure timer fires if it was set.
TimePasses(t) ==
    /\ Holds("free") /\ t \in later
    /\ later' = later \ {t} /\ wake' = wake \ {t}
    /\ ensureSoon' = (ensureSoon \/ t \in wake)
    /\ UNCHANGED <<status, waited, clean, chgVars, runVars, lockVars, dirty, boundVars>>
    /\ Checkpoint

Stop ==
    /\ Holds("free") /\ ~stopped /\ restarts < MaxRestarts
    /\ stopped' = TRUE
    /\ killed' = {t \in Tasks : tombs[t] # "none"}
    /\ UNCHANGED <<taskVars, chgVars, tombs, someBlocked, timeVars, lockVars, disk, dirty, boundVars>>

\* Mutant: every task gets its raw waited status, waiting or not.
StartUpAll(rebooted) ==
    /\ ~panicked
    /\ restarts < MaxRestarts /\ restarts' = restarts + 1
    /\ waited' = disk.waited
    /\ status' = IF rebooted THEN disk.waited ELSE disk.status
    /\ clean' = disk.clean /\ later' = disk.later
    /\ ready' = AllReady(status') /\ panicked' = FALSE
    /\ tombs' = [t \in Tasks |-> "none"] /\ killed' = {}
    /\ stopped' = FALSE /\ someBlocked' = FALSE
    /\ ensureSoon' = TRUE /\ wake' = {}
    /\ lock' = "free" /\ pass' = {} /\ ab' = NoAbort
    /\ UNCHANGED <<dirty, aborts>>
    /\ Checkpoint

\* snapd comes up again on what was checkpointed.  If the system rebooted, the
\* restart manager gives each waiting task the status it was waiting for.
StartUp(rebooted) ==
    /\ ~panicked
    /\ restarts < MaxRestarts /\ restarts' = restarts + 1
    /\ waited' = [t \in Tasks |-> IF disk.waited[t] = "Default" THEN "Done" ELSE disk.waited[t]]
    /\ status' = [t \in Tasks |-> IF rebooted /\ disk.status[t] = "Wait" THEN waited'[t]
                                  ELSE disk.status[t]]
    /\ clean' = disk.clean /\ later' = disk.later
    /\ ready' = AllReady(status') /\ panicked' = FALSE
    /\ tombs' = [t \in Tasks |-> "none"] /\ killed' = {}
    /\ stopped' = FALSE /\ someBlocked' = FALSE
    /\ ensureSoon' = TRUE /\ wake' = {}
    /\ lock' = "free" /\ pass' = {} /\ ab' = NoAbort
    /\ UNCHANGED <<dirty, aborts>>
    /\ Checkpoint

Crash(rebooted) == StartUp(rebooted)

\* Stop has waited for every goroutine, and the process exits.
Exit(rebooted) ==
    /\ Holds("free") /\ stopped /\ \A t \in Tasks : tombs[t] = "none"
    /\ StartUp(rebooted)

-----------------------------------------------------------------------------

EnsureStep == \/ EnsureBegin
              \/ EnsureEnd
              \/ \E t \in Tasks : \/ ConsiderKill(t)
                                  \/ ConsiderTryUndo(t)
                                  \/ ConsiderSkip(t)
                                  \/ ConsiderClean(t)
                                  \/ ConsiderCannotUndo(t)
                                  \/ ConsiderLater(t)
                                  \/ ConsiderBlocked(t)
                                  \/ ConsiderRun(t)

HandlerReturns == \E t \in Tasks : \/ HandlerOk(t)
                                   \/ \E after \in BOOLEAN : HandlerRetry(t, after)
                                   \/ HandlerError(t)
                                   \/ \E ok \in BOOLEAN : CleanupReturns(t, ok)

HandlerStep == \/ \E t \in Tasks : \/ HandlerSetsStatus(t)
                                   \/ \E ws \in WaitedStatuses : HandlerSetsWait(t, ws)
               \/ HandlerReturns

AbortStep == \/ UserAbort
             \/ PruneAbort
             \/ \E t \in Tasks : AbortTask(t)
             \/ AbortLanes
             \/ AbortEnd
             \/ AbortEndWithError

SystemStep == \/ \E t \in Tasks : TimePasses(t)
              \/ Stop
              \/ \E rebooted \in BOOLEAN : Crash(rebooted) \/ Exit(rebooted)

Next == EnsureStep \/ HandlerStep \/ AbortStep \/ SystemStep

Spec == Init /\ [][Next]_vars
-----------------------------------------------------------------------------
(* What the runner promises.                                               *)

\* A task is in progress, or done in a way that can be undone, only while
\* everything it waits for is Done: Ensure starts no handler early, and no
\* abort, error, crash or reboot takes a prerequisite away from a task without
\* aborting that task too (mustWait, abortTasks).
PrerequisitesDone ==
    lock # "abort" =>
        \A t \in Tasks : \A w \in WaitTasks[t] :
            Relies(status, waited, t) => status[w] = "Done"

\* Undoing goes backwards: from the moment a task's undo handler starts, none
\* of the tasks that waited for it runs, can still run, or has an effect that
\* an undo handler could remove (mustWait for Undo, Ensure's Cannot undo case).
UndoOrder ==
    \A t \in Tasks : EffectiveStatus(status, waited, t) \in {"Undoing", "Undone"} =>
        \A h \in HaltTasks(t) : OutOfTheWay(status, h)

\* The checkpointed status never misleads about the system: a task that has
\* not run, was held or was undone left no effect that its undo handler should
\* have removed, and a Done task's effect is there, whatever crashed in between.
EffectsMatchStatus ==
    /\ \A t \in HasUndo : EffectiveStatus(disk.status, disk.waited, t) \in {"Do", "Hold", "Undone"}
                          => t \notin dirty
    /\ \A t \in Tasks : EffectiveStatus(disk.status, disk.waited, t) = "Done" => t \in dirty

\* Seen from outside, a change is a saga: an effect appears only where those it
\* builds on are in place, and is taken back only when nothing that can be undone
\* builds on it, by a task that has an undo handler and has not failed, over all
\* crashes between an effect and its checkpoint (Ensure, mustWait, abortTasks).
Failed == {t \in Tasks : disk.status[t] = "Error"}

Sagas == INSTANCE Saga WITH effects <- dirty, failed <- Failed

ImplementsSaga == Sagas!SagaSpec

\* The ready channel is closed exactly when every task is ready, after every
\* single SetStatus, inside a pass and inside an abort (detectChangeReady).
ReadyExact == ~panicked => (ready <=> AllReady(status))

\* Cleanup handlers run, and tasks are marked clean, only when no task of the
\* change can change any more (clean, taskCleanChanged).
CleanupWhenReady ==
    \A t \in Tasks : tombs[t] = "cleanup" \/ t \in clean => AllReady(status)

\* A ready change is final: no later Ensure, returning handler, abort, prune or
\* restart changes the status of a task (the guards of abortChange and Prune).
\* Only a crash before the checkpoint can take back that it became ready.
ReadyIsFinal ==
    [][ready /\ (lock = "free" \/ restarts' = restarts) => status' = status]_vars

\* When the change is over, a lane with a failed task has been rolled back: a
\* task of it that can be undone is still Done only if it is also in a lane
\* whose tasks are all Done (AbortLanes).
LaneAtomicity ==
    lock = "free" /\ ready =>
        \A e \in Tasks, t \in HasUndo :
            status[e] = "Error" /\ status[t] = "Done" /\ LaneSet(e) \cap LaneSet(t) # {} =>
                \E l \in LaneSet(t) : \A u \in Tasks : l \in LaneSet(u) => status[u] = "Done"

\* A handler that has finished its task by itself asks for an Ensure only when
\* it returns.
AwaitsReturn(t) ==
    \E u \in Tasks : /\ tombs[u] \in {"do", "undo"}
                     /\ \/ status[u] = "Done" /\ t \in HaltTasks(u)
                        \/ status[u] = "Undone" /\ t \in WaitTasks[u]

\* A task that was aborted between the moment its handler set its status or made
\* it wait and the return of the handler, which then asks for nothing.
AbortedLate(t) ==
    status[t] = "Undo" /\ (t \in SelfFinishing \/ (t \in Waiting /\ waited[t] # "Default"))

\* A task whose handler has asked to be retried, but not at a later time.
RetriedAtOnce(t) == t \in Retrying /\ status[t] \in {"Doing", "Undoing"}

\* A pass would start no handler of t and kill none, or will be asked for.
Served(t) ==
    /\ status[t] = "Abort" => tombs[t] # "none" /\ t \in killed
    /\ t \in later /\ Due(t) => t \in wake \/ AwaitsReturn(t)
    /\ t \notin later /\ Due(t) =>
           \/ Blocked(t) /\ someBlocked
           \/ AwaitsReturn(t) \/ AbortedLate(t) \/ RetriedAtOnce(t)

\* No lost wakeup: when the lock is free and no Ensure is asked for, a pass
\* would start no handler and kill none.  What is left to the periodic Ensure
\* is a handler that asked to be retried at once, and a task aborted late.
NoLostWakeup == lock = "free" /\ ~stopped /\ ~ensureSoon => \A t \in Tasks : Served(t)

\* A task that has a handler to run or to wait for.
Progressing(t) == \/ status[t] \in {"Doing", "Undoing", "Abort"}
                  \/ status[t] \in {"Do", "Undo"} /\ ~MustWait(status, t)

\* Nothing of the change can make progress exactly when it is over or reads as
\* waiting for a restart: its tasks never all wait for one another, and the
\* status with which the restart manager is told to reboot is neither missed
\* nor reported too early (isChangeWaiting, mustWait, abortTasks).
WaitIsDetected ==
    lock = "free" =>
        (AllReady(status) \/ ChangeStatus(status) = "Wait" <=> \A t \in Tasks : ~Progressing(t))

\* The assertion of detectChangeReady: a change never becomes unready.
NeverUnreadyAgain == ~panicked

-----------------------------------------------------------------------------
(* Fairness.  The overlord calls Ensure at least every five minutes; the   *)
(* lock is always released; a handler returns, and one that may be retried *)
(* is not retried forever; a process that was stopped is started again.    *)

Fairness ==
    /\ WF_vars(EnsureStep)
    /\ WF_vars((\E t \in Tasks : AbortTask(t)) \/ AbortLanes \/ AbortEnd \/ AbortEndWithError)
    /\ \A t \in Tasks : /\ SF_vars(HandlerOk(t))
                        /\ SF_vars(CleanupReturns(t, TRUE))
                        /\ SF_vars(TimePasses(t))
    /\ WF_vars(\E rebooted \in BOOLEAN : Exit(rebooted))

FairSpec == Spec /\ Fairness

\* Every change comes to its end and is cleaned up, or reads as waiting for a
\* reboot that never comes: no interleaving of handlers, errors, retries,
\* serialisation, aborts and restarts leaves it stuck.
Settles == <>[](clean = Tasks \/ ChangeStatus(status) = "Wait")
=============================================================================
