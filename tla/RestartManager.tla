--------------------------- MODULE RestartManager ---------------------------
(***************************************************************************)
(* Reboots asked for by the tasks of a change: overlord/restart on top of  *)
(* the task runner, and the part of the daemon that retries a reboot which *)
(* did not happen.                                                         *)
(*                                                                         *)
(* A task that needs a reboot leaves restart parameters on its change.  A  *)
(* callback on the status of the change turns them into a request once the *)
(* change has nothing left to run.  The callback runs inside of every      *)
(* SetStatus, so here it is a conjunct (Notify) of every step of the task  *)
(* runner.  rdisk is the checkpoint of the variables of this module.       *)
(***************************************************************************)
EXTENDS TaskRunner

CONSTANTS
    DoBoundary,         \* tasks marked as restart boundary for doing
    UndoBoundary,       \* tasks marked as restart boundary for undoing
    Systems,            \* values of release.OnClassic
    RebootMaxAttempts   \* rebootMaxAttempts of the daemon

ASSUME RestartAssumption ==
    /\ DoBoundary \subseteq Tasks /\ UndoBoundary \subseteq Tasks
    /\ Systems \subseteq BOOLEAN
    /\ RebootMaxAttempts \in Nat
    /\ Waiting \subseteq SelfFinishing

VARIABLES
    onClassic,      \* release.OnClassic
    params,         \* the change has pending-system-restart
    observed,       \* Change.lastObservedStatus
    hook,           \* processRestartForChange is registered
    asked,          \* system-restart-from-boot-id is set, to the current boot
    tentative,      \* daemon-system-restart-tentative
    phase,          \* "up", or "waiting" for a reboot without an overlord
    rdisk,          \* the last checkpoint of params, asked and tentative
    gaveUp          \* history: snapd gave up on a reboot since the last boot

restartVars == <<onClassic, params, observed, hook, asked, tentative, phase, rdisk, gaveUp>>
allVars == <<vars, restartVars>>

RestartInit ==
    /\ Init
    /\ onClassic \in Systems
    /\ params = FALSE /\ observed = "Default" /\ hook = TRUE
    /\ asked = FALSE /\ tentative = 0 /\ phase = "up"
    /\ rdisk = [params |-> FALSE, asked |-> FALSE, tentative |-> 0]
    /\ gaveUp = FALSE

-----------------------------------------------------------------------------
(* The callback.                                                           *)

CanNeedRestart == {"Wait", "Done", "Undone", "Error"}

\* Mutant: forgets the parameters before it looks at the status.
NotifyForgets(p) ==
    LET new == ChangeStatus(status')
        runs == status' # status /\ hook /\ new # observed
    IN  /\ observed' = IF status' = status THEN observed ELSE new
        /\ params' = (p /\ ~runs)
        /\ asked' = (asked \/ (runs /\ new \in CanNeedRestart /\ p /\ ~onClassic))

\* notifyStatusChange and, through it, processRestartForChange.  p tells
\* whether the change has restart parameters when its status changes.
Notify(p) ==
    LET new == ChangeStatus(status')
        fires == status' # status /\ hook /\ new # observed /\ new \in CanNeedRestart /\ p
    IN  /\ observed' = IF status' = status THEN observed ELSE new
        /\ params' = (p /\ ~fires)
        /\ asked' = (asked \/ (fires /\ ~onClassic))

\* The part of a checkpoint that belongs to this module.
Save == rdisk' = IF lock' = "free"
                 THEN [params |-> params', asked |-> asked', tentative |-> tentative']
                 ELSE rdisk

-----------------------------------------------------------------------------

\* Anything the task runner does that has no business with restarts.  Stopping
\* the overlord ends its loop before it stops the managers.
RunnerStep ==
    /\ phase = "up"
    /\ \/ EnsureStep /\ (hook \/ lock = "ensure")
       \/ HandlerReturns
       \/ AbortStep
       \/ \E t \in Tasks : HandlerSetsStatus(t) \/ TimePasses(t)
    /\ Notify(params)
    /\ UNCHANGED <<hook, tentative, phase, gaveUp>>
    /\ Save

\* markTaskForRestart waits at boundaries, or everywhere if there are none.
SetsToWait(t, boundary) == boundary = {} \/ t \in boundary

\* Mutant: undoing waits for a reboot on classic, too.
SkipsRestartNever(t) == FALSE

\* markTaskForRestart on classic, where undoing does not wait for a reboot.
SkipsRestart(t) == onClassic /\ status[t] = "Undoing"

\* Mutant: saves the parameters after the task has been marked.
FinishTaskWithRestartLate(t) ==
    /\ phase = "up" /\ Running(t) /\ t \in Waiting
    /\ \/ status[t] = "Abort" /\ UNCHANGED <<vars, observed, asked>>
       \/ /\ status[t] = "Doing"
          /\ IF SetsToWait(t, DoBoundary) THEN HandlerSetsWait(t, "Done") ELSE HandlerSetsStatus(t)
          /\ observed' = ChangeStatus(status') /\ UNCHANGED asked
       \/ /\ status[t] = "Undoing"
          /\ IF SetsToWait(t, UndoBoundary) THEN HandlerSetsWait(t, "Undone") ELSE HandlerSetsStatus(t)
          /\ observed' = ChangeStatus(status') /\ UNCHANGED asked
    /\ params' = TRUE
    /\ UNCHANGED <<hook, tentative, phase, gaveUp>>
    /\ Save

\* The handler of t is done and wants the system restarted.  The parameters are
\* saved even if the task was aborted meanwhile and keeps its status; undoing on
\* classic drops them and does not wait.
FinishTaskWithRestart(t) ==
    /\ phase = "up" /\ Running(t) /\ t \in Waiting
    /\ \/ /\ status[t] = "Abort"
          /\ UNCHANGED vars
          /\ Notify(TRUE)
       \/ /\ status[t] = "Doing"
          /\ IF SetsToWait(t, DoBoundary) THEN HandlerSetsWait(t, "Done") ELSE HandlerSetsStatus(t)
          /\ Notify(TRUE)
       \/ /\ status[t] = "Undoing" /\ ~SkipsRestart(t)
          /\ IF SetsToWait(t, UndoBoundary) THEN HandlerSetsWait(t, "Undone") ELSE HandlerSetsStatus(t)
          /\ Notify(TRUE)
       \/ /\ SkipsRestart(t)
          /\ HandlerSetsStatus(t)
          /\ Notify(FALSE)
    /\ UNCHANGED <<hook, tentative, phase, gaveUp>>
    /\ Save

\* A task without undo handler that has to run after a reboot some other task
\* waits for.
TaskWaitForRestart(t) ==
    /\ phase = "up" /\ Running(t)
    /\ PendingForSystemRestart(status, waited)
    /\ HandlerSetsWait(t, "Do")
    /\ Notify(params)
    /\ UNCHANGED <<hook, tentative, phase, gaveUp>>
    /\ Save

-----------------------------------------------------------------------------
(* Stopping and starting snapd.                                            *)

\* The restart manager is the first to be stopped, the task runner the last.
StopManager ==
    /\ phase = "up" /\ Holds("free") /\ hook /\ restarts < MaxRestarts
    /\ hook' = FALSE
    /\ UNCHANGED <<vars, params, observed, asked, tentative, phase, rdisk, gaveUp>>

StopRunner ==
    /\ phase = "up" /\ ~hook /\ Stop
    /\ UNCHANGED restartVars

\* Mutant: never gives up.
RebootDidNotHappenForever ==
    /\ ~panicked /\ restarts < MaxRestarts /\ rdisk.asked
    /\ phase' = "waiting"
    /\ tentative' = rdisk.tentative + 1
    /\ rdisk' = [rdisk EXCEPT !.tentative = tentative']
    /\ UNCHANGED <<vars, params, observed, hook, asked, gaveUp>>

\* snapd starts in the boot in which it had asked for a reboot: it asks again
\* and waits, without an overlord.
RebootDidNotHappen ==
    /\ ~panicked /\ restarts < MaxRestarts
    /\ rdisk.asked /\ rdisk.tentative < RebootMaxAttempts
    /\ phase' = "waiting"
    /\ tentative' = rdisk.tentative + 1
    /\ rdisk' = [rdisk EXCEPT !.tentative = tentative']
    /\ UNCHANGED <<vars, params, observed, hook, asked, gaveUp>>

\* The statuses StartUp goes through as it resolves the waiting tasks in turn.
ResolvedUpTo(k) ==
    [t \in Tasks |-> IF disk.status[t] = "Wait" /\ Index[t] <= k THEN waited'[t] ELSE disk.status[t]]

\* snapd starts after a reboot, or when no reboot was asked for, or gives up.
Starts(rebooted) ==
    /\ rebooted \/ ~rdisk.asked \/ rdisk.tentative >= RebootMaxAttempts
    /\ StartUp(rebooted)
    /\ LET resolved == {t \in Tasks : rebooted /\ disk.status[t] = "Wait"}
           fires == /\ rdisk.params
                    /\ \E t \in resolved : ChangeStatus(ResolvedUpTo(Index[t])) \in CanNeedRestart
       IN  /\ params' = (rdisk.params /\ ~fires)
           /\ asked' = (fires /\ ~onClassic)
           /\ observed' = IF resolved = {} THEN "Default" ELSE ChangeStatus(status')
    /\ hook' = TRUE /\ tentative' = 0 /\ phase' = "up"
    /\ gaveUp' = (~rebooted /\ (gaveUp \/ rdisk.asked))
    /\ Save

RestartNext ==
    /\ UNCHANGED onClassic
    /\ \/ RunnerStep
       \/ \E t \in Tasks : FinishTaskWithRestart(t) \/ TaskWaitForRestart(t)
       \/ StopManager
       \/ StopRunner
       \/ RebootDidNotHappen
       \/ \E rebooted \in BOOLEAN : Starts(rebooted)

RestartSpec == RestartInit /\ [][RestartNext]_allVars

-----------------------------------------------------------------------------

RestartTypeOK ==
    /\ onClassic \in BOOLEAN
    /\ params \in BOOLEAN /\ hook \in BOOLEAN /\ asked \in BOOLEAN /\ gaveUp \in BOOLEAN
    /\ observed \in Statuses \cup {"Default"}
    /\ tentative \in 0..RebootMaxAttempts
    /\ phase \in {"up", "waiting"}
    /\ rdisk \in [params : BOOLEAN, asked : BOOLEAN, tentative : 0..RebootMaxAttempts]

\* As long as the restart manager is running, the checkpoint that first shows a
\* change waiting also shows the reboot asked for: no crash can separate the
\* two (FinishTaskWithRestart saves the parameters before it marks the task).
\* Once snapd has given up on a reboot, a change that moves on without it and
\* comes back to wait does not ask again.
WaitAsksForReboot ==
    [][~onClassic /\ hook /\ hook' /\ restarts' = restarts
       /\ ChangeStatus(disk'.status) = "Wait" /\ ChangeStatus(disk.status) # "Wait"
       => rdisk'.asked \/ gaveUp]_allVars

\* While a task waits for a reboot, in memory or on disk, the reboot has been
\* asked for, or the parameters to ask for it are still there, or snapd has
\* given up on it, whatever was aborted, stopped or crashed.
RebootNotForgotten ==
    ~onClassic =>
        /\ (\E t \in Tasks : status[t] = "Wait") => asked \/ params \/ gaveUp
        /\ (\E t \in Tasks : disk.status[t] = "Wait") => rdisk.asked \/ rdisk.params \/ gaveUp

\* A classic system is never rebooted by snapd, and undoing a change there never
\* waits for a reboot, whatever was asked for while doing (markTaskForRestart,
\* processRestartForChange).
ClassicNeverReboots ==
    onClassic =>
        /\ ~asked /\ ~rdisk.asked /\ phase = "up"
        /\ \A t \in Tasks : status[t] = "Wait" => waited[t] \in {"Do", "Done"}

\* "The restart is scheduled": a change that can only go on after a reboot has
\* asked for it, unless snapd has given up.
WaitingChangeIsRebooted ==
    ~onClassic /\ phase = "up" /\ lock = "free" /\ hook /\ ChangeStatus(status) = "Wait"
        => asked \/ gaveUp
=============================================================================
