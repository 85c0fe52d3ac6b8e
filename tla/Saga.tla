-------------------------------- MODULE Saga --------------------------------
(***************************************************************************)
(* What the task runner promises about the system it works on: the effects *)
(* of tasks appear after those of the tasks they build on, and are taken   *)
(* back in the reverse order, each by the task that made it.  It says      *)
(* nothing of statuses, lanes, passes, aborts, checkpoints and crashes.    *)
(***************************************************************************)
CONSTANTS Tasks, WaitTasks, HasUndo

VARIABLES
    effects,    \* the tasks whose effect is in place
    failed      \* the tasks that failed, whose effect nobody answers for

sagaVars == <<effects, failed>>

SagaInit == effects = {} /\ failed = {}

\* Some tasks run, all of whose prerequisites have had their effect.
Do(ts) ==
    /\ ts \cap failed = {}
    /\ \A t \in ts : WaitTasks[t] \subseteq effects
    /\ effects' = effects \cup ts
    /\ UNCHANGED failed

\* A task is undone once no effect that could be undone builds on it.
Undo(t) ==
    /\ t \in HasUndo \ failed
    /\ \A h \in effects : t \in WaitTasks[h] => h \in failed \/ h \notin HasUndo
    /\ effects' = effects \ {t}
    /\ UNCHANGED failed

Fail(t) ==
    /\ failed' = failed \cup {t}
    /\ UNCHANGED effects

SagaNext ==
    \/ \E ts \in SUBSET Tasks : Do(ts)
    \/ \E t \in Tasks : Undo(t) \/ Fail(t)

SagaSpec == SagaInit /\ [][SagaNext]_sagaVars
=============================================================================
