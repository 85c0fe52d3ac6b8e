------------------------------- MODULE Change -------------------------------
(***************************************************************************)
(* One change of overlord/state: its tasks, their statuses, lanes and wait *)
(* relations, and the questions the code asks of them.  Everything here is *)
(* a pure function of the task graph and of the statuses; the state that   *)
(* changes is in TaskRunner.                                               *)
(*                                                                         *)
(* A task identifier is a model value.  Index gives its place in the       *)
(* change's taskIDs, which is the order in which the code walks the tasks. *)
(***************************************************************************)
EXTENDS Integers, Sequences, FiniteSets

CONSTANTS
    Tasks,          \* the tasks of the change
    Index,          \* [Tasks -> Nat]: position in Change.taskIDs
    WaitTasks,      \* [Tasks -> SUBSET Tasks]: Task.waitTasks
    Lanes,          \* [Tasks -> Seq(Int)]: Task.Lanes(), <<0>> when none joined
    HasUndo,        \* tasks whose kind has an undo handler
    HasCleanup,     \* tasks whose kind has a cleanup handler
    BlockedBy       \* [Tasks -> SUBSET Tasks]: what the blocked predicates serialise

ASSUME TasksAssumption == Tasks # {} /\ IsFiniteSet(Tasks)

ASSUME IndexAssumption ==
    /\ Index \in [Tasks -> Nat]
    /\ \A t, u \in Tasks : Index[t] = Index[u] => t = u

ASSUME GraphAssumption ==
    /\ WaitTasks \in [Tasks -> SUBSET Tasks]
    /\ Lanes \in [Tasks -> Seq(Int)]
    /\ \A t \in Tasks : Lanes[t] # <<>>
    /\ HasUndo \subseteq Tasks
    /\ HasCleanup \subseteq Tasks
    /\ BlockedBy \in [Tasks -> SUBSET Tasks]

HaltTasks(t) == {h \in Tasks : t \in WaitTasks[h]}

LaneSet(t) == {Lanes[t][i] : i \in DOMAIN Lanes[t]}

-----------------------------------------------------------------------------
(* Statuses (the Default status of a fresh task reads as Do).              *)

ReadyStatuses == {"Done", "Undone", "Hold", "Error"}

Statuses == ReadyStatuses \cup {"Do", "Doing", "Abort", "Undo", "Undoing", "Wait"}

Ready(s) == s \in ReadyStatuses

AllReady(st) == \A t \in Tasks : Ready(st[t])

\* What a waiting task will be once its wait is resolved.
EffectiveStatus(st, wd, t) == IF st[t] = "Wait" THEN wd[t] ELSE st[t]

StatusOrder == <<"Abort", "Undoing", "Undo", "Doing", "Do", "Wait",
                 "Error", "Undone", "Done", "Hold">>

\* Mutant: looks at the same dependencies in both directions.
IsTaskWaitingForward(st) ==
    LET waiting[computing \in SUBSET Tasks] ==
          [t \in Tasks |->
             LET heldUp(d) == \/ st[d] = "Wait"
                              \/ st[d] \in {"Do", "Undo"} /\ waiting[computing \cup {t}][d]
             IN  /\ t \notin computing
                 /\ \E d \in WaitTasks[t] : heldUp(d)
                 /\ \A d \in WaitTasks[t] : heldUp(d) \/ Ready(st[d])]
    IN  waiting[{}]

\* isTaskWaiting: every dependency of t is ready or held up by a wait, and at
\* least one is held up.  `computing` is the chain of tasks the recursion is
\* inside of; meeting one of them again is the cycle the code cuts with false.
IsTaskWaiting(st) ==
    LET waiting[computing \in SUBSET Tasks] ==
          [t \in Tasks |->
             LET deps == IF st[t] = "Do" THEN WaitTasks[t] ELSE HaltTasks(t)
                 heldUp(d) == \/ st[d] = "Wait"
                              \/ st[d] \in {"Do", "Undo"} /\ waiting[computing \cup {t}][d]
             IN  /\ t \notin computing
                 /\ \E d \in deps : heldUp(d)
                 /\ \A d \in deps : heldUp(d) \/ Ready(st[d])]
    IN  waiting[{}]

IsChangeWaiting(st) ==
    \A t \in Tasks : \/ st[t] \in ReadyStatuses \cup {"Wait"}
                     \/ st[t] \in {"Do", "Undo"} /\ IsTaskWaiting(st)[t]

\* Change.Status() of a change whose status was not set explicitly.
ChangeStatus(st) ==
    LET seen == {i \in DOMAIN StatusOrder : \E t \in Tasks : st[t] = StatusOrder[i]}
    IN  IF (\E t \in Tasks : st[t] = "Wait") /\ IsChangeWaiting(st)
        THEN "Wait"
        ELSE StatusOrder[CHOOSE i \in seen : \A j \in seen : i <= j]

-----------------------------------------------------------------------------
(* Dependencies and lanes.                                                 *)

\* Mutants: an undo that does not wait, and one that waits for Undone only.
MustWaitDoOnly(st, t) == st[t] = "Do" /\ \E w \in WaitTasks[t] : st[w] # "Done"

MustWaitUndone(st, t) ==
    \/ st[t] = "Do" /\ \E w \in WaitTasks[t] : st[w] # "Done"
    \/ st[t] = "Undo" /\ \E h \in HaltTasks(t) : st[h] # "Undone"

MustWait(st, t) ==
    \/ st[t] = "Do" /\ \E w \in WaitTasks[t] : st[w] # "Done"
    \/ st[t] = "Undo" /\ \E h \in HaltTasks(t) : ~Ready(st[h])

Live(st, wd, t) == EffectiveStatus(st, wd, t) \in {"Do", "Doing", "Done"}

\* A task that relies on what it waits for: it runs, or its effect can be undone.
Relies(st, wd, t) ==
    \/ EffectiveStatus(st, wd, t) = "Doing"
    \/ EffectiveStatus(st, wd, t) = "Done" /\ t \in HasUndo

\* A task that will run no handler, and whose effect no handler could remove.
OutOfTheWay(st, t) ==
    \/ st[t] \in {"Undone", "Hold", "Error"}
    \/ t \notin HasUndo /\ st[t] \in {"Done", "Undo"}

\* The lanes of t that abortLanes takes an opinion from: those it meets before
\* the first lane of t that is being killed.
TrackedLanes(t, kill) ==
    {Lanes[t][i] : i \in {j \in DOMAIN Lanes[t] : \A k \in 1..j : Lanes[t][k] \notin kill}}

\* Mutant: a lane with one live task counts as healthy.
LaneTasksToAbortLiveOnly(st, wd, kill) ==
    LET hasLive(l) == \E t \in Tasks : l \in TrackedLanes(t, kill) /\ Live(st, wd, t)
    IN  {t \in Tasks : LaneSet(t) \cap kill # {} /\ \A l \in LaneSet(t) : ~hasLive(l)}

\* The tasks abortLanes(kill) hands to abortTasks: those in a killed lane,
\* except the ones kept alive by a lane with live tasks and no dead one.
LaneTasksToAbort(st, wd, kill) ==
    LET hasLive(l) == \E t \in Tasks : l \in TrackedLanes(t, kill) /\ Live(st, wd, t)
        hasDead(l) == \E t \in Tasks : l \in TrackedLanes(t, kill) /\ ~Live(st, wd, t)
    IN  {t \in Tasks : /\ LaneSet(t) \cap kill # {}
                       /\ \A l \in LaneSet(t) : ~(hasLive(l) /\ ~hasDead(l))}

\* AbortUnreadyLanes: the lanes that still have a task which is not ready.
UnreadyLanes(st) == UNION {LaneSet(t) : t \in {u \in Tasks : ~Ready(st[u])}}

\* pendingForSystemRestart: some task waits for a reboot and has work behind it.
PendingForSystemRestart(st, wd) ==
    \E t \in Tasks :
        /\ st[t] = "Wait"
        /\ \/ /\ wd[t] \in {"Do", "Done"}
              /\ HaltTasks(t) = {} \/ \E h \in HaltTasks(t) : st[h] = "Do"
           \/ /\ wd[t] \in {"Undo", "Undone"}
              /\ WaitTasks[t] = {} \/ \E w \in WaitTasks[t] : st[w] = "Undo"
=============================================================================
