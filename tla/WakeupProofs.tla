---------------------------- MODULE WakeupProofs ----------------------------
(***************************************************************************)
(* No wakeup is lost and nobody waits in vain: when TaskRunner asks for    *)
(* another Ensure, when a change reads as waiting, and that it is not      *)
(* abandoned in between, for any graph of tasks, any blocked predicates,   *)
(* any handlers and any number of aborts and restarts.                     *)
(***************************************************************************)
EXTENDS TaskRunnerProofs, FiniteSetTheorems

\* A handler that runs was started on time, and its task has gone on since only
\* by what the handler itself did to it, or by an abort.
Started(t) ==
    /\ t \notin later /\ status[t] # "Do"
    /\ status[t] = "Done" => t \in SelfFinishing
    /\ status[t] = "Wait" => t \in Waiting
    /\ status[t] = "Undo" => AbortedLate(t)

HandlersStarted == \A t \in Tasks : tombs[t] \in {"do", "undo"} => Started(t)

\* What a pass has considered is served for the rest of the pass, unless the pass
\* itself asks for another one.
PassServes == lock = "ensure" /\ ~ensureSoon => \A t \in Tasks \ pass : Served(t)

WakeInv == NoLostWakeup /\ PassServes /\ HandlersStarted

-----------------------------------------------------------------------------
(* What a step of task t does to the others.                               *)

LEMMA OthersServed ==
  ASSUME TypeOK, NEW t \in Tasks, NEW v \in Tasks, v # t, Served(v),
         \A u \in Tasks : u # t => /\ status'[u] = status[u] /\ waited'[u] = waited[u]
                                   /\ tombs'[u] = tombs[u],
         v \in killed => v \in killed', v \in later <=> v \in later', v \in wake => v \in wake',
         v \in HaltTasks(t) /\ status[v] = "Do" /\ status'[t] = "Done" =>
             status[t] = "Done" \/ AwaitsReturn(v)',
         v \in WaitTasks[t] /\ status[v] = "Undo" /\ Ready(status'[t]) =>
             Ready(status[t]) \/ AwaitsReturn(v)',
         someBlocked => someBlocked' /\ (tombs[t] # "none" => tombs'[t] # "none"),
         tombs[t] \in {"do", "undo"} /\ status[t] = "Done" /\ v \in HaltTasks(t) => AwaitsReturn(v)',
         tombs[t] \in {"do", "undo"} /\ status[t] = "Undone" /\ v \in WaitTasks[t] => AwaitsReturn(v)'
  PROVE  Served(v)'
<1>1. status'[v] = status[v] /\ waited'[v] = waited[v] /\ tombs'[v] = tombs[v]
  OBVIOUS
<1>2. MustWait(status, v) => MustWait(status', v) \/ AwaitsReturn(v)'
  <2>1. ASSUME status[v] = "Do", NEW w \in WaitTasks[v], status[w] # "Done"
        PROVE  MustWait(status', v) \/ AwaitsReturn(v)'
    <3>1. CASE w = t
      BY <1>1, <2>1, <3>1 DEF MustWait, HaltTasks
    <3>2. CASE w # t
      BY <1>1, <2>1, <3>2, GraphAssumption DEF MustWait
    <3>3. QED
      BY <3>1, <3>2
  <2>2. ASSUME status[v] = "Undo", NEW h \in HaltTasks(v), ~Ready(status[h])
        PROVE  MustWait(status', v) \/ AwaitsReturn(v)'
    <3>1. h \in Tasks /\ v \in WaitTasks[h]
      BY DEF HaltTasks
    <3>2. CASE h = t
      BY <1>1, <2>2, <3>1, <3>2 DEF MustWait
    <3>3. CASE h # t
      BY <1>1, <2>2, <3>1, <3>3 DEF MustWait
    <3>4. QED
      BY <3>2, <3>3
  <2>3. QED
    BY <2>1, <2>2 DEF MustWait
<1>3. Due(v)' => Due(v) \/ AwaitsReturn(v)'
  BY <1>1, <1>2 DEF Due
<1>4. AwaitsReturn(v) => AwaitsReturn(v)'
  <2> SUFFICES ASSUME NEW u \in Tasks, tombs[u] \in {"do", "undo"},
                      \/ status[u] = "Done" /\ v \in HaltTasks(u)
                      \/ status[u] = "Undone" /\ v \in WaitTasks[u]
               PROVE  AwaitsReturn(v)'
    BY DEF AwaitsReturn
  <2>1. CASE u = t
    BY <2>1
  <2>2. CASE u # t
    BY <2>2 DEF AwaitsReturn
  <2>3. QED
    BY <2>1, <2>2
<1>5. Blocked(v) /\ someBlocked => Blocked(v)' /\ someBlocked'
  <2> SUFFICES ASSUME NEW u \in BlockedBy[v], tombs[u] # "none", someBlocked
               PROVE  Blocked(v)' /\ someBlocked'
    BY DEF Blocked
  <2>1. u \in Tasks
    BY GraphAssumption
  <2>2. tombs'[u] # "none"
    BY <2>1
  <2>3. QED
    BY <2>2 DEF Blocked
<1>6. AbortedLate(v) => AbortedLate(v)'
  BY <1>1 DEF AbortedLate
<1>7. RetriedAtOnce(v) => RetriedAtOnce(v)'
  BY <1>1 DEF RetriedAtOnce
<1>8. QED
  BY <1>1, <1>3, <1>4, <1>5, <1>6, <1>7 DEF Served

-----------------------------------------------------------------------------
(* Ensure.                                                                 *)

\* A step that considers t, changes no status and removes no tomb.
LEMMA QuietConsider ==
  ASSUME TypeOK, WakeInv, NEW t \in Tasks, Considered(t),
         UNCHANGED <<status, later>>, ensureSoon' = ensureSoon,
         killed \subseteq killed', wake \subseteq wake', someBlocked => someBlocked',
         \A u \in Tasks : u # t => tombs'[u] = tombs[u],
         tombs[t] # "none" => tombs'[t] = tombs[t],
         tombs'[t] \in {"do", "undo"} => tombs'[t] = tombs[t],
         ~ensureSoon => Served(t)'
  PROVE  WakeInv'
<1>1. /\ lock = "ensure" /\ lock' = "ensure" /\ pass' = pass \ {t}
      /\ waited' = waited
  BY DEF Considered, Holds
<1>2. ASSUME ~ensureSoon, NEW v \in Tasks \ pass' PROVE Served(v)'
  <2>1. CASE v = t
    BY <1>2, <2>1
  <2>2. CASE v # t
    <3>1. Served(v)
      BY <1>1, <1>2, <2>2 DEF WakeInv, PassServes
    <3>2. /\ tombs[t] \in {"do", "undo"} /\ status[t] = "Done" /\ v \in HaltTasks(t) => AwaitsReturn(v)'
          /\ tombs[t] \in {"do", "undo"} /\ status[t] = "Undone" /\ v \in WaitTasks[t] => AwaitsReturn(v)'
      BY DEF AwaitsReturn
    <3>3. QED
      BY <1>1, <1>2, <2>2, <3>1, <3>2, OthersServed
  <2>3. QED
    BY <2>1, <2>2
<1>3. HandlersStarted'
  BY <1>1 DEF WakeInv, HandlersStarted, Started, AbortedLate
<1>4. QED
  BY <1>1, <1>2, <1>3 DEF WakeInv, NoLostWakeup, PassServes

\* A step of the pass that sets the status of t, which no handler runs.
LEMMA StatusConsider ==
  ASSUME TypeOK, WakeInv, NEW t \in Tasks, NEW new, SetStatus(t, new),
         lock = "ensure", lock' = "ensure", waited' = waited,
         tombs[t] = "none", UNCHANGED <<killed, later, wake, someBlocked>>,
         \A u \in Tasks : u # t => tombs'[u] = tombs[u],
         pass \ {t} \subseteq pass', pass' \subseteq pass,
         tombs'[t] \in {"do", "undo"} => Started(t)',
         ~ensureSoon' =>
             /\ ~ensureSoon
             /\ t \notin pass' => Served(t)'
             /\ new = "Done" => \A h \in HaltTasks(t) : status[h] # "Do"
             /\ Ready(new) => WaitTasks[t] = {}
  PROVE  WakeInv'
<1>1. status'[t] = new /\ \A u \in Tasks : u # t => status'[u] = status[u]
  BY OneStatus
<1>2. ASSUME ~ensureSoon', NEW v \in Tasks \ pass' PROVE Served(v)'
  <2>1. CASE v = t
    BY <1>2, <2>1
  <2>2. CASE v # t
    <3>1. Served(v)
      BY <1>2, <2>2 DEF WakeInv, PassServes
    <3>2. QED
      BY <1>1, <1>2, <2>2, <3>1, OthersServed
  <2>3. QED
    BY <2>1, <2>2
<1>3. HandlersStarted'
  <2> SUFFICES ASSUME NEW u \in Tasks, tombs'[u] \in {"do", "undo"} PROVE Started(u)'
    BY DEF HandlersStarted
  <2>1. CASE u = t
    BY <2>1
  <2>2. CASE u # t
    BY <1>1, <2>2 DEF WakeInv, HandlersStarted, Started, AbortedLate
  <2>3. QED
    BY <2>1, <2>2
<1>4. QED
  BY <1>2, <1>3 DEF WakeInv, NoLostWakeup, PassServes

LEMMA EnsureWake == ASSUME IInv, WakeInv, EnsureStep PROVE WakeInv'
<1> USE DEF taskVars, chgVars, runVars, timeVars, lockVars, boundVars
<1>0. TypeOK
  BY DEF IInv
<1>1. CASE EnsureBegin
  <2>1. HandlersStarted'
    BY <1>1 DEF EnsureBegin, WakeInv, HandlersStarted, Started, AbortedLate
  <2>2. QED
    BY <1>1, <2>1 DEF EnsureBegin, WakeInv, NoLostWakeup, PassServes
<1>2. CASE EnsureEnd
  <2>1. HandlersStarted'
    BY <1>2 DEF EnsureEnd, WakeInv, HandlersStarted, Started, AbortedLate
  <2>2. ASSUME ~ensureSoon', NEW t \in Tasks PROVE Served(t)'
    <3>1. Served(t)
      BY <1>2, <2>2 DEF EnsureEnd, Holds, WakeInv, PassServes
    <3>2. QED
      BY <1>2, <3>1 DEF EnsureEnd, Served, Due, Blocked, AwaitsReturn, AbortedLate, RetriedAtOnce
  <2>3. QED
    BY <1>2, <2>1, <2>2 DEF EnsureEnd, WakeInv, NoLostWakeup, PassServes
<1>3. ASSUME NEW t \in Tasks, ConsiderKill(t) PROVE WakeInv'
  <2>1. Considered(t) /\ status[t] = "Abort" /\ tombs[t] # "none" /\ killed' = killed \cup {t}
    BY <1>3 DEF ConsiderKill
  <2>2. Served(t)'
    BY <1>3, <2>1 DEF ConsiderKill, Served, Due
  <2>3. QED
    BY <1>0, <1>3, <2>1, <2>2, QuietConsider DEF ConsiderKill
<1>4. ASSUME NEW t \in Tasks, ConsiderTryUndo(t) PROVE WakeInv'
  <2>1. /\ SetStatus(t, TryUndoStatus(t)) /\ lock = "ensure"
        /\ tombs[t] = "none" /\ t \in pass /\ status[t] = "Abort"
        /\ UNCHANGED <<waited, tombs, killed, later, wake, someBlocked, lock, pass>>
        /\ ensureSoon' = (ensureSoon \/ t \in HasUndo \/ WaitTasks[t] # {})
    BY <1>4 DEF ConsiderTryUndo, TryUndo, Holds
  <2>2. TryUndoStatus(t) # "Done"
    BY DEF TryUndoStatus
  <2>3. QED
    BY <1>0, <2>1, <2>2, StatusConsider
<1>5. ASSUME NEW t \in Tasks, ConsiderSkip(t) PROVE WakeInv'
  <2>1. Considered(t)
    BY <1>5 DEF ConsiderSkip
  <2>2. Served(t)'
    BY <1>5 DEF ConsiderSkip, Served, Due, Ready, ReadyStatuses
  <2>3. QED
    BY <1>0, <1>5, <2>1, <2>2, QuietConsider DEF ConsiderSkip
<1>6. ASSUME NEW t \in Tasks, ConsiderClean(t) PROVE WakeInv'
  <2>1. /\ Considered(t) /\ tombs[t] = "none" /\ Ready(status[t])
        /\ UNCHANGED <<status, later, killed, someBlocked, timeVars>>
        /\ tombs' = tombs \/ tombs' = [tombs EXCEPT ![t] = "cleanup"]
    BY <1>6 DEF ConsiderClean
  <2>2. Served(t)'
    BY <2>1 DEF Served, Due, Ready, ReadyStatuses
  <2>3. /\ \A u \in Tasks : u # t => tombs'[u] = tombs[u]
        /\ tombs'[t] \notin {"do", "undo"}
    BY <1>0, <2>1 DEF TypeOK
  <2>4. QED
    BY <1>0, <2>1, <2>2, <2>3, QuietConsider
<1>7. ASSUME NEW t \in Tasks, ConsiderCannotUndo(t) PROVE WakeInv'
  <2>1. /\ SetStatus(t, "Done") /\ lock = "ensure"
        /\ tombs[t] = "none" /\ status[t] = "Undo" /\ ~MustWait(status, t)
        /\ UNCHANGED <<waited, tombs, killed, later, wake, someBlocked, lock>>
        /\ pass' = pass \ {t}
        /\ ensureSoon' = (ensureSoon \/ WaitTasks[t] # {})
    BY <1>7 DEF ConsiderCannotUndo, Considered, Holds, Due, CannotUndo
  <2>2. \A h \in HaltTasks(t) : status[h] # "Do"
    BY <2>1 DEF MustWait, Ready, ReadyStatuses
  <2>3. Served(t)'
    BY <1>0, <2>1, OneStatus DEF Served, Due
  <2>4. QED
    BY <1>0, <2>1, <2>2, <2>3, StatusConsider
<1>8. ASSUME NEW t \in Tasks, ConsiderLater(t) PROVE WakeInv'
  <2>1. Considered(t) /\ t \in later /\ wake' = wake \cup {t} /\ Due(t)
    BY <1>8 DEF ConsiderLater
  <2>2. Served(t)'
    BY <1>8, <2>1 DEF ConsiderLater, Served, Due
  <2>3. QED
    BY <1>0, <1>8, <2>1, <2>2, QuietConsider DEF ConsiderLater
<1>9. ASSUME NEW t \in Tasks, ConsiderBlocked(t) PROVE WakeInv'
  <2>1. Considered(t) /\ t \notin later /\ someBlocked' = TRUE /\ Blocked(t) /\ Due(t)
    BY <1>9 DEF ConsiderBlocked
  <2>2. Served(t)'
    BY <1>9, <2>1 DEF ConsiderBlocked, Served, Due, Blocked
  <2>3. QED
    BY <1>0, <1>9, <2>1, <2>2, QuietConsider DEF ConsiderBlocked
<1>10. ASSUME NEW t \in Tasks, ConsiderRun(t) PROVE WakeInv'
  <2> DEFINE do == status[t] \in {"Do", "Doing"}
             new == IF do THEN "Doing" ELSE "Undoing"
  <2>1. /\ SetStatus(t, new) /\ lock = "ensure" /\ tombs[t] = "none" /\ t \notin later
        /\ UNCHANGED <<waited, killed, later, wake, someBlocked, lock, ensureSoon>>
        /\ pass' = pass \ {t}
        /\ tombs' = [tombs EXCEPT ![t] = IF do THEN "do" ELSE "undo"]
    BY <1>10 DEF ConsiderRun, Considered, Holds, Due
  <2>2. new \in {"Doing", "Undoing"}
    OBVIOUS
  <2> HIDE DEF new
  <2>3. status'[t] = new
    BY <1>0, <2>1, OneStatus
  <2>4. Started(t)'
    BY <2>1, <2>2, <2>3 DEF Started
  <2>5. /\ tombs'[t] # "none"
        /\ \A u \in Tasks : u # t => tombs'[u] = tombs[u]
    BY <1>0, <2>1 DEF TypeOK
  <2>6. Served(t)'
    BY <2>2, <2>3, <2>5 DEF Served, Due
  <2>7. new # "Done" /\ ~Ready(new)
    BY <2>2 DEF Ready, ReadyStatuses
  <2>8. QED
    BY <1>0, <2>1, <2>4, <2>5, <2>6, <2>7, StatusConsider
<1>11. QED
  BY <1>1, <1>2, <1>3, <1>4, <1>5, <1>6, <1>7, <1>8, <1>9, <1>10 DEF EnsureStep

-----------------------------------------------------------------------------
(* Handlers.                                                               *)

\* A step of the handler of t, or of the clock, with the lock free again after it.
LEMMA FreeStep ==
  ASSUME TypeOK, WakeInv, NEW t \in Tasks, lock = "free", lock' = "free", stopped' = stopped,
         \A u \in Tasks : u # t => /\ status'[u] = status[u] /\ waited'[u] = waited[u]
                                   /\ tombs'[u] = tombs[u]
                                   /\ u \in killed => u \in killed'
                                   /\ u \in later <=> u \in later'
                                   /\ u \in wake => u \in wake',
         tombs'[t] \in {"do", "undo"} => Started(t)',
         ~stopped /\ ~ensureSoon' =>
             /\ ~ensureSoon /\ Served(t)'
             /\ someBlocked => someBlocked' /\ (tombs[t] # "none" => tombs'[t] # "none")
             /\ \A v \in HaltTasks(t) :
                    /\ status[v] = "Do" /\ status'[t] = "Done" =>
                           status[t] = "Done" \/ AwaitsReturn(v)'
                    /\ tombs[t] \in {"do", "undo"} /\ status[t] = "Done" => AwaitsReturn(v)'
             /\ \A v \in WaitTasks[t] :
                    /\ status[v] = "Undo" /\ Ready(status'[t]) =>
                           Ready(status[t]) \/ AwaitsReturn(v)'
                    /\ tombs[t] \in {"do", "undo"} /\ status[t] = "Undone" => AwaitsReturn(v)'
  PROVE  WakeInv'
<1>1. ASSUME ~stopped, ~ensureSoon', NEW v \in Tasks PROVE Served(v)'
  <2>1. CASE v = t
    BY <1>1, <2>1
  <2>2. CASE v # t
    <3>1. Served(v)
      BY <1>1 DEF WakeInv, NoLostWakeup
    <3>2. QED
      BY <1>1, <2>2, <3>1, OthersServed
  <2>3. QED
    BY <2>1, <2>2
<1>2. HandlersStarted'
  <2> SUFFICES ASSUME NEW u \in Tasks, tombs'[u] \in {"do", "undo"} PROVE Started(u)'
    BY DEF HandlersStarted
  <2>1. CASE u = t
    BY <2>1
  <2>2. CASE u # t
    BY <2>2 DEF WakeInv, HandlersStarted, Started, AbortedLate
  <2>3. QED
    BY <2>1, <2>2
<1>3. QED
  BY <1>1, <1>2 DEF WakeInv, NoLostWakeup, PassServes

\* A step after which an Ensure is asked for, or an abort runs, owes nothing but
\* what is known of the running handlers.
LEMMA AskedStep ==
  ASSUME lock' # "ensure", lock' = "free" => ensureSoon', HandlersStarted'
  PROVE  WakeInv'
BY DEF WakeInv, NoLostWakeup, PassServes

\* What a task in progress waits for is done, so it is not about to be undone.
LEMMA NobodyUndoes ==
  ASSUME IInv, lock = "free", NEW t \in Tasks, status[t] = "Doing", NEW w \in WaitTasks[t]
  PROVE  status[w] = "Done"
BY NoDebts DEF IInv, Inv, MemoryInv, Prereq, Relies, EffectiveStatus

LEMMA HandlerSetsStatusWake ==
  ASSUME IInv, WakeInv, NEW t \in Tasks, HandlerSetsStatus(t)
  PROVE  WakeInv'
<1> USE DEF taskVars, chgVars, runVars, timeVars, lockVars, boundVars
<1>0. TypeOK
  BY DEF IInv
<1>1. /\ lock = "free" /\ tombs[t] \in {"do", "undo"} /\ t \in SelfFinishing
      /\ UNCHANGED <<waited, later, tombs, killed, stopped, someBlocked, ensureSoon, wake, lock>>
      /\ \/ status[t] = "Doing" /\ SetStatus(t, "Done")
         \/ status[t] = "Undoing" /\ SetStatus(t, "Undone")
  BY DEF HandlerSetsStatus, Running, Holds
<1>2. \A u \in Tasks : u # t => status'[u] = status[u]
  BY <1>0, <1>1, OneStatus
<1>3. \/ status[t] = "Doing" /\ status'[t] = "Done"
      \/ status[t] = "Undoing" /\ status'[t] = "Undone"
  BY <1>0, <1>1, OneStatus
<1>4. Started(t)'
  BY <1>1, <1>3 DEF WakeInv, HandlersStarted, Started
<1>5. Served(t)'
  BY <1>1, <1>3 DEF Served, Due
<1>6. \A v \in HaltTasks(t) : status'[t] = "Done" => AwaitsReturn(v)'
  BY <1>1 DEF AwaitsReturn
<1>7. \A v \in WaitTasks[t] : status[v] = "Undo" => AwaitsReturn(v)'
  BY <1>1, <1>3, NobodyUndoes DEF AwaitsReturn
<1>8. status[t] \notin {"Done", "Undone"}
  BY <1>3
<1>9. QED
  BY <1>0, <1>1, <1>2, <1>4, <1>5, <1>6, <1>7, <1>8, FreeStep DEF WakeInv, NoLostWakeup

LEMMA HandlerSetsWaitWake ==
  ASSUME IInv, WakeInv, NEW t \in Tasks, NEW ws \in WaitedStatuses, HandlerSetsWait(t, ws)
  PROVE  WakeInv'
<1> USE DEF taskVars, chgVars, runVars, timeVars, lockVars, boundVars
<1>0. TypeOK
  BY DEF IInv
<1>1. /\ lock = "free" /\ tombs[t] \in {"do", "undo"} /\ t \in Waiting
      /\ UNCHANGED <<later, tombs, killed, stopped, someBlocked, ensureSoon, wake, lock>>
      /\ status[t] \in {"Doing", "Undoing"} /\ SetStatus(t, "Wait")
      /\ waited' = [waited EXCEPT ![t] = ws]
  BY DEF HandlerSetsWait, Running, Holds
<1>2. /\ status'[t] = "Wait"
      /\ \A u \in Tasks : u # t => status'[u] = status[u] /\ waited'[u] = waited[u]
  BY <1>0, <1>1, OneStatus DEF TypeOK
<1>3. Started(t)'
  BY <1>1, <1>2 DEF WakeInv, HandlersStarted, Started
<1>4. Served(t)'
  BY <1>1, <1>2 DEF Served, Due
<1>5. status'[t] # "Done" /\ ~Ready(status'[t])
  BY <1>2 DEF Ready, ReadyStatuses
<1>6. QED
  BY <1>0, <1>1, <1>2, <1>3, <1>4, <1>5, FreeStep DEF WakeInv, NoLostWakeup

\* What every return of a handler has in common.
LEMMA ReturnFacts ==
  ASSUME IInv, WakeInv, NEW t \in Tasks, Return(t)
  PROVE  /\ lock = "free" /\ tombs[t] \in {"do", "undo"} /\ tombs'[t] = "none" /\ Started(t)
         /\ \A u \in Tasks : u # t => tombs'[u] = tombs[u] /\ (u \in killed => u \in killed')
         /\ UNCHANGED <<stopped, someBlocked>>
BY DEF IInv, TypeOK, Return, Running, Holds, WakeInv, HandlersStarted

LEMMA HandlerOkWake ==
  ASSUME IInv, WakeInv, NEW t \in Tasks, HandlerOk(t)
  PROVE  WakeInv'
<1> DEFINE next == CASE status'[t] = "Done" -> HaltTasks(t)
                     [] status'[t] = "Undone" -> WaitTasks[t]
                     [] OTHER -> {}
<1>0. TypeOK
  BY DEF IInv
<1>1. /\ Return(t) /\ UNCHANGED <<waited, later, wake, lock>>
      /\ ensureSoon' = (ensureSoon \/ someBlocked \/ status[t] = "Abort" \/ next # {})
  BY DEF HandlerOk
<1>2. \/ status[t] = "Doing" /\ SetStatus(t, "Done")
      \/ status[t] = "Abort" /\ SetStatus(t, "Undo")
      \/ status[t] = "Undoing" /\ SetStatus(t, "Undone")
      \/ status[t] \notin {"Doing", "Abort", "Undoing"} /\ UNCHANGED status
  BY DEF HandlerOk
<1>3. \/ status[t] = "Doing" /\ status'[t] = "Done"
      \/ status[t] = "Abort"
      \/ status[t] = "Undoing" /\ status'[t] = "Undone"
      \/ status[t] \notin {"Doing", "Abort", "Undoing"} /\ status'[t] = status[t]
  BY <1>0, <1>2, OneStatus
<1>4. \A u \in Tasks : u # t => status'[u] = status[u]
  BY <1>0, <1>2, OneStatus
<1>5. status'[t] = "Done" /\ next = {} => HaltTasks(t) = {}
  OBVIOUS
<1>6. status'[t] = "Undone" /\ next = {} => WaitTasks[t] = {}
  OBVIOUS
<1> HIDE DEF next
<1>7. ASSUME ~stopped, ~ensureSoon'
      PROVE  /\ ~ensureSoon /\ Served(t)' /\ ~someBlocked
             /\ status[t] # "Abort" /\ next = {}
  <2>1. ~ensureSoon /\ ~someBlocked /\ status[t] # "Abort" /\ next = {}
    BY <1>1, <1>7
  <2>2. t \notin later' /\ waited'[t] = waited[t]
    BY <1>1, ReturnFacts DEF Started
  <2>3. \/ status'[t] \in {"Done", "Undone"}
        \/ status'[t] = status[t] /\ status[t] \notin {"Doing", "Abort", "Undoing"}
    BY <1>3, <2>1
  <2>4. status'[t] \in {"Do", "Undo"} => AbortedLate(t)'
    BY <1>1, <2>2, <2>3, ReturnFacts DEF Started, AbortedLate
  <2>5. QED
    BY <2>1, <2>2, <2>3, <2>4 DEF Served, Due
<1>8. ASSUME ~stopped, ~ensureSoon', NEW v \in HaltTasks(t)
      PROVE  status'[t] # "Done" /\ status[t] # "Done"
  BY <1>3, <1>7, <1>5, <1>8
<1>9. ASSUME ~stopped, ~ensureSoon', NEW v \in WaitTasks[t]
      PROVE  /\ status[v] = "Undo" /\ Ready(status'[t]) => Ready(status[t])
             /\ status[t] # "Undone"
  <2>1. status[t] # "Undone" /\ status'[t] # "Undone"
    BY <1>3, <1>7, <1>6, <1>9
  <2>2. status[t] = "Doing" => status[v] = "Done"
    BY <1>1, ReturnFacts, NobodyUndoes
  <2>3. QED
    BY <1>3, <1>7, <1>9, <2>1, <2>2
<1>10. QED
  BY <1>0, <1>1, <1>4, <1>7, <1>8, <1>9, ReturnFacts, FreeStep

LEMMA RetryWake ==
  ASSUME IInv, WakeInv, NEW t \in Tasks, NEW after \in BOOLEAN, Return(t), Retry(t, after),
         status[t] \in {"Doing", "Undoing", "Abort"}, stopped \/ t \in Retrying
  PROVE  WakeInv'
<1> USE DEF chgVars
<1>0. TypeOK
  BY DEF IInv
<1>1. UNCHANGED <<waited, lock>>
  BY DEF Retry
<1>2. CASE status[t] = "Abort"
  <2>1. /\ SetStatus(t, TryUndoStatus(t)) /\ UNCHANGED <<later, wake>>
        /\ ensureSoon' = (ensureSoon \/ someBlocked \/ t \in HasUndo \/ WaitTasks[t] # {})
    BY <1>2 DEF Retry
  <2>2. status'[t] = TryUndoStatus(t) /\ \A u \in Tasks : u # t => status'[u] = status[u]
    BY <1>0, <2>1, OneStatus
  <2>3. ASSUME ~ensureSoon'
        PROVE  ~ensureSoon /\ ~someBlocked /\ WaitTasks[t] = {} /\ status'[t] = "Hold"
    BY <2>1, <2>2, <2>3 DEF TryUndoStatus
  <2>4. ~ensureSoon' => Served(t)'
    BY <2>3 DEF Served, Due
  <2>5. QED
    BY <1>0, <1>1, <1>2, <2>1, <2>2, <2>3, <2>4, ReturnFacts, FreeStep
<1>3. CASE status[t] # "Abort"
  <2>1. /\ ensureSoon' = (ensureSoon \/ someBlocked) /\ UNCHANGED status
        /\ later' = IF after THEN later \cup {t} ELSE later
        /\ wake' = IF after THEN wake \cup {t} ELSE wake
    BY <1>3 DEF Retry
  <2>2. status[t] \in {"Doing", "Undoing"}
    BY <1>3
  <2>3. t \in later' => t \in wake'
    BY <2>1, ReturnFacts DEF Started
  <2>4. ~stopped => Served(t)'
    BY <2>1, <2>2, <2>3 DEF Served, RetriedAtOnce
  <2>5. QED
    BY <1>0, <1>1, <2>1, <2>2, <2>4, ReturnFacts, FreeStep
<1>4. QED
  BY <1>2, <1>3

LEMMA HandlerErrorWake ==
  ASSUME IInv, WakeInv, NEW t \in Tasks, HandlerError(t)
  PROVE  WakeInv'
<1>1. Return(t) /\ status[t] \in {"Doing", "Undoing", "Abort"}
  BY DEF HandlerError
<1>2. CASE stopped /\ Retry(t, FALSE)
  BY <1>1, <1>2, RetryWake
<1>3. CASE lock' = "abort" /\ UNCHANGED taskVars
  <2>1. HandlersStarted'
    BY <1>1, <1>3, ReturnFacts DEF taskVars, WakeInv, HandlersStarted, Started, AbortedLate
  <2>2. QED
    BY <1>3, <2>1, AskedStep
<1>4. QED
  BY <1>2, <1>3 DEF HandlerError

LEMMA CleanupReturnsWake ==
  ASSUME IInv, WakeInv, NEW t \in Tasks, NEW ok \in BOOLEAN, CleanupReturns(t, ok)
  PROVE  WakeInv'
<1> USE DEF taskVars, chgVars, runVars, timeVars, lockVars, boundVars
<1>0. TypeOK
  BY DEF IInv
<1>1. /\ tombs[t] = "cleanup" /\ tombs' = [tombs EXCEPT ![t] = "none"]
      /\ lock = "free" /\ UNCHANGED <<status, waited, later, lock>>
  BY DEF CleanupReturns, Holds
<1>2. AllReady(status)
  BY <1>1 DEF IInv, Inv, CleanMemory
<1>3. \A v \in Tasks : Served(v)'
  BY <1>1, <1>2 DEF Served, Due, AllReady, Ready, ReadyStatuses
<1>4. \A u \in Tasks : tombs'[u] \in {"do", "undo"} => tombs[u] \in {"do", "undo"}
  BY <1>0, <1>1 DEF TypeOK
<1>5. HandlersStarted'
  BY <1>1, <1>4 DEF WakeInv, HandlersStarted, Started, AbortedLate
<1>6. QED
  BY <1>1, <1>3, <1>5 DEF WakeInv, NoLostWakeup, PassServes

LEMMA HandlerWake == ASSUME IInv, WakeInv, HandlerStep PROVE WakeInv'
<1>1. ASSUME NEW t \in Tasks, NEW after \in BOOLEAN, HandlerRetry(t, after) PROVE WakeInv'
  BY <1>1, RetryWake DEF HandlerRetry
<1>2. QED
  BY <1>1, HandlerSetsStatusWake, HandlerSetsWaitWake, HandlerOkWake, HandlerErrorWake,
     CleanupReturnsWake DEF HandlerStep, HandlerReturns

-----------------------------------------------------------------------------
(* Aborts, time, restarts.                                                 *)

LEMMA AbortWake == ASSUME IInv, WakeInv, AbortStep PROVE WakeInv'
<1> USE DEF taskVars, chgVars, runVars, timeVars, lockVars, boundVars
<1>0. TypeOK /\ AbortInv /\ WaitedSet(status, waited)
  BY DEF IInv, Inv, MemoryInv
<1>1. ASSUME NEW work, AbortBegin(work) PROVE WakeInv'
  <2>1. lock' = "abort" /\ HandlersStarted'
    BY <1>1 DEF AbortBegin, WakeInv, HandlersStarted, Started, AbortedLate
  <2>2. QED
    BY <2>1, AskedStep
<1>2. ASSUME NEW t \in Tasks, AbortTask(t) PROVE WakeInv'
  <2>1. /\ lock = "abort" /\ SetStatus(t, AbortedStatus(t))
        /\ UNCHANGED <<waited, later, tombs, lock>>
    BY <1>2 DEF AbortTask, Holds
  <2>2. status'[t] = AbortedStatus(t) /\ \A u \in Tasks : u # t => status'[u] = status[u]
    BY <1>0, <2>1, OneStatus
  <2>3. ASSUME tombs[t] \in {"do", "undo"}, Started(t) PROVE Started(t)'
    <3>1. AbortedStatus(t) = "Undo" /\ status[t] # "Undo" => AbortedLate(t)'
      BY <1>0, <2>1, <2>2, <2>3 DEF AbortedStatus, EffectiveStatus, Started, AbortedLate, WaitedSet
    <3>2. AbortedStatus(t) \in {status[t], "Hold", "Abort", "Undo"}
      BY DEF AbortedStatus
    <3>3. QED
      BY <2>1, <2>2, <2>3, <3>1, <3>2 DEF Started, AbortedLate
  <2>4. HandlersStarted'
    <3> SUFFICES ASSUME NEW u \in Tasks, tombs'[u] \in {"do", "undo"} PROVE Started(u)'
      BY DEF HandlersStarted
    <3>1. tombs[u] \in {"do", "undo"} /\ Started(u)
      BY <2>1 DEF WakeInv, HandlersStarted
    <3>2. CASE u = t
      BY <2>3, <3>1, <3>2
    <3>3. CASE u # t
      BY <2>1, <2>2, <3>1, <3>3 DEF Started, AbortedLate
    <3>4. QED
      BY <3>2, <3>3
  <2>5. QED
    BY <2>1, <2>4, AskedStep
<1>3. CASE AbortLanes
  <2>1. lock' = "abort" /\ HandlersStarted'
    BY <1>3 DEF AbortLanes, Holds, WakeInv, HandlersStarted, Started, AbortedLate
  <2>2. QED
    BY <2>1, AskedStep
<1>4. CASE AbortEnd
  <2>1. lock' = "free" /\ ensureSoon' /\ HandlersStarted'
    BY <1>4 DEF AbortEnd, WakeInv, HandlersStarted, Started, AbortedLate
  <2>2. QED
    BY <2>1, AskedStep
<1>5. CASE AbortEndWithError
  <2> DEFINE c == ab.cause
  <2>1. /\ lock = "abort" /\ lock' = "free" /\ c # NoTask /\ SetStatus(c, "Error")
        /\ UNCHANGED <<waited, later, tombs>>
        /\ ensureSoon' = (ensureSoon \/ ~AllReady(status))
    BY <1>5 DEF AbortEndWithError, AbortWorkDone, Holds
  <2>2. c \in Tasks /\ status[c] \in {"Doing", "Undoing", "Abort"}
    BY <1>0, <2>1 DEF TypeOK, AbortInv
  <2> HIDE DEF c
  <2>3. ensureSoon'
    BY <2>1, <2>2 DEF AllReady, Ready, ReadyStatuses
  <2>4. status'[c] = "Error" /\ \A u \in Tasks : u # c => status'[u] = status[u]
    BY <1>0, <2>1, <2>2, OneStatus
  <2>5. HandlersStarted'
    BY <2>1, <2>4 DEF WakeInv, HandlersStarted, Started, AbortedLate
  <2>6. QED
    BY <2>1, <2>3, <2>5, AskedStep
<1>6. QED
  BY <1>1, <1>2, <1>3, <1>4, <1>5 DEF AbortStep, UserAbort, PruneAbort

LEMMA SystemWake == ASSUME IInv, WakeInv, SystemStep PROVE WakeInv'
<1> USE DEF taskVars, chgVars, runVars, timeVars, lockVars, boundVars
<1>0. TypeOK
  BY DEF IInv
<1>1. ASSUME NEW t \in Tasks, TimePasses(t) PROVE WakeInv'
  <2>1. /\ lock = "free" /\ t \in later /\ later' = later \ {t} /\ wake' = wake \ {t}
        /\ ensureSoon' = (ensureSoon \/ t \in wake)
        /\ UNCHANGED <<status, waited, tombs, killed, stopped, someBlocked, lock>>
    BY <1>1 DEF TimePasses, Holds
  <2>2. ASSUME NEW v \in Tasks
        PROVE  /\ Due(v)' <=> Due(v)
               /\ AwaitsReturn(v)' <=> AwaitsReturn(v)
    BY <2>1 DEF Due, AwaitsReturn
  <2>3. ASSUME ~stopped, ~ensureSoon' PROVE Served(t)'
    <3>1. Served(t) /\ t \notin wake
      BY <2>1, <2>3 DEF WakeInv, NoLostWakeup
    <3>2. Due(t)' => AwaitsReturn(t)'
      BY <2>1, <2>2, <3>1 DEF Served
    <3>3. status[t] = "Abort" => tombs[t] # "none" /\ t \in killed
      BY <3>1 DEF Served
    <3>4. QED
      BY <2>1, <3>2, <3>3 DEF Served
  <2>4. tombs'[t] \notin {"do", "undo"}
    BY <2>1 DEF WakeInv, HandlersStarted, Started
  <2>5. QED
    BY <1>0, <2>1, <2>3, <2>4, FreeStep
<1>2. CASE Stop
  <2>1. HandlersStarted'
    BY <1>2 DEF Stop, WakeInv, HandlersStarted, Started, AbortedLate
  <2>2. QED
    BY <1>2, <2>1 DEF Stop, Holds, WakeInv, NoLostWakeup, PassServes
<1>3. ASSUME NEW rebooted \in BOOLEAN, StartUp(rebooted) PROVE WakeInv'
  <2>1. lock' = "free" /\ ensureSoon' /\ HandlersStarted'
    BY <1>3 DEF StartUp, HandlersStarted
  <2>2. QED
    BY <2>1, AskedStep
<1>4. QED
  BY <1>1, <1>2, <1>3 DEF SystemStep, Crash, Exit

LEMMA InitWake == Init => WakeInv
BY DEF Init, WakeInv, NoLostWakeup, PassServes, HandlersStarted

LEMMA NextWake == IInv /\ WakeInv /\ [Next]_vars => WakeInv'
<1>1. ASSUME IInv, WakeInv, Next PROVE WakeInv'
  BY <1>1, EnsureWake, HandlerWake, AbortWake, SystemWake DEF Next
<1>2. ASSUME WakeInv, UNCHANGED vars PROVE WakeInv'
  <2> USE DEF vars, taskVars, chgVars, runVars, timeVars, lockVars, boundVars
  <2>1. \A t \in Tasks : Served(t)' <=> Served(t)
    BY <1>2 DEF Served, Due, Blocked, AwaitsReturn, AbortedLate, RetriedAtOnce
  <2>2. HandlersStarted'
    BY <1>2 DEF WakeInv, HandlersStarted, Started, AbortedLate
  <2>3. QED
    BY <1>2, <2>1, <2>2 DEF WakeInv, NoLostWakeup, PassServes
<1>3. QED
  BY <1>1, <1>2

\* No wakeup is lost: whatever handlers, passes, aborts, retries and the clock do
\* in whatever order, work that a pass could do is never left behind without an
\* Ensure asked for, except to a retry at once and to a task aborted late.
THEOREM WakeupTheorem == Spec => []NoLostWakeup
<1>1. WakeInv => NoLostWakeup
  BY DEF WakeInv
<1>2. QED
  BY <1>1, InitWake, NextWake, Inductive, PTL DEF Spec
-----------------------------------------------------------------------------
(* A task that is still to be done waits only for tasks that may yet be    *)
(* Done, except for what an abort under way has still to visit.            *)

Supported(st, wd, owed) ==
    \A t \in Tasks : \A w \in WaitTasks[t] :
        EffectiveStatus(st, wd, t) = "Do" => Live(st, wd, w) \/ t \in owed

SupportInv == /\ Supported(status, waited, Pending)
              /\ Supported(disk.status, disk.waited, {})

LEMMA OneSupported ==
  ASSUME TypeOK, NEW owed, NEW owed2, Supported(status, waited, owed),
         NEW t \in Tasks, NEW new, SetStatus(t, new),
         \A u \in Tasks : u # t => waited'[u] = waited[u],
         EffectiveStatus(status', waited', t) = "Do" =>
             \A w \in WaitTasks[t] : Live(status, waited, w),
         Live(status, waited, t) /\ ~Live(status', waited', t) =>
             \A h \in HaltTasks(t) : h = t \/ h \in owed2 \/ ~Live(status, waited, h),
         \A u \in owed : u \in owed2 \/ u = t \/ ~Live(status, waited, u)
  PROVE  Supported(status', waited', owed2)
<1> SUFFICES ASSUME NEW u \in Tasks, NEW w \in WaitTasks[u], u \notin owed2,
                    EffectiveStatus(status', waited', u) = "Do"
             PROVE  Live(status', waited', w)
  BY DEF Supported
<1>1. w \in Tasks /\ u \in HaltTasks(w)
  BY GraphAssumption DEF HaltTasks
<1>2. Live(status', waited', u)
  BY DEF Live
<1>3. Live(status, waited, w)
  <2>1. CASE u = t
    BY <2>1
  <2>2. CASE u # t
    <3>1. EffectiveStatus(status, waited, u) = "Do" /\ Live(status, waited, u)
      BY <1>2, <2>2, OneEffective
    <3>2. u \notin owed
      BY <2>2, <3>1
    <3>3. QED
      BY <3>1, <3>2 DEF Supported
  <2>3. QED
    BY <2>1, <2>2
<1>4. CASE w = t
  <2>1. CASE u = t
    BY <1>2, <1>4, <2>1
  <2>2. CASE u # t
    BY <1>1, <1>2, <1>3, <1>4, <2>2, OneEffective
  <2>3. QED
    BY <2>1, <2>2
<1>5. CASE w # t
  BY <1>1, <1>3, <1>5, OneEffective
<1>6. QED
  BY <1>4, <1>5

LEMMA EnsureSupports ==
  ASSUME IInv, SupportInv, EnsureStep
  PROVE  Supported(status', waited', Pending')
<1> USE DEF taskVars, chgVars, runVars, timeVars, lockVars, boundVars
<1>1. lock # "abort" /\ lock' # "abort" /\ waited' = waited
  BY DEF EnsureStep, EnsureBegin, EnsureEnd, ConsiderKill, ConsiderTryUndo, ConsiderSkip,
         ConsiderClean, ConsiderCannotUndo, ConsiderLater, ConsiderBlocked, ConsiderRun,
         Considered, Holds
<1>2. TypeOK /\ Supported(status, waited, {}) /\ Pending' = {}
  BY <1>1 DEF IInv, SupportInv, Pending
<1>3. CASE status' = status
  BY <1>1, <1>2, <1>3
<1>4. ASSUME NEW t \in Tasks, NEW new \in {"Undo", "Hold", "Done", "Doing", "Undoing"},
             SetStatus(t, new),
             new \in {"Undo", "Hold", "Undoing"} => status[t] \in {"Abort", "Undo", "Undoing"}
      PROVE  Supported(status', waited', Pending')
  <2>1. status'[t] = new
    BY <1>2, <1>4, OneStatus
  <2>2. EffectiveStatus(status', waited', t) # "Do"
    BY <2>1 DEF EffectiveStatus
  <2>3. Live(status, waited, t) => Live(status', waited', t)
    BY <1>4, <2>1 DEF Live, EffectiveStatus
  <2>4. Supported(status', waited', {})
    BY <1>1, <1>2, <1>4, <2>2, <2>3, OneSupported
  <2>5. QED
    BY <1>2, <2>4
<1>5. CASE \E t \in Tasks : ConsiderTryUndo(t)
  BY <1>4, <1>5 DEF ConsiderTryUndo, TryUndo, TryUndoStatus
<1>6. CASE \E t \in Tasks : ConsiderCannotUndo(t)
  BY <1>4, <1>6 DEF ConsiderCannotUndo
<1>7. CASE \E t \in Tasks : ConsiderRun(t)
  <2>1. PICK t \in Tasks : ConsiderRun(t)
    BY <1>7
  <2>2. \/ SetStatus(t, "Doing")
        \/ SetStatus(t, "Undoing") /\ status[t] \in {"Undo", "Undoing"}
    BY <2>1 DEF ConsiderRun, Due
  <2>3. QED
    BY <1>4, <2>2
<1>8. QED
  BY <1>3, <1>5, <1>6, <1>7
     DEF EnsureStep, EnsureBegin, EnsureEnd, ConsiderKill, ConsiderSkip, ConsiderClean,
         ConsiderLater, ConsiderBlocked

\* A handler that asks to be run again after the reboot gives up nothing of what
\* its task waited for.
LEMMA HandlerSupports ==
  ASSUME IInv, SupportInv, HandlerStep
  PROVE  Supported(status', waited', Pending')
<1> USE DEF taskVars, chgVars, runVars, timeVars, lockVars, boundVars
<1>1. lock = "free"
  BY DEF HandlerStep, HandlerReturns, HandlerSetsStatus, HandlerSetsWait, HandlerOk,
         HandlerRetry, HandlerError, CleanupReturns, Return, Running, Holds
<1>2. TypeOK /\ Supported(status, waited, {}) /\ Prereq(status, waited, {})
  BY <1>1 DEF IInv, Inv, MemoryInv, SupportInv, Pending
<1>3. ASSUME lock' = "free" PROVE Pending' = {}
  BY <1>3 DEF Pending
<1>4. ASSUME NEW t \in Tasks, NEW new, SetStatus(t, new), lock' = "free",
             \A u \in Tasks : u # t => waited'[u] = waited[u],
             LET e == EffectiveStatus(status', waited', t)
             IN  \/ status[t] = "Doing" /\ e \in {"Do", "Done"}
                 \/ status[t] \in {"Undoing", "Abort"} /\ e # "Do"
      PROVE  Supported(status', waited', Pending')
  <2>1. ASSUME status[t] = "Doing", NEW w \in WaitTasks[t] PROVE Live(status, waited, w)
    <3>1. Relies(status, waited, t)
      BY <2>1 DEF Relies, EffectiveStatus
    <3>2. status[w] = "Done"
      BY <1>2, <2>1, <3>1 DEF Prereq
    <3>3. QED
      BY <3>2 DEF Live, EffectiveStatus
  <2>2. Live(status, waited, t) => Live(status', waited', t)
    BY <1>4 DEF Live, EffectiveStatus
  <2>3. EffectiveStatus(status', waited', t) = "Do" => \A w \in WaitTasks[t] : Live(status, waited, w)
    BY <1>4, <2>1
  <2>4. Supported(status', waited', {})
    BY <1>2, <1>4, <2>2, <2>3, OneSupported
  <2>5. QED
    BY <1>3, <1>4, <2>4
<1>5. ASSUME UNCHANGED <<status, waited>>, lock' = "free" PROVE Supported(status', waited', Pending')
  BY <1>2, <1>3, <1>5
<1>6. ASSUME NEW t \in Tasks, HandlerSetsStatus(t) PROVE Supported(status', waited', Pending')
  <2>1. PICK new \in {"Done", "Undone"} :
           /\ SetStatus(t, new)
           /\ \/ status[t] = "Doing" /\ new = "Done"
              \/ status[t] = "Undoing" /\ new = "Undone"
    BY <1>6 DEF HandlerSetsStatus
  <2>2. EffectiveStatus(status', waited', t) = new
    BY <1>2, <2>1, OneStatus DEF EffectiveStatus
  <2>3. waited' = waited /\ lock' = "free"
    BY <1>6 DEF HandlerSetsStatus, Running, Holds
  <2>4. QED
    BY <1>4, <2>1, <2>2, <2>3
<1>7. ASSUME NEW t \in Tasks, NEW ws \in WaitedStatuses, HandlerSetsWait(t, ws)
      PROVE  Supported(status', waited', Pending')
  <2>1. /\ SetStatus(t, "Wait") /\ waited' = [waited EXCEPT ![t] = ws] /\ lock' = "free"
        /\ \/ status[t] = "Doing" /\ ws \in {"Do", "Done"}
           \/ status[t] = "Undoing" /\ ws = "Undone"
    BY <1>7 DEF HandlerSetsWait, Running, Holds
  <2>2. waited'[t] = ws /\ \A u \in Tasks : u # t => waited'[u] = waited[u]
    BY <1>2, <2>1 DEF TypeOK
  <2>3. EffectiveStatus(status', waited', t) = ws
    BY <1>2, <2>1, <2>2, OneStatus DEF EffectiveStatus
  <2>4. QED
    BY <1>4, <2>1, <2>2, <2>3
<1>8. ASSUME NEW t \in Tasks, HandlerOk(t) PROVE Supported(status', waited', Pending')
  <2>1. waited' = waited /\ lock' = "free"
    BY <1>8 DEF HandlerOk, Return, Running, Holds
  <2>2. CASE status[t] \in {"Doing", "Abort", "Undoing"}
    <3>1. PICK new \in {"Done", "Undo", "Undone"} :
             /\ SetStatus(t, new)
             /\ \/ status[t] = "Doing" /\ new = "Done"
                \/ status[t] # "Doing"
      BY <1>8, <2>2 DEF HandlerOk
    <3>2. EffectiveStatus(status', waited', t) = new
      BY <1>2, <3>1, OneStatus DEF EffectiveStatus
    <3>3. QED
      BY <1>4, <2>1, <2>2, <3>1, <3>2
  <2>3. CASE status[t] \notin {"Doing", "Abort", "Undoing"}
    BY <1>5, <1>8, <2>1, <2>3 DEF HandlerOk
  <2>4. QED
    BY <2>2, <2>3
<1>9. ASSUME NEW t \in Tasks, NEW after \in BOOLEAN, Return(t), Retry(t, after)
      PROVE  Supported(status', waited', Pending')
  <2>1. waited' = waited /\ lock' = "free"
    BY <1>9 DEF Retry, Return, Running, Holds
  <2>2. CASE status[t] = "Abort"
    <3> DEFINE new == TryUndoStatus(t)
    <3>1. SetStatus(t, new) /\ new \in {"Undo", "Hold"}
      BY <1>9, <2>2 DEF Retry, TryUndoStatus
    <3> HIDE DEF new
    <3>2. EffectiveStatus(status', waited', t) = new
      BY <1>2, <3>1, OneStatus DEF EffectiveStatus
    <3>3. QED
      BY <1>4, <2>1, <2>2, <3>1, <3>2
  <2>3. CASE status[t] # "Abort"
    BY <1>5, <1>9, <2>1, <2>3 DEF Retry
  <2>4. QED
    BY <2>2, <2>3
<1>10. ASSUME NEW t \in Tasks, HandlerError(t) PROVE Supported(status', waited', Pending')
  <2>1. CASE stopped
    BY <1>9, <1>10, <2>1 DEF HandlerError
  <2>2. CASE ~stopped
    <3>1. UNCHANGED <<status, waited>>
      BY <1>10, <2>2 DEF HandlerError
    <3>2. QED
      BY <1>2, <3>1 DEF Supported
  <2>3. QED
    BY <2>1, <2>2
<1>11. ASSUME NEW t \in Tasks, NEW ok \in BOOLEAN, CleanupReturns(t, ok)
       PROVE  Supported(status', waited', Pending')
  BY <1>1, <1>5, <1>11 DEF CleanupReturns
<1>12. QED
  BY <1>6, <1>7, <1>8, <1>9, <1>10, <1>11 DEF HandlerStep, HandlerReturns, HandlerRetry

\* An abort that takes a task away from those that wait for it has them visited.
LEMMA AbortSupports ==
  ASSUME IInv, RollbackInv, SupportInv, AbortStep
  PROVE  Supported(status', waited', Pending')
<1> USE DEF taskVars, chgVars, runVars, timeVars, lockVars, boundVars
<1>0. TypeOK /\ AbortInv /\ Doomed /\ Supported(status, waited, Pending)
  BY DEF IInv, Inv, RollbackInv, SupportInv
<1>1. ASSUME UNCHANGED <<status, waited>>, Pending \subseteq Pending'
      PROVE  Supported(status', waited', Pending')
  BY <1>0, <1>1 DEF Supported
<1>2. CASE UserAbort \/ PruneAbort
  <2>1. lock = "free" /\ UNCHANGED <<status, waited>>
    BY <1>2 DEF UserAbort, PruneAbort, AbortBegin, Holds
  <2>2. QED
    BY <1>1, <2>1 DEF Pending
<1>3. ASSUME NEW t \in Tasks, AbortTask(t) PROVE Supported(status', waited', Pending')
  <2> DEFINE new == AbortedStatus(t)
             old == EffectiveStatus(status, waited, t)
  <2>1. SetStatus(t, new) /\ lock = "abort" /\ UNCHANGED <<waited, lock>>
    BY <1>3 DEF AbortTask, Holds
  <2>2. /\ ab'.batch = ab.batch \ {t} /\ ab'.seen = ab.seen \cup {t}
        /\ ab'.halted = (ab.halted \cup HaltTasks(t)) \ (ab.seen \cup {t})
    BY <1>0, <1>3 DEF AbortTask, TypeOK
  <2>3. \/ old = "Do" /\ new = "Hold"
        \/ old = "Doing" /\ new = "Abort"
        \/ old = "Done" /\ new = "Undo"
        \/ old \notin {"Do", "Doing", "Done"} /\ new = status[t]
    BY DEF AbortedStatus
  <2>4. EffectiveStatus(status', waited', t) # "Do" /\ ~Live(status', waited', t)
    BY <1>0, <2>1, <2>3, OneStatus DEF Live, EffectiveStatus
  <2>5. Pending = ab.batch \cup ab.halted /\ Pending' = ab'.batch \cup ab'.halted
    BY <2>1 DEF Pending
  <2>6. \A u \in ab.seen : ~Live(status, waited, u)
    BY <1>0, <2>1 DEF AbortInv
  <2>7. \A u \in Pending : u \in Pending' \/ u = t \/ ~Live(status, waited, u)
    BY <2>2, <2>5, <2>6
  <2>8. \A h \in HaltTasks(t) : h = t \/ h \in Pending' \/ ~Live(status, waited, h)
    BY <2>2, <2>5, <2>6
  <2> HIDE DEF new, old
  <2>9. QED
    BY <1>0, <2>1, <2>4, <2>7, <2>8, OneSupported
<1>4. CASE AbortLanes
  <2>1. Pending = {} /\ UNCHANGED <<status, waited>>
    BY <1>4 DEF AbortLanes, Pending
  <2>2. QED
    BY <1>1, <2>1
<1>5. CASE AbortEnd
  <2>1. Pending = {} /\ UNCHANGED <<status, waited>>
    BY <1>5 DEF AbortEnd, AbortWorkDone, Pending
  <2>2. QED
    BY <1>1, <2>1
<1>6. CASE AbortEndWithError
  <2> DEFINE c == ab.cause
  <2>1. /\ SetStatus(c, "Error") /\ lock = "abort" /\ lock' = "free"
        /\ ab.batch = {} /\ ab.halted = {} /\ ab.lanes = {} /\ c # NoTask /\ waited' = waited
    BY <1>6 DEF AbortEndWithError, AbortWorkDone, Holds
  <2>2. c \in Tasks
    BY <1>0, <2>1 DEF TypeOK
  <2> HIDE DEF c
  <2>3. ~Live(status, waited, c)
    BY <1>0, <2>1, <2>2, HasLanes DEF Doomed, c
  <2>4. Pending = {} /\ Pending' = {}
    BY <2>1 DEF Pending
  <2>5. EffectiveStatus(status', waited', c) # "Do"
    BY <1>0, <2>1, <2>2, OneStatus DEF EffectiveStatus
  <2>6. Supported(status', waited', {})
    BY <1>0, <2>1, <2>2, <2>3, <2>4, <2>5, OneSupported
  <2>7. QED
    BY <2>4, <2>6
<1>7. QED
  BY <1>2, <1>3, <1>4, <1>5, <1>6 DEF AbortStep

LEMMA SystemSupports ==
  ASSUME IInv, SupportInv, SystemStep
  PROVE  Supported(status', waited', Pending')
<1> USE DEF taskVars, chgVars, runVars, timeVars, lockVars, boundVars
<1>0. TypeOK /\ DiskInv /\ Supported(status, waited, Pending)
      /\ Supported(disk.status, disk.waited, {})
  BY DEF IInv, SupportInv
<1>1. CASE (\E t \in Tasks : TimePasses(t)) \/ Stop
  <2>1. UNCHANGED <<status, waited, lock, ab>>
    BY <1>1 DEF TimePasses, Stop
  <2>2. QED
    BY <1>0, <2>1 DEF Pending
<1>2. ASSUME NEW rebooted \in BOOLEAN, StartUp(rebooted)
      PROVE  Supported(status', waited', Pending')
  <2>1. \A t \in Tasks :
           /\ EffectiveStatus(status', waited', t) = EffectiveStatus(disk.status, disk.waited, t)
           /\ Live(status', waited', t) = Live(disk.status, disk.waited, t)
    BY <1>0, <1>2, StartUpKeeps DEF Live
  <2>2. QED
    BY <1>0, <2>1, GraphAssumption DEF Supported
<1>3. QED
  BY <1>1, <1>2 DEF SystemStep, Crash, Exit

LEMMA SupportPreserved ==
  ASSUME IInv, RollbackInv, SupportInv, [Next]_vars
  PROVE  SupportInv'
<1>1. CASE Next
  <2>1. Supported(status', waited', Pending')
    BY <1>1, EnsureSupports, HandlerSupports, AbortSupports, SystemSupports DEF Next
  <2>2. \/ disk'.status = status' /\ disk'.waited = waited' /\ Pending' = {}
        \/ disk' = disk
    BY <1>1, NextDiskStep DEF DiskStep, Checkpoint, Snapshot, Pending
  <2>3. Supported(disk'.status, disk'.waited, {})
    BY <2>1, <2>2 DEF SupportInv
  <2>4. QED
    BY <2>1, <2>3 DEF SupportInv, Supported, Live, EffectiveStatus
<1>2. CASE UNCHANGED vars
  <2>1. UNCHANGED <<status, waited, lock, ab, disk>>
    BY <1>2 DEF vars, taskVars, lockVars
  <2>2. QED
    BY <2>1 DEF SupportInv, Supported, Pending, Live, EffectiveStatus
<1>3. QED
  BY <1>1, <1>2

\* What a task that is still to be done waits for has not been aborted, undone or
\* lost to an error, in memory when no abort is under way and on the disk always.
LEMMA Support == Spec => [](IInv /\ SupportInv)
<1>1. Init => RollbackInv
  BY DEF Init, RollbackInv, RolledBack, Doomed, Snapshot
<1>2. Init => SupportInv
  BY GraphAssumption DEF Init, SupportInv, Supported, Snapshot, Live, EffectiveStatus
<1>3. QED
  BY <1>1, <1>2, RollbackPreserved, SupportPreserved, Inductive, PTL DEF Spec
-----------------------------------------------------------------------------
(* The recursion of isTaskWaiting ends, whatever the graph: each level adds  *)
(* to the tasks being computed.  So the function that IsTaskWaiting chooses  *)
(* exists and satisfies its equation.                                        *)

Less == {ss \in Nat \X Nat : ss[1] < ss[2]}

LEMMA LessWellFounded == IsWellFoundedOn(Less, Nat)
  BY NatLessThanWellFounded, Zenon DEF OpToRel, Less

\* Induction in this module is by the least counterexample.
LEMMA LeastElement ==
  ASSUME NEW T, T \subseteq Nat, T # {}
  PROVE  \E m \in T : \A i \in T : m <= i
<1>1. PICK m \in T : \A i \in T : ~(<<i, m>> \in Less)
  BY LessWellFounded, WFMin
<1>2. ASSUME NEW i \in T PROVE m <= i
  <2>1. i \in Nat /\ m \in Nat
    OBVIOUS
  <2>2. <<i, m>>[1] = i /\ <<i, m>>[2] = m /\ <<i, m>> \in Nat \X Nat
    BY <2>1
  <2>3. ~(i < m)
    BY <1>1, <2>2 DEF Less
  <2>4. QED
    BY <2>1, <2>3
<1>3. QED
  BY <1>1, <1>2

\* The right side of the equation of isTaskWaiting.
WaitingBody(st, f, computing, t) ==
    LET deps == IF st[t] = "Do" THEN WaitTasks[t] ELSE HaltTasks(t)
        heldUp(d) == \/ st[d] = "Wait"
                     \/ st[d] \in {"Do", "Undo"} /\ f[computing \cup {t}][d]
    IN  /\ t \notin computing
        /\ \E d \in deps : heldUp(d)
        /\ \A d \in deps : heldUp(d) \/ Ready(st[d])

WaitingFcn(st) ==
    CHOOSE f : f = [computing \in SUBSET Tasks |-> [t \in Tasks |-> WaitingBody(st, f, computing, t)]]

WaitingFcns == [SUBSET Tasks -> [Tasks -> BOOLEAN]]

\* How much deeper the recursion can get.
Left(computing) == Cardinality(Tasks \ computing)

LEMMA LeftShrinks ==
  ASSUME NEW c \in SUBSET Tasks
  PROVE  /\ Left(c) \in Nat /\ Left(c) <= Cardinality(Tasks)
         /\ Left(c) = 0 => c = Tasks
         /\ \A t \in Tasks : t \notin c => Left(c \cup {t}) = Left(c) - 1
<1>1. IsFiniteSet(Tasks) /\ Tasks \ c \in SUBSET Tasks
  BY TasksAssumption
<1>2. IsFiniteSet(Tasks \ c) /\ Left(c) <= Cardinality(Tasks)
  BY <1>1, FS_Subset DEF Left
<1>3. Left(c) \in Nat
  BY <1>2, FS_CardinalityType DEF Left
<1>4. ASSUME Left(c) = 0 PROVE c = Tasks
  <2>1. Tasks \ c = {}
    BY <1>2, <1>4, FS_EmptySet DEF Left
  <2>2. QED
    BY <2>1
<1>5. ASSUME NEW t \in Tasks, t \notin c PROVE Left(c \cup {t}) = Left(c) - 1
  <2>1. (Tasks \ c) \ {t} = Tasks \ (c \cup {t}) /\ t \in Tasks \ c
    BY <1>5
  <2>2. Cardinality((Tasks \ c) \ {t}) = Cardinality(Tasks \ c) - 1
    BY <1>2, <2>1, FS_RemoveElement
  <2>3. QED
    BY <2>1, <2>2 DEF Left
<1>6. QED
  BY <1>2, <1>3, <1>4, <1>5

LEMMA SameBody ==
  ASSUME NEW st, NEW f, NEW g, NEW c \in SUBSET Tasks, NEW t \in Tasks,
         t \notin c => f[c \cup {t}] = g[c \cup {t}]
  PROVE  WaitingBody(st, f, c, t) = WaitingBody(st, g, c, t)
  BY DEF WaitingBody

LEMMA BodyType ==
  ASSUME NEW st, NEW f, NEW c, NEW t
  PROVE  WaitingBody(st, f, c, t) \in BOOLEAN
  BY DEF WaitingBody

\* f satisfies the equation down from the levels with at most n tasks left.
Solves(st, f, n) ==
    \A c \in SUBSET Tasks : Left(c) <= n =>
        \A t \in Tasks : f[c][t] = WaitingBody(st, f, c, t)

LEMMA SolutionsExist ==
  ASSUME NEW st, NEW n \in Nat
  PROVE  \E f \in WaitingFcns : Solves(st, f, n)
<1> DEFINE Bad == {k \in Nat : ~ \E f \in WaitingFcns : Solves(st, f, k)}
<1> SUFFICES ASSUME Bad # {} PROVE FALSE
  OBVIOUS
<1>1. PICK m \in Bad : \A k \in Bad : m <= k
  BY LeastElement
<1>2. m \in Nat /\ ~ \E f \in WaitingFcns : Solves(st, f, m)
  OBVIOUS
<1>3. CASE m = 0
  <2> DEFINE f == [c \in SUBSET Tasks |-> [t \in Tasks |-> FALSE]]
  <2>1. f \in WaitingFcns
    BY DEF WaitingFcns
  <2>2. ASSUME NEW c \in SUBSET Tasks, Left(c) <= 0, NEW t \in Tasks
        PROVE  f[c][t] = WaitingBody(st, f, c, t)
    <3>1. c = Tasks
      BY <2>2, LeftShrinks
    <3>2. ~WaitingBody(st, f, c, t)
      BY <3>1 DEF WaitingBody
    <3>3. f[c][t] = FALSE
      OBVIOUS
    <3>4. QED
      BY <3>2, <3>3, BodyType
  <2> HIDE DEF f
  <2>3. Solves(st, f, m)
    BY <1>3, <2>2 DEF Solves
  <2>4. QED
    BY <1>2, <2>1, <2>3
<1>4. CASE m # 0
  <2>1. m - 1 \in Nat /\ m - 1 \notin Bad
    BY <1>1, <1>2, <1>4
  <2>2. PICK f \in WaitingFcns : Solves(st, f, m - 1)
    BY <2>1
  <2> HIDE DEF Bad
  <2> DEFINE g == [c \in SUBSET Tasks |-> IF Left(c) = m
                                          THEN [t \in Tasks |-> WaitingBody(st, f, c, t)]
                                          ELSE f[c]]
  <2>3. g \in WaitingFcns
    BY BodyType DEF WaitingFcns
  <2>4. ASSUME NEW c \in SUBSET Tasks, NEW t \in Tasks
        PROVE  g[c][t] = IF Left(c) = m THEN WaitingBody(st, f, c, t) ELSE f[c][t]
    OBVIOUS
  <2>5. ASSUME NEW c \in SUBSET Tasks, Left(c) <= m, NEW t \in Tasks, t \notin c
        PROVE  f[c \cup {t}] = g[c \cup {t}]
    <3>1. c \cup {t} \in SUBSET Tasks /\ Left(c \cup {t}) = Left(c) - 1 /\ Left(c) \in Nat
      BY <2>5, LeftShrinks
    <3>2. Left(c \cup {t}) # m
      BY <1>2, <2>5, <3>1
    <3>3. QED
      BY <3>1, <3>2
  <2> HIDE DEF g
  <2>6. ASSUME NEW c \in SUBSET Tasks, Left(c) <= m, NEW t \in Tasks
        PROVE  g[c][t] = WaitingBody(st, g, c, t)
    <3>1. WaitingBody(st, f, c, t) = WaitingBody(st, g, c, t)
      BY <2>5, <2>6, SameBody
    <3>2. CASE Left(c) = m
      BY <2>4, <3>1, <3>2
    <3>3. CASE Left(c) # m
      <4>1. Left(c) <= m - 1
        BY <1>2, <2>6, <3>3, LeftShrinks
      <4>2. f[c][t] = WaitingBody(st, f, c, t)
        BY <2>2, <4>1 DEF Solves
      <4>3. QED
        BY <2>4, <3>1, <3>3, <4>2
    <3>4. QED
      BY <3>2, <3>3
  <2>7. Solves(st, g, m)
    BY <2>6 DEF Solves
  <2>8. QED
    BY <1>2, <2>3, <2>7
<1>5. QED
  BY <1>3, <1>4

LEMMA WaitingUnfolds ==
  ASSUME NEW st
  PROVE  \E f : /\ IsTaskWaiting(st) = f[{}]
                /\ \A c \in SUBSET Tasks : \A t \in Tasks : f[c][t] = WaitingBody(st, f, c, t)
<1>1. Cardinality(Tasks) \in Nat
  BY TasksAssumption, FS_CardinalityType
<1>2. PICK f \in WaitingFcns : Solves(st, f, Cardinality(Tasks))
  BY <1>1, SolutionsExist
<1>3. \A c \in SUBSET Tasks : \A t \in Tasks : f[c][t] = WaitingBody(st, f, c, t)
  BY <1>2, LeftShrinks DEF Solves
<1>4. f = [c \in SUBSET Tasks |-> [t \in Tasks |-> WaitingBody(st, f, c, t)]]
  BY <1>2, <1>3 DEF WaitingFcns
<1> DEFINE g == WaitingFcn(st)
<1>5. g = [c \in SUBSET Tasks |-> [t \in Tasks |-> WaitingBody(st, g, c, t)]]
  BY <1>4 DEF WaitingFcn
<1>6. IsTaskWaiting(st) = g[{}]
  BY DEF IsTaskWaiting, WaitingBody, WaitingFcn
<1> HIDE DEF g
<1>7. \A c \in SUBSET Tasks : \A t \in Tasks : g[c][t] = WaitingBody(st, g, c, t)
  BY <1>5
<1>8. QED
  BY <1>6, <1>7
-----------------------------------------------------------------------------
(* When nothing makes progress, what waits can be followed to a reboot.    *)

\* The tasks can be sorted so that each comes after those it waits for, which is
\* what CheckTaskDependencies finds out of a change.
Acyclic ==
    \E rank \in [Tasks -> 1..Cardinality(Tasks)] :
        \A t \in Tasks : \A w \in WaitTasks[t] : rank[w] < rank[t]

\* No task has a handler to run: one that is still to be done or undone waits for
\* another, and for none that goes the other way.
Stuck(st) ==
    \A t \in Tasks :
        /\ st[t] \in ReadyStatuses \cup {"Wait", "Do", "Undo"}
        /\ st[t] = "Do" => /\ \E w \in WaitTasks[t] : st[w] # "Done"
                           /\ \A w \in WaitTasks[t] : st[w] \in {"Do", "Wait", "Done"}
        /\ st[t] = "Undo" => /\ \E h \in HaltTasks(t) : ~Ready(st[h])
                             /\ \A h \in HaltTasks(t) : st[h] \in ReadyStatuses \cup {"Undo", "Wait"}

\* The recursion from a stuck task follows one direction of the graph, never meets
\* a task twice, and ends at waiting tasks.
LEMMA StuckWaits ==
  ASSUME NEW st, Stuck(st), NEW f,
         \A c \in SUBSET Tasks : \A t \in Tasks : f[c][t] = WaitingBody(st, f, c, t),
         NEW dir \in {"Do", "Undo"}, NEW rank \in [Tasks -> Nat],
         dir = "Do" => \A t \in Tasks : \A w \in WaitTasks[t] : rank[w] < rank[t],
         dir = "Undo" => \A t \in Tasks : \A h \in HaltTasks(t) : rank[h] < rank[t]
  PROVE  \A c \in SUBSET Tasks : \A t \in Tasks :
            st[t] = dir /\ (\A x \in c : rank[t] < rank[x]) => f[c][t]
<1> DEFINE Wrong(c, t) == st[t] = dir /\ (\A x \in c : rank[t] < rank[x]) /\ ~f[c][t]
           Bad == {n \in Nat : \E c \in SUBSET Tasks : \E t \in Tasks : rank[t] = n /\ Wrong(c, t)}
<1> SUFFICES ASSUME Bad # {} PROVE FALSE
  <2> SUFFICES ASSUME NEW c \in SUBSET Tasks, NEW t \in Tasks, Wrong(c, t) PROVE Bad # {}
    OBVIOUS
  <2>1. rank[t] \in Bad
    OBVIOUS
  <2>2. QED
    BY <2>1
<1>1. PICK m \in Bad : \A n \in Bad : m <= n
  BY LeastElement
<1>2. PICK c \in SUBSET Tasks, t \in Tasks : rank[t] = m /\ Wrong(c, t)
  BY <1>1
<1>3. m \in Nat /\ t \notin c /\ c \cup {t} \in SUBSET Tasks
  BY <1>2
<1> DEFINE deps == IF st[t] = "Do" THEN WaitTasks[t] ELSE HaltTasks(t)
           heldUp(d) == \/ st[d] = "Wait"
                        \/ st[d] \in {"Do", "Undo"} /\ f[c \cup {t}][d]
<1>4. ASSUME NEW d \in deps PROVE d \in Tasks /\ rank[d] < rank[t]
  BY <1>2, GraphAssumption DEF HaltTasks
<1>5. ASSUME NEW d \in deps, st[d] = dir PROVE heldUp(d)
  <2>1. d \in Tasks /\ rank[d] < m /\ rank[d] \in Nat
    BY <1>2, <1>4
  <2>2. \A x \in c \cup {t} : rank[d] < rank[x]
    <3> SUFFICES ASSUME NEW x \in c \cup {t} PROVE rank[d] < rank[x]
      OBVIOUS
    <3>1. x \in Tasks /\ (x = t \/ rank[t] < rank[x])
      BY <1>2
    <3>2. rank[x] \in Nat /\ rank[t] \in Nat
      BY <3>1
    <3>3. QED
      BY <1>2, <2>1, <3>1, <3>2
  <2>3. rank[d] \notin Bad
    BY <1>1, <1>3, <2>1
  <2>4. ~Wrong(c \cup {t}, d)
    BY <1>3, <2>1, <2>3
  <2>5. QED
    BY <1>5, <2>2, <2>4
<1>6. ASSUME NEW d \in deps PROVE heldUp(d) \/ Ready(st[d])
  <2>1. d \in Tasks
    BY <1>4
  <2>2. st[d] \in ReadyStatuses \cup {dir, "Wait"}
    BY <1>2, <2>1 DEF Stuck, ReadyStatuses
  <2>3. QED
    BY <1>5, <2>2 DEF Ready
<1>7. \E d \in deps : heldUp(d)
  <2>1. CASE dir = "Do"
    <3>1. PICK w \in WaitTasks[t] : st[w] # "Done"
      BY <1>2, <2>1 DEF Stuck
    <3>2. w \in deps /\ st[w] \in {"Do", "Wait"}
      BY <1>2, <2>1, <3>1 DEF Stuck
    <3>3. heldUp(w)
      BY <1>5, <2>1, <3>2
    <3>4. QED
      BY <3>2, <3>3
  <2>2. CASE dir = "Undo"
    <3>1. PICK h \in HaltTasks(t) : ~Ready(st[h])
      BY <1>2, <2>2 DEF Stuck
    <3>2. h \in deps
      BY <1>2, <2>2
    <3>3. heldUp(h)
      BY <1>6, <3>1, <3>2
    <3>4. QED
      BY <3>2, <3>3
  <2>3. QED
    BY <2>1, <2>2
<1>8. WaitingBody(st, f, c, t)
  BY <1>3, <1>6, <1>7 DEF WaitingBody
<1>9. QED
  BY <1>2, <1>8

LEMMA StuckIsWaiting ==
  ASSUME Acyclic, NEW st, Stuck(st)
  PROVE  IsChangeWaiting(st)
<1>1. PICK f : /\ IsTaskWaiting(st) = f[{}]
               /\ \A c \in SUBSET Tasks : \A t \in Tasks : f[c][t] = WaitingBody(st, f, c, t)
  BY WaitingUnfolds
<1> DEFINE N == Cardinality(Tasks)
<1>2. N \in Nat
  BY TasksAssumption, FS_CardinalityType
<1> HIDE DEF N
<1>3. PICK rank \in [Tasks -> 1..N] :
         \A t \in Tasks : \A w \in WaitTasks[t] : rank[w] < rank[t]
  BY DEF Acyclic, N
<1>4. ASSUME NEW t \in Tasks, st[t] = "Do" PROVE f[{}][t]
  <2>1. rank \in [Tasks -> Nat]
    BY <1>2, <1>3
  <2>2. \A c \in SUBSET Tasks : \A u \in Tasks :
            st[u] = "Do" /\ (\A x \in c : rank[u] < rank[x]) => f[c][u]
    BY <1>1, <1>3, <2>1, StuckWaits
  <2>3. QED
    BY <1>4, <2>2
<1>5. ASSUME NEW t \in Tasks, st[t] = "Undo" PROVE f[{}][t]
  <2> DEFINE back == [u \in Tasks |-> N - rank[u]]
  <2>1. back \in [Tasks -> Nat]
    BY <1>2, <1>3
  <2>2. ASSUME NEW u \in Tasks, NEW h \in HaltTasks(u) PROVE back[h] < back[u]
    <3>1. h \in Tasks /\ rank[u] < rank[h]
      BY <1>3 DEF HaltTasks
    <3>2. rank[u] \in 1..N /\ rank[h] \in 1..N
      BY <1>3, <3>1
    <3>3. QED
      BY <1>2, <3>1, <3>2
  <2> HIDE DEF back
  <2>3. \A c \in SUBSET Tasks : \A u \in Tasks :
            st[u] = "Undo" /\ (\A x \in c : back[u] < back[x]) => f[c][u]
    BY <1>1, <2>1, <2>2, StuckWaits
  <2>4. QED
    BY <1>5, <2>3
<1>6. QED
  BY <1>1, <1>4, <1>5 DEF IsChangeWaiting, Stuck

\* Without a waiting task nobody can wait for one, so the change is over.
LEMMA StuckOnReboot ==
  ASSUME Acyclic, NEW st, Stuck(st), \A t \in Tasks : st[t] # "Wait"
  PROVE  AllReady(st)
<1>1. PICK rank \in [Tasks -> 1..Cardinality(Tasks)] :
         \A t \in Tasks : \A w \in WaitTasks[t] : rank[w] < rank[t]
  BY DEF Acyclic
<1>2. Cardinality(Tasks) \in Nat
  BY TasksAssumption, FS_CardinalityType
<1>3. ASSUME NEW t \in Tasks, st[t] = "Do" PROVE FALSE
  <2> DEFINE T == {rank[u] : u \in {x \in Tasks : st[x] = "Do"}}
  <2>1. rank[t] \in T /\ T \subseteq Nat
    BY <1>1, <1>2, <1>3
  <2>2. PICK m \in T : \A n \in T : m <= n
    BY <2>1, LeastElement
  <2>3. PICK u \in Tasks : st[u] = "Do" /\ rank[u] = m
    BY <2>2
  <2>4. PICK w \in WaitTasks[u] : st[w] # "Done"
    BY <2>3 DEF Stuck
  <2>5. w \in Tasks /\ st[w] = "Do"
    BY <2>3, <2>4, GraphAssumption DEF Stuck
  <2>6. rank[w] \in T /\ rank[w] < m /\ rank[w] \in Nat /\ m \in Nat
    BY <1>1, <1>2, <2>3, <2>4, <2>5
  <2>7. QED
    BY <2>2, <2>6
<1>4. ASSUME NEW t \in Tasks, st[t] = "Undo" PROVE FALSE
  <2> DEFINE back(u) == Cardinality(Tasks) - rank[u]
             T == {back(u) : u \in {x \in Tasks : st[x] = "Undo"}}
  <2>1. \A u \in Tasks : back(u) \in Nat
    BY <1>1, <1>2
  <2>2. back(t) \in T /\ T \subseteq Nat
    BY <1>4, <2>1
  <2>3. PICK m \in T : \A n \in T : m <= n
    BY <2>2, LeastElement
  <2>4. PICK u \in Tasks : st[u] = "Undo" /\ back(u) = m
    BY <2>3
  <2>5. PICK h \in HaltTasks(u) : ~Ready(st[h])
    BY <2>4 DEF Stuck
  <2>6. h \in Tasks /\ st[h] = "Undo" /\ u \in WaitTasks[h]
    BY <2>4, <2>5 DEF Stuck, Ready, HaltTasks
  <2>7. rank[u] < rank[h] /\ rank[u] \in 1..Cardinality(Tasks) /\ rank[h] \in 1..Cardinality(Tasks)
    BY <1>1, <2>6
  <2>8. back(h) < back(u) /\ back(h) \in T
    BY <1>2, <2>6, <2>7
  <2>9. QED
    BY <2>1, <2>3, <2>4, <2>6, <2>8
<1>5. QED
  BY <1>3, <1>4 DEF Stuck, AllReady, Ready

\* The order in which Status looks for a status adds no wait of its own.
LEMMA WaitStatus ==
  ASSUME NEW st \in [Tasks -> Statuses]
  PROVE  ChangeStatus(st) = "Wait" <=> (\E t \in Tasks : st[t] = "Wait") /\ IsChangeWaiting(st)
<1> DEFINE seen == {i \in DOMAIN StatusOrder : \E t \in Tasks : st[t] = StatusOrder[i]}
           first == CHOOSE i \in seen : \A j \in seen : i <= j
<1>1. CASE (\E t \in Tasks : st[t] = "Wait") /\ IsChangeWaiting(st)
  BY <1>1 DEF ChangeStatus
<1>2. ASSUME ~((\E t \in Tasks : st[t] = "Wait") /\ IsChangeWaiting(st)), ChangeStatus(st) = "Wait"
      PROVE  FALSE
  <2>1. StatusOrder[first] = "Wait"
    BY <1>2 DEF ChangeStatus
  <2>2. DOMAIN StatusOrder = 1..10
    BY DEF StatusOrder
  <2>3. seen \subseteq Nat /\ seen # {}
    <3>1. PICK t \in Tasks : TRUE
      BY TasksAssumption
    <3>2. st[t] \in Statuses
      OBVIOUS
    <3>3. \E i \in 1..10 : st[t] = StatusOrder[i]
      BY <3>2 DEF Statuses, ReadyStatuses, StatusOrder
    <3>4. QED
      BY <2>2, <3>3
  <2>4. \E i \in seen : \A j \in seen : i <= j
    BY <2>3, LeastElement
  <2>5. first \in seen /\ \A j \in seen : first <= j
    BY <2>4
  <2> HIDE DEF first
  <2>6. first = 6
    BY <2>1, <2>2, <2>5 DEF StatusOrder
  <2>7. ASSUME NEW t \in Tasks PROVE st[t] \in ReadyStatuses \cup {"Wait"}
    <3>1. \A j \in 1..5 : st[t] # StatusOrder[j]
      BY <2>2, <2>5, <2>6
    <3>2. st[t] \notin {"Abort", "Undoing", "Undo", "Doing", "Do"}
      BY <3>1 DEF StatusOrder
    <3>3. QED
      BY <3>2 DEF Statuses
  <2>8. \E t \in Tasks : st[t] = "Wait"
    BY <2>5, <2>6 DEF StatusOrder
  <2>9. QED
    BY <1>2, <2>7, <2>8 DEF IsChangeWaiting
<1>3. QED
  BY <1>1, <1>2

\* A change that reads as waiting has nothing else to do.
LEMMA WaitingIsStuck ==
  ASSUME NEW st, IsChangeWaiting(st), NEW t \in Tasks, st[t] \in {"Do", "Undo"}
  PROVE  MustWait(st, t)
<1>1. PICK f : /\ IsTaskWaiting(st) = f[{}]
               /\ \A c \in SUBSET Tasks : \A u \in Tasks : f[c][u] = WaitingBody(st, f, c, u)
  BY WaitingUnfolds
<1>2. f[{}][t]
  BY <1>1 DEF IsChangeWaiting, ReadyStatuses
<1>3. WaitingBody(st, f, {}, t)
  BY <1>1, <1>2
<1>4. PICK d \in (IF st[t] = "Do" THEN WaitTasks[t] ELSE HaltTasks(t)) : st[d] \in {"Wait", "Do", "Undo"}
  BY <1>3 DEF WaitingBody
<1>5. QED
  BY <1>4 DEF MustWait, Ready, ReadyStatuses

\* In a change without cycles the tasks never all wait for one another: while the
\* lock is free, some task makes progress, or the change is over, or it has a
\* waiting task, reads as waiting, and the reboot is asked for.
THEOREM WaitTheorem ==
  ASSUME Acyclic
  PROVE  Spec => []WaitIsDetected
<1>1. ASSUME IInv, SupportInv PROVE WaitIsDetected
  <2> SUFFICES ASSUME lock = "free"
               PROVE  AllReady(status) \/ ChangeStatus(status) = "Wait" <=> \A t \in Tasks : ~Progressing(t)
    BY DEF WaitIsDetected
  <2>1. /\ status \in [Tasks -> Statuses] /\ Supported(status, waited, {})
    BY <1>1 DEF IInv, TypeOK, SupportInv, Pending
  <2>2. ASSUME AllReady(status), NEW t \in Tasks PROVE ~Progressing(t)
    BY <2>2 DEF AllReady, Ready, ReadyStatuses, Progressing
  <2>3. ASSUME ChangeStatus(status) = "Wait", NEW t \in Tasks PROVE ~Progressing(t)
    <3>1. IsChangeWaiting(status)
      BY <2>1, <2>3, WaitStatus
    <3>2. status[t] \in {"Do", "Undo"} => MustWait(status, t)
      BY <3>1, WaitingIsStuck
    <3>3. QED
      BY <3>1, <3>2 DEF IsChangeWaiting, Progressing, ReadyStatuses
  <2>4. ASSUME \A t \in Tasks : ~Progressing(t)
        PROVE  AllReady(status) \/ ChangeStatus(status) = "Wait"
    <3>1. \A t \in Tasks : /\ status[t] \in ReadyStatuses \cup {"Wait", "Do", "Undo"}
                           /\ status[t] \in {"Do", "Undo"} => MustWait(status, t)
      BY <2>1, <2>4 DEF Progressing, Statuses
    <3>2. ASSUME NEW t \in Tasks, status[t] = "Do"
          PROVE  /\ \E w \in WaitTasks[t] : status[w] # "Done"
                 /\ \A w \in WaitTasks[t] : status[w] \in {"Do", "Wait", "Done"}
      <4>1. \E w \in WaitTasks[t] : status[w] # "Done"
        BY <3>1, <3>2 DEF MustWait
      <4>2. ASSUME NEW w \in WaitTasks[t] PROVE status[w] \in {"Do", "Wait", "Done"}
        <5>1. w \in Tasks /\ EffectiveStatus(status, waited, t) = "Do"
          BY <3>2, GraphAssumption DEF EffectiveStatus
        <5>2. Live(status, waited, w)
          BY <2>1, <5>1 DEF Supported
        <5>3. status[w] \in {"Do", "Doing", "Wait", "Done"}
          BY <5>2 DEF Live, EffectiveStatus
        <5>4. status[w] # "Doing"
          BY <3>1, <5>1 DEF ReadyStatuses
        <5>5. QED
          BY <5>3, <5>4
      <4>3. QED
        BY <4>1, <4>2
    <3>3. ASSUME NEW t \in Tasks, status[t] = "Undo"
          PROVE  /\ \E h \in HaltTasks(t) : ~Ready(status[h])
                 /\ \A h \in HaltTasks(t) : status[h] \in ReadyStatuses \cup {"Undo", "Wait"}
      <4>1. \E h \in HaltTasks(t) : ~Ready(status[h])
        BY <3>1, <3>3 DEF MustWait
      <4>2. ASSUME NEW h \in HaltTasks(t) PROVE status[h] \in ReadyStatuses \cup {"Undo", "Wait"}
        <5>1. h \in Tasks /\ t \in WaitTasks[h]
          BY DEF HaltTasks
        <5>2. ~Live(status, waited, t)
          BY <3>3 DEF Live, EffectiveStatus
        <5>3. EffectiveStatus(status, waited, h) # "Do"
          BY <2>1, <5>1, <5>2 DEF Supported
        <5>4. status[h] # "Do"
          BY <5>3 DEF EffectiveStatus
        <5>5. QED
          BY <3>1, <5>1, <5>4
      <4>3. QED
        BY <4>1, <4>2
    <3>4. Stuck(status)
      BY <3>1, <3>2, <3>3 DEF Stuck
    <3>5. CASE \E t \in Tasks : status[t] = "Wait"
      BY <2>1, <3>4, <3>5, StuckIsWaiting, WaitStatus
    <3>6. CASE \A t \in Tasks : status[t] # "Wait"
      BY <3>4, <3>6, StuckOnReboot
    <3>7. QED
      BY <3>5, <3>6
  <2>5. QED
    BY <2>2, <2>3, <2>4
<1>2. QED
  BY <1>1, Support, PTL
\* Nothing is under way and nothing is scheduled, but for the periodic Ensure.
Idle ==
    /\ lock = "free" /\ ~stopped /\ ~ensureSoon /\ wake = {}
    /\ \A t \in Tasks : tombs[t] = "none"

\* A change is never abandoned: when the runner has come to rest, the change is
\* over or reads as waiting for a restart, or it has one of the two kinds of tasks
\* that the code leaves to the periodic Ensure.
RestIsDeserved ==
    Idle => \/ AllReady(status) \/ ChangeStatus(status) = "Wait"
            \/ \E t \in Tasks : AbortedLate(t) \/ RetriedAtOnce(t)

\* Whatever the handlers do and however often snapd stops, crashes or aborts: from
\* NoLostWakeup and WaitIsDetected, for every graph of tasks without cycles.
THEOREM NobodyAbandoned ==
  ASSUME Acyclic
  PROVE  Spec => []RestIsDeserved
<1>1. ASSUME NoLostWakeup, WaitIsDetected PROVE RestIsDeserved
  <2> SUFFICES ASSUME Idle, NEW t \in Tasks, Progressing(t)
               PROVE  AbortedLate(t) \/ RetriedAtOnce(t)
    BY <1>1 DEF WaitIsDetected, RestIsDeserved, Idle
  <2>1. Served(t) /\ tombs[t] = "none" /\ wake = {}
    BY <1>1 DEF NoLostWakeup, Idle
  <2>2. Due(t)
    BY <2>1 DEF Progressing, Served, Due, MustWait
  <2>3. ~AwaitsReturn(t)
    BY DEF Idle, AwaitsReturn
  <2>4. ~Blocked(t)
    BY GraphAssumption DEF Idle, Blocked
  <2>5. QED
    BY <2>1, <2>2, <2>3, <2>4 DEF Served
<1>2. QED
  BY <1>1, WakeupTheorem, WaitTheorem, PTL
=============================================================================
