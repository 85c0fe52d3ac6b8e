----------------------------- MODULE EnsureLoop -----------------------------
(***************************************************************************)
(* The ensure loop of the overlord: overlord/overlord.go.                  *)
(*                                                                         *)
(* Any goroutine asks for a pass over the managers within some time with   *)
(* EnsureBefore; the loop runs a pass whenever its timer fires or it is    *)
(* time to prune.  Timer and ensureNext are changed under ensureLock, but  *)
(* the timer fires on its own, and the loop receives from its channel      *)
(* without the lock.                                                       *)
(*                                                                         *)
(* All times are relative to now, so that the passing of time makes them   *)
(* smaller and no clock is needed.  Those in the past are cut off where    *)
(* nothing tells them apart any more.                                      *)
(***************************************************************************)
EXTENDS Integers

CONSTANTS
    EnsureInterval,     \* ensureInterval
    Delays,             \* durations passed to EnsureBefore
    MaxSkew,            \* bound on the time between time.Now and Timer.Reset
    Off

ASSUME LoopAssumption ==
    /\ EnsureInterval \in Nat \ {0}
    /\ Delays \subseteq 0..EnsureInterval
    /\ MaxSkew \in Nat
    /\ Off \notin Int

VARIABLES
    pc,         \* where the loop is
    timer,      \* time until the timer fires, or Off
    fired,      \* a value is in the channel of the timer, whose capacity is one
    next,       \* time until ensureNext, or -1 if that has passed
    open,       \* time until requests no pass has begun after
    pruneDue,   \* a value is in the channel of the ticker
    dying       \* the tomb of the loop is dying

loopVars == <<pc, timer, fired, next, open, pruneDue, dying>>
lockedVars == <<timer, next>>

Overdue == -(MaxSkew + 1)

LoopTypeOK ==
    /\ pc \in {"top", "begin", "ensure", "select", "stopped"}
    /\ timer \in 0..(EnsureInterval + MaxSkew) \cup {Off}
    /\ next \in -1..EnsureInterval
    /\ open \subseteq Overdue..EnsureInterval
    /\ fired \in BOOLEAN /\ pruneDue \in BOOLEAN /\ dying \in BOOLEAN

\* ensureTimerSetup, and the loop may proceed.
LoopInit ==
    /\ pc = "top"
    /\ timer = EnsureInterval /\ next = EnsureInterval /\ fired = FALSE
    /\ open = {}
    /\ pruneDue = FALSE /\ dying = FALSE

\* Time passes between the reading of the clock and the Reset of the timer.  A
\* value that is in the channel stays there (Go before 1.23).
Reset(d) == \E skew \in 0..MaxSkew : timer' = d + skew

-----------------------------------------------------------------------------
(* Requests.                                                               *)

\* Mutant: always resets the timer.
EnsureBeforePostpones(d) ==
    /\ Reset(d) /\ next' = d
    /\ open' = open \cup {d}
    /\ UNCHANGED <<pc, fired, pruneDue, dying>>

\* Mutant: counts from the time the next pass was planned for.
EnsureBeforeFromNext(d) ==
    /\ IF d < next THEN Reset(next + d) /\ next' = d
       ELSE UNCHANGED lockedVars
    /\ open' = open \cup {d}
    /\ UNCHANGED <<pc, fired, pruneDue, dying>>

\* A time that passed without the timer firing, because it was reset late, makes
\* the timer fire at once.  If it has fired the pass is about to come.
EnsureBefore(d) ==
    /\ IF d < next THEN Reset(d) /\ next' = d
       ELSE IF next < 0 /\ timer # Off THEN Reset(0) /\ next' = 0
       ELSE UNCHANGED lockedVars
    /\ open' = open \cup {d}
    /\ UNCHANGED <<pc, fired, pruneDue, dying>>

-----------------------------------------------------------------------------
(* The loop.                                                               *)

\* Mutant: leaves the timer alone.
EnsureTimerResetForgets ==
    /\ pc = "top" /\ pc' = "begin"
    /\ next' = EnsureInterval
    /\ UNCHANGED <<timer, fired, open, pruneDue, dying>>

EnsureTimerReset ==
    /\ pc = "top" /\ pc' = "begin"
    /\ Reset(EnsureInterval) /\ next' = EnsureInterval
    /\ UNCHANGED <<fired, open, pruneDue, dying>>

\* StateEngine.Ensure asks every manager, whatever the others return.  A request
\* that was made before is served; one that comes while the pass is running may
\* concern a manager that was asked already.
Ensure ==
    /\ pc = "begin" /\ pc' = "ensure"
    /\ open' = {}
    /\ UNCHANGED <<lockedVars, fired, pruneDue, dying>>

EnsureDidRun ==
    /\ pc = "ensure" /\ pc' = "select"
    /\ UNCHANGED <<lockedVars, fired, open, pruneDue, dying>>

\* The select takes any of the channels that are ready.
TimerReceived ==
    /\ pc = "select" /\ fired
    /\ fired' = FALSE /\ pc' = "top"
    /\ UNCHANGED <<lockedVars, open, pruneDue, dying>>

Prune ==
    /\ pc = "select" /\ pruneDue
    /\ pruneDue' = FALSE /\ pc' = "top"
    /\ UNCHANGED <<lockedVars, fired, open, dying>>

Dies ==
    /\ pc = "select" /\ dying /\ pc' = "stopped"
    /\ UNCHANGED <<lockedVars, fired, open, pruneDue, dying>>

LoopStep == EnsureTimerReset \/ Ensure \/ EnsureDidRun \/ TimerReceived \/ Prune \/ Dies

\* Overlord.Stop
Stop ==
    /\ ~dying /\ dying' = TRUE
    /\ UNCHANGED <<pc, lockedVars, fired, open, pruneDue>>

-----------------------------------------------------------------------------
(* Time.                                                                   *)

TimerFires ==
    /\ timer = 0
    /\ timer' = Off /\ fired' = TRUE
    /\ UNCHANGED <<pc, next, open, pruneDue, dying>>

PruneTicks ==
    /\ pruneDue' = TRUE
    /\ UNCHANGED <<pc, lockedVars, fired, open, dying>>

\* Only a pass takes time, and only waiting does.
Waits == pc \in {"ensure", "stopped"} \/ (pc = "select" /\ ~fired /\ ~pruneDue /\ ~dying)

Later(t) == IF t = Overdue THEN t ELSE t - 1

Tick ==
    /\ timer # 0 /\ Waits
    /\ timer' = IF timer = Off THEN Off ELSE timer - 1
    /\ next' = IF next = -1 THEN -1 ELSE next - 1
    /\ open' = {Later(t) : t \in open}
    /\ UNCHANGED <<pc, fired, pruneDue, dying>>

LoopNext ==
    \/ \E d \in Delays : EnsureBefore(d)
    \/ LoopStep
    \/ Stop
    \/ TimerFires \/ PruneTicks \/ Tick

LoopSpec == LoopInit /\ [][LoopNext]_loopVars

\* A pass ends, the loop goes on, and time passes.  Requests that find the timer
\* late and reset it do not win the race against its expiry every time.
LoopFairSpec ==
    LoopSpec /\ WF_loopVars(LoopStep) /\ SF_loopVars(TimerFires) /\ WF_loopVars(Tick)

-----------------------------------------------------------------------------
(* Properties.                                                             *)

\* The loop never sleeps for ever, and never past a request: while a pass runs or
\* the loop sleeps, its timer has fired or is set for the time of every open
\* request at the latest, but for the time lost while it was set, whatever the
\* order of requests, resets, expiries and stale values in the channel ("timer
\* already expired, it will be reset in Loop()").
NeverSleepsPastARequest ==
    pc \in {"ensure", "select"} =>
        \/ fired
        \/ /\ timer # Off
           /\ \A t \in open : timer <= MaxSkew + (IF t < 0 THEN 0 ELSE t)

\* Every request is followed by a pass, until the loop is stopped.
Served == (open # {}) ~> (open = {} \/ pc = "stopped")
=============================================================================
