-------------------------- MODULE EnsureLoopProofs --------------------------
(* Theorems about EnsureLoop, for every interval, every set of delays and    *)
(* every lateness of the timer.                                             *)
EXTENDS EnsureLoop, TLAPS

\* A time that has passed is as good as now.
NotPast(t) == IF t < 0 THEN 0 ELSE t

\* The timer fires when ensureNext says, but for the time lost in setting it.
TimerFollowsNext == timer # Off => timer <= MaxSkew + NotPast(next)

\* ensureNext is no later than any request a running pass may have missed.
NextCoversRequests ==
    pc \in {"ensure", "select"} => \A t \in open : next <= NotPast(t)

\* A value is in the channel, or one will be.
Armed == pc \in {"begin", "ensure", "select"} => fired \/ timer # Off

LoopInv == LoopTypeOK /\ TimerFollowsNext /\ NextCoversRequests /\ Armed

LEMMA LoopInitially == LoopInit => LoopInv
<1> SUFFICES ASSUME LoopInit PROVE LoopInv
  OBVIOUS
<1>1. LoopTypeOK
  <2>1. EnsureInterval \in 0..(EnsureInterval + MaxSkew) /\ EnsureInterval \in -1..EnsureInterval
    BY LoopAssumption
  <2>2. fired \in BOOLEAN /\ pruneDue \in BOOLEAN /\ dying \in BOOLEAN
    BY Zenon DEF LoopInit
  <2>3. QED
    BY <2>1, <2>2 DEF LoopInit, LoopTypeOK
<1>2. TimerFollowsNext
  BY LoopAssumption DEF LoopInit, TimerFollowsNext, NotPast
<1>3. NextCoversRequests /\ Armed
  BY DEF LoopInit, NextCoversRequests, Armed
<1>4. QED
  BY <1>1, <1>2, <1>3 DEF LoopInv

\* Setting the timer and ensureNext together.
LEMMA ResetStep ==
  ASSUME LoopInv, NEW d \in 0..EnsureInterval, Reset(d), next' = d
  PROVE  /\ timer' \in 0..(EnsureInterval + MaxSkew) /\ timer' # Off
         /\ next' \in -1..EnsureInterval
         /\ TimerFollowsNext'
  BY LoopAssumption DEF Reset, TimerFollowsNext, NotPast

LEMMA EnsureBeforeStep ==
  ASSUME LoopInv, NEW d \in Delays, EnsureBefore(d) PROVE LoopInv'
<1>0. /\ d \in 0..EnsureInterval /\ next \in -1..EnsureInterval
      /\ open \subseteq Overdue..EnsureInterval /\ Overdue \in Int /\ Overdue < 0
  BY LoopAssumption DEF LoopInv, LoopTypeOK, Overdue
<1>1. /\ pc' = pc /\ fired' = fired /\ pruneDue' = pruneDue /\ dying' = dying
      /\ open' = open \cup {d}
  BY DEF EnsureBefore
<1>2. open' \subseteq Overdue..EnsureInterval
  BY <1>0, <1>1
<1>3. CASE d < next /\ Reset(d) /\ next' = d
  <2>1. NextCoversRequests'
    BY <1>0, <1>1, <1>3 DEF LoopInv, NextCoversRequests, NotPast
  <2>2. QED
    BY <1>0, <1>1, <1>2, <1>3, <2>1, ResetStep DEF LoopInv, LoopTypeOK, Armed, Overdue
<1>4. CASE ~(d < next) /\ next < 0 /\ Reset(0) /\ next' = 0
  <2>1. NextCoversRequests'
    BY <1>0, <1>1, <1>4 DEF LoopInv, NextCoversRequests, NotPast
  <2>2. 0 \in 0..EnsureInterval
    BY LoopAssumption
  <2>3. QED
    BY <1>1, <1>2, <1>4, <2>1, <2>2, ResetStep DEF LoopInv, LoopTypeOK, Armed, Overdue
<1>5. CASE ~(d < next) /\ UNCHANGED lockedVars
  <2>1. timer' = timer /\ next' = next
    BY <1>5 DEF lockedVars
  <2>2. NextCoversRequests'
    BY <1>0, <1>1, <1>5, <2>1 DEF LoopInv, NextCoversRequests, NotPast
  <2>3. QED
    BY <1>1, <1>2, <2>1, <2>2 DEF LoopInv, LoopTypeOK, Armed, TimerFollowsNext, Overdue, NotPast
<1>6. QED
  BY <1>3, <1>4, <1>5 DEF EnsureBefore

LEMMA LoopStepOK ==
  ASSUME LoopInv, LoopStep PROVE LoopInv'
<1>1. CASE EnsureTimerReset
  <2>1. EnsureInterval \in 0..EnsureInterval
    BY LoopAssumption
  <2>2. QED
    BY <1>1, <2>1, ResetStep
       DEF EnsureTimerReset, LoopInv, LoopTypeOK, Armed, NextCoversRequests, Overdue
<1>2. CASE Ensure
  BY <1>2 DEF Ensure, lockedVars, LoopInv, LoopTypeOK, Armed, NextCoversRequests,
              TimerFollowsNext, Overdue, NotPast
<1>3. CASE EnsureDidRun
  BY <1>3 DEF EnsureDidRun, lockedVars, LoopInv, LoopTypeOK, Armed, NextCoversRequests,
              TimerFollowsNext, Overdue, NotPast
<1>4. CASE TimerReceived \/ Prune \/ Dies
  BY <1>4 DEF TimerReceived, Prune, Dies, lockedVars, LoopInv, LoopTypeOK, Armed,
              NextCoversRequests, TimerFollowsNext, Overdue, NotPast
<1>5. QED
  BY <1>1, <1>2, <1>3, <1>4 DEF LoopStep

LEMMA TickStep ==
  ASSUME LoopInv, Tick PROVE LoopInv'
<1>0. /\ timer \in 0..(EnsureInterval + MaxSkew) \cup {Off} /\ next \in -1..EnsureInterval
      /\ open \subseteq Overdue..EnsureInterval /\ Overdue \in Int /\ Overdue < 0
      /\ EnsureInterval \in Nat /\ MaxSkew \in Nat /\ Off \notin Int
  BY LoopAssumption DEF LoopInv, LoopTypeOK, Overdue
<1>1. /\ pc' = pc /\ fired' = fired /\ pruneDue' = pruneDue /\ dying' = dying
      /\ timer # 0 /\ timer' = IF timer = Off THEN Off ELSE timer - 1
      /\ next' = IF next = -1 THEN -1 ELSE next - 1
      /\ open' = {Later(t) : t \in open}
  BY DEF Tick
<1>2. /\ timer' \in 0..(EnsureInterval + MaxSkew) \cup {Off}
      /\ (timer' = Off) = (timer = Off)
  BY <1>0, <1>1
<1>3. next' \in -1..EnsureInterval
  BY <1>0, <1>1
<1>4. open' \subseteq Overdue..EnsureInterval
  BY <1>0, <1>1 DEF Later
<1>5. TimerFollowsNext'
  BY <1>0, <1>1 DEF LoopInv, TimerFollowsNext, NotPast
<1>6. NextCoversRequests'
  <2>1. ASSUME pc \in {"ensure", "select"}, NEW t \in open PROVE next' <= NotPast(Later(t))
    BY <1>0, <1>1, <2>1 DEF LoopInv, NextCoversRequests, NotPast, Later
  <2>2. QED
    BY <1>1, <2>1 DEF NextCoversRequests, NotPast
<1>7. Armed'
  BY <1>1, <1>2 DEF LoopInv, Armed
<1>8. QED
  BY <1>1, <1>2, <1>3, <1>4, <1>5, <1>6, <1>7 DEF LoopInv, LoopTypeOK, Overdue

LEMMA LoopNextStep ==
  ASSUME LoopInv, [LoopNext]_loopVars PROVE LoopInv'
<1>1. CASE Stop \/ PruneTicks
  BY <1>1 DEF Stop, PruneTicks, lockedVars, LoopInv, LoopTypeOK, Armed,
              NextCoversRequests, TimerFollowsNext, Overdue, NotPast
<1>2. CASE TimerFires
  BY <1>2 DEF TimerFires, LoopInv, LoopTypeOK, Armed,
              NextCoversRequests, TimerFollowsNext, Overdue, NotPast
<1>3. CASE UNCHANGED loopVars
  BY <1>3 DEF loopVars, LoopInv, LoopTypeOK, Armed,
              NextCoversRequests, TimerFollowsNext, Overdue, NotPast
<1>4. QED
  BY <1>1, <1>2, <1>3, EnsureBeforeStep, LoopStepOK, TickStep DEF LoopNext

\* The inductive invariant: timer, ensureNext, the channel and the open requests
\* fit together.
THEOREM LoopInvariant == LoopSpec => []LoopInv
<1>1. LoopInv /\ [LoopNext]_loopVars => LoopInv'
  BY LoopNextStep
<1>2. QED
  BY <1>1, LoopInitially, PTL DEF LoopSpec

\* The variables keep their types: the timer is never set for longer than the
\* interval.
THEOREM LoopTypeCorrect == LoopSpec => []LoopTypeOK
<1>1. LoopInv => LoopTypeOK
  BY DEF LoopInv
<1>2. QED
  BY <1>1, LoopInvariant, PTL

\* The loop does not sleep for ever and not past a request of ensureBefore.
THEOREM LoopNeverOversleeps == LoopSpec => []NeverSleepsPastARequest
<1>1. LoopInv => NeverSleepsPastARequest
  <2> SUFFICES ASSUME LoopInv, pc \in {"ensure", "select"}, ~fired
               PROVE  timer # Off /\ \A t \in open : timer <= MaxSkew + NotPast(t)
    BY DEF NeverSleepsPastARequest, NotPast
  <2>1. timer # Off /\ timer <= MaxSkew + NotPast(next)
    BY DEF LoopInv, Armed, TimerFollowsNext
  <2>2. /\ timer \in Int /\ next \in Int /\ MaxSkew \in Int
        /\ open \subseteq Int
    BY <2>1, LoopAssumption DEF LoopInv, LoopTypeOK, Overdue
  <2>3. ASSUME NEW t \in open PROVE timer <= MaxSkew + NotPast(t)
    <3>1. next <= NotPast(t)
      BY DEF LoopInv, NextCoversRequests
    <3>2. QED
      BY <2>1, <2>2, <3>1 DEF NotPast
  <2>4. QED
    BY <2>1, <2>3
<1>2. QED
  BY <1>1, LoopInvariant, PTL
=============================================================================
