---------------------------- MODULE ConfdbProofs ----------------------------
(* Theorems about ConfdbAccess, for every set of requests and every order   *)
(* of them, of timeouts, failures, aborts and restarts.                     *)
EXTENDS ConfdbAccess, SequenceTheorems, WellFoundedInduction, TLAPS

-----------------------------------------------------------------------------
(* What maybeUnblockAccesses takes off the queue.                          *)

Queues == [pending : Seq(Accesses), scheduling : SUBSET Accesses,
           reads : SUBSET Accesses, write : Accesses \cup {NoTx}]

Less == {ss \in Nat \X Nat : ss[1] < ss[2]}

LEMMA LessWellFounded == IsWellFoundedOn(Less, Nat)
  BY NatLessThanWellFounded, Zenon DEF OpToRel, Less

LEMMA LeastElement ==
  ASSUME NEW T, T \subseteq Nat, T # {}
  PROVE  \E m \in T : \A i \in T : m <= i
<1>1. PICK m \in T : \A i \in T : ~(<<i, m>> \in Less)
  BY LessWellFounded, WFMin
<1>2. ASSUME NEW i \in T PROVE m <= i
  <2>1. i \in Nat /\ m \in Nat
    OBVIOUS
  <2>2. <<i, m>>[1] = i /\ <<i, m>>[2] = m /\ <<i, m>> \in Nat \X Nat
    BY <2>1
  <2>3. ~(i < m)
    BY <1>1, <2>2 DEF Less
  <2>4. QED
    BY <2>1, <2>3
<1>3. QED
  BY <1>1, <1>2

\* One write, or only reads, and at least one of either.
LEMMA UpToProperties ==
  ASSUME NEW s \in Seq(Accesses), s # <<>>
  PROVE  /\ UpTo(s) \in 1..Len(s)
         /\ s[1] \in Writers => UpTo(s) = 1
         /\ s[1] \notin Writers => \A i \in 1..UpTo(s) : s[i] \notin Writers
<1>0. Len(s) \in Nat /\ Len(s) >= 1
  BY EmptySeq, LenProperties
<1>1. CASE s[1] \in Writers
  BY <1>0, <1>1 DEF UpTo
<1>2. CASE s[1] \notin Writers
  <2> DEFINE W == {i \in 1..Len(s) : s[i] \in Writers}
             Ok(n) == (\A i \in 1..n : s[i] \notin Writers) /\ (n < Len(s) => s[n + 1] \in Writers)
  <2>1. \E n \in 1..Len(s) : Ok(n)
    <3>1. CASE W = {}
      BY <1>0, <3>1
    <3>2. CASE W # {}
      <4>1. W \subseteq Nat
        BY <1>0
      <4>2. PICK m \in W : \A i \in W : m <= i
        <5> HIDE DEF W
        <5>1. QED
          BY <3>2, <4>1, LeastElement
      <4>4. m \in 2..Len(s)
        BY <1>0, <1>2, <4>2
      <4>5. Ok(m - 1)
        BY <1>0, <4>2, <4>4
      <4>6. m - 1 \in 1..Len(s)
        BY <1>0, <4>4
      <4>7. QED
        <5> HIDE DEF Ok
        <5>1. QED
          BY <4>5, <4>6
    <3>3. QED
      BY <3>1, <3>2
  <2>2. UpTo(s) = CHOOSE n \in 1..Len(s) : Ok(n)
    BY <1>2 DEF UpTo
  <2>3. UpTo(s) \in 1..Len(s) /\ Ok(UpTo(s))
    BY <2>1, <2>2
  <2>4. QED
    BY <1>2, <2>3
<1>3. QED
  BY <1>1, <1>2

-----------------------------------------------------------------------------
(* The queue.                                                              *)

Queued == {"waiting", "cancelled"}

\* Nobody is in the queue twice, nobody in the queue has a token, everyone who
\* is being scheduled has one and nobody else waits with one.
TokensOK(q, tk, p) ==
    /\ \A i, j \in 1..Len(q.pending) : q.pending[i] = q.pending[j] => i = j
    /\ \A i \in 1..Len(q.pending) : p[q.pending[i]] \in Queued /\ q.pending[i] \notin tk
    /\ \A a \in q.scheduling : p[a] \in Queued /\ a \in tk
    /\ \A a \in tk : p[a] # "idle" /\ (p[a] = "waiting" => a \in q.scheduling)

\* A write excludes everything else, also if it is only being scheduled.
ExclusionOK(q) ==
    /\ q.scheduling # {} => q.write = NoTx
    /\ \A w \in q.scheduling \cap Writers : q.scheduling = {w} /\ q.reads = {}
    /\ q.write # NoTx => q.reads = {}
    /\ q.reads \cap Writers = {} /\ q.write \in Writers \cup {NoTx}

\* Nobody is in the queue for nothing.
DrivenOK(q) == q.pending # <<>> => Busy(q)

LEMMA UnblockOK ==
  ASSUME NEW q \in Queues, tokens \subseteq Accesses, NEW p,
         TokensOK(q, tokens, p), ExclusionOK(q), MaybeUnblockAccesses(q)
  PROVE  /\ txs' \in Queues /\ tokens' \subseteq Accesses
         /\ TokensOK(txs', tokens', p) /\ ExclusionOK(txs') /\ DrivenOK(txs')
         /\ txs'.reads = q.reads /\ txs'.write = q.write
<1>1. CASE q.pending = <<>> \/ Busy(q)
  <2>1. txs' = q /\ tokens' = tokens
    BY <1>1 DEF MaybeUnblockAccesses
  <2>2. QED
    BY <1>1, <2>1 DEF DrivenOK
<1>2. CASE ~(q.pending = <<>> \/ Busy(q))
  <2> DEFINE s == q.pending
             n == UpTo(s)
             taken == {s[i] : i \in 1..n}
             rest == SubSeq(s, n + 1, Len(s))
  <2>1. s \in Seq(Accesses) /\ s # <<>> /\ Len(s) \in Nat /\ \A i \in 1..Len(s) : s[i] \in Accesses
    BY <1>2, LenProperties, ElementOfSeq DEF Queues
  <2>2. q.write = NoTx /\ q.reads = {} /\ q.scheduling = {}
    BY <1>2 DEF Busy
  <2>3. /\ n \in 1..Len(s)
        /\ s[1] \in Writers => n = 1
        /\ s[1] \notin Writers => \A i \in 1..n : s[i] \notin Writers
    BY <2>1, UpToProperties
  <2> HIDE DEF n
  <2>4. /\ rest \in Seq(Accesses)
        /\ Len(rest) = Len(s) - n
        /\ \A i \in 1..Len(rest) : rest[i] = s[n + i]
    BY <2>1, <2>3, SubSeqProperties
  <2>5. taken \subseteq Accesses /\ taken # {} /\ s[1] \in taken
    BY <2>1, <2>3
  <2>6. Unblocked(q) = taken
    BY <1>2 DEF Unblocked, n
  <2>7. txs' = [q EXCEPT !.scheduling = taken, !.pending = rest] /\ tokens' = tokens \cup taken
    BY <1>2, <2>6 DEF MaybeUnblockAccesses, n
  <2> HIDE DEF rest, taken, s
  <2>8. /\ txs'.pending = rest /\ txs'.scheduling = taken
        /\ txs'.reads = q.reads /\ txs'.write = q.write
        /\ txs' \in Queues
    BY <2>4, <2>5, <2>7 DEF Queues
  <2>9. ExclusionOK(txs')
    <3>1. ASSUME NEW w \in taken \cap Writers PROVE taken = {w}
      BY <2>3, <3>1 DEF taken
    <3>2. QED
      BY <2>2, <2>8, <3>1 DEF ExclusionOK
  <2>10. TokensOK(txs', tokens', p)
    <3>1. \A i, j \in 1..Len(s) : s[i] = s[j] => i = j
      BY DEF TokensOK, s
    <3>2. \A i \in 1..Len(s) : p[s[i]] \in Queued /\ s[i] \notin tokens
      BY DEF TokensOK, s
    <3>3. \A i \in 1..Len(rest) : n + i \in 1..Len(s) /\ rest[i] = s[n + i]
      BY <2>1, <2>3, <2>4
    <3>4. \A i, j \in 1..Len(rest) : rest[i] = rest[j] => i = j
      BY <2>1, <2>3, <2>4, <3>1, <3>3
    <3>5. \A i \in 1..Len(rest) : rest[i] \notin taken
      BY <2>1, <2>3, <2>4, <3>1, <3>3 DEF taken
    <3>6. \A i \in 1..Len(rest) : p[rest[i]] \in Queued /\ rest[i] \notin tokens'
      BY <2>7, <3>2, <3>3, <3>5
    <3>7. \A a \in taken : p[a] \in Queued /\ a \in tokens'
      BY <2>1, <2>3, <2>7, <3>2 DEF taken
    <3>8. \A a \in tokens' : p[a] # "idle" /\ (p[a] = "waiting" => a \in taken)
      BY <2>2, <2>7, <3>7 DEF TokensOK, Queued
    <3>9. QED
      BY <2>8, <3>4, <3>6, <3>7, <3>8 DEF TokensOK
  <2>11. DrivenOK(txs')
    BY <2>5, <2>8 DEF DrivenOK, Busy
  <2>12. QED
    BY <2>5, <2>7, <2>8, <2>9, <2>10, <2>11
<1>3. QED
  BY <1>1, <1>2

\* An access that times out leaves the queue.
LEMMA WithoutProperties ==
  ASSUME NEW s \in Seq(Accesses), NEW a \in Accesses,
         \A i, j \in 1..Len(s) : s[i] = s[j] => i = j
  PROVE  /\ Without(s, a) \in Seq(Accesses)
         /\ \A i \in 1..Len(Without(s, a)) :
               Without(s, a)[i] # a /\ \E k \in 1..Len(s) : Without(s, a)[i] = s[k]
         /\ \A i, j \in 1..Len(Without(s, a)) : Without(s, a)[i] = Without(s, a)[j] => i = j
<1>0. Len(s) \in Nat /\ \A i \in 1..Len(s) : s[i] \in Accesses
  BY LenProperties, ElementOfSeq
<1>1. Range(s) = {s[i] : i \in 1..Len(s)}
  BY RangeEquality
<1>2. CASE a \notin Range(s)
  BY <1>0, <1>1, <1>2 DEF Without
<1>3. CASE a \in Range(s)
  <2> DEFINE k == CHOOSE n \in 1..Len(s) : s[n] = a
             l == SubSeq(s, 1, k - 1)
             r == SubSeq(s, k + 1, Len(s))
             w == Without(s, a)
  <2>1. k \in 1..Len(s) /\ s[k] = a
    BY <1>1, <1>3
  <2>2. w = l \o r
    BY <1>3 DEF Without
  <2> HIDE DEF k
  <2>3. l \in Seq(Accesses) /\ Len(l) = k - 1 /\ \A i \in 1..(k - 1) : l[i] = s[i]
    BY <1>0, <2>1, SubSeqProperties
  <2>4. r \in Seq(Accesses) /\ Len(r) = Len(s) - k /\ \A i \in 1..(Len(s) - k) : r[i] = s[k + i]
    BY <1>0, <2>1, SubSeqProperties
  <2> HIDE DEF l, r, w
  <2>5. /\ w \in Seq(Accesses)
        /\ Len(w) = Len(s) - 1
        /\ \A i \in 1..(Len(s) - 1) : w[i] = IF i < k THEN l[i] ELSE r[i - (k - 1)]
    BY <1>0, <2>1, <2>2, <2>3, <2>4, ConcatProperties
  <2>6. \A i \in 1..(Len(s) - 1) :
          /\ i < k => w[i] = s[i]
          /\ i >= k => w[i] = s[i + 1]
    <3>1. ASSUME NEW i \in 1..(Len(s) - 1), i < k PROVE w[i] = s[i]
      BY <1>0, <2>1, <2>3, <2>5, <3>1
    <3>2. ASSUME NEW i \in 1..(Len(s) - 1), i >= k PROVE w[i] = s[i + 1]
      <4>1. i - (k - 1) \in 1..(Len(s) - k) /\ k + (i - (k - 1)) = i + 1
        BY <1>0, <2>1, <3>2
      <4>2. w[i] = r[i - (k - 1)]
        BY <1>0, <2>1, <2>5, <3>2
      <4>3. QED
        BY <2>4, <4>1, <4>2
    <3>3. QED
      BY <3>1, <3>2
  <2>7. ASSUME NEW i \in 1..Len(w)
        PROVE  w[i] # a /\ \E n \in 1..Len(s) : w[i] = s[n]
    <3>1. i \in 1..(Len(s) - 1) /\ i \in 1..Len(s) /\ i + 1 \in 1..Len(s)
      BY <1>0, <2>1, <2>5
    <3>2. CASE i < k
      BY <2>1, <2>6, <3>1, <3>2
    <3>3. CASE i >= k
      <4>1. w[i] = s[i + 1] /\ i + 1 # k
        BY <2>1, <2>6, <3>1, <3>3
      <4>2. QED
        BY <2>1, <3>1, <4>1
    <3>4. QED
      BY <2>1, <3>1, <3>2, <3>3
  <2>8. ASSUME NEW i \in 1..Len(w), NEW j \in 1..Len(w), w[i] = w[j]
        PROVE  i = j
    <3>1. /\ i \in 1..(Len(s) - 1) /\ i \in 1..Len(s) /\ i + 1 \in 1..Len(s)
          /\ j \in 1..(Len(s) - 1) /\ j \in 1..Len(s) /\ j + 1 \in 1..Len(s)
      BY <1>0, <2>1, <2>5
    <3>2. CASE i < k /\ j < k
      BY <2>6, <2>8, <3>1, <3>2
    <3>3. CASE i < k /\ j >= k
      <4>1. s[i] = s[j + 1]
        BY <2>6, <2>8, <3>1, <3>3
      <4>2. QED
        BY <2>1, <3>1, <3>3, <4>1
    <3>4. CASE i >= k /\ j < k
      <4>1. s[i + 1] = s[j]
        BY <2>6, <2>8, <3>1, <3>4
      <4>2. QED
        BY <2>1, <3>1, <3>4, <4>1
    <3>5. CASE i >= k /\ j >= k
      <4>1. s[i + 1] = s[j + 1]
        BY <2>6, <2>8, <3>1, <3>5
      <4>2. QED
        BY <2>1, <3>1, <3>5, <4>1
    <3>6. QED
      BY <2>1, <3>1, <3>2, <3>3, <3>4, <3>5
  <2>9. QED
    BY <2>5, <2>7, <2>8 DEF w
<1>4. QED
  BY <1>2, <1>3

-----------------------------------------------------------------------------
(* The inductive invariant.                                                *)

QueueInv ==
    /\ txs \in Queues /\ tokens \subseteq Accesses
    /\ TokensOK(txs, tokens, pc) /\ ExclusionOK(txs) /\ DrivenOK(txs)

Places == {"idle", "waiting", "cancelled", "inHook", "inHookWithID", "left"}

PlacesOK == pc \in [Accesses -> Places]


\* An access that leaves, and was not in the queue any more.
LEMMA DepartOK ==
  ASSUME QueueInv, NEW a \in Accesses, NEW q, NEW p,
         q.pending = txs.pending, q.scheduling = txs.scheduling \ {a},
         \A i \in 1..Len(txs.pending) : txs.pending[i] # a,
         \A b \in Accesses \ {a} : p[b] = pc[b],
         p[a] \notin {"idle", "waiting"}
  PROVE  TokensOK(q, tokens, p)
<1>1. \A i \in 1..Len(txs.pending) : txs.pending[i] \in Accesses
  BY ElementOfSeq DEF QueueInv, Queues
<1>2. txs.scheduling \subseteq Accesses /\ tokens \subseteq Accesses
  BY DEF QueueInv, Queues
<1>3. TokensOK(txs, tokens, pc)
  BY DEF QueueInv
<1>4. QED
  BY <1>1, <1>2, <1>3 DEF TokensOK

\* A request or the owner of a token is not in the queue.
LEMMA NotPending ==
  ASSUME QueueInv, NEW a \in Accesses, pc[a] \notin Queued \/ a \in tokens
  PROVE  \A i \in 1..Len(txs.pending) : txs.pending[i] # a
  BY DEF QueueInv, TokensOK

\* The access becomes a transaction.
LEMMA WithTxOK ==
  ASSUME QueueInv, NEW a \in Accesses, ~Conflicts(a),
         a \in txs.scheduling \/ CanStart(a, txs)
  PROVE  /\ WithTx(a) \in Queues /\ ExclusionOK(WithTx(a))
         /\ Busy(WithTx(a))
         /\ WithTx(a).pending = txs.pending /\ WithTx(a).scheduling = txs.scheduling \ {a}
         /\ WithTx(a).reads = txs.reads \cup (IF a \in Writers THEN {} ELSE {a})
         /\ WithTx(a).write = IF a \in Writers THEN a ELSE txs.write
<1>1. /\ WithTx(a).pending = txs.pending /\ WithTx(a).scheduling = txs.scheduling \ {a}
      /\ WithTx(a).reads = txs.reads \cup (IF a \in Writers THEN {} ELSE {a})
      /\ WithTx(a).write = IF a \in Writers THEN a ELSE txs.write
      /\ WithTx(a) \in Queues
  BY DEF WithTx, QueueInv, Queues
<1>2. Busy(WithTx(a))
  BY <1>1, ConfdbAssumption DEF Busy
<1>3. ExclusionOK(WithTx(a))
  <2>1. ExclusionOK(txs)
    BY DEF QueueInv
  <2>2. CASE a \in Writers
    <3>1. txs.write = NoTx /\ txs.reads = {}
      BY <2>2 DEF Conflicts
    <3>2. txs.scheduling \ {a} = {}
      BY <2>1, <2>2 DEF ExclusionOK, CanStart, CanStartWriteTx
    <3>3. QED
      BY <1>1, <2>2, <3>1, <3>2 DEF ExclusionOK
  <2>3. CASE a \notin Writers
    <3>1. txs.write = NoTx
      BY DEF Conflicts
    <3>2. txs.scheduling \cap Writers = {}
      BY <2>1, <2>3 DEF ExclusionOK, CanStart, CanStartReadTx
    <3>3. QED
      BY <1>1, <2>1, <2>3, <3>1, <3>2 DEF ExclusionOK
  <2>4. QED
    BY <2>2, <2>3
<1>4. QED
  BY <1>1, <1>2, <1>3
\* An access leaves, with the cleanup that unblocks what is next.
LEMMA CleanupOK ==
  ASSUME NEW a \in Accesses, NEW q \in Queues, NEW p, tokens \subseteq Accesses,
         ExclusionOK(q), CleanupAccess(a, q),
         TokensOK([q EXCEPT !.scheduling = @ \ {a}], tokens, p)
  PROVE  /\ txs' \in Queues /\ tokens' \subseteq Accesses
         /\ TokensOK(txs', tokens', p) /\ ExclusionOK(txs') /\ DrivenOK(txs')
         /\ txs'.reads = q.reads /\ txs'.write = q.write
<1> DEFINE r == [q EXCEPT !.scheduling = @ \ {a}]
<1>1. /\ r \in Queues /\ r.reads = q.reads /\ r.write = q.write
      /\ r.scheduling = q.scheduling \ {a}
  BY DEF Queues
<1>2. ExclusionOK(r)
  BY <1>1 DEF ExclusionOK
<1>3. MaybeUnblockAccesses(r)
  BY DEF CleanupAccess
<1>4. QED
  <2> HIDE DEF r
  <2>1. TokensOK(r, tokens, p)
    BY DEF r
  <2>2. QED
    BY <1>1, <1>2, <1>3, <2>1, UnblockOK

-----------------------------------------------------------------------------
(* What a step does to the transactions that are ongoing.                  *)

Same == txs'.reads = txs.reads /\ txs'.write = txs.write

Begun(a) ==
    /\ ~Conflicts(a)
    /\ txs'.reads = txs.reads \cup (IF a \in Writers THEN {} ELSE {a})
    /\ txs'.write = IF a \in Writers THEN a ELSE txs.write

Ended(a) ==
    IF txs.write = a THEN txs'.write = NoTx /\ txs'.reads = txs.reads
    ELSE txs'.reads = txs.reads \ {a} /\ txs'.write = txs.write

LEMMA SameOngoing ==
  ASSUME Same PROVE \A b \in Accesses : Ongoing(b)' = Ongoing(b)
  BY DEF Same, Ongoing

LEMMA BegunOngoing ==
  ASSUME NEW a \in Accesses, Begun(a)
  PROVE  Ongoing(a)' /\ \A b \in Accesses \ {a} : Ongoing(b)' = Ongoing(b)
<1>1. txs.write = NoTx
  BY DEF Begun, Conflicts
<1>2. QED
  BY <1>1, ConfdbAssumption DEF Begun, Ongoing

LEMMA EndedOngoing ==
  ASSUME QueueInv, NEW a \in Accesses, Ended(a)
  PROVE  ~Ongoing(a)' /\ \A b \in Accesses \ {a} : Ongoing(b)' = Ongoing(b)
<1>1. txs.write # NoTx => txs.reads = {}
  BY DEF QueueInv, ExclusionOK
<1>2. QED
  BY <1>1, ConfdbAssumption DEF Ended, Ongoing

LEMMA UnsetOK ==
  ASSUME QueueInv, NEW a \in Accesses, UnsetOngoingTransaction(a), UNCHANGED pc
  PROVE  QueueInv' /\ Ended(a)
<1> DEFINE q == IF txs.write = a THEN [txs EXCEPT !.write = NoTx]
                ELSE [txs EXCEPT !.reads = @ \ {a}]
<1>1. /\ q \in Queues /\ q.pending = txs.pending /\ q.scheduling = txs.scheduling
      /\ IF txs.write = a THEN q.write = NoTx /\ q.reads = txs.reads
         ELSE q.reads = txs.reads \ {a} /\ q.write = txs.write
  BY DEF QueueInv, Queues
<1>2. TokensOK(q, tokens, pc)
  BY <1>1 DEF QueueInv, TokensOK
<1>3. ExclusionOK(q)
  BY <1>1 DEF QueueInv, ExclusionOK
<1>4. MaybeUnblockAccesses(q)
  BY DEF UnsetOngoingTransaction
<1>5. /\ txs' \in Queues /\ tokens' \subseteq Accesses
      /\ TokensOK(txs', tokens', pc) /\ ExclusionOK(txs') /\ DrivenOK(txs')
      /\ txs'.reads = q.reads /\ txs'.write = q.write
  <2> HIDE DEF q
  <2>1. QED
    BY <1>1, <1>2, <1>3, <1>4, UnblockOK DEF QueueInv
<1>6. QED
  BY <1>1, <1>5 DEF QueueInv, Ended

-----------------------------------------------------------------------------
(* What each step of a request does to the queue.                          *)

\* Nothing, for the steps of tasks.
LEMMA QueueSame ==
  ASSUME QueueInv, UNCHANGED <<queueVars, pc>> PROVE QueueInv' /\ Same
  BY DEF QueueInv, Same, queueVars

LEMMA MayStart ==
  ASSUME QueueInv, NEW a \in Accesses, a \in txs.scheduling \/ CanStart(a, txs)
  PROVE  ~Conflicts(a)
  BY DEF QueueInv, ExclusionOK, Conflicts, CanStart, CanStartReadTx, CanStartWriteTx

LEMMA EndsOK ==
  ASSUME QueueInv, PlacesOK, NEW a \in Accesses, NEW id \in BOOLEAN,
         IF id THEN a \in txs.scheduling ELSE pc[a] = "idle",
         Ends(a, "left", id)
  PROVE  QueueInv' /\ PlacesOK' /\ Same
<1>1. pc' = [pc EXCEPT ![a] = "left"] /\ PlacesOK'
  BY DEF Ends, PlacesOK, Places
<1>2. pc'[a] = "left" /\ \A b \in Accesses \ {a} : pc'[b] = pc[b]
  BY <1>1 DEF PlacesOK
<1>3. \A i \in 1..Len(txs.pending) : txs.pending[i] # a
  BY NotPending DEF QueueInv, TokensOK, Queued
<1> DEFINE q == [txs EXCEPT !.scheduling = @ \ {a}]
<1>4. q \in Queues /\ q.pending = txs.pending /\ q.scheduling = txs.scheduling \ {a}
  BY DEF QueueInv, Queues
<1>5. TokensOK(q, tokens, pc')
  <2> HIDE DEF q
  <2>1. QED
    BY <1>2, <1>3, <1>4, DepartOK
<1>6. CASE id
  <2>1. CleanupAccess(a, txs)
    BY <1>6 DEF Ends, Leave
  <2>2. QED
    BY <1>1, <1>5, <2>1, CleanupOK DEF QueueInv, Same
<1>7. CASE ~id
  <2>1. txs' = txs /\ tokens' = tokens
    BY <1>7 DEF Ends, Leave
  <2>2. a \notin txs.scheduling
    BY <1>7 DEF QueueInv, TokensOK, Queued
  <2>3. q.scheduling = txs.scheduling
    BY <1>4, <2>2
  <2>4. TokensOK(txs, tokens, pc')
    BY <1>4, <1>5, <2>3 DEF TokensOK
  <2>5. QED
    BY <1>1, <2>1, <2>4 DEF QueueInv, Same
<1>8. QED
  BY <1>6, <1>7

LEMMA StartsOK ==
  ASSUME QueueInv, PlacesOK, NEW a \in Accesses, NEW id \in BOOLEAN,
         IF id THEN a \in txs.scheduling ELSE pc[a] = "idle",
         ~Conflicts(a), a \in txs.scheduling \/ CanStart(a, txs),
         Starts(a, id)
  PROVE  QueueInv' /\ PlacesOK' /\ Begun(a) /\ pc'[a] \notin Queued \cup {"idle"}
<1>1. PICK to \in {"left", "inHook", "inHookWithID"} : pc' = [pc EXCEPT ![a] = to]
  BY DEF Starts
<1>2. /\ PlacesOK' /\ pc'[a] \notin Queued \cup {"idle"}
      /\ \A b \in Accesses \ {a} : pc'[b] = pc[b]
  BY <1>1 DEF PlacesOK, Places, Queued
<1>3. \A i \in 1..Len(txs.pending) : txs.pending[i] # a
  BY NotPending DEF QueueInv, TokensOK, Queued
<1>4. /\ WithTx(a) \in Queues /\ ExclusionOK(WithTx(a)) /\ Busy(WithTx(a))
      /\ WithTx(a).pending = txs.pending /\ WithTx(a).scheduling = txs.scheduling \ {a}
      /\ WithTx(a).reads = txs.reads \cup (IF a \in Writers THEN {} ELSE {a})
      /\ WithTx(a).write = IF a \in Writers THEN a ELSE txs.write
  BY WithTxOK
<1>5. TokensOK(WithTx(a), tokens, pc')
  BY <1>2, <1>3, <1>4, DepartOK DEF Queued
<1>6. CASE txs' = WithTx(a) /\ tokens' = tokens
  BY <1>2, <1>4, <1>5, <1>6 DEF QueueInv, DrivenOK, Begun
<1>7. CASE CleanupAccess(a, WithTx(a))
  <2>1. [WithTx(a) EXCEPT !.scheduling = @ \ {a}].pending = WithTx(a).pending
        /\ [WithTx(a) EXCEPT !.scheduling = @ \ {a}].scheduling = WithTx(a).scheduling
    BY <1>4 DEF Queues
  <2>2. TokensOK([WithTx(a) EXCEPT !.scheduling = @ \ {a}], tokens, pc')
    BY <1>5, <2>1 DEF TokensOK
  <2>3. /\ txs' \in Queues /\ tokens' \subseteq Accesses
        /\ TokensOK(txs', tokens', pc') /\ ExclusionOK(txs') /\ DrivenOK(txs')
        /\ txs'.reads = WithTx(a).reads /\ txs'.write = WithTx(a).write
    BY <1>4, <1>7, <2>2, CleanupOK DEF QueueInv
  <2>4. QED
    BY <1>2, <1>4, <2>3 DEF QueueInv, Begun
<1>8. QED
  BY <1>6, <1>7 DEF Starts, Leave
\* The request is queued.
LEMMA WaitsOK ==
  ASSUME QueueInv, PlacesOK, NEW a \in Accesses, pc[a] = "idle", ~CanStart(a, txs),
         txs' = [txs EXCEPT !.pending = Append(@, a)],
         pc' = [pc EXCEPT ![a] = "waiting"], tokens' = tokens
  PROVE  QueueInv' /\ PlacesOK' /\ Same
<1> DEFINE s == txs.pending
           n == Len(s)
<1>1. s \in Seq(Accesses) /\ n \in Nat /\ \A i \in 1..n : s[i] \in Accesses
  BY LenProperties, ElementOfSeq DEF QueueInv, Queues
<1>2. /\ Append(s, a) \in Seq(Accesses) /\ Append(s, a) # <<>>
      /\ Len(Append(s, a)) = n + 1
      /\ Append(s, a)[n + 1] = a
      /\ \A i \in 1..n : Append(s, a)[i] = s[i]
  BY <1>1, AppendProperties
<1>3. \A i \in 1..n : s[i] # a
  BY NotPending DEF Queued
<1>4. a \notin tokens /\ a \notin txs.scheduling
  BY DEF QueueInv, TokensOK, Queued
<1>5. PlacesOK' /\ pc'[a] = "waiting" /\ \A b \in Accesses \ {a} : pc'[b] = pc[b]
  BY DEF PlacesOK, Places
<1>6. /\ txs' \in Queues /\ txs'.pending = Append(s, a) /\ txs'.scheduling = txs.scheduling
      /\ txs'.reads = txs.reads /\ txs'.write = txs.write
  BY <1>2 DEF QueueInv, Queues
<1>7. TokensOK(txs', tokens, pc')
  <2> DEFINE t == Append(s, a)
  <2> HIDE DEF s, n, t
  <2>0. TokensOK(txs, tokens, pc) /\ txs.pending = s /\ txs'.pending = t
    BY <1>6 DEF QueueInv, s, t
  <2>1. ASSUME NEW i \in 1..(n + 1), NEW j \in 1..(n + 1), t[i] = t[j]
        PROVE  i = j
    BY <1>1, <1>2, <1>3, <2>0, <2>1 DEF TokensOK, n, t
  <2>2. \A i \in 1..n : pc[s[i]] \in Queued /\ s[i] \notin tokens
    BY <2>0 DEF TokensOK, n
  <2>3. ASSUME NEW i \in 1..(n + 1) PROVE pc'[t[i]] \in Queued /\ t[i] \notin tokens
    <3>1. CASE i = n + 1
      BY <1>2, <1>4, <1>5, <3>1 DEF Queued, t
    <3>2. CASE i \in 1..n
      <4>1. t[i] = s[i] /\ s[i] \in Accesses \ {a}
        BY <1>1, <1>2, <1>3, <3>2 DEF t
      <4>2. QED
        BY <1>5, <2>2, <3>2, <4>1
    <3>3. QED
      BY <1>1, <3>1, <3>2
  <2>4. Len(t) = n + 1
    BY <1>2 DEF t
  <2>5. \A b \in txs.scheduling : pc'[b] \in Queued /\ b \in tokens
    BY <1>4, <1>5, <2>0 DEF TokensOK, QueueInv, Queues
  <2>6. \A b \in tokens : pc'[b] # "idle" /\ (pc'[b] = "waiting" => b \in txs.scheduling)
    BY <1>4, <1>5, <2>0 DEF TokensOK, QueueInv
  <2>7. QED
    BY <1>6, <2>0, <2>1, <2>3, <2>4, <2>5, <2>6 DEF TokensOK
<1>8. ExclusionOK(txs')
  BY <1>6 DEF QueueInv, ExclusionOK
<1>9. DrivenOK(txs')
  <2>1. CASE s # <<>>
    BY <1>6, <2>1 DEF QueueInv, DrivenOK, Busy
  <2>2. CASE s = <<>>
    <3>1. Range(s) = {}
      BY <2>2 DEF Range
    <3>2. Busy(txs)
      BY <2>2, <3>1 DEF CanStart, CanStartReadTx, CanStartWriteTx, Busy
    <3>3. QED
      BY <1>6, <3>2 DEF DrivenOK, Busy
  <2>3. QED
    BY <2>1, <2>2
<1>10. QED
  BY <1>5, <1>6, <1>7, <1>8, <1>9 DEF QueueInv, Same

LEMMA CancelOK ==
  ASSUME QueueInv, PlacesOK, NEW a \in Accesses, Cancel(a)
  PROVE  QueueInv' /\ PlacesOK' /\ Same
<1>1. /\ pc[a] = "waiting" /\ pc'[a] = "cancelled" /\ PlacesOK'
      /\ \A b \in Accesses \ {a} : pc'[b] = pc[b]
  BY DEF Cancel, PlacesOK, Places
<1>2. txs' = txs /\ tokens' = tokens
  BY DEF Cancel, queueVars
<1>3. /\ \A i \in 1..Len(txs.pending) : txs.pending[i] \in Accesses
      /\ txs.scheduling \subseteq Accesses /\ tokens \subseteq Accesses
  BY ElementOfSeq DEF QueueInv, Queues
<1>4. TokensOK(txs, tokens, pc')
  BY <1>1, <1>3 DEF QueueInv, TokensOK, Queued
<1>5. QED
  BY <1>1, <1>2, <1>4 DEF QueueInv, Same

LEMMA TimedOutOK ==
  ASSUME QueueInv, PlacesOK, NEW a \in Accesses, TimedOut(a)
  PROVE  QueueInv' /\ PlacesOK' /\ Same
<1> DEFINE s == txs.pending
           w == Without(s, a)
           q == [txs EXCEPT !.pending = Without(@, a), !.scheduling = @ \ {a}]
<1>1. /\ pc'[a] = "left" /\ PlacesOK'
      /\ \A b \in Accesses \ {a} : pc'[b] = pc[b]
  BY DEF TimedOut, PlacesOK, Places
<1>2. /\ s \in Seq(Accesses) /\ \A i \in 1..Len(s) : s[i] \in Accesses
      /\ txs.scheduling \subseteq Accesses /\ tokens \subseteq Accesses
  BY ElementOfSeq DEF QueueInv, Queues
<1>3. TokensOK(txs, tokens, pc)
  BY DEF QueueInv
<1>4. /\ w \in Seq(Accesses)
      /\ \A i \in 1..Len(w) : w[i] # a /\ \E k \in 1..Len(s) : w[i] = s[k]
      /\ \A i, j \in 1..Len(w) : w[i] = w[j] => i = j
  <2>1. \A i, j \in 1..Len(s) : s[i] = s[j] => i = j
    BY <1>3 DEF TokensOK
  <2>2. QED
    <3> HIDE DEF s
    <3>1. QED
      BY <1>2, <2>1, WithoutProperties
<1>5. /\ q \in Queues /\ q.pending = w /\ q.scheduling = txs.scheduling \ {a}
      /\ q.reads = txs.reads /\ q.write = txs.write
  BY <1>4 DEF QueueInv, Queues
<1>6. TokensOK(q, tokens, pc')
  <2> HIDE DEF q, w
  <2>1. \A i \in 1..Len(w) : pc'[w[i]] \in Queued /\ w[i] \notin tokens
    BY <1>1, <1>2, <1>3, <1>4 DEF TokensOK
  <2>2. \A b \in txs.scheduling \ {a} : pc'[b] \in Queued /\ b \in tokens
    BY <1>1, <1>2, <1>3 DEF TokensOK
  <2>3. \A b \in tokens : pc'[b] # "idle" /\ (pc'[b] = "waiting" => b \in txs.scheduling \ {a})
    BY <1>1, <1>2, <1>3 DEF TokensOK
  <2>4. QED
    BY <1>4, <1>5, <2>1, <2>2, <2>3 DEF TokensOK
<1>7. ExclusionOK(q)
  BY <1>5 DEF QueueInv, ExclusionOK
<1>8. MaybeUnblockAccesses(q)
  BY DEF TimedOut
<1>9. QED
  <2> HIDE DEF q
  <2>1. QED
    BY <1>1, <1>5, <1>6, <1>7, <1>8, UnblockOK DEF QueueInv, Same

LEMMA ReturnOK ==
  ASSUME QueueInv, PlacesOK, NEW a \in Accesses, Return(a)
  PROVE  QueueInv' /\ PlacesOK' /\ Same
<1>1. /\ pc[a] \in {"inHook", "inHookWithID"} /\ pc'[a] = "left" /\ PlacesOK'
      /\ \A b \in Accesses \ {a} : pc'[b] = pc[b]
  BY DEF Return, PlacesOK, Places
<1>2. \A i \in 1..Len(txs.pending) : txs.pending[i] # a
  BY <1>1, NotPending DEF Queued
<1>3. a \notin txs.scheduling
  BY <1>1 DEF QueueInv, TokensOK, Queued
<1> DEFINE q == [txs EXCEPT !.scheduling = @ \ {a}]
<1>4. q \in Queues /\ q.pending = txs.pending /\ q.scheduling = txs.scheduling \ {a}
  BY DEF QueueInv, Queues
<1>5. TokensOK(q, tokens, pc')
  <2> HIDE DEF q
  <2>1. QED
    BY <1>1, <1>2, <1>4, DepartOK
<1>6. CASE CleanupAccess(a, txs)
  BY <1>1, <1>5, <1>6, CleanupOK DEF QueueInv, Same
<1>7. CASE txs' = txs /\ tokens' = tokens
  <2>1. q.scheduling = txs.scheduling
    BY <1>3, <1>4
  <2>2. TokensOK(txs, tokens, pc')
    BY <1>4, <1>5, <2>1 DEF TokensOK
  <2>3. QED
    BY <1>1, <1>7, <2>2 DEF QueueInv, Same
<1>8. QED
  BY <1>6, <1>7 DEF Return, Leave

LEMMA CrashOK ==
  ASSUME QueueInv, PlacesOK, Crash
  PROVE  QueueInv' /\ PlacesOK' /\ Same
<1>0. <<>> \in Seq(Accesses) /\ txs' = [txs EXCEPT !.pending = <<>>, !.scheduling = {}]
  BY EmptySeq DEF Crash
<1>1. /\ txs'.pending = <<>> /\ txs'.scheduling = {} /\ txs' \in Queues
      /\ txs'.reads = txs.reads /\ txs'.write = txs.write /\ tokens' = {}
  BY <1>0 DEF Crash, QueueInv, Queues
<1>2. PlacesOK'
  BY DEF Crash, PlacesOK, Places
<1>3. TokensOK(txs', tokens', pc') /\ DrivenOK(txs')
  BY <1>1 DEF TokensOK, DrivenOK
<1>4. ExclusionOK(txs')
  BY <1>1 DEF QueueInv, ExclusionOK
<1>5. QED
  BY <1>1, <1>2, <1>3, <1>4 DEF QueueInv, Same
-----------------------------------------------------------------------------
(* The changes.                                                            *)

\* The tasks before the one that clears the transaction.
Before == {"clear-on-error", "change-view", "load-view", "save-view", "commit"}

LEMMA TasksProperties ==
  ASSUME NEW a \in Accesses, NEW n \in 1..5, n <= Len(Tasks(a))
  PROVE  /\ Len(Tasks(a)) \in 1..5
         /\ Tasks(a)[1] \in Before
         /\ Tasks(a)[n] \in Before \cup {"clear", "load"}
         /\ Tasks(a)[n] \in Before =>
              n < Len(Tasks(a)) /\ Tasks(a)[n + 1] \in Before \cup {"clear"}
         /\ Tasks(a)[n] = "clear" /\ n < Len(Tasks(a)) => Tasks(a)[n + 1] = "load"
         /\ Tasks(a)[n] = "load" => n = Len(Tasks(a))
         /\ Tasks(a)[n] = "change-view" => n = 2 /\ Tasks(a)[3] \in Before
         /\ Tasks(a)[n] = "save-view" => n = 3
         /\ Tasks(a)[n] = "commit" => n = 4 /\ a \in Writers
         /\ n + 1 = 4 => a \in Writers \/ Tasks(a)[n] = "clear"
<1>1. CASE a \in Writers
  BY <1>1 DEF Tasks, Before
<1>2. CASE a \notin Writers /\ a \in FromSnap
  BY <1>2 DEF Tasks, Before
<1>3. CASE a \notin Writers /\ a \notin FromSnap
  BY <1>3 DEF Tasks, Before
<1>4. QED
  BY <1>1, <1>2, <1>3

Records == [at : 1..5, st : {"none", "Do", "Ran", "Rollback", "Undo", "Undone", "over"}]

\* How far a change is, and whether its transaction is still ongoing.
ChangeOK(a, c, on) ==
    /\ c.at <= Len(Tasks(a))
    /\ c.st = "none" => c.at = 1
    /\ c.st = "none" => ~on
    /\ c.st \in {"Do", "Ran", "Rollback"} /\ Tasks(a)[c.at] \in Before => on
    /\ c.st = "Ran" => Tasks(a)[c.at] \in {"commit", "clear"}
    /\ c.st = "Rollback" => Tasks(a)[c.at] = "save-view"
    /\ c.st = "Ran" /\ Tasks(a)[c.at] = "clear" => ~on
    /\ c.st = "Do" /\ Tasks(a)[c.at] = "load" => ~on
    /\ c.st = "Undone" => ~on
    /\ c.st = "over" /\ a \notin Abortable => ~on

Fresh(p) == p \in Queued \cup {"idle"}

ChangesOK ==
    /\ chg \in [Accesses -> Records]
    /\ \A a \in Accesses : ChangeOK(a, chg[a], Ongoing(a))
    /\ \A a \in Accesses : Fresh(pc[a]) => chg[a].st = "none"

DataOK ==
    /\ tx \in [Accesses -> [pristine : Bags, deltas : SUBSET Keys]]
    /\ databag \in Bags
    /\ crashes \in 0..MaxCrashes

\* What the tasks of other changes have to respect.
Reads(a, c, t, on) ==
    on /\ c.st # "over" =>
        \/ t.pristine = databag
        \/ /\ a \in Writers /\ c.at >= 4
           /\ Apply(t.pristine, t.deltas, a) = databag

ConfdbInv ==
    QueueInv /\ PlacesOK /\ ChangesOK /\ DataOK /\ Isolation

\* A step of the change of one access leaves the others alone.
LEMMA FrameChanges ==
  ASSUME ChangesOK, NEW a \in Accesses, NEW c \in Records,
         chg' = [chg EXCEPT ![a] = c],
         \A b \in Accesses \ {a} : Ongoing(b)' = Ongoing(b),
         \A b \in Accesses \ {a} : Fresh(pc'[b]) => Fresh(pc[b]),
         ChangeOK(a, c, Ongoing(a)'),
         Fresh(pc'[a]) => c.st = "none"
  PROVE  ChangesOK'
<1>1. chg' \in [Accesses -> Records] /\ chg'[a] = c /\ \A b \in Accesses \ {a} : chg'[b] = chg[b]
  BY DEF ChangesOK
<1>2. ASSUME NEW b \in Accesses PROVE ChangeOK(b, chg[b], Ongoing(b))'
  <2>1. CASE b = a
    BY <1>1, <2>1 DEF ChangeOK
  <2>2. CASE b # a
    <3>1. ChangeOK(b, chg[b], Ongoing(b))
      BY DEF ChangesOK
    <3>2. QED
      BY <1>1, <2>2, <3>1 DEF ChangeOK
  <2>3. QED
    BY <2>1, <2>2
<1>3. ASSUME NEW b \in Accesses, Fresh(pc'[b]) PROVE chg'[b].st = "none"
  BY <1>1, <1>3 DEF ChangesOK
<1>4. QED
  BY <1>1, <1>2, <1>3 DEF ChangesOK, Fresh

\* Steps that leave the data alone.
LEMMA FrameIsolation ==
  ASSUME ChangesOK, DataOK, Isolation, databag' = databag,
         NEW a \in Accesses, NEW c, NEW t,
         chg' = [chg EXCEPT ![a] = c], tx' = [tx EXCEPT ![a] = t],
         \A b \in Accesses \ {a} : Ongoing(b)' = Ongoing(b),
         Reads(a, c, t, Ongoing(a)')
  PROVE  Isolation'
<1>1. /\ chg'[a] = c /\ \A b \in Accesses \ {a} : chg'[b] = chg[b]
      /\ tx'[a] = t /\ \A b \in Accesses \ {a} : tx'[b] = tx[b]
  BY DEF ChangesOK, DataOK
<1>2. QED
  BY <1>1 DEF Isolation, Reads, At, Apply
-----------------------------------------------------------------------------
(* Steps and the store they are steps of.                                  *)

StoreStep == Store!StoreNext \/ UNCHANGED Store!storeVars

Txs == [pristine : Bags, deltas : SUBSET Keys]

LEMMA StoreSame ==
  ASSUME Same, databag' = databag PROVE StoreStep
  BY DEF Same, StoreStep, Store!storeVars

LEMMA StoreBegins ==
  ASSUME NEW a \in Accesses, Begun(a), databag' = databag PROVE StoreStep
<1>1. CASE a \in Writers
  <2>1. Store!BeginWrite(a)
    BY <1>1 DEF Begun, Conflicts, Store!BeginWrite
  <2>2. QED
    BY <2>1 DEF StoreStep, Store!StoreNext
<1>2. CASE a \notin Writers
  <2>1. Store!BeginRead(a)
    BY <1>2 DEF Begun, Conflicts, Store!BeginRead
  <2>2. QED
    BY <2>1 DEF StoreStep, Store!StoreNext
<1>3. QED
  BY <1>1, <1>2

LEMMA StoreEnds ==
  ASSUME NEW a \in Accesses, Ended(a), databag' = databag PROVE StoreStep
<1>1. CASE txs.write = a \/ a \in txs.reads
  <2>1. Store!End(a)
    BY <1>1 DEF Ended, Store!End
  <2>2. QED
    BY <2>1 DEF StoreStep, Store!StoreNext
<1>2. CASE ~(txs.write = a \/ a \in txs.reads)
  BY <1>2 DEF Ended, StoreStep, Store!storeVars
<1>3. QED
  BY <1>1, <1>2

\* The change of access a goes from its record to c and its transaction to t.
LEMMA Frame ==
  ASSUME ConfdbInv, QueueInv', PlacesOK', databag' = databag, crashes' = crashes,
         NEW a \in Accesses, NEW c \in Records, NEW t \in Txs,
         chg' = [chg EXCEPT ![a] = c], tx' = [tx EXCEPT ![a] = t],
         \A b \in Accesses \ {a} : Ongoing(b)' = Ongoing(b),
         \A b \in Accesses \ {a} : Fresh(pc'[b]) => Fresh(pc[b]),
         ChangeOK(a, c, Ongoing(a)'), Reads(a, c, t, Ongoing(a)'),
         Fresh(pc'[a]) => c.st = "none"
  PROVE  ConfdbInv'
<1>1. ChangesOK'
  BY FrameChanges DEF ConfdbInv
<1>2. Isolation'
  BY FrameIsolation DEF ConfdbInv
<1>3. DataOK'
  BY DEF ConfdbInv, DataOK, Txs
<1>4. QED
  BY <1>1, <1>2, <1>3 DEF ConfdbInv

\* A step of the goroutine of a request that leaves its change alone.
LEMMA FrameRequest ==
  ASSUME ConfdbInv, QueueInv', PlacesOK', Same, UNCHANGED <<chg, tx, databag>>,
         crashes' \in 0..MaxCrashes,
         \A b \in Accesses : Fresh(pc'[b]) => Fresh(pc[b])
  PROVE  ConfdbInv' /\ StoreStep
<1>1. \A b \in Accesses : Ongoing(b)' = Ongoing(b)
  BY SameOngoing
<1>2. ChangesOK'
  <2>1. ASSUME NEW b \in Accesses PROVE ChangeOK(b, chg[b], Ongoing(b))'
    <3>1. ChangeOK(b, chg[b], Ongoing(b)) /\ Ongoing(b)' = Ongoing(b) /\ chg' = chg
      BY <1>1 DEF ConfdbInv, ChangesOK
    <3>2. QED
      BY <3>1 DEF ChangeOK
  <2>2. QED
    BY <2>1 DEF ConfdbInv, ChangesOK, Fresh
<1>3. Isolation'
  BY <1>1 DEF ConfdbInv, Isolation, At, Apply
<1>4. DataOK'
  BY DEF ConfdbInv, DataOK
<1>5. QED
  BY <1>2, <1>3, <1>4, StoreSame DEF ConfdbInv

-----------------------------------------------------------------------------
(* Every step keeps the invariant and is a step of the store.              *)

LEMMA ScheduleStep ==
  ASSUME ConfdbInv, NEW a \in Accesses, NEW id \in BOOLEAN,
         IF id THEN a \in txs.scheduling ELSE pc[a] = "idle",
         a \in txs.scheduling \/ CanStart(a, txs),
         Schedule(a, id), UNCHANGED <<databag, crashes>>
  PROVE  ConfdbInv' /\ StoreStep
<1>0. QueueInv /\ PlacesOK /\ ~Conflicts(a)
  BY MayStart DEF ConfdbInv
<1>1. CASE Ends(a, "left", id)
  <2>1. QueueInv' /\ PlacesOK' /\ Same
    BY <1>0, <1>1, EndsOK
  <2>2. \A b \in Accesses : Fresh(pc'[b]) => Fresh(pc[b])
    BY <1>0, <1>1 DEF Ends, PlacesOK, Fresh, Queued
  <2>3. UNCHANGED <<chg, tx>> /\ crashes' \in 0..MaxCrashes
    BY <1>1 DEF Ends, ConfdbInv, DataOK
  <2>4. QED
    BY <2>1, <2>2, <2>3, FrameRequest
<1>2. CASE Starts(a, id)
  <2>1. QueueInv' /\ PlacesOK' /\ Begun(a) /\ pc'[a] \notin Queued \cup {"idle"}
    BY <1>0, <1>2, StartsOK
  <2>2. Ongoing(a)' /\ \A b \in Accesses \ {a} : Ongoing(b)' = Ongoing(b)
    BY <2>1, BegunOngoing
  <2>3. Fresh(pc[a])
    BY <1>0 DEF QueueInv, TokensOK, Fresh, Queued
  <2>4. chg[a].st = "none" /\ chg[a].at = 1 /\ chg[a] \in Records
    BY <2>3 DEF ConfdbInv, ChangesOK, ChangeOK
  <2> DEFINE c == [chg[a] EXCEPT !.st = "Do"]
  <2>5. c \in Records /\ c.st = "Do" /\ c.at = 1
    BY <2>4 DEF Records
  <2>6. chg' = [chg EXCEPT ![a] = c]
    BY <1>2 DEF Starts
  <2>7. PICK paths \in SUBSET Keys :
            tx' = [tx EXCEPT ![a] = [pristine |-> databag, deltas |-> paths]]
    BY <1>2 DEF Starts
  <2> DEFINE t == [pristine |-> databag, deltas |-> paths]
  <2>8. t \in Txs /\ t.pristine = databag
    BY DEF ConfdbInv, DataOK, Txs
  <2>9. \A b \in Accesses \ {a} : Fresh(pc'[b]) => Fresh(pc[b])
    BY <1>0, <1>2 DEF Starts, PlacesOK
  <2>10. ~Fresh(pc'[a])
    BY <2>1 DEF Fresh
  <2> HIDE DEF c, t
  <2>11. ChangeOK(a, c, Ongoing(a)')
    <3>1. 1 <= Len(Tasks(a)) /\ Tasks(a)[1] \in Before
      BY <2>4, TasksProperties DEF ConfdbInv, ChangesOK, ChangeOK
    <3>2. QED
      BY <2>2, <2>5, <3>1 DEF ChangeOK, Before
  <2>12. Reads(a, c, t, Ongoing(a)')
    BY <2>8 DEF Reads
  <2>13. ConfdbInv'
    BY <2>1, <2>2, <2>5, <2>6, <2>7, <2>8, <2>9, <2>10, <2>11, <2>12, Frame DEF t
  <2>14. QED
    BY <2>1, <2>13, StoreBegins
<1>3. QED
  BY <1>0, <1>1, <1>2 DEF Schedule
LEMMA RequestStep ==
  ASSUME ConfdbInv, NEW a \in Accesses, Request(a) PROVE ConfdbInv' /\ StoreStep
<1>1. CASE CanStart(a, txs)
  <2>1. pc[a] = "idle" /\ Schedule(a, FALSE) /\ UNCHANGED <<databag, crashes>>
    BY <1>1 DEF Request
  <2>2. QED
    BY <1>1, <2>1, ScheduleStep
<1>2. CASE ~CanStart(a, txs)
  <2>1. /\ pc[a] = "idle" /\ txs' = [txs EXCEPT !.pending = Append(@, a)]
        /\ pc' = [pc EXCEPT ![a] = "waiting"] /\ tokens' = tokens
        /\ UNCHANGED <<chg, tx, databag>> /\ crashes' = crashes
    BY <1>2 DEF Request
  <2>2. QueueInv' /\ PlacesOK' /\ Same
    BY <1>2, <2>1, WaitsOK DEF ConfdbInv
  <2>3. \A b \in Accesses : Fresh(pc'[b]) => Fresh(pc[b])
    BY <2>1 DEF ConfdbInv, PlacesOK, Fresh, Queued
  <2>4. QED
    BY <2>1, <2>2, <2>3, FrameRequest DEF ConfdbInv, DataOK
<1>3. QED
  BY <1>1, <1>2

LEMMA ProceedStep ==
  ASSUME ConfdbInv, NEW a \in Accesses, Proceed(a) PROVE ConfdbInv' /\ StoreStep
<1>1. a \in txs.scheduling
  BY DEF Proceed, ConfdbInv, QueueInv, TokensOK
<1>2. Schedule(a, TRUE) /\ UNCHANGED <<databag, crashes>>
  BY DEF Proceed
<1>3. QED
  BY <1>1, <1>2, ScheduleStep

\* Cancel, TimedOut and Return.
LEMMA LeavingStep ==
  ASSUME ConfdbInv, NEW a \in Accesses, Cancel(a) \/ TimedOut(a) \/ Return(a)
  PROVE  ConfdbInv' /\ StoreStep
<1>1. QueueInv' /\ PlacesOK' /\ Same
  BY CancelOK, TimedOutOK, ReturnOK DEF ConfdbInv
<1>2. UNCHANGED <<chg, tx, databag>> /\ crashes' \in 0..MaxCrashes
  BY DEF Cancel, TimedOut, Return, dataVars, ConfdbInv, DataOK
<1>3. \A b \in Accesses : Fresh(pc'[b]) => Fresh(pc[b])
  BY DEF Cancel, TimedOut, Return, ConfdbInv, PlacesOK, Fresh, Queued
<1>4. QED
  BY <1>1, <1>2, <1>3, FrameRequest

\* A change that has started is not that of a request in the queue.
LEMMA StartedChange ==
  ASSUME ConfdbInv, NEW a \in Accesses, chg[a].st # "none"
  PROVE  ~Fresh(pc[a])
  BY DEF ConfdbInv, ChangesOK

LEMMA ChangeFacts ==
  ASSUME ConfdbInv, NEW a \in Accesses
  PROVE  /\ chg[a] \in Records /\ tx[a] \in Txs
         /\ tx = [tx EXCEPT ![a] = tx[a]]
         /\ ChangeOK(a, chg[a], Ongoing(a))
         /\ Reads(a, chg[a], tx[a], Ongoing(a))
         /\ chg[a].at \in 1..5 /\ chg[a].at <= Len(Tasks(a))
<1>1. chg[a] \in Records /\ tx[a] \in Txs /\ tx = [tx EXCEPT ![a] = tx[a]]
  BY DEF ConfdbInv, ChangesOK, DataOK, Txs
<1>2. ChangeOK(a, chg[a], Ongoing(a))
  BY DEF ConfdbInv, ChangesOK
<1>3. Reads(a, chg[a], tx[a], Ongoing(a))
  BY DEF ConfdbInv, Isolation, Reads, At
<1>4. QED
  BY <1>1, <1>2, <1>3 DEF Records, ChangeOK

\* A step of a task that leaves the queue and the databag alone.
LEMMA FrameTask ==
  ASSUME ConfdbInv, NEW a \in Accesses, NEW c \in Records, NEW t \in Txs,
         UNCHANGED <<queueVars, pc, databag, crashes>>,
         chg[a].st # "none",
         chg' = [chg EXCEPT ![a] = c], tx' = [tx EXCEPT ![a] = t],
         ChangeOK(a, c, Ongoing(a)), Reads(a, c, t, Ongoing(a))
  PROVE  ConfdbInv' /\ StoreStep
<1>1. QueueInv' /\ PlacesOK' /\ Same
  BY QueueSame DEF ConfdbInv, PlacesOK
<1>2. \A b \in Accesses : Ongoing(b)' = Ongoing(b)
  BY <1>1, SameOngoing
<1>3. ~Fresh(pc'[a])
  BY StartedChange
<1>4. ChangeOK(a, c, Ongoing(a)') /\ Reads(a, c, t, Ongoing(a)')
  BY <1>2
<1>5. ConfdbInv'
  BY <1>1, <1>2, <1>3, <1>4, Frame
<1>6. QED
  BY <1>1, <1>5, StoreSame

\* The change is over and its transaction is not ongoing, or the change was
\* aborted.
LEMMA OverStep ==
  ASSUME ConfdbInv, NEW a \in Accesses, UNCHANGED <<queueVars, pc, crashes>>,
         chg[a].st # "none", Over(a), ~Ongoing(a) \/ a \in Abortable
  PROVE  ConfdbInv' /\ StoreStep
<1> DEFINE c == [at |-> 1, st |-> "over"]
<1>1. c \in Records /\ NoData \in Txs
  BY DEF Records, Txs, NoData, EmptyBag, Bags
<1>2. ChangeOK(a, c, Ongoing(a)) /\ Reads(a, c, NoData, Ongoing(a))
  <2>1. 1 <= Len(Tasks(a))
    BY ChangeFacts, TasksProperties
  <2>2. QED
    BY <2>1 DEF ChangeOK, Reads
<1>3. /\ chg' = [chg EXCEPT ![a] = c] /\ tx' = [tx EXCEPT ![a] = NoData]
      /\ databag' = databag
  BY DEF Over
<1>4. QED
  <2> HIDE DEF c
  <2>1. QED
    BY <1>1, <1>2, <1>3, FrameTask

\* Only the status changes.
LEMMA StatusStep ==
  ASSUME ConfdbInv, NEW a \in Accesses, NEW st,
         st \in {"Do", "Ran", "Rollback", "Undo", "Undone"},
         UNCHANGED <<queueVars, pc, dataVars, crashes>>,
         chg[a].st \notin {"none", "over"}, To(a, st),
         ChangeOK(a, [chg[a] EXCEPT !.st = st], Ongoing(a))
  PROVE  ConfdbInv' /\ StoreStep
<1> DEFINE c == [chg[a] EXCEPT !.st = st]
<1>1. c \in Records /\ c.at = chg[a].at /\ c.st = st
  BY ChangeFacts DEF Records
<1>2. Reads(a, c, tx[a], Ongoing(a))
  BY <1>1, ChangeFacts DEF Reads
<1>3. /\ chg' = [chg EXCEPT ![a] = c] /\ tx' = [tx EXCEPT ![a] = tx[a]]
      /\ databag' = databag
  BY ChangeFacts DEF To, dataVars
<1>4. QED
  <2>1. ChangeOK(a, c, Ongoing(a)) /\ tx[a] \in Txs
    BY ChangeFacts
  <2> HIDE DEF c
  <2>2. QED
    BY <1>1, <1>2, <1>3, <2>1, FrameTask

LEMMA AdvanceStep ==
  ASSUME ConfdbInv, NEW a \in Accesses, UNCHANGED <<queueVars, pc, crashes>>,
         Advance(a),
         \/ At(a, "Do") /\ Kind(a) \in {"clear-on-error", "load-view", "save-view", "load"}
         \/ At(a, "Ran")
  PROVE  ConfdbInv' /\ StoreStep
<1>0. /\ chg[a] \in Records /\ tx[a] \in Txs /\ ChangeOK(a, chg[a], Ongoing(a))
      /\ Reads(a, chg[a], tx[a], Ongoing(a)) /\ tx = [tx EXCEPT ![a] = tx[a]]
      /\ chg[a].at \in 1..5 /\ chg[a].at <= Len(Tasks(a))
  BY ChangeFacts
<1> DEFINE n == chg[a].at
<1>1. /\ Len(Tasks(a)) \in 1..5
      /\ Tasks(a)[n] \in Before \cup {"clear", "load"}
      /\ Tasks(a)[n] \in Before =>
              n < Len(Tasks(a)) /\ Tasks(a)[n + 1] \in Before \cup {"clear"}
      /\ Tasks(a)[n] = "clear" /\ n < Len(Tasks(a)) => Tasks(a)[n + 1] = "load"
      /\ Tasks(a)[n] = "load" => n = Len(Tasks(a))
  BY <1>0, TasksProperties
<1>2. chg[a].st \notin {"none", "over"}
  BY DEF At
<1>3. CASE n = Len(Tasks(a))
  <2>1. ~Ongoing(a)
    BY <1>0, <1>1, <1>3 DEF ChangeOK, At, Kind, Before
  <2>2. QED
    <3>1. Over(a)
      BY <1>3 DEF Advance
    <3>2. QED
      BY <1>2, <2>1, <3>1, OverStep
<1>4. CASE n # Len(Tasks(a))
  <2> DEFINE c == [chg[a] EXCEPT !.st = "Do", !.at = @ + 1]
  <2>1. c \in Records /\ c.at = n + 1 /\ c.st = "Do" /\ n + 1 <= Len(Tasks(a))
    <3>1. n + 1 \in 1..5 /\ n + 1 <= Len(Tasks(a))
      BY <1>0, <1>1, <1>4
    <3>2. c.at = n + 1 /\ c.st = "Do" /\ c = [at |-> n + 1, st |-> "Do"]
      <4> DEFINE r == chg[a]
                 e == [r EXCEPT !.st = "Do"]
      <4>1. e \in Records /\ e.at = n /\ e.st = "Do"
        BY <1>0 DEF Records
      <4>2. c = [e EXCEPT !.at = @ + 1]
        OBVIOUS
      <4>3. QED
        <5> HIDE DEF e, c, n
        <5>1. QED
          BY <4>1, <4>2 DEF Records
    <3>3. QED
      BY <3>1, <3>2 DEF Records
  <2>2. chg' = [chg EXCEPT ![a] = c] /\ UNCHANGED dataVars
    <3>1. n = chg[a].at /\ chg[a].at # Len(Tasks(a))
      BY <1>4
    <3>2. QED
      BY <3>1 DEF Advance
  <2>3. ChangeOK(a, c, Ongoing(a))
    <3> HIDE DEF c
    <3>1. CASE Tasks(a)[n] \in Before
      BY <1>0, <1>1, <2>1, <3>1 DEF ChangeOK, At, Kind, Before
    <3>2. CASE Tasks(a)[n] = "clear"
      BY <1>0, <1>1, <1>4, <2>1, <3>2 DEF ChangeOK, At, Kind, Before
    <3>3. QED
      BY <1>1, <1>4, <3>1, <3>2
  <2>4. Reads(a, c, tx[a], Ongoing(a))
    <3> HIDE DEF c
    <3>1. QED
      BY <1>0, <1>2, <2>1 DEF Reads
  <2>5. QED
    <3> HIDE DEF c
    <3>1. tx' = [tx EXCEPT ![a] = tx[a]] /\ databag' = databag
      BY <1>0, <2>2 DEF dataVars
    <3>2. QED
      BY <1>0, <1>2, <2>1, <2>2, <2>3, <2>4, <3>1, FrameTask
<1>5. QED
  BY <1>3, <1>4
LEMMA RunsHookStep ==
  ASSUME ConfdbInv, NEW a \in Accesses, RunsHook(a) PROVE ConfdbInv' /\ StoreStep
<1>0. /\ chg[a] \in Records /\ tx[a] \in Txs /\ ChangeOK(a, chg[a], Ongoing(a))
      /\ Reads(a, chg[a], tx[a], Ongoing(a))
      /\ chg[a].at \in 1..5 /\ chg[a].at <= Len(Tasks(a))
  BY ChangeFacts
<1>1. At(a, "Do") /\ UNCHANGED <<queueVars, pc, crashes>>
  BY DEF RunsHook
<1>2. CASE Kind(a) \in {"clear-on-error", "load-view", "save-view", "load"} /\ Advance(a)
  BY <1>1, <1>2, AdvanceStep
<1>3. CASE /\ Kind(a) = "change-view"
           /\ \E paths \in SUBSET Keys : tx' = [tx EXCEPT ![a].deltas = @ \cup paths]
           /\ chg' = [chg EXCEPT ![a].at = @ + 1]
           /\ UNCHANGED databag
  <2>1. PICK paths \in SUBSET Keys : tx' = [tx EXCEPT ![a].deltas = @ \cup paths]
    BY <1>3
  <2> DEFINE c == [chg[a] EXCEPT !.at = @ + 1]
             t == [tx[a] EXCEPT !.deltas = @ \cup paths]
  <2>2. t \in Txs /\ t.pristine = tx[a].pristine
    BY <1>0 DEF Txs
  <2>3. chg[a].at = 2 /\ Tasks(a)[3] \in Before /\ 3 <= Len(Tasks(a))
    BY <1>0, <1>3, TasksProperties DEF Kind, Before
  <2>4. c \in Records /\ c.at = 3 /\ c.st = "Do"
    BY <1>0, <1>1, <2>3 DEF Records, At
  <2>5. chg' = [chg EXCEPT ![a] = c] /\ tx' = [tx EXCEPT ![a] = t]
    BY <1>3, <2>1
  <2> HIDE DEF c, t
  <2>6. ChangeOK(a, c, Ongoing(a))
    BY <1>0, <1>1, <1>3, <2>3, <2>4 DEF ChangeOK, At, Kind, Before
  <2>7. Reads(a, c, t, Ongoing(a))
    BY <1>0, <1>1, <2>2, <2>3, <2>4 DEF Reads, At
  <2>8. chg[a].st # "none" /\ databag' = databag
    BY <1>1, <1>3 DEF At
  <2>9. QED
    BY <1>1, <2>2, <2>4, <2>5, <2>6, <2>7, <2>8, FrameTask
<1>4. QED
  BY <1>2, <1>3 DEF RunsHook

LEMMA SaveFailsStep ==
  ASSUME ConfdbInv, NEW a \in Accesses, SaveFails(a) PROVE ConfdbInv' /\ StoreStep
<1>0. chg[a] \in Records /\ ChangeOK(a, chg[a], Ongoing(a))
  BY ChangeFacts
<1> DEFINE c == [chg[a] EXCEPT !.st = "Rollback"]
           t == [pristine |-> databag, deltas |-> {}]
<1>1. c \in Records /\ c.at = chg[a].at /\ c.st = "Rollback"
  BY <1>0 DEF Records
<1>2. t \in Txs /\ t.pristine = databag
  BY DEF ConfdbInv, DataOK, Txs
<1>3. chg' = [chg EXCEPT ![a] = c] /\ tx' = [tx EXCEPT ![a] = t]
  BY DEF SaveFails, To
<1>4. UNCHANGED <<queueVars, pc, databag, crashes>> /\ chg[a].st = "Do" /\ Tasks(a)[chg[a].at] = "save-view"
  BY DEF SaveFails, At, Kind
<1> HIDE DEF c, t
<1>5. ChangeOK(a, c, Ongoing(a)) /\ Reads(a, c, t, Ongoing(a))
  BY <1>0, <1>1, <1>2, <1>4 DEF ChangeOK, Reads, Before
<1>6. QED
  BY <1>1, <1>2, <1>3, <1>4, <1>5, FrameTask

LEMMA ApplyTwice ==
  ASSUME NEW bag \in Bags, NEW paths \in SUBSET Keys, NEW a \in Writers
  PROVE  /\ Apply(bag, paths, a) \in Bags
         /\ Apply(Apply(bag, paths, a), paths, a) = Apply(bag, paths, a)
  BY DEF Apply, Bags

\* The one step that changes the databag: nobody else is ongoing.
LEMMA CommitStep ==
  ASSUME ConfdbInv, NEW a \in Accesses, At(a, "Do"), To(a, "Ran"),
         Kind(a) = "commit", DoCommitTransaction(a), UNCHANGED <<pc, crashes>>
  PROVE  ConfdbInv' /\ StoreStep
<1>0. /\ chg[a] \in Records /\ tx[a] \in Txs /\ ChangeOK(a, chg[a], Ongoing(a))
      /\ Reads(a, chg[a], tx[a], Ongoing(a))
      /\ chg[a].at \in 1..5 /\ chg[a].at <= Len(Tasks(a))
  BY ChangeFacts
<1>1. a \in Writers /\ chg[a].at = 4 /\ chg[a].st = "Do"
  BY <1>0, TasksProperties DEF Kind, At
<1>2. txs.write = a /\ txs.reads = {} /\ Ongoing(a)
  <2>1. Ongoing(a)
    BY <1>0, <1>1 DEF ChangeOK, Kind, Before
  <2>2. QED
    BY <1>1, <2>1, ConfdbAssumption DEF Ongoing, ConfdbInv, QueueInv, ExclusionOK
<1>3. \A b \in Accesses \ {a} : ~Ongoing(b)
  BY <1>2, ConfdbAssumption DEF Ongoing
<1>4. databag' = Apply(databag, tx[a].deltas, a) /\ tx' = tx /\ UNCHANGED <<queueVars, pc>>
  BY DEF DoCommitTransaction
<1>5. QueueInv' /\ PlacesOK' /\ Same
  BY <1>4, QueueSame DEF ConfdbInv, PlacesOK
<1>6. \A b \in Accesses : Ongoing(b)' = Ongoing(b)
  BY <1>5, SameOngoing
<1>7. tx[a].pristine \in Bags /\ tx[a].deltas \in SUBSET Keys /\ databag \in Bags
  BY <1>0 DEF Txs, ConfdbInv, DataOK
<1>8. databag' \in Bags /\ Apply(tx[a].pristine, tx[a].deltas, a) = databag'
  BY <1>0, <1>1, <1>2, <1>4, <1>7, ApplyTwice DEF Reads
<1> DEFINE c == [chg[a] EXCEPT !.st = "Ran"]
<1>9. c \in Records /\ c.at = chg[a].at /\ c.st = "Ran" /\ chg' = [chg EXCEPT ![a] = c]
  BY <1>0 DEF Records, To
<1> HIDE DEF c
<1>10. ChangesOK'
  <2>1. ChangeOK(a, c, Ongoing(a)')
    BY <1>0, <1>1, <1>2, <1>6, <1>9 DEF ChangeOK, Kind, Before
  <2>2. ~Fresh(pc'[a])
    BY <1>1, <1>4, StartedChange
  <2>3. QED
    BY <1>4, <1>6, <1>9, <2>1, <2>2, FrameChanges DEF ConfdbInv
<1>11. DataOK'
  BY <1>4, <1>8 DEF ConfdbInv, DataOK
<1>12. Isolation'
  <2>1. ASSUME NEW b \in Accesses, Ongoing(b)'
        PROVE  b \in Writers /\ chg'[b].at >= 4 /\ Apply(tx'[b].pristine, tx'[b].deltas, b) = databag'
    <3>1. b = a
      BY <1>3, <1>6, <2>1
    <3>2. chg'[a].at = 4
      BY <1>1, <1>9 DEF ConfdbInv, ChangesOK
    <3>3. QED
      BY <1>1, <1>4, <1>8, <3>1, <3>2
  <2>2. QED
    BY <2>1 DEF Isolation, Apply
<1>13. StoreStep
  <2>1. Store!Commit(a)
    BY <1>2, <1>4, <1>5, <1>7 DEF Store!Commit, Apply, Same
  <2>2. QED
    BY <2>1 DEF StoreStep, Store!StoreNext
<1>14. QED
  BY <1>5, <1>10, <1>11, <1>12, <1>13 DEF ConfdbInv

\* The transaction ends, by clear-confdb-tx or by the undo of the first task.
LEMMA UnsetStep ==
  ASSUME ConfdbInv, NEW a \in Accesses, NEW st, UnsetOngoingTransaction(a),
         To(a, st), UNCHANGED <<pc, dataVars, crashes>>, chg[a].st # "none",
         \/ st = "Ran" /\ Kind(a) = "clear"
         \/ st = "Undone"
  PROVE  ConfdbInv' /\ StoreStep
<1>0. /\ chg[a] \in Records /\ tx[a] \in Txs /\ ChangeOK(a, chg[a], Ongoing(a))
      /\ tx = [tx EXCEPT ![a] = tx[a]]
  BY ChangeFacts
<1>1. QueueInv' /\ Ended(a)
  BY UnsetOK DEF ConfdbInv
<1>2. ~Ongoing(a)' /\ \A b \in Accesses \ {a} : Ongoing(b)' = Ongoing(b)
  BY <1>1, EndedOngoing DEF ConfdbInv
<1> DEFINE c == [chg[a] EXCEPT !.st = st]
<1>3. c \in Records /\ c.at = chg[a].at /\ c.st = st /\ chg' = [chg EXCEPT ![a] = c]
  BY <1>0 DEF Records, To
<1>4. tx' = [tx EXCEPT ![a] = tx[a]] /\ databag' = databag
  BY <1>0 DEF dataVars
<1> HIDE DEF c
<1>5. ChangeOK(a, c, Ongoing(a)') /\ Reads(a, c, tx[a], Ongoing(a)')
  BY <1>0, <1>2, <1>3 DEF ChangeOK, Reads, Kind, Before
<1>6. PlacesOK' /\ ~Fresh(pc'[a])
  BY StartedChange DEF ConfdbInv, PlacesOK
<1>7. ConfdbInv'
  BY <1>0, <1>1, <1>2, <1>3, <1>4, <1>5, <1>6, Frame
<1>8. QED
  BY <1>1, <1>4, <1>7, StoreEnds

LEMMA HandlerStep ==
  ASSUME ConfdbInv, NEW a \in Accesses, Handler(a) PROVE ConfdbInv' /\ StoreStep
<1>1. At(a, "Do") /\ To(a, "Ran") /\ UNCHANGED <<pc, crashes>> /\ chg[a].st # "none"
  BY DEF Handler, At
<1>2. CASE Kind(a) = "commit" /\ DoCommitTransaction(a)
  BY <1>1, <1>2, CommitStep
<1>3. CASE Kind(a) = "clear" /\ UnsetOngoingTransaction(a) /\ UNCHANGED dataVars
  BY <1>1, <1>3, UnsetStep
<1>4. QED
  BY <1>2, <1>3 DEF Handler

\* Recorded, Undo and UndoRecorded.
LEMMA RecordedStep ==
  ASSUME ConfdbInv, NEW a \in Accesses, Recorded(a) \/ Undo(a) \/ UndoRecorded(a)
  PROVE  ConfdbInv' /\ StoreStep
<1>1. CASE Recorded(a)
  BY <1>1, AdvanceStep DEF Recorded
<1>2. CASE Undo(a)
  BY <1>2, UnsetStep DEF Undo, At
<1>3. CASE UndoRecorded(a)
  <2>1. chg[a].st = "Undone" /\ ~Ongoing(a)
    BY <1>3, ChangeFacts DEF UndoRecorded, At, ChangeOK
  <2>2. QED
    BY <1>3, <2>1, OverStep DEF UndoRecorded
<1>4. QED
  BY <1>1, <1>2, <1>3

\* The task fails or the change is aborted: what is done is undone.
LEMMA ToUndoStep ==
  ASSUME ConfdbInv, NEW a \in Accesses, chg[a].st \in {"Do", "Ran", "Rollback"},
         To(a, "Undo"), UNCHANGED <<queueVars, pc, dataVars, crashes>>
  PROVE  ConfdbInv' /\ StoreStep
<1> DEFINE c == [chg[a] EXCEPT !.st = "Undo"]
<1>1. chg[a] \in Records /\ ChangeOK(a, chg[a], Ongoing(a))
  BY ChangeFacts
<1>2. c.at = chg[a].at /\ c.st = "Undo"
  BY <1>1 DEF Records
<1>3. ChangeOK(a, c, Ongoing(a))
  <2> HIDE DEF c
  <2>1. QED
    BY <1>1, <1>2 DEF ChangeOK
<1>4. QED
  BY <1>3, StatusStep

LEMMA FailsStep ==
  ASSUME ConfdbInv, NEW a \in Accesses, Fails(a) PROVE ConfdbInv' /\ StoreStep
<1>1. chg[a].st \in {"Do", "Rollback"}
  BY DEF Fails, At
<1>2. QED
  BY <1>1, ToUndoStep DEF Fails

LEMMA AbortStep ==
  ASSUME ConfdbInv, NEW a \in Accesses, Abort(a) PROVE ConfdbInv' /\ StoreStep
<1>1. a \in Abortable /\ UNCHANGED <<queueVars, pc, crashes>>
  BY DEF Abort
<1>2. CASE At(a, "Do") /\ Over(a)
  <2>1. chg[a].st # "none"
    BY <1>2 DEF At
  <2>2. QED
    BY <1>1, <1>2, <2>1, OverStep
<1>3. CASE (At(a, "Do") \/ At(a, "Ran") \/ At(a, "Rollback")) /\ To(a, "Undo") /\ UNCHANGED dataVars
  <2>1. chg[a].st \in {"Do", "Ran", "Rollback"}
    BY <1>3 DEF At
  <2>2. QED
    BY <1>1, <1>3, <2>1, ToUndoStep
<1>4. QED
  BY <1>2, <1>3 DEF Abort

LEMMA CrashStep ==
  ASSUME ConfdbInv, Crash PROVE ConfdbInv' /\ StoreStep
<1>1. QueueInv' /\ PlacesOK' /\ Same
  BY CrashOK DEF ConfdbInv
<1>2. \A b \in Accesses : Ongoing(b)' = Ongoing(b)
  BY <1>1, SameOngoing
<1>3. tx' = tx /\ databag' = databag /\ crashes' \in 0..MaxCrashes
  BY ConfdbAssumption DEF Crash, dataVars, ConfdbInv, DataOK
<1>4. ASSUME NEW b \in Accesses
      PROVE  /\ chg'[b] \in Records /\ ChangeOK(b, chg'[b], Ongoing(b)')
             /\ chg'[b].at = chg[b].at
             /\ Fresh(pc'[b]) => chg'[b].st = "none"
  <2>1. chg[b] \in Records /\ ChangeOK(b, chg[b], Ongoing(b)) /\ (Fresh(pc[b]) => chg[b].st = "none")
    BY ChangeFacts DEF ConfdbInv, ChangesOK
  <2>2. Fresh(pc'[b]) => Fresh(pc[b])
    BY DEF Crash, Fresh, Queued, ConfdbInv, PlacesOK
  <2>3. CASE chg[b].st = "Ran"
    <3>1. chg'[b] = [chg[b] EXCEPT !.st = "Do"]
      BY <2>3 DEF Crash, At
    <3>2. chg'[b] \in Records /\ chg'[b].at = chg[b].at /\ chg'[b].st = "Do"
      BY <2>1, <3>1 DEF Records
    <3>3. QED
      BY <1>2, <2>1, <2>2, <2>3, <3>2 DEF ChangeOK, Before
  <2>4. CASE chg[b].st = "Undone"
    <3>1. chg'[b] = [chg[b] EXCEPT !.st = "Undo"]
      BY <2>4 DEF Crash, At
    <3>2. chg'[b] \in Records /\ chg'[b].at = chg[b].at /\ chg'[b].st = "Undo"
      BY <2>1, <3>1 DEF Records
    <3>3. QED
      BY <1>2, <2>1, <2>2, <2>4, <3>2 DEF ChangeOK
  <2>5. CASE chg[b].st \notin {"Ran", "Undone"}
    <3>1. chg'[b] = chg[b]
      BY <2>5 DEF Crash, At
    <3>2. QED
      BY <1>2, <2>1, <2>2, <3>1
  <2>6. QED
    BY <2>3, <2>4, <2>5
<1>5. chg' \in [Accesses -> Records]
  <2>1. DOMAIN chg' = Accesses /\ chg' = [b \in DOMAIN chg' |-> chg'[b]]
    BY DEF Crash
  <2>2. QED
    BY <1>4, <2>1
<1>6. ChangesOK'
  <2>1. \A b \in Accesses : ChangeOK(b, chg'[b], Ongoing(b)')
    BY <1>4
  <2>2. \A b \in Accesses : ChangeOK(b, chg[b], Ongoing(b))'
    BY <2>1 DEF ChangeOK
  <2>3. \A b \in Accesses : (Fresh(pc[b]) => chg[b].st = "none")'
    BY <1>4 DEF Fresh
  <2>4. QED
    BY <1>5, <2>2, <2>3 DEF ChangesOK
<1>7. Isolation'
  <2>1. ASSUME NEW b \in Accesses, Ongoing(b)', chg'[b].st # "over"
        PROVE  \/ tx[b].pristine = databag
               \/ /\ b \in Writers /\ chg'[b].at >= 4
                  /\ Apply(tx[b].pristine, tx[b].deltas, b) = databag
    <3>1. Ongoing(b) /\ chg'[b].at = chg[b].at
      BY <1>2, <1>4, <2>1
    <3>2. chg[b].st # "over"
      BY <2>1 DEF Crash, At
    <3>3. Reads(b, chg[b], tx[b], Ongoing(b))
      BY ChangeFacts
    <3>4. QED
      BY <3>1, <3>2, <3>3 DEF Reads
  <2>2. QED
    BY <1>3, <2>1 DEF Isolation, At, Apply
<1>8. DataOK'
  BY <1>3 DEF ConfdbInv, DataOK
<1>9. QED
  BY <1>1, <1>3, <1>6, <1>7, <1>8, StoreSame DEF ConfdbInv
-----------------------------------------------------------------------------
(* Theorems.                                                               *)

LEMMA ConfdbInitially == ConfdbInit => ConfdbInv
<1> SUFFICES ASSUME ConfdbInit PROVE ConfdbInv
  OBVIOUS
<1>1. <<>> \in Seq(Accesses) /\ Len(<<>>) = 0 /\ EmptyBag \in Bags
  BY EmptySeq DEF EmptyBag, Bags
<1>2. /\ txs.pending = <<>> /\ txs.scheduling = {} /\ txs.reads = {} /\ txs.write = NoTx
      /\ txs \in Queues
  BY <1>1 DEF ConfdbInit, Queues
<1>3. QueueInv
  BY <1>1, <1>2 DEF ConfdbInit, QueueInv, TokensOK, ExclusionOK, DrivenOK
<1>4. PlacesOK
  BY DEF ConfdbInit, PlacesOK, Places
<1>5. ChangesOK
  <2>1. ASSUME NEW a \in Accesses PROVE ChangeOK(a, chg[a], Ongoing(a))
    <3>1. chg[a].at = 1 /\ chg[a].st = "none" /\ ~Ongoing(a)
      BY <1>2, ConfdbAssumption DEF ConfdbInit, Ongoing
    <3>2. 1 <= Len(Tasks(a))
      BY DEF Tasks
    <3>3. QED
      BY <3>1, <3>2 DEF ChangeOK
  <2>2. QED
    BY <2>1 DEF ConfdbInit, ChangesOK, Records
<1>6. DataOK
  BY <1>1, ConfdbAssumption DEF ConfdbInit, DataOK, NoData
<1>7. Isolation
  BY <1>2, ConfdbAssumption DEF Isolation, Ongoing
<1>8. QED
  BY <1>3, <1>4, <1>5, <1>6, <1>7 DEF ConfdbInv

LEMMA ConfdbStep ==
  ASSUME ConfdbInv, [ConfdbNext]_confdbVars PROVE ConfdbInv' /\ StoreStep
<1>1. ASSUME NEW a \in Accesses,
             \/ Request(a) \/ Cancel(a) \/ Abort(a)
             \/ GoroutineStep(a) \/ TaskStep(a)
      PROVE  ConfdbInv' /\ StoreStep
  BY <1>1, RequestStep, ProceedStep, LeavingStep, AbortStep, RunsHookStep,
     SaveFailsStep, HandlerStep, RecordedStep, FailsStep DEF GoroutineStep, TaskStep
<1>2. CASE Crash
  BY <1>2, CrashStep
<1>3. CASE UNCHANGED confdbVars
  <2>1. QueueInv' /\ PlacesOK' /\ Same
    BY <1>3 DEF confdbVars, ConfdbInv, QueueInv, PlacesOK, Same
  <2>2. UNCHANGED <<chg, tx, databag>> /\ crashes' \in 0..MaxCrashes /\ pc' = pc
    BY <1>3 DEF confdbVars, ConfdbInv, DataOK
  <2>3. QED
    BY <2>1, <2>2, FrameRequest
<1>4. QED
  BY <1>1, <1>2, <1>3 DEF ConfdbNext

\* The inductive invariant: the queue, the places of the goroutines, how far the
\* changes are and what their transactions have read fit together.
THEOREM ConfdbInvariant == ConfdbSpec => []ConfdbInv
<1>1. ConfdbInv /\ [ConfdbNext]_confdbVars => ConfdbInv'
  BY ConfdbStep
<1>2. QED
  BY <1>1, ConfdbInitially, PTL DEF ConfdbSpec

\* The variables keep their types: no change runs past its last task.
THEOREM ConfdbTypeCorrect == ConfdbSpec => []ConfdbTypeOK
<1>1. ConfdbInv => ConfdbTypeOK
  <2> SUFFICES ASSUME ConfdbInv PROVE ConfdbTypeOK
    OBVIOUS
  <2>1. databag \in [Keys -> Accesses \cup {NoTx}]
    BY ConfdbAssumption DEF ConfdbInv, DataOK, Bags
  <2>2. \A a \in Accesses : chg[a].at <= Len(Tasks(a))
    BY DEF ConfdbInv, ChangesOK, ChangeOK
  <2>3. pc \in [Accesses -> {"idle", "waiting", "cancelled", "inHook",
                            "inHookWithID", "left", "internal"}]
    BY DEF ConfdbInv, PlacesOK, Places
  <2>4. QED
    BY <2>1, <2>2, <2>3
       DEF ConfdbInv, QueueInv, Queues, ChangesOK, Records, DataOK, ConfdbTypeOK
<1>2. QED
  BY <1>1, ConfdbInvariant, PTL

\* addReadTransaction and setWriteTransaction never find what they check for,
\* "programmer error", whatever times out, fails, is aborted or restarts.
THEOREM NeverInternalError == ConfdbSpec => []NoInternalError
<1>1. ConfdbInv => NoInternalError
  BY DEF ConfdbInv, QueueInv, ExclusionOK, PlacesOK, Places, NoInternalError
<1>2. QED
  BY <1>1, ConfdbInvariant, PTL

\* Whoever waits is waited for by someone who will unblock the queue.
THEOREM AlwaysUnblocks == ConfdbSpec => []SomebodyUnblocks
<1>1. ConfdbInv => SomebodyUnblocks
  <2> SUFFICES ASSUME ConfdbInv PROVE SomebodyUnblocks
    OBVIOUS
  <2>1. txs.pending # <<>> => Busy(txs)
    BY DEF ConfdbInv, QueueInv, DrivenOK
  <2>2. \A a \in txs.scheduling : pc[a] = "cancelled" \/ (pc[a] = "waiting" /\ a \in tokens)
    BY DEF ConfdbInv, QueueInv, TokensOK, Queued
  <2>3. \A a \in Accesses \ Abortable : Ongoing(a) => chg[a].st \notin {"none", "over"}
    BY DEF ConfdbInv, ChangesOK, ChangeOK
  <2>4. QED
    BY <2>1, <2>2, <2>3 DEF SomebodyUnblocks
<1>2. QED
  BY <1>1, ConfdbInvariant, PTL

\* The send of a token under the state lock never blocks.
THEOREM SendNeverBlocks == ConfdbSpec => []OneToken
<1>1. ConfdbInv => OneToken
  <2> SUFFICES ASSUME ConfdbInv PROVE OneToken
    OBVIOUS
  <2>1. Range(txs.pending) = {txs.pending[i] : i \in 1..Len(txs.pending)}
    BY RangeEquality DEF ConfdbInv, QueueInv, Queues
  <2>2. QED
    BY <2>1 DEF OneToken, ConfdbInv, QueueInv, TokensOK
<1>2. QED
  BY <1>1, ConfdbInvariant, PTL

\* A transaction sees the databag as it was when it read it, until it commits
\* itself, also if it has to commit again after a restart.
THEOREM TransactionsIsolated == ConfdbSpec => []Isolation
<1>1. ConfdbInv => Isolation
  BY DEF ConfdbInv
<1>2. QED
  BY <1>1, ConfdbInvariant, PTL

\* The queue, the tokens, the tasks, their failures and the restarts implement a
\* store with many readers or one writer.
THEOREM RefinesStore == ConfdbSpec => ImplementsStore
<1>1. ConfdbInit => Store!StoreInit
  BY DEF ConfdbInit, Store!StoreInit, EmptyBag
<1>2. ConfdbInv /\ [ConfdbNext]_confdbVars => [Store!StoreNext]_(Store!storeVars)
  BY ConfdbStep DEF StoreStep
<1>3. QED
  BY <1>1, <1>2, ConfdbInvariant, PTL DEF ConfdbSpec, ImplementsStore, Store!StoreSpec
=============================================================================
