---------------------------- MODULE ConfdbAccess ----------------------------
(***************************************************************************)
(* Concurrent reads and writes of one confdb: overlord/confdbstate.        *)
(*                                                                         *)
(* A request that is compatible with what runs starts at once; any other   *)
(* is queued and its goroutine waits, without the state lock, for a token  *)
(* in its channel or for the end of its context.  A request that starts    *)
(* becomes a transaction, carried by the tasks of a change; the last of    *)
(* them, or the undo of the first, ends the transaction and unblocks what  *)
(* is next in the queue.  The queue is in memory only.                     *)
(*                                                                         *)
(* A step is what happens under the state lock.  A transaction is named    *)
(* after its access.  The runner of tasks is that of TaskRunner, reduced   *)
(* to changes whose tasks follow one another.                              *)
(***************************************************************************)
EXTENDS Naturals, Sequences, FiniteSets, Functions

CONSTANTS
    Accesses,       \* requests: client calls and calls of hooks
    Writers,        \* those that write
    Hookless,       \* reads of views without hooks, which need no change
    FromSnap,       \* those by hooks, which block until the change is over
    Impatient,      \* those whose context may time out or be cancelled
    Abortable,      \* those whose change may be aborted
    Keys,           \* paths of the databag
    MaxCrashes,     \* bound on restarts of snapd
    NoTx

ASSUME ConfdbAssumption ==
    /\ Writers \subseteq Accesses /\ Hookless \subseteq Accesses \ Writers
    /\ FromSnap \subseteq Accesses
    /\ Impatient \subseteq Accesses /\ Abortable \subseteq Accesses
    /\ MaxCrashes \in Nat
    /\ NoTx \notin Accesses

VARIABLES
    txs,        \* confdbTransactions: the queue and what is ongoing
    tokens,     \* accesses with a token in their WaitChan
    pc,         \* where the goroutine of an access is
    chg,        \* the task a change is at, and its status
    tx,         \* the transaction stored with the change
    databag,    \* the committed data: who wrote each path
    crashes

queueVars == <<txs, tokens>>
dataVars == <<tx, databag>>
confdbVars == <<txs, tokens, pc, chg, tx, databag, crashes>>

Bags == [Keys -> Writers \cup {NoTx}]

EmptyBag == [k \in Keys |-> NoTx]

NoData == [pristine |-> EmptyBag, deltas |-> {}]

\* Mutant: the transaction is cleared before it is committed.
TasksClearFirst(a) ==
    IF a \in Writers
    THEN <<"clear-on-error", "change-view", "save-view", "clear", "commit">>
    ELSE IF a \in FromSnap THEN <<"clear-on-error", "load-view", "clear">>
    ELSE <<"clear-on-error", "load-view", "clear", "load">>

\* The tasks of createChangeConfdbTasks and of createLoadConfdbTasks, one for
\* each kind of hook.  The observe-view hooks between commit and clear change
\* nothing and cannot fail.  A read by a hook takes its data from the transaction
\* instead of the last task.
Tasks(a) ==
    IF a \in Writers
    THEN <<"clear-on-error", "change-view", "save-view", "commit", "clear">>
    ELSE IF a \in FromSnap THEN <<"clear-on-error", "load-view", "clear">>
    ELSE <<"clear-on-error", "load-view", "clear", "load">>

Kind(a) == Tasks(a)[chg[a].at]

ConfdbTypeOK ==
    /\ txs \in [pending : Seq(Accesses), scheduling : SUBSET Accesses,
                reads : SUBSET Accesses, write : Accesses \cup {NoTx}]
    /\ tokens \subseteq Accesses
    /\ pc \in [Accesses -> {"idle", "waiting", "cancelled", "inHook",
                            "inHookWithID", "left", "internal"}]
    /\ chg \in [Accesses -> [at : 1..5,
                             st : {"none", "Do", "Ran", "Rollback", "Undo", "Undone", "over"}]]
    /\ \A a \in Accesses : chg[a].at <= Len(Tasks(a))
    /\ tx \in [Accesses -> [pristine : Bags, deltas : SUBSET Keys]]
    /\ databag \in [Keys -> Accesses \cup {NoTx}]
    /\ crashes \in 0..MaxCrashes

ConfdbInit ==
    /\ txs = [pending |-> <<>>, scheduling |-> {}, reads |-> {}, write |-> NoTx]
    /\ tokens = {}
    /\ pc = [a \in Accesses |-> "idle"]
    /\ chg = [a \in Accesses |-> [at |-> 1, st |-> "none"]]
    /\ tx = [a \in Accesses |-> NoData]
    /\ databag = EmptyBag
    /\ crashes = 0

-----------------------------------------------------------------------------
(* The queue.                                                              *)

\* Mutant: a write that is about to be scheduled does not hold back reads.
CanStartReadTxEarly(q) == q.write = NoTx /\ Range(q.pending) \cap Writers = {}

CanStartReadTx(q) == q.write = NoTx /\ (Range(q.pending) \cup q.scheduling) \cap Writers = {}

CanStartWriteTx(q) == q.write = NoTx /\ q.reads = {} /\ q.pending = <<>> /\ q.scheduling = {}

CanStart(a, q) == IF a \in Writers THEN CanStartWriteTx(q) ELSE CanStartReadTx(q)

\* The queue without access a, which is in it at most once.
Without(s, a) ==
    IF a \notin Range(s) THEN s
    ELSE LET i == CHOOSE n \in 1..Len(s) : s[n] = a
         IN  SubSeq(s, 1, i - 1) \o SubSeq(s, i + 1, Len(s))

\* What maybeUnblockAccesses takes off the queue: one write, or the reads up to
\* the next write.
UpTo(s) ==
    IF s[1] \in Writers THEN 1
    ELSE CHOOSE n \in 1..Len(s) : /\ \A i \in 1..n : s[i] \notin Writers
                                  /\ n < Len(s) => s[n + 1] \in Writers

Busy(q) == q.write # NoTx \/ q.reads # {} \/ q.scheduling # {}

Unblocked(q) ==
    IF q.pending = <<>> \/ Busy(q) THEN {} ELSE {q.pending[i] : i \in 1..UpTo(q.pending)}

\* Mutant: what is unblocked stays in the queue.
MaybeUnblockAccessesKeeps(q) ==
    /\ txs' = [q EXCEPT !.scheduling = @ \cup Unblocked(q)]
    /\ tokens' = tokens \cup Unblocked(q)

\* maybeUnblockAccesses and updateTxStateFunc.
MaybeUnblockAccesses(q) ==
    IF q.pending = <<>> \/ Busy(q)
    THEN txs' = q /\ UNCHANGED tokens
    ELSE /\ txs' = [q EXCEPT !.scheduling = Unblocked(q),
                             !.pending = SubSeq(@, UpTo(@) + 1, Len(@))]
         /\ tokens' = tokens \cup Unblocked(q)

\* Mutant: an access that ends without a transaction does not wake the next.
CleanupAccessSilent(a, q) == txs' = [q EXCEPT !.scheduling = @ \ {a}] /\ UNCHANGED tokens

CleanupAccess(a, q) == MaybeUnblockAccesses([q EXCEPT !.scheduling = @ \ {a}])

\* The deferred cleanup, only there if the access had to wait and has an ID.
Leave(a, q, id) ==
    IF id THEN CleanupAccess(a, q) ELSE txs' = q /\ UNCHANGED tokens

\* unsetOngoingTransaction.  The test of the reads it makes before it unblocks
\* is the first one of maybeUnblockAccesses.
UnsetOngoingTransaction(a) ==
    MaybeUnblockAccesses(IF txs.write = a THEN [txs EXCEPT !.write = NoTx]
                         ELSE [txs EXCEPT !.reads = @ \ {a}])

-----------------------------------------------------------------------------
(* Requests.                                                               *)

\* addReadTransaction and setWriteTransaction refuse what cannot run together.
Conflicts(a) == txs.write # NoTx \/ (a \in Writers /\ txs.reads # {})

WithTx(a) ==
    LET q == [txs EXCEPT !.scheduling = @ \ {a}]
    IN  IF a \in Writers THEN [q EXCEPT !.write = a] ELSE [q EXCEPT !.reads = @ \cup {a}]

\* WriteConfdb and ReadConfdb and their variants for hooks, from the moment the
\* access may go on: an error, a read that needs no change, or a change.
Ends(a, where, id) ==
    /\ pc' = [pc EXCEPT ![a] = where]
    /\ Leave(a, txs, id)
    /\ UNCHANGED <<chg, tx>>

Starts(a, id) ==
    /\ \E paths \in SUBSET Keys :
          /\ (paths = {}) = (a \notin Writers)
          /\ tx' = [tx EXCEPT ![a] = [pristine |-> databag, deltas |-> paths]]
    /\ chg' = [chg EXCEPT ![a].st = "Do"]
    /\ IF a \in FromSnap
       THEN /\ pc' = [pc EXCEPT ![a] = IF id THEN "inHookWithID" ELSE "inHook"]
            /\ txs' = WithTx(a) /\ UNCHANGED tokens
       ELSE /\ pc' = [pc EXCEPT ![a] = "left"]
            /\ Leave(a, WithTx(a), id)

Schedule(a, id) ==
    \/ Ends(a, "left", id)
    \/ /\ a \notin Hookless
       /\ IF Conflicts(a) THEN Ends(a, "internal", id) ELSE Starts(a, id)

\* waitForAccess: go on, or queue and wait.
Request(a) ==
    /\ pc[a] = "idle"
    /\ IF CanStart(a, txs)
       THEN Schedule(a, FALSE)
       ELSE /\ txs' = [txs EXCEPT !.pending = Append(@, a)]
            /\ pc' = [pc EXCEPT ![a] = "waiting"]
            /\ UNCHANGED <<tokens, chg, tx>>
    /\ UNCHANGED <<databag, crashes>>

\* A token came: the access locks the state and goes on.
Proceed(a) ==
    /\ pc[a] = "waiting" /\ a \in tokens
    /\ Schedule(a, TRUE)
    /\ UNCHANGED <<databag, crashes>>

\* The context ended.  A token may be there already or come until the lock is
\* taken.
Cancel(a) ==
    /\ pc[a] = "waiting" /\ a \in Impatient
    /\ pc' = [pc EXCEPT ![a] = "cancelled"]
    /\ UNCHANGED <<queueVars, chg, dataVars, crashes>>

\* Mutant: the race with an unblock is overlooked.
TimedOutForgets(a) ==
    /\ pc[a] = "cancelled"
    /\ pc' = [pc EXCEPT ![a] = "left"]
    /\ MaybeUnblockAccesses([txs EXCEPT !.pending = Without(@, a)])
    /\ UNCHANGED <<chg, dataVars, crashes>>

\* The access takes itself back, wherever it has come to.
TimedOut(a) ==
    /\ pc[a] = "cancelled"
    /\ pc' = [pc EXCEPT ![a] = "left"]
    /\ MaybeUnblockAccesses([txs EXCEPT !.pending = Without(@, a),
                                        !.scheduling = @ \ {a}])
    /\ UNCHANGED <<chg, dataVars, crashes>>

\* A hook stops to wait for its change, which is over or takes too long, and
\* only then runs its cleanup.
Return(a) ==
    /\ pc[a] \in {"inHook", "inHookWithID"}
    /\ pc' = [pc EXCEPT ![a] = "left"]
    /\ Leave(a, txs, pc[a] = "inHookWithID")
    /\ UNCHANGED <<chg, dataVars, crashes>>

-----------------------------------------------------------------------------
(* The tasks of a change.                                                  *)

Apply(bag, paths, a) == [k \in Keys |-> IF k \in paths THEN a ELSE bag[k]]

\* Ran: the handler of the task has done its work, its status is not saved yet.
At(a, st) == chg[a].st = st
To(a, st) == chg' = [chg EXCEPT ![a].st = st]

\* The change is over.  Nobody looks at its tasks and their transaction again.
Over(a) ==
    /\ chg' = [chg EXCEPT ![a] = [at |-> 1, st |-> "over"]]
    /\ tx' = [tx EXCEPT ![a] = NoData]
    /\ UNCHANGED databag

\* doCommitTransaction: the changes are applied to the databag as it is now.  The
\* stored transaction is not saved and keeps its changes.
DoCommitTransaction(a) ==
    /\ databag' = Apply(databag, tx[a].deltas, a)
    /\ UNCHANGED <<queueVars, tx>>

\* The next task, or the end.
Advance(a) ==
    IF chg[a].at = Len(Tasks(a)) THEN Over(a)
    ELSE chg' = [chg EXCEPT ![a].st = "Do", ![a].at = @ + 1] /\ UNCHANGED dataVars

\* Tasks that change nothing but the transaction: the first one, which is there
\* to be undone, hooks, and the load of the data into the change.  The
\* change-view hooks may write to the transaction; what load-view hooks add is
\* never committed and left out.  Running such a task again after a crash adds
\* nothing to running it once.
RunsHook(a) ==
    /\ At(a, "Do")
    /\ \/ Kind(a) \in {"clear-on-error", "load-view", "save-view", "load"}
          /\ Advance(a)
       \/ /\ Kind(a) = "change-view"
          /\ \E paths \in SUBSET Keys : tx' = [tx EXCEPT ![a].deltas = @ \cup paths]
          /\ chg' = [chg EXCEPT ![a].at = @ + 1]
          /\ UNCHANGED databag
    /\ UNCHANGED <<queueVars, pc, crashes>>

\* saveViewHandler.Error: the changes are dropped and rollback hooks are put
\* between this task and the next; the task itself does not fail.
SaveFails(a) ==
    /\ At(a, "Do") /\ Kind(a) = "save-view"
    /\ To(a, "Rollback")
    /\ tx' = [tx EXCEPT ![a] = [pristine |-> databag, deltas |-> {}]]
    /\ UNCHANGED <<queueVars, pc, databag, crashes>>

\* commit-confdb-tx and clear-confdb-tx.
Handler(a) ==
    /\ At(a, "Do") /\ To(a, "Ran")
    /\ \/ Kind(a) = "commit" /\ DoCommitTransaction(a)
       \/ Kind(a) = "clear" /\ UnsetOngoingTransaction(a) /\ UNCHANGED dataVars
    /\ UNCHANGED <<pc, crashes>>

\* The task is Done.
Recorded(a) ==
    /\ At(a, "Ran") /\ Advance(a)
    /\ UNCHANGED <<queueVars, pc, crashes>>

\* A hook rejects the changes, the data is not valid, or the rollback is over and
\* returns the error that led to it: the tasks before this one are undone.
Fails(a) ==
    /\ \/ At(a, "Do") /\ Kind(a) \in {"change-view", "load-view", "commit", "load"}
       \/ At(a, "Rollback")
    /\ To(a, "Undo")
    /\ UNCHANGED <<queueVars, pc, dataVars, crashes>>

\* An abort undoes what is done and lets the running task end first.  If not even
\* the first task has started everything is put on hold.
Abort(a) ==
    /\ a \in Abortable
    /\ \/ /\ At(a, "Do") /\ chg[a].at = 1
          /\ Over(a)
       \/ /\ \/ At(a, "Do") /\ chg[a].at > 1
             \/ At(a, "Ran") \/ At(a, "Rollback")
          /\ To(a, "Undo")
          /\ UNCHANGED dataVars
    /\ UNCHANGED <<queueVars, pc, crashes>>

\* The undo of clear-confdb-tx-on-error, the only task that has one.
Undo(a) ==
    /\ At(a, "Undo") /\ To(a, "Undone")
    /\ UnsetOngoingTransaction(a)
    /\ UNCHANGED <<pc, dataVars, crashes>>

UndoRecorded(a) ==
    /\ At(a, "Undone") /\ Over(a)
    /\ UNCHANGED <<queueVars, pc, crashes>>

\* snapd restarts: the queue and everyone in it are gone, handlers whose end was
\* not saved run again.
Crash ==
    /\ crashes < MaxCrashes
    /\ crashes' = crashes + 1
    /\ txs' = [txs EXCEPT !.pending = <<>>, !.scheduling = {}]
    /\ tokens' = {}
    /\ pc' = [a \in Accesses |->
                IF pc[a] # "idle" THEN "left" ELSE pc[a]]
    /\ chg' = [a \in Accesses |->
                IF At(a, "Ran") THEN [chg[a] EXCEPT !.st = "Do"]
                ELSE IF At(a, "Undone") THEN [chg[a] EXCEPT !.st = "Undo"]
                ELSE chg[a]]
    /\ UNCHANGED dataVars

GoroutineStep(a) == Proceed(a) \/ TimedOut(a) \/ Return(a)

TaskStep(a) == RunsHook(a) \/ SaveFails(a) \/ Handler(a) \/ Recorded(a) \/ Fails(a) \/ Undo(a) \/ UndoRecorded(a)

ConfdbNext ==
    \/ \E a \in Accesses : Request(a) \/ Cancel(a) \/ Abort(a)
    \/ \E a \in Accesses : GoroutineStep(a) \/ TaskStep(a)
    \/ Crash

ConfdbSpec == ConfdbInit /\ [][ConfdbNext]_confdbVars

\* Goroutines that can go on do so, and the task runner runs what is ready.
ConfdbFairSpec ==
    /\ ConfdbSpec
    /\ \A a \in Accesses : WF_confdbVars(GoroutineStep(a)) /\ WF_confdbVars(TaskStep(a))

-----------------------------------------------------------------------------
(* Properties.                                                             *)

Ongoing(a) == txs.write = a \/ a \in txs.reads

\* The checks of addReadTransaction and setWriteTransaction "shouldn't happen
\* save for programmer error": letting a request go on without the lock never
\* makes two transactions meet, whatever times out, fails or restarts meanwhile.
NoInternalError ==
    /\ \A a \in Accesses : pc[a] # "internal"
    /\ txs.write # NoTx => txs.reads = {}

\* Whenever someone is in the queue, someone else is bound to unblock it: a
\* transaction whose change is not over, or an access that has its token, or
\* that timed out and is about to clean up.  The exception is a change that was
\* aborted before its first task had started.
SomebodyUnblocks ==
    /\ txs.pending # <<>> => Busy(txs)
    /\ \A a \in txs.scheduling : pc[a] = "cancelled" \/ (pc[a] = "waiting" /\ a \in tokens)
    /\ \A a \in Accesses \ Abortable : Ongoing(a) => chg[a].st \notin {"none", "over"}

\* Nobody is sent a token that was sent one before, so the send under the state
\* lock never fills the channel and blocks.
OneToken == Range(txs.pending) \cap tokens = {}

\* No commit of another transaction falls between the moment a transaction read
\* the databag and its own end, and committing again after a crash changes
\* nothing: hooks see the databag as it is, with the changes of this transaction.
Isolation ==
    \A a \in Accesses :
        Ongoing(a) /\ ~At(a, "over") =>
            \/ tx[a].pristine = databag
            \/ /\ a \in Writers /\ chg[a].at >= 4
               /\ Apply(tx[a].pristine, tx[a].deltas, a) = databag

Store == INSTANCE SerialStore
    WITH data <- databag, readers <- txs.reads, writer <- txs.write

\* Seen from outside, the queue, the tokens, the tasks and their crashes and
\* failures are a store with many readers or one writer: nothing is committed by
\* a transaction that is not, or not any more, the one that writes.
ImplementsStore == Store!StoreSpec

\* "if the transaction errors, clear the tx from the state": a transaction is
\* not ongoing any more when its change is over, however it ended.
ClearedAtTheEnd == \A a \in Accesses : At(a, "over") => ~Ongoing(a)

\* A request that waits gets its turn, or dies with snapd, even if everybody
\* else times out, fails or is aborted at the worst moment, as long as no
\* transaction outlives its change.
EverybodyGetsATurn ==
    \A a \in Accesses \ Impatient :
        (pc[a] = "waiting") ~> (pc[a] # "waiting" \/ ~ClearedAtTheEnd)
=============================================================================
