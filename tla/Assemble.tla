------------------------------ MODULE Assemble ------------------------------
(***************************************************************************)
(* Cluster assembly (cluster/assemblestate): devices that share a secret   *)
(* find one another, authenticate, and spread identities and routes until  *)
(* every device knows the whole graph.                                     *)
(*                                                                         *)
(* as[d] is the AssembleState of device d; the operators that take and     *)
(* return such a record are its methods and those of its route selector    *)
(* and device query tracker.  Run starts three goroutines that send (auth, *)
(* gossip and talk below) and a server.  All of them share one lock, which *)
(* is released while a request is under way: a request is sent in one      *)
(* step, handled by the peer in another, and its answer is used in a third.*)
(* Requests and answers can be lost; session[d] is what the last commit    *)
(* wrote, and what a device resumes from.                                  *)
(*                                                                         *)
(* The devices follow the protocol, so a certificate fingerprint stands    *)
(* for its device, and the checks for two devices with one fingerprint and *)
(* for inconsistent or forged identities never fail.                       *)
(***************************************************************************)
EXTENDS Integers, FiniteSets

CONSTANTS
    Devices,        \* device tokens; also fingerprints
    Addresses,
    Owner,          \* [Addresses -> Devices]: who answers at an address
    Listen,         \* [Devices -> Addresses]: the address of the listener
    Discoverable,   \* [Devices -> SUBSET Addresses]: what discovery may find
    Expected,       \* [Devices -> Nat]: AssembleConfig.ExpectedSize, 0 if unset
    MaxPeers,       \* peers chosen for one round of routes
    MaxRoutes,      \* routes chosen for one message
    Lossy,          \* the devices whose requests, or the answers to them, may be lost
    Start,          \* [Devices -> Sessions]: the sessions the devices start from
    MaxRestarts,    \* bound: restarts of devices
    MaxTimeouts,    \* bound: queries in flight that time out
    NoDevice, NoAddr

Routes == Devices \X Devices \X Addresses

States == [trusted : SUBSET Devices, addresses : [Devices -> Addresses \cup {NoAddr}],
           discovered : SUBSET Addresses, ids : SUBSET Devices,
           known : [Devices -> SUBSET Devices], queries : [Devices -> SUBSET Devices],
           inflight : SUBSET Devices, pendingQueries : BOOLEAN, pendingResponses : BOOLEAN,
           edges : SUBSET Routes, verified : SUBSET Routes,
           knownByPeers : [Devices -> SUBSET Routes], authoritative : SUBSET Routes,
           completed : BOOLEAN]

Sessions == [trusted : SUBSET Devices, addresses : [Devices -> Addresses \cup {NoAddr}],
             discovered : SUBSET Addresses, routes : SUBSET Routes, ids : SUBSET Devices,
             known : [Devices -> SUBSET Devices], queries : [Devices -> SUBSET Devices]]

\* The session a device begins with when it resumes none.
EmptySession == [trusted |-> {}, addresses |-> [p \in Devices |-> NoAddr], discovered |-> {},
                 routes |-> {}, ids |-> {}, known |-> [p \in Devices |-> {}],
                 queries |-> [p \in Devices |-> {}]]

ASSUME AssembleAssumption ==
    /\ Owner \in [Addresses -> Devices]
    /\ Listen \in [Devices -> Addresses]
    /\ Discoverable \in [Devices -> SUBSET Addresses]
    /\ Expected \in [Devices -> Nat]
    /\ MaxPeers \in Nat /\ MaxRoutes \in Nat
    /\ Lossy \subseteq Devices
    /\ MaxRestarts \in Nat /\ MaxTimeouts \in Nat
    /\ Start \in [Devices -> Sessions]
    /\ NoDevice \notin Devices /\ NoAddr \notin Addresses

\* The sessions were written by devices that run this protocol: a device that
\* another one has an address of, or that is at an end of a route, has been
\* authenticated by the other end.
ASSUME StartAssumption ==
    \A d \in Devices :
        /\ \A r \in Start[d].routes : /\ r[1] \in Start[r[2]].trusted \cup {r[2]}
                                      /\ r[2] \in Start[r[1]].trusted \cup {r[1]}
        /\ \A p \in Devices : Start[d].addresses[p] # NoAddr => d \in Start[p].trusted \cup {p}

\* A cluster is finite, and who listens at an address answers there.
ASSUME ClusterAssumption ==
    /\ IsFiniteSet(Devices)
    /\ \A d \in Devices : Owner[Listen[d]] = d

\* A route leads to the device that answers at its address, which is not the
\* address its source listens at (a device skips that one when it is discovered).
Leads(r) == Owner[r[3]] = r[2] /\ r[3] # Listen[r[1]]

\* What the sessions know of other devices was learned from them too: addresses
\* were found by discovery, and who sends a route has identified its ends, but
\* for the receiver.
ASSUME LearnedAssumption ==
    \A d \in Devices :
        /\ \A r \in Start[d].routes : Leads(r)
        /\ \A p \in Devices : /\ Start[d].addresses[p] # NoAddr => Leads(<<d, p, Start[d].addresses[p]>>)
                              /\ Start[d].known[p] \subseteq Start[p].ids \cup {p, d}

VARIABLES
    as,                 \* AssembleState of each device
    auth,               \* the goroutine that authenticates with discovered addresses
    gossip,             \* the goroutine that publishes routes
    talk,               \* the goroutine that sends device queries and answers them
    running,            \* the devices whose Run has not returned
    session,            \* the last committed AssembleSession
    restarts, timeouts  \* how much of the bounds is used up

vars == <<as, auth, gossip, talk, running, session, restarts, timeouts>>
boundVars == <<restarts, timeouts>>

Answers == {"none", "sent", "ok", "failed"}

AssembleTypeOK ==
    /\ as \in [Devices -> States]
    /\ auth \in [Devices -> [todo : SUBSET Addresses, at : Addresses \cup {NoAddr}, answer : Answers]]
    /\ gossip \in [Devices -> [todo : SUBSET Devices, to : Devices \cup {NoDevice},
                               routes : SUBSET Routes, answer : Answers]]
    /\ talk \in [Devices -> [mode : {"idle", "query", "respond"}, todo : SUBSET Devices,
                             to : Devices \cup {NoDevice}, what : SUBSET Devices, answer : Answers]]
    /\ running \subseteq Devices
    /\ session \in [Devices -> Sessions]
    /\ restarts \in 0..MaxRestarts /\ timeouts \in 0..MaxTimeouts

NoAuth == [todo |-> {}, at |-> NoAddr, answer |-> "none"]
NoGossip == [todo |-> {}, to |-> NoDevice, routes |-> {}, answer |-> "none"]
NoTalk == [mode |-> "idle", todo |-> {}, to |-> NoDevice, what |-> {}, answer |-> "none"]

-----------------------------------------------------------------------------
(* The route selector.                                                     *)

DevicesIn(R) == UNION {{r[1], r[2]} : r \in R}

Identified(s, R) == {r \in R : r[1] \in s.ids /\ r[2] \in s.ids}

AddAuthoritativeRoute(s, self, to, via) ==
    [s EXCEPT !.edges = @ \cup {<<self, to, via>>},
              !.authoritative = {r \in @ : r[2] # to} \cup {<<self, to, via>>}]

RecordRoutes(s, from, R) ==
    [s EXCEPT !.edges = @ \cup R,
              !.knownByPeers[from] = @ \cup R,
              !.verified = @ \cup Identified(s, R)]

VerifyRoutes(s) == [s EXCEPT !.verified = @ \cup Identified(s, s.edges)]

\* Mutant: routes are published before their ends are identified.
SelectionsUnverified(s, to) == {s.edges \ s.knownByPeers[to]} \ {{}}

\* What Select may pick for a peer: MaxRoutes of the verified routes the peer is
\* not thought to know (fewest sources first, which is left open here), and the
\* route to the peer itself.
Selections(s, to) ==
    LET unknown == s.verified \ s.knownByPeers[to]
        chosen == {R \in SUBSET unknown :
                      IF Cardinality(unknown) <= MaxRoutes THEN R = unknown
                      ELSE Cardinality(R) = MaxRoutes}
        direct == {r \in s.authoritative : r[2] = to} \ s.knownByPeers[to]
    IN  {R \cup direct : R \in chosen} \ {{}}

\* Mutant: all edges count, verified or not.
CompleteEdges(s, size) == Cardinality(s.edges) = size * (size - 1)

Complete(s, size) == Cardinality(s.verified) = size * (size - 1)

\* Mutant: routes count before their ends are identified.
TooManyEdges(s, size) == Cardinality(s.edges) > size * (size - 1)

TooMany(s, size) == Cardinality(s.verified) > size * (size - 1)

-----------------------------------------------------------------------------
(* The device query tracker.                                               *)

RecordIncomingQuery(s, from, unknowns) ==
    [s EXCEPT !.queries[from] = @ \cup (unknowns \cap s.ids),
              !.pendingResponses = @ \/ unknowns \cap s.ids # {}]

RecordDevicesKnownBy(s, source, devices) ==
    [s EXCEPT !.known[source] = @ \cup devices,
              !.pendingQueries = @ \/ devices \ s.ids # {}]

OutgoingQueriesTo(s, to) == (s.known[to] \ s.ids) \ s.inflight

ResponsesTo(s, to) == s.queries[to] \cap s.ids

-----------------------------------------------------------------------------
(* Sessions.                                                               *)

Export(s) == [trusted |-> s.trusted, addresses |-> s.addresses, discovered |-> s.discovered,
              routes |-> s.verified, ids |-> s.ids, known |-> s.known, queries |-> s.queries]

\* shutdownAtExpectedSize, when it does not fail.
ShutdownAtExpectedSize(d, s) ==
    [s EXCEPT !.completed = @ \/ (Expected[d] # 0 /\ Complete(s, Expected[d]))]

Overflows(d, s) == Expected[d] # 0 /\ TooMany(s, Expected[d])

\* NewAssembleState of device d on session e.
NewAssembleState(d, e) ==
    LET ids == e.ids \cup {d}
        trusted == e.trusted \cup {d}
        direct == {<<d, p, e.addresses[p]>> : p \in {q \in trusted : e.addresses[q] # NoAddr}}
        queries == [p \in Devices |-> e.queries[p] \cap ids]
    IN  ShutdownAtExpectedSize(d,
          [trusted |-> trusted, addresses |-> e.addresses, discovered |-> e.discovered,
           ids |-> ids, known |-> e.known, queries |-> queries, inflight |-> {},
           pendingQueries |-> \E p \in Devices : e.known[p] \ ids # {},
           pendingResponses |-> \E p \in Devices : queries[p] # {},
           edges |-> e.routes \cup direct,
           verified |-> {r \in e.routes : r[1] \in ids /\ r[2] \in ids},
           knownByPeers |-> [p \in Devices |-> IF p = d THEN e.routes ELSE {}],
           authoritative |-> direct, completed |-> FALSE])

Init ==
    /\ session = Start
    /\ as = [d \in Devices |-> NewAssembleState(d, session[d])]
    /\ auth = [d \in Devices |-> NoAuth]
    /\ gossip = [d \in Devices |-> NoGossip]
    /\ talk = [d \in Devices |-> NoTalk]
    /\ running = Devices
    /\ restarts = 0 /\ timeouts = 0

\* The critical section of d ends with state s, committed or not.
Updates(d, s) == as' = [as EXCEPT ![d] = s]
Commits(d, s) == session' = [session EXCEPT ![d] = Export(s)]

-----------------------------------------------------------------------------
(* Requests.  The peer handles a request, and the answer comes back or not. *)

\* VerifyPeer, on a device whose server is up.
Accepts(d, from) == d \in running /\ from \in as[d].trusted

\* What the sender of a request that was handled without error gets to see.
Answered(from) == IF from \in Lossy THEN {"ok", "failed"} ELSE {"ok"}

\* The request is over for its sender.  One that is still on its way may be lost,
\* or finds that the device is not running or does not trust the sender.
Over(from, answer, delivered) ==
    answer \in {"ok", "failed"} \/ (answer = "sent" /\ (from \in Lossy \/ ~delivered))

\* The end of CommitRoutes and CommitDevices: the new state of d stays in place
\* even if the cluster turns out larger than expected, but only then it is
\* neither committed nor answered with success.
Finish(d, s, from, answer) ==
    /\ Updates(d, ShutdownAtExpectedSize(d, s))
    /\ IF Overflows(d, s) THEN answer = "failed" /\ UNCHANGED session
       ELSE answer \in Answered(from) /\ Commits(d, s)

\* Mutant: the trust is not committed.
AuthenticateInMemory(d, from) ==
    LET t == [as[d] EXCEPT !.trusted = @ \cup {from}]
    IN  /\ Updates(d, IF t.addresses[from] = NoAddr THEN t
                      ELSE AddAuthoritativeRoute(t, d, from, t.addresses[from]))
        /\ UNCHANGED session

\* Mutant: a route is added even if the address is not known.
AuthenticateNoAddress(d, from) ==
    LET t == [as[d] EXCEPT !.trusted = @ \cup {from}]
        s == AddAuthoritativeRoute(t, d, from, t.addresses[from])
    IN  Updates(d, s) /\ Commits(d, s)

\* Mutant: a peer discovered before it authenticated gets no route.
AuthenticateNoRoute(d, from) ==
    LET s == [as[d] EXCEPT !.trusted = @ \cup {from}]
    IN  Updates(d, s) /\ Commits(d, s)

\* AuthenticateAndCommit of a message from device `from`.
AuthenticateAndCommit(d, from) ==
    LET t == [as[d] EXCEPT !.trusted = @ \cup {from}]
        s == IF t.addresses[from] = NoAddr THEN t
             ELSE AddAuthoritativeRoute(t, d, from, t.addresses[from])
    IN  Updates(d, s) /\ Commits(d, s)

CommitRoutes(d, from, R, answer) ==
    Finish(d, RecordRoutes(RecordDevicesKnownBy(as[d], from, DevicesIn(R)), from, R), from, answer)

CommitDevices(d, from, ids, answer) ==
    Finish(d, VerifyRoutes([as[d] EXCEPT !.ids = @ \cup ids]), from, answer)

CommitDeviceQueries(d, from, unknowns) ==
    LET s == RecordIncomingQuery(as[d], from, unknowns)
    IN  Updates(d, s) /\ Commits(d, s)

-----------------------------------------------------------------------------
(* publishAuthAndCommit.  A goroutine holds the lock from where it gets an  *)
(* answer to where it sends its next request, or ends its round.           *)

\* How a round can go on with addresses todo.
AuthTurns(todo) ==
    IF todo = {} THEN {NoAuth}
    ELSE {[todo |-> todo \ {a}, at |-> a, answer |-> "sent"] : a \in todo}

\* Discovery reports some addresses; those known already are skipped.
Discover(d, found) ==
    LET todo == (found \ {Listen[d]}) \ as[d].discovered
    IN  /\ d \in running /\ auth[d] = NoAuth
        /\ \E g \in AuthTurns(todo) : auth' = [auth EXCEPT ![d] = g]
        /\ IF todo = {} THEN Commits(d, as[d]) ELSE UNCHANGED session
        /\ UNCHANGED <<as, gossip, talk, running, boundVars>>

AuthDelivered(d, answer) ==
    LET to == Owner[auth[d].at]
    IN  /\ auth[d].answer = "sent" /\ to \in running
        /\ AuthenticateAndCommit(to, d)
        /\ answer \in Answered(d)
        /\ auth' = [auth EXCEPT ![d].answer = answer]
        /\ UNCHANGED <<gossip, talk, running, boundVars>>

\* The peer at address a is known to be p.
Reached(d, p, a) ==
    LET t == [as[d] EXCEPT !.addresses[p] = a, !.discovered = @ \cup {a}]
    IN  IF p \in t.trusted THEN AddAuthoritativeRoute(t, d, p, a) ELSE t

\* A second address of a known peer is an error that ends the round without a
\* commit; otherwise the round goes on, and commits at its end.
AuthAnswered(d) ==
    LET a == auth[d].at
        p == Owner[a]
        ok == auth[d].answer = "ok"
        s == IF ok THEN Reached(d, p, a) ELSE as[d]
    IN  /\ Over(d, auth[d].answer, p \in running)
        /\ IF ok /\ as[d].addresses[p] \notin {NoAddr, a}
           THEN auth' = [auth EXCEPT ![d] = NoAuth] /\ UNCHANGED <<as, session>>
           ELSE /\ \E g \in AuthTurns(auth[d].todo) : auth' = [auth EXCEPT ![d] = g]
                /\ Updates(d, s)
                /\ IF auth[d].todo = {} THEN Commits(d, s) ELSE UNCHANGED session
        /\ UNCHANGED <<gossip, talk, running, boundVars>>

-----------------------------------------------------------------------------
(* publishRoutes.                                                          *)

Available(s) == {p \in s.trusted : s.addresses[p] # NoAddr}

\* How a round can go on in state s with peers todo: some peers there is nothing
\* to send to are passed over on the way to the next one, or all of them.
GossipTurns(d, s, todo) ==
    LET empty == {p \in todo : p = d \/ Selections(s, p) = {}}
        next(p) == {[todo |-> todo \ (passed \cup {p}), to |-> p, routes |-> R, answer |-> "sent"] :
                       passed \in SUBSET empty, R \in Selections(s, p)}
    IN  (UNION {next(p) : p \in todo \ empty})
        \cup (IF todo = empty THEN {NoGossip} ELSE {})

PublishRoutes(d, selected) ==
    LET available == Available(as[d])
    IN  /\ d \in running /\ gossip[d] = NoGossip
        /\ selected \subseteq available
        /\ IF Cardinality(available) <= MaxPeers THEN selected = available
           ELSE Cardinality(selected) = MaxPeers
        /\ \E g \in GossipTurns(d, as[d], selected) : gossip' = [gossip EXCEPT ![d] = g]
        /\ UNCHANGED <<as, auth, talk, running, session, boundVars>>

RoutesDelivered(d, answer) ==
    LET to == gossip[d].to
    IN  /\ gossip[d].answer = "sent" /\ Accepts(to, d)
        /\ CommitRoutes(to, d, gossip[d].routes, answer)
        /\ gossip' = [gossip EXCEPT ![d].answer = answer]
        /\ UNCHANGED <<auth, talk, running, boundVars>>

\* Mutant: routes are acknowledged without a look at the error.
RoutesAnsweredAnyway(d) ==
    LET s == [as[d] EXCEPT !.knownByPeers[gossip[d].to] = @ \cup gossip[d].routes]
    IN  /\ Over(d, gossip[d].answer, Accepts(gossip[d].to, d))
        /\ Updates(d, s)
        /\ \E g \in GossipTurns(d, s, gossip[d].todo) : gossip' = [gossip EXCEPT ![d] = g]
        /\ UNCHANGED <<auth, talk, running, session, boundVars>>

\* ack() on success only.
RoutesAnswered(d) ==
    LET s == IF gossip[d].answer = "ok"
             THEN [as[d] EXCEPT !.knownByPeers[gossip[d].to] = @ \cup gossip[d].routes]
             ELSE as[d]
    IN  /\ Over(d, gossip[d].answer, Accepts(gossip[d].to, d))
        /\ Updates(d, s)
        /\ \E g \in GossipTurns(d, s, gossip[d].todo) : gossip' = [gossip EXCEPT ![d] = g]
        /\ UNCHANGED <<auth, talk, running, session, boundVars>>

-----------------------------------------------------------------------------
(* publishDeviceQueries and publishDevicesAndCommit.                       *)

\* What there is to send to p in state s.
Outgoing(s, mode, p) ==
    IF p \notin Available(s) THEN {}
    ELSE IF mode = "query" THEN OutgoingQueriesTo(s, p)
    ELSE ResponsesTo(s, p)

TalkTurns(s, mode, todo) ==
    LET empty == {p \in todo : Outgoing(s, mode, p) = {}}
    IN  {[mode |-> mode, todo |-> todo \ (passed \cup {p}), to |-> p,
          what |-> Outgoing(s, mode, p), answer |-> "sent"] :
            passed \in SUBSET empty, p \in todo \ empty}
        \cup (IF todo = empty THEN {NoTalk} ELSE {})

\* The critical section of the goroutine: it goes on in state s, and commits at
\* the end of a round of responses.
TalkOn(d, s, mode, todo) ==
    \E g \in TalkTurns(s, mode, todo) :
        /\ Updates(d, s)
        /\ talk' = [talk EXCEPT ![d] = g]
        /\ IF g = NoTalk /\ mode = "respond" THEN Commits(d, s) ELSE UNCHANGED session

\* The loop over the trusted peers may or may not see peers that are added while
\* it runs (late).
PublishDeviceQueries(d, late) ==
    /\ d \in running /\ talk[d] = NoTalk
    /\ as[d].pendingQueries
    /\ TalkOn(d, [as[d] EXCEPT !.pendingQueries = FALSE], "query", as[d].trusted \cup late)
    /\ UNCHANGED <<auth, gossip, running, boundVars>>

PublishDevicesAndCommit(d, late) ==
    /\ d \in running /\ talk[d] = NoTalk
    /\ as[d].pendingResponses
    /\ TalkOn(d, [as[d] EXCEPT !.pendingResponses = FALSE], "respond", as[d].trusted \cup late)
    /\ UNCHANGED <<auth, gossip, running, boundVars>>

DevicesDelivered(d, answer) ==
    LET to == talk[d].to
    IN  /\ talk[d].answer = "sent" /\ Accepts(to, d)
        /\ \/ talk[d].mode = "query" /\ answer \in Answered(d)
              /\ CommitDeviceQueries(to, d, talk[d].what)
           \/ talk[d].mode = "respond" /\ CommitDevices(to, d, talk[d].what, answer)
        /\ talk' = [talk EXCEPT ![d].answer = answer]
        /\ UNCHANGED <<auth, gossip, running, boundVars>>

\* Mutant: a query that could not be sent is not queued again.
QueriesAnsweredOnce(d) ==
    LET s == IF talk[d].answer = "ok"
             THEN [as[d] EXCEPT !.inflight = @ \cup talk[d].what]
             ELSE as[d]
    IN  /\ talk[d].mode = "query" /\ Over(d, talk[d].answer, Accepts(talk[d].to, d))
        /\ TalkOn(d, s, "query", talk[d].todo)
        /\ UNCHANGED <<auth, gossip, running, boundVars>>

\* ack(err == nil) of the queries, and of the responses.
QueriesAnswered(d) ==
    LET s == IF talk[d].answer = "ok"
             THEN [as[d] EXCEPT !.inflight = @ \cup talk[d].what]
             ELSE [as[d] EXCEPT !.pendingQueries = TRUE]
    IN  /\ talk[d].mode = "query" /\ Over(d, talk[d].answer, Accepts(talk[d].to, d))
        /\ TalkOn(d, s, "query", talk[d].todo)
        /\ UNCHANGED <<auth, gossip, running, boundVars>>

ResponsesAnswered(d) ==
    LET s == IF talk[d].answer = "ok"
             THEN [as[d] EXCEPT !.queries[talk[d].to] = @ \ talk[d].what]
             ELSE [as[d] EXCEPT !.pendingResponses = TRUE]
    IN  /\ talk[d].mode = "respond" /\ Over(d, talk[d].answer, Accepts(talk[d].to, d))
        /\ TalkOn(d, s, "respond", talk[d].todo)
        /\ UNCHANGED <<auth, gossip, running, boundVars>>

-----------------------------------------------------------------------------

\* A query has been in flight for longer than the timeout.
QueryTimesOut(d, x) ==
    /\ x \in as[d].inflight
    /\ timeouts < MaxTimeouts /\ timeouts' = timeouts + 1
    /\ as' = [as EXCEPT ![d].inflight = @ \ {x}]
    /\ UNCHANGED <<auth, gossip, talk, running, session, restarts>>

\* The context of Run is cancelled, and with it the server and all requests.
Cancelled(d) ==
    /\ auth' = [auth EXCEPT ![d] = NoAuth]
    /\ gossip' = [gossip EXCEPT ![d] = NoGossip]
    /\ talk' = [talk EXCEPT ![d] = NoTalk]

\* Rounds that are under way find that all their requests fail, and end.
RunReturns(d) ==
    /\ d \in running /\ as[d].completed
    /\ running' = running \ {d}
    /\ Cancelled(d)
    /\ IF auth[d] # NoAuth \/ talk[d].mode = "respond" THEN Commits(d, as[d])
       ELSE UNCHANGED session
    /\ UNCHANGED <<as, boundVars>>

\* The device stops at any moment and resumes its session.
Restart(d) ==
    /\ restarts < MaxRestarts /\ restarts' = restarts + 1
    /\ as' = [as EXCEPT ![d] = NewAssembleState(d, session[d])]
    /\ running' = IF Overflows(d, as'[d]) THEN running \ {d} ELSE running \cup {d}
    /\ Cancelled(d)
    /\ UNCHANGED <<session, timeouts>>

AuthStep(d) == \/ \E found \in SUBSET Discoverable[d] : found # {} /\ Discover(d, found)
               \/ \E answer \in Answers : AuthDelivered(d, answer)
               \/ AuthAnswered(d)

GossipStep(d) == \/ \E selected \in SUBSET Devices : PublishRoutes(d, selected)
                 \/ \E answer \in Answers : RoutesDelivered(d, answer)
                 \/ RoutesAnswered(d)

TalkStep(d) == \/ \E late \in SUBSET (Devices \ as[d].trusted) :
                      PublishDeviceQueries(d, late) \/ PublishDevicesAndCommit(d, late)
               \/ \E answer \in Answers : DevicesDelivered(d, answer)
               \/ QueriesAnswered(d)
               \/ ResponsesAnswered(d)

Next == \E d \in Devices : \/ AuthStep(d)
                           \/ GossipStep(d)
                           \/ TalkStep(d)
                           \/ \E x \in Devices : QueryTimesOut(d, x)
                           \/ RunReturns(d)
                           \/ Restart(d)

Spec == Init /\ [][Next]_vars

-----------------------------------------------------------------------------
(* What the protocol promises.                                             *)

\* Every route that any device holds joins two devices that have authenticated
\* each other, over any order of discoveries, auth messages, lost answers and
\* restarts (AddAuthoritativeRoute is only called for trusted peers reached).
MutualTrust ==
    \A d \in Devices : \A r \in as[d].edges :
        r[1] \in as[r[2]].trusted /\ r[2] \in as[r[1]].trusted

\* "If this local node is queried for devices that we do not know, either this
\* local node or the requesting peer has a bug" (CommitDeviceQueries): it never
\* is, as only routes between identified devices are published.
QueriesAnswerable ==
    \A d \in Devices : talk[d].mode = "query" /\ talk[d].answer # "none" =>
        talk[d].what \subseteq as[talk[d].to].ids

\* A device has an authoritative route to every peer it trusts and can reach,
\* whichever of the two came first, also after a restart.
RoutesToPeers ==
    \A d \in Devices :
        as[d].authoritative = {<<d, p, as[d].addresses[p]>> : p \in Available(as[d])}

\* knownByPeers is not wishful: what a device believes a peer to know, and so
\* will never send to it again, the peer has.
PeersKnowRoutes ==
    \A d, p \in Devices : as[d].knownByPeers[p] \subseteq as[p].edges

\* A device stops only when it has identified as many devices as expected and
\* holds a route between any two of them (completed).
CompleteIsConnected ==
    \A d \in Devices : as[d].completed =>
        /\ Cardinality(as[d].ids) = Expected[d]
        /\ \A p, q \in as[d].ids : p # q => \E a \in Addresses : <<p, q, a>> \in as[d].verified

\* "number of devices in the cluster is greater than expected" (Complete): a device
\* counts routes, and refuses routes and identities for this reason only when it has
\* identified more devices than it expects.
TooManyMeansMoreDevices ==
    \A d \in Devices : Overflows(d, as[d]) => Cardinality(as[d].ids) > Expected[d]

\* Routes are published periodically, signals are answered, and a request that is
\* repeated for ever is delivered and answered some time.
Fairness ==
    \A d \in Devices : /\ WF_vars(GossipStep(d))
                      /\ WF_vars(TalkStep(d))
                      /\ SF_vars(RoutesDelivered(d, "ok"))
                      /\ SF_vars(DevicesDelivered(d, "ok"))

FairSpec == Spec /\ Fairness

\* Every device comes to hold every route that discovery can find between two of
\* them, in both directions, whatever requests and answers are lost (publishRoutes,
\* and the acknowledgements of queries and responses).
Converges ==
    <>[](\A d, p \in Devices : \A q \in Devices \ {p} :
            Listen[q] \in Discoverable[p] => <<p, q, Listen[q]>> \in as[d].verified)
=============================================================================
