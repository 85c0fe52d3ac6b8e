--------------------------- MODULE AssembleProofs ---------------------------
(* Theorems about Assemble, for every number of devices and addresses, every *)
(* discovery and every number of restarts.                                   *)
EXTENDS Assemble, TLAPS

-----------------------------------------------------------------------------
(* What the methods of AssembleState return.                               *)

LEMMA RouteParts ==
  ASSUME NEW r \in Routes PROVE r[1] \in Devices /\ r[2] \in Devices /\ r[3] \in Addresses
  BY DEF Routes

LEMMA AddAuthoritativeRouteType ==
  ASSUME NEW s \in States, NEW d \in Devices, NEW p \in Devices, NEW a \in Addresses
  PROVE  AddAuthoritativeRoute(s, d, p, a) \in States
<1>1. <<d, p, a>> \in Routes
  BY DEF Routes
<1>2. s.edges \cup {<<d, p, a>>} \subseteq Routes
  BY <1>1 DEF States
<1>3. {r \in s.authoritative : r[2] # p} \cup {<<d, p, a>>} \subseteq Routes
  BY <1>1 DEF States
<1>4. QED
  BY <1>2, <1>3 DEF AddAuthoritativeRoute, States

LEMMA DevicesInType == ASSUME NEW R \in SUBSET Routes PROVE DevicesIn(R) \subseteq Devices
  BY RouteParts DEF DevicesIn

LEMMA RecordRoutesType ==
  ASSUME NEW s \in States, NEW p \in Devices, NEW R \in SUBSET Routes
  PROVE  RecordRoutes(s, p, R) \in States
<1>1. s.knownByPeers \in [Devices -> SUBSET Routes] /\ s.edges \subseteq Routes /\ s.verified \subseteq Routes
  BY DEF States
<1>2. [s.knownByPeers EXCEPT ![p] = @ \cup R] \in [Devices -> SUBSET Routes]
  BY <1>1
<1>3. s.verified \cup Identified(s, R) \subseteq Routes /\ s.edges \cup R \subseteq Routes
  BY <1>1 DEF Identified
<1>4. QED
  BY <1>2, <1>3 DEF RecordRoutes, States

LEMMA VerifyRoutesType == ASSUME NEW s \in States PROVE VerifyRoutes(s) \in States
<1>1. s.verified \cup Identified(s, s.edges) \subseteq Routes
  BY DEF Identified, States
<1>2. QED
  BY <1>1 DEF VerifyRoutes, States

LEMMA RecordIncomingQueryType ==
  ASSUME NEW s \in States, NEW p \in Devices, NEW U \in SUBSET Devices
  PROVE  RecordIncomingQuery(s, p, U) \in States
<1>1. s.queries \in [Devices -> SUBSET Devices] /\ s.ids \subseteq Devices
  BY DEF States
<1>2. [s.queries EXCEPT ![p] = @ \cup (U \cap s.ids)] \in [Devices -> SUBSET Devices]
  BY <1>1
<1>3. (s.pendingResponses \/ U \cap s.ids # {}) \in BOOLEAN
  OBVIOUS
<1>4. QED
  BY <1>2, <1>3 DEF RecordIncomingQuery, States

LEMMA RecordDevicesKnownByType ==
  ASSUME NEW s \in States, NEW p \in Devices, NEW K \in SUBSET Devices
  PROVE  RecordDevicesKnownBy(s, p, K) \in States
<1>1. s.known \in [Devices -> SUBSET Devices]
  BY DEF States
<1>2. [s.known EXCEPT ![p] = @ \cup K] \in [Devices -> SUBSET Devices]
  BY <1>1
<1>3. (s.pendingQueries \/ K \ s.ids # {}) \in BOOLEAN
  OBVIOUS
<1>4. QED
  BY <1>2, <1>3 DEF RecordDevicesKnownBy, States

LEMMA ShutdownType ==
  ASSUME NEW s \in States, NEW d \in Devices PROVE ShutdownAtExpectedSize(d, s) \in States
<1>1. (s.completed \/ (Expected[d] # 0 /\ Complete(s, Expected[d]))) \in BOOLEAN
  OBVIOUS
<1>2. QED
  BY <1>1 DEF ShutdownAtExpectedSize, States

LEMMA ExportType == ASSUME NEW s \in States PROVE Export(s) \in Sessions
  BY DEF Export, States, Sessions

LEMMA NewAssembleStateType ==
  ASSUME NEW d \in Devices, NEW e \in Sessions PROVE NewAssembleState(d, e) \in States
<1> DEFINE ids == e.ids \cup {d}
           trusted == e.trusted \cup {d}
           direct == {<<d, p, e.addresses[p]>> : p \in {q \in trusted : e.addresses[q] # NoAddr}}
           queries == [p \in Devices |-> e.queries[p] \cap ids]
           s == [trusted |-> trusted, addresses |-> e.addresses, discovered |-> e.discovered,
                 ids |-> ids, known |-> e.known, queries |-> queries, inflight |-> {},
                 pendingQueries |-> \E p \in Devices : e.known[p] \ ids # {},
                 pendingResponses |-> \E p \in Devices : queries[p] # {},
                 edges |-> e.routes \cup direct,
                 verified |-> {r \in e.routes : r[1] \in ids /\ r[2] \in ids},
                 knownByPeers |-> [p \in Devices |-> IF p = d THEN e.routes ELSE {}],
                 authoritative |-> direct, completed |-> FALSE]
<1>1. ids \subseteq Devices /\ trusted \subseteq Devices /\ e.routes \subseteq Routes
  BY DEF Sessions
<1>2. e.addresses \in [Devices -> Addresses \cup {NoAddr}] /\ e.discovered \subseteq Addresses
      /\ e.known \in [Devices -> SUBSET Devices] /\ e.queries \in [Devices -> SUBSET Devices]
  BY DEF Sessions
<1>3. direct \subseteq Routes
  BY <1>1, <1>2 DEF Routes
<1>4. queries \in [Devices -> SUBSET Devices]
  BY <1>2
<1>5. [p \in Devices |-> IF p = d THEN e.routes ELSE {}] \in [Devices -> SUBSET Routes]
  BY <1>1
<1>6. /\ (\E p \in Devices : e.known[p] \ ids # {}) \in BOOLEAN
      /\ (\E p \in Devices : queries[p] # {}) \in BOOLEAN
  OBVIOUS
<1>7. {r \in e.routes : r[1] \in ids /\ r[2] \in ids} \subseteq Routes
  BY <1>1
<1> HIDE DEF ids, trusted, direct, queries
<1>8. s \in States
  BY <1>1, <1>2, <1>3, <1>4, <1>5, <1>6, <1>7 DEF States
<1>9. NewAssembleState(d, e) = ShutdownAtExpectedSize(d, s)
  BY DEF NewAssembleState, ids, trusted, direct, queries
<1>10. QED
  BY <1>8, <1>9, ShutdownType

-----------------------------------------------------------------------------
(* How rounds go on.                                                       *)

AuthRounds == [todo : SUBSET Addresses, at : Addresses \cup {NoAddr}, answer : Answers]
GossipRounds == [todo : SUBSET Devices, to : Devices \cup {NoDevice},
                 routes : SUBSET Routes, answer : Answers]
TalkRounds == [mode : {"idle", "query", "respond"}, todo : SUBSET Devices,
               to : Devices \cup {NoDevice}, what : SUBSET Devices, answer : Answers]

\* A request that is under way, or has been answered, has an addressee.
AuthTo(g) == g.answer # "none" => g.at \in Addresses
RequestTo(g) == g.answer # "none" => g.to \in Devices

LEMMA NoRounds ==
  /\ NoAuth \in AuthRounds /\ AuthTo(NoAuth)
  /\ NoGossip \in GossipRounds /\ RequestTo(NoGossip) /\ NoGossip.routes = {}
  /\ NoTalk \in TalkRounds /\ RequestTo(NoTalk)
  BY DEF NoAuth, NoGossip, NoTalk, AuthRounds, GossipRounds, TalkRounds, Answers, AuthTo, RequestTo

LEMMA AuthTurnsType ==
  ASSUME NEW todo \in SUBSET Addresses, NEW g \in AuthTurns(todo)
  PROVE  g \in AuthRounds /\ AuthTo(g) /\ g.answer \in {"none", "sent"}
<1>1. CASE todo = {}
  <2>1. g = NoAuth
    BY <1>1 DEF AuthTurns
  <2>2. QED
    BY <2>1, NoRounds DEF NoAuth
<1>2. CASE todo # {}
  <2>1. PICK a \in todo : g = [todo |-> todo \ {a}, at |-> a, answer |-> "sent"]
    BY <1>2 DEF AuthTurns
  <2>2. QED
    BY <2>1 DEF AuthRounds, AuthTo, Answers
<1>3. QED
  BY <1>1, <1>2

LEMMA SelectionsType ==
  ASSUME NEW s \in States, NEW p \in Devices, NEW R \in Selections(s, p)
  PROVE  R \subseteq s.verified \cup s.authoritative
  BY DEF Selections

LEMMA GossipTurnsType ==
  ASSUME NEW d \in Devices, NEW s \in States, NEW todo \in SUBSET Devices,
         NEW g \in GossipTurns(d, s, todo)
  PROVE  g \in GossipRounds /\ RequestTo(g) /\ g.routes \subseteq s.verified \cup s.authoritative
<1>1. CASE g = NoGossip
  BY <1>1, NoRounds
<1>2. CASE g # NoGossip
  <2>1. PICK p \in todo, passed \in SUBSET todo : \E R \in Selections(s, p) :
            g = [todo |-> todo \ (passed \cup {p}), to |-> p, routes |-> R, answer |-> "sent"]
    BY <1>2 DEF GossipTurns
  <2> PICK R \in Selections(s, p) :
            g = [todo |-> todo \ (passed \cup {p}), to |-> p, routes |-> R, answer |-> "sent"]
    BY <2>1
  <2>2. R \subseteq s.verified \cup s.authoritative
    BY SelectionsType
  <2>3. s.verified \cup s.authoritative \subseteq Routes
    BY DEF States
  <2>4. QED
    BY <2>1, <2>2, <2>3 DEF GossipRounds, RequestTo, Answers
<1>3. QED
  BY <1>1, <1>2

LEMMA TalkTurnsType ==
  ASSUME NEW s \in States, NEW mode \in {"query", "respond"}, NEW todo \in SUBSET Devices,
         NEW g \in TalkTurns(s, mode, todo)
  PROVE  g \in TalkRounds /\ RequestTo(g)
<1>1. CASE g = NoTalk
  BY <1>1, NoRounds
<1>2. CASE g # NoTalk
  <2>1. PICK p \in todo, passed \in SUBSET todo :
            g = [mode |-> mode, todo |-> todo \ (passed \cup {p}), to |-> p,
                 what |-> Outgoing(s, mode, p), answer |-> "sent"]
    BY <1>2 DEF TalkTurns
  <2>2. Outgoing(s, mode, p) \subseteq Devices
    BY DEF Outgoing, OutgoingQueriesTo, ResponsesTo, States
  <2>3. QED
    BY <2>1, <2>2 DEF TalkRounds, RequestTo, Answers
<1>3. QED
  BY <1>1, <1>2
-----------------------------------------------------------------------------
(* Type correctness, with the addressees of requests.                      *)

Requests == \A d \in Devices : AuthTo(auth[d]) /\ RequestTo(gossip[d]) /\ RequestTo(talk[d])

TypeInv == AssembleTypeOK /\ Requests

\* The types of what one action changes together.
StatesOK == as \in [Devices -> States] /\ session \in [Devices -> Sessions]
AuthOK == auth \in [Devices -> AuthRounds] /\ \A d \in Devices : AuthTo(auth[d])
GossipOK == gossip \in [Devices -> GossipRounds] /\ \A d \in Devices : RequestTo(gossip[d])
TalkOK == talk \in [Devices -> TalkRounds] /\ \A d \in Devices : RequestTo(talk[d])
BoundsOK == restarts \in 0..MaxRestarts /\ timeouts \in 0..MaxTimeouts

LEMMA TypeInvParts ==
  TypeInv <=> StatesOK /\ AuthOK /\ GossipOK /\ TalkOK /\ BoundsOK /\ running \subseteq Devices
  BY DEF TypeInv, AssembleTypeOK, Requests, StatesOK, AuthOK, GossipOK, TalkOK, BoundsOK,
         AuthRounds, GossipRounds, TalkRounds

LEMMA TypeInvPartsNext ==
  TypeInv' <=> StatesOK' /\ AuthOK' /\ GossipOK' /\ TalkOK' /\ BoundsOK' /\ running' \subseteq Devices
  BY DEF TypeInv, AssembleTypeOK, Requests, StatesOK, AuthOK, GossipOK, TalkOK, BoundsOK,
         AuthRounds, GossipRounds, TalkRounds

LEMMA UpdatesType ==
  ASSUME StatesOK, NEW d \in Devices, NEW s \in States, Updates(d, s),
         Commits(d, s) \/ UNCHANGED session
  PROVE  StatesOK'
  BY ExportType DEF StatesOK, Updates, Commits

LEMMA FinishType ==
  ASSUME StatesOK, NEW d \in Devices, NEW s \in States, NEW from, NEW answer, Finish(d, s, from, answer)
  PROVE  StatesOK' /\ answer \in {"ok", "failed"}
<1>1. ShutdownAtExpectedSize(d, s) \in States
  BY ShutdownType
<1>2. as' \in [Devices -> States]
  BY <1>1 DEF Finish, Updates, StatesOK
<1>3. session' \in [Devices -> Sessions]
  BY ExportType DEF Finish, Commits, StatesOK
<1>4. answer \in {"ok", "failed"}
  BY DEF Finish, Answered
<1>5. QED
  BY <1>2, <1>3, <1>4 DEF StatesOK

LEMMA AuthSet ==
  ASSUME AuthOK, NEW d \in Devices, NEW g \in AuthRounds, AuthTo(g), auth' = [auth EXCEPT ![d] = g]
  PROVE  AuthOK'
  BY DEF AuthOK

LEMMA GossipSet ==
  ASSUME GossipOK, NEW d \in Devices, NEW g \in GossipRounds, RequestTo(g),
         gossip' = [gossip EXCEPT ![d] = g]
  PROVE  GossipOK'
  BY DEF GossipOK

LEMMA TalkSet ==
  ASSUME TalkOK, NEW d \in Devices, NEW g \in TalkRounds, RequestTo(g), talk' = [talk EXCEPT ![d] = g]
  PROVE  TalkOK'
  BY DEF TalkOK

LEMMA CancelledType ==
  ASSUME AuthOK, GossipOK, TalkOK, NEW d \in Devices, Cancelled(d)
  PROVE  AuthOK' /\ GossipOK' /\ TalkOK'
  BY AuthSet, GossipSet, TalkSet, NoRounds DEF Cancelled

\* What AuthenticateAndCommit makes of the state.
Authenticated(d, from) ==
    LET t == [as[d] EXCEPT !.trusted = @ \cup {from}]
    IN  IF t.addresses[from] = NoAddr THEN t
        ELSE AddAuthoritativeRoute(t, d, from, t.addresses[from])

LEMMA AuthenticatedType ==
  ASSUME StatesOK, NEW d \in Devices, NEW p \in Devices PROVE Authenticated(d, p) \in States
<1> DEFINE t == [as[d] EXCEPT !.trusted = @ \cup {p}]
<1> as[d] \in States
  BY DEF StatesOK
<1> as[d].trusted \cup {p} \subseteq Devices
  BY DEF States
<1>1. t \in States
  BY DEF States
<1>2. t.addresses[p] \in Addresses \cup {NoAddr}
  BY <1>1 DEF States
<1> HIDE DEF t
<1>3. (IF t.addresses[p] = NoAddr THEN t ELSE AddAuthoritativeRoute(t, d, p, t.addresses[p])) \in States
  BY <1>1, <1>2, AddAuthoritativeRouteType
<1>4. QED
  BY <1>3 DEF Authenticated, t

LEMMA ReachedType ==
  ASSUME StatesOK, NEW d \in Devices, NEW p \in Devices, NEW a \in Addresses
  PROVE  Reached(d, p, a) \in States
<1> DEFINE t == [as[d] EXCEPT !.addresses[p] = a, !.discovered = @ \cup {a}]
<1> as[d] \in States
  BY DEF StatesOK
<1> [as[d].addresses EXCEPT ![p] = a] \in [Devices -> Addresses \cup {NoAddr}]
    /\ as[d].discovered \cup {a} \subseteq Addresses
  BY DEF States
<1>1. t \in States
  BY DEF States
<1> HIDE DEF t
<1>2. (IF p \in t.trusted THEN AddAuthoritativeRoute(t, d, p, a) ELSE t) \in States
  BY <1>1, AddAuthoritativeRouteType
<1>3. QED
  BY <1>2 DEF Reached, t

LEMMA TalkOnType ==
  ASSUME StatesOK, TalkOK, NEW d \in Devices, NEW s \in States, NEW mode \in {"query", "respond"},
         NEW todo \in SUBSET Devices, TalkOn(d, s, mode, todo)
  PROVE  StatesOK' /\ TalkOK' /\ Updates(d, s) /\ (Commits(d, s) \/ UNCHANGED session)
<1> PICK g \in TalkTurns(s, mode, todo) :
        /\ Updates(d, s)
        /\ talk' = [talk EXCEPT ![d] = g]
        /\ IF g = NoTalk /\ mode = "respond" THEN Commits(d, s) ELSE UNCHANGED session
  BY DEF TalkOn
<1>1. g \in TalkRounds /\ RequestTo(g)
  BY TalkTurnsType
<1>2. TalkOK'
  BY <1>1, TalkSet
<1>3. QED
  BY <1>2, UpdatesType
LEMMA AuthStepType == ASSUME TypeInv, NEW d \in Devices, AuthStep(d) PROVE TypeInv'
<1> StatesOK /\ AuthOK /\ GossipOK /\ TalkOK /\ BoundsOK /\ running \subseteq Devices
  BY TypeInvParts
<1> as[d] \in States /\ auth[d] \in AuthRounds /\ AuthTo(auth[d])
  BY DEF StatesOK, AuthOK
<1> SUFFICES /\ StatesOK' /\ AuthOK'
             /\ UNCHANGED <<gossip, talk, running, boundVars>>
  BY TypeInvPartsNext DEF GossipOK, TalkOK, BoundsOK, boundVars
<1>1. ASSUME NEW found \in SUBSET Discoverable[d], Discover(d, found)
      PROVE  StatesOK' /\ AuthOK' /\ UNCHANGED <<gossip, talk, running, boundVars>>
  <2> DEFINE todo == (found \ {Listen[d]}) \ as[d].discovered
  <2>1. todo \in SUBSET Addresses
    BY AssembleAssumption
  <2>2. PICK g \in AuthTurns(todo) : auth' = [auth EXCEPT ![d] = g]
    BY <1>1 DEF Discover
  <2>3. g \in AuthRounds /\ AuthTo(g)
    BY <2>1, AuthTurnsType
  <2>4. AuthOK'
    BY <2>2, <2>3, AuthSet
  <2>5. StatesOK'
    BY <1>1, ExportType DEF Discover, Commits, StatesOK
  <2>6. QED
    BY <1>1, <2>4, <2>5 DEF Discover
<1>2. ASSUME NEW answer, AuthDelivered(d, answer)
      PROVE  StatesOK' /\ AuthOK' /\ UNCHANGED <<gossip, talk, running, boundVars>>
  <2> DEFINE to == Owner[auth[d].at]
  <2>1. auth[d].at \in Addresses /\ to \in Devices
    BY <1>2, AssembleAssumption DEF AuthDelivered, AuthTo
  <2> HIDE DEF to
  <2>2. Updates(to, Authenticated(to, d)) /\ Commits(to, Authenticated(to, d))
    BY <1>2 DEF AuthDelivered, AuthenticateAndCommit, Authenticated, to
  <2>3. StatesOK'
    BY <2>1, <2>2, AuthenticatedType, UpdatesType
  <2>4. answer \in Answers /\ answer # "none"
    BY <1>2 DEF AuthDelivered, Answered, Answers
  <2>5. [auth[d] EXCEPT !.answer = answer] \in AuthRounds /\ AuthTo([auth[d] EXCEPT !.answer = answer])
    BY <2>1, <2>4 DEF AuthRounds, AuthTo
  <2>6. auth' = [auth EXCEPT ![d] = [auth[d] EXCEPT !.answer = answer]]
    BY <1>2 DEF AuthDelivered, AuthOK
  <2>7. QED
    BY <1>2, <2>3, <2>5, <2>6, AuthSet DEF AuthDelivered
<1>3. CASE AuthAnswered(d)
  <2> DEFINE a == auth[d].at
             pp == Owner[a]
             s == IF auth[d].answer = "ok" THEN Reached(d, pp, a) ELSE as[d]
  <2>1. a \in Addresses /\ pp \in Devices
    BY <1>3, AssembleAssumption DEF AuthAnswered, Over, AuthTo
  <2>2. s \in States
    BY <2>1, ReachedType
  <2>3. auth[d].todo \in SUBSET Addresses
    BY DEF AuthRounds
  <2>4. CASE auth' = [auth EXCEPT ![d] = NoAuth] /\ UNCHANGED <<as, session>>
    BY <1>3, <2>4, NoRounds, AuthSet DEF StatesOK, AuthAnswered
  <2>5. CASE /\ \E g \in AuthTurns(auth[d].todo) : auth' = [auth EXCEPT ![d] = g]
             /\ Updates(d, s)
             /\ Commits(d, s) \/ UNCHANGED session
    <3>1. PICK g \in AuthTurns(auth[d].todo) : auth' = [auth EXCEPT ![d] = g]
      BY <2>5
    <3>2. AuthOK'
      BY <3>1, <2>3, AuthTurnsType, AuthSet
    <3>3. StatesOK'
      BY <2>2, <2>5, UpdatesType
    <3>4. QED
      BY <1>3, <3>2, <3>3 DEF AuthAnswered
  <2>6. QED
    BY <1>3, <2>4, <2>5 DEF AuthAnswered
<1>4. QED
  BY <1>1, <1>2, <1>3 DEF AuthStep

LEMMA GossipStepType == ASSUME TypeInv, NEW d \in Devices, GossipStep(d) PROVE TypeInv'
<1> StatesOK /\ AuthOK /\ GossipOK /\ TalkOK /\ BoundsOK /\ running \subseteq Devices
  BY TypeInvParts
<1> as[d] \in States /\ gossip[d] \in GossipRounds /\ RequestTo(gossip[d])
  BY DEF StatesOK, GossipOK
<1> SUFFICES /\ StatesOK' /\ GossipOK'
             /\ UNCHANGED <<auth, talk, running, boundVars>>
  BY TypeInvPartsNext DEF AuthOK, TalkOK, BoundsOK, boundVars
<1>1. ASSUME NEW selected \in SUBSET Devices, PublishRoutes(d, selected)
      PROVE  StatesOK' /\ GossipOK' /\ UNCHANGED <<auth, talk, running, boundVars>>
  <2>1. PICK g \in GossipTurns(d, as[d], selected) : gossip' = [gossip EXCEPT ![d] = g]
    BY <1>1 DEF PublishRoutes
  <2>2. GossipOK'
    BY <2>1, GossipTurnsType, GossipSet
  <2>3. QED
    BY <1>1, <2>2 DEF PublishRoutes, StatesOK
<1>2. ASSUME NEW answer, RoutesDelivered(d, answer)
      PROVE  StatesOK' /\ GossipOK' /\ UNCHANGED <<auth, talk, running, boundVars>>
  <2> DEFINE to == gossip[d].to
             R == gossip[d].routes
             s == RecordRoutes(RecordDevicesKnownBy(as[to], d, DevicesIn(R)), d, R)
  <2>1. to \in Devices /\ R \in SUBSET Routes
    BY <1>2 DEF RoutesDelivered, RequestTo, GossipRounds
  <2>2. as[to] \in States
    BY <2>1 DEF StatesOK
  <2>3. s \in States
    BY <2>1, <2>2, DevicesInType, RecordDevicesKnownByType, RecordRoutesType
  <2>4. Finish(to, s, d, answer)
    BY <1>2 DEF RoutesDelivered, CommitRoutes
  <2> HIDE DEF s, to, R
  <2>5. StatesOK' /\ answer \in {"ok", "failed"}
    BY <2>1, <2>3, <2>4, FinishType
  <2>6. [gossip[d] EXCEPT !.answer = answer] \in GossipRounds
        /\ RequestTo([gossip[d] EXCEPT !.answer = answer])
    BY <2>1, <2>5 DEF GossipRounds, RequestTo, Answers, to
  <2>7. gossip' = [gossip EXCEPT ![d] = [gossip[d] EXCEPT !.answer = answer]]
    BY <1>2 DEF RoutesDelivered, GossipOK
  <2>8. QED
    BY <1>2, <2>5, <2>6, <2>7, GossipSet DEF RoutesDelivered
<1>3. CASE RoutesAnswered(d)
  <2> DEFINE to == gossip[d].to
             t == [as[d] EXCEPT !.knownByPeers[to] = @ \cup gossip[d].routes]
             s == IF gossip[d].answer = "ok" THEN t ELSE as[d]
  <2>1. to \in Devices /\ gossip[d].routes \subseteq Routes /\ gossip[d].todo \in SUBSET Devices
    BY <1>3 DEF RoutesAnswered, Over, RequestTo, GossipRounds
  <2>2. [as[d].knownByPeers EXCEPT ![to] = @ \cup gossip[d].routes] \in [Devices -> SUBSET Routes]
    BY <2>1 DEF States
  <2>3. t \in States
    BY <2>2 DEF States
  <2>4. s \in States
    BY <2>3
  <2>5. Updates(d, s) /\ UNCHANGED session
    BY <1>3 DEF RoutesAnswered
  <2>6. PICK g \in GossipTurns(d, s, gossip[d].todo) : gossip' = [gossip EXCEPT ![d] = g]
    BY <1>3 DEF RoutesAnswered
  <2> HIDE DEF s
  <2>7. StatesOK'
    BY <2>4, <2>5, UpdatesType
  <2>8. GossipOK'
    BY <2>1, <2>4, <2>6, GossipTurnsType, GossipSet
  <2>9. QED
    BY <1>3, <2>7, <2>8 DEF RoutesAnswered
<1>4. QED
  BY <1>1, <1>2, <1>3 DEF GossipStep
LEMMA TalkStepType == ASSUME TypeInv, NEW d \in Devices, TalkStep(d) PROVE TypeInv'
<1> StatesOK /\ AuthOK /\ GossipOK /\ TalkOK /\ BoundsOK /\ running \subseteq Devices
  BY TypeInvParts
<1> as[d] \in States /\ talk[d] \in TalkRounds /\ RequestTo(talk[d])
  BY DEF StatesOK, TalkOK
<1> talk[d].todo \in SUBSET Devices /\ talk[d].what \in SUBSET Devices
  BY DEF TalkRounds
<1> SUFFICES /\ StatesOK' /\ TalkOK'
             /\ UNCHANGED <<auth, gossip, running, boundVars>>
  BY TypeInvPartsNext DEF AuthOK, GossipOK, BoundsOK, boundVars
<1>1. ASSUME NEW late \in SUBSET (Devices \ as[d].trusted),
             PublishDeviceQueries(d, late) \/ PublishDevicesAndCommit(d, late)
      PROVE  StatesOK' /\ TalkOK' /\ UNCHANGED <<auth, gossip, running, boundVars>>
  <2>1. as[d].trusted \cup late \in SUBSET Devices
    BY DEF States
  <2>2. [as[d] EXCEPT !.pendingQueries = FALSE] \in States
        /\ [as[d] EXCEPT !.pendingResponses = FALSE] \in States
    BY DEF States
  <2>3. CASE PublishDeviceQueries(d, late)
    BY <2>1, <2>2, <2>3, TalkOnType DEF PublishDeviceQueries
  <2>4. CASE PublishDevicesAndCommit(d, late)
    BY <2>1, <2>2, <2>4, TalkOnType DEF PublishDevicesAndCommit
  <2>5. QED
    BY <1>1, <2>3, <2>4
<1>2. ASSUME NEW answer, DevicesDelivered(d, answer)
      PROVE  StatesOK' /\ TalkOK' /\ UNCHANGED <<auth, gossip, running, boundVars>>
  <2> DEFINE to == talk[d].to
             query == RecordIncomingQuery(as[to], d, talk[d].what)
             t == [as[to] EXCEPT !.ids = @ \cup talk[d].what]
  <2>1. to \in Devices
    BY <1>2 DEF DevicesDelivered, RequestTo
  <2>2. as[to] \in States
    BY <2>1 DEF StatesOK
  <2>3. query \in States
    BY <2>2, RecordIncomingQueryType
  <2>4. as[to].ids \cup talk[d].what \subseteq Devices
    BY <2>2 DEF States
  <2>5. t \in States
    BY <2>2, <2>4 DEF States
  <2>6. VerifyRoutes(t) \in States
    BY <2>5, VerifyRoutesType
  <2>7. \/ answer \in Answered(d) /\ Updates(to, query) /\ Commits(to, query)
        \/ Finish(to, VerifyRoutes(t), d, answer)
    BY <1>2 DEF DevicesDelivered, CommitDeviceQueries, CommitDevices
  <2>8. talk' = [talk EXCEPT ![d] = [talk[d] EXCEPT !.answer = answer]]
    BY <1>2 DEF DevicesDelivered, TalkOK
  <2> HIDE DEF query, t
  <2>9. StatesOK' /\ answer \in {"ok", "failed"}
    BY <2>1, <2>3, <2>6, <2>7, UpdatesType, FinishType DEF Answered
  <2> [talk[d] EXCEPT !.answer = answer] \in TalkRounds
      /\ RequestTo([talk[d] EXCEPT !.answer = answer])
    BY <2>1, <2>9 DEF TalkRounds, RequestTo, Answers
  <2>10. QED
    BY <1>2, <2>8, <2>9, TalkSet DEF DevicesDelivered
<1>3. CASE QueriesAnswered(d)
  <2> DEFINE s == IF talk[d].answer = "ok" THEN [as[d] EXCEPT !.inflight = @ \cup talk[d].what]
                  ELSE [as[d] EXCEPT !.pendingQueries = TRUE]
  <2>1. as[d].inflight \cup talk[d].what \subseteq Devices
    BY DEF States
  <2>2. s \in States
    BY <2>1 DEF States
  <2>3. TalkOn(d, s, "query", talk[d].todo)
    BY <1>3 DEF QueriesAnswered
  <2> HIDE DEF s
  <2>4. QED
    BY <1>3, <2>2, <2>3, TalkOnType DEF QueriesAnswered
<1>4. CASE ResponsesAnswered(d)
  <2> DEFINE s == IF talk[d].answer = "ok"
                  THEN [as[d] EXCEPT !.queries[talk[d].to] = @ \ talk[d].what]
                  ELSE [as[d] EXCEPT !.pendingResponses = TRUE]
  <2>1. [as[d].queries EXCEPT ![talk[d].to] = @ \ talk[d].what] \in [Devices -> SUBSET Devices]
    BY DEF States
  <2>2. s \in States
    BY <2>1 DEF States
  <2>3. TalkOn(d, s, "respond", talk[d].todo)
    BY <1>4 DEF ResponsesAnswered
  <2> HIDE DEF s
  <2>4. QED
    BY <1>4, <2>2, <2>3, TalkOnType DEF ResponsesAnswered
<1>5. QED
  BY <1>1, <1>2, <1>3, <1>4 DEF TalkStep

LEMMA OtherStepType ==
  ASSUME TypeInv, NEW d \in Devices,
         (\E x \in Devices : QueryTimesOut(d, x)) \/ RunReturns(d) \/ Restart(d)
  PROVE  TypeInv'
<1> StatesOK /\ AuthOK /\ GossipOK /\ TalkOK /\ BoundsOK /\ running \subseteq Devices
  BY TypeInvParts
<1> as[d] \in States /\ session[d] \in Sessions
  BY DEF StatesOK
<1> restarts \in Nat /\ timeouts \in Nat /\ MaxRestarts \in Nat /\ MaxTimeouts \in Nat
  BY AssembleAssumption DEF BoundsOK
<1>1. ASSUME NEW x \in Devices, QueryTimesOut(d, x) PROVE TypeInv'
  <2>1. [as[d] EXCEPT !.inflight = @ \ {x}] \in States
    <3>1. as[d].inflight \ {x} \subseteq Devices
      BY DEF States
    <3>2. QED
      BY <3>1 DEF States
  <2>2. Updates(d, [as[d] EXCEPT !.inflight = @ \ {x}])
    BY <1>1 DEF QueryTimesOut, Updates, StatesOK
  <2>3. StatesOK'
    BY <1>1, <2>1, <2>2, UpdatesType DEF QueryTimesOut
  <2>4. BoundsOK'
    BY <1>1 DEF QueryTimesOut, BoundsOK
  <2>5. QED
    BY <1>1, <2>3, <2>4, TypeInvPartsNext DEF QueryTimesOut, AuthOK, GossipOK, TalkOK
<1>2. CASE RunReturns(d)
  <2>1. as' = as /\ (Commits(d, as[d]) \/ UNCHANGED session)
    BY <1>2 DEF RunReturns
  <2>2. StatesOK'
    BY <2>1, ExportType DEF Commits, StatesOK
  <2>3. AuthOK' /\ GossipOK' /\ TalkOK'
    BY <1>2, CancelledType DEF RunReturns
  <2>4. BoundsOK' /\ running' \subseteq Devices
    BY <1>2 DEF RunReturns, BoundsOK, boundVars
  <2>5. QED
    BY <2>2, <2>3, <2>4, TypeInvPartsNext
<1>3. CASE Restart(d)
  <2>1. Updates(d, NewAssembleState(d, session[d])) /\ UNCHANGED session
    BY <1>3 DEF Restart, Updates
  <2>2. StatesOK'
    BY <2>1, NewAssembleStateType, UpdatesType
  <2>3. AuthOK' /\ GossipOK' /\ TalkOK'
    BY <1>3, CancelledType DEF Restart
  <2>4. BoundsOK' /\ running' \subseteq Devices
    <3>1. running' = running \ {d} \/ running' = running \cup {d}
      BY <1>3 DEF Restart
    <3>2. restarts < MaxRestarts /\ restarts' = restarts + 1 /\ timeouts' = timeouts
      BY <1>3 DEF Restart
    <3>3. QED
      BY <3>1, <3>2 DEF BoundsOK
  <2>5. QED
    BY <2>2, <2>3, <2>4, TypeInvPartsNext
<1>4. QED
  BY <1>1, <1>2, <1>3

LEMMA InitType == Init => TypeInv
<1> SUFFICES ASSUME Init PROVE TypeInv
  OBVIOUS
<1>1. StatesOK
  BY AssembleAssumption, NewAssembleStateType DEF Init, StatesOK
<1>2. AuthOK /\ GossipOK /\ TalkOK
  BY NoRounds DEF Init, AuthOK, GossipOK, TalkOK
<1>3. BoundsOK /\ running \subseteq Devices
  BY AssembleAssumption DEF Init, BoundsOK
<1>4. QED
  BY <1>1, <1>2, <1>3, TypeInvParts

LEMMA NextType == TypeInv /\ [Next]_vars => TypeInv'
<1> SUFFICES ASSUME TypeInv, [Next]_vars PROVE TypeInv'
  OBVIOUS
<1>1. ASSUME NEW d \in Devices,
             \/ AuthStep(d) \/ GossipStep(d) \/ TalkStep(d)
             \/ \E x \in Devices : QueryTimesOut(d, x)
             \/ RunReturns(d) \/ Restart(d)
      PROVE  TypeInv'
  BY <1>1, AuthStepType, GossipStepType, TalkStepType, OtherStepType
<1>2. CASE UNCHANGED vars
  BY <1>2 DEF vars, TypeInv, AssembleTypeOK, Requests
<1>3. QED
  BY <1>1, <1>2 DEF Next

\* AssembleState, its trackers, the three goroutines and the session keep their
\* types in every run of every cluster (cluster/assemblestate).
THEOREM AssembleTypeCorrect == Spec => []AssembleTypeOK
<1>1. TypeInv => AssembleTypeOK
  BY DEF TypeInv
<1>2. QED
  BY <1>1, InitType, NextType, PTL DEF Spec
-----------------------------------------------------------------------------
(* Trust.  T[p] is the set of devices that p trusts.                       *)

Trust == [p \in Devices |-> as[p].trusted]

Backed(R, T) == \A r \in R : r[1] \in T[r[2]] /\ r[2] \in T[r[1]]

\* Who has an address of p has been authenticated by p.
AddressesBacked(d, addresses, T) == \A p \in Devices : addresses[p] # NoAddr => d \in T[p]

DirectRoutes(d, s) == s.authoritative = {<<d, p, s.addresses[p]>> : p \in Available(s)}

Sound(d, s, T) ==
    /\ Backed(s.edges, T)
    /\ s.verified \subseteq s.edges
    /\ s.authoritative \subseteq s.edges
    /\ AddressesBacked(d, s.addresses, T)
    /\ DirectRoutes(d, s)

SoundSession(d, e, T) == Backed(e.routes, T) /\ AddressesBacked(d, e.addresses, T)

\* The inductive invariant.  A device never forgets that it trusts another one, as
\* the session knows it too; so what was sound stays so.
StatesSound ==
    \A d \in Devices : /\ as[d].trusted = session[d].trusted \cup {d}
                       /\ Sound(d, as[d], Trust)
                       /\ SoundSession(d, session[d], Trust)
GossipSound == \A d \in Devices : Backed(gossip[d].routes, Trust)
AuthSound == \A d \in Devices : auth[d].answer = "ok" => d \in Trust[Owner[auth[d].at]]

TrustInv == StatesSound /\ GossipSound /\ AuthSound

Trusts == [Devices -> SUBSET Devices]
Grows(T, U) == \A p \in Devices : T[p] \subseteq U[p]

LEMMA TrustType == ASSUME StatesOK PROVE Trust \in Trusts
  BY DEF StatesOK, Trust, Trusts, States

LEMMA BackedGrows ==
  ASSUME NEW T \in Trusts, NEW U \in Trusts, Grows(T, U), NEW R \in SUBSET Routes, Backed(R, T)
  PROVE  Backed(R, U)
  BY RouteParts DEF Backed, Grows

LEMMA SoundGrows ==
  ASSUME NEW T \in Trusts, NEW U \in Trusts, Grows(T, U), NEW d \in Devices
  PROVE  /\ \A s \in States : Sound(d, s, T) => Sound(d, s, U)
         /\ \A e \in Sessions : SoundSession(d, e, T) => SoundSession(d, e, U)
<1>1. ASSUME NEW s \in States, Sound(d, s, T) PROVE Sound(d, s, U)
  <2>1. s.edges \in SUBSET Routes
    BY DEF States
  <2>2. Backed(s.edges, U)
    BY <1>1, <2>1, BackedGrows DEF Sound
  <2>3. AddressesBacked(d, s.addresses, U)
    BY <1>1 DEF Sound, AddressesBacked, Grows
  <2>4. QED
    BY <1>1, <2>2, <2>3 DEF Sound
<1>2. ASSUME NEW e \in Sessions, SoundSession(d, e, T) PROVE SoundSession(d, e, U)
  <2>1. e.routes \in SUBSET Routes
    BY DEF Sessions
  <2>2. Backed(e.routes, U)
    BY <1>2, <2>1, BackedGrows DEF SoundSession
  <2>3. AddressesBacked(d, e.addresses, U)
    BY <1>2 DEF SoundSession, AddressesBacked, Grows
  <2>4. QED
    BY <2>2, <2>3 DEF SoundSession
<1>3. QED
  BY <1>1, <1>2

\* A change that leaves trust, addresses, edges and authoritative routes alone.
Quiet(s, t) ==
    /\ t.trusted = s.trusted /\ t.addresses = s.addresses
    /\ t.edges = s.edges /\ t.authoritative = s.authoritative
    /\ t.verified \subseteq s.verified \cup s.edges

LEMMA QuietSound ==
  ASSUME NEW d, NEW T, NEW s, NEW t, Sound(d, s, T), Quiet(s, t)
  PROVE  Sound(d, t, T)
  BY DEF Sound, Quiet, DirectRoutes, Available

LEMMA ExportSound ==
  ASSUME NEW d, NEW T, NEW s \in States, Sound(d, s, T)
  PROVE  SoundSession(d, Export(s), T)
  BY DEF Sound, SoundSession, Export, Backed

LEMMA AddRouteSound ==
  ASSUME NEW d \in Devices, NEW p \in Devices, NEW a \in Addresses, NEW T \in Trusts,
         NEW s \in States, NEW t \in States, Sound(d, s, T),
         t.edges = s.edges, t.verified = s.verified, t.authoritative = s.authoritative,
         t.addresses = [s.addresses EXCEPT ![p] = a],
         t.trusted = s.trusted \cup {p},
         d \in T[p], p \in T[d]
  PROVE  Sound(d, AddAuthoritativeRoute(t, d, p, a), T)
<1> DEFINE u == AddAuthoritativeRoute(t, d, p, a)
<1>1. /\ u.edges = s.edges \cup {<<d, p, a>>} /\ u.verified = s.verified
      /\ u.addresses = t.addresses /\ u.trusted = t.trusted
      /\ u.authoritative = {r \in s.authoritative : r[2] # p} \cup {<<d, p, a>>}
  BY DEF AddAuthoritativeRoute, States
<1>2. s.addresses \in [Devices -> Addresses \cup {NoAddr}] /\ s.trusted \subseteq Devices
  BY DEF States
<1> HIDE DEF u
<1>3. Backed(u.edges, T)
  BY <1>1 DEF Sound, Backed
<1>4. AddressesBacked(d, u.addresses, T)
  BY <1>1, <1>2 DEF Sound, AddressesBacked
<1>5. Available(u) = Available(s) \cup {p}
  BY <1>1, <1>2, AssembleAssumption DEF Available
<1>6. DirectRoutes(d, u)
  <2>1. s.authoritative = {<<d, q, s.addresses[q]>> : q \in Available(s)}
    BY DEF Sound, DirectRoutes
  <2>2. {r \in s.authoritative : r[2] # p} = {<<d, q, s.addresses[q]>> : q \in Available(s) \ {p}}
    BY <2>1
  <2>3. \A q \in Available(s) \ {p} : u.addresses[q] = s.addresses[q]
    BY <1>1, <1>2 DEF Available
  <2>4. u.addresses[p] = a
    BY <1>1, <1>2
  <2>5. {<<d, q, s.addresses[q]>> : q \in Available(s) \ {p}} \cup {<<d, p, a>>}
           = {<<d, q, u.addresses[q]>> : q \in Available(s) \cup {p}}
    BY <2>3, <2>4
  <2>6. QED
    BY <1>1, <1>5, <2>2, <2>5 DEF DirectRoutes
<1>7. QED
  BY <1>1, <1>3, <1>4, <1>6 DEF Sound, u

LEMMA NewAssembleStateSound ==
  ASSUME NEW d \in Devices, NEW e \in Sessions, NEW T \in Trusts, SoundSession(d, e, T),
         e.trusted \cup {d} \subseteq T[d]
  PROVE  /\ Sound(d, NewAssembleState(d, e), T)
         /\ NewAssembleState(d, e).trusted = e.trusted \cup {d}
<1> DEFINE s == NewAssembleState(d, e)
           direct == {<<d, p, e.addresses[p]>> : p \in {q \in e.trusted \cup {d} : e.addresses[q] # NoAddr}}
<1>1. /\ s.trusted = e.trusted \cup {d} /\ s.addresses = e.addresses
      /\ s.edges = e.routes \cup direct /\ s.authoritative = direct
      /\ s.verified \subseteq e.routes
  BY DEF NewAssembleState, ShutdownAtExpectedSize
<1>2. e.trusted \subseteq Devices /\ e.addresses \in [Devices -> Addresses \cup {NoAddr}]
  BY DEF Sessions
<1> HIDE DEF s
<1>3. Backed(direct, T)
  BY <1>2 DEF SoundSession, AddressesBacked, Backed
<1>4. Backed(s.edges, T)
  BY <1>1, <1>3 DEF SoundSession, Backed
<1>5. DirectRoutes(d, s)
  BY <1>1 DEF DirectRoutes, Available
<1> HIDE DEF direct
<1>6. QED
  BY <1>1, <1>4, <1>5 DEF Sound, SoundSession, s
LEMMA TrustNext ==
  ASSUME StatesOK, StatesOK', NEW e \in Devices, NEW s \in States, Updates(e, s)
  PROVE  /\ Trust \in Trusts /\ Trust' \in Trusts
         /\ \A p \in Devices : Trust[p] = as[p].trusted
         /\ \A p \in Devices : Trust'[p] = IF p = e THEN s.trusted ELSE as[p].trusted
  BY DEF StatesOK, Trust, Trusts, States, Updates

LEMMA StepSound ==
  ASSUME StatesOK, StatesOK', StatesSound, NEW e \in Devices, NEW s \in States, Updates(e, s),
         as[e].trusted \subseteq s.trusted, Sound(e, s, Trust'),
         Commits(e, s) \/ (UNCHANGED session /\ s.trusted = as[e].trusted)
  PROVE  StatesSound' /\ Grows(Trust, Trust')
<1>1. Trust \in Trusts /\ Trust' \in Trusts /\ Grows(Trust, Trust')
  BY TrustNext DEF Grows
<1>2. as' = [as EXCEPT ![e] = s] /\ as \in [Devices -> States] /\ session \in [Devices -> Sessions]
  BY DEF Updates, StatesOK
<1> SUFFICES ASSUME NEW d \in Devices
             PROVE  /\ as'[d].trusted = session'[d].trusted \cup {d}
                    /\ Sound(d, as'[d], Trust')
                    /\ SoundSession(d, session'[d], Trust')
  BY <1>1 DEF StatesSound
<1>3. /\ as[d].trusted = session[d].trusted \cup {d}
      /\ Sound(d, as[d], Trust) /\ SoundSession(d, session[d], Trust)
  BY DEF StatesSound
<1>4. Sound(d, as[d], Trust') /\ SoundSession(d, session[d], Trust')
  BY <1>1, <1>2, <1>3, SoundGrows
<1>5. CASE d = e
  <2>1. as'[d] = s /\ d \in s.trusted
    BY <1>2, <1>3, <1>5
  <2>2. CASE Commits(e, s)
    <3>1. session'[d] = Export(s) /\ Export(s).trusted = s.trusted
      BY <1>2, <1>5, <2>2 DEF Commits, Export
    <3>2. QED
      BY <1>5, <2>1, <3>1, ExportSound
  <2>3. CASE UNCHANGED session /\ s.trusted = as[e].trusted
    BY <1>3, <1>4, <1>5, <2>1, <2>3
  <2>4. QED
    BY <2>2, <2>3
<1>6. CASE d # e
  <2>1. as'[d] = as[d] /\ session'[d] = session[d]
    BY <1>2, <1>6 DEF Commits
  <2>2. QED
    BY <1>3, <1>4, <2>1
<1>7. QED
  BY <1>5, <1>6

LEMMA QuietStep ==
  ASSUME StatesOK, StatesOK', StatesSound, NEW e \in Devices, NEW s \in States, Updates(e, s),
         Quiet(as[e], s), Commits(e, s) \/ UNCHANGED session
  PROVE  StatesSound' /\ Grows(Trust, Trust') /\ Sound(e, s, Trust')
<1>1. s.trusted = as[e].trusted /\ Sound(e, as[e], Trust)
  BY DEF Quiet, StatesSound
<1>2. Trust' = Trust
  BY <1>1 DEF Trust, Updates, StatesOK
<1>3. Sound(e, s, Trust')
  BY <1>1, <1>2, QuietSound
<1>4. QED
  BY <1>1, <1>3, StepSound

\* What CommitRoutes and CommitDevices leave behind.
LEMMA FinishSound ==
  ASSUME StatesOK, StatesOK', StatesSound, NEW e \in Devices, NEW s \in States,
         s.trusted = as[e].trusted, Sound(e, s, Trust),
         NEW from, NEW answer, Finish(e, s, from, answer)
  PROVE  StatesSound' /\ Grows(Trust, Trust')
<1> DEFINE t == ShutdownAtExpectedSize(e, s)
<1>1. t \in States
  BY ShutdownType
<1>2. Quiet(s, t) /\ Export(t) = Export(s)
  BY DEF ShutdownAtExpectedSize, Quiet, Export, States
<1>3. Updates(e, t) /\ (Commits(e, t) \/ UNCHANGED session)
  BY <1>2 DEF Finish, Commits
<1> HIDE DEF t
<1>4. t.trusted = as[e].trusted
  BY <1>2 DEF Quiet
<1>5. Trust' = Trust
  BY <1>3, <1>4 DEF Trust, Updates, StatesOK
<1>6. Sound(e, t, Trust')
  BY <1>2, <1>5, QuietSound
<1>7. QED
  BY <1>1, <1>3, <1>4, <1>6, StepSound

LEMMA GossipGrows ==
  ASSUME GossipOK, GossipSound, Trust \in Trusts, Trust' \in Trusts, Grows(Trust, Trust'),
         \/ UNCHANGED gossip
         \/ \E d \in Devices, g \in GossipRounds :
               gossip' = [gossip EXCEPT ![d] = g] /\ Backed(g.routes, Trust')
  PROVE  GossipSound'
<1> SUFFICES ASSUME NEW p \in Devices PROVE Backed(gossip'[p].routes, Trust')
  BY DEF GossipSound
<1>1. gossip[p].routes \in SUBSET Routes /\ Backed(gossip[p].routes, Trust)
  BY DEF GossipOK, GossipRounds, GossipSound
<1>2. Backed(gossip[p].routes, Trust')
  BY <1>1, BackedGrows
<1>3. QED
  BY <1>2 DEF GossipOK

LEMMA AuthGrows ==
  ASSUME AuthOK, AuthSound, Trust \in Trusts, Trust' \in Trusts, Grows(Trust, Trust'),
         \/ UNCHANGED auth
         \/ \E d \in Devices, g \in AuthRounds :
               /\ auth' = [auth EXCEPT ![d] = g]
               /\ g.answer = "ok" => d \in Trust'[Owner[g.at]]
  PROVE  AuthSound'
<1> SUFFICES ASSUME NEW p \in Devices, auth'[p].answer = "ok" PROVE p \in Trust'[Owner[auth'[p].at]]
  BY DEF AuthSound
<1>1. auth[p].answer = "ok" => p \in Trust'[Owner[auth[p].at]]
  <2> HAVE auth[p].answer = "ok"
  <2>1. auth[p].at \in Addresses
    BY DEF AuthOK, AuthTo
  <2>2. Owner[auth[p].at] \in Devices
    BY <2>1, AssembleAssumption
  <2>3. QED
    BY <2>2 DEF AuthSound, Grows
<1>2. QED
  BY <1>1 DEF AuthOK
LEMMA AuthStepTrust ==
  ASSUME TypeInv, TypeInv', TrustInv, NEW d \in Devices, AuthStep(d) PROVE TrustInv'
<1> StatesOK /\ StatesOK' /\ AuthOK /\ AuthOK' /\ GossipOK
  BY TypeInvParts, TypeInvPartsNext
<1> StatesSound /\ GossipSound /\ AuthSound
  BY DEF TrustInv
<1> as[d] \in States /\ auth[d] \in AuthRounds /\ AuthTo(auth[d])
  BY DEF StatesOK, AuthOK
<1> Trust \in Trusts /\ Trust' \in Trusts
  BY TrustType DEF StatesOK, Trust, Trusts, States
<1>1. ASSUME NEW found \in SUBSET Discoverable[d], Discover(d, found) PROVE TrustInv'
  <2> DEFINE todo == (found \ {Listen[d]}) \ as[d].discovered
  <2>1. Updates(d, as[d]) /\ (Commits(d, as[d]) \/ UNCHANGED session) /\ UNCHANGED gossip
    BY <1>1 DEF Discover, Updates, StatesOK
  <2>2. StatesSound' /\ Grows(Trust, Trust')
    BY <2>1, QuietStep DEF Quiet
  <2>3. PICK g \in AuthTurns(todo) : auth' = [auth EXCEPT ![d] = g]
    BY <1>1 DEF Discover
  <2>4. todo \in SUBSET Addresses
    BY AssembleAssumption
  <2> HIDE DEF todo
  <2>5. g \in AuthRounds /\ g.answer # "ok"
    BY <2>4, AuthTurnsType
  <2>6. AuthSound'
    BY <2>2, <2>3, <2>5, AuthGrows
  <2>7. QED
    BY <2>1, <2>2, <2>6, GossipGrows DEF TrustInv
<1>2. ASSUME NEW answer, AuthDelivered(d, answer) PROVE TrustInv'
  <2> DEFINE to == Owner[auth[d].at]
             s == Authenticated(to, d)
             t == [as[to] EXCEPT !.trusted = @ \cup {d}]
  <2>1. to \in Devices
    BY <1>2, AssembleAssumption DEF AuthDelivered, AuthTo
  <2>2. as[to] \in States /\ t \in States /\ Sound(to, as[to], Trust)
    <3>1. as[to] \in States /\ Sound(to, as[to], Trust)
      BY <2>1 DEF StatesOK, StatesSound
    <3>2. as[to].trusted \cup {d} \subseteq Devices
      BY <3>1 DEF States
    <3>3. t \in States
      BY <3>1, <3>2 DEF States
    <3>4. QED
      BY <3>1, <3>3
  <2>3. s \in States
    BY <2>1, AuthenticatedType
  <2>4. Updates(to, s) /\ Commits(to, s) /\ UNCHANGED gossip
    BY <1>2 DEF AuthDelivered, AuthenticateAndCommit, Authenticated
  <2>5. s.trusted = as[to].trusted \cup {d}
    BY <2>2 DEF Authenticated, AddAuthoritativeRoute, States
  <2> DEFINE addr == as[to].addresses[d]
  <2>6. s = IF addr = NoAddr THEN t ELSE AddAuthoritativeRoute(t, to, d, addr)
    BY <2>2 DEF Authenticated, States
  <2>7. addr \in Addresses \cup {NoAddr}
    BY <2>2 DEF States
  <2>8. /\ t.edges = as[to].edges /\ t.verified = as[to].verified /\ t.addresses = as[to].addresses
        /\ t.authoritative = as[to].authoritative /\ t.trusted = as[to].trusted \cup {d}
    BY <2>2 DEF States
  <2>9. as[to].addresses \in [Devices -> Addresses \cup {NoAddr}]
    BY <2>2 DEF States
  <2> HIDE DEF s, t, to
  <2>10. Grows(Trust, Trust') /\ d \in Trust'[to]
    BY <2>1, <2>3, <2>4, <2>5, TrustNext DEF Grows
  <2>11. Sound(to, as[to], Trust')
    BY <2>1, <2>2, <2>10, SoundGrows
  <2>12. Sound(to, s, Trust')
    <3>1. CASE addr = NoAddr
      <4>1. Available(t) = Available(as[to])
        BY <2>8, <3>1 DEF Available
      <4>2. DirectRoutes(to, t)
        BY <2>8, <2>11, <4>1 DEF Sound, DirectRoutes
      <4>3. QED
        BY <2>6, <2>8, <2>11, <3>1, <4>2 DEF Sound
    <3>2. CASE addr # NoAddr
      <4>1. to \in Trust'[d]
        BY <2>11, <3>2 DEF Sound, AddressesBacked
      <4>2. t.addresses = [as[to].addresses EXCEPT ![d] = addr]
        BY <2>8, <2>9
      <4>3. addr \in Addresses
        BY <2>7, <3>2
      <4> HIDE DEF addr
      <4>4. Sound(to, AddAuthoritativeRoute(t, to, d, addr), Trust')
        BY <2>1, <2>2, <2>8, <2>10, <2>11, <4>1, <4>2, <4>3, AddRouteSound
      <4>5. QED
        BY <2>6, <3>2, <4>4
    <3>3. QED
      BY <3>1, <3>2
  <2>13. StatesSound'
    BY <2>1, <2>3, <2>4, <2>5, <2>12, StepSound
  <2>14. auth' = [auth EXCEPT ![d] = [auth[d] EXCEPT !.answer = answer]]
         /\ [auth[d] EXCEPT !.answer = answer] \in AuthRounds
         /\ [auth[d] EXCEPT !.answer = answer].at = auth[d].at
    <3>1. answer \in Answers
      BY <1>2 DEF AuthDelivered, Answered, Answers
    <3>2. QED
      BY <1>2, <3>1 DEF AuthDelivered, AuthOK, AuthRounds
  <2>15. AuthSound'
    BY <2>10, <2>14, AuthGrows DEF to
  <2>16. QED
    BY <2>4, <2>10, <2>13, <2>15, GossipGrows DEF TrustInv
<1>3. CASE AuthAnswered(d)
  <2> DEFINE a == auth[d].at
             pp == Owner[a]
             s == IF auth[d].answer = "ok" THEN Reached(d, pp, a) ELSE as[d]
  <2>1. a \in Addresses /\ pp \in Devices
    BY <1>3, AssembleAssumption DEF AuthAnswered, Over, AuthTo
  <2>2. UNCHANGED gossip
    BY <1>3 DEF AuthAnswered
  <2>3. CASE auth' = [auth EXCEPT ![d] = NoAuth] /\ UNCHANGED <<as, session>>
    <3>1. StatesSound' /\ Trust' = Trust
      BY <2>3 DEF StatesSound, Trust
    <3>2. Grows(Trust, Trust')
      BY <3>1 DEF Grows
    <3>3. AuthSound'
      BY <2>3, <3>2, NoRounds, AuthGrows DEF NoAuth
    <3>4. QED
      BY <2>2, <3>1, <3>2, <3>3, GossipGrows DEF TrustInv
  <2>4. CASE /\ \E g \in AuthTurns(auth[d].todo) : auth' = [auth EXCEPT ![d] = g]
             /\ Updates(d, s)
             /\ Commits(d, s) \/ UNCHANGED session
    <3> DEFINE t == [as[d] EXCEPT !.addresses[pp] = a, !.discovered = @ \cup {a}]
    <3>1. s \in States
      BY <2>1, ReachedType
    <3>2. t \in States
      <4>1. [as[d].addresses EXCEPT ![pp] = a] \in [Devices -> Addresses \cup {NoAddr}]
            /\ as[d].discovered \cup {a} \subseteq Addresses
        BY <2>1 DEF States
      <4>2. QED
        BY <4>1 DEF States
    <3>3. /\ t.edges = as[d].edges /\ t.verified = as[d].verified
          /\ t.addresses = [as[d].addresses EXCEPT ![pp] = a]
          /\ t.authoritative = as[d].authoritative /\ t.trusted = as[d].trusted
      BY DEF States
    <3>4. Sound(d, as[d], Trust) /\ Trust[d] = as[d].trusted
      BY DEF StatesSound, Trust
    <3>5. s.trusted = as[d].trusted
      BY DEF Reached, AddAuthoritativeRoute, States
    <3>6. Trust' = Trust
      BY <2>4, <3>5 DEF Trust, Updates, StatesOK
    <3>7. Sound(d, s, Trust')
      <4>1. CASE auth[d].answer # "ok"
        BY <3>4, <3>6, <4>1
      <4>2. CASE auth[d].answer = "ok" /\ pp \in as[d].trusted
        <5>1. s = AddAuthoritativeRoute(t, d, pp, a)
          BY <3>3, <4>2 DEF Reached
        <5>2. d \in Trust[pp] /\ pp \in Trust[d]
          BY <3>4, <4>2 DEF AuthSound
        <5>3. t.trusted = as[d].trusted \cup {pp}
          BY <3>3, <4>2
        <5> HIDE DEF t, s, pp, a
        <5>4. QED
          BY <2>1, <3>2, <3>3, <3>4, <3>6, <5>1, <5>2, <5>3, AddRouteSound
      <4>3. CASE auth[d].answer = "ok" /\ pp \notin as[d].trusted
        <5>1. s = t
          BY <3>3, <4>3 DEF Reached
        <5>2. d \in Trust[pp]
          BY <4>3 DEF AuthSound
        <5>3. as[d].addresses \in [Devices -> Addresses \cup {NoAddr}] /\ as[d].trusted \subseteq Devices
          BY DEF States
        <5> HIDE DEF t, s, pp, a
        <5>4. AddressesBacked(d, t.addresses, Trust)
          BY <2>1, <3>3, <3>4, <5>2, <5>3 DEF Sound, AddressesBacked
        <5>5. Available(t) = Available(as[d])
              /\ \A q \in Available(as[d]) : t.addresses[q] = as[d].addresses[q]
          BY <2>1, <3>3, <4>3, <5>3 DEF Available
        <5>6. DirectRoutes(d, t)
          <6>1. as[d].authoritative = {<<d, q, as[d].addresses[q]>> : q \in Available(as[d])}
            BY <3>4 DEF Sound, DirectRoutes
          <6>2. {<<d, q, as[d].addresses[q]>> : q \in Available(as[d])}
                   = {<<d, q, t.addresses[q]>> : q \in Available(as[d])}
            BY <5>5
          <6>3. QED
            BY <3>3, <5>5, <6>1, <6>2 DEF DirectRoutes
        <5>7. QED
          BY <3>3, <3>4, <3>6, <5>1, <5>4, <5>6 DEF Sound
      <4>4. QED
        BY <4>1, <4>2, <4>3
    <3> HIDE DEF s
    <3>8. StatesSound' /\ Grows(Trust, Trust')
      BY <2>4, <3>1, <3>5, <3>7, StepSound
    <3>9. PICK g \in AuthTurns(auth[d].todo) : auth' = [auth EXCEPT ![d] = g]
      BY <2>4
    <3>10. g \in AuthRounds /\ g.answer # "ok"
      BY AuthTurnsType DEF AuthRounds
    <3>11. AuthSound'
      BY <3>8, <3>9, <3>10, AuthGrows
    <3>12. QED
      BY <2>2, <3>8, <3>11, GossipGrows DEF TrustInv
  <2>5. QED
    BY <1>3, <2>3, <2>4 DEF AuthAnswered
<1>4. QED
  BY <1>1, <1>2, <1>3 DEF AuthStep

LEMMA GossipStepTrust ==
  ASSUME TypeInv, TypeInv', TrustInv, NEW d \in Devices, GossipStep(d) PROVE TrustInv'
<1> StatesOK /\ StatesOK' /\ AuthOK /\ GossipOK
  BY TypeInvParts, TypeInvPartsNext
<1> StatesSound /\ GossipSound /\ AuthSound
  BY DEF TrustInv
<1> as[d] \in States /\ gossip[d] \in GossipRounds /\ RequestTo(gossip[d])
  BY DEF StatesOK, GossipOK
<1> Trust \in Trusts /\ Trust' \in Trusts
  BY TrustType DEF StatesOK, Trust, Trusts, States
<1> UNCHANGED auth
  BY DEF GossipStep, PublishRoutes, RoutesDelivered, RoutesAnswered
\* What is published next are routes of a sound state.
<1>1. ASSUME NEW s \in States, Sound(d, s, Trust'), NEW todo \in SUBSET Devices,
             StatesSound', Grows(Trust, Trust'),
             \E g \in GossipTurns(d, s, todo) : gossip' = [gossip EXCEPT ![d] = g]
      PROVE  TrustInv'
  <2>1. PICK g \in GossipTurns(d, s, todo) : gossip' = [gossip EXCEPT ![d] = g]
    BY <1>1
  <2>2. g \in GossipRounds /\ g.routes \subseteq s.verified \cup s.authoritative
    BY <1>1, GossipTurnsType
  <2>3. Backed(g.routes, Trust')
    BY <1>1, <2>2 DEF Sound, Backed
  <2>4. QED
    BY <1>1, <2>1, <2>2, <2>3, GossipGrows, AuthGrows DEF TrustInv
<1>2. ASSUME NEW selected \in SUBSET Devices, PublishRoutes(d, selected) PROVE TrustInv'
  <2>1. Updates(d, as[d]) /\ UNCHANGED session
    BY <1>2 DEF PublishRoutes, Updates, StatesOK
  <2>2. StatesSound' /\ Grows(Trust, Trust') /\ Sound(d, as[d], Trust')
    BY <2>1, QuietStep DEF Quiet
  <2>3. QED
    BY <1>1, <1>2, <2>2 DEF PublishRoutes
<1>3. ASSUME NEW answer, RoutesDelivered(d, answer) PROVE TrustInv'
  <2> DEFINE to == gossip[d].to
             R == gossip[d].routes
             t == RecordDevicesKnownBy(as[to], d, DevicesIn(R))
             s == RecordRoutes(t, d, R)
  <2>1. to \in Devices /\ R \in SUBSET Routes /\ Backed(R, Trust)
    BY <1>3 DEF RoutesDelivered, RequestTo, GossipRounds, GossipSound
  <2>2. as[to] \in States /\ Sound(to, as[to], Trust)
    BY <2>1 DEF StatesOK, StatesSound
  <2>3. t \in States /\ s \in States
    BY <2>1, <2>2, DevicesInType, RecordDevicesKnownByType, RecordRoutesType
  <2>4. Quiet(as[to], t)
    BY <2>2 DEF Quiet, RecordDevicesKnownBy, States
  <2>5. Sound(to, t, Trust)
    BY <2>2, <2>4, QuietSound
  <2>6. /\ s.trusted = t.trusted /\ s.addresses = t.addresses /\ s.authoritative = t.authoritative
        /\ s.edges = t.edges \cup R /\ s.verified \subseteq t.verified \cup R
    BY <2>3 DEF RecordRoutes, Identified, States
  <2>7. Finish(to, s, d, answer)
    BY <1>3 DEF RoutesDelivered, CommitRoutes
  <2> HIDE DEF s, t
  <2>8. Sound(to, s, Trust)
    BY <2>1, <2>5, <2>6 DEF Sound, Backed, DirectRoutes, Available
  <2>9. s.trusted = as[to].trusted
    BY <2>4, <2>6 DEF Quiet
  <2>10. StatesSound' /\ Grows(Trust, Trust')
    BY <2>1, <2>3, <2>7, <2>8, <2>9, FinishSound
  <2>11. answer \in {"ok", "failed"}
    BY <1>3, <2>3, <2>7 DEF Finish, Answered
  <2> DEFINE g == [gossip[d] EXCEPT !.answer = answer]
  <2>12. gossip' = [gossip EXCEPT ![d] = g] /\ g \in GossipRounds /\ g.routes = R
    BY <1>3, <2>11 DEF RoutesDelivered, GossipOK, GossipRounds, Answers
  <2>13. Backed(g.routes, Trust')
    BY <2>1, <2>10, <2>12, BackedGrows
  <2> HIDE DEF g
  <2>14. GossipSound'
    BY <2>10, <2>12, <2>13, GossipGrows
  <2>15. QED
    BY <2>10, <2>14, AuthGrows DEF TrustInv
<1>4. CASE RoutesAnswered(d)
  <2> DEFINE t == [as[d] EXCEPT !.knownByPeers[gossip[d].to] = @ \cup gossip[d].routes]
             s == IF gossip[d].answer = "ok" THEN t ELSE as[d]
  <2>1. gossip[d].routes \subseteq Routes /\ gossip[d].todo \in SUBSET Devices
    BY DEF GossipRounds
  <2>2. [as[d].knownByPeers EXCEPT ![gossip[d].to] = @ \cup gossip[d].routes] \in [Devices -> SUBSET Routes]
    BY <2>1 DEF States
  <2>3. t \in States
    BY <2>2 DEF States
  <2>4. s \in States /\ Quiet(as[d], s)
    BY <2>3 DEF Quiet, States
  <2>5. Updates(d, s) /\ UNCHANGED session
    BY <1>4 DEF RoutesAnswered
  <2>6. \E g \in GossipTurns(d, s, gossip[d].todo) : gossip' = [gossip EXCEPT ![d] = g]
    BY <1>4 DEF RoutesAnswered
  <2> HIDE DEF s
  <2>7. StatesSound' /\ Grows(Trust, Trust') /\ Sound(d, s, Trust')
    BY <2>4, <2>5, QuietStep
  <2>8. QED
    BY <1>1, <2>1, <2>4, <2>6, <2>7
<1>5. QED
  BY <1>2, <1>3, <1>4 DEF GossipStep

LEMMA TalkStepTrust ==
  ASSUME TypeInv, TypeInv', TrustInv, NEW d \in Devices, TalkStep(d) PROVE TrustInv'
<1> StatesOK /\ StatesOK' /\ AuthOK /\ GossipOK /\ TalkOK
  BY TypeInvParts, TypeInvPartsNext
<1> StatesSound /\ GossipSound /\ AuthSound
  BY DEF TrustInv
<1> as[d] \in States /\ talk[d] \in TalkRounds /\ RequestTo(talk[d])
  BY DEF StatesOK, TalkOK
<1> talk[d].todo \in SUBSET Devices /\ talk[d].what \in SUBSET Devices
  BY DEF TalkRounds
<1> Trust \in Trusts /\ Trust' \in Trusts
  BY TrustType DEF StatesOK, Trust, Trusts, States
<1> UNCHANGED <<auth, gossip>>
  BY DEF TalkStep, PublishDeviceQueries, PublishDevicesAndCommit, DevicesDelivered,
         QueriesAnswered, ResponsesAnswered
<1> SUFFICES StatesSound' /\ Grows(Trust, Trust')
  BY AuthGrows, GossipGrows DEF TrustInv
\* The goroutine's own critical sections are quiet.
<1>1. ASSUME NEW s \in States, Quiet(as[d], s), NEW mode \in {"query", "respond"},
             NEW todo \in SUBSET Devices, TalkOn(d, s, mode, todo)
      PROVE  StatesSound' /\ Grows(Trust, Trust')
  BY <1>1, TalkOnType, QuietStep
<1>2. ASSUME NEW late \in SUBSET (Devices \ as[d].trusted),
             PublishDeviceQueries(d, late) \/ PublishDevicesAndCommit(d, late)
      PROVE  StatesSound' /\ Grows(Trust, Trust')
  <2>1. as[d].trusted \cup late \in SUBSET Devices
    BY DEF States
  <2>2. [as[d] EXCEPT !.pendingQueries = FALSE] \in States
        /\ [as[d] EXCEPT !.pendingResponses = FALSE] \in States
    BY DEF States
  <2>3. Quiet(as[d], [as[d] EXCEPT !.pendingQueries = FALSE])
        /\ Quiet(as[d], [as[d] EXCEPT !.pendingResponses = FALSE])
    BY DEF States, Quiet
  <2>4. CASE PublishDeviceQueries(d, late)
    BY <1>1, <2>1, <2>2, <2>3, <2>4 DEF PublishDeviceQueries
  <2>5. CASE PublishDevicesAndCommit(d, late)
    BY <1>1, <2>1, <2>2, <2>3, <2>5 DEF PublishDevicesAndCommit
  <2>6. QED
    BY <1>2, <2>4, <2>5
<1>3. ASSUME NEW answer, DevicesDelivered(d, answer)
      PROVE  StatesSound' /\ Grows(Trust, Trust')
  <2> DEFINE to == talk[d].to
             query == RecordIncomingQuery(as[to], d, talk[d].what)
             t == [as[to] EXCEPT !.ids = @ \cup talk[d].what]
             v == VerifyRoutes(t)
  <2>1. to \in Devices
    BY <1>3 DEF DevicesDelivered, RequestTo
  <2>2. as[to] \in States /\ Sound(to, as[to], Trust)
    BY <2>1 DEF StatesOK, StatesSound
  <2>3. query \in States /\ Quiet(as[to], query)
    <3>1. query \in States
      BY <2>2, RecordIncomingQueryType
    <3>2. Quiet(as[to], query)
      BY <2>2 DEF Quiet, RecordIncomingQuery, States
    <3>3. QED
      BY <3>1, <3>2
  <2>4. as[to].ids \cup talk[d].what \subseteq Devices
    BY <2>2 DEF States
  <2>5. t \in States /\ Quiet(as[to], t)
    BY <2>2, <2>4 DEF States, Quiet
  <2>6. v \in States /\ Quiet(t, v)
    BY <2>5, VerifyRoutesType DEF Quiet, VerifyRoutes, Identified, States
  <2>7. \/ Updates(to, query) /\ Commits(to, query)
        \/ Finish(to, v, d, answer)
    BY <1>3 DEF DevicesDelivered, CommitDeviceQueries, CommitDevices
  <2> HIDE DEF query, t, v
  <2>8. Sound(to, v, Trust) /\ v.trusted = as[to].trusted
    <3>1. Sound(to, t, Trust)
      BY <2>2, <2>5, QuietSound
    <3>2. Sound(to, v, Trust)
      BY <2>6, <3>1, QuietSound
    <3>3. QED
      BY <2>5, <2>6, <3>2 DEF Quiet
  <2>9. CASE Updates(to, query) /\ Commits(to, query)
    BY <2>1, <2>3, <2>9, QuietStep
  <2>10. CASE Finish(to, v, d, answer)
    BY <2>1, <2>6, <2>8, <2>10, FinishSound
  <2>11. QED
    BY <2>7, <2>9, <2>10
<1>4. CASE QueriesAnswered(d)
  <2> DEFINE s == IF talk[d].answer = "ok" THEN [as[d] EXCEPT !.inflight = @ \cup talk[d].what]
                  ELSE [as[d] EXCEPT !.pendingQueries = TRUE]
  <2>1. as[d].inflight \cup talk[d].what \subseteq Devices
    BY DEF States
  <2>2. s \in States /\ Quiet(as[d], s)
    BY <2>1 DEF States, Quiet
  <2>3. TalkOn(d, s, "query", talk[d].todo)
    BY <1>4 DEF QueriesAnswered
  <2> HIDE DEF s
  <2>4. QED
    BY <1>1, <2>2, <2>3
<1>5. CASE ResponsesAnswered(d)
  <2> DEFINE s == IF talk[d].answer = "ok"
                  THEN [as[d] EXCEPT !.queries[talk[d].to] = @ \ talk[d].what]
                  ELSE [as[d] EXCEPT !.pendingResponses = TRUE]
  <2>1. [as[d].queries EXCEPT ![talk[d].to] = @ \ talk[d].what] \in [Devices -> SUBSET Devices]
    BY DEF States
  <2>2. s \in States /\ Quiet(as[d], s)
    BY <2>1 DEF States, Quiet
  <2>3. TalkOn(d, s, "respond", talk[d].todo)
    BY <1>5 DEF ResponsesAnswered
  <2> HIDE DEF s
  <2>4. QED
    BY <1>1, <2>2, <2>3
<1>6. QED
  BY <1>2, <1>3, <1>4, <1>5 DEF TalkStep

LEMMA OtherStepTrust ==
  ASSUME TypeInv, TypeInv', TrustInv, NEW d \in Devices,
         (\E x \in Devices : QueryTimesOut(d, x)) \/ RunReturns(d) \/ Restart(d)
  PROVE  TrustInv'
<1> StatesOK /\ StatesOK' /\ AuthOK /\ GossipOK
  BY TypeInvParts, TypeInvPartsNext
<1> StatesSound /\ GossipSound /\ AuthSound
  BY DEF TrustInv
<1> as[d] \in States /\ session[d] \in Sessions
  BY DEF StatesOK
<1> Trust \in Trusts /\ Trust' \in Trusts
  BY TrustType DEF StatesOK, Trust, Trusts, States
<1>1. ASSUME NEW x \in Devices, QueryTimesOut(d, x) PROVE TrustInv'
  <2> DEFINE s == [as[d] EXCEPT !.inflight = @ \ {x}]
  <2>1. as[d].inflight \ {x} \subseteq Devices
    BY DEF States
  <2>2. s \in States /\ Quiet(as[d], s)
    BY <2>1 DEF States, Quiet
  <2>3. Updates(d, s) /\ UNCHANGED <<session, auth, gossip>>
    BY <1>1 DEF QueryTimesOut, Updates, StatesOK
  <2> HIDE DEF s
  <2>4. StatesSound' /\ Grows(Trust, Trust')
    BY <2>2, <2>3, QuietStep
  <2>5. QED
    BY <2>3, <2>4, AuthGrows, GossipGrows DEF TrustInv
\* Rounds that are cancelled leave nothing to vouch for.
<1>2. ASSUME StatesSound', Grows(Trust, Trust'), Cancelled(d) PROVE TrustInv'
  <2>1. GossipSound'
    BY <1>2, NoRounds, GossipGrows DEF Cancelled, Backed
  <2>2. AuthSound'
    BY <1>2, NoRounds, AuthGrows DEF Cancelled, NoAuth
  <2>3. QED
    BY <1>2, <2>1, <2>2 DEF TrustInv
<1>3. CASE RunReturns(d)
  <2>1. Updates(d, as[d]) /\ (Commits(d, as[d]) \/ UNCHANGED session)
    BY <1>3 DEF RunReturns, Updates, StatesOK
  <2>2. StatesSound' /\ Grows(Trust, Trust')
    BY <2>1, QuietStep DEF Quiet
  <2>3. QED
    BY <1>2, <1>3, <2>2 DEF RunReturns
<1>4. CASE Restart(d)
  <2> DEFINE s == NewAssembleState(d, session[d])
  <2>1. /\ as[d].trusted = session[d].trusted \cup {d} /\ SoundSession(d, session[d], Trust)
        /\ Trust[d] = as[d].trusted
    BY DEF StatesSound, Trust
  <2>2. s \in States /\ Sound(d, s, Trust) /\ s.trusted = as[d].trusted
    BY <2>1, NewAssembleStateType, NewAssembleStateSound
  <2>3. Updates(d, s) /\ UNCHANGED session
    BY <1>4 DEF Restart, Updates
  <2> HIDE DEF s
  <2>4. Trust' = Trust
    BY <2>2, <2>3 DEF Trust, Updates, StatesOK
  <2>5. StatesSound' /\ Grows(Trust, Trust')
    BY <2>2, <2>3, <2>4, StepSound
  <2>6. QED
    BY <1>2, <1>4, <2>5 DEF Restart
<1>5. QED
  BY <1>1, <1>3, <1>4

LEMMA InitTrust == Init => TrustInv
<1> SUFFICES ASSUME Init PROVE TrustInv
  OBVIOUS
<1>1. StatesOK /\ TypeInv
  BY InitType, TypeInvParts
<1>2. Trust \in Trusts
  BY <1>1, TrustType
<1>3. \A d \in Devices : as[d] = NewAssembleState(d, Start[d]) /\ session[d] = Start[d]
                         /\ Start[d] \in Sessions
  BY AssembleAssumption DEF Init
<1>4. \A d \in Devices : NewAssembleState(d, Start[d]).trusted = Start[d].trusted \cup {d}
  BY DEF NewAssembleState, ShutdownAtExpectedSize
<1>5. \A d \in Devices : Trust[d] = Start[d].trusted \cup {d}
  BY <1>3, <1>4 DEF Trust
<1>6. ASSUME NEW d \in Devices PROVE SoundSession(d, Start[d], Trust)
  <2>1. Start[d].routes \in SUBSET Routes
    BY <1>3 DEF Sessions
  <2>2. Backed(Start[d].routes, Trust)
    <3>1. SUFFICES ASSUME NEW r \in Start[d].routes PROVE r[1] \in Trust[r[2]] /\ r[2] \in Trust[r[1]]
      BY DEF Backed
    <3>2. r[1] \in Devices /\ r[2] \in Devices
      BY <2>1, RouteParts
    <3>3. QED
      BY <1>5, <3>2, StartAssumption
  <2>3. AddressesBacked(d, Start[d].addresses, Trust)
    BY <1>5, StartAssumption DEF AddressesBacked
  <2>4. QED
    BY <2>2, <2>3 DEF SoundSession
<1>7. ASSUME NEW d \in Devices PROVE Sound(d, as[d], Trust)
  <2>1. Start[d] \in Sessions /\ SoundSession(d, Start[d], Trust)
    BY <1>3, <1>6
  <2>2. Start[d].trusted \cup {d} \subseteq Trust[d]
    BY <1>5
  <2>3. Sound(d, NewAssembleState(d, Start[d]), Trust)
    BY <1>2, <2>1, <2>2, NewAssembleStateSound
  <2>4. QED
    BY <1>3, <2>3
<1>8. StatesSound
  BY <1>3, <1>4, <1>6, <1>7 DEF StatesSound
<1>9. GossipSound /\ AuthSound
  BY NoRounds DEF Init, GossipSound, AuthSound, Backed, NoAuth
<1>10. QED
  BY <1>8, <1>9 DEF TrustInv

LEMMA NextTrust == TypeInv /\ TypeInv' /\ TrustInv /\ [Next]_vars => TrustInv'
<1> SUFFICES ASSUME TypeInv, TypeInv', TrustInv, [Next]_vars PROVE TrustInv'
  OBVIOUS
<1>1. ASSUME NEW d \in Devices,
             \/ AuthStep(d) \/ GossipStep(d) \/ TalkStep(d)
             \/ \E x \in Devices : QueryTimesOut(d, x)
             \/ RunReturns(d) \/ Restart(d)
      PROVE  TrustInv'
  BY <1>1, AuthStepTrust, GossipStepTrust, TalkStepTrust, OtherStepTrust
<1>2. CASE UNCHANGED vars
  BY <1>2 DEF vars, TrustInv, StatesSound, GossipSound, AuthSound, Trust
<1>3. QED
  BY <1>1, <1>2 DEF Next

LEMMA TrustInvariant == Spec => [](TypeInv /\ TrustInv)
  BY InitType, NextType, InitTrust, NextTrust, PTL DEF Spec

\* Every route a device holds joins two devices that have authenticated each
\* other, in clusters of any size, with any requests and answers lost and any
\* device restarted at any moment (AuthenticateAndCommit, publishAuthAndCommit,
\* CommitRoutes, NewAssembleState).
THEOREM RoutesAreBacked == Spec => []MutualTrust
<1>1. TypeInv /\ TrustInv => MutualTrust
  <2> SUFFICES ASSUME TypeInv, TrustInv, NEW d \in Devices, NEW r \in as[d].edges
               PROVE  r[1] \in as[r[2]].trusted /\ r[2] \in as[r[1]].trusted
    BY DEF MutualTrust
  <2>1. r \in Routes
    BY TypeInvParts DEF StatesOK, States
  <2>2. r[1] \in Trust[r[2]] /\ r[2] \in Trust[r[1]]
    BY DEF TrustInv, StatesSound, Sound, Backed
  <2>3. QED
    BY <2>1, <2>2, RouteParts DEF Trust
<1>2. QED
  BY <1>1, TrustInvariant, PTL

\* The authoritative routes of a device are the ones to the peers that it trusts
\* and has an address of, in whichever order discovery, authentication and
\* restarts happened (AddAuthoritativeRoute and its callers).
THEOREM RoutesReachPeers == Spec => []RoutesToPeers
<1>1. TypeInv /\ TrustInv => RoutesToPeers
  BY DEF RoutesToPeers, TrustInv, StatesSound, Sound, DirectRoutes
<1>2. QED
  BY <1>1, TrustInvariant, PTL

=============================================================================
