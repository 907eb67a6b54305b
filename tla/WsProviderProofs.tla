-------------------------- MODULE WsProviderProofs --------------------------
(***************************************************************************)
(* Proofs about WsProvider.tla, for any subscriptions, sockets, endpoints  *)
(* and bounds, whether the node uses subscription ids again or not: the    *)
(* three tables agree, the connection below is that of WsConnection.tla,   *)
(* and everything has its type.                                            *)
(***************************************************************************)
EXTENDS WsProvider, WsConnectionProofs, FiniteSetTheorems, SequenceTheorems, TLAPS

(* Where a subscription is: under keys of _subscriptions, and in requests. *)
RegisteredAs(u) == {k \in DOMAIN subscriptions : subscriptions[k] = u}
AwaitedBy(u)    == {id \in DOMAIN handlers : handlers[id].sub = u}

(* Each is in one place, and in none before subscribe() was called for it: *)
(* without the latter subscribe() could be called for one already active.  *)
OnePlace(u) ==
  /\ \A k, l \in RegisteredAs(u) : k = l
  /\ \A i, j \in AwaitedBy(u) : i = j
  /\ RegisteredAs(u) = {} \/ AwaitedBy(u) = {}
  /\ u \notin asked => RegisteredAs(u) = {} /\ AwaitedBy(u) = {}

(* A request that is sent gets an id that is in no table. *)
IdsFresh ==
  /\ nextId \in Nat
  /\ DOMAIN handlers \subseteq 1 .. nextId
  /\ DOMAIN handlers \subseteq Ids
  /\ DOMAIN future = Ids
  /\ IsFiniteSet(DOMAIN subscriptions)

Inv ==
  /\ IdsFresh
  /\ \A u \in Subs : OnePlace(u)
  /\ NothingStuck
  /\ Answerable
-----------------------------------------------------------------------------
(* One place at most, counted as OneRegistration counts.                   *)
LEMMA OnePlaceCounts ==
  ASSUME NEW u, OnePlace(u)
  PROVE  Cardinality(RegisteredAs(u)) + Cardinality(AwaitedBy(u)) <= 1
<1>1. ASSUME NEW S, \A x, y \in S : x = y
      PROVE  Cardinality(S) \in {0, 1} /\ (S = {} => Cardinality(S) = 0)
  <2>1. CASE S = {}
    BY <2>1, FS_EmptySet
  <2>2. CASE S # {}
    <3>1. PICK x : x \in S
      BY <2>2
    <3>2. S = {x}
      BY <1>1, <3>1
    <3> QED
      BY <3>2, FS_Singleton
  <2> QED
    BY <2>1, <2>2
<1>2. Cardinality(RegisteredAs(u)) \in {0, 1} /\ (RegisteredAs(u) = {} => Cardinality(RegisteredAs(u)) = 0)
  BY <1>1 DEF OnePlace
<1>3. Cardinality(AwaitedBy(u)) \in {0, 1} /\ (AwaitedBy(u) = {} => Cardinality(AwaitedBy(u)) = 0)
  BY <1>1 DEF OnePlace
<1> QED
  BY <1>2, <1>3 DEF OnePlace

LEMMA InvSuffices == Inv => TablesAgree
BY OnePlaceCounts DEF Inv, TablesAgree, OneRegistration, RegisteredAs, AwaitedBy
-----------------------------------------------------------------------------
LEMMA InitInv == ProviderInit => Inv
<1> SUFFICES ASSUME ProviderInit PROVE Inv
  OBVIOUS
<1>1. DOMAIN EmptyMap = {}
  BY DEF EmptyMap
<1>2. IdsFresh
  BY <1>1, FS_EmptySet DEF ProviderInit, IdsFresh
<1>3. \A u \in Subs : OnePlace(u)
  BY <1>1 DEF ProviderInit, OnePlace, RegisteredAs, AwaitedBy
<1>4. NothingStuck /\ Answerable
  BY <1>1 DEF ProviderInit, NothingStuck, Answerable
<1> QED
  BY <1>2, <1>3, <1>4 DEF Inv

(* Most steps touch no table.                                              *)
LEMMA TablesUntouched == ASSUME Inv, UNCHANGED << tableVars, asked >> PROVE Inv'
BY DEF Inv, IdsFresh, OnePlace, RegisteredAs, AwaitedBy, NothingStuck, Answerable, tableVars
-----------------------------------------------------------------------------
(* A request for u, or for no subscription when u is NULL, is sent while    *)
(* entries are only taken out of _subscriptions.                            *)
LEMMA SendRpcKeeps ==
  ASSUME Inv, NEW kind, NEW u \in Subs \cup {NULL}, NEW sid, SendRpc(kind, u, sid),
         DOMAIN subscriptions' \subseteq DOMAIN subscriptions,
         \A k \in DOMAIN subscriptions' : subscriptions'[k] = subscriptions[k],
         UNCHANGED waitingForId,
         u # NULL => u \notin asked, asked' = IF u = NULL THEN asked ELSE asked \cup {u}
  PROVE  Inv'
<1> DEFINE id == nextId + 1
<1>1. IsFiniteSet(DOMAIN subscriptions') /\ NothingStuck'
  BY FS_Subset DEF Inv, IdsFresh, NothingStuck
<1>2. \A v : RegisteredAs(v)' \subseteq RegisteredAs(v)
  BY DEF RegisteredAs
<1>3. CASE UNCHANGED << nextId, handlers, future >>
  <2>1. \A v : AwaitedBy(v)' = AwaitedBy(v)
    BY <1>3 DEF AwaitedBy
  <2>2. IdsFresh' /\ Answerable'
    BY <1>1, <1>3 DEF Inv, IdsFresh, Answerable
  <2>3. asked \subseteq asked'
    OBVIOUS
  <2>4. \A v \in Subs : OnePlace(v)'
    BY <1>2, <2>1, <2>3 DEF Inv, OnePlace
  <2> QED
    BY <1>1, <2>2, <2>4 DEF Inv
<1>4. CASE /\ nextId < MaxId
           /\ nextId' = id
           /\ handlers' = Put(handlers, id, [sub |-> u, resub |-> FALSE])
           /\ \E throws \in AddThrows :
                future' = [future EXCEPT ![id] = IF throws THEN "failed" ELSE "pending"]
  <2>1. id \notin DOMAIN handlers /\ id \in Ids /\ nextId \in Nat
    BY <1>4, RpcBoundsAssumption DEF Inv, IdsFresh, Ids
  <2>2. /\ DOMAIN handlers' = DOMAIN handlers \cup {id}
        /\ handlers'[id].sub = u
        /\ \A i \in DOMAIN handlers : handlers'[i] = handlers[i]
    <3> DEFINE e == [sub |-> u, resub |-> FALSE]
    <3>1. handlers' = Put(handlers, id, e) /\ e.sub = u
      BY <1>4
    <3> HIDE DEF e, id
    <3>2. /\ DOMAIN handlers' = DOMAIN handlers \cup {id}
          /\ handlers'[id] = e
          /\ \A i \in DOMAIN handlers \ {id} : handlers'[i] = handlers[i]
      BY <3>1 DEF Put
    <3> QED
      BY <2>1, <3>1, <3>2
  <2>3. IdsFresh'
    <3>1. nextId' \in Nat /\ DOMAIN handlers' \subseteq 1 .. nextId'
      BY <1>4, <2>1, <2>2 DEF Inv, IdsFresh
    <3>2. DOMAIN future' = Ids /\ DOMAIN handlers' \subseteq Ids
      BY <1>4, <2>1, <2>2 DEF Inv, IdsFresh
    <3> QED
      BY <1>1, <3>1, <3>2 DEF IdsFresh
  <2>4. Answerable'
    <3>1. \A i \in Ids \ {id} : future'[i] = future[i]
      BY <1>4 DEF Inv, IdsFresh
    <3> QED
      BY <2>2, <3>1 DEF Inv, Answerable
  <2>5. \A v \in Subs \ {u} : AwaitedBy(v)' = AwaitedBy(v)
    BY <2>1, <2>2 DEF AwaitedBy
  <2>6. ASSUME u \in Subs PROVE OnePlace(u)'
    <3>1. u # NULL /\ u \notin asked
      BY <2>6, SubsAssumption
    <3>2. AwaitedBy(u) = {} /\ RegisteredAs(u) = {}
      BY <2>6, <3>1 DEF Inv, OnePlace
    <3>3. AwaitedBy(u)' = {id}
      BY <2>1, <2>2, <3>2 DEF AwaitedBy
    <3>4. RegisteredAs(u)' = {} /\ u \in asked'
      BY <1>2, <3>1, <3>2
    <3> QED
      BY <3>3, <3>4 DEF OnePlace
  <2>7. \A v \in Subs \ {u} : OnePlace(v)'
    <3>1. asked \subseteq asked'
      OBVIOUS
    <3> QED
      BY <1>2, <2>5, <3>1 DEF Inv, OnePlace
  <2> QED
    BY <1>1, <2>3, <2>4, <2>6, <2>7 DEF Inv
<1> QED
  BY <1>3, <1>4 DEF SendRpc

LEMMA SendKeeps == ASSUME Inv, Send PROVE Inv'
<1>1. SendRpc("call", NULL, 0) /\ UNCHANGED << subscriptions, waitingForId, asked >>
  BY DEF Send
<1> QED
  BY <1>1, SendRpcKeeps

LEMMA SubscribeKeeps == ASSUME Inv, NEW u \in Subs, Subscribe(u) PROVE Inv'
<1>1. SendRpc("subscribe", u, 0) /\ UNCHANGED << subscriptions, waitingForId >>
  BY DEF Subscribe
<1>2. u \notin asked /\ asked' = asked \cup {u} /\ u # NULL
  BY SubsAssumption DEF Subscribe
<1> QED
  BY <1>1, <1>2, SendRpcKeeps

LEMMA UnsubscribeKeeps == ASSUME Inv, NEW u \in Subs, Unsubscribe(u) PROVE Inv'
<1>1. SendRpc("unsubscribe", NULL, knownId[u]) /\ UNCHANGED << waitingForId, asked >>
  BY DEF Unsubscribe
<1>2. /\ DOMAIN subscriptions' \subseteq DOMAIN subscriptions
      /\ \A k \in DOMAIN subscriptions' : subscriptions'[k] = subscriptions[k]
  BY DEF Unsubscribe, Drop, Restrict
<1> QED
  BY <1>1, <1>2, SendRpcKeeps

(* Resubscribing moves a subscription from its key to one new request.      *)
LEMMA ResubscribeKeeps ==
  ASSUME Inv, NEW s \in Sockets, Resubscribe(s), UNCHANGED << waitingForId, asked >>
  PROVE  Inv'
<1> DEFINE n == Cardinality(Renewed)
           newIds == nextId + 1 .. nextId + n
<1>1. n \in Nat /\ nextId \in Nat
  BY FS_Subset, FS_CardinalityType DEF Inv, IdsFresh, Renewed
<1>2. PICK order \in Bijection(newIds, Renewed) :
        /\ nextId + n <= MaxId
        /\ nextId' = nextId + n
        /\ handlers' = [i \in DOMAIN handlers \cup newIds |->
                          IF i \in newIds THEN [sub |-> subscriptions[order[i]], resub |-> TRUE]
                                          ELSE handlers[i]]
        /\ future' = [i \in Ids |-> IF i \in newIds THEN "pending" ELSE future[i]]
        /\ subscriptions' = Remaining
  BY DEF Resubscribe
<1>3. /\ \A i \in newIds : order[i] \in DOMAIN subscriptions
      /\ \A i, j \in newIds : order[i] = order[j] => i = j
  BY <1>2 DEF Bijection, Injection, Surjection, IsInjective, Renewed
<1>4. DOMAIN subscriptions' = {}
  BY <1>2 DEF Remaining, EmptyMap
<1>5. newIds \subseteq Ids /\ newIds \cap DOMAIN handlers = {}
  BY <1>1, <1>2, RpcBoundsAssumption DEF Inv, IdsFresh, Ids
<1> HIDE DEF newIds
<1>6. /\ DOMAIN handlers' = DOMAIN handlers \cup newIds
      /\ \A i \in newIds : handlers'[i].sub = subscriptions[order[i]]
      /\ \A i \in DOMAIN handlers : handlers'[i] = handlers[i]
  BY <1>2, <1>5
<1>7. IdsFresh'
  <2>1. nextId' \in Nat /\ DOMAIN handlers' \subseteq 1 .. nextId'
    BY <1>1, <1>2, <1>6 DEF Inv, IdsFresh, newIds
  <2>2. DOMAIN handlers' \subseteq Ids /\ DOMAIN future' = Ids
    BY <1>2, <1>5, <1>6 DEF Inv, IdsFresh
  <2> QED
    BY <1>4, <2>1, <2>2, FS_EmptySet DEF IdsFresh
<1>8. ASSUME NEW u \in Subs PROVE OnePlace(u)'
  <2>1. RegisteredAs(u)' = {}
    BY <1>4 DEF RegisteredAs
  <2>2. \A i \in AwaitedBy(u)' : i \in AwaitedBy(u) \/ (i \in newIds /\ order[i] \in RegisteredAs(u))
    BY <1>3, <1>6 DEF AwaitedBy, RegisteredAs
  <2>3. OnePlace(u)
    BY DEF Inv
  <2>4. ASSUME NEW i \in AwaitedBy(u)', NEW j \in AwaitedBy(u)' PROVE i = j
    BY <1>3, <2>2, <2>3, <2>4 DEF OnePlace
  <2>5. u \notin asked' => AwaitedBy(u)' = {}
    BY <2>2, <2>3 DEF OnePlace
  <2> QED
    BY <2>1, <2>4, <2>5 DEF OnePlace
<1>9. NothingStuck'
  BY <1>4 DEF NothingStuck
<1>10. Answerable'
  BY <1>2, <1>6 DEF Inv, Answerable
<1> QED
  BY <1>7, <1>8, <1>9, <1>10 DEF Inv

(* A confirmed subscription moves from its request to its key.              *)
LEMMA SettleKeeps ==
  ASSUME Inv, NEW m, m.id \in DOMAIN handlers, Settle(m), UNCHANGED << nextId, asked >>
  PROVE  Inv'
<1> DEFINE h == handlers[m.id]
           k == KeyOf(h.sub, m.sid)
           starts == m.ok /\ h.sub # NULL
<1>1. /\ future' = [future EXCEPT ![m.id] = Outcome(m)]
      /\ handlers' = Drop(handlers, m.id)
      /\ IF starts THEN subscriptions' = Put(subscriptions, k, h.sub)
                   ELSE UNCHANGED subscriptions
      /\ IF starts /\ Waiting(k) THEN waitingForId' = Drop(waitingForId, k)
                                 ELSE UNCHANGED waitingForId
  BY DEF Settle
<1> HIDE DEF k
<1>2. /\ DOMAIN handlers' = DOMAIN handlers \ {m.id}
      /\ \A i \in DOMAIN handlers' : handlers'[i] = handlers[i]
  BY <1>1 DEF Drop, Restrict
<1>3. \A u : AwaitedBy(u)' = AwaitedBy(u) \ {m.id}
  BY <1>2 DEF AwaitedBy
<1>4. Answerable'
  <2>1. Outcome(m) # "pending"
    BY DEF Outcome
  <2>2. m.id \in Ids /\ DOMAIN future = Ids
    BY DEF Inv, IdsFresh
  <2> QED
    BY <1>1, <1>2, <2>1, <2>2 DEF Inv, Answerable
<1>5. CASE ~starts
  <2>1. UNCHANGED << subscriptions, waitingForId >>
    BY <1>1, <1>5
  <2>2. \A u : RegisteredAs(u)' = RegisteredAs(u)
    BY <2>1 DEF RegisteredAs
  <2>3. IdsFresh' /\ NothingStuck'
    BY <1>1, <1>2, <2>1 DEF Inv, IdsFresh, NothingStuck
  <2>4. \A u \in Subs : OnePlace(u)'
    BY <1>3, <2>2 DEF Inv, OnePlace
  <2> QED
    BY <1>4, <2>3, <2>4 DEF Inv
<1>6. CASE starts
  <2>1. /\ DOMAIN subscriptions' = DOMAIN subscriptions \cup {k}
        /\ subscriptions'[k] = h.sub
        /\ \A l \in DOMAIN subscriptions \ {k} : subscriptions'[l] = subscriptions[l]
    BY <1>1, <1>6 DEF Put
  <2>2. IdsFresh'
    <3>1. IsFiniteSet(DOMAIN subscriptions')
      BY <2>1, FS_AddElement DEF Inv, IdsFresh
    <3> QED
      BY <1>1, <1>2, <3>1 DEF Inv, IdsFresh
  <2>3. NothingStuck'
    <3>1. DOMAIN waitingForId' = DOMAIN waitingForId \ {k}
      BY <1>1, <1>6 DEF Waiting, Drop, Restrict
    <3> QED
      BY <2>1, <3>1 DEF Inv, NothingStuck
  <2>4. ASSUME NEW u \in Subs, u # h.sub PROVE OnePlace(u)'
    <3>1. RegisteredAs(u)' \subseteq RegisteredAs(u)
      BY <2>1, <2>4 DEF RegisteredAs
    <3> QED
      BY <1>3, <3>1 DEF Inv, OnePlace
  <2>5. ASSUME NEW u \in Subs, u = h.sub PROVE OnePlace(u)'
    <3>1. m.id \in AwaitedBy(u)
      BY <2>5 DEF AwaitedBy
    <3>2. RegisteredAs(u) = {} /\ AwaitedBy(u) = {m.id} /\ u \in asked
      BY <3>1 DEF Inv, OnePlace
    <3>3. RegisteredAs(u)' = {k}
      BY <2>1, <2>5, <3>2 DEF RegisteredAs
    <3>4. AwaitedBy(u)' = {}
      BY <1>3, <3>2
    <3> QED
      BY <3>2, <3>3, <3>4 DEF OnePlace
  <2> QED
    BY <1>4, <2>2, <2>3, <2>4, <2>5 DEF Inv
<1> QED
  BY <1>5, <1>6

LEMMA ReceiveReplyKeeps == ASSUME Inv, NEW s \in Sockets, ReceiveReply(s) PROVE Inv'
<1> DEFINE m == Head(toClient[s])
<1>1. UNCHANGED << nextId, asked >>
  BY DEF ReceiveReply
<1>2. CASE m.id \in DOMAIN handlers
  <2>1. Settle(m)
    BY <1>2 DEF ReceiveReply
  <2> HIDE DEF m
  <2> QED
    BY <1>1, <1>2, <2>1, SettleKeeps
<1>3. CASE m.id \notin DOMAIN handlers
  BY <1>1, <1>3, TablesUntouched DEF ReceiveReply, tableVars
<1> QED
  BY <1>2, <1>3

(* A notification is queued only where nothing is registered.               *)
LEMMA ReceiveNoteKeeps == ASSUME Inv, NEW s \in Sockets, ReceiveNote(s) PROVE Inv'
<1> DEFINE m == Head(toClient[s])
<1>1. UNCHANGED << nextId, handlers, future, subscriptions, asked >>
  BY DEF ReceiveNote
<1>2. DOMAIN waitingForId' =
        IF m.key \in DOMAIN subscriptions THEN DOMAIN waitingForId \ {m.key}
                                          ELSE DOMAIN waitingForId \cup {m.key}
  BY DEF ReceiveNote, Drop, Restrict, Put
<1>3. NothingStuck'
  BY <1>1, <1>2 DEF Inv, NothingStuck
<1>4. IdsFresh' /\ Answerable' /\ \A u \in Subs : OnePlace(u)'
  BY <1>1 DEF Inv, IdsFresh, Answerable, OnePlace, RegisteredAs, AwaitedBy
<1> QED
  BY <1>3, <1>4 DEF Inv
-----------------------------------------------------------------------------
LEMMA StepKeeps == ASSUME Inv, [ProviderNext]_vars PROVE Inv'
<1>1. CASE ConnectionStep \/ UNCHANGED vars
  BY <1>1, TablesUntouched DEF ConnectionStep, rpcVars, userVars, vars
<1>2. CASE UserStep
  BY <1>2, SendKeeps, SubscribeKeeps, UnsubscribeKeeps DEF UserStep
<1>3. ASSUME NEW s \in Sockets, SocketStep(s) PROVE Inv'
  <2>1. CASE SocketOpened(s)
    BY <2>1, ResubscribeKeeps DEF SocketOpened, userVars
  <2>2. CASE SocketClosed(s)
    BY <2>2, TablesUntouched DEF SocketClosed, userVars
  <2> QED
    BY <1>3, <2>1, <2>2, ReceiveReplyKeeps, ReceiveNoteKeeps DEF SocketStep
<1>4. ASSUME NEW s \in Sockets, NodeStep(s) PROVE Inv'
  <2>1. UNCHANGED << tableVars, userVars >>
    BY <1>4 DEF NodeStep, NodeAnswers, NodeAccepts, NodeRefuses, NodeReplies, NodeNotifies, PeerLeaves
  <2> QED
    BY <2>1, TablesUntouched DEF userVars
<1> QED
  BY <1>1, <1>2, <1>3, <1>4 DEF ProviderNext

(* The tables of the provider agree, for any subscriptions and however many *)
(* connections are lost, overlap or are closed: no subscription is          *)
(* registered or asked for twice, nothing is left queued once it could be   *)
(* delivered, and every pending request can be answered                     *)
(* (index.dart:229-256, 335-420).                                           *)
THEOREM TablesAlwaysAgree == ProviderSpec => []TablesAgree
<1>1. ProviderSpec => []Inv
  BY InitInv, StepKeeps, PTL DEF ProviderSpec
<1> QED
  BY <1>1, InvSuffices, PTL
-----------------------------------------------------------------------------
(* The provider's connection is the one of WsConnection.tla.               *)
LEMMA ConnectionInit == ProviderInit => Init
BY DEF ProviderInit

LEMMA ConnectionSteps == ASSUME [ProviderNext]_vars PROVE [Next]_connVars
<1>1. CASE UNCHANGED vars
  BY <1>1 DEF vars
<1>2. CASE ConnectionStep
  BY <1>2 DEF ConnectionStep, Next
<1>3. CASE UserStep
  BY <1>3 DEF UserStep, Send, Subscribe, Unsubscribe
<1>4. ASSUME NEW s \in Sockets, SocketStep(s) PROVE [Next]_connVars
  BY <1>4 DEF SocketStep, SocketOpened, SocketClosed, ReceiveReply, ReceiveNote, Next
<1>5. ASSUME NEW s \in Sockets, NodeStep(s) PROVE UNCHANGED connVars
  BY <1>5 DEF NodeStep, NodeAnswers, NodeAccepts, NodeRefuses, NodeReplies, NodeNotifies, PeerLeaves
<1> QED
  BY <1>1, <1>2, <1>3, <1>4, <1>5 DEF ProviderNext

(* Requests, subscriptions and the node do not disturb the connection: the  *)
(* provider's sockets and timers behave as WsConnection.tla says, and what  *)
(* WsConnectionProofs proves of them holds of the provider                  *)
(* (index.dart:128-219, 287-301, 384-395).                                  *)
THEOREM ConnectionComposes == ProviderSpec => Spec
BY ConnectionInit, ConnectionSteps, PTL DEF ProviderSpec, Spec
-----------------------------------------------------------------------------
(* Types.  An id of a subscription fits because the node cannot start more  *)
(* of them on a connection than it was sent requests; a key is one because  *)
(* a reply that has no id answers no request for a subscription.            *)

NoSubscription(id) == id \in DOMAIN handlers => handlers[id].sub = NULL

KnownRequests == {r \in Requests : /\ r.id <= nextId
                                   /\ r.kind = "subscribe" => r.sub \in Subs
                                   /\ r.kind # "subscribe" => NoSubscription(r.id)}
KnownServed   == {x \in Served : x.owner <= nextId}
KnownReplies  == {m \in Replies : /\ m.id <= nextId
                                  /\ m.ok /\ m.sid = 0 => NoSubscription(m.id)}
Sendable      == KnownReplies \cup Updates

TablesTyped ==
  /\ nextId \in 0 .. MaxId
  /\ IsMap(handlers, Ids, Handlers)
  /\ future \in [Ids -> {"none", "pending", "done", "failed"}]
  /\ IsMap(subscriptions, Keys, Subs)
  /\ IsMap(waitingForId, Keys, Notes)

UserTyped ==
  /\ asked \subseteq Subs
  /\ knownId \in [Subs -> 0 .. MaxId]
  /\ \A u \in Subs : knownId[u] # 0 => u \in asked
  /\ quit \subseteq asked
  /\ heard \in [Subs -> Notes \cup {NULL}]
  /\ sends \in 0 .. MaxSends

NodeTyped ==
  /\ inbox \in [Sockets -> SUBSET KnownRequests]
  /\ serving \in [Sockets -> SUBSET KnownServed]
  /\ served \in [Sockets -> Nat]
  /\ toClient \in [Sockets -> Seq(Sendable)]
  /\ \A s \in Sockets : IsFiniteSet(inbox[s]) /\ served[s] + Cardinality(inbox[s]) <= nextId
  /\ drops \in 0 .. MaxDrops

TypesInv == TypeOK /\ TablesTyped /\ UserTyped /\ NodeTyped /\ gone \subseteq Live

LEMMA TypesSuffice == TypesInv => ProviderTypeOK
<1> SUFFICES ASSUME TypesInv PROVE ProviderTypeOK
  OBVIOUS
<1>1. served \in [Sockets -> 0 .. MaxId]
  <2>1. ASSUME NEW s \in Sockets PROVE served[s] \in 0 .. MaxId
    <3>1. Cardinality(inbox[s]) \in Nat
      BY FS_CardinalityType DEF TypesInv, NodeTyped
    <3>2. /\ served[s] \in Nat /\ served[s] + Cardinality(inbox[s]) <= nextId
          /\ nextId \in 0 .. MaxId /\ MaxId \in Nat
      BY RpcBoundsAssumption DEF TypesInv, NodeTyped, TablesTyped
    <3> QED
      BY <3>1, <3>2
  <2> QED
    BY <2>1 DEF TypesInv, NodeTyped
<1>2. toClient \in [Sockets -> Seq(Replies \cup Updates)]
  <2>1. ASSUME NEW s \in Sockets PROVE toClient[s] \in Seq(Replies \cup Updates)
    <3>1. toClient[s] \in Seq(Sendable) /\ Sendable \subseteq Replies \cup Updates
      BY DEF TypesInv, NodeTyped, Sendable, KnownReplies
    <3> QED
      BY <3>1, SeqMonotonic
  <2> QED
    BY <2>1 DEF TypesInv, NodeTyped
<1>3. inbox \in [Sockets -> SUBSET Requests] /\ serving \in [Sockets -> SUBSET Served]
  BY DEF TypesInv, NodeTyped, KnownRequests, KnownServed
<1> QED
  BY <1>1, <1>2, <1>3 DEF TypesInv, TablesTyped, UserTyped, NodeTyped, ProviderTypeOK

LEMMA InitTypes == ASSUME ProviderInit PROVE TypesInv
<1>1. DOMAIN EmptyMap = {}
  BY DEF EmptyMap
<1>2. MaxId \in Nat /\ MaxSends \in Nat /\ MaxDrops \in Nat
  BY RpcBoundsAssumption
<1>3. TypeOK
  BY ConnectionInit, TypeOKInit
<1>4. TablesTyped
  BY <1>1, <1>2 DEF ProviderInit, TablesTyped, IsMap
<1>5. UserTyped
  BY <1>2 DEF ProviderInit, UserTyped
<1>6. NodeTyped
  <2>1. \A s \in Sockets : inbox[s] = {} /\ served[s] = 0 /\ nextId = 0
    BY DEF ProviderInit
  <2>2. IsFiniteSet({}) /\ Cardinality({}) = 0
    BY FS_EmptySet
  <2>3. toClient \in [Sockets -> Seq(Sendable)]
    BY EmptySeq DEF ProviderInit
  <2>4. /\ inbox \in [Sockets -> SUBSET KnownRequests] /\ serving \in [Sockets -> SUBSET KnownServed]
        /\ served \in [Sockets -> Nat] /\ drops \in 0 .. MaxDrops
    BY <1>2 DEF ProviderInit
  <2>5. \A s \in Sockets : IsFiniteSet(inbox[s]) /\ served[s] + Cardinality(inbox[s]) <= nextId
    BY <2>1, <2>2
  <2> QED
    BY <2>3, <2>4, <2>5 DEF NodeTyped
<1>7. gone \subseteq Live
  BY DEF ProviderInit
<1> QED
  BY <1>3, <1>4, <1>5, <1>6, <1>7 DEF TypesInv

(* What was known of an id stays so while only newer ids are given out.     *)
LEMMA StillKnown ==
  ASSUME nextId \in Nat, nextId' \in Nat, nextId <= nextId',
         \A i \in DOMAIN handlers' :
           i > nextId \/ (i \in DOMAIN handlers /\ handlers'[i] = handlers[i])
  PROVE  /\ KnownRequests \subseteq KnownRequests' /\ KnownServed \subseteq KnownServed'
         /\ Sendable \subseteq Sendable'
<1>1. Ids \subseteq Nat
  BY DEF Ids
<1>2. ASSUME NEW id \in Nat, id <= nextId
      PROVE  id <= nextId' /\ (NoSubscription(id) => NoSubscription(id)')
  <2>1. id <= nextId' /\ ~(id > nextId)
    BY <1>2
  <2> QED
    BY <2>1 DEF NoSubscription
<1>3. \A r \in Requests : r.id \in Nat
  BY <1>1 DEF Requests
<1>4. \A x \in Served : x.owner \in Nat
  BY <1>1 DEF Served
<1>5. \A m \in Replies : m.id \in Nat
  BY <1>1 DEF Replies
<1> QED
  BY <1>2, <1>3, <1>4, <1>5 DEF KnownRequests, KnownServed, KnownReplies, Sendable

LEMMA NodeStaysTyped ==
  ASSUME NodeTyped, nextId \in Nat, nextId' \in Nat, nextId <= nextId',
         \A i \in DOMAIN handlers' :
           i > nextId \/ (i \in DOMAIN handlers /\ handlers'[i] = handlers[i]),
         toClient' \in [Sockets -> Seq(Sendable)],
         inbox' \in [Sockets -> SUBSET KnownRequests'],
         \A s \in Sockets : /\ IsFiniteSet(inbox'[s])
                            /\ served[s] + Cardinality(inbox'[s]) <= nextId',
         UNCHANGED << serving, served, drops >>
  PROVE  NodeTyped'
<1>1. KnownServed \subseteq KnownServed' /\ Sendable \subseteq Sendable'
  BY StillKnown
<1>2. toClient' \in [Sockets -> Seq(Sendable')]
  BY <1>1, SeqMonotonic
<1>3. serving' \in [Sockets -> SUBSET KnownServed']
  BY <1>1 DEF NodeTyped
<1> QED
  BY <1>2, <1>3 DEF NodeTyped

LEMMA NodeUnmoved ==
  ASSUME NodeTyped, nextId \in Nat, nextId' = nextId,
         \A i \in DOMAIN handlers' : i \in DOMAIN handlers /\ handlers'[i] = handlers[i],
         toClient' \in [Sockets -> Seq(Sendable)],
         UNCHANGED << inbox, serving, served, drops >>
  PROVE  NodeTyped'
<1>1. nextId <= nextId' /\ nextId' \in Nat
  OBVIOUS
<1>2. KnownRequests \subseteq KnownRequests'
  BY <1>1, StillKnown
<1>3. inbox' \in [Sockets -> SUBSET KnownRequests']
  BY <1>2 DEF NodeTyped
<1>4. \A s \in Sockets : IsFiniteSet(inbox'[s]) /\ served[s] + Cardinality(inbox'[s]) <= nextId'
  BY DEF NodeTyped
<1> QED
  BY <1>1, <1>3, <1>4, NodeStaysTyped
-----------------------------------------------------------------------------
(* A request is sent.                                                      *)
LEMMA SendRpcTyped ==
  ASSUME Inv, TypesInv, NEW kind \in {"call", "subscribe", "unsubscribe"},
         NEW u \in Subs \cup {NULL}, NEW sid \in 0 .. MaxId,
         kind = "subscribe" <=> u # NULL, SendRpc(kind, u, sid),
         UNCHANGED << serving, served, toClient, drops >>
  PROVE  /\ nextId' \in 0 .. MaxId /\ IsMap(handlers', Ids, Handlers)
         /\ future' \in [Ids -> {"none", "pending", "done", "failed"}]
         /\ NodeTyped'
<1> DEFINE id == nextId + 1
           req == [kind |-> kind, id |-> id, sub |-> u, sid |-> sid]
           e == [sub |-> u, resub |-> FALSE]
<1>1. nextId \in 0 .. MaxId /\ nextId \in Nat /\ MaxId \in Nat /\ DOMAIN handlers \subseteq 1 .. nextId
  BY RpcBoundsAssumption DEF TypesInv, TablesTyped, Inv, IdsFresh
<1>2. CASE UNCHANGED << nextId, handlers, future, inbox >>
  BY <1>1, <1>2, NodeUnmoved DEF TypesInv, TablesTyped, NodeTyped
<1>3. CASE ~UNCHANGED << nextId, handlers, future, inbox >>
  <2>1. /\ nextId < MaxId /\ nextId' = id /\ handlers' = Put(handlers, id, e)
        /\ \E throws \in AddThrows :
             future' = [future EXCEPT ![id] = IF throws THEN "failed" ELSE "pending"]
        /\ inbox' = [s \in Sockets |->
                       IF s = websocket /\ Reaches(s) THEN inbox[s] \cup {req} ELSE inbox[s]]
    BY <1>3 DEF SendRpc
  <2>2. id \in Nat /\ id \in Ids /\ id > nextId /\ id <= MaxId /\ nextId <= id
    BY <1>1, <2>1 DEF Ids
  <2>3. e \in Handlers /\ e.sub = u
    BY DEF Handlers
  <2>4. req \in Requests /\ req.id = id /\ req.kind = kind /\ req.sub = u
    BY <2>2 DEF Requests
  <2> HIDE DEF e, req
  <2>5. /\ DOMAIN handlers' = DOMAIN handlers \cup {id} /\ handlers'[id] = e
        /\ \A i \in DOMAIN handlers : i # id => handlers'[i] = handlers[i]
    BY <2>1 DEF Put
  <2>6. IsMap(handlers', Ids, Handlers)
    BY <2>2, <2>3, <2>5 DEF IsMap, TypesInv, TablesTyped
  <2>7. future' \in [Ids -> {"none", "pending", "done", "failed"}]
    BY <2>1 DEF TypesInv, TablesTyped
  <2>8. nextId' \in Nat /\ nextId <= nextId' /\ nextId' <= MaxId
    BY <2>1, <2>2
  <2>9. \A i \in DOMAIN handlers' :
          i > nextId \/ (i \in DOMAIN handlers /\ handlers'[i] = handlers[i])
    BY <2>2, <2>5
  <2>10. req \in KnownRequests'
    BY <2>1, <2>2, <2>3, <2>4, <2>5 DEF KnownRequests, NoSubscription
  <2> HIDE DEF id
  <2>11. KnownRequests \subseteq KnownRequests'
    BY <1>1, <2>8, <2>9, StillKnown
  <2>12. inbox' \in [Sockets -> SUBSET KnownRequests']
    BY <2>1, <2>10, <2>11 DEF TypesInv, NodeTyped
  <2>13. ASSUME NEW s \in Sockets
         PROVE  IsFiniteSet(inbox'[s]) /\ served[s] + Cardinality(inbox'[s]) <= nextId'
    <3> DEFINE c == Cardinality(inbox[s])
    <3>1. /\ IsFiniteSet(inbox[s]) /\ c \in Nat
          /\ served[s] \in Nat /\ served[s] + c <= nextId
      BY FS_CardinalityType DEF TypesInv, NodeTyped
    <3>2. inbox'[s] = inbox[s] \/ inbox'[s] = inbox[s] \cup {req}
      BY <2>1
    <3>3. IsFiniteSet(inbox'[s]) /\ Cardinality(inbox'[s]) \in {c, c + 1}
      BY <3>1, <3>2, FS_AddElement
    <3>4. nextId' = nextId + 1
      BY <2>1 DEF id
    <3> HIDE DEF c
    <3> QED
      BY <1>1, <3>1, <3>3, <3>4
  <2>14. toClient' \in [Sockets -> Seq(Sendable)] /\ NodeTyped
    BY DEF TypesInv, NodeTyped
  <2>15. NodeTyped'
    BY <1>1, <2>8, <2>9, <2>12, <2>13, <2>14, NodeStaysTyped
  <2> QED
    BY <1>1, <2>6, <2>7, <2>8, <2>15
<1> QED
  BY <1>2, <1>3

LEMMA UserStepTyped == ASSUME Inv, TypesInv, UserStep PROVE TypesInv'
<1>1. UNCHANGED << connVars, waitingForId, knownId, heard, serving, served, toClient, gone, drops >>
  BY DEF UserStep, Send, Subscribe, Unsubscribe
<1>2. TypeOK' /\ gone' \subseteq Live'
  <2>1. TypeOK'
    BY <1>1, TypeOKStep DEF TypesInv
  <2>2. Live' = Live
    BY <1>1 DEF connVars, Live
  <2> QED
    BY <1>1, <2>1, <2>2 DEF TypesInv
<1>3. 0 \in 0 .. MaxId /\ MaxSends \in Nat
  BY RpcBoundsAssumption
<1>4. CASE Send
  <2>1. SendRpc("call", NULL, 0) /\ sends' = sends + 1 /\ sends < MaxSends
        /\ UNCHANGED << subscriptions, asked, quit >>
    BY <1>4 DEF Send
  <2>2. /\ nextId' \in 0 .. MaxId /\ IsMap(handlers', Ids, Handlers)
        /\ future' \in [Ids -> {"none", "pending", "done", "failed"}] /\ NodeTyped'
    BY <1>1, <1>3, <2>1, SendRpcTyped
  <2>3. TablesTyped'
    BY <1>1, <2>1, <2>2 DEF TypesInv, TablesTyped, IsMap
  <2>4. UserTyped'
    BY <1>1, <1>3, <2>1 DEF TypesInv, UserTyped
  <2> QED
    BY <1>2, <2>2, <2>3, <2>4 DEF TypesInv
<1>5. ASSUME NEW u \in Subs, Subscribe(u) PROVE TypesInv'
  <2>1. SendRpc("subscribe", u, 0) /\ asked' = asked \cup {u}
        /\ UNCHANGED << subscriptions, quit, sends >>
    BY <1>5 DEF Subscribe
  <2>2. u # NULL
    BY SubsAssumption
  <2>3. /\ nextId' \in 0 .. MaxId /\ IsMap(handlers', Ids, Handlers)
        /\ future' \in [Ids -> {"none", "pending", "done", "failed"}] /\ NodeTyped'
    BY <1>1, <1>3, <2>1, <2>2, SendRpcTyped
  <2>4. TablesTyped'
    BY <1>1, <2>1, <2>3 DEF TypesInv, TablesTyped, IsMap
  <2>5. UserTyped'
    BY <1>1, <2>1 DEF TypesInv, UserTyped
  <2> QED
    BY <1>2, <2>3, <2>4, <2>5 DEF TypesInv
<1>6. ASSUME NEW u \in Subs, Unsubscribe(u) PROVE TypesInv'
  <2> DEFINE k == KeyOf(u, knownId[u])
  <2>1. /\ k \in DOMAIN subscriptions /\ quit' = quit \cup {u}
        /\ subscriptions' = Drop(subscriptions, k)
        /\ SendRpc("unsubscribe", NULL, knownId[u])
        /\ UNCHANGED << asked, sends >>
    BY <1>6 DEF Unsubscribe
  <2>2. knownId[u] \in 0 .. MaxId /\ MaxId \in Nat
    BY RpcBoundsAssumption DEF TypesInv, UserTyped
  <2>3. u \in asked
    <3>1. k \in Keys
      BY <2>1 DEF TypesInv, TablesTyped, IsMap
    <3>2. knownId[u] \in Ids
      BY <3>1 DEF Keys, KeyOf
    <3> QED
      BY <3>2 DEF Ids, TypesInv, UserTyped
  <2> HIDE DEF k
  <2>4. /\ nextId' \in 0 .. MaxId /\ IsMap(handlers', Ids, Handlers)
        /\ future' \in [Ids -> {"none", "pending", "done", "failed"}] /\ NodeTyped'
    BY <1>1, <2>1, <2>2, SendRpcTyped
  <2>5. IsMap(subscriptions', Keys, Subs)
    BY <2>1 DEF Drop, Restrict, TypesInv, TablesTyped, IsMap
  <2>6. TablesTyped'
    BY <1>1, <2>4, <2>5 DEF TypesInv, TablesTyped, IsMap
  <2>7. UserTyped'
    BY <1>1, <2>1, <2>3 DEF TypesInv, UserTyped
  <2> QED
    BY <1>2, <2>4, <2>6, <2>7 DEF TypesInv
<1> QED
  BY <1>4, <1>5, <1>6 DEF UserStep
-----------------------------------------------------------------------------
(* The socket's callbacks.                                                 *)

LEMMA SocketOpenedTyped ==
  ASSUME Inv, TypesInv, NEW s \in Sockets, SocketOpened(s) PROVE TypesInv'
<1> DEFINE n == Cardinality(Renewed)
           newIds == nextId + 1 .. nextId + n
<1>1. /\ Opened(s) /\ Resubscribe(s)
      /\ UNCHANGED << waitingForId, asked, knownId, quit, heard, sends, serving, served,
                      toClient, gone, drops >>
  BY DEF SocketOpened, userVars
<1>2. n \in Nat /\ nextId \in Nat /\ MaxId \in Nat /\ DOMAIN handlers \subseteq 1 .. nextId
  BY FS_Subset, FS_CardinalityType, RpcBoundsAssumption DEF Inv, IdsFresh, Renewed
<1>3. PICK order \in Bijection(newIds, Renewed) :
        /\ nextId + n <= MaxId /\ nextId' = nextId + n
        /\ handlers' = [i \in DOMAIN handlers \cup newIds |->
                          IF i \in newIds THEN [sub |-> subscriptions[order[i]], resub |-> TRUE]
                                          ELSE handlers[i]]
        /\ future' = [i \in Ids |-> IF i \in newIds THEN "pending" ELSE future[i]]
        /\ inbox' = [inbox EXCEPT ![s] =
                       {[kind |-> "subscribe", id |-> i, sub |-> subscriptions[order[i]], sid |-> 0] :
                          i \in newIds}]
        /\ subscriptions' = Remaining
  BY <1>1 DEF Resubscribe
<1>4. \A i \in newIds : subscriptions[order[i]] \in Subs
  BY <1>3 DEF Bijection, Injection, Surjection, Renewed, TypesInv, TablesTyped, IsMap
<1>5. \A i \in newIds : i \in Ids /\ i > nextId /\ i <= nextId'
  BY <1>2, <1>3 DEF Ids
<1>6. IsFiniteSet(newIds) /\ Cardinality(newIds) = n
  BY <1>2, FS_Interval
<1>7. nextId' \in Nat /\ nextId <= nextId' /\ nextId' <= MaxId
  BY <1>2, <1>3
<1> HIDE DEF newIds, n
<1>8. /\ DOMAIN handlers' = DOMAIN handlers \cup newIds
      /\ \A i \in newIds : handlers'[i] = [sub |-> subscriptions[order[i]], resub |-> TRUE]
      /\ \A i \in DOMAIN handlers \ newIds : handlers'[i] = handlers[i]
  BY <1>3
<1>9. TablesTyped'
  <2>1. IsMap(handlers', Ids, Handlers)
    <3>1. ASSUME NEW i \in newIds PROVE handlers'[i] \in Handlers
      <4> DEFINE v == subscriptions[order[i]]
      <4>1. v \in Subs /\ handlers'[i] = [sub |-> v, resub |-> TRUE]
        BY <1>4, <1>8
      <4> HIDE DEF v
      <4>2. [sub |-> v, resub |-> TRUE] \in Handlers
        BY <4>1 DEF Handlers
      <4> QED
        BY <4>1, <4>2
    <3> QED
      BY <1>5, <1>8, <3>1 DEF IsMap, TypesInv, TablesTyped
  <2>2. future' \in [Ids -> {"none", "pending", "done", "failed"}]
    BY <1>3 DEF TypesInv, TablesTyped
  <2>3. DOMAIN subscriptions' = {}
    BY <1>3 DEF Remaining, EmptyMap
  <2> QED
    BY <1>1, <1>2, <1>7, <2>1, <2>2, <2>3 DEF TypesInv, TablesTyped, IsMap
<1>10. UserTyped'
  BY <1>1 DEF TypesInv, UserTyped
<1>11. NodeTyped'
  <2> DEFINE req(i) == [kind |-> "subscribe", id |-> i, sub |-> subscriptions[order[i]], sid |-> 0]
             f == [i \in newIds |-> req(i)]
             T == {req(i) : i \in newIds}
  <2>1. \A i \in DOMAIN handlers' :
          i > nextId \/ (i \in DOMAIN handlers /\ handlers'[i] = handlers[i])
    BY <1>5, <1>8
  <2>2. f \in Surjection(newIds, T)
    BY DEF Surjection
  <2>3. inbox' = [inbox EXCEPT ![s] = T]
    BY <1>3
  <2>4. T \subseteq KnownRequests'
    <3>1. ASSUME NEW i \in newIds PROVE req(i) \in KnownRequests'
      <4>1. 0 \in 0 .. MaxId
        BY <1>2
      <4>2. req(i) \in Requests
        BY <1>4, <1>5, <4>1 DEF Requests
      <4> QED
        BY <1>4, <1>5, <4>2 DEF KnownRequests
    <3> QED
      BY <3>1
  <2> HIDE DEF f, T
  <2>5. IsFiniteSet(T) /\ Cardinality(T) <= n /\ Cardinality(T) \in Nat
    BY <1>6, <2>2, FS_Surjection, FS_CardinalityType
  <2>6. KnownRequests \subseteq KnownRequests'
    BY <1>2, <1>7, <2>1, StillKnown
  <2>7. inbox' \in [Sockets -> SUBSET KnownRequests']
    BY <2>3, <2>4, <2>6 DEF TypesInv, NodeTyped
  <2>8. ASSUME NEW t \in Sockets
        PROVE  IsFiniteSet(inbox'[t]) /\ served[t] + Cardinality(inbox'[t]) <= nextId'
    <3>1. /\ IsFiniteSet(inbox[t]) /\ Cardinality(inbox[t]) \in Nat
          /\ served[t] \in Nat /\ served[t] + Cardinality(inbox[t]) <= nextId
      BY FS_CardinalityType DEF TypesInv, NodeTyped
    <3>2. CASE t = s
      <4>1. inbox'[t] = T
        BY <2>3, <3>2 DEF TypesInv, NodeTyped
      <4>2. nextId' = nextId + n
        BY <1>3
      <4> QED
        BY <1>2, <2>5, <3>1, <4>1, <4>2
    <3>3. CASE t # s
      <4>1. inbox'[t] = inbox[t]
        BY <2>3, <3>3 DEF TypesInv, NodeTyped
      <4> QED
        BY <1>2, <1>7, <3>1, <4>1
    <3> QED
      BY <3>2, <3>3
  <2>9. toClient' \in [Sockets -> Seq(Sendable)] /\ NodeTyped
    BY <1>1 DEF TypesInv, NodeTyped
  <2> QED
    BY <1>1, <1>2, <1>7, <2>1, <2>7, <2>8, <2>9, NodeStaysTyped
<1>12. TypeOK'
  <2>1. Next
    BY <1>1 DEF Next
  <2> QED
    BY <2>1, TypeOKStep DEF TypesInv
<1>13. gone' \subseteq Live'
  <2>1. sock \in [Sockets -> SockStates] /\ sock' = [sock EXCEPT ![s] = "open"]
    BY <1>1 DEF Opened, TypesInv, TypeOK
  <2>2. Live \subseteq Live'
    BY <2>1 DEF Live
  <2> QED
    BY <1>1, <2>2 DEF TypesInv
<1> QED
  BY <1>9, <1>10, <1>11, <1>12, <1>13 DEF TypesInv

(* What is received is one of the messages that may be sent.               *)
LEMMA HeadSent ==
  ASSUME NodeTyped, NEW s \in Sockets, toClient[s] # << >>,
         toClient' = [toClient EXCEPT ![s] = Tail(@)]
  PROVE  Head(toClient[s]) \in Sendable /\ toClient' \in [Sockets -> Seq(Sendable)]
<1>1. toClient[s] \in Seq(Sendable)
  BY DEF NodeTyped
<1>2. Head(toClient[s]) \in Sendable /\ Tail(toClient[s]) \in Seq(Sendable)
  BY <1>1, HeadTailProperties
<1> QED
  BY <1>2 DEF NodeTyped

LEMMA SettleTyped ==
  ASSUME Inv, TablesTyped, UserTyped, NEW m \in KnownReplies, m.id \in DOMAIN handlers,
         Settle(m), UNCHANGED << nextId, asked, quit, sends >>
  PROVE  /\ TablesTyped' /\ UserTyped'
         /\ \A i \in DOMAIN handlers' : i \in DOMAIN handlers /\ handlers'[i] = handlers[i]
<1> DEFINE h == handlers[m.id]
           k == KeyOf(h.sub, m.sid)
           starts == m.ok /\ h.sub # NULL
<1>1. /\ future' = [future EXCEPT ![m.id] = Outcome(m)]
      /\ handlers' = Drop(handlers, m.id)
      /\ IF starts
           THEN /\ subscriptions' = Put(subscriptions, k, h.sub)
                /\ knownId' = IF h.resub THEN knownId ELSE [knownId EXCEPT ![h.sub] = m.sid]
           ELSE UNCHANGED << subscriptions, knownId >>
      /\ IF starts /\ Waiting(k)
           THEN /\ waitingForId' = Drop(waitingForId, k)
                /\ heard' = [heard EXCEPT ![h.sub] = waitingForId[k]]
           ELSE UNCHANGED << waitingForId, heard >>
  BY DEF Settle, Deliver
<1>2. h \in Handlers /\ m \in Replies /\ (m.ok /\ m.sid = 0 => h.sub = NULL)
  BY DEF KnownReplies, NoSubscription, TablesTyped, IsMap
<1>3. starts => h.sub \in Subs /\ m.sid \in Ids /\ k \in Keys /\ h.sub \in asked
  <2> SUFFICES ASSUME starts PROVE h.sub \in Subs /\ m.sid \in Ids /\ k \in Keys /\ h.sub \in asked
    OBVIOUS
  <2>1. h.sub \in Subs
    BY <1>2 DEF Handlers
  <2>2. m.sid \in Ids
    BY <1>2, RpcBoundsAssumption DEF Replies, Ids
  <2>3. k \in Keys
    BY <2>1, <2>2 DEF Keys, KeyOf, Types
  <2>4. m.id \in AwaitedBy(h.sub)
    BY DEF AwaitedBy
  <2>5. h.sub \in asked
    BY <2>1, <2>4 DEF Inv, OnePlace
  <2> QED
    BY <2>1, <2>2, <2>3, <2>5
<1>4. m.sid \in 0 .. MaxId
  BY <1>2 DEF Replies
<1> HIDE DEF k
<1>5. \A i \in DOMAIN handlers' : i \in DOMAIN handlers /\ handlers'[i] = handlers[i]
  BY <1>1 DEF Drop, Restrict
<1> HIDE DEF h
<1>6. TablesTyped'
  <2>1. Outcome(m) \in {"done", "failed"}
    BY DEF Outcome
  <2>2. future' \in [Ids -> {"none", "pending", "done", "failed"}]
    BY <1>1, <2>1 DEF TablesTyped
  <2>3. IsMap(handlers', Ids, Handlers)
    BY <1>5 DEF TablesTyped, IsMap
  <2>4. IsMap(subscriptions', Keys, Subs)
    BY <1>1, <1>3 DEF TablesTyped, IsMap, Put
  <2>5. IsMap(waitingForId', Keys, Notes)
    BY <1>1 DEF TablesTyped, IsMap, Drop, Restrict
  <2> QED
    BY <2>2, <2>3, <2>4, <2>5 DEF TablesTyped
<1>7. UserTyped'
  <2>1. knownId' \in [Subs -> 0 .. MaxId] /\ \A u \in Subs : knownId'[u] # 0 => u \in asked'
    BY <1>1, <1>3, <1>4 DEF UserTyped
  <2>2. heard' \in [Subs -> Notes \cup {NULL}]
    <3>1. Waiting(k) => waitingForId[k] \in Notes
      BY DEF Waiting, TablesTyped, IsMap
    <3> QED
      BY <1>1, <3>1 DEF UserTyped
  <2> QED
    BY <2>1, <2>2 DEF UserTyped
<1> QED
  BY <1>5, <1>6, <1>7

LEMMA ReceiveReplyTyped ==
  ASSUME Inv, TypesInv, NEW s \in Sockets, ReceiveReply(s) PROVE TypesInv'
<1> DEFINE m == Head(toClient[s])
<1>1. /\ toClient[s] # << >> /\ m.kind = "reply"
      /\ toClient' = [toClient EXCEPT ![s] = Tail(@)]
      /\ UNCHANGED << connVars, nextId, asked, quit, sends, inbox, serving, served, gone, drops >>
  BY DEF ReceiveReply
<1>2. m \in Sendable /\ toClient' \in [Sockets -> Seq(Sendable)]
  BY <1>1, HeadSent DEF TypesInv
<1>3. IF m.id \in DOMAIN handlers
        THEN Settle(m)
        ELSE UNCHANGED << handlers, future, subscriptions, waitingForId, knownId, heard >>
  BY DEF ReceiveReply
<1> HIDE DEF m
<1>4. m \in KnownReplies
  BY <1>1, <1>2 DEF Sendable, Updates
<1>5. /\ TablesTyped' /\ UserTyped'
      /\ \A i \in DOMAIN handlers' : i \in DOMAIN handlers /\ handlers'[i] = handlers[i]
  <2>1. CASE m.id \in DOMAIN handlers
    BY <1>1, <1>3, <1>4, <2>1, SettleTyped DEF TypesInv
  <2>2. CASE m.id \notin DOMAIN handlers
    BY <1>1, <1>3, <2>2 DEF TypesInv, TablesTyped, UserTyped, IsMap
  <2> QED
    BY <2>1, <2>2
<1>6. NodeTyped'
  <2>1. nextId \in Nat /\ nextId' = nextId /\ NodeTyped
    BY <1>1 DEF Inv, IdsFresh, TypesInv
  <2> QED
    BY <1>1, <1>2, <1>5, <2>1, NodeUnmoved
<1>7. TypeOK' /\ gone' \subseteq Live'
  BY <1>1, TypeOKStep DEF TypesInv, connVars, Live
<1> QED
  BY <1>5, <1>6, <1>7 DEF TypesInv

LEMMA ReceiveNoteTyped ==
  ASSUME Inv, TypesInv, NEW s \in Sockets, ReceiveNote(s) PROVE TypesInv'
<1> DEFINE m == Head(toClient[s])
<1>1. /\ toClient[s] # << >> /\ m.kind = "note"
      /\ toClient' = [toClient EXCEPT ![s] = Tail(@)]
      /\ UNCHANGED << connVars, nextId, handlers, future, subscriptions, asked, knownId, quit,
                      sends, inbox, serving, served, gone, drops >>
  BY DEF ReceiveNote
<1>2. m \in Sendable /\ toClient' \in [Sockets -> Seq(Sendable)]
  BY <1>1, HeadSent DEF TypesInv
<1>3. IF m.key \in DOMAIN subscriptions
        THEN /\ waitingForId' = Drop(waitingForId, m.key)
             /\ heard' = [heard EXCEPT ![subscriptions[m.key]] = m.note]
        ELSE waitingForId' = Put(waitingForId, m.key, m.note) /\ UNCHANGED heard
  BY DEF ReceiveNote, Deliver
<1> HIDE DEF m
<1>4. m.key \in Keys /\ m.note \in Notes
  BY <1>1, <1>2 DEF Sendable, Updates, KnownReplies, Replies
<1>5. TablesTyped'
  <2>1. IsMap(waitingForId', Keys, Notes)
    BY <1>3, <1>4 DEF TypesInv, TablesTyped, IsMap, Drop, Restrict, Put
  <2> QED
    BY <1>1, <2>1 DEF TypesInv, TablesTyped, IsMap
<1>6. UserTyped'
  BY <1>1, <1>3, <1>4 DEF TypesInv, UserTyped
<1>7. NodeTyped'
  <2>1. nextId \in Nat /\ nextId' = nextId /\ NodeTyped
    BY <1>1 DEF Inv, IdsFresh, TypesInv
  <2> QED
    BY <1>1, <1>2, <2>1, NodeUnmoved
<1>8. TypeOK' /\ gone' \subseteq Live'
  BY <1>1, TypeOKStep DEF TypesInv, connVars, Live
<1> QED
  BY <1>5, <1>6, <1>7, <1>8 DEF TypesInv

(* The steps of the connection, with the tables and the node left alone.    *)
LEMMA TablesStayTyped ==
  ASSUME TypesInv, UNCHANGED rpcVars, [Next]_connVars, gone \subseteq Live' PROVE TypesInv'
<1>1. UNCHANGED << nextId, handlers, future, subscriptions, waitingForId, asked, knownId, quit,
                   heard, sends, inbox, serving, served, toClient, gone, drops >>
  BY DEF rpcVars, tableVars, userVars, nodeVars
<1>2. TypeOK'
  BY TypeOKStep DEF TypesInv
<1>3. TablesTyped' /\ UserTyped'
  BY <1>1 DEF TypesInv, TablesTyped, UserTyped, IsMap
<1>4. KnownRequests' = KnownRequests /\ KnownServed' = KnownServed /\ Sendable' = Sendable
  BY <1>1 DEF KnownRequests, KnownServed, KnownReplies, Sendable, NoSubscription
<1>5. NodeTyped'
  BY <1>1, <1>4 DEF TypesInv, NodeTyped
<1> QED
  BY <1>1, <1>2, <1>3, <1>5 DEF TypesInv

LEMMA ConnectionStepTyped == ASSUME TypesInv, ConnectionStep PROVE TypesInv'
<1>1. UNCHANGED rpcVars /\ Next
  BY DEF ConnectionStep, Next
<1>2. Live' = Live
  <2>1. sock \in [Sockets -> SockStates] /\ websocket \in Sockets \cup {NULL}
    BY DEF TypesInv, TypeOK
  <2>2. ASSUME NEW s \in Sockets, NEW kind \in {"retrying", "calling"}, StartConnect(s, kind)
        PROVE  Live' = Live
    BY <2>1, <2>2 DEF StartConnect, Live
  <2>3. CASE RetryTimer
    BY <2>2, <2>3 DEF RetryTimer
  <2>4. CASE Connect
    BY <2>2, <2>4 DEF Connect
  <2>5. ASSUME NEW s \in Sockets, Failed(s) PROVE Live' = Live
    BY <2>1, <2>5 DEF Failed, Attempting, Live
  <2>6. CASE Disconnect
    BY <2>1, <2>6 DEF Disconnect, Live
  <2>7. CASE DisconnectDone
    BY <2>7 DEF DisconnectDone, Live
  <2> QED
    BY <2>3, <2>4, <2>5, <2>6, <2>7 DEF ConnectionStep
<1>3. gone \subseteq Live'
  BY <1>2 DEF TypesInv
<1> QED
  BY <1>1, <1>3, TablesStayTyped

LEMMA SocketClosedTyped ==
  ASSUME TypesInv, NEW s \in Sockets, SocketClosed(s) PROVE TypesInv'
<1>1. /\ Close(s) /\ gone' = gone \ {s}
      /\ UNCHANGED << nextId, handlers, future, subscriptions, waitingForId, asked, knownId, quit,
                      heard, sends, inbox, serving, served, toClient, drops >>
  BY DEF SocketClosed, tableVars, userVars
<1>2. TypeOK'
  <2>1. Next
    BY <1>1 DEF Next
  <2> QED
    BY <2>1, TypeOKStep DEF TypesInv
<1>3. TablesTyped' /\ UserTyped'
  BY <1>1 DEF TypesInv, TablesTyped, UserTyped, IsMap
<1>4. KnownRequests' = KnownRequests /\ KnownServed' = KnownServed /\ Sendable' = Sendable
  BY <1>1 DEF KnownRequests, KnownServed, KnownReplies, Sendable, NoSubscription
<1>5. NodeTyped'
  BY <1>1, <1>4 DEF TypesInv, NodeTyped
<1>6. gone' \subseteq Live'
  <2>1. sock \in [Sockets -> SockStates] /\ sock' = [sock EXCEPT ![s] = "closed"]
    BY <1>1 DEF Close, TypesInv, TypeOK
  <2>2. Live' = Live \ {s}
    BY <2>1 DEF Live
  <2> QED
    BY <1>1, <2>2 DEF TypesInv
<1> QED
  BY <1>2, <1>3, <1>5, <1>6 DEF TypesInv
-----------------------------------------------------------------------------
(* The node and the network.                                               *)
LEMMA NodeActsTyped ==
  ASSUME TypesInv, UNCHANGED << connVars, tableVars, userVars >>,
         inbox' \in [Sockets -> SUBSET KnownRequests],
         serving' \in [Sockets -> SUBSET KnownServed],
         served' \in [Sockets -> Nat],
         toClient' \in [Sockets -> Seq(Sendable)],
         drops' \in 0 .. MaxDrops, gone' \subseteq Live,
         \A s \in Sockets : /\ IsFiniteSet(inbox'[s])
                            /\ served'[s] + Cardinality(inbox'[s]) <= nextId
  PROVE  TypesInv'
<1>1. UNCHANGED << nextId, handlers, future, subscriptions, waitingForId, asked, knownId, quit,
                   heard, sends >>
  BY DEF tableVars, userVars
<1>2. TypeOK' /\ Live' = Live
  BY TypeOKStep DEF TypesInv, connVars, Live
<1>3. TablesTyped' /\ UserTyped'
  BY <1>1 DEF TypesInv, TablesTyped, UserTyped, IsMap
<1>4. KnownRequests' = KnownRequests /\ KnownServed' = KnownServed /\ Sendable' = Sendable
  BY <1>1 DEF KnownRequests, KnownServed, KnownReplies, Sendable, NoSubscription
<1>5. NodeTyped'
  BY <1>1, <1>4 DEF NodeTyped
<1> QED
  BY <1>2, <1>3, <1>5 DEF TypesInv

(* What the node has sent, and the requests it has left.                    *)
LEMMA PostTyped ==
  ASSUME NodeTyped, NEW s \in Sockets, NEW m \in Sendable, Post(s, m)
  PROVE  toClient' \in [Sockets -> Seq(Sendable)]
<1>1. toClient[s] \in Seq(Sendable)
  BY DEF NodeTyped
<1>2. Append(toClient[s], m) \in Seq(Sendable)
  BY <1>1, AppendProperties
<1> QED
  BY <1>2 DEF Post, NodeTyped

LEMMA InboxTyped ==
  ASSUME NodeTyped, NEW s \in Sockets, NEW r \in inbox[s], nextId \in Nat,
         inbox' = [inbox EXCEPT ![s] = @ \ {r}],
         served' = served \/ served' = [served EXCEPT ![s] = @ + 1]
  PROVE  /\ inbox' \in [Sockets -> SUBSET KnownRequests]
         /\ served' \in [Sockets -> Nat]
         /\ \A t \in Sockets : /\ IsFiniteSet(inbox'[t])
                               /\ served'[t] + Cardinality(inbox'[t]) <= nextId
<1>1. inbox' \in [Sockets -> SUBSET KnownRequests] /\ served' \in [Sockets -> Nat]
  BY DEF NodeTyped
<1>2. ASSUME NEW t \in Sockets
      PROVE  IsFiniteSet(inbox'[t]) /\ served'[t] + Cardinality(inbox'[t]) <= nextId
  <2> DEFINE c == Cardinality(inbox[t])
  <2>1. IsFiniteSet(inbox[t]) /\ c \in Nat /\ served[t] \in Nat /\ served[t] + c <= nextId
    BY FS_CardinalityType DEF NodeTyped
  <2>2. CASE t = s
    <3>1. inbox'[t] = inbox[t] \ {r} /\ served'[t] \in {served[t], served[t] + 1}
      BY <2>2 DEF NodeTyped
    <3>2. IsFiniteSet(inbox'[t]) /\ Cardinality(inbox'[t]) = c - 1
      BY <2>1, <2>2, <3>1, FS_RemoveElement
    <3> HIDE DEF c
    <3> QED
      BY <2>1, <3>1, <3>2
  <2>3. CASE t # s
    BY <2>1, <2>3 DEF NodeTyped
  <2> QED
    BY <2>2, <2>3
<1> QED
  BY <1>1, <1>2

LEMMA NodeAnswersTyped ==
  ASSUME Inv, TypesInv, NEW s \in Sockets, NEW r \in inbox[s], NodeAnswers(s, r)
  PROVE  TypesInv'
<1>1. /\ r.kind # "subscribe"
      /\ \E ok \in BOOLEAN : Post(s, [kind |-> "reply", id |-> r.id, ok |-> ok, sid |-> 0])
      /\ inbox' = [inbox EXCEPT ![s] = @ \ {r}]
      /\ serving' = [serving EXCEPT ![s] = {x \in @ : r.kind = "call" \/ x.sid # r.sid}]
      /\ UNCHANGED << connVars, tableVars, userVars, served, gone, drops >>
  BY DEF NodeAnswers
<1>2. NodeTyped /\ nextId \in Nat /\ r \in KnownRequests /\ 0 \in 0 .. MaxId
  BY RpcBoundsAssumption DEF TypesInv, NodeTyped, Inv, IdsFresh
<1>3. ASSUME NEW ok \in BOOLEAN
      PROVE  [kind |-> "reply", id |-> r.id, ok |-> ok, sid |-> 0] \in Sendable
  BY <1>1, <1>2 DEF Sendable, KnownReplies, Replies, KnownRequests, Requests
<1>4. toClient' \in [Sockets -> Seq(Sendable)]
  BY <1>1, <1>2, <1>3, PostTyped
<1>5. serving' \in [Sockets -> SUBSET KnownServed]
  BY <1>1 DEF TypesInv, NodeTyped
<1>6. drops' \in 0 .. MaxDrops /\ gone' \subseteq Live
  BY <1>1 DEF TypesInv, NodeTyped
<1>7. /\ inbox' \in [Sockets -> SUBSET KnownRequests] /\ served' \in [Sockets -> Nat]
      /\ \A t \in Sockets : /\ IsFiniteSet(inbox'[t])
                            /\ served'[t] + Cardinality(inbox'[t]) <= nextId
  BY <1>1, <1>2, InboxTyped
<1> QED
  BY <1>1, <1>4, <1>5, <1>6, <1>7, NodeActsTyped

LEMMA NodeAcceptsTyped ==
  ASSUME Inv, TypesInv, NEW s \in Sockets, NEW r \in inbox[s], NodeAccepts(s, r)
  PROVE  TypesInv'
<1> DEFINE sid == IF UniqueIds THEN r.id ELSE served[s] + 1
           x == [sid |-> sid, sub |-> r.sub, owner |-> r.id, sent |-> 0, replied |-> FALSE]
<1>1. /\ r.kind = "subscribe"
      /\ served' = [served EXCEPT ![s] = @ + 1]
      /\ serving' = [serving EXCEPT ![s] = @ \cup {x}]
      /\ inbox' = [inbox EXCEPT ![s] = @ \ {r}]
      /\ UNCHANGED << connVars, tableVars, userVars, toClient, gone, drops >>
  BY DEF NodeAccepts
<1>2. /\ NodeTyped /\ nextId \in Nat /\ nextId <= MaxId /\ r \in KnownRequests
      /\ MaxId \in Nat /\ MaxNotes \in Nat
  BY RpcBoundsAssumption DEF TypesInv, TablesTyped, NodeTyped, Inv, IdsFresh
<1>3. r.id \in Ids /\ r.sub \in Subs /\ r.id <= nextId
  BY <1>1, <1>2 DEF KnownRequests, Requests
<1>4. /\ inbox' \in [Sockets -> SUBSET KnownRequests] /\ served' \in [Sockets -> Nat]
      /\ \A t \in Sockets : /\ IsFiniteSet(inbox'[t])
                            /\ served'[t] + Cardinality(inbox'[t]) <= nextId
  BY <1>1, <1>2, InboxTyped
<1>5. served[s] + 1 \in Ids
  <2>1. served'[s] = served[s] + 1 /\ served[s] \in Nat
    BY <1>1, <1>2 DEF NodeTyped
  <2>2. Cardinality(inbox'[s]) \in Nat
    BY <1>4, FS_CardinalityType
  <2>3. served[s] + 1 + Cardinality(inbox'[s]) <= nextId
    BY <1>4, <2>1
  <2> QED
    BY <1>2, <2>1, <2>2, <2>3 DEF Ids
<1>6. sid \in Ids
  BY <1>3, <1>5
<1> HIDE DEF sid
<1>7. x \in KnownServed
  BY <1>2, <1>3, <1>6 DEF KnownServed, Served
<1> HIDE DEF x
<1>8. serving' \in [Sockets -> SUBSET KnownServed]
  BY <1>1, <1>2, <1>7 DEF NodeTyped
<1>9. drops' \in 0 .. MaxDrops /\ gone' \subseteq Live /\ toClient' \in [Sockets -> Seq(Sendable)]
  BY <1>1 DEF TypesInv, NodeTyped
<1> QED
  BY <1>1, <1>4, <1>8, <1>9, NodeActsTyped

LEMMA NodeRefusesTyped ==
  ASSUME Inv, TypesInv, NEW s \in Sockets, NEW r \in inbox[s], NodeRefuses(s, r)
  PROVE  TypesInv'
<1> DEFINE m == [kind |-> "reply", id |-> r.id, ok |-> FALSE, sid |-> 0]
<1>1. /\ Post(s, m) /\ inbox' = [inbox EXCEPT ![s] = @ \ {r}]
      /\ UNCHANGED << connVars, tableVars, userVars, serving, served, gone, drops >>
  BY DEF NodeRefuses
<1>2. NodeTyped /\ nextId \in Nat /\ r \in KnownRequests /\ 0 \in 0 .. MaxId
  BY RpcBoundsAssumption DEF TypesInv, NodeTyped, Inv, IdsFresh
<1>3. m \in Sendable
  BY <1>2 DEF Sendable, KnownReplies, Replies, KnownRequests, Requests
<1> HIDE DEF m
<1>4. toClient' \in [Sockets -> Seq(Sendable)]
  BY <1>1, <1>2, <1>3, PostTyped
<1>5. /\ inbox' \in [Sockets -> SUBSET KnownRequests] /\ served' \in [Sockets -> Nat]
      /\ \A t \in Sockets : /\ IsFiniteSet(inbox'[t])
                            /\ served'[t] + Cardinality(inbox'[t]) <= nextId
  BY <1>1, <1>2, InboxTyped
<1>6. /\ serving' \in [Sockets -> SUBSET KnownServed]
      /\ drops' \in 0 .. MaxDrops /\ gone' \subseteq Live
  BY <1>1 DEF TypesInv, NodeTyped
<1> QED
  BY <1>1, <1>4, <1>5, <1>6, NodeActsTyped

(* A subscription of the node tells something: y is what it is then.        *)
LEMMA ServedTells ==
  ASSUME TypesInv, NEW s \in Sockets, NEW x, NEW y \in KnownServed, NEW m \in Sendable,
         Post(s, m), serving' = [serving EXCEPT ![s] = (@ \ {x}) \cup {y}],
         UNCHANGED << connVars, tableVars, userVars, inbox, served, gone, drops >>
  PROVE  TypesInv'
<1>1. NodeTyped
  BY DEF TypesInv
<1>2. toClient' \in [Sockets -> Seq(Sendable)]
  BY <1>1, PostTyped
<1>3. serving' \in [Sockets -> SUBSET KnownServed]
  BY <1>1 DEF NodeTyped
<1>4. /\ inbox' \in [Sockets -> SUBSET KnownRequests] /\ served' \in [Sockets -> Nat]
      /\ drops' \in 0 .. MaxDrops /\ gone' \subseteq Live
      /\ \A t \in Sockets : /\ IsFiniteSet(inbox'[t])
                            /\ served'[t] + Cardinality(inbox'[t]) <= nextId
  BY DEF TypesInv, NodeTyped
<1> QED
  BY <1>2, <1>3, <1>4, NodeActsTyped

LEMMA NodeRepliesTyped ==
  ASSUME TypesInv, NEW s \in Sockets, NEW x \in serving[s], NodeReplies(s, x) PROVE TypesInv'
<1> DEFINE y == [x EXCEPT !.replied = TRUE]
           m == [kind |-> "reply", id |-> x.owner, ok |-> TRUE, sid |-> x.sid]
<1>1. x \in KnownServed
  BY DEF TypesInv, NodeTyped
<1>2. y \in KnownServed
  BY <1>1 DEF KnownServed, Served
<1>3. m \in Sendable
  <2>1. x.sid \in Ids /\ x.sid \in 0 .. MaxId /\ x.sid # 0 /\ x.owner \in Ids /\ x.owner <= nextId
    BY <1>1, RpcBoundsAssumption DEF KnownServed, Served, Ids
  <2> QED
    BY <2>1 DEF Sendable, KnownReplies, Replies
<1>4. /\ Post(s, m) /\ serving' = [serving EXCEPT ![s] = (@ \ {x}) \cup {y}]
      /\ UNCHANGED << connVars, tableVars, userVars, inbox, served, gone, drops >>
  BY DEF NodeReplies
<1> QED
  BY <1>2, <1>3, <1>4, ServedTells

LEMMA NodeNotifiesTyped ==
  ASSUME TypesInv, NEW s \in Sockets, NEW x \in serving[s], NodeNotifies(s, x) PROVE TypesInv'
<1> DEFINE y == [x EXCEPT !.sent = @ + 1]
           note == [sub |-> x.sub, owner |-> x.owner, n |-> x.sent + 1]
           m == [kind |-> "note", key |-> KeyOf(x.sub, x.sid), note |-> note]
<1>1. x \in KnownServed /\ x.sent < MaxNotes
  BY DEF TypesInv, NodeTyped, NodeNotifies
<1>2. /\ x.sent \in 0 .. MaxNotes /\ MaxNotes \in Nat
      /\ x.sid \in Ids /\ x.sub \in Subs /\ x.owner \in Ids
  BY <1>1, RpcBoundsAssumption DEF KnownServed, Served
<1>3. x.sent + 1 \in 1 .. MaxNotes /\ x.sent + 1 \in 0 .. MaxNotes
  BY <1>1, <1>2
<1>4. y \in KnownServed
  BY <1>1, <1>3 DEF KnownServed, Served
<1>5. m \in Sendable
  <2>1. KeyOf(x.sub, x.sid) \in Keys
    BY <1>2 DEF Keys, KeyOf, Types
  <2>2. note \in Notes
    BY <1>2, <1>3 DEF Notes
  <2> HIDE DEF note
  <2> QED
    BY <2>1, <2>2 DEF Sendable, Updates
<1>6. /\ Post(s, m) /\ serving' = [serving EXCEPT ![s] = (@ \ {x}) \cup {y}]
      /\ UNCHANGED << connVars, tableVars, userVars, inbox, served, gone, drops >>
  BY DEF NodeNotifies
<1> QED
  BY <1>4, <1>5, <1>6, ServedTells

LEMMA PeerLeavesTyped ==
  ASSUME Inv, TypesInv, NEW s \in Sockets, PeerLeaves(s) PROVE TypesInv'
<1>1. PICK arrived \in Prefixes(toClient[s]) : toClient' = [toClient EXCEPT ![s] = arrived]
  BY DEF PeerLeaves
<1>2. /\ s \in Live
      /\ drops' = (IF sock[s] = "open" THEN drops + 1 ELSE drops) /\ drops' <= MaxDrops
      /\ gone' = gone \cup {s}
      /\ inbox' = [inbox EXCEPT ![s] = {}] /\ serving' = [serving EXCEPT ![s] = {}]
      /\ served' = [served EXCEPT ![s] = 0]
      /\ UNCHANGED << connVars, tableVars, userVars >>
  BY DEF PeerLeaves
<1>3. arrived \in Seq(Sendable)
  <2> DEFINE q == toClient[s]
  <2>1. q \in Seq(Sendable) /\ Len(q) \in Nat
    BY LenProperties DEF TypesInv, NodeTyped
  <2>2. PICK l \in 0 .. Len(q) : arrived = SubSeq(q, 1, l)
    BY DEF Prefixes
  <2> QED
    BY <2>1, <2>2
<1>4. toClient' \in [Sockets -> Seq(Sendable)]
  BY <1>1, <1>3 DEF TypesInv, NodeTyped
<1>5. /\ inbox' \in [Sockets -> SUBSET KnownRequests] /\ serving' \in [Sockets -> SUBSET KnownServed]
      /\ served' \in [Sockets -> Nat] /\ gone' \subseteq Live
  BY <1>2 DEF TypesInv, NodeTyped
<1>6. drops' \in 0 .. MaxDrops
  <2>1. drops \in 0 .. MaxDrops /\ MaxDrops \in Nat
    BY RpcBoundsAssumption DEF TypesInv, NodeTyped
  <2> QED
    BY <1>2, <2>1
<1>7. ASSUME NEW t \in Sockets
      PROVE  IsFiniteSet(inbox'[t]) /\ served'[t] + Cardinality(inbox'[t]) <= nextId
  <2>1. CASE t = s
    <3>1. inbox'[t] = {} /\ served'[t] = 0
      BY <1>2, <2>1 DEF TypesInv, NodeTyped
    <3>2. IsFiniteSet({}) /\ Cardinality({}) = 0 /\ nextId \in Nat
      BY FS_EmptySet DEF Inv, IdsFresh
    <3> QED
      BY <3>1, <3>2
  <2>2. CASE t # s
    BY <1>2, <2>2 DEF TypesInv, NodeTyped
  <2> QED
    BY <2>1, <2>2
<1> QED
  BY <1>2, <1>4, <1>5, <1>6, <1>7, NodeActsTyped

LEMMA StepTyped == ASSUME Inv, TypesInv, [ProviderNext]_vars PROVE TypesInv'
<1>1. CASE ConnectionStep
  BY <1>1, ConnectionStepTyped
<1>2. CASE UserStep
  BY <1>2, UserStepTyped
<1>3. ASSUME NEW s \in Sockets, SocketStep(s) PROVE TypesInv'
  BY <1>3, SocketOpenedTyped, ReceiveReplyTyped, ReceiveNoteTyped, SocketClosedTyped DEF SocketStep
<1>4. ASSUME NEW s \in Sockets, NodeStep(s) PROVE TypesInv'
  BY <1>4, NodeAnswersTyped, NodeAcceptsTyped, NodeRefusesTyped, NodeRepliesTyped,
     NodeNotifiesTyped, PeerLeavesTyped DEF NodeStep
<1>5. CASE UNCHANGED vars
  <2>1. UNCHANGED rpcVars /\ UNCHANGED connVars
    BY <1>5 DEF vars, rpcVars
  <2>2. gone \subseteq Live'
    BY <2>1 DEF TypesInv, connVars, Live
  <2> QED
    BY <2>1, <2>2, TablesStayTyped
<1> QED
  BY <1>1, <1>2, <1>3, <1>4, <1>5 DEF ProviderNext

(* Every table of the provider keeps its type, whatever the connections and *)
(* the node do: each id in _handlers is one RpcCoder gave out, each key of  *)
(* _subscriptions and _waitingForId a type and an id of a subscription, and *)
(* a callback hears notifications only (index.dart:48-60, 229-284, 312-420). *)
THEOREM ProviderTypes == ProviderSpec => []ProviderTypeOK
<1>1. ProviderInit => Inv /\ TypesInv
  BY InitInv, InitTypes
<1>2. Inv /\ TypesInv /\ [ProviderNext]_vars => (Inv /\ TypesInv)'
  BY StepKeeps, StepTyped
<1>3. TypesInv => ProviderTypeOK
  BY TypesSuffice
<1> QED
  BY <1>1, <1>2, <1>3, PTL DEF ProviderSpec
=============================================================================
