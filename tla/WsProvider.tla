----------------------------- MODULE WsProvider -----------------------------
(***************************************************************************)
(* WsProvider of lib/rpc_provider/ws/index.dart: requests, subscriptions   *)
(* and notifications over the connections of WsConnection.tla, against a   *)
(* JSON-RPC node that answers in any order and may notify a subscriber     *)
(* before it has told it the subscription's id.                            *)
(*                                                                         *)
(* Dart maps are functions on the keys present; `_subscriptions` and       *)
(* `_waitingForId` have keys "type::id", here << type, id >>.  The         *)
(* callback, method and params a call carries are the subscription u they  *)
(* were given for.                                                         *)
(***************************************************************************)
EXTENDS WsConnection, Sequences, SequencesExt, TLC

CONSTANTS
  Subs,          \* the subscriptions the user may ask for
  TypeOf,        \* the type of each, as in subscribe(type, ...)
  AuthorTypes,   \* types that start with "author_"
  UniqueIds,     \* does the node never use a subscription id twice?
  Refusable,     \* kinds of request the node may answer with an error
  MaxSends,      \* bound: plain send() calls made by the user
  MaxId,         \* bound: requests sent in all
  MaxNotes,      \* bound: notifications per subscription of the node
  MaxDrops       \* bound: connections lost that the user did not close

Types == {TypeOf[u] : u \in Subs}
Ids   == 1 .. MaxId

ASSUME SubsAssumption == /\ IsFiniteSet(Subs)
                         /\ NULL \notin Subs
                         /\ DOMAIN TypeOf = Subs
                         /\ AuthorTypes \subseteq Types
ASSUME RpcBoundsAssumption ==
  {MaxSends, MaxId, MaxNotes, MaxDrops} \subseteq Nat
ASSUME NodeAssumption == /\ UniqueIds \in BOOLEAN
                         /\ Refusable \subseteq {"call", "subscribe", "unsubscribe"}

VARIABLES
  nextId,         \* _id of RpcCoder: the id of the last request encoded
  handlers,       \* _handlers: id -> [sub, resub]; sub is NULL for a call
                  \* that is no subscription, resub marks _resubscribe's own
  future,         \* what the Completer of the send() with that id says
  subscriptions,  \* _subscriptions: << type, id >> -> subscription
  waitingForId,   \* _waitingForId: << type, id >> -> notification
  asked,          \* subscriptions subscribe() was called for
  knownId,        \* the id subscribe() returned to the user, or 0
  quit,           \* subscriptions unsubscribe() was called for, and found
  heard,          \* the notification each user callback got last
  sends,          \* send() calls the user has made
  inbox,          \* requests on each connection the node has not answered
  serving,        \* subscriptions the node serves on each connection
  served,         \* how many it has served on each connection
  toClient,       \* what the node has sent and the provider not received
  gone,           \* connections the peer has left
  drops           \* connections lost

tableVars == << nextId, handlers, future, subscriptions, waitingForId >>
userVars  == << asked, knownId, quit, heard, sends >>
nodeVars  == << inbox, serving, served, toClient, gone, drops >>
vars      == << connVars, tableVars, userVars, nodeVars >>

Keys  == Types \X Ids
Notes == [sub : Subs, owner : Ids, n : 1 .. MaxNotes]

ASSUME NullAssumption == NULL \notin Notes

Handlers == [sub : Subs \cup {NULL}, resub : BOOLEAN]
Requests == [kind : {"call", "subscribe", "unsubscribe"}, id : Ids,
             sub : Subs \cup {NULL}, sid : 0 .. MaxId]
Served   == [sid : Ids, sub : Subs, owner : Ids, sent : 0 .. MaxNotes,
             replied : BOOLEAN]
Replies  == [kind : {"reply"}, id : Ids, ok : BOOLEAN, sid : 0 .. MaxId]
Updates  == [kind : {"note"}, key : Keys, note : Notes]

IsMap(f, D, R) == DOMAIN f \subseteq D /\ \A x \in DOMAIN f : f[x] \in R

ProviderTypeOK ==
  /\ TypeOK
  /\ nextId \in 0 .. MaxId
  /\ IsMap(handlers, Ids, Handlers)
  /\ future \in [Ids -> {"none", "pending", "done", "failed"}]
  /\ IsMap(subscriptions, Keys, Subs)
  /\ IsMap(waitingForId, Keys, Notes)
  /\ asked \subseteq Subs
  /\ knownId \in [Subs -> 0 .. MaxId]
  /\ quit \subseteq asked
  /\ heard \in [Subs -> Notes \cup {NULL}]
  /\ sends \in 0 .. MaxSends
  /\ inbox \in [Sockets -> SUBSET Requests]
  /\ serving \in [Sockets -> SUBSET Served]
  /\ served \in [Sockets -> 0 .. MaxId]
  /\ toClient \in [Sockets -> Seq(Replies \cup Updates)]
  /\ gone \subseteq Live
  /\ drops \in 0 .. MaxDrops
-----------------------------------------------------------------------------
(* As in WsConnection.tla, a name that ends in Slip is what a slip in the   *)
(* code would make of the definition after it; no specification uses one.   *)

EmptyMap == << >>
Put(f, k, v) == [x \in DOMAIN f \cup {k} |-> IF x = k THEN v ELSE f[x]]

NulledSlip(f, k) == [f EXCEPT ![k] = NULL]       \* map[k] = null
ClearedSlip(f, k) == EmptyMap                    \* map.clear()
Drop(f, k) == Restrict(f, DOMAIN f \ {k})

KeyByTypeSlip(u, sid) == << TypeOf[u], 1 >>      \* the id left out
KeyOf(u, sid) == << TypeOf[u], sid >>

ProviderInit ==
  /\ Init
  /\ nextId = 0
  /\ handlers = EmptyMap
  /\ future = [i \in Ids |-> "none"]
  /\ subscriptions = EmptyMap
  /\ waitingForId = EmptyMap
  /\ asked = {}
  /\ knownId = [u \in Subs |-> 0]
  /\ quit = {}
  /\ heard = [u \in Subs |-> NULL]
  /\ sends = 0
  /\ inbox = [s \in Sockets |-> {}]
  /\ serving = [s \in Sockets |-> {}]
  /\ served = [s \in Sockets |-> 0]
  /\ toClient = [s \in Sockets |-> << >>]
  /\ gone = {}
  /\ drops = 0
-----------------------------------------------------------------------------
(* Calls of the user.                                                      *)

(* May `_websocket.add` throw?  On null it does; on a socket that is open  *)
(* it does not; on one that is not, dart:io throws or ignores the data.    *)
AddThrows ==
  CASE websocket = NULL        -> {TRUE}
    [] websocket \in Live \ gone /\ sock[websocket] = "open" -> {FALSE}
    [] OTHER                   -> BOOLEAN

(* Data added to a connection reaches a node that is still there.          *)
Reaches(s) == s \in Sockets /\ sock[s] = "open" /\ s \notin gone

Connected == isConnected /\ websocket # NULL

(* send(): where asserts are checked it is refused unless connected; if    *)
(* not, the handler is registered, and stays registered, before the add    *)
(* that may throw.                                                         *)
SendRpc(kind, u, sid) ==
  LET id == nextId + 1
  IN  IF AssertsEnabled /\ ~Connected
        THEN UNCHANGED << nextId, handlers, future, inbox >>
        ELSE /\ nextId < MaxId
             /\ nextId' = id
             /\ handlers' = Put(handlers, id, [sub |-> u, resub |-> FALSE])
             /\ \E throws \in AddThrows :
                  future' = [future EXCEPT ![id] = IF throws THEN "failed" ELSE "pending"]
             /\ inbox' = [s \in Sockets |->
                            IF s = websocket /\ Reaches(s)
                              THEN inbox[s] \cup {[kind |-> kind, id |-> id, sub |-> u, sid |-> sid]}
                              ELSE inbox[s]]

Send ==
  /\ sends < MaxSends
  /\ sends' = sends + 1
  /\ SendRpc("call", NULL, 0)
  /\ UNCHANGED << connVars, subscriptions, waitingForId, asked, knownId, quit, heard,
                  serving, served, toClient, gone, drops >>

Subscribe(u) ==
  /\ u \notin asked
  /\ asked' = asked \cup {u}
  /\ SendRpc("subscribe", u, 0)
  /\ UNCHANGED << connVars, subscriptions, waitingForId, knownId, quit, heard, sends,
                  serving, served, toClient, gone, drops >>

(* unsubscribe() with the id subscribe() returned.  If no such entry is    *)
(* there it returns false and changes nothing.                             *)
Unsubscribe(u) ==
  /\ u \notin quit
  /\ KeyOf(u, knownId[u]) \in DOMAIN subscriptions
  /\ quit' = quit \cup {u}
  /\ subscriptions' = Drop(subscriptions, KeyOf(u, knownId[u]))
  /\ SendRpc("unsubscribe", NULL, knownId[u])
  /\ UNCHANGED << connVars, waitingForId, asked, knownId, heard, sends, serving, served,
                  toClient, gone, drops >>
-----------------------------------------------------------------------------
(* The socket's callbacks.                                                 *)

(* The keys that _resubscribe asks for again. *)
InvertedSlip == {k \in DOMAIN subscriptions : k[1] \in AuthorTypes}
Renewed == {k \in DOMAIN subscriptions : k[1] \notin AuthorTypes}

(* What it leaves registered. *)
NotClearedSlip == subscriptions
Remaining == EmptyMap

(* _onSocketOpen ends in _resubscribe: the map is emptied and every        *)
(* subscription whose type is not author_... is sent again, each through   *)
(* send(), on the new connection.                                          *)
Resubscribe(s) ==
  LET newIds  == nextId + 1 .. nextId + Cardinality(Renewed)
  IN  \E order \in Bijection(newIds, Renewed) :
        LET sub(i) == subscriptions[order[i]]
        IN  /\ nextId + Cardinality(Renewed) <= MaxId
            /\ nextId' = nextId + Cardinality(Renewed)
            /\ handlers' = [i \in DOMAIN handlers \cup newIds |->
                              IF i \in newIds THEN [sub |-> sub(i), resub |-> TRUE] ELSE handlers[i]]
            /\ future' = [i \in Ids |-> IF i \in newIds THEN "pending" ELSE future[i]]
            /\ inbox' = [inbox EXCEPT ![s] =
                           {[kind |-> "subscribe", id |-> i, sub |-> sub(i), sid |-> 0] : i \in newIds}]
            /\ subscriptions' = Remaining

SocketOpened(s) ==
  /\ Opened(s)
  /\ Resubscribe(s)
  /\ UNCHANGED << waitingForId, userVars, serving, served, toClient, gone, drops >>

(* A callback gets a notification. *)
Deliver(u, note) == heard' = [heard EXCEPT ![u] = note]

(* What the future says of a reply. *)
SwallowedSlip(m) == IF m.ok THEN "done" ELSE "pending"
Outcome(m) == IF m.ok THEN "done" ELSE "failed"

(* Is a notification waiting for the key that is being registered? *)
NotFlushedSlip(k) == FALSE
Waiting(k) == k \in DOMAIN waitingForId

(* _onSocketMessageResult on the reply to a request: complete the future;  *)
(* for a subscription, register it under the id the node gave it, and hand *)
(* over a notification that came before.                                   *)
Settle(m) ==
  LET h == handlers[m.id]
      k == KeyOf(h.sub, m.sid)
      starts == m.ok /\ h.sub # NULL
  IN  /\ future' = [future EXCEPT ![m.id] = Outcome(m)]
      /\ handlers' = Drop(handlers, m.id)
      /\ IF starts
           THEN /\ subscriptions' = Put(subscriptions, k, h.sub)
                /\ knownId' = IF h.resub THEN knownId ELSE [knownId EXCEPT ![h.sub] = m.sid]
           ELSE UNCHANGED << subscriptions, knownId >>
      /\ IF starts /\ Waiting(k)
           THEN /\ waitingForId' = Drop(waitingForId, k)
                /\ Deliver(h.sub, waitingForId[k])
           ELSE UNCHANGED << waitingForId, heard >>

ReceiveReply(s) ==
  LET m == Head(toClient[s])
  IN  /\ s \in Live
      /\ toClient[s] # << >>
      /\ m.kind = "reply"
      /\ toClient' = [toClient EXCEPT ![s] = Tail(@)]
      /\ IF m.id \in DOMAIN handlers
           THEN Settle(m)
           ELSE UNCHANGED << handlers, future, subscriptions, waitingForId, knownId, heard >>
      /\ UNCHANGED << connVars, nextId, asked, quit, sends, inbox, serving, served, gone, drops >>

(* _onSocketMessageSubscribe on a notification: to its callback, or, if    *)
(* nobody has that id, kept under its key in place of what was there.      *)
ReceiveNote(s) ==
  LET m == Head(toClient[s])
  IN  /\ s \in Live
      /\ toClient[s] # << >>
      /\ m.kind = "note"
      /\ toClient' = [toClient EXCEPT ![s] = Tail(@)]
      /\ IF m.key \in DOMAIN subscriptions
           THEN /\ waitingForId' = Drop(waitingForId, m.key)
                /\ Deliver(subscriptions[m.key], m.note)
           ELSE /\ waitingForId' = Put(waitingForId, m.key, m.note)
                /\ UNCHANGED heard
      /\ UNCHANGED << connVars, nextId, handlers, future, subscriptions, asked, knownId, quit,
                      sends, inbox, serving, served, gone, drops >>

(* onDone comes after every message that arrived.                          *)
SocketClosed(s) ==
  /\ Close(s)
  /\ s \in gone
  /\ toClient[s] = << >>
  /\ gone' = gone \ {s}
  /\ UNCHANGED << tableVars, userVars, inbox, serving, served, toClient, drops >>
-----------------------------------------------------------------------------
(* The node and the network.                                               *)

Post(s, m) == toClient' = [toClient EXCEPT ![s] = Append(@, m)]

(* Answer a call or an unsubscribe.                                        *)
NodeAnswers(s, r) ==
  /\ r \in inbox[s]
  /\ r.kind # "subscribe"
  /\ \E ok \in IF r.kind \in Refusable THEN BOOLEAN ELSE {TRUE} :
       Post(s, [kind |-> "reply", id |-> r.id, ok |-> ok, sid |-> 0])
  /\ inbox' = [inbox EXCEPT ![s] = @ \ {r}]
  /\ serving' = [serving EXCEPT ![s] = {x \in @ : r.kind = "call" \/ x.sid # r.sid}]
  /\ UNCHANGED << connVars, tableVars, userVars, served, gone, drops >>

(* Start a subscription, under an id that no request's subscription ever   *)
(* had or, if the node just counts, the next one of the connection.        *)
NodeAccepts(s, r) ==
  /\ r \in inbox[s]
  /\ r.kind = "subscribe"
  /\ served' = [served EXCEPT ![s] = @ + 1]
  /\ serving' = [serving EXCEPT ![s] =
                   @ \cup {[sid |-> IF UniqueIds THEN r.id ELSE served[s] + 1, sub |-> r.sub,
                            owner |-> r.id, sent |-> 0, replied |-> FALSE]}]
  /\ inbox' = [inbox EXCEPT ![s] = @ \ {r}]
  /\ UNCHANGED << connVars, tableVars, userVars, toClient, gone, drops >>

NodeRefuses(s, r) ==
  /\ r \in inbox[s]
  /\ r.kind = "subscribe" /\ r.kind \in Refusable
  /\ inbox' = [inbox EXCEPT ![s] = @ \ {r}]
  /\ Post(s, [kind |-> "reply", id |-> r.id, ok |-> FALSE, sid |-> 0])
  /\ UNCHANGED << connVars, tableVars, userVars, serving, served, gone, drops >>

(* Tell the subscriber the id, and notify it: in either order.             *)
NodeReplies(s, x) ==
  /\ x \in serving[s]
  /\ ~x.replied
  /\ Post(s, [kind |-> "reply", id |-> x.owner, ok |-> TRUE, sid |-> x.sid])
  /\ serving' = [serving EXCEPT ![s] = (@ \ {x}) \cup {[x EXCEPT !.replied = TRUE]}]
  /\ UNCHANGED << connVars, tableVars, userVars, inbox, served, gone, drops >>

NodeNotifies(s, x) ==
  /\ x \in serving[s]
  /\ x.sent < MaxNotes
  /\ Post(s, [kind |-> "note", key |-> KeyOf(x.sub, x.sid),
              note |-> [sub |-> x.sub, owner |-> x.owner, n |-> x.sent + 1]])
  /\ serving' = [serving EXCEPT ![s] = (@ \ {x}) \cup {[x EXCEPT !.sent = @ + 1]}]
  /\ UNCHANGED << connVars, tableVars, userVars, inbox, served, gone, drops >>

(* The peer leaves: it answers a close, or the connection is lost with     *)
(* what it had not yet delivered.                                          *)
PeerLeaves(s) ==
  /\ s \in Live \ gone
  /\ drops' = IF sock[s] = "open" THEN drops + 1 ELSE drops
  /\ drops' <= MaxDrops
  /\ gone' = gone \cup {s}
  /\ \E arrived \in Prefixes(toClient[s]) : toClient' = [toClient EXCEPT ![s] = arrived]
  /\ inbox' = [inbox EXCEPT ![s] = {}]
  /\ serving' = [serving EXCEPT ![s] = {}]
  /\ served' = [served EXCEPT ![s] = 0]
  /\ UNCHANGED << connVars, tableVars, userVars >>
-----------------------------------------------------------------------------
rpcVars == << tableVars, userVars, nodeVars >>

ConnectionStep ==
  \/ RetryTimer /\ UNCHANGED rpcVars
  \/ Connect /\ UNCHANGED rpcVars
  \/ \E s \in Sockets : Failed(s) /\ UNCHANGED rpcVars
  \/ Disconnect /\ UNCHANGED rpcVars
  \/ DisconnectDone /\ UNCHANGED rpcVars

SocketStep(s) == SocketOpened(s) \/ ReceiveReply(s) \/ ReceiveNote(s) \/ SocketClosed(s)

NodeStep(s) ==
  \/ \E r \in inbox[s] : NodeAnswers(s, r) \/ NodeAccepts(s, r) \/ NodeRefuses(s, r)
  \/ \E x \in serving[s] : NodeReplies(s, x) \/ NodeNotifies(s, x)
  \/ PeerLeaves(s)

UserStep == Send \/ \E u \in Subs : Subscribe(u) \/ Unsubscribe(u)

ProviderNext ==
  \/ ConnectionStep
  \/ UserStep
  \/ \E s \in Sockets : SocketStep(s) \/ NodeStep(s)

(* Timers, handshakes and socket callbacks run; a node that is there works *)
(* off its requests; a socket closed on this side is done in the end.      *)
ProviderFairness ==
  /\ WF_vars(RetryTimer /\ UNCHANGED rpcVars)
  /\ WF_vars(DisconnectDone /\ UNCHANGED rpcVars)
  /\ \A s \in Sockets :
       /\ WF_vars(SocketOpened(s) \/ (Failed(s) /\ UNCHANGED rpcVars))
       /\ WF_vars(ReceiveReply(s) \/ ReceiveNote(s))
       /\ WF_vars(SocketClosed(s))
       /\ WF_vars(sock[s] = "closing" /\ PeerLeaves(s))
       /\ WF_vars(\E r \in inbox[s] : NodeAnswers(s, r) \/ NodeAccepts(s, r) \/ NodeRefuses(s, r))
       /\ WF_vars(\E x \in serving[s] : NodeReplies(s, x))

ProviderSpec == ProviderInit /\ [][ProviderNext]_vars
FairProviderSpec == ProviderSpec /\ ProviderFairness
-----------------------------------------------------------------------------
(* Properties.                                                             *)

Active(u)  == \E k \in DOMAIN subscriptions : subscriptions[k] = u
Pending(u) == \E id \in DOMAIN handlers : handlers[id].sub = u /\ future[id] = "pending"

(* What the user sees of a subscription, and the promise made about it.    *)
stage == [u \in Subs |-> CASE Active(u)     -> "active"
                            [] Pending(u)    -> "requested"
                            [] u \notin asked -> "idle"
                            [] OTHER         -> "ended"]

Promise == INSTANCE SubscriptionLifecycle WITH
  Subs <- Subs, Durable <- {u \in Subs : TypeOf[u] \notin AuthorTypes}, NULL <- NULL,
  stage <- stage, heard <- heard, quit <- quit

(* WsProvider keeps the promise of SubscriptionLifecycle.tla: through       *)
(* drops, reconnections and overlapping sockets a callback hears only its   *)
(* own subscription, in order and, while it is active, with none left out,  *)
(* and nothing once it has been unsubscribed; and nothing but its user ends *)
(* an active one, unless its type is not asked for again.                   *)
KeepsPromise == Promise!Spec

(* Resubscribing never doubles a subscription: at any time each is either   *)
(* registered under one key or awaited by one request (index.dart:397-420). *)
OneRegistration ==
  \A u \in Subs :
    Cardinality({k \in DOMAIN subscriptions : subscriptions[k] = u})
      + Cardinality({id \in DOMAIN handlers : handlers[id].sub = u}) <= 1

(* A notification is not left queued once its subscription is registered    *)
(* (index.dart:348-351, 365-373).                                           *)
NothingStuck == DOMAIN waitingForId \cap DOMAIN subscriptions = {}

(* An answer finds its caller: a request whose future is pending is in the  *)
(* handler table, whatever the connection went through (index.dart:237).    *)
Answerable == \A id \in Ids : future[id] = "pending" => id \in DOMAIN handlers

(* The three tables agree about every subscription and request, whatever    *)
(* connections overlap and whatever is refused.                             *)
TablesAgree == OneRegistration /\ NothingStuck /\ Answerable

(* While the provider's connection is up, every registered subscription is  *)
(* one the node serves on that very connection.                             *)
ActiveIsServed ==
  Connected /\ Reaches(websocket) =>
    \A k \in DOMAIN subscriptions :
      \E x \in serving[websocket] : KeyOf(x.sub, x.sid) = k /\ x.sub = subscriptions[k]

(* No notification is skipped: those that come ahead of the id are kept     *)
(* ("store the JSON, we could have out-of-order subid coming in",           *)
(* index.dart:365) until the subscription is registered.                    *)
NoneSkipped ==
  [][\A u \in Subs : heard'[u] # heard[u] => Promise!Follows(heard'[u], heard[u])]_vars

(* While no connection is lost every request is settled (index.dart:229-235).*)
Settles ==
  \A id \in Ids :
    future[id] = "pending" /\ drops = 0 ~> future[id] # "pending" \/ drops > 0

(* After a connection is lost the subscriptions that were registered are    *)
(* registered again, except those of type author_... and those the user     *)
(* ends.                                                                    *)
Restored ==
  \A u \in {v \in Subs : TypeOf[v] \notin AuthorTypes} :
    [](Active(u) => <>[](Active(u) \/ u \in quit))
=============================================================================
