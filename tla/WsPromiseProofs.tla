--------------------------- MODULE WsPromiseProofs ---------------------------
(***************************************************************************)
(* WsProvider.tla implements SubscriptionLifecycle.tla, for any            *)
(* subscriptions, sockets, endpoints and bounds, if the node uses no       *)
(* subscription id twice.                                                  *)
(*                                                                         *)
(* Why a callback hears its own subscription only: every id that was ever  *)
(* given out means one subscription, f[id], and whatever carries the id    *)
(* means that one (Meant).  Why in order: the notifications sent under an  *)
(* id travel on one connection (Alone), each in front of those after it:   *)
(* in the queue of the connection, then in _waitingForId, then at the      *)
(* callback (Ordered).  Why none is missing: an id that is not ended has   *)
(* all its notifications on that way, numbered one after the other from the *)
(* one that is heard next (NoGap).                                         *)
(*                                                                         *)
(* With that, what is registered is served by the node at the other end:   *)
(* the node confirms what it serves, nothing registered is asked to end,   *)
(* and a connection that is left takes nothing along (SInv).  What is      *)
(* asked for stays on its connection until it is settled (StaysOn).         *)
(***************************************************************************)
EXTENDS WsProviderProofs

IsNote(s, i)  == i \in 1 .. Len(toClient[s]) /\ toClient[s][i].kind = "note"
IsReply(s, i) == i \in 1 .. Len(toClient[s]) /\ toClient[s][i].kind = "reply"

(* A notification that the node has sent and that is not forgotten.        *)
InFlight(a) == \E s \in Sockets, i \in Nat : IsNote(s, i) /\ toClient[s][i].note = a
Queued(a)   == \E k \in DOMAIN waitingForId : waitingForId[k] = a
Heard(a)    == a # NULL /\ \E u \in Subs : heard[u] = a
Out(a)      == InFlight(a) \/ Queued(a) \/ Heard(a)

(* A request that was sent and may still be answered.                      *)
OnItsWay(id) ==
  \E s \in Sockets : \/ \E r \in inbox[s] : r.id = id
                     \/ \E x \in serving[s] : x.owner = id
                     \/ \E i \in Nat : IsReply(s, i) /\ toClient[s][i].id = id

Typed ==
  /\ toClient \in [Sockets -> Seq(Replies \cup Updates)]
  /\ inbox \in [Sockets -> SUBSET Requests]
  /\ serving \in [Sockets -> SUBSET Served]
  /\ \A k \in DOMAIN waitingForId : waitingForId[k] \in Notes
  /\ heard \in [Subs -> Notes \cup {NULL}]
  /\ knownId \in [Subs -> 0 .. MaxId]

(* An id that was given out is of subscription u, or of none.              *)
Known(f, n, id, u) == id \in Ids /\ id <= n /\ f[id] = u

MeantByTables(f) ==
  /\ \A id \in DOMAIN handlers : Known(f, nextId, id, handlers[id].sub)
  /\ \A k \in DOMAIN subscriptions :
       \E id \in Ids : /\ Known(f, nextId, id, subscriptions[k]) /\ subscriptions[k] \in Subs
                       /\ k = KeyOf(subscriptions[k], id)
                       /\ id \notin DOMAIN handlers
  /\ \A u \in Subs : knownId[u] # 0 => Known(f, nextId, knownId[u], u)

MeantByNode(f) ==
  \A s \in Sockets :
    /\ \A r \in inbox[s] : Known(f, nextId, r.id, r.sub) /\ (r.kind = "subscribe" <=> r.sub # NULL)
    /\ \A x \in serving[s] : Known(f, nextId, x.owner, x.sub) /\ x.sid = x.owner
    /\ \A i \in Nat : IsReply(s, i) =>
         LET m == toClient[s][i]
         IN  Known(f, nextId, m.id, f[m.id]) /\ (m.ok /\ f[m.id] # NULL => m.sid = m.id)

MeantByNotes(f) ==
  /\ \A a \in Notes : Out(a) => Known(f, nextId, a.owner, a.sub)
  /\ \A u \in Subs : heard[u] # NULL => heard[u].sub = u
  /\ \A k \in DOMAIN waitingForId : k = KeyOf(waitingForId[k].sub, waitingForId[k].owner)
  /\ \A s \in Sockets, i \in Nat : IsNote(s, i) =>
       LET m == toClient[s][i] IN m.key = KeyOf(m.note.sub, m.note.owner)

(* What is on its way can still be awaited. *)
Awaited == \A id \in DOMAIN handlers : OnItsWay(id) => future[id] = "pending"

(* A request is in one place, and what it started is on one connection.    *)
Alone ==
  \A s, t \in Sockets :
    /\ \A r \in inbox[s], q \in inbox[t] : r.id = q.id => s = t /\ r = q
    /\ \A x \in serving[s], y \in serving[t] : x.owner = y.owner => s = t /\ x = y
    /\ \A r \in inbox[s], x \in serving[t] : r.id # x.owner
    /\ \A i \in Nat, x \in serving[t] :
         IsNote(s, i) /\ toClient[s][i].note.owner = x.owner => s = t
    /\ \A i, j \in Nat :
         IsNote(s, i) /\ IsNote(t, j) /\ toClient[s][i].note.owner = toClient[t][j].note.owner => s = t

(* How far the node has come. *)
Counted ==
  \A s \in Sockets, a \in Notes :
    Out(a) => /\ \A r \in inbox[s] : a.owner # r.id
              /\ \A x \in serving[s] : a.owner = x.owner => a.n <= x.sent

(* b comes after a, if they are sent under the same id. *)
Before(a, b) == a.owner = b.owner => a.n < b.n

Ordered ==
  /\ \A s \in Sockets, i, j \in Nat :
       i < j /\ IsNote(s, i) /\ IsNote(s, j) => Before(toClient[s][i].note, toClient[s][j].note)
  /\ \A s \in Sockets, i \in Nat : IsNote(s, i) =>
       /\ \A k \in DOMAIN waitingForId : Before(waitingForId[k], toClient[s][i].note)
       /\ \A u \in Subs : heard[u] # NULL => Before(heard[u], toClient[s][i].note)
  /\ \A k \in DOMAIN waitingForId, u \in Subs :
       heard[u] # NULL => Before(heard[u], waitingForId[k])

(* What a callback heard is of the subscription's latest id, or older.     *)
Latest ==
  \A u \in Subs : heard[u] # NULL =>
    /\ \A id \in AwaitedBy(u) : heard[u].owner < id
    /\ \A k \in RegisteredAs(u) : heard[u].owner <= k[2]

Meant(f) ==
  /\ f \in [Ids -> Subs \cup {NULL}]
  /\ MeantByTables(f) /\ MeantByNode(f) /\ MeantByNotes(f)

PInv(f) == Typed /\ Meant(f) /\ Awaited /\ Alone /\ Counted /\ Ordered /\ Latest
-----------------------------------------------------------------------------
LEMMA InitPInv ==
  ASSUME ProviderInit
  PROVE  PInv([id \in Ids |-> NULL])
<1> DEFINE f == [id \in Ids |-> NULL]
<1>1. /\ DOMAIN handlers = {} /\ DOMAIN subscriptions = {} /\ DOMAIN waitingForId = {}
      /\ \A s \in Sockets : toClient[s] = << >> /\ inbox[s] = {} /\ serving[s] = {}
      /\ \A u \in Subs : heard[u] = NULL /\ knownId[u] = 0
  BY DEF ProviderInit, EmptyMap
<1>2. /\ \A s \in Sockets, i \in Nat : ~IsNote(s, i) /\ ~IsReply(s, i)
      /\ \A a : ~Out(a)
      /\ \A id : ~OnItsWay(id)
  BY <1>1 DEF IsNote, IsReply, Out, InFlight, Queued, Heard, OnItsWay
<1>3. Typed
  BY <1>1, RpcBoundsAssumption DEF ProviderInit, Typed
<1>4. Meant(f)
  BY <1>1, <1>2 DEF Meant, MeantByTables, MeantByNode, MeantByNotes
<1>5. Awaited /\ Alone /\ Counted /\ Ordered /\ Latest
  BY <1>1, <1>2 DEF Awaited, Alone, Counted, Ordered, Latest
<1> QED
  BY <1>3, <1>4, <1>5 DEF PInv
-----------------------------------------------------------------------------
(* What travels.                                                           *)
LEMMA MessageIs ==
  ASSUME Typed, NEW s \in Sockets, NEW i \in 1 .. Len(toClient[s])
  PROVE  LET m == toClient[s][i]
         IN  \/ IsReply(s, i) /\ ~IsNote(s, i) /\ m \in Replies
             \/ IsNote(s, i) /\ ~IsReply(s, i) /\ m \in Updates
<1>1. toClient[s][i] \in Replies \cup Updates
  BY DEF Typed
<1> QED
  BY <1>1 DEF IsReply, IsNote, Replies, Updates

LEMMA Posted ==
  ASSUME Typed, NEW s \in Sockets, NEW m \in Replies \cup Updates, Post(s, m)
  PROVE  /\ toClient' \in [Sockets -> Seq(Replies \cup Updates)]
         /\ \A t \in Sockets \ {s} : toClient'[t] = toClient[t]
         /\ Len(toClient'[s]) = Len(toClient[s]) + 1
         /\ toClient'[s][Len(toClient[s]) + 1] = m
         /\ \A i \in 1 .. Len(toClient[s]) : toClient'[s][i] = toClient[s][i]
<1> DEFINE q == toClient[s]
<1>1. toClient' = [toClient EXCEPT ![s] = Append(q, m)] /\ q \in Seq(Replies \cup Updates)
  BY DEF Post, Typed
<1>2. /\ Append(q, m) \in Seq(Replies \cup Updates)
      /\ Len(Append(q, m)) = Len(q) + 1
      /\ Append(q, m)[Len(q) + 1] = m
      /\ \A i \in 1 .. Len(q) : Append(q, m)[i] = q[i]
  BY <1>1, AppendProperties
<1> QED
  BY <1>1, <1>2 DEF Typed

(* What is left of a queue once its first d messages are received and the  *)
(* last ones are lost.                                                     *)
LeftOf(s, d) ==
  /\ toClient' \in [Sockets -> Seq(Replies \cup Updates)]
  /\ \A t \in Sockets \ {s} : toClient'[t] = toClient[t]
  /\ \A i \in 1 .. Len(toClient'[s]) :
       i + d \in 1 .. Len(toClient[s]) /\ toClient'[s][i] = toClient[s][i + d]

LEMMA Received ==
  ASSUME Typed, NEW s \in Sockets, toClient[s] # << >>,
         toClient' = [toClient EXCEPT ![s] = Tail(@)]
  PROVE  /\ LeftOf(s, 1)
         /\ 1 \in 1 .. Len(toClient[s]) /\ Head(toClient[s]) = toClient[s][1]
         /\ Len(toClient[s]) = Len(toClient'[s]) + 1
<1> DEFINE q == toClient[s]
<1>1. q \in Seq(Replies \cup Updates)
  BY DEF Typed
<1>2. /\ Tail(q) \in Seq(Replies \cup Updates)
      /\ Len(q) \in Nat \ {0} /\ Len(Tail(q)) = Len(q) - 1
      /\ \A i \in 1 .. Len(Tail(q)) : Tail(q)[i] = q[i + 1]
      /\ Head(q) = q[1]
  BY <1>1, HeadTailProperties, EmptySeq, LenProperties
<1> QED
  BY <1>2 DEF Typed, LeftOf

LEMMA Lost ==
  ASSUME Typed, NEW s \in Sockets, NEW arrived \in Prefixes(toClient[s]),
         toClient' = [toClient EXCEPT ![s] = arrived]
  PROVE  LeftOf(s, 0)
<1> DEFINE q == toClient[s]
<1>1. q \in Seq(Replies \cup Updates) /\ Len(q) \in Nat
  BY LenProperties DEF Typed
<1>2. PICK l \in 0 .. Len(q) : arrived = SubSeq(q, 1, l)
  BY DEF Prefixes
<1>3. /\ arrived \in Seq(Replies \cup Updates)
      /\ Len(arrived) = l
      /\ \A i \in 1 .. l : arrived[i] = q[i]
  BY <1>1, <1>2
<1> QED
  BY <1>1, <1>3 DEF Typed, LeftOf
-----------------------------------------------------------------------------
(* Steps that change nothing of this.                                      *)
LEMMA PromiseUntouched ==
  ASSUME NEW f, PInv(f),
         UNCHANGED << tableVars, knownId, heard, inbox, serving, toClient >>
  PROVE  PInv(f)'
<1>1. /\ \A s : \A i : (IsNote(s, i)' <=> IsNote(s, i)) /\ (IsReply(s, i)' <=> IsReply(s, i))
      /\ \A u : AwaitedBy(u)' = AwaitedBy(u) /\ RegisteredAs(u)' = RegisteredAs(u)
      /\ \A id, u : Known(f, nextId', id, u) <=> Known(f, nextId, id, u)
  BY DEF IsNote, IsReply, AwaitedBy, RegisteredAs, Known, tableVars
<1>2. /\ \A a : Out(a)' <=> Out(a)
      /\ \A id : OnItsWay(id)' <=> OnItsWay(id)
  BY <1>1 DEF Out, InFlight, Queued, Heard, OnItsWay, tableVars
<1>3. Typed'
  BY DEF PInv, Typed, tableVars
<1>4. Meant(f)'
  BY <1>1, <1>2 DEF PInv, Meant, MeantByTables, MeantByNode, MeantByNotes, tableVars
<1>5. Awaited' /\ Counted' /\ Latest'
  BY <1>1, <1>2 DEF PInv, Awaited, Counted, Latest, tableVars
<1>6. Alone' /\ Ordered'
  BY <1>1 DEF PInv, Alone, Ordered, tableVars
<1> QED
  BY <1>3, <1>4, <1>5, <1>6 DEF PInv

(* Requests are sent under ids that were not given out before.             *)
LEMMA RequestsSent ==
  ASSUME Inv, NEW f, PInv(f), NEW g \in [Ids -> Subs \cup {NULL}],
         \A id \in Ids : id <= nextId => g[id] = f[id] /\ future'[id] = future[id],
         nextId' \in Nat, nextId <= nextId',
         \A id \in DOMAIN handlers' :
           \/ id \in DOMAIN handlers /\ handlers'[id] = handlers[id]
           \/ id > nextId /\ Known(g, nextId', id, handlers'[id].sub),
         \A k \in DOMAIN subscriptions' :
           k \in DOMAIN subscriptions /\ subscriptions'[k] = subscriptions[k],
         inbox' \in [Sockets -> SUBSET Requests],
         \A s \in Sockets : \A r \in inbox'[s] :
           \/ r \in inbox[s]
           \/ /\ r.id > nextId /\ Known(g, nextId', r.id, r.sub)
              /\ r.kind = "subscribe" <=> r.sub # NULL
              /\ future'[r.id] = "pending",
         \A s, t \in Sockets : \A r \in inbox'[s], q \in inbox'[t] :
           r.id = q.id /\ r.id > nextId => s = t /\ r = q,
         UNCHANGED << waitingForId, knownId, heard, serving, toClient >>
  PROVE  PInv(g)'
<1> USE DEF PInv
<1>1. /\ \A s : \A i : (IsNote(s, i)' <=> IsNote(s, i)) /\ (IsReply(s, i)' <=> IsReply(s, i))
      /\ \A a : Out(a)' <=> Out(a)
  BY DEF IsNote, IsReply, Out, InFlight, Queued, Heard
<1>2. nextId \in Nat /\ \A id, u : Known(f, nextId, id, u) => Known(g, nextId', id, u)
  BY DEF Inv, IdsFresh, Known, Ids
<1>3. Typed'
  BY DEF Typed
<1>4. MeantByTables(g)'
  <2>1. ASSUME NEW k \in DOMAIN subscriptions'
        PROVE  \E id \in Ids : /\ Known(g, nextId', id, subscriptions'[k]) /\ subscriptions'[k] \in Subs
                               /\ k = KeyOf(subscriptions'[k], id)
                               /\ id \notin DOMAIN handlers'
    <3>1. PICK id \in Ids : /\ Known(f, nextId, id, subscriptions[k]) /\ subscriptions[k] \in Subs
                            /\ k = KeyOf(subscriptions[k], id)
                            /\ id \notin DOMAIN handlers
      BY <2>1 DEF Meant, MeantByTables
    <3>2. id \notin DOMAIN handlers'
      BY <1>2, <3>1 DEF Known, Ids
    <3> QED
      BY <1>2, <2>1, <3>1, <3>2
  <2>2. \A id \in DOMAIN handlers' : Known(g, nextId', id, handlers'[id].sub)
    BY <1>2 DEF Meant, MeantByTables
  <2>3. \A u \in Subs : knownId'[u] # 0 => Known(g, nextId', knownId'[u], u)
    BY <1>2 DEF Meant, MeantByTables
  <2> QED
    BY <2>1, <2>2, <2>3 DEF MeantByTables
<1>5. MeantByNode(g)'
  <2>1. ASSUME NEW s \in Sockets, NEW i \in Nat, IsReply(s, i)
        PROVE  LET m == toClient[s][i]
               IN  Known(g, nextId', m.id, g[m.id]) /\ (m.ok /\ g[m.id] # NULL => m.sid = m.id)
    <3>1. LET m == toClient[s][i]
          IN  Known(f, nextId, m.id, f[m.id]) /\ (m.ok /\ f[m.id] # NULL => m.sid = m.id)
      BY <2>1 DEF Meant, MeantByNode
    <3> QED
      BY <1>2, <3>1 DEF Known
  <2>2. \A s \in Sockets : \A r \in inbox'[s] :
          Known(g, nextId', r.id, r.sub) /\ (r.kind = "subscribe" <=> r.sub # NULL)
    BY <1>2 DEF Meant, MeantByNode
  <2>3. \A s \in Sockets : \A x \in serving[s] : Known(g, nextId', x.owner, x.sub) /\ x.sid = x.owner
    BY <1>2 DEF Meant, MeantByNode
  <2> QED
    BY <1>1, <2>1, <2>2, <2>3 DEF MeantByNode
<1>6. MeantByNotes(g)'
  BY <1>1, <1>2 DEF Meant, MeantByNotes
<1>7. Awaited'
  <2>1. ASSUME NEW id \in DOMAIN handlers', OnItsWay(id)' PROVE future'[id] = "pending"
    <3>1. CASE id > nextId
      <4>1. ASSUME NEW s \in Sockets, NEW x \in serving[s] PROVE x.owner # id
        BY <1>2, <3>1 DEF Meant, MeantByNode, Known, Ids
      <4>2. ASSUME NEW s \in Sockets, NEW i \in Nat, IsReply(s, i) PROVE toClient[s][i].id # id
        BY <1>2, <3>1, <4>2 DEF Meant, MeantByNode, Known, Ids
      <4>3. PICK s \in Sockets : \E r \in inbox'[s] : r.id = id
        BY <1>1, <2>1, <4>1, <4>2 DEF OnItsWay
      <4>4. PICK r \in inbox'[s] : r.id = id
        BY <4>3
      <4>5. r \notin inbox[s]
        BY <1>2, <3>1, <4>4 DEF Meant, MeantByNode, Known, Ids
      <4> QED
        BY <4>4, <4>5
    <3>2. CASE ~(id > nextId)
      <4>1. id \in DOMAIN handlers
        BY <3>2
      <4>2. OnItsWay(id)
        BY <1>1, <2>1, <3>2 DEF OnItsWay
      <4>3. id \in Ids /\ id <= nextId
        BY <4>1 DEF Meant, MeantByTables, Known
      <4> QED
        BY <4>1, <4>2, <4>3 DEF Awaited
    <3> QED
      BY <3>1, <3>2
  <2> QED
    BY <2>1 DEF Awaited
<1>8. Alone'
  <2>1. \A s \in Sockets : \A r \in inbox[s] : r.id <= nextId
    BY DEF Meant, MeantByNode, Known
  <2>2. \A s \in Sockets : \A x \in serving[s] : x.owner <= nextId
    BY DEF Meant, MeantByNode, Known
  <2>3. \A s \in Sockets : \A r \in inbox'[s] : r.id \in Nat
    BY DEF Requests, Ids
  <2>4. \A s, t \in Sockets : \A r \in inbox'[s], q \in inbox'[t] : r.id = q.id => s = t /\ r = q
    BY <1>2, <2>1, <2>3 DEF Alone
  <2>5. \A s, t \in Sockets : \A r \in inbox'[s], x \in serving[t] : r.id # x.owner
    BY <1>2, <2>2, <2>3 DEF Alone, Typed, Served, Ids
  <2> QED
    BY <1>1, <2>4, <2>5 DEF Alone
<1>9. Counted'
  <2>1. ASSUME NEW s \in Sockets, NEW a \in Notes, Out(a), NEW r \in inbox'[s] PROVE a.owner # r.id
    <3>1. a.owner <= nextId /\ a.owner \in Nat
      BY <2>1 DEF Meant, MeantByNotes, Known, Ids
    <3> QED
      BY <1>2, <2>1, <3>1 DEF Counted, Requests, Ids
  <2> QED
    BY <1>1, <2>1 DEF Counted
<1>10. Ordered'
  BY <1>1 DEF Ordered
<1>11. Latest'
  <2>1. ASSUME NEW u \in Subs, heard[u] # NULL PROVE heard[u].owner <= nextId /\ heard[u].owner \in Nat
    BY <2>1 DEF Meant, MeantByNotes, Known, Out, Heard, Typed, Ids
  <2>2. \A u \in Subs : \A id \in AwaitedBy(u)' : id \in AwaitedBy(u) \/ (id > nextId /\ id \in Nat)
    BY DEF AwaitedBy, Known, Ids
  <2>3. \A u \in Subs : RegisteredAs(u)' \subseteq RegisteredAs(u)
    BY DEF RegisteredAs
  <2> QED
    BY <1>2, <2>1, <2>2, <2>3 DEF Latest
<1> QED
  BY <1>3, <1>4, <1>5, <1>6, <1>7, <1>8, <1>9, <1>10, <1>11 DEF Meant
-----------------------------------------------------------------------------
(* The node answers, and what it is asked and serves may become less.       *)
LEMMA AnswerPosted ==
  ASSUME NEW f, PInv(f), NEW s \in Sockets, NEW m \in Replies, Post(s, m),
         OnItsWay(m.id), Known(f, nextId, m.id, f[m.id]), m.ok /\ f[m.id] # NULL => m.sid = m.id,
         inbox' \in [Sockets -> SUBSET Requests], serving' \in [Sockets -> SUBSET Served],
         \A t \in Sockets : inbox'[t] \subseteq inbox[t],
         \A t \in Sockets : \A y \in serving'[t] : \E x \in serving[t] :
           y.sid = x.sid /\ y.sub = x.sub /\ y.owner = x.owner /\ y.sent = x.sent,
         \A t \in Sockets : \A y, z \in serving'[t] : y.owner = z.owner => y = z,
         UNCHANGED << tableVars, userVars >>
  PROVE  PInv(f)'
<1> USE DEF PInv
<1>1. m.kind = "reply" /\ m \in Replies \cup Updates
  BY DEF Replies
<1>2. /\ toClient' \in [Sockets -> Seq(Replies \cup Updates)]
      /\ \A t \in Sockets \ {s} : toClient'[t] = toClient[t]
      /\ Len(toClient'[s]) = Len(toClient[s]) + 1
      /\ toClient'[s][Len(toClient[s]) + 1] = m
      /\ \A i \in 1 .. Len(toClient[s]) : toClient'[s][i] = toClient[s][i]
  BY <1>1, Posted
<1>3. \A t \in Sockets : Len(toClient[t]) \in Nat
  BY LenProperties DEF Typed
<1>4. \A t \in Sockets : \A i \in Nat :
        /\ IsNote(t, i)' <=> IsNote(t, i)
        /\ IsNote(t, i) => toClient'[t][i] = toClient[t][i]
        /\ IsReply(t, i)' => \/ IsReply(t, i) /\ toClient'[t][i] = toClient[t][i]
                             \/ t = s /\ toClient'[t][i] = m
  BY <1>1, <1>2, <1>3 DEF IsNote, IsReply
<1>5. \A a : Out(a)' <=> Out(a)
  BY <1>4 DEF Out, InFlight, Queued, Heard, tableVars, userVars
<1>6. \A id : OnItsWay(id)' => OnItsWay(id)
  BY <1>4 DEF OnItsWay
<1>7. Typed'
  BY <1>2 DEF Typed, tableVars, userVars
<1>8. MeantByTables(f)'
  BY DEF Meant, MeantByTables, tableVars, userVars
<1>9. MeantByNode(f)'
  <2>1. nextId' = nextId
    BY DEF tableVars
  <2>2. \A t \in Sockets : \A r \in inbox'[t] :
          Known(f, nextId, r.id, r.sub) /\ (r.kind = "subscribe" <=> r.sub # NULL)
    BY DEF Meant, MeantByNode
  <2>3. \A t \in Sockets : \A x \in serving'[t] : Known(f, nextId, x.owner, x.sub) /\ x.sid = x.owner
    BY DEF Meant, MeantByNode
  <2>4. ASSUME NEW t \in Sockets, NEW i \in Nat, IsReply(t, i)'
        PROVE  LET n == toClient'[t][i]
               IN  Known(f, nextId, n.id, f[n.id]) /\ (n.ok /\ f[n.id] # NULL => n.sid = n.id)
    BY <1>4, <2>4 DEF Meant, MeantByNode
  <2> QED
    BY <2>1, <2>2, <2>3, <2>4 DEF MeantByNode
<1>10. MeantByNotes(f)'
  BY <1>4, <1>5 DEF Meant, MeantByNotes, tableVars, userVars
<1>11. Awaited'
  BY <1>6 DEF Awaited, tableVars
<1>12. Alone'
  <2>1. \A t, v \in Sockets : \A y \in serving'[t], z \in serving'[v] : y.owner = z.owner => t = v /\ y = z
    BY DEF Alone
  <2>2. \A t, v \in Sockets : \A r \in inbox'[t], y \in serving'[v] : r.id # y.owner
    BY DEF Alone
  <2>3. \A t, v \in Sockets, i \in Nat : \A y \in serving'[v] :
          IsNote(t, i)' /\ toClient'[t][i].note.owner = y.owner => t = v
    BY <1>4 DEF Alone
  <2>4. \A t, v \in Sockets, i, j \in Nat :
          IsNote(t, i)' /\ IsNote(v, j)' /\ toClient'[t][i].note.owner = toClient'[v][j].note.owner => t = v
    BY <1>4 DEF Alone
  <2>5. \A t, v \in Sockets : \A r \in inbox'[t], q \in inbox'[v] : r.id = q.id => t = v /\ r = q
    BY DEF Alone
  <2> QED
    BY <2>1, <2>2, <2>3, <2>4, <2>5 DEF Alone
<1>13. Counted'
  BY <1>5 DEF Counted
<1>14. Ordered'
  BY <1>4 DEF Ordered, tableVars, userVars
<1>15. Latest'
  BY DEF Latest, AwaitedBy, RegisteredAs, tableVars, userVars
<1> QED
  BY <1>7, <1>8, <1>9, <1>10, <1>11, <1>12, <1>13, <1>14, <1>15 DEF Meant, tableVars

LEMMA NodeAnswersPromise ==
  ASSUME NEW f, PInv(f), NEW s \in Sockets, NEW r \in inbox[s], NodeAnswers(s, r) PROVE PInv(f)'
<1>1. PICK ok \in BOOLEAN : Post(s, [kind |-> "reply", id |-> r.id, ok |-> ok, sid |-> 0])
  BY DEF NodeAnswers
<1> DEFINE m == [kind |-> "reply", id |-> r.id, ok |-> ok, sid |-> 0]
<1>2. Known(f, nextId, r.id, r.sub) /\ r.sub = NULL /\ r \in Requests
  BY DEF NodeAnswers, PInv, Meant, MeantByNode, Typed
<1>3. m \in Replies /\ m.id = r.id /\ f[m.id] = NULL /\ Known(f, nextId, m.id, f[m.id])
  BY <1>2, RpcBoundsAssumption DEF Replies, Known
<1>4. OnItsWay(m.id)
  BY DEF OnItsWay
<1>5. /\ inbox' = [inbox EXCEPT ![s] = @ \ {r}]
      /\ serving' = [serving EXCEPT ![s] = {x \in @ : r.kind = "call" \/ x.sid # r.sid}]
      /\ UNCHANGED << tableVars, userVars >>
  BY DEF NodeAnswers
<1>6. \A t \in Sockets : inbox'[t] \subseteq inbox[t] /\ serving'[t] \subseteq serving[t]
  BY <1>5 DEF PInv, Typed
<1>7. inbox' \in [Sockets -> SUBSET Requests] /\ serving' \in [Sockets -> SUBSET Served]
  BY <1>5 DEF PInv, Typed
<1>8. \A t \in Sockets : \A y, z \in serving'[t] : y.owner = z.owner => y = z
  BY <1>6 DEF PInv, Alone
<1> HIDE DEF m
<1> QED
  BY <1>1, <1>3, <1>4, <1>5, <1>6, <1>7, <1>8, AnswerPosted DEF m

LEMMA NodeRefusesPromise ==
  ASSUME NEW f, PInv(f), NEW s \in Sockets, NEW r \in inbox[s], NodeRefuses(s, r) PROVE PInv(f)'
<1> DEFINE m == [kind |-> "reply", id |-> r.id, ok |-> FALSE, sid |-> 0]
<1>1. Known(f, nextId, r.id, r.sub) /\ r \in Requests
  BY DEF PInv, Meant, MeantByNode, Typed
<1>2. m \in Replies /\ m.id = r.id /\ ~m.ok /\ Known(f, nextId, m.id, f[m.id])
  BY <1>1, RpcBoundsAssumption DEF Replies, Known
<1>3. OnItsWay(m.id)
  BY DEF OnItsWay
<1>4. /\ inbox' = [inbox EXCEPT ![s] = @ \ {r}] /\ Post(s, m)
      /\ UNCHANGED << serving, tableVars, userVars >>
  BY DEF NodeRefuses
<1>5. /\ \A t \in Sockets : inbox'[t] \subseteq inbox[t]
      /\ inbox' \in [Sockets -> SUBSET Requests] /\ serving' \in [Sockets -> SUBSET Served]
  BY <1>4 DEF PInv, Typed
<1>6. \A t \in Sockets : \A y, z \in serving'[t] : y.owner = z.owner => y = z
  BY <1>4 DEF PInv, Alone
<1> HIDE DEF m
<1> QED
  BY <1>2, <1>3, <1>4, <1>5, <1>6, AnswerPosted

LEMMA NodeRepliesPromise ==
  ASSUME NEW f, PInv(f), NEW s \in Sockets, NEW x \in serving[s], NodeReplies(s, x) PROVE PInv(f)'
<1> DEFINE m == [kind |-> "reply", id |-> x.owner, ok |-> TRUE, sid |-> x.sid]
           y == [x EXCEPT !.replied = TRUE]
<1>1. Known(f, nextId, x.owner, x.sub) /\ x.sid = x.owner /\ x \in Served
  BY DEF PInv, Meant, MeantByNode, Typed
<1>2. m \in Replies /\ m.id = x.owner /\ m.sid = m.id /\ Known(f, nextId, m.id, f[m.id])
  BY <1>1, RpcBoundsAssumption DEF Replies, Known, Served, Ids
<1>3. OnItsWay(m.id)
  BY DEF OnItsWay
<1>4. /\ serving' = [serving EXCEPT ![s] = (@ \ {x}) \cup {y}] /\ Post(s, m)
      /\ UNCHANGED << inbox, tableVars, userVars >>
  BY DEF NodeReplies
<1>5. y \in Served /\ y.sid = x.sid /\ y.sub = x.sub /\ y.owner = x.owner /\ y.sent = x.sent
  BY <1>1 DEF Served
<1> HIDE DEF m, y
<1>6. inbox' \in [Sockets -> SUBSET Requests] /\ serving' \in [Sockets -> SUBSET Served]
  BY <1>4, <1>5 DEF PInv, Typed
<1>7. \A t \in Sockets : \A z \in serving'[t] : z \in serving[t] \ {x} \/ (t = s /\ z = y)
  BY <1>4 DEF PInv, Typed, Alone
<1>8. \A t \in Sockets : \A z \in serving'[t] : \E v \in serving[t] :
        z.sid = v.sid /\ z.sub = v.sub /\ z.owner = v.owner /\ z.sent = v.sent
  BY <1>5, <1>7
<1>9. \A t \in Sockets : \A v, z \in serving'[t] : v.owner = z.owner => v = z
  BY <1>5, <1>7 DEF PInv, Alone
<1> QED
  BY <1>2, <1>3, <1>4, <1>6, <1>8, <1>9, AnswerPosted
-----------------------------------------------------------------------------
(* The node starts to serve a subscription.                                *)
LEMMA NodeAcceptsPromise ==
  ASSUME UniqueIds, NEW f, PInv(f), NEW s \in Sockets, NEW r \in inbox[s], NodeAccepts(s, r)
  PROVE  PInv(f)'
<1> USE DEF PInv
<1> DEFINE x == [sid |-> r.id, sub |-> r.sub, owner |-> r.id, sent |-> 0, replied |-> FALSE]
<1>1. /\ serving' = [serving EXCEPT ![s] = @ \cup {x}]
      /\ inbox' = [inbox EXCEPT ![s] = @ \ {r}]
      /\ UNCHANGED << tableVars, userVars, toClient >>
  BY DEF NodeAccepts
<1>2. Known(f, nextId, r.id, r.sub) /\ r.sub \in Subs /\ r.id \in Ids
  BY DEF NodeAccepts, Meant, MeantByNode, Typed, Requests
<1>3. x \in Served /\ x.owner = r.id /\ x.sid = r.id /\ x.sub = r.sub /\ x.sent = 0
  BY <1>2, RpcBoundsAssumption DEF Served
<1> HIDE DEF x
<1>4. /\ \A t \in Sockets : inbox'[t] \subseteq inbox[t] /\ (t = s => inbox'[t] = inbox[t] \ {r})
      /\ \A t \in Sockets : \A z \in serving'[t] : z \in serving[t] \/ (t = s /\ z = x)
  BY <1>1 DEF Typed
<1>5. /\ \A t : \A i : (IsNote(t, i)' <=> IsNote(t, i)) /\ (IsReply(t, i)' <=> IsReply(t, i))
      /\ \A a : Out(a)' <=> Out(a)
  BY <1>1 DEF IsNote, IsReply, Out, InFlight, Queued, Heard, tableVars, userVars
<1>6. Typed'
  BY <1>1, <1>3 DEF Typed, tableVars, userVars
<1>7. MeantByTables(f)' /\ MeantByNotes(f)'
  BY <1>1, <1>5 DEF Meant, MeantByTables, MeantByNotes, tableVars, userVars
<1>8. MeantByNode(f)'
  <2>1. \A t \in Sockets : \A z \in serving'[t] : Known(f, nextId, z.owner, z.sub) /\ z.sid = z.owner
    BY <1>2, <1>3, <1>4 DEF Meant, MeantByNode
  <2> QED
    BY <1>1, <1>4, <1>5, <2>1 DEF Meant, MeantByNode, tableVars
<1>9. Awaited'
  <2>1. \A id : OnItsWay(id)' => OnItsWay(id)
    BY <1>1, <1>3, <1>4, <1>5 DEF OnItsWay
  <2> QED
    BY <1>1, <2>1 DEF Awaited, tableVars
<1>10. \A a \in Notes : Out(a) => a.owner # r.id
  BY DEF Counted
<1>11. \A t \in Sockets, i \in Nat : IsNote(t, i) => toClient[t][i].note.owner # r.id
  <2>1. ASSUME NEW t \in Sockets, NEW i \in Nat, IsNote(t, i)
        PROVE  toClient[t][i].note \in Notes /\ Out(toClient[t][i].note)
    BY <2>1, MessageIs DEF Out, InFlight, IsNote, Updates
  <2> QED
    BY <1>10, <2>1
<1>12. Alone'
  <2>1. \A t, v \in Sockets : \A q \in inbox'[t], p \in inbox'[v] : q.id = p.id => t = v /\ q = p
    BY <1>4 DEF Alone
  <2>2. \A t \in Sockets : \A q \in inbox'[t] : q.id # r.id
    BY <1>4 DEF Alone
  <2>3. \A t, v \in Sockets : \A q \in inbox'[t], z \in serving'[v] : q.id # z.owner
    BY <1>3, <1>4, <2>2 DEF Alone
  <2>4. \A t, v \in Sockets : \A y \in serving'[t], z \in serving'[v] : y.owner = z.owner => t = v /\ y = z
    BY <1>3, <1>4 DEF Alone
  <2>5. \A t, v \in Sockets, i \in Nat : \A z \in serving'[v] :
          IsNote(t, i) /\ toClient[t][i].note.owner = z.owner => t = v
    BY <1>3, <1>4, <1>11 DEF Alone
  <2> QED
    BY <1>1, <1>5, <2>1, <2>3, <2>4, <2>5 DEF Alone
<1>13. Counted'
  BY <1>3, <1>4, <1>5, <1>10 DEF Counted
<1>14. Ordered' /\ Latest'
  BY <1>1, <1>5 DEF Ordered, Latest, AwaitedBy, RegisteredAs, tableVars, userVars
<1> QED
  BY <1>6, <1>7, <1>8, <1>9, <1>12, <1>13, <1>14, <1>1 DEF Meant

(* It sends a notification: behind all that went before it.                *)
LEMMA NodeNotifiesPromise ==
  ASSUME NEW f, PInv(f), NEW s \in Sockets, NEW x \in serving[s], NodeNotifies(s, x)
  PROVE  PInv(f)'
<1> USE DEF PInv
<1> DEFINE note == [sub |-> x.sub, owner |-> x.owner, n |-> x.sent + 1]
           m == [kind |-> "note", key |-> KeyOf(x.sub, x.sid), note |-> note]
           y == [x EXCEPT !.sent = x.sent + 1]
           last == Len(toClient[s]) + 1
<1>1. /\ serving' = [serving EXCEPT ![s] = (@ \ {x}) \cup {y}] /\ Post(s, m)
      /\ x.sent < MaxNotes
      /\ UNCHANGED << inbox, tableVars, userVars >>
  BY DEF NodeNotifies
<1>2. Known(f, nextId, x.owner, x.sub) /\ x.sid = x.owner /\ x \in Served
  BY DEF Meant, MeantByNode, Typed
<1>3. note \in Notes /\ note.sub = x.sub /\ note.owner = x.owner /\ note.n = x.sent + 1
  BY <1>1, <1>2, RpcBoundsAssumption DEF Notes, Served
<1>4. y \in Served /\ y.sid = x.sid /\ y.sub = x.sub /\ y.owner = x.owner /\ y.sent = x.sent + 1
  BY <1>1, <1>2, RpcBoundsAssumption DEF Served
<1> HIDE DEF note, y
<1>5. /\ m \in Replies \cup Updates /\ m.kind = "note" /\ m.note = note
      /\ m.key = KeyOf(note.sub, note.owner)
  BY <1>2, <1>3 DEF Updates, Keys, KeyOf, Types, Served
<1> HIDE DEF m
<1>6. /\ toClient' \in [Sockets -> Seq(Replies \cup Updates)]
      /\ \A t \in Sockets \ {s} : toClient'[t] = toClient[t]
      /\ Len(toClient'[s]) = last
      /\ toClient'[s][last] = m
      /\ \A i \in 1 .. Len(toClient[s]) : toClient'[s][i] = toClient[s][i]
  BY <1>1, <1>5, Posted
<1>7. \A t \in Sockets : Len(toClient[t]) \in Nat
  BY LenProperties DEF Typed
<1>8. \A t \in Sockets, i \in Nat :
        /\ IsReply(t, i)' <=> IsReply(t, i)
        /\ IsReply(t, i) => toClient'[t][i] = toClient[t][i]
        /\ IsNote(t, i)' => \/ /\ IsNote(t, i) /\ toClient'[t][i] = toClient[t][i]
                               /\ t = s => i < last
                            \/ t = s /\ i = last /\ toClient'[t][i].note = note
  BY <1>5, <1>6, <1>7 DEF IsNote, IsReply
<1>9. \A a : Out(a)' => Out(a) \/ a = note
  BY <1>1, <1>8 DEF Out, InFlight, Queued, Heard, tableVars, userVars
<1>10. \A t \in Sockets : \A z \in serving'[t] : z \in serving[t] \ {x} \/ (t = s /\ z = y)
  BY <1>1 DEF Typed, Alone
<1>11. Typed'
  BY <1>1, <1>4, <1>6 DEF Typed, tableVars, userVars
<1>12. MeantByTables(f)'
  BY <1>1 DEF Meant, MeantByTables, tableVars, userVars
<1>13. MeantByNode(f)'
  <2>1. \A t \in Sockets : \A z \in serving'[t] : Known(f, nextId, z.owner, z.sub) /\ z.sid = z.owner
    BY <1>2, <1>4, <1>10 DEF Meant, MeantByNode
  <2> QED
    BY <1>1, <1>8, <2>1 DEF Meant, MeantByNode, tableVars
<1>14. MeantByNotes(f)'
  <2>1. \A a \in Notes : Out(a)' => Known(f, nextId, a.owner, a.sub)
    BY <1>2, <1>3, <1>9 DEF Meant, MeantByNotes
  <2>2. ASSUME NEW t \in Sockets, NEW i \in Nat, IsNote(t, i)'
        PROVE  LET n == toClient'[t][i] IN n.key = KeyOf(n.note.sub, n.note.owner)
    BY <1>5, <1>6, <1>8, <2>2 DEF Meant, MeantByNotes
  <2> QED
    BY <1>1, <2>1, <2>2 DEF Meant, MeantByNotes, tableVars, userVars
<1>15. Awaited'
  <2>1. \A id : OnItsWay(id)' => OnItsWay(id)
    BY <1>1, <1>4, <1>8, <1>10 DEF OnItsWay
  <2> QED
    BY <1>1, <2>1 DEF Awaited, tableVars
<1>16. Alone'
  <2>1. \A t, v \in Sockets : \A z \in serving'[t], w \in serving'[v] : z.owner = w.owner => t = v /\ z = w
    BY <1>4, <1>10 DEF Alone
  <2>2. \A t, v \in Sockets : \A r \in inbox'[t], z \in serving'[v] : r.id # z.owner
    BY <1>1, <1>4, <1>10 DEF Alone
  <2>3. \A v \in Sockets : \A z \in serving'[v] : z.owner = x.owner => v = s
    BY <1>4, <1>10 DEF Alone
  <2>4. \A t, v \in Sockets, i \in Nat : \A z \in serving'[v] :
          IsNote(t, i)' /\ toClient'[t][i].note.owner = z.owner => t = v
    BY <1>3, <1>4, <1>8, <1>10, <2>3 DEF Alone
  <2>5. \A t \in Sockets, i \in Nat : IsNote(t, i)' /\ toClient'[t][i].note.owner = x.owner => t = s
    BY <1>3, <1>8 DEF Alone
  <2>6. \A t, v \in Sockets, i, j \in Nat :
          IsNote(t, i)' /\ IsNote(v, j)' /\ toClient'[t][i].note.owner = toClient'[v][j].note.owner => t = v
    BY <1>3, <1>8, <2>5 DEF Alone
  <2> QED
    BY <1>1, <2>1, <2>2, <2>4, <2>6 DEF Alone
<1>17. Counted'
  <2>1. ASSUME NEW t \in Sockets, NEW a \in Notes, Out(a)' PROVE \A r \in inbox'[t] : a.owner # r.id
    BY <1>1, <1>3, <1>9, <2>1 DEF Counted, Alone
  <2>2. ASSUME NEW t \in Sockets, NEW a \in Notes, Out(a)', NEW z \in serving'[t], a.owner = z.owner
        PROVE  a.n <= z.sent
    <3>1. CASE z \in serving[t] \ {x}
      <4>1. a # note
        BY <1>3, <2>2, <3>1 DEF Alone
      <4> QED
        BY <1>9, <2>2, <3>1, <4>1 DEF Counted
    <3>2. CASE z = y /\ a = note
      BY <1>2, <1>3, <1>4, <3>2 DEF Served
    <3>3. CASE z = y /\ a # note
      <4>1. a.n <= x.sent
        BY <1>4, <1>9, <2>2, <3>3 DEF Counted
      <4> QED
        BY <1>2, <1>4, <3>3, <4>1, RpcBoundsAssumption DEF Notes, Served
    <3> QED
      BY <1>10, <3>1, <3>2, <3>3
  <2> QED
    BY <2>1, <2>2 DEF Counted
<1>18. \A a \in Notes : Out(a) => Before(a, note)
  BY <1>2, <1>3, RpcBoundsAssumption DEF Counted, Before, Notes, Served
<1>19. Ordered'
  <2>1. ASSUME NEW t \in Sockets, NEW i \in Nat, IsNote(t, i)
        PROVE  toClient[t][i].note \in Notes /\ Out(toClient[t][i].note)
    BY <2>1, MessageIs DEF Out, InFlight, IsNote, Updates
  <2>2. ASSUME NEW t \in Sockets, NEW i \in Nat, NEW j \in Nat, i < j, IsNote(t, i)', IsNote(t, j)'
        PROVE  Before(toClient'[t][i].note, toClient'[t][j].note)
    <3>1. CASE IsNote(t, j) /\ toClient'[t][j] = toClient[t][j] /\ (t = s => j < last)
      <4>1. IsNote(t, i) /\ toClient'[t][i] = toClient[t][i]
        BY <1>7, <1>8, <2>2, <3>1
      <4> QED
        BY <2>2, <3>1, <4>1 DEF Ordered
    <3>2. CASE t = s /\ j = last /\ toClient'[t][j].note = note
      <4>1. IsNote(t, i) /\ toClient'[t][i] = toClient[t][i]
        BY <1>8, <2>2, <3>2
      <4> QED
        BY <1>18, <2>1, <3>2, <4>1
    <3> QED
      BY <1>8, <2>2, <3>1, <3>2
  <2>3. \A k \in DOMAIN waitingForId : Before(waitingForId[k], note)
    BY <1>18 DEF Typed, Out, Queued
  <2>4. \A u \in Subs : heard[u] # NULL => Before(heard[u], note)
    BY <1>18 DEF Typed, Out, Heard
  <2>5. ASSUME NEW t \in Sockets, NEW i \in Nat, IsNote(t, i)'
        PROVE  /\ \A k \in DOMAIN waitingForId : Before(waitingForId[k], toClient'[t][i].note)
               /\ \A u \in Subs : heard[u] # NULL => Before(heard[u], toClient'[t][i].note)
    BY <1>8, <2>3, <2>4, <2>5 DEF Ordered
  <2>6. UNCHANGED << waitingForId, heard >>
    BY <1>1 DEF tableVars, userVars
  <2> QED
    BY <2>2, <2>5, <2>6 DEF Ordered
<1>20. Latest'
  BY <1>1 DEF Latest, AwaitedBy, RegisteredAs, tableVars, userVars
<1> QED
  BY <1>11, <1>12, <1>13, <1>14, <1>15, <1>16, <1>17, <1>19, <1>20, <1>1 DEF Meant
-----------------------------------------------------------------------------
(* Of one connection the first d messages are received, or the last ones   *)
(* are lost.                                                               *)
LEMMA LessTravels ==
  ASSUME NEW f, PInv(f), NEW s \in Sockets, NEW d \in Nat, LeftOf(s, d),
         inbox' \in [Sockets -> SUBSET Requests], serving' \in [Sockets -> SUBSET Served],
         \A t \in Sockets : inbox'[t] \subseteq inbox[t] /\ serving'[t] \subseteq serving[t],
         UNCHANGED nextId
  PROVE  /\ \A t \in Sockets, i \in Nat : IsNote(t, i)' =>
              \E j \in Nat : IsNote(t, j) /\ toClient[t][j] = toClient'[t][i] /\ (t = s => d < j)
         /\ \A a : InFlight(a)' => InFlight(a)
         /\ \A id : OnItsWay(id)' => OnItsWay(id)
         /\ MeantByNode(f)' /\ Alone'
         /\ \A t \in Sockets, i, j \in Nat : i < j /\ IsNote(t, i)' /\ IsNote(t, j)' =>
              Before(toClient'[t][i].note, toClient'[t][j].note)
         /\ \A t \in Sockets, i \in Nat : IsNote(t, i)' =>
              LET m == toClient'[t][i] IN m.key = KeyOf(m.note.sub, m.note.owner)
<1> USE DEF PInv
<1> DEFINE off(t) == IF t = s THEN d ELSE 0
<1>1. \A t \in Sockets : Len(toClient[t]) \in Nat /\ Len(toClient'[t]) \in Nat
  BY LenProperties DEF Typed, LeftOf
<1>2. \A t \in Sockets, i \in Nat :
        /\ i + off(t) \in Nat
        /\ IsNote(t, i)' => IsNote(t, i + off(t)) /\ toClient'[t][i] = toClient[t][i + off(t)] /\ off(t) < i + off(t)
        /\ IsReply(t, i)' => IsReply(t, i + off(t)) /\ toClient'[t][i] = toClient[t][i + off(t)]
  BY <1>1 DEF LeftOf, IsNote, IsReply
<1>3. \A t \in Sockets : off(t) \in Nat /\ (t = s => off(t) = d)
  OBVIOUS
<1> HIDE DEF off
<1>4. \A t \in Sockets, i \in Nat :
        /\ IsNote(t, i)' =>
             \E j \in Nat : IsNote(t, j) /\ toClient[t][j] = toClient'[t][i] /\ (t = s => d < j)
        /\ IsReply(t, i)' => \E j \in Nat : IsReply(t, j) /\ toClient[t][j] = toClient'[t][i]
  BY <1>2, <1>3
<1>5. /\ \A a : InFlight(a)' => InFlight(a)
      /\ \A id : OnItsWay(id)' => OnItsWay(id)
  BY <1>4 DEF InFlight, OnItsWay
<1>6. MeantByNode(f)'
  <2>1. ASSUME NEW t \in Sockets, NEW i \in Nat, IsReply(t, i)'
        PROVE  LET m == toClient'[t][i]
               IN  Known(f, nextId, m.id, f[m.id]) /\ (m.ok /\ f[m.id] # NULL => m.sid = m.id)
    <3>1. PICK j \in Nat : IsReply(t, j) /\ toClient[t][j] = toClient'[t][i]
      BY <1>4, <2>1
    <3> QED
      BY <3>1 DEF Meant, MeantByNode
  <2>2. /\ \A t \in Sockets : \A r \in inbox'[t] :
             Known(f, nextId, r.id, r.sub) /\ (r.kind = "subscribe" <=> r.sub # NULL)
        /\ \A t \in Sockets : \A x \in serving'[t] : Known(f, nextId, x.owner, x.sub) /\ x.sid = x.owner
    BY DEF Meant, MeantByNode
  <2> QED
    BY <2>1, <2>2 DEF MeantByNode
<1>7. Alone'
  <2>1. ASSUME NEW t \in Sockets, NEW v \in Sockets, NEW i \in Nat, IsNote(t, i)'
        PROVE  /\ \A x \in serving'[v] : toClient'[t][i].note.owner = x.owner => t = v
               /\ \A j \in Nat : IsNote(v, j)' /\ toClient'[t][i].note.owner = toClient'[v][j].note.owner
                    => t = v
    <3>1. PICK k \in Nat : IsNote(t, k) /\ toClient[t][k] = toClient'[t][i]
      BY <1>4, <2>1
    <3> QED
      BY <1>4, <3>1 DEF Alone
  <2>2. \A t, v \in Sockets :
          /\ \A r \in inbox'[t], q \in inbox'[v] : r.id = q.id => t = v /\ r = q
          /\ \A x \in serving'[t], y \in serving'[v] : x.owner = y.owner => t = v /\ x = y
          /\ \A r \in inbox'[t], x \in serving'[v] : r.id # x.owner
    BY DEF Alone
  <2> QED
    BY <2>1, <2>2 DEF Alone
<1>8. ASSUME NEW t \in Sockets, NEW i \in Nat, NEW j \in Nat, i < j, IsNote(t, i)', IsNote(t, j)'
      PROVE  Before(toClient'[t][i].note, toClient'[t][j].note)
  <2>1. i + off(t) < j + off(t) /\ i + off(t) \in Nat /\ j + off(t) \in Nat
    BY <1>3, <1>8
  <2> QED
    BY <1>2, <1>8, <2>1 DEF Ordered
<1>9. ASSUME NEW t \in Sockets, NEW i \in Nat, IsNote(t, i)'
      PROVE  LET m == toClient'[t][i] IN m.key = KeyOf(m.note.sub, m.note.owner)
  BY <1>2, <1>9 DEF Meant, MeantByNotes
<1> QED
  BY <1>4, <1>5, <1>6, <1>7, <1>8, <1>9

LEMMA PeerLeavesPromise ==
  ASSUME NEW f, PInv(f), NEW s \in Sockets, PeerLeaves(s) PROVE PInv(f)'
<1> USE DEF PInv
<1>1. /\ inbox' = [inbox EXCEPT ![s] = {}] /\ serving' = [serving EXCEPT ![s] = {}]
      /\ UNCHANGED << tableVars, userVars >>
      /\ \E arrived \in Prefixes(toClient[s]) : toClient' = [toClient EXCEPT ![s] = arrived]
  BY DEF PeerLeaves
<1>2. LeftOf(s, 0)
  BY <1>1, Lost
<1>3. /\ inbox' \in [Sockets -> SUBSET Requests] /\ serving' \in [Sockets -> SUBSET Served]
      /\ \A t \in Sockets : inbox'[t] \subseteq inbox[t] /\ serving'[t] \subseteq serving[t]
      /\ nextId' = nextId
  BY <1>1 DEF Typed, tableVars
<1>4. /\ \A t \in Sockets, i \in Nat : IsNote(t, i)' =>
           \E j \in Nat : IsNote(t, j) /\ toClient[t][j] = toClient'[t][i]
      /\ \A a : InFlight(a)' => InFlight(a)
      /\ \A id : OnItsWay(id)' => OnItsWay(id)
      /\ MeantByNode(f)' /\ Alone'
      /\ \A t \in Sockets, i, j \in Nat : i < j /\ IsNote(t, i)' /\ IsNote(t, j)' =>
           Before(toClient'[t][i].note, toClient'[t][j].note)
      /\ \A t \in Sockets, i \in Nat : IsNote(t, i)' =>
           LET m == toClient'[t][i] IN m.key = KeyOf(m.note.sub, m.note.owner)
  BY <1>2, <1>3, LessTravels
<1>5. \A a : Out(a)' => Out(a)
  BY <1>1, <1>4 DEF Out, Queued, Heard, tableVars, userVars
<1>6. Typed'
  BY <1>1, <1>2, <1>3 DEF Typed, LeftOf, tableVars, userVars
<1>7. MeantByTables(f)' /\ MeantByNotes(f)'
  BY <1>1, <1>4, <1>5 DEF Meant, MeantByTables, MeantByNotes, tableVars, userVars
<1>8. Awaited' /\ Latest'
  BY <1>1, <1>4 DEF Awaited, Latest, AwaitedBy, RegisteredAs, tableVars, userVars
<1>9. Counted'
  BY <1>3, <1>5 DEF Counted
<1>10. Ordered'
  <2>1. ASSUME NEW t \in Sockets, NEW i \in Nat, IsNote(t, i)'
        PROVE  /\ \A k \in DOMAIN waitingForId : Before(waitingForId[k], toClient'[t][i].note)
               /\ \A u \in Subs : heard[u] # NULL => Before(heard[u], toClient'[t][i].note)
    <3>1. PICK j \in Nat : IsNote(t, j) /\ toClient[t][j] = toClient'[t][i]
      BY <1>4, <2>1
    <3> QED
      BY <3>1 DEF Ordered
  <2> QED
    BY <1>1, <1>4, <2>1 DEF Ordered, tableVars, userVars
<1> QED
  BY <1>4, <1>6, <1>7, <1>8, <1>9, <1>10, <1>1 DEF Meant
-----------------------------------------------------------------------------
(* The key that a queued or registered thing is under tells its id.        *)
LEMMA KeyTells ==
  ASSUME NEW u, NEW v, NEW i, NEW j, KeyOf(u, i) = KeyOf(v, j) PROVE i = j /\ KeyOf(u, i)[2] = i
BY DEF KeyOf

LEMMA QueuedUnderOwnKey ==
  ASSUME NEW f, PInv(f), NEW k \in DOMAIN waitingForId, NEW a \in Notes,
         Known(f, nextId, a.owner, a.sub), a.owner = waitingForId[k].owner
  PROVE  a.sub = waitingForId[k].sub /\ k = KeyOf(a.sub, a.owner)
<1>1. waitingForId[k] \in Notes /\ Out(waitingForId[k])
  BY DEF PInv, Typed, Out, Queued
<1>2. Known(f, nextId, waitingForId[k].owner, waitingForId[k].sub)
  BY <1>1, SMTT(30) DEF PInv, Meant, MeantByNotes
<1> QED
  BY <1>2 DEF Known, PInv, Meant, MeantByNotes

(* A notification for a subscription that is registered is of it, and news.*)
LEMMA NoteIsNews ==
  ASSUME NEW f, PInv(f), NEW s \in Sockets, IsNote(s, 1),
         toClient[s][1].key \in DOMAIN subscriptions
  PROVE  LET m == toClient[s][1]
             u == subscriptions[m.key]
         IN  /\ u \in Subs /\ m.note \in Notes /\ m.note.sub = u
             /\ m.key[2] = m.note.owner
             /\ heard[u] # NULL => Promise!Newer(m.note, heard[u])
<1> USE DEF PInv
<1> DEFINE m == toClient[s][1]
           u == subscriptions[m.key]
<1>1. m.note \in Notes /\ Out(m.note) /\ m.key = KeyOf(m.note.sub, m.note.owner)
  BY MessageIs DEF IsNote, Updates, Out, InFlight, Meant, MeantByNotes
<1>2. PICK id \in Ids : Known(f, nextId, id, u) /\ u \in Subs /\ m.key = KeyOf(u, id)
  BY DEF Meant, MeantByTables
<1>3. id = m.note.owner /\ m.key[2] = m.note.owner
  BY <1>1, <1>2, KeyTells
<1>4. m.note.sub = u
  BY <1>1, <1>2, <1>3 DEF Meant, MeantByNotes, Known
<1>5. ASSUME heard[u] # NULL PROVE Promise!Newer(m.note, heard[u])
  <2>1. m.key \in RegisteredAs(u)
    BY DEF RegisteredAs
  <2>2. heard[u].owner <= m.note.owner
    BY <1>2, <1>3, <1>5, <2>1 DEF Latest
  <2>3. heard[u].owner = m.note.owner => heard[u].n < m.note.n
    BY <1>2, <1>5 DEF Ordered, Before
  <2>4. heard[u] \in Notes
    BY <1>2, <1>5 DEF Typed
  <2> QED
    BY <1>1, <2>2, <2>3, <2>4 DEF Promise!Newer, Notes, Ids
<1> HIDE DEF m, u
<1> QED
  BY <1>1, <1>2, <1>3, <1>4, <1>5, ZenonT(60) DEF m, u

(* A confirmed subscription hears what was queued for it.                  *)
LEMMA QueuedIsNews ==
  ASSUME NEW f, PInv(f), NEW id \in DOMAIN handlers, NEW u \in Subs, handlers[id].sub = u,
         KeyOf(u, id) \in DOMAIN waitingForId
  PROVE  LET w == waitingForId[KeyOf(u, id)]
         IN  /\ w \in Notes /\ w.sub = u /\ w.owner = id
             /\ heard[u] # NULL => Promise!Newer(w, heard[u])
<1> USE DEF PInv
<1> DEFINE w == waitingForId[KeyOf(u, id)]
<1>1. w \in Notes /\ Out(w)
  BY DEF Typed, Out, Queued
<1>2. KeyOf(u, id) = KeyOf(w.sub, w.owner)
  BY DEF Meant, MeantByNotes
<1>3. w.owner = id
  BY <1>2, KeyTells
<1>4. w.sub = u
  BY <1>1, <1>3 DEF Meant, MeantByTables, MeantByNotes, Known
<1>5. ASSUME heard[u] # NULL PROVE heard[u].owner < id
  BY <1>5 DEF Latest, AwaitedBy
<1> HIDE DEF w
<1> QED
  BY <1>1, <1>3, <1>4, <1>5 DEF Promise!Newer, w

LEMMA ReceiveNotePromise ==
  ASSUME Inv, NEW f, PInv(f), NEW s \in Sockets, ReceiveNote(s) PROVE PInv(f)'
<1> USE DEF PInv
<1> DEFINE m == toClient[s][1]
           a == m.note
<1>1. /\ LeftOf(s, 1) /\ Head(toClient[s]) = m /\ IsNote(s, 1)
      /\ UNCHANGED << nextId, handlers, future, subscriptions, asked, knownId, inbox, serving >>
  BY Received DEF ReceiveNote, IsNote
<1>2. IF m.key \in DOMAIN subscriptions
        THEN /\ waitingForId' = Drop(waitingForId, m.key)
             /\ heard' = [heard EXCEPT ![subscriptions[m.key]] = a]
        ELSE /\ waitingForId' = Put(waitingForId, m.key, a)
             /\ UNCHANGED heard
  BY <1>1 DEF ReceiveNote, Deliver
<1>3. /\ \A t \in Sockets, i \in Nat : IsNote(t, i)' =>
           \E j \in Nat : IsNote(t, j) /\ toClient[t][j] = toClient'[t][i] /\ (t = s => 1 < j)
      /\ \A b : InFlight(b)' => InFlight(b)
      /\ \A id : OnItsWay(id)' => OnItsWay(id)
      /\ MeantByNode(f)' /\ Alone'
      /\ \A t \in Sockets, i, j \in Nat : i < j /\ IsNote(t, i)' /\ IsNote(t, j)' =>
           Before(toClient'[t][i].note, toClient'[t][j].note)
      /\ \A t \in Sockets, i \in Nat : IsNote(t, i)' =>
           LET n == toClient'[t][i] IN n.key = KeyOf(n.note.sub, n.note.owner)
  <2>1. /\ inbox' \in [Sockets -> SUBSET Requests] /\ serving' \in [Sockets -> SUBSET Served]
        /\ \A t \in Sockets : inbox'[t] \subseteq inbox[t] /\ serving'[t] \subseteq serving[t]
    BY <1>1 DEF Typed
  <2> QED
    BY <1>1, <2>1, LessTravels
<1>4. /\ a \in Notes /\ Out(a) /\ Known(f, nextId, a.owner, a.sub)
      /\ m.key = KeyOf(a.sub, a.owner)
  BY <1>1, MessageIs DEF IsNote, Updates, Out, InFlight, Meant, MeantByNotes
<1>5. ASSUME NEW t \in Sockets, NEW i \in Nat, IsNote(t, i)'
      PROVE  /\ Before(a, toClient'[t][i].note)
             /\ \A k \in DOMAIN waitingForId : Before(waitingForId[k], toClient'[t][i].note)
             /\ \A u \in Subs : heard[u] # NULL => Before(heard[u], toClient'[t][i].note)
  <2>1. PICK j \in Nat : IsNote(t, j) /\ toClient[t][j] = toClient'[t][i] /\ (t = s => 1 < j)
    BY <1>3, <1>5
  <2>2. t = s => Before(a, toClient[t][j].note)
    BY <1>1, <2>1 DEF Ordered
  <2>3. t # s => Before(a, toClient[t][j].note)
    BY <1>1, <2>1 DEF Alone, Before
  <2> QED
    BY <2>1, <2>2, <2>3 DEF Ordered
<1> HIDE DEF a, m
<1>6. CASE m.key \in DOMAIN subscriptions
  <2> DEFINE u == subscriptions[m.key]
  <2>1. /\ u \in Subs /\ a.sub = u /\ m.key[2] = a.owner
    BY <1>1, <1>6, NoteIsNews DEF m, a
  <2>2. /\ heard'[u] = a /\ heard' \in [Subs -> Notes \cup {NULL}]
        /\ \A v \in Subs \ {u} : heard'[v] = heard[v]
    BY <1>2, <1>4, <1>6, <2>1 DEF Typed
  <2>3. /\ DOMAIN waitingForId' = DOMAIN waitingForId \ {m.key}
        /\ \A k \in DOMAIN waitingForId' : waitingForId'[k] = waitingForId[k]
    BY <1>2, <1>6 DEF Drop, Restrict
  <2>4. m.key \in RegisteredAs(u)
    BY <1>6 DEF RegisteredAs
  <2> HIDE DEF u
  <2>5. \A b : Out(b)' => Out(b)
    BY <1>3, <1>4, <2>1, <2>2, <2>3 DEF Out, Queued, Heard
  <2>6. Typed'
    BY <1>1, <2>2, <2>3 DEF Typed, LeftOf
  <2>7. MeantByTables(f)' /\ MeantByNotes(f)'
    <3>1. MeantByTables(f)'
      BY <1>1 DEF Meant, MeantByTables
    <3>2. \A b \in Notes : Out(b)' => Known(f, nextId', b.owner, b.sub)
      BY <1>1, <2>5 DEF Meant, MeantByNotes
    <3>3. \A v \in Subs : heard'[v] # NULL => heard'[v].sub = v
      BY <2>1, <2>2 DEF Meant, MeantByNotes
    <3>4. \A k \in DOMAIN waitingForId' : k = KeyOf(waitingForId'[k].sub, waitingForId'[k].owner)
      BY <2>3 DEF Meant, MeantByNotes
    <3> QED
      BY <1>3, <3>1, <3>2, <3>3, <3>4 DEF MeantByNotes
  <2>8. Awaited' /\ Counted'
    BY <1>1, <1>3, <2>5 DEF Awaited, Counted
  <2>9. Ordered'
    <3>1. ASSUME NEW k \in DOMAIN waitingForId', NEW v \in Subs, heard'[v] # NULL
          PROVE  Before(heard'[v], waitingForId'[k])
      <4>1. CASE v # u
        BY <2>2, <2>3, <3>1, <4>1 DEF Ordered
      <4>2. CASE v = u
        <5>1. a.owner # waitingForId[k].owner
          BY <1>4, <2>3, QueuedUnderOwnKey
        <5> QED
          BY <2>2, <2>3, <4>2, <5>1 DEF Before
      <4> QED
        BY <4>1, <4>2
    <3>2. ASSUME NEW t \in Sockets, NEW i \in Nat, IsNote(t, i)'
          PROVE  /\ \A k \in DOMAIN waitingForId' : Before(waitingForId'[k], toClient'[t][i].note)
                 /\ \A v \in Subs : heard'[v] # NULL => Before(heard'[v], toClient'[t][i].note)
      BY <1>5, <2>2, <2>3, <3>2
    <3> QED
      BY <1>3, <3>1, <3>2 DEF Ordered
  <2>10. Latest'
    <3>1. AwaitedBy(u) = {} /\ RegisteredAs(u) = {m.key}
      BY <2>1, <2>4 DEF Inv, OnePlace
    <3>2. \A v : AwaitedBy(v)' = AwaitedBy(v) /\ RegisteredAs(v)' = RegisteredAs(v)
      BY <1>1 DEF AwaitedBy, RegisteredAs
    <3>3. a.owner <= a.owner
      BY <1>4 DEF Notes, Ids
    <3> QED
      BY <2>1, <2>2, <3>1, <3>2, <3>3 DEF Latest
  <2> QED
    BY <1>3, <2>6, <2>7, <2>8, <2>9, <2>10 DEF Meant
<1>7. CASE m.key \notin DOMAIN subscriptions
  <2>1. /\ DOMAIN waitingForId' = DOMAIN waitingForId \cup {m.key}
        /\ waitingForId'[m.key] = a
        /\ \A k \in DOMAIN waitingForId \ {m.key} : waitingForId'[k] = waitingForId[k]
        /\ heard' = heard
    BY <1>2, <1>7 DEF Put
  <2>2. \A b : Out(b)' => Out(b)
    BY <1>3, <1>4, <2>1 DEF Out, Queued, Heard
  <2>3. Typed'
    BY <1>1, <1>4, <2>1 DEF Typed, LeftOf
  <2>4. MeantByTables(f)' /\ MeantByNotes(f)'
    <3>1. MeantByTables(f)'
      BY <1>1 DEF Meant, MeantByTables
    <3>2. \A b \in Notes : Out(b)' => Known(f, nextId', b.owner, b.sub)
      BY <1>1, <2>2 DEF Meant, MeantByNotes
    <3>3. \A k \in DOMAIN waitingForId' : k = KeyOf(waitingForId'[k].sub, waitingForId'[k].owner)
      BY <1>4, <2>1 DEF Meant, MeantByNotes
    <3> QED
      BY <1>3, <2>1, <3>1, <3>2, <3>3 DEF Meant, MeantByNotes
  <2>5. Awaited' /\ Counted'
    BY <1>1, <1>3, <2>2 DEF Awaited, Counted
  <2>6. Ordered'
    <3>1. ASSUME NEW u \in Subs, heard[u] # NULL PROVE Before(heard[u], a)
      BY <1>1, <3>1 DEF Ordered, a, m
    <3>2. ASSUME NEW t \in Sockets, NEW i \in Nat, IsNote(t, i)'
          PROVE  \A k \in DOMAIN waitingForId' : Before(waitingForId'[k], toClient'[t][i].note)
      BY <1>5, <2>1, <3>2
    <3> QED
      BY <1>3, <1>5, <2>1, <3>1, <3>2 DEF Ordered
  <2>7. Latest'
    BY <1>1, <2>1 DEF Latest, AwaitedBy, RegisteredAs
  <2> QED
    BY <1>3, <2>3, <2>4, <2>5, <2>6, <2>7 DEF Meant
<1> QED
  BY <1>6, <1>7

(* An answer settles one request and confirms at most one subscription.    *)
LEMMA SettlePromise ==
  ASSUME Inv, NEW f, PInv(f), NEW s \in Sockets, NEW m, IsReply(s, 1), m = toClient[s][1],
         LeftOf(s, 1), m.id \in DOMAIN handlers, Settle(m),
         UNCHANGED << nextId, asked, inbox, serving >>
  PROVE  PInv(f)'
<1> USE DEF PInv
<1> DEFINE u == handlers[m.id].sub
           k == KeyOf(u, m.id)
           starts == m.ok /\ u # NULL
<1>1. Known(f, nextId, m.id, u) /\ (starts => m.sid = m.id /\ u \in Subs)
  <2>1. Known(f, nextId, m.id, u)
    BY DEF Meant, MeantByTables
  <2>2. m.ok /\ f[m.id] # NULL => m.sid = m.id
    BY DEF Meant, MeantByNode, IsReply
  <2> QED
    BY <2>1, <2>2 DEF Known, Meant
<1>2. /\ handlers' = Drop(handlers, m.id)
      /\ future' = [future EXCEPT ![m.id] = Outcome(m)]
      /\ IF starts
           THEN /\ subscriptions' = Put(subscriptions, k, u)
                /\ knownId' = IF handlers[m.id].resub THEN knownId ELSE [knownId EXCEPT ![u] = m.id]
           ELSE UNCHANGED << subscriptions, knownId >>
      /\ IF starts /\ k \in DOMAIN waitingForId
           THEN /\ waitingForId' = Drop(waitingForId, k)
                /\ heard' = [heard EXCEPT ![u] = waitingForId[k]]
           ELSE UNCHANGED << waitingForId, heard >>
  BY <1>1 DEF Settle, Deliver, Waiting
<1>3. /\ \A t \in Sockets, i \in Nat : IsNote(t, i)' =>
           \E j \in Nat : IsNote(t, j) /\ toClient[t][j] = toClient'[t][i]
      /\ \A b : InFlight(b)' => InFlight(b)
      /\ \A id : OnItsWay(id)' => OnItsWay(id)
      /\ MeantByNode(f)' /\ Alone'
      /\ \A t \in Sockets, i, j \in Nat : i < j /\ IsNote(t, i)' /\ IsNote(t, j)' =>
           Before(toClient'[t][i].note, toClient'[t][j].note)
      /\ \A t \in Sockets, i \in Nat : IsNote(t, i)' =>
           LET n == toClient'[t][i] IN n.key = KeyOf(n.note.sub, n.note.owner)
  <2>1. /\ inbox' \in [Sockets -> SUBSET Requests] /\ serving' \in [Sockets -> SUBSET Served]
        /\ \A t \in Sockets : inbox'[t] \subseteq inbox[t] /\ serving'[t] \subseteq serving[t]
    BY DEF Typed
  <2> QED
    BY <2>1, LessTravels
<1>4. /\ DOMAIN handlers' = DOMAIN handlers \ {m.id}
      /\ \A id \in DOMAIN handlers' : handlers'[id] = handlers[id]
      /\ \A v : AwaitedBy(v)' = AwaitedBy(v) \ {m.id}
  BY <1>2 DEF Drop, Restrict, AwaitedBy
<1>5. /\ DOMAIN waitingForId' \subseteq DOMAIN waitingForId
      /\ \A l \in DOMAIN waitingForId' : waitingForId'[l] = waitingForId[l]
  BY <1>2 DEF Drop, Restrict
<1>6. \/ UNCHANGED heard
      \/ /\ starts /\ k \in DOMAIN waitingForId /\ k \notin DOMAIN waitingForId'
         /\ waitingForId[k] \in Notes /\ waitingForId[k].sub = u /\ waitingForId[k].owner = m.id
         /\ heard' \in [Subs -> Notes \cup {NULL}]
         /\ heard'[u] = waitingForId[k]
         /\ \A v \in Subs \ {u} : heard'[v] = heard[v]
  <2>1. CASE starts /\ k \in DOMAIN waitingForId
    <3>1. /\ waitingForId[k] \in Notes /\ waitingForId[k].sub = u /\ waitingForId[k].owner = m.id
      BY <1>1, <2>1, QueuedIsNews
    <3>2. k \notin DOMAIN waitingForId'
      BY <1>2, <2>1 DEF Drop, Restrict
    <3>3. u \in Subs /\ heard' = [heard EXCEPT ![u] = waitingForId[k]]
      BY <1>1, <1>2, <2>1
    <3> HIDE DEF k, u, starts
    <3>4. /\ heard' \in [Subs -> Notes \cup {NULL}]
          /\ heard'[u] = waitingForId[k]
          /\ \A v \in Subs \ {u} : heard'[v] = heard[v]
      BY <3>1, <3>3 DEF Typed
    <3> QED
      BY <2>1, <3>1, <3>2, <3>4
  <2> QED
    BY <1>2, <2>1
<1>7. \A b : Out(b)' => Out(b)
  <2>1. \A b : Queued(b)' => Queued(b)
    BY <1>5 DEF Queued
  <2>2. \A b : Heard(b)' => Heard(b) \/ Queued(b)
    BY <1>1, <1>6 DEF Heard, Queued
  <2> QED
    BY <1>3, <2>1, <2>2 DEF Out
<1>8. Typed'
  <2>1. knownId' \in [Subs -> 0 .. MaxId]
    BY <1>1, <1>2, RpcBoundsAssumption, SMTT(30) DEF Typed, Known, Ids
  <2>2. heard' \in [Subs -> Notes \cup {NULL}]
    BY <1>6 DEF Typed
  <2> QED
    BY <1>5, <2>1, <2>2 DEF Typed, LeftOf
<1>9. MeantByTables(f)'
  <2>1. \A id \in DOMAIN handlers' : Known(f, nextId', id, handlers'[id].sub)
    BY <1>4 DEF Meant, MeantByTables
  <2>2. \A v \in Subs : knownId'[v] # 0 => Known(f, nextId', knownId'[v], v)
    BY <1>1, <1>2 DEF Meant, MeantByTables, Typed
  <2>3. ASSUME NEW l \in DOMAIN subscriptions'
        PROVE  \E id \in Ids : /\ Known(f, nextId', id, subscriptions'[l]) /\ subscriptions'[l] \in Subs
                               /\ l = KeyOf(subscriptions'[l], id)
                               /\ id \notin DOMAIN handlers'
    <3>1. CASE starts /\ l = k
      <4>1. subscriptions'[l] = u
        BY <1>2, <3>1 DEF Put
      <4> QED
        BY <1>1, <1>4, <3>1, <4>1 DEF Known
    <3>2. CASE ~(starts /\ l = k)
      <4>1. l \in DOMAIN subscriptions /\ subscriptions'[l] = subscriptions[l]
        BY <1>2, <2>3, <3>2 DEF Put
      <4> QED
        BY <1>4, <4>1 DEF Meant, MeantByTables
    <3> QED
      BY <3>1, <3>2
  <2> QED
    BY <2>1, <2>2, <2>3 DEF MeantByTables
<1>10. MeantByNotes(f)'
  <2>1. \A b \in Notes : Out(b)' => Known(f, nextId', b.owner, b.sub)
    BY <1>7 DEF Meant, MeantByNotes
  <2>2. \A v \in Subs : heard'[v] # NULL => heard'[v].sub = v
    BY <1>6 DEF Meant, MeantByNotes
  <2>3. \A l \in DOMAIN waitingForId' : l = KeyOf(waitingForId'[l].sub, waitingForId'[l].owner)
    BY <1>5 DEF Meant, MeantByNotes
  <2> QED
    BY <1>3, <2>1, <2>2, <2>3 DEF MeantByNotes
<1>11. Awaited' /\ Counted'
  <2>1. \A id \in DOMAIN handlers' : future'[id] = future[id]
    BY <1>2, <1>4
  <2> QED
    BY <1>3, <1>4, <1>7, <2>1 DEF Awaited, Counted
<1>12. Ordered'
  <2>1. ASSUME NEW t \in Sockets, NEW i \in Nat, IsNote(t, i)'
        PROVE  /\ \A l \in DOMAIN waitingForId' : Before(waitingForId'[l], toClient'[t][i].note)
               /\ \A v \in Subs : heard'[v] # NULL => Before(heard'[v], toClient'[t][i].note)
    <3>1. PICK j \in Nat : IsNote(t, j) /\ toClient[t][j] = toClient'[t][i]
      BY <1>3, <2>1
    <3>2. \A l \in DOMAIN waitingForId : Before(waitingForId[l], toClient'[t][i].note)
      BY <3>1 DEF Ordered
    <3>3. \A v \in Subs : heard[v] # NULL => Before(heard[v], toClient'[t][i].note)
      BY <3>1 DEF Ordered
    <3> HIDE DEF k, u, starts
    <3>4. \A v \in Subs : heard'[v] # NULL => Before(heard'[v], toClient'[t][i].note)
      BY <1>6, <3>2, <3>3
    <3> QED
      BY <1>5, <3>2, <3>4
  <2>2. ASSUME NEW l \in DOMAIN waitingForId', NEW v \in Subs, heard'[v] # NULL
        PROVE  Before(heard'[v], waitingForId'[l])
    <3>1. CASE heard'[v] = heard[v]
      BY <1>5, <2>2, <3>1 DEF Ordered
    <3>2. CASE heard'[v] # heard[v]
      <4>1. heard'[v] = waitingForId[k] /\ l # k /\ waitingForId[k] \in Notes
            /\ waitingForId[k].sub = u /\ waitingForId[k].owner = m.id
        BY <1>6, <2>2, <3>2
      <4>2. waitingForId[l].owner # m.id
        BY <1>1, <1>5, <2>2, <4>1, QueuedUnderOwnKey
      <4> QED
        BY <1>5, <2>2, <4>1, <4>2 DEF Before
    <3> QED
      BY <3>1, <3>2
  <2> QED
    BY <1>3, <2>1, <2>2 DEF Ordered
<1>13. Latest'
  <2>1. ASSUME NEW v \in Subs, heard'[v] # NULL, starts, v = u
        PROVE  /\ \A id \in AwaitedBy(v)' : heard'[v].owner < id
               /\ \A l \in RegisteredAs(v)' : heard'[v].owner <= l[2]
    <3>1. m.id \in AwaitedBy(u) /\ OnePlace(u)
      BY <1>1, <2>1 DEF AwaitedBy, Inv
    <3>2. AwaitedBy(v)' = {} /\ RegisteredAs(u) = {}
      BY <1>4, <2>1, <3>1 DEF OnePlace
    <3>3. \A l \in RegisteredAs(v)' : l = k
      BY <1>2, <2>1, <3>2 DEF RegisteredAs, Put
    <3>4. k[2] = m.id
      BY DEF KeyOf
    <3>5. heard'[v].owner <= m.id
      <4>1. heard'[v] = heard[v] => heard[v] \in Notes /\ heard[v].owner < m.id
        BY <2>1, <3>1 DEF Latest, Typed
      <4>2. heard'[v] # heard[v] => heard'[v].owner = m.id
        BY <1>6, <2>1
      <4> QED
        BY <1>1, <4>1, <4>2 DEF Known, Ids, Notes
    <3> QED
      BY <3>2, <3>3, <3>4, <3>5
  <2>2. ASSUME NEW v \in Subs, heard'[v] # NULL, ~(starts /\ v = u)
        PROVE  /\ \A id \in AwaitedBy(v)' : heard'[v].owner < id
               /\ \A l \in RegisteredAs(v)' : heard'[v].owner <= l[2]
    <3>1. heard'[v] = heard[v]
      BY <1>6, <2>2
    <3>2. RegisteredAs(v)' \subseteq RegisteredAs(v)
      BY <1>2, <2>2 DEF RegisteredAs, Put
    <3> QED
      BY <1>4, <2>2, <3>1, <3>2 DEF Latest
  <2> QED
    BY <2>1, <2>2 DEF Latest
<1> QED
  BY <1>3, <1>8, <1>9, <1>10, <1>11, <1>12, <1>13 DEF Meant

LEMMA ReceiveReplyPromise ==
  ASSUME Inv, NEW f, PInv(f), NEW s \in Sockets, ReceiveReply(s) PROVE PInv(f)'
<1> DEFINE m == toClient[s][1]
<1>1. /\ LeftOf(s, 1) /\ Head(toClient[s]) = m /\ IsReply(s, 1)
      /\ UNCHANGED << nextId, asked, inbox, serving >>
  BY Received DEF PInv, ReceiveReply, IsReply
<1>2. CASE m.id \in DOMAIN handlers
  <2>1. Settle(m)
    BY <1>1, <1>2 DEF ReceiveReply
  <2> HIDE DEF m
  <2> QED
    BY <1>1, <1>2, <2>1, SettlePromise DEF m
<1>3. CASE m.id \notin DOMAIN handlers
  <2>1. UNCHANGED << handlers, future, subscriptions, waitingForId, knownId, heard >>
    BY <1>1, <1>3 DEF ReceiveReply
  <2>2. /\ inbox' \in [Sockets -> SUBSET Requests] /\ serving' \in [Sockets -> SUBSET Served]
        /\ \A t \in Sockets : inbox'[t] \subseteq inbox[t] /\ serving'[t] \subseteq serving[t]
    BY <1>1 DEF PInv, Typed
  <2>3. /\ \A t \in Sockets, i \in Nat : IsNote(t, i)' =>
             \E j \in Nat : IsNote(t, j) /\ toClient[t][j] = toClient'[t][i]
        /\ \A b : InFlight(b)' => InFlight(b)
        /\ \A id : OnItsWay(id)' => OnItsWay(id)
        /\ MeantByNode(f)' /\ Alone'
        /\ \A t \in Sockets, i, j \in Nat : i < j /\ IsNote(t, i)' /\ IsNote(t, j)' =>
             Before(toClient'[t][i].note, toClient'[t][j].note)
        /\ \A t \in Sockets, i \in Nat : IsNote(t, i)' =>
             LET n == toClient'[t][i] IN n.key = KeyOf(n.note.sub, n.note.owner)
    BY <1>1, <2>2, LessTravels
  <2> HIDE DEF m
  <2>4. \A b : Out(b)' => Out(b)
    BY <2>1, <2>3 DEF Out, Queued, Heard
  <2>5. Typed'
    BY <1>1, <2>1, <2>2 DEF PInv, Typed, LeftOf
  <2>6. MeantByTables(f)' /\ MeantByNotes(f)'
    BY <1>1, <2>1, <2>3, <2>4 DEF PInv, Meant, MeantByTables, MeantByNotes
  <2>7. Awaited' /\ Counted' /\ Latest'
    BY <1>1, <2>1, <2>3, <2>4 DEF PInv, Awaited, Counted, Latest, AwaitedBy, RegisteredAs
  <2>8. Ordered'
    <3>1. ASSUME NEW t \in Sockets, NEW i \in Nat, IsNote(t, i)'
          PROVE  /\ \A k \in DOMAIN waitingForId : Before(waitingForId[k], toClient'[t][i].note)
                 /\ \A v \in Subs : heard[v] # NULL => Before(heard[v], toClient'[t][i].note)
      <4>1. PICK j \in Nat : IsNote(t, j) /\ toClient[t][j] = toClient'[t][i]
        BY <2>3, <3>1
      <4> QED
        BY <4>1 DEF PInv, Ordered
    <3> QED
      BY <2>1, <2>3, <3>1 DEF PInv, Ordered
  <2> QED
    BY <2>3, <2>5, <2>6, <2>7, <2>8 DEF PInv, Meant
<1> QED
  BY <1>2, <1>3
-----------------------------------------------------------------------------
(* Requests.                                                               *)
LEMMA NoThrow ==
  ASSUME NEW s, Reaches(s), s = websocket, NEW throws \in AddThrows PROVE ~throws
<1>1. websocket # NULL /\ websocket \in Live \ gone /\ sock[websocket] = "open"
  BY SocketsAssumption DEF Reaches, Live
<1> QED
  BY <1>1 DEF AddThrows

LEMMA SendRpcPromise ==
  ASSUME Inv, NEW f, PInv(f), NEW kind \in {"call", "subscribe", "unsubscribe"},
         NEW u \in Subs \cup {NULL}, kind = "subscribe" <=> u # NULL, NEW sid \in 0 .. MaxId,
         SendRpc(kind, u, sid),
         \A k \in DOMAIN subscriptions' :
           k \in DOMAIN subscriptions /\ subscriptions'[k] = subscriptions[k],
         UNCHANGED << waitingForId, knownId, heard, serving, toClient >>
  PROVE  \E g : PInv(g)'
<1>0. /\ nextId \in Nat /\ DOMAIN handlers \subseteq 1 .. nextId /\ DOMAIN future = Ids
      /\ f \in [Ids -> Subs \cup {NULL}]
      /\ inbox \in [Sockets -> SUBSET Requests]
  BY DEF Inv, IdsFresh, PInv, Meant, Typed
<1>1. CASE UNCHANGED << nextId, handlers, future, inbox >>
  <2>1. \A s, t \in Sockets : \A r \in inbox'[s], q \in inbox'[t] : r.id = q.id => s = t /\ r = q
    BY <1>1 DEF PInv, Alone
  <2>2. PInv(f)'
    BY <1>0, <1>1, <2>1, RequestsSent
  <2> QED
    BY <2>2
<1>2. CASE ~UNCHANGED << nextId, handlers, future, inbox >>
  <2> DEFINE id == nextId + 1
             req == [kind |-> kind, id |-> id, sub |-> u, sid |-> sid]
             e == [sub |-> u, resub |-> FALSE]
  <2>1. /\ nextId < MaxId /\ nextId' = id /\ handlers' = Put(handlers, id, e)
        /\ \E throws \in AddThrows :
             future' = [future EXCEPT ![id] = IF throws THEN "failed" ELSE "pending"]
        /\ inbox' = [s \in Sockets |->
                       IF s = websocket /\ Reaches(s) THEN inbox[s] \cup {req} ELSE inbox[s]]
    BY <1>2 DEF SendRpc
  <2>2. id \in Ids /\ id > nextId /\ id \in Nat
    BY <1>0, <2>1, RpcBoundsAssumption DEF Ids
  <2>3. PICK g : g = [f EXCEPT ![id] = u]
    OBVIOUS
  <2>4. /\ g \in [Ids -> Subs \cup {NULL}] /\ g[id] = u
        /\ \A i \in Ids : i <= nextId => g[i] = f[i] /\ future'[i] = future[i]
    BY <1>0, <2>1, <2>2, <2>3
  <2>5. e.sub = u /\ req.id = id /\ req.sub = u /\ req.kind = kind /\ req \in Requests
    BY <2>2 DEF Requests
  <2>6. \A s \in Sockets : s = websocket /\ Reaches(s) => future'[id] = "pending"
    BY <1>0, <2>1, <2>2, NoThrow
  <2>7. Known(g, nextId', id, u)
    BY <2>1, <2>2, <2>4 DEF Known
  <2> HIDE DEF req, e, id
  <2>8. \A i \in DOMAIN handlers' : \/ i \in DOMAIN handlers /\ handlers'[i] = handlers[i]
                                    \/ i > nextId /\ Known(g, nextId', i, handlers'[i].sub)
    <3>1. \A i \in DOMAIN handlers' : \/ i = id /\ handlers'[i] = e
                                      \/ i \in DOMAIN handlers /\ handlers'[i] = handlers[i]
      BY <2>1 DEF Put
    <3> QED
      BY <2>2, <2>5, <2>7, <3>1
  <2>9. /\ inbox' \in [Sockets -> SUBSET Requests]
        /\ \A s \in Sockets : \A r \in inbox'[s] : r \in inbox[s] \/ (r = req /\ s = websocket /\ Reaches(s))
    BY <1>0, <2>1, <2>5
  <2>10. \A s \in Sockets : \A r \in inbox'[s] :
           \/ r \in inbox[s]
           \/ /\ r.id > nextId /\ Known(g, nextId', r.id, r.sub)
              /\ r.kind = "subscribe" <=> r.sub # NULL
              /\ future'[r.id] = "pending"
    BY <2>2, <2>5, <2>6, <2>7, <2>9
  <2>11. \A s, t \in Sockets : \A r \in inbox'[s], q \in inbox'[t] :
           r.id = q.id /\ r.id > nextId => s = t /\ r = q
    <3>1. \A s \in Sockets : \A r \in inbox[s] : ~(r.id > nextId)
      BY <1>0 DEF PInv, Meant, MeantByNode, Known, Ids
    <3> QED
      BY <2>9, <3>1
  <2>12. nextId' \in Nat /\ nextId <= nextId'
    BY <1>0, <2>1, <2>2
  <2>13. PInv(g)'
    BY <2>4, <2>8, <2>9, <2>10, <2>11, <2>12, RequestsSent
  <2> QED
    BY <2>13
<1> QED
  BY <1>1, <1>2

LEMMA SendPromise ==
  ASSUME Inv, NEW f, PInv(f), Send PROVE \E g : PInv(g)'
<1>1. /\ SendRpc("call", NULL, 0)
      /\ UNCHANGED << subscriptions, waitingForId, knownId, heard, serving, toClient >>
  BY DEF Send
<1>2. 0 \in 0 .. MaxId
  BY RpcBoundsAssumption
<1> QED
  BY <1>1, <1>2, SendRpcPromise

LEMMA SubscribePromise ==
  ASSUME Inv, NEW f, PInv(f), NEW u \in Subs, Subscribe(u) PROVE \E g : PInv(g)'
<1>1. /\ SendRpc("subscribe", u, 0)
      /\ UNCHANGED << subscriptions, waitingForId, knownId, heard, serving, toClient >>
  BY DEF Subscribe
<1>2. 0 \in 0 .. MaxId /\ u # NULL
  BY RpcBoundsAssumption, SubsAssumption
<1> QED
  BY <1>1, <1>2, SendRpcPromise

LEMMA UnsubscribePromise ==
  ASSUME Inv, NEW f, PInv(f), NEW u \in Subs, Unsubscribe(u) PROVE \E g : PInv(g)'
<1>1. /\ SendRpc("unsubscribe", NULL, knownId[u])
      /\ UNCHANGED << waitingForId, knownId, heard, serving, toClient >>
  BY DEF Unsubscribe
<1>2. \A k \in DOMAIN subscriptions' :
        k \in DOMAIN subscriptions /\ subscriptions'[k] = subscriptions[k]
  BY DEF Unsubscribe, Drop, Restrict
<1>3. knownId[u] \in 0 .. MaxId
  BY DEF PInv, Typed
<1> QED
  BY <1>1, <1>2, <1>3, SendRpcPromise

LEMMA SocketOpenedPromise ==
  ASSUME Inv, NEW f, PInv(f), NEW s \in Sockets, SocketOpened(s) PROVE \E g : PInv(g)'
<1> DEFINE n == Cardinality(Renewed)
           newIds == nextId + 1 .. nextId + n
<1>1. Resubscribe(s) /\ UNCHANGED << waitingForId, knownId, heard, serving, toClient >>
  BY DEF SocketOpened, userVars
<1>2. n \in Nat /\ nextId \in Nat /\ DOMAIN handlers \subseteq 1 .. nextId
  BY FS_Subset, FS_CardinalityType DEF Inv, IdsFresh, Renewed
<1>3. PICK order \in Bijection(newIds, Renewed) :
        /\ nextId + n <= MaxId
        /\ nextId' = nextId + n
        /\ handlers' = [i \in DOMAIN handlers \cup newIds |->
                          IF i \in newIds THEN [sub |-> subscriptions[order[i]], resub |-> TRUE]
                                          ELSE handlers[i]]
        /\ future' = [i \in Ids |-> IF i \in newIds THEN "pending" ELSE future[i]]
        /\ inbox' = [inbox EXCEPT ![s] =
                       {[kind |-> "subscribe", id |-> i, sub |-> subscriptions[order[i]], sid |-> 0] :
                          i \in newIds}]
        /\ subscriptions' = Remaining
  BY <1>1 DEF Resubscribe
<1>4. /\ newIds \subseteq Ids /\ 0 \in 0 .. MaxId
      /\ \A i \in newIds : i > nextId /\ i <= nextId' /\ i \notin DOMAIN handlers
  BY <1>2, <1>3, RpcBoundsAssumption DEF Ids
<1>5. \A i \in newIds : subscriptions[order[i]] \in Subs /\ subscriptions[order[i]] # NULL
  <2>1. \A i \in newIds : order[i] \in DOMAIN subscriptions
    BY <1>3 DEF Bijection, Injection, Surjection, Renewed
  <2> QED
    BY <2>1, SubsAssumption DEF PInv, Meant, MeantByTables
<1>6. PICK g : g = [i \in Ids |-> IF i \in newIds THEN subscriptions[order[i]] ELSE f[i]]
  OBVIOUS
<1>7. f \in [Ids -> Subs \cup {NULL}] /\ inbox \in [Sockets -> SUBSET Requests]
  BY DEF PInv, Meant, Typed
<1>8. \A i \in Ids : i <= nextId => i \notin newIds
  BY <1>2 DEF Ids
<1> HIDE DEF newIds, n
<1>9. /\ g \in [Ids -> Subs \cup {NULL}]
      /\ \A i \in Ids : i <= nextId => g[i] = f[i] /\ future'[i] = future[i]
      /\ \A i \in newIds : /\ Known(g, nextId', i, subscriptions[order[i]])
                           /\ future'[i] = "pending"
  BY <1>3, <1>4, <1>5, <1>6, <1>7, <1>8 DEF Known
<1>10. nextId' \in Nat /\ nextId <= nextId'
  BY <1>2, <1>3
<1>11. \A i \in DOMAIN handlers' : \/ i \in DOMAIN handlers /\ handlers'[i] = handlers[i]
                                   \/ i > nextId /\ Known(g, nextId', i, handlers'[i].sub)
  BY <1>3, <1>4, <1>9
<1>12. DOMAIN subscriptions' = {}
  BY <1>3 DEF Remaining, EmptyMap
<1>13. \A t \in Sockets : \A r \in inbox'[t] :
         \/ t # s /\ r \in inbox[t]
         \/ /\ t = s
            /\ \E i \in newIds :
                 r = [kind |-> "subscribe", id |-> i, sub |-> subscriptions[order[i]], sid |-> 0]
  BY <1>3, <1>7
<1>14. inbox' \in [Sockets -> SUBSET Requests]
  <2>1. \A i \in newIds :
          [kind |-> "subscribe", id |-> i, sub |-> subscriptions[order[i]], sid |-> 0] \in Requests
    BY <1>4, <1>5 DEF Requests
  <2> QED
    BY <1>3, <1>7, <2>1
<1>15. \A t \in Sockets : \A r \in inbox'[t] :
         \/ r \in inbox[t]
         \/ /\ r.id > nextId /\ Known(g, nextId', r.id, r.sub)
            /\ r.kind = "subscribe" <=> r.sub # NULL
            /\ future'[r.id] = "pending"
  BY <1>4, <1>5, <1>9, <1>13
<1>16. \A t, v \in Sockets : \A r \in inbox'[t], q \in inbox'[v] :
         r.id = q.id /\ r.id > nextId => t = v /\ r = q
  <2>1. \A t \in Sockets : \A r \in inbox[t] : ~(r.id > nextId)
    BY <1>2 DEF PInv, Meant, MeantByNode, Known, Ids
  <2> QED
    BY <1>13, <2>1
<1>17. PInv(g)'
  BY <1>1, <1>9, <1>10, <1>11, <1>12, <1>14, <1>15, <1>16, RequestsSent
<1> QED
  BY <1>17

(* Whatever happens, every id means one subscription.                      *)
LEMMA PromiseStep ==
  ASSUME UniqueIds, Inv, \E f : PInv(f), [ProviderNext]_vars PROVE (\E f : PInv(f))'
<1>0. PICK f : PInv(f)
  OBVIOUS
<1> SUFFICES \E g : PInv(g)'
  OBVIOUS
<1>1. CASE ConnectionStep \/ UNCHANGED vars
  <2>1. UNCHANGED << tableVars, knownId, heard, inbox, serving, toClient >>
    BY <1>1 DEF ConnectionStep, rpcVars, userVars, nodeVars, vars
  <2> QED
    BY <1>0, <2>1, PromiseUntouched
<1>2. CASE UserStep
  BY <1>0, <1>2, SendPromise, SubscribePromise, UnsubscribePromise DEF UserStep
<1>3. ASSUME NEW s \in Sockets, SocketStep(s) PROVE \E g : PInv(g)'
  <2>1. CASE SocketClosed(s)
    <3>1. UNCHANGED << tableVars, knownId, heard, inbox, serving, toClient >>
      BY <2>1 DEF SocketClosed, userVars
    <3> QED
      BY <1>0, <3>1, PromiseUntouched
  <2> QED
    BY <1>0, <1>3, <2>1, SocketOpenedPromise, ReceiveReplyPromise, ReceiveNotePromise DEF SocketStep
<1>4. ASSUME NEW s \in Sockets, NodeStep(s) PROVE PInv(f)'
  <2>1. CASE PeerLeaves(s)
    BY <1>0, <2>1, PeerLeavesPromise
  <2>2. ASSUME NEW r \in inbox[s], NodeAnswers(s, r) \/ NodeAccepts(s, r) \/ NodeRefuses(s, r)
        PROVE  PInv(f)'
    BY <1>0, <2>2, NodeAnswersPromise, NodeAcceptsPromise, NodeRefusesPromise
  <2>3. ASSUME NEW x \in serving[s], NodeReplies(s, x) \/ NodeNotifies(s, x)
        PROVE  PInv(f)'
    BY <1>0, <2>3, NodeRepliesPromise, NodeNotifiesPromise
  <2> QED
    BY <1>4, <2>1, <2>2, <2>3 DEF NodeStep
<1> QED
  BY <1>1, <1>2, <1>3, <1>4 DEF ProviderNext
-----------------------------------------------------------------------------
(* No notification is missing in front of one that is still to come.       *)

(* An id that was given out and is neither registered nor awaited.         *)
Ended(id) ==
  /\ id <= nextId /\ id \notin DOMAIN handlers
  /\ \A k \in DOMAIN subscriptions : k[2] # id

(* The n-th notification sent under id o. *)
Nth(a, o, n) == a # NULL /\ a.owner = o /\ a.n = n

(* It was received and not forgotten, or nobody can hear what follows it.  *)
Got(o, n) ==
  \/ n = 0
  \/ Ended(o)
  \/ \E k \in DOMAIN waitingForId : Nth(waitingForId[k], o, n)
  \/ \E u \in Subs : Nth(heard[u], o, n)

(* It was, or it travels in front of place j. *)
Ahead(s, j, o, n) ==
  Got(o, n) \/ \E i \in Nat : i < j /\ IsNote(s, i) /\ Nth(toClient[s][i].note, o, n)

(* The n-th is wanted at place j: what is there comes right after it.      *)
WantedBy(s, j, o, n) ==
  \/ j \in Nat /\ IsNote(s, j) /\ Nth(toClient[s][j].note, o, n + 1)
  \/ j = Len(toClient[s]) + 1 /\ \E x \in serving[s] : x.owner = o /\ x.sent = n

NoGap ==
  \A s \in Sockets, j, o, n \in Nat : WantedBy(s, j, o, n) => Ahead(s, j, o, n)

LEMMA InitNoGap == ASSUME ProviderInit PROVE NoGap
<1>1. \A s \in Sockets : toClient[s] = << >> /\ serving[s] = {}
  BY DEF ProviderInit
<1> QED
  BY <1>1 DEF NoGap, WantedBy, IsNote

LEMMA EndedForGood ==
  ASSUME nextId \in Nat, nextId' \in Nat, nextId <= nextId',
         \A id \in DOMAIN handlers' : id \in DOMAIN handlers \/ id > nextId,
         \A k \in DOMAIN subscriptions' : k \in DOMAIN subscriptions \/ k[2] \in DOMAIN handlers,
         NEW o \in Nat, Ended(o)
  PROVE  Ended(o)'
BY DEF Ended

(* Requests are sent, and entries taken out of the tables.                 *)
LEMMA RequestsLeaveNoGap ==
  ASSUME NoGap, nextId \in Nat, nextId' \in Nat, nextId <= nextId',
         \A id \in DOMAIN handlers' : id \in DOMAIN handlers \/ id > nextId,
         DOMAIN subscriptions' \subseteq DOMAIN subscriptions,
         UNCHANGED << waitingForId, heard, serving, toClient >>
  PROVE  NoGap'
<1>1. ASSUME NEW o \in Nat, NEW n, Got(o, n) PROVE Got(o, n)'
  <2>1. Ended(o) => Ended(o)'
    BY EndedForGood
  <2> QED
    BY <1>1, <2>1 DEF Got, Nth
<1>2. ASSUME NEW s \in Sockets, NEW j \in Nat, NEW o \in Nat, NEW n \in Nat, WantedBy(s, j, o, n)'
      PROVE  Ahead(s, j, o, n)'
  <2>1. WantedBy(s, j, o, n)
    BY <1>2 DEF WantedBy, IsNote, Nth
  <2>2. Ahead(s, j, o, n)
    BY <2>1 DEF NoGap
  <2> QED
    BY <1>1, <2>2 DEF Ahead, IsNote, Nth
<1> QED
  BY <1>2 DEF NoGap

LEMMA LengthsTyped == ASSUME Typed PROVE \A s \in Sockets : Len(toClient[s]) \in Nat
BY LenProperties DEF Typed

(* The node posts a message; a notification is the next of its id.         *)
LEMMA PostLeavesNoGap ==
  ASSUME NoGap, Typed, NEW s \in Sockets, NEW m \in Replies \cup Updates, Post(s, m),
         m.kind = "note" => \E x \in serving[s] : Nth(m.note, x.owner, x.sent + 1),
         \A t \in Sockets : \A y \in serving'[t] :
           \/ \E x \in serving[t] : y.owner = x.owner /\ y.sent = x.sent
           \/ t = s /\ m.kind = "note" /\ Nth(m.note, y.owner, y.sent),
         serving \in [Sockets -> SUBSET Served],
         UNCHANGED << tableVars, heard >>
  PROVE  NoGap'
<1> DEFINE last == Len(toClient[s]) + 1
<1>1. /\ \A t \in Sockets \ {s} : toClient'[t] = toClient[t]
      /\ Len(toClient'[s]) = last /\ toClient'[s][last] = m
      /\ \A i \in 1 .. Len(toClient[s]) : toClient'[s][i] = toClient[s][i]
      /\ \A t \in Sockets : Len(toClient[t]) \in Nat
  BY Posted, LengthsTyped
<1>2. \A o, n : Got(o, n) => Got(o, n)'
  BY DEF Got, Ended, Nth, tableVars
<1>3. \A t \in Sockets, i \in Nat :
        /\ IsNote(t, i) => IsNote(t, i)' /\ toClient'[t][i] = toClient[t][i]
        /\ IsNote(t, i)' => \/ IsNote(t, i)
                            \/ t = s /\ i = last /\ m.kind = "note" /\ toClient'[t][i] = m
  BY <1>1 DEF IsNote
<1>4. ASSUME NEW t \in Sockets, NEW j \in Nat, NEW l \in Nat, j <= l, NEW o, NEW n, Ahead(t, j, o, n)
      PROVE  Ahead(t, l, o, n)'
  BY <1>2, <1>3, <1>4 DEF Ahead, Nth
<1>5. ASSUME NEW t \in Sockets, NEW j \in Nat, NEW o \in Nat, NEW n \in Nat, WantedBy(t, j, o, n)'
      PROVE  Ahead(t, j, o, n)'
  <2>1. CASE IsNote(t, j) /\ Nth(toClient'[t][j].note, o, n + 1)
    <3>1. WantedBy(t, j, o, n)
      BY <1>3, <2>1 DEF WantedBy
    <3> QED
      BY <1>4, <3>1 DEF NoGap
  <2>2. CASE t = s /\ j = last /\ m.kind = "note" /\ Nth(m.note, o, n + 1)
    <3>1. PICK x \in serving[s] : Nth(m.note, x.owner, x.sent + 1)
      BY <2>2
    <3>2. x.sent \in Nat
      BY RpcBoundsAssumption DEF Served
    <3>3. o = x.owner /\ n = x.sent
      BY <2>2, <3>1, <3>2 DEF Nth
    <3>4. WantedBy(s, last, o, n)
      BY <3>3 DEF WantedBy
    <3> QED
      BY <1>4, <2>2, <3>4 DEF NoGap
  <2>3. ASSUME NEW y \in serving'[t], y.owner = o, y.sent = n, j = Len(toClient'[t]) + 1
        PROVE  Ahead(t, j, o, n)'
    <3>1. ASSUME NEW x \in serving[t], o = x.owner, n = x.sent PROVE Ahead(t, j, o, n)'
      <4>1. WantedBy(t, Len(toClient[t]) + 1, o, n)
        BY <3>1 DEF WantedBy
      <4>2. Len(toClient[t]) + 1 \in Nat /\ Len(toClient[t]) + 1 <= j
        BY <1>1, <2>3
      <4> QED
        BY <1>4, <4>1, <4>2 DEF NoGap
    <3>2. CASE t = s /\ m.kind = "note" /\ Nth(m.note, o, n)
      <4>1. PICK l \in Nat : l = last
        BY <1>1
      <4>2. l \in 1 .. Len(toClient'[s]) /\ toClient'[s][l] = m /\ l < j
        BY <1>1, <2>3, <3>2, <4>1
      <4>3. IsNote(s, l)' /\ Nth(toClient[s][l].note, o, n)'
        BY <3>2, <4>2 DEF IsNote, Nth
      <4> QED
        BY <3>2, <4>2, <4>3 DEF Ahead
    <3> QED
      BY <2>3, <3>1, <3>2
  <2> QED
    BY <1>3, <1>5, <2>1, <2>2, <2>3 DEF WantedBy
<1> HIDE DEF last
<1> QED
  BY <1>5 DEF NoGap

(* The first d messages of a connection are received, and what is wanted   *)
(* of what was received is still got; or its last ones are lost.           *)
LEMMA ReceptionLeavesNoGap ==
  ASSUME NoGap, Typed, NEW s \in Sockets, NEW d \in Nat, LeftOf(s, d),
         \A t \in Sockets : serving'[t] \subseteq serving[t],
         serving'[s] = {} \/ Len(toClient[s]) = Len(toClient'[s]) + d,
         \A i, o, n \in Nat :
           i <= d /\ IsNote(s, i) /\ Nth(toClient[s][i].note, o, n) => Got(o, n)',
         \A t \in Sockets, j, o, n \in Nat : WantedBy(t, j, o, n)' /\ Got(o, n) => Got(o, n)'
  PROVE  NoGap'
<1> DEFINE off(t) == IF t = s THEN d ELSE 0
<1>1. \A t \in Sockets : Len(toClient[t]) \in Nat /\ Len(toClient'[t]) \in Nat
  <2>1. \A t \in Sockets : toClient'[t] \in Seq(Replies \cup Updates)
    BY DEF LeftOf
  <2> QED
    BY <2>1, LengthsTyped, LenProperties
<1>2. ASSUME NEW t \in Sockets, NEW j \in Nat, NEW o \in Nat, NEW n \in Nat, WantedBy(t, j, o, n)'
      PROVE  Ahead(t, j, o, n)'
  <2>1. j <= Len(toClient'[t]) + 1 /\ j + off(t) \in Nat
    BY <1>1, <1>2 DEF WantedBy, IsNote
  <2>2. WantedBy(t, j + off(t), o, n)
    <3>1. CASE IsNote(t, j)' /\ Nth(toClient'[t][j].note, o, n + 1)
      <4>1. IsNote(t, j + off(t)) /\ toClient'[t][j] = toClient[t][j + off(t)]
        BY <1>1, <3>1 DEF IsNote, LeftOf
      <4> QED
        BY <2>1, <3>1, <4>1 DEF WantedBy
    <3>2. ASSUME NEW x \in serving'[t], x.owner = o, x.sent = n, j = Len(toClient'[t]) + 1
          PROVE  WantedBy(t, j + off(t), o, n)
      <4>0. x \in serving[t] /\ (t = s => serving'[s] # {})
        BY <3>2
      <4>1. Len(toClient[t]) = Len(toClient'[t]) + off(t)
        <5>1. CASE t = s
          BY <4>0, <5>1
        <5>2. CASE t # s
          BY <1>1, <5>2 DEF LeftOf
        <5> QED
          BY <5>1, <5>2
      <4>2. off(t) \in Nat
        OBVIOUS
      <4> HIDE DEF off
      <4>3. j + off(t) = Len(toClient[t]) + 1
        BY <1>1, <3>2, <4>1, <4>2
      <4> QED
        BY <3>2, <4>0, <4>3 DEF WantedBy
    <3> QED
      BY <1>2, <3>1, <3>2 DEF WantedBy, Nth
  <2>3. Ahead(t, j + off(t), o, n)
    <3> HIDE DEF off
    <3> QED
      BY <2>1, <2>2 DEF NoGap
  <2>4. CASE Got(o, n)
    BY <1>2, <2>4 DEF Ahead
  <2>5. ASSUME NEW i \in Nat, i < j + off(t), IsNote(t, i), Nth(toClient[t][i].note, o, n)
        PROVE  Ahead(t, j, o, n)'
    <3>1. CASE t = s /\ i <= d
      <4>1. Got(o, n)'
        BY <2>5, <3>1
      <4> QED
        BY <4>1 DEF Ahead
    <3>2. CASE ~(t = s /\ i <= d)
      <4>1. i - off(t) \in 1 .. Len(toClient'[t]) /\ i - off(t) < j
        BY <1>1, <2>1, <2>5, <3>2 DEF IsNote, LeftOf
      <4>2. toClient'[t][i - off(t)] = toClient[t][i]
        BY <2>5, <3>2, <4>1 DEF LeftOf
      <4>3. i - off(t) \in Nat
        BY <4>1
      <4> HIDE DEF off
      <4>4. IsNote(t, i - off(t))' /\ Nth(toClient[t][i - off(t)].note, o, n)'
        BY <2>5, <4>1, <4>2, <4>3 DEF IsNote, Nth
      <4> QED
        BY <4>1, <4>3, <4>4 DEF Ahead
    <3> QED
      BY <3>1, <3>2
  <2> HIDE DEF off
  <2> QED
    BY <2>3, <2>4, <2>5 DEF Ahead
<1> QED
  BY <1>2 DEF NoGap

(* What was sent before a notification that is now received is not wanted. *)
LEMMA OlderUnwanted ==
  ASSUME NEW f, PInv(f), NEW s \in Sockets, IsNote(s, 1), LeftOf(s, 1), UNCHANGED serving,
         NEW a, a = toClient[s][1].note, NEW n \in Nat, n < a.n, NEW t \in Sockets, NEW j \in Nat
  PROVE  ~WantedBy(t, j, a.owner, n)'
<1> USE DEF PInv
<1>1. a \in Notes /\ Out(a) /\ a.n \in Nat
  BY MessageIs DEF IsNote, Updates, Out, InFlight, Notes
<1>2. ASSUME IsNote(t, j)', Nth(toClient'[t][j].note, a.owner, n + 1) PROVE FALSE
  <2>1. PICK i \in Nat : IsNote(t, i) /\ toClient[t][i] = toClient'[t][j] /\ (t = s => 1 < i)
    <3>1. CASE t = s
      <4>1. j + 1 \in Nat /\ 1 < j + 1 /\ IsNote(t, j + 1) /\ toClient[t][j + 1] = toClient'[t][j]
        BY <1>2, <3>1, LengthsTyped DEF IsNote, LeftOf
      <4> QED
        BY <4>1
    <3>2. CASE t # s
      BY <1>2, <3>2 DEF IsNote, LeftOf
    <3> QED
      BY <3>1, <3>2
  <2>2. t = s
    BY <1>2, <2>1 DEF Alone, Nth
  <2>3. Before(a, toClient[s][i].note)
    BY <2>1, <2>2 DEF Ordered
  <2> QED
    BY <1>1, <1>2, <2>1, <2>2, <2>3 DEF Before, Nth
<1>3. ASSUME NEW x \in serving[t], x.owner = a.owner, x.sent = n PROVE FALSE
  BY <1>1, <1>3 DEF Counted
<1>4. ~\E x \in serving'[t] : x.owner = a.owner /\ x.sent = n
  BY <1>3
<1> QED
  BY <1>2, <1>4 DEF WantedBy

(* The id of what a registered or awaited subscription heard before.       *)
LEMMA OlderEnded ==
  ASSUME Inv, NEW f, PInv(f), NEW u \in Subs, heard[u] # NULL,
         \A id \in AwaitedBy(u) : id # heard[u].owner,
         \A k \in RegisteredAs(u) : k[2] # heard[u].owner
  PROVE  Ended(heard[u].owner)
<1> USE DEF PInv
<1> DEFINE o == heard[u].owner
<1>1. heard[u] \in Notes /\ Out(heard[u])
  BY DEF Typed, Out, Heard
<1>2. Known(f, nextId, o, u)
  BY <1>1 DEF Meant, MeantByNotes
<1>3. o \notin DOMAIN handlers
  BY <1>2 DEF Meant, MeantByTables, Known, AwaitedBy
<1>4. ASSUME NEW k \in DOMAIN subscriptions, k[2] = o PROVE FALSE
  <2>1. PICK id \in Ids : Known(f, nextId, id, subscriptions[k]) /\ k = KeyOf(subscriptions[k], id)
    BY DEF Meant, MeantByTables
  <2>2. id = o
    BY <1>4, <2>1, KeyTells
  <2>3. k \in RegisteredAs(u)
    BY <1>2, <2>1, <2>2 DEF Known, RegisteredAs
  <2> QED
    BY <1>4, <2>3
<1> QED
  BY <1>2, <1>3, <1>4 DEF Ended, Known

LEMMA ReceiveNoteNoGap ==
  ASSUME Inv, NEW f, PInv(f), NoGap, NEW s \in Sockets, ReceiveNote(s) PROVE NoGap'
<1> USE DEF PInv
<1>0. PICK m, a : m = toClient[s][1] /\ a = m.note
  OBVIOUS
<1>1. /\ LeftOf(s, 1) /\ Head(toClient[s]) = m /\ IsNote(s, 1)
      /\ Len(toClient[s]) = Len(toClient'[s]) + 1
      /\ UNCHANGED << nextId, handlers, subscriptions, serving >>
  BY <1>0, Received DEF ReceiveNote, IsNote
<1>2. IF m.key \in DOMAIN subscriptions
        THEN /\ waitingForId' = Drop(waitingForId, m.key)
             /\ heard' = [heard EXCEPT ![subscriptions[m.key]] = a]
        ELSE /\ waitingForId' = Put(waitingForId, m.key, a)
             /\ UNCHANGED heard
  BY <1>0, <1>1 DEF ReceiveNote, Deliver
<1>3. /\ a \in Notes /\ Out(a) /\ Known(f, nextId, a.owner, a.sub)
      /\ m.key = KeyOf(a.sub, a.owner) /\ a # NULL
  BY <1>0, <1>1, MessageIs, NullAssumption DEF IsNote, Updates, Out, InFlight, Meant, MeantByNotes
<1>4. ASSUME NEW t \in Sockets, NEW j \in Nat, NEW n \in Nat, n < a.n PROVE ~WantedBy(t, j, a.owner, n)'
  BY <1>0, <1>1, <1>4, OlderUnwanted
<1>5. \A o, n : n = 0 \/ Ended(o) => Got(o, n)'
  BY <1>1 DEF Got, Ended
<1>6. \A v \in Subs : heard[v] # NULL => Before(heard[v], a)
  BY <1>0, <1>1 DEF Ordered
<1>7. /\ \A o, n : Nth(a, o, n) => Got(o, n)'
      /\ \A t \in Sockets, j, o, n \in Nat : WantedBy(t, j, o, n)' /\ Got(o, n) => Got(o, n)'
  <2>1. CASE m.key \in DOMAIN subscriptions
    <3> DEFINE u == subscriptions[m.key]
    <3>1. /\ u \in Subs /\ a.sub = u /\ m.key[2] = a.owner
      BY <1>0, <1>1, <2>1, NoteIsNews
    <3>2. m.key \in RegisteredAs(u)
      BY <2>1 DEF RegisteredAs
    <3>3. AwaitedBy(u) = {} /\ RegisteredAs(u) = {m.key}
      BY <3>1, <3>2 DEF Inv, OnePlace
    <3>4. m.key \notin DOMAIN waitingForId
      BY <2>1 DEF Inv, NothingStuck
    <3> HIDE DEF u
    <3>5. waitingForId' = [x \in DOMAIN waitingForId |-> waitingForId[x]]
      BY <1>2, <2>1, <3>4 DEF Drop, Restrict
    <3>6. heard'[u] = a /\ \A v \in Subs \ {u} : heard'[v] = heard[v]
      BY <1>2, <2>1, <3>1 DEF Typed, u
    <3>7. \A o, n : Nth(a, o, n) => Got(o, n)'
      BY <1>3, <3>1, <3>6 DEF Got, Nth
    <3>8. ASSUME NEW t \in Sockets, NEW j \in Nat, NEW o \in Nat, NEW n \in Nat,
                 WantedBy(t, j, o, n)', Got(o, n)
          PROVE  Got(o, n)'
      <4>1. CASE n = 0 \/ Ended(o)
        BY <1>5, <4>1
      <4>2. CASE \E k \in DOMAIN waitingForId : Nth(waitingForId[k], o, n)
        BY <3>5, <4>2 DEF Got, Nth
      <4>3. ASSUME NEW v \in Subs, Nth(heard[v], o, n) PROVE Got(o, n)'
        <5>1. CASE v # u
          BY <3>6, <4>3, <5>1 DEF Got, Nth
        <5>2. CASE v = u /\ o # a.owner
          <6>1. Ended(o)
            BY <3>1, <3>3, <4>3, <5>2, OlderEnded DEF Nth
          <6> QED
            BY <1>5, <6>1
        <5>3. CASE v = u /\ o = a.owner
          <6>1. n < a.n
            BY <1>6, <4>3, <5>3 DEF Nth, Before
          <6> QED
            BY <1>4, <3>8, <5>3, <6>1
        <5> QED
          BY <5>1, <5>2, <5>3
      <4> QED
        BY <3>8, <4>1, <4>2, <4>3 DEF Got
    <3> QED
      BY <3>7, <3>8
  <2>2. CASE m.key \notin DOMAIN subscriptions
    <3>1. /\ DOMAIN waitingForId' = DOMAIN waitingForId \cup {m.key}
          /\ waitingForId'[m.key] = a
          /\ \A k \in DOMAIN waitingForId \ {m.key} : waitingForId'[k] = waitingForId[k]
          /\ heard' = heard
      BY <1>2, <2>2 DEF Put
    <3>2. m.key \in DOMAIN waitingForId =>
            /\ waitingForId[m.key] # NULL => waitingForId[m.key].owner = a.owner
            /\ Before(waitingForId[m.key], a)
      BY <1>0, <1>1, <1>3, KeyTells DEF Meant, MeantByNotes, Ordered
    <3>3. \A o, n : Nth(a, o, n) => Got(o, n)'
      BY <1>3, <3>1 DEF Got, Nth
    <3>4. ASSUME NEW t \in Sockets, NEW j \in Nat, NEW o \in Nat, NEW n \in Nat,
                 WantedBy(t, j, o, n)', Got(o, n)
          PROVE  Got(o, n)'
      <4>1. CASE n = 0 \/ Ended(o)
        BY <1>5, <4>1
      <4>2. CASE \E v \in Subs : Nth(heard[v], o, n)
        BY <3>1, <4>2 DEF Got, Nth
      <4>3. ASSUME NEW k \in DOMAIN waitingForId, Nth(waitingForId[k], o, n) PROVE Got(o, n)'
        <5>1. CASE k # m.key
          BY <3>1, <4>3, <5>1 DEF Got, Nth
        <5>2. CASE k = m.key
          <6>1. o = a.owner /\ n < a.n
            BY <3>2, <4>3, <5>2 DEF Nth, Before
          <6> QED
            BY <1>4, <3>4, <6>1
        <5> QED
          BY <5>1, <5>2
      <4> QED
        BY <3>4, <4>1, <4>2, <4>3 DEF Got
    <3> QED
      BY <3>3, <3>4
  <2> QED
    BY <2>1, <2>2
<1>8. \A i, o, n \in Nat : i <= 1 /\ IsNote(s, i) /\ Nth(toClient[s][i].note, o, n) => Got(o, n)'
  <2>1. \A i \in Nat : i <= 1 /\ IsNote(s, i) => i = 1
    BY DEF IsNote
  <2> QED
    BY <1>0, <1>7, <2>1 DEF Nth
<1>9. \A t \in Sockets : serving'[t] \subseteq serving[t]
  BY <1>1
<1> QED
  BY <1>1, <1>7, <1>8, <1>9, ReceptionLeavesNoGap

LEMMA SettleNoGap ==
  ASSUME Inv, NEW f, PInv(f), NoGap, NEW s \in Sockets, NEW m, IsReply(s, 1), m = toClient[s][1],
         LeftOf(s, 1), Len(toClient[s]) = Len(toClient'[s]) + 1,
         m.id \in DOMAIN handlers, Settle(m), UNCHANGED << nextId, serving >>
  PROVE  NoGap'
<1> USE DEF PInv
<1> DEFINE u == handlers[m.id].sub
           k == KeyOf(u, m.id)
           starts == m.ok /\ u # NULL
<1>1. Known(f, nextId, m.id, u) /\ (starts => m.sid = m.id /\ u \in Subs)
  <2>1. Known(f, nextId, m.id, u)
    BY DEF Meant, MeantByTables
  <2>2. m.ok /\ f[m.id] # NULL => m.sid = m.id
    BY DEF Meant, MeantByNode, IsReply
  <2> QED
    BY <2>1, <2>2 DEF Known, Meant
<1>2. /\ handlers' = Drop(handlers, m.id)
      /\ IF starts THEN subscriptions' = Put(subscriptions, k, u) ELSE UNCHANGED subscriptions
      /\ IF starts /\ k \in DOMAIN waitingForId
           THEN /\ waitingForId' = Drop(waitingForId, k)
                /\ heard' = [heard EXCEPT ![u] = waitingForId[k]]
           ELSE UNCHANGED << waitingForId, heard >>
  BY <1>1 DEF Settle, Deliver, Waiting
<1>3. /\ DOMAIN handlers' = DOMAIN handlers \ {m.id}
      /\ \A l \in DOMAIN subscriptions' : l \in DOMAIN subscriptions \/ l[2] = m.id
  BY <1>2 DEF Drop, Restrict, Put, KeyOf
<1>4. ASSUME NEW o \in Nat, Ended(o) PROVE Ended(o)'
  <2>1. nextId \in Nat
    BY DEF Inv, IdsFresh
  <2> QED
    BY <1>3, <1>4, <2>1, EndedForGood
<1>5. ASSUME NEW o \in Nat, NEW n, Got(o, n) PROVE Got(o, n)'
  <2>1. CASE n = 0 \/ Ended(o)
    BY <1>4, <2>1 DEF Got
  <2>2. CASE UNCHANGED << waitingForId, heard >>
    BY <1>4, <1>5, <2>2 DEF Got, Nth
  <2>3. CASE starts /\ k \in DOMAIN waitingForId
    <3>1. /\ waitingForId[k] \in Notes /\ waitingForId[k].sub = u /\ waitingForId[k].owner = m.id
          /\ u \in Subs
      BY <1>1, <2>3, QueuedIsNews
    <3>2. m.id \in AwaitedBy(u)
      BY DEF AwaitedBy
    <3>3. AwaitedBy(u) = {m.id} /\ RegisteredAs(u) = {}
      BY <3>1, <3>2 DEF Inv, OnePlace
    <3>4. /\ waitingForId' = Drop(waitingForId, k)
          /\ heard' = [heard EXCEPT ![u] = waitingForId[k]]
      BY <1>2, <2>3
    <3> HIDE DEF u, k, starts
    <3>5. /\ heard'[u] = waitingForId[k] /\ \A v \in Subs \ {u} : heard'[v] = heard[v]
          /\ \A l \in DOMAIN waitingForId \ {k} : l \in DOMAIN waitingForId' /\ waitingForId'[l] = waitingForId[l]
      BY <3>1, <3>4 DEF Typed, Drop, Restrict
    <3>6. ASSUME NEW l \in DOMAIN waitingForId, Nth(waitingForId[l], o, n) PROVE Got(o, n)'
      <4>1. CASE l = k
        BY <3>1, <3>5, <3>6, <4>1 DEF Got, Nth
      <4>2. CASE l # k
        BY <3>5, <3>6, <4>2 DEF Got, Nth
      <4> QED
        BY <4>1, <4>2
    <3>7. ASSUME NEW v \in Subs, Nth(heard[v], o, n) PROVE Got(o, n)'
      <4>1. CASE v # u
        BY <3>5, <3>7, <4>1 DEF Got, Nth
      <4>2. CASE v = u
        <5>1. heard[u].owner < m.id /\ heard[u].owner \in Nat /\ m.id \in Nat
          BY <1>1, <3>1, <3>2, <3>7, <4>2 DEF Latest, Nth, Typed, Notes, Known, Ids
        <5>2. Ended(heard[u].owner)
          BY <3>1, <3>3, <3>7, <4>2, <5>1, OlderEnded DEF Nth
        <5> QED
          BY <1>4, <3>7, <4>2, <5>2 DEF Got, Nth
      <4> QED
        BY <4>1, <4>2
    <3> QED
      BY <1>5, <2>1, <3>6, <3>7 DEF Got
  <2> QED
    BY <1>2, <2>2, <2>3
<1>6. \A i \in Nat : i <= 1 => ~IsNote(s, i)
  BY DEF IsNote, IsReply
<1>7. \A t \in Sockets : serving'[t] \subseteq serving[t]
  OBVIOUS
<1> QED
  BY <1>5, <1>6, <1>7, ReceptionLeavesNoGap

LEMMA ReceiveReplyNoGap ==
  ASSUME Inv, NEW f, PInv(f), NoGap, NEW s \in Sockets, ReceiveReply(s) PROVE NoGap'
<1>0. PICK m : m = toClient[s][1]
  OBVIOUS
<1>1. /\ LeftOf(s, 1) /\ Head(toClient[s]) = m /\ IsReply(s, 1)
      /\ Len(toClient[s]) = Len(toClient'[s]) + 1
      /\ UNCHANGED << nextId, serving >>
  BY <1>0, Received DEF PInv, ReceiveReply, IsReply
<1>2. CASE m.id \in DOMAIN handlers
  <2>1. Settle(m)
    BY <1>1, <1>2 DEF ReceiveReply
  <2> QED
    BY <1>0, <1>1, <1>2, <2>1, SettleNoGap
<1>3. CASE m.id \notin DOMAIN handlers
  <2>1. UNCHANGED << handlers, subscriptions, waitingForId, heard >>
    BY <1>1, <1>3 DEF ReceiveReply
  <2>2. \A o, n : Got(o, n) => Got(o, n)'
    BY <1>1, <2>1 DEF Got, Ended, Nth
  <2>3. \A i \in Nat : i <= 1 => ~IsNote(s, i)
    BY <1>1 DEF IsNote, IsReply
  <2>4. \A t \in Sockets : serving'[t] \subseteq serving[t]
    BY <1>1
  <2> QED
    BY <1>1, <2>2, <2>3, <2>4, ReceptionLeavesNoGap DEF PInv
<1> QED
  BY <1>2, <1>3

(* A connection is lost with what had not arrived.                         *)
LEMMA PeerLeavesNoGap ==
  ASSUME Typed, NoGap, NEW s \in Sockets, PeerLeaves(s) PROVE NoGap'
<1>1. /\ serving' = [serving EXCEPT ![s] = {}] /\ UNCHANGED << tableVars, userVars >>
      /\ \E arrived \in Prefixes(toClient[s]) : toClient' = [toClient EXCEPT ![s] = arrived]
  BY DEF PeerLeaves
<1>2. LeftOf(s, 0)
  BY <1>1, Lost
<1>3. serving'[s] = {} /\ \A t \in Sockets : serving'[t] \subseteq serving[t]
  BY <1>1 DEF Typed
<1>4. \A o, n : Got(o, n) => Got(o, n)'
  BY <1>1 DEF Got, Ended, Nth, tableVars, userVars
<1>5. \A i \in Nat : i <= 0 => ~IsNote(s, i)
  BY DEF IsNote
<1> QED
  BY <1>2, <1>3, <1>4, <1>5, ReceptionLeavesNoGap

(* The node acts.                                                          *)
LEMMA NodeActsNoGap ==
  ASSUME Typed, NoGap, NEW s \in Sockets, NodeStep(s) PROVE NoGap'
<1> USE DEF Typed
<1>a. UNCHANGED << tableVars, userVars >>
  BY DEF NodeStep, NodeAnswers, NodeAccepts, NodeRefuses, NodeReplies, NodeNotifies, PeerLeaves
<1>0. /\ serving \in [Sockets -> SUBSET Served] /\ 0 \in 0 .. MaxId
      /\ UNCHANGED << tableVars, userVars >> /\ UNCHANGED heard
  BY <1>a, RpcBoundsAssumption DEF userVars
<1>1. ASSUME NEW r \in inbox[s], NEW ok \in BOOLEAN,
             Post(s, [kind |-> "reply", id |-> r.id, ok |-> ok, sid |-> 0]),
             \A t \in Sockets : serving'[t] \subseteq serving[t]
      PROVE  NoGap'
  <2> DEFINE m == [kind |-> "reply", id |-> r.id, ok |-> ok, sid |-> 0]
  <2>1. m \in Replies \cup Updates /\ m.kind = "reply"
    BY <1>0 DEF Replies, Requests
  <2> HIDE DEF m
  <2>2. Post(s, m)
    BY <1>1 DEF m
  <2> QED
    BY <1>0, <1>1, <2>1, <2>2, PostLeavesNoGap
<1>2. ASSUME NEW r \in inbox[s], NodeAnswers(s, r) PROVE NoGap'
  <2>1. \A t \in Sockets : serving'[t] \subseteq serving[t]
    BY <1>2 DEF NodeAnswers
  <2> QED
    BY <1>1, <1>2, <2>1 DEF NodeAnswers
<1>3. ASSUME NEW r \in inbox[s], NodeRefuses(s, r) PROVE NoGap'
  <2>1. \A t \in Sockets : serving'[t] \subseteq serving[t]
    BY <1>3 DEF NodeRefuses
  <2> QED
    BY <1>1, <1>3, <2>1 DEF NodeRefuses
<1>4. ASSUME NEW r \in inbox[s], NodeAccepts(s, r) PROVE NoGap'
  <2> DEFINE x == [sid |-> IF UniqueIds THEN r.id ELSE served[s] + 1, sub |-> r.sub,
                   owner |-> r.id, sent |-> 0, replied |-> FALSE]
  <2>1. serving' = [serving EXCEPT ![s] = @ \cup {x}] /\ UNCHANGED toClient /\ x.sent = 0
    BY <1>4 DEF NodeAccepts
  <2> HIDE DEF x
  <2>2. \A o, n : Got(o, n) => Got(o, n)'
    BY <1>0 DEF Got, Ended, Nth, tableVars
  <2>3. \A t \in Sockets : \A y \in serving'[t] : y \in serving[t] \/ y.sent = 0
    BY <2>1
  <2>4. ASSUME NEW t \in Sockets, NEW j \in Nat, NEW o \in Nat, NEW n \in Nat, WantedBy(t, j, o, n)'
        PROVE  Ahead(t, j, o, n)'
    <3>1. CASE n = 0
      BY <3>1 DEF Ahead, Got
    <3>2. CASE n # 0
      <4>1. WantedBy(t, j, o, n)
        BY <2>1, <2>3, <2>4, <3>2 DEF WantedBy, IsNote, Nth
      <4>2. Ahead(t, j, o, n)
        BY <4>1 DEF NoGap
      <4> QED
        BY <2>1, <2>2, <4>2 DEF Ahead, IsNote, Nth
    <3> QED
      BY <3>1, <3>2
  <2> QED
    BY <2>4 DEF NoGap
<1>5. ASSUME NEW x \in serving[s], NodeReplies(s, x) PROVE NoGap'
  <2> DEFINE m == [kind |-> "reply", id |-> x.owner, ok |-> TRUE, sid |-> x.sid]
             y == [x EXCEPT !.replied = TRUE]
  <2>1. /\ m \in Replies \cup Updates /\ m.kind = "reply"
        /\ y.owner = x.owner /\ y.sent = x.sent
    BY <1>0, RpcBoundsAssumption DEF Replies, Served, Ids
  <2>2. serving' = [serving EXCEPT ![s] = (@ \ {x}) \cup {y}] /\ Post(s, m)
    BY <1>5 DEF NodeReplies
  <2> HIDE DEF m, y
  <2>3. \A t \in Sockets : \A z \in serving'[t] : \E w \in serving[t] : z.owner = w.owner /\ z.sent = w.sent
    BY <2>1, <2>2
  <2> QED
    BY <1>0, <2>1, <2>2, <2>3, PostLeavesNoGap
<1>6. ASSUME NEW x \in serving[s], NodeNotifies(s, x) PROVE NoGap'
  <2> DEFINE note == [sub |-> x.sub, owner |-> x.owner, n |-> x.sent + 1]
             m == [kind |-> "note", key |-> KeyOf(x.sub, x.sid), note |-> note]
             y == [x EXCEPT !.sent = x.sent + 1]
  <2>1. /\ serving' = [serving EXCEPT ![s] = (@ \ {x}) \cup {y}] /\ Post(s, m)
        /\ x.sent < MaxNotes /\ x \in Served
    BY <1>6 DEF NodeNotifies
  <2>2. /\ note \in Notes /\ note # NULL /\ note.owner = x.owner /\ note.n = x.sent + 1
        /\ y.owner = x.owner /\ y.sent = x.sent + 1
    BY <2>1, RpcBoundsAssumption, NullAssumption DEF Notes, Served
  <2> HIDE DEF note, y
  <2>3. m \in Replies \cup Updates /\ m.kind = "note" /\ m.note = note
    BY <2>1, <2>2 DEF Updates, Keys, KeyOf, Types, Served
  <2> HIDE DEF m
  <2>4. Nth(m.note, x.owner, x.sent + 1) /\ Nth(m.note, y.owner, y.sent)
    BY <2>2, <2>3 DEF Nth
  <2>5. \A t \in Sockets : \A z \in serving'[t] : z \in serving[t] \/ (t = s /\ z = y)
    BY <2>1
  <2> QED
    BY <1>0, <2>1, <2>3, <2>4, <2>5, PostLeavesNoGap
<1>7. CASE PeerLeaves(s)
  BY <1>7, PeerLeavesNoGap
<1> QED
  BY <1>2, <1>3, <1>4, <1>5, <1>6, <1>7 DEF NodeStep

LEMMA TablesLeaveNoGap ==
  ASSUME Inv, NoGap, UNCHANGED << tableVars, heard, serving, toClient >> PROVE NoGap'
<1>1. nextId \in Nat /\ nextId' = nextId
  BY DEF Inv, IdsFresh, tableVars
<1> QED
  BY <1>1, RequestsLeaveNoGap DEF tableVars

LEMMA UserLeavesNoGap == ASSUME Inv, NoGap, UserStep PROVE NoGap'
<1>1. ASSUME NEW kind, NEW u, NEW sid, SendRpc(kind, u, sid)
      PROVE  /\ nextId' \in Nat /\ nextId <= nextId'
             /\ \A id \in DOMAIN handlers' : id \in DOMAIN handlers \/ id > nextId
  <2>1. nextId \in Nat
    BY DEF Inv, IdsFresh
  <2>2. CASE UNCHANGED << nextId, handlers >>
    BY <2>1, <2>2
  <2>3. CASE ~UNCHANGED << nextId, handlers >>
    <3>1. nextId' = nextId + 1 /\ DOMAIN handlers' = DOMAIN handlers \cup {nextId + 1}
      BY <1>1, <2>3 DEF SendRpc, Put
    <3> QED
      BY <2>1, <3>1
  <2> QED
    BY <2>2, <2>3
<1>2. UNCHANGED << waitingForId, heard, serving, toClient >>
  BY DEF UserStep, Send, Subscribe, Unsubscribe
<1>3. DOMAIN subscriptions' \subseteq DOMAIN subscriptions
  BY DEF UserStep, Send, Subscribe, Unsubscribe, Drop, Restrict
<1>4. \E kind, u, sid : SendRpc(kind, u, sid)
  BY DEF UserStep, Send, Subscribe, Unsubscribe
<1>5. /\ nextId' \in Nat /\ nextId <= nextId'
      /\ \A id \in DOMAIN handlers' : id \in DOMAIN handlers \/ id > nextId
  BY <1>1, <1>4
<1> QED
  BY <1>2, <1>3, <1>5, RequestsLeaveNoGap DEF Inv, IdsFresh

LEMMA SocketOpenedNoGap ==
  ASSUME Inv, NoGap, NEW s \in Sockets, SocketOpened(s) PROVE NoGap'
<1> DEFINE n == Cardinality(Renewed)
           newIds == nextId + 1 .. nextId + n
<1>1. n \in Nat /\ nextId \in Nat
  BY FS_Subset, FS_CardinalityType DEF Inv, IdsFresh, Renewed
<1>2. /\ nextId' = nextId + n
      /\ DOMAIN handlers' = DOMAIN handlers \cup newIds
      /\ subscriptions' = Remaining
      /\ UNCHANGED << waitingForId, heard, serving, toClient >>
  BY DEF SocketOpened, Resubscribe, userVars
<1>3. nextId' \in Nat /\ nextId <= nextId' /\ \A id \in newIds : id > nextId
  BY <1>1, <1>2
<1>4. DOMAIN subscriptions' = {}
  BY <1>2 DEF Remaining, EmptyMap
<1> HIDE DEF newIds, n
<1> QED
  BY <1>1, <1>2, <1>3, <1>4, RequestsLeaveNoGap

(* While callbacks hear what they should (Inv, PInv), nothing gets lost in  *)
(* front of a notification that is still to come.                          *)
LEMMA NoGapStep ==
  ASSUME Inv, \E f : PInv(f), NoGap, [ProviderNext]_vars PROVE NoGap'
<1>0. PICK f : PInv(f)
  OBVIOUS
<1>1. CASE ConnectionStep \/ UNCHANGED vars
  <2>1. UNCHANGED << tableVars, heard, serving, toClient >>
    BY <1>1 DEF ConnectionStep, rpcVars, userVars, nodeVars, vars
  <2> QED
    BY <2>1, TablesLeaveNoGap
<1>2. CASE UserStep
  BY <1>2, UserLeavesNoGap
<1>3. ASSUME NEW s \in Sockets, SocketStep(s) PROVE NoGap'
  <2>1. CASE SocketClosed(s)
    <3>1. UNCHANGED << tableVars, heard, serving, toClient >>
      BY <2>1 DEF SocketClosed, userVars
    <3> QED
      BY <3>1, TablesLeaveNoGap
  <2>2. CASE SocketOpened(s)
    BY <2>2, SocketOpenedNoGap
  <2> QED
    BY <1>0, <1>3, <2>1, <2>2, ReceiveReplyNoGap, ReceiveNoteNoGap DEF SocketStep
<1>4. ASSUME NEW s \in Sockets, NodeStep(s) PROVE NoGap'
  BY <1>0, <1>4, NodeActsNoGap DEF PInv
<1> QED
  BY <1>1, <1>2, <1>3, <1>4 DEF ProviderNext
-----------------------------------------------------------------------------
(* Each step is one of SubscriptionLifecycle.tla, or changes nothing there.*)
Stutters == UNCHANGED << stage, heard, quit >>

LEMMA StageIs ==
  ASSUME Inv, NEW u \in Subs
  PROVE  /\ stage[u] = "active" <=> RegisteredAs(u) # {}
         /\ stage[u] = "requested" <=> RegisteredAs(u) = {} /\ Pending(u)
         /\ stage[u] = "idle" <=> u \notin asked
         /\ stage[u] \in {"active", "requested", "idle", "ended"}
<1>1. Active(u) <=> RegisteredAs(u) # {}
  BY DEF Active, RegisteredAs
<1>2. Pending(u) => AwaitedBy(u) # {}
  BY DEF Pending, AwaitedBy
<1>3. (u \notin asked => ~Active(u) /\ ~Pending(u)) /\ ~(Active(u) /\ Pending(u))
  BY <1>1, <1>2 DEF Inv, OnePlace
<1> QED
  BY <1>1, <1>3 DEF stage

LEMMA StageStays ==
  ASSUME NEW u \in Subs, RegisteredAs(u)' = RegisteredAs(u), Pending(u)' <=> Pending(u),
         u \in asked' <=> u \in asked
  PROVE  stage'[u] = stage[u]
<1>1. Active(u) <=> RegisteredAs(u) # {}
  BY DEF Active, RegisteredAs
<1>2. Active(u)' <=> RegisteredAs(u)' # {}
  BY DEF Active, RegisteredAs
<1>3. Active(u)' <=> Active(u)
  BY <1>1, <1>2
<1> QED
  BY <1>3 DEF stage

LEMMA StageIsFunction ==
  /\ DOMAIN stage = Subs /\ DOMAIN stage' = Subs
  /\ (\A v \in Subs : stage'[v] = stage[v]) => stage' = stage
  /\ \A u \in Subs : (\A v \in Subs \ {u} : stage'[v] = stage[v])
                       => stage' = [stage EXCEPT ![u] = stage'[u]]
<1>1. stage = [v \in Subs |-> stage[v]] /\ stage' = [v \in Subs |-> stage'[v]]
  BY DEF stage
<1> QED
  BY <1>1

LEMMA SameTablesStutter ==
  ASSUME UNCHANGED << subscriptions, handlers, future, asked >> PROVE UNCHANGED stage
<1>1. \A u \in Subs : RegisteredAs(u)' = RegisteredAs(u) /\ (Pending(u)' <=> Pending(u))
  BY DEF RegisteredAs, Pending
<1> QED
  BY <1>1, StageStays, StageIsFunction

(* A request for u, or for none, changes what is pending for u only.       *)
LEMMA SendRpcSeen ==
  ASSUME Inv, NEW kind, NEW u \in Subs \cup {NULL}, NEW sid, SendRpc(kind, u, sid)
  PROVE  \A v \in Subs \ {u} : Pending(v)' <=> Pending(v)
<1>1. CASE UNCHANGED << nextId, handlers, future >>
  BY <1>1 DEF Pending
<1>2. CASE ~UNCHANGED << nextId, handlers, future >>
  <2> DEFINE id == nextId + 1
             e == [sub |-> u, resub |-> FALSE]
  <2>1. /\ handlers' = Put(handlers, id, e)
        /\ \E throws \in AddThrows :
             future' = [future EXCEPT ![id] = IF throws THEN "failed" ELSE "pending"]
        /\ e.sub = u
    BY <1>2 DEF SendRpc
  <2>2. id \notin DOMAIN handlers
    BY DEF Inv, IdsFresh
  <2> HIDE DEF id, e
  <2>3. /\ DOMAIN handlers' = DOMAIN handlers \cup {id} /\ handlers'[id] = e
        /\ \A i \in DOMAIN handlers : handlers'[i] = handlers[i]
    BY <2>1, <2>2 DEF Put
  <2>4. \A i \in DOMAIN handlers : future'[i] = future[i]
    BY <2>1, <2>2 DEF Inv, IdsFresh
  <2> QED
    BY <2>1, <2>3, <2>4 DEF Pending
<1> QED
  BY <1>1, <1>2

LEMMA SendStutters == ASSUME Inv, Send PROVE Stutters
<1>1. /\ SendRpc("call", NULL, 0)
      /\ UNCHANGED << subscriptions, asked, heard, quit >>
  BY DEF Send
<1>2. \A v \in Subs : Pending(v)' <=> Pending(v)
  BY <1>1, SendRpcSeen, SubsAssumption
<1>3. \A v \in Subs : RegisteredAs(v)' = RegisteredAs(v)
  BY <1>1 DEF RegisteredAs
<1> QED
  BY <1>1, <1>2, <1>3, StageStays, StageIsFunction DEF Stutters

LEMMA SubscribeRequests ==
  ASSUME Inv, NEW u \in Subs, Subscribe(u) PROVE Promise!Request(u) \/ Promise!Refuse(u)
<1>1. /\ u \notin asked /\ asked' = asked \cup {u}
      /\ SendRpc("subscribe", u, 0)
      /\ UNCHANGED << subscriptions, heard, quit >>
  BY DEF Subscribe
<1>2. \A v \in Subs \ {u} : stage'[v] = stage[v]
  <2>1. \A v \in Subs \ {u} : RegisteredAs(v)' = RegisteredAs(v)
    BY <1>1 DEF RegisteredAs
  <2> QED
    BY <1>1, <2>1, SendRpcSeen, StageStays
<1>3. stage[u] = "idle"
  BY <1>1, StageIs
<1>4. stage'[u] \in {"requested", "ended"}
  <2>1. RegisteredAs(u)' = {}
    BY <1>1 DEF RegisteredAs, Inv, OnePlace
  <2>2. ~Active(u)'
    BY <2>1 DEF Active, RegisteredAs
  <2> QED
    BY <1>1, <2>2 DEF stage
<1> QED
  BY <1>1, <1>2, <1>3, <1>4, StageIsFunction DEF Promise!Request, Promise!Refuse, Promise!Become

(* The id that subscribe() returned is an id of that subscription.         *)
LEMMA UnsubscribeLeaves ==
  ASSUME Inv, NEW f, PInv(f), NEW u \in Subs, Unsubscribe(u) PROVE Promise!Leave(u)
<1> DEFINE k == KeyOf(u, knownId[u])
<1>1. /\ k \in DOMAIN subscriptions /\ subscriptions' = Drop(subscriptions, k)
      /\ SendRpc("unsubscribe", NULL, knownId[u])
      /\ UNCHANGED << asked, heard >> /\ u \notin quit /\ quit' = quit \cup {u}
  BY DEF Unsubscribe
<1>2. subscriptions[k] = u
  <2>1. PICK id \in Ids : Known(f, nextId, id, subscriptions[k]) /\ k = KeyOf(subscriptions[k], id)
    BY <1>1 DEF PInv, Meant, MeantByTables
  <2>2. knownId[u] = id /\ id # 0
    BY <2>1, KeyTells DEF Ids
  <2> QED
    BY <2>1, <2>2 DEF PInv, Meant, MeantByTables, Known
<1> HIDE DEF k
<1>3. /\ DOMAIN subscriptions' = DOMAIN subscriptions \ {k}
      /\ \A l \in DOMAIN subscriptions' : subscriptions'[l] = subscriptions[l]
  BY <1>1 DEF Drop, Restrict
<1>4. \A v \in Subs : Pending(v)' <=> Pending(v)
  BY <1>1, SendRpcSeen, SubsAssumption
<1>5. \A v \in Subs \ {u} : stage'[v] = stage[v]
  <2>1. \A v \in Subs \ {u} : RegisteredAs(v)' = RegisteredAs(v)
    BY <1>2, <1>3 DEF RegisteredAs
  <2> QED
    BY <1>1, <1>4, <2>1, StageStays
<1>6. k \in RegisteredAs(u)
  BY <1>1, <1>2 DEF RegisteredAs
<1>7. stage[u] = "active"
  BY <1>6, StageIs
<1>8. stage'[u] = "ended"
  <2>1. RegisteredAs(u)' = {}
    BY <1>3, <1>6 DEF Inv, OnePlace, RegisteredAs
  <2>2. ~Active(u)'
    BY <2>1 DEF Active, RegisteredAs
  <2>3. ~Pending(u)'
    BY <1>4, <1>6 DEF Inv, OnePlace, Pending, AwaitedBy
  <2>4. u \in asked'
    BY <1>1, <1>6 DEF Inv, OnePlace
  <2> QED
    BY <2>2, <2>3, <2>4 DEF stage
<1> QED
  BY <1>1, <1>5, <1>7, <1>8, StageIsFunction DEF Promise!Leave, Promise!Become

LEMMA SocketOpenedRenews ==
  ASSUME Inv, NEW f, PInv(f), NEW s \in Sockets, SocketOpened(s) PROVE Promise!Renew
<1> DEFINE n == Cardinality(Renewed)
           newIds == nextId + 1 .. nextId + n
<1>1. Resubscribe(s) /\ UNCHANGED << asked, heard, quit >>
  BY DEF SocketOpened, userVars
<1>2. n \in Nat /\ nextId \in Nat /\ DOMAIN handlers \subseteq 1 .. nextId /\ DOMAIN handlers \subseteq Ids
  BY FS_Subset, FS_CardinalityType DEF Inv, IdsFresh, Renewed
<1>3. PICK order \in Bijection(newIds, Renewed) :
        /\ handlers' = [i \in DOMAIN handlers \cup newIds |->
                          IF i \in newIds THEN [sub |-> subscriptions[order[i]], resub |-> TRUE]
                                          ELSE handlers[i]]
        /\ future' = [i \in Ids |-> IF i \in newIds THEN "pending" ELSE future[i]]
        /\ subscriptions' = Remaining
  BY <1>1 DEF Resubscribe
<1>4. \A i \in DOMAIN handlers : i \notin newIds
  BY <1>2
<1>5. \A i \in newIds : order[i] \in DOMAIN subscriptions
  BY <1>3 DEF Bijection, Injection, Surjection, Renewed
<1>6. DOMAIN subscriptions' = {}
  BY <1>3 DEF Remaining, EmptyMap
<1>0. newIds \subseteq Ids
  BY <1>1, <1>2, RpcBoundsAssumption DEF Resubscribe, Ids
<1> HIDE DEF newIds, n
<1>7. /\ DOMAIN handlers' = DOMAIN handlers \cup newIds
      /\ \A i \in newIds : handlers'[i].sub = subscriptions[order[i]]
      /\ \A i \in DOMAIN handlers : handlers'[i] = handlers[i] /\ future'[i] = future[i]
  BY <1>2, <1>3, <1>4
<1>8. ASSUME NEW u \in Subs
      PROVE  stage'[u] = IF stage[u] # "active" THEN stage[u]
                         ELSE IF TypeOf[u] \notin AuthorTypes THEN "requested" ELSE "ended"
  <2>1. RegisteredAs(u)' = {}
    BY <1>6 DEF RegisteredAs
  <2>2. CASE stage[u] = "active"
    <3>1. ~Active(u)'
      BY <2>1 DEF Active, RegisteredAs
    <3>2. u \in asked'
      BY <1>1, <2>2, StageIs DEF Inv, OnePlace
    <3>3. PICK k \in DOMAIN subscriptions : subscriptions[k] = u
      BY <2>2, StageIs DEF RegisteredAs
    <3>4. k[1] = TypeOf[u]
      BY <3>3 DEF PInv, Meant, MeantByTables, KeyOf
    <3>5. CASE TypeOf[u] \notin AuthorTypes
      <4>1. k \in Renewed
        BY <3>3, <3>4, <3>5 DEF Renewed
      <4>2. PICK i \in newIds : order[i] = k
        BY <1>3, <4>1 DEF Bijection, Surjection
      <4>3. i \in DOMAIN handlers' /\ handlers'[i].sub = u
        BY <1>7, <3>3, <4>2
      <4>4. future'[i] = "pending"
        BY <1>0, <1>3
      <4>5. Pending(u)'
        BY <4>3, <4>4 DEF Pending
      <4>6. stage'[u] = "requested"
        BY <3>1, <3>2, <4>5 DEF stage
      <4> QED
        BY <2>2, <3>5, <4>6
    <3>6. CASE TypeOf[u] \in AuthorTypes
      <4>1. \A i \in newIds : handlers'[i].sub # u
        BY <1>3, <1>5, <1>7, <3>6
           DEF PInv, Meant, MeantByTables, KeyOf, Renewed, Bijection, Injection, Surjection
      <4>2. ~Pending(u)
        BY <2>2, StageIs DEF Inv, OnePlace, Pending, AwaitedBy
      <4>3. ~Pending(u)'
        BY <1>7, <4>1, <4>2 DEF Pending
      <4> QED
        BY <2>2, <3>1, <3>2, <3>6, <4>3 DEF stage
    <3> QED
      BY <3>5, <3>6
  <2>3. CASE stage[u] # "active"
    <3>1. RegisteredAs(u) = {}
      BY <2>3, StageIs
    <3>2. \A i \in newIds : handlers'[i].sub # u
      BY <1>5, <1>7, <3>1 DEF RegisteredAs
    <3>3. Pending(u)' <=> Pending(u)
      BY <1>7, <3>2 DEF Pending
    <3> QED
      BY <1>1, <2>1, <2>3, <3>1, <3>3, StageStays
  <2> QED
    BY <2>2, <2>3
<1>9. stage' = [u \in Subs |-> stage'[u]]
  BY DEF stage
<1> QED
  BY <1>1, <1>8, <1>9 DEF Promise!Renew

LEMMA SettleConfirms ==
  ASSUME Inv, NEW f, PInv(f), NEW s \in Sockets, NEW m, IsReply(s, 1), m = toClient[s][1],
         m.id \in DOMAIN handlers, Settle(m), UNCHANGED << asked, quit >>, NEW u, u = handlers[m.id].sub
  PROVE  Stutters \/ (u \in Subs /\ (Promise!Confirm(u) \/ Promise!Refuse(u)))
<1> DEFINE k == KeyOf(u, m.id)
           starts == m.ok /\ u # NULL
<1>1. Known(f, nextId, m.id, u) /\ u \in Subs \cup {NULL} /\ (starts => m.sid = m.id)
  <2>1. Known(f, nextId, m.id, u)
    BY DEF PInv, Meant, MeantByTables
  <2>2. m.ok /\ f[m.id] # NULL => m.sid = m.id
    BY DEF PInv, Meant, MeantByNode, IsReply
  <2> QED
    BY <2>1, <2>2 DEF PInv, Known, Meant
<1>2. /\ handlers' = Drop(handlers, m.id)
      /\ future' = [future EXCEPT ![m.id] = Outcome(m)]
      /\ IF starts THEN subscriptions' = Put(subscriptions, k, u) ELSE UNCHANGED subscriptions
      /\ IF starts /\ k \in DOMAIN waitingForId
           THEN heard' = [heard EXCEPT ![u] = waitingForId[k]]
           ELSE UNCHANGED heard
  BY <1>1 DEF Settle, Deliver, Waiting
<1>3. starts => k \notin DOMAIN subscriptions
  BY <1>1, KeyTells DEF PInv, Meant, MeantByTables
<1> HIDE DEF k
<1>4. /\ DOMAIN handlers' = DOMAIN handlers \ {m.id}
      /\ \A i \in DOMAIN handlers' : handlers'[i] = handlers[i] /\ future'[i] = future[i]
  BY <1>2 DEF Drop, Restrict, Inv, IdsFresh
<1>5. \A v \in Subs \ {u} : stage'[v] = stage[v]
  <2>1. \A v \in Subs \ {u} : RegisteredAs(v)' = RegisteredAs(v)
    BY <1>2, <1>3 DEF RegisteredAs, Put
  <2>2. \A v \in Subs \ {u} : Pending(v)' <=> Pending(v)
    BY <1>4 DEF Pending
  <2> QED
    BY <2>1, <2>2, StageStays
<1>6. CASE u = NULL
  <2>1. \A v \in Subs : stage'[v] = stage[v]
    BY <1>5, <1>6, SubsAssumption
  <2> QED
    BY <1>2, <1>6, <2>1, StageIsFunction DEF Stutters
<1>7. CASE u \in Subs
  <2>1. m.id \in AwaitedBy(u) /\ future[m.id] = "pending"
    <3>1. OnItsWay(m.id)
      BY DEF OnItsWay
    <3> QED
      BY <3>1 DEF AwaitedBy, PInv, Awaited
  <2>2. RegisteredAs(u) = {} /\ AwaitedBy(u) = {m.id} /\ u \in asked
    BY <1>7, <2>1 DEF Inv, OnePlace
  <2>3. stage[u] = "requested"
    <3>1. Pending(u)
      BY <2>1 DEF Pending, AwaitedBy
    <3> QED
      BY <1>7, <2>2, <3>1, StageIs
  <2>4. ~Pending(u)'
    BY <1>4, <2>2 DEF Pending, AwaitedBy
  <2>5. CASE ~m.ok
    <3>1. RegisteredAs(u)' = {}
      BY <1>2, <2>2, <2>5 DEF RegisteredAs
    <3>2. ~Active(u)'
      BY <3>1 DEF Active, RegisteredAs
    <3>3. stage'[u] = "ended"
      BY <1>7, <2>2, <2>4, <3>2 DEF stage
    <3>4. UNCHANGED heard
      BY <1>2, <2>5
    <3>5. Promise!Refuse(u)
      BY <1>5, <1>7, <2>3, <3>3, <3>4, StageIsFunction DEF Promise!Refuse, Promise!Become
    <3> QED
      BY <1>7, <3>5
  <2>6. CASE m.ok
    <3>1. starts
      BY <1>7, <2>6, SubsAssumption
    <3>2. k \in DOMAIN subscriptions' /\ subscriptions'[k] = u
      BY <1>2, <3>1 DEF Put
    <3>3. stage'[u] = "active"
      <4>1. Active(u)' /\ u \in asked'
        BY <2>2, <3>2 DEF Active
      <4> QED
        BY <1>7, <2>4, <4>1 DEF stage
    <3>4. UNCHANGED heard \/ Promise!Hear(u)
      <4>1. CASE k \in DOMAIN waitingForId
        <5>1. /\ waitingForId[k] \in Notes /\ waitingForId[k].sub = u
              /\ heard[u] # NULL => Promise!Newer(waitingForId[k], heard[u])
          BY <1>7, <4>1, QueuedIsNews DEF k
        <5>2. waitingForId[k] # NULL /\ Promise!Newer(waitingForId[k], heard[u])
          BY <5>1, NullAssumption DEF Promise!Newer
        <5>3. heard' = [heard EXCEPT ![u] = waitingForId[k]]
          BY <1>2, <3>1, <4>1
        <5> HIDE DEF starts
        <5>4. heard'[u] = waitingForId[k]
          BY <1>7, <5>3 DEF PInv, Typed
        <5> QED
          BY <5>1, <5>2, <5>3, <5>4 DEF Promise!Hear
      <4> QED
        BY <1>2, <4>1
    <3>5. Promise!Confirm(u)
      BY <1>5, <1>7, <2>3, <3>3, <3>4, StageIsFunction DEF Promise!Confirm, Promise!Become
    <3> QED
      BY <1>7, <3>5
  <2> QED
    BY <2>5, <2>6
<1> QED
  BY <1>1, <1>6, <1>7

LEMMA ReceiveReplyConfirms ==
  ASSUME Inv, NEW f, PInv(f), NEW s \in Sockets, ReceiveReply(s)
  PROVE  Stutters \/ \E u \in Subs : Promise!Confirm(u) \/ Promise!Refuse(u)
<1> DEFINE m == toClient[s][1]
<1>1. Head(toClient[s]) = m /\ IsReply(s, 1) /\ UNCHANGED << asked, quit >>
  BY Received DEF PInv, ReceiveReply, IsReply
<1>2. CASE m.id \in DOMAIN handlers
  <2>1. Settle(m)
    BY <1>1, <1>2 DEF ReceiveReply
  <2>2. PICK n, u : n = m /\ u = handlers[m.id].sub
    OBVIOUS
  <2> HIDE DEF m
  <2>3. Settle(n) /\ n.id \in DOMAIN handlers /\ u = handlers[n.id].sub
    BY <1>2, <2>1, <2>2
  <2> QED
    BY <1>1, <2>2, <2>3, SettleConfirms DEF m
<1>3. CASE m.id \notin DOMAIN handlers
  <2>1. UNCHANGED << handlers, future, subscriptions, heard >>
    BY <1>1, <1>3 DEF ReceiveReply
  <2> QED
    BY <1>1, <2>1, SameTablesStutter DEF Stutters
<1> QED
  BY <1>2, <1>3

(* A registered subscription hears the next of its notifications.          *)
LEMMA NoteFollows ==
  ASSUME Inv, NEW f, PInv(f), NoGap, NEW s \in Sockets, IsNote(s, 1),
         toClient[s][1].key \in DOMAIN subscriptions,
         NEW a, a = toClient[s][1].note, NEW u, u = subscriptions[toClient[s][1].key]
  PROVE  Promise!Follows(a, heard[u])
<1> USE DEF PInv
<1>1. /\ a \in Notes /\ Out(a) /\ a.owner \in Nat /\ a.n \in Nat \ {0}
      /\ toClient[s][1].key = KeyOf(a.sub, a.owner) /\ a # NULL
  BY MessageIs, RpcBoundsAssumption, NullAssumption
     DEF IsNote, Updates, Out, InFlight, Meant, MeantByNotes, Notes, Ids
<1>2. u \in Subs /\ a.sub = u /\ toClient[s][1].key[2] = a.owner
  BY NoteIsNews
<1>3. heard[u] # NULL => Before(heard[u], a) /\ heard[u] \in Notes
  BY <1>2 DEF Ordered, Typed
<1>4. CASE a.n = 1
  <2>1. ~(heard[u] # NULL /\ a.owner = heard[u].owner)
    BY <1>3, <1>4, RpcBoundsAssumption DEF Before, Notes
  <2> QED
    BY <1>4, <2>1 DEF Promise!Follows
<1>5. CASE a.n # 1
  <2>1. PICK n \in Nat : n = a.n - 1 /\ n # 0
    BY <1>1, <1>5
  <2>2. WantedBy(s, 1, a.owner, n)
    BY <1>1, <2>1 DEF WantedBy, Nth
  <2>3. Got(a.owner, n)
    <3>1. Ahead(s, 1, a.owner, n)
      BY <1>1, <2>2 DEF NoGap
    <3>2. \A i \in Nat : i < 1 => ~IsNote(s, i)
      BY DEF IsNote
    <3> QED
      BY <3>1, <3>2 DEF Ahead
  <2>4. ~Ended(a.owner)
    BY <1>2 DEF Ended
  <2>5. ASSUME NEW k \in DOMAIN waitingForId, Nth(waitingForId[k], a.owner, n) PROVE FALSE
    <3>1. k = KeyOf(a.sub, a.owner)
      BY <1>1, <2>5, QueuedUnderOwnKey DEF Meant, MeantByNotes, Nth
    <3> QED
      BY <1>1, <3>1 DEF Inv, NothingStuck
  <2>6. PICK v \in Subs : Nth(heard[v], a.owner, n)
    BY <2>1, <2>3, <2>4, <2>5 DEF Got
  <2>7. v = u
    <3>1. heard[v] \in Notes /\ Out(heard[v])
      BY <2>6 DEF Nth, Typed, Out, Heard
    <3>2. f[a.owner] = v /\ f[a.owner] = u
      BY <1>1, <1>2, <2>6, <3>1 DEF Nth, Meant, MeantByNotes, Known
    <3> QED
      BY <3>2
  <2> QED
    BY <1>1, <2>1, <2>6, <2>7 DEF Nth, Promise!Follows
<1> QED
  BY <1>4, <1>5

LEMMA ReceiveNoteNotifies ==
  ASSUME Inv, NEW f, PInv(f), NoGap, NEW s \in Sockets, ReceiveNote(s)
  PROVE  Stutters \/ \E u \in Subs : Promise!Notify(u)
<1> DEFINE m == toClient[s][1]
           u == subscriptions[m.key]
<1>1. /\ Head(toClient[s]) = m /\ IsNote(s, 1)
      /\ UNCHANGED << handlers, future, subscriptions, asked, quit >>
  BY Received DEF PInv, ReceiveNote, IsNote
<1>2. UNCHANGED stage
  BY <1>1, SameTablesStutter
<1>3. CASE m.key \in DOMAIN subscriptions
  <2>1. /\ u \in Subs /\ m.note \in Notes /\ m.note.sub = u
        /\ heard[u] # NULL => Promise!Newer(m.note, heard[u])
    BY <1>1, <1>3, NoteIsNews
  <2>0. Promise!Follows(m.note, heard[u])
    BY <1>1, <1>3, NoteFollows
  <2>2. heard' = [heard EXCEPT ![u] = m.note]
    BY <1>1, <1>3 DEF ReceiveNote, Deliver
  <2>3. m.key \in RegisteredAs(u)
    BY <1>3 DEF RegisteredAs
  <2> HIDE DEF u, m
  <2>4. stage[u] = "active"
    BY <2>1, <2>3, StageIs
  <2>5. m.note # NULL /\ Promise!Newer(m.note, heard[u])
    BY <2>1, NullAssumption DEF Promise!Newer
  <2>6. heard'[u] = m.note
    BY <2>1, <2>2 DEF PInv, Typed
  <2>7. Promise!Hear(u)
    BY <2>1, <2>2, <2>5, <2>6 DEF Promise!Hear
  <2> QED
    BY <1>1, <1>2, <2>0, <2>1, <2>4, <2>6, <2>7 DEF Promise!Notify
<1>4. CASE m.key \notin DOMAIN subscriptions
  BY <1>1, <1>2, <1>4 DEF ReceiveNote, Stutters
<1> QED
  BY <1>3, <1>4

LEMMA StepKeepsPromise ==
  ASSUME Inv, \E f : PInv(f), NoGap, [ProviderNext]_vars
  PROVE  [Promise!Next]_<< stage, heard, quit >>
<1>0. PICK f : PInv(f)
  OBVIOUS
<1>1. CASE ConnectionStep \/ UNCHANGED vars
  <2>1. UNCHANGED << subscriptions, handlers, future, asked, heard, quit >>
    BY <1>1 DEF ConnectionStep, rpcVars, tableVars, userVars, vars
  <2> QED
    BY <2>1, SameTablesStutter
<1>2. CASE UserStep
  <2>1. CASE Send
    BY <2>1, SendStutters DEF Stutters
  <2>2. ASSUME NEW u \in Subs, Subscribe(u) \/ Unsubscribe(u) PROVE Promise!Next
    BY <1>0, <2>2, SubscribeRequests, UnsubscribeLeaves DEF Promise!Next
  <2> QED
    BY <1>2, <2>1, <2>2 DEF UserStep
<1>3. ASSUME NEW s \in Sockets, SocketStep(s) PROVE Stutters \/ Promise!Next
  <2>1. CASE SocketClosed(s)
    <3>1. UNCHANGED << subscriptions, handlers, future, asked, heard, quit >>
      BY <2>1 DEF SocketClosed, tableVars, userVars
    <3> QED
      BY <3>1, SameTablesStutter DEF Stutters
  <2>2. CASE SocketOpened(s)
    BY <1>0, <2>2, SocketOpenedRenews DEF Promise!Next
  <2>3. CASE ReceiveReply(s)
    BY <1>0, <2>3, ReceiveReplyConfirms DEF Promise!Next
  <2>4. CASE ReceiveNote(s)
    BY <1>0, <2>4, ReceiveNoteNotifies DEF Promise!Next
  <2> QED
    BY <1>3, <2>1, <2>2, <2>3, <2>4 DEF SocketStep
<1>4. ASSUME NEW s \in Sockets, NodeStep(s) PROVE Stutters
  <2>1. UNCHANGED << tableVars, userVars >>
    BY <1>4 DEF NodeStep, NodeAnswers, NodeAccepts, NodeRefuses, NodeReplies, NodeNotifies, PeerLeaves
  <2>2. UNCHANGED << subscriptions, handlers, future, asked, heard, quit >>
    BY <2>1 DEF tableVars, userVars
  <2> QED
    BY <2>2, SameTablesStutter DEF Stutters
<1> QED
  BY <1>1, <1>2, <1>3, <1>4 DEF ProviderNext, Stutters

LEMMA InitKeepsPromise == ASSUME ProviderInit PROVE Promise!Init
<1>1. DOMAIN handlers = {} /\ DOMAIN subscriptions = {} /\ asked = {}
  BY DEF ProviderInit, EmptyMap
<1>2. \A u \in Subs : ~Active(u) /\ ~Pending(u) /\ u \notin asked
  BY <1>1 DEF Active, Pending
<1>3. stage = [u \in Subs |-> "idle"]
  BY <1>2 DEF stage
<1> QED
  BY <1>3 DEF ProviderInit, Promise!Init

(* If the node uses no subscription id twice, the provider keeps its        *)
(* promise through drops, reconnections, overlapping sockets and answers in *)
(* any order: a callback hears its own subscription only, each notification *)
(* after those before it, none left out while the subscription is active,   *)
(* and nothing once it is unsubscribed; and nothing but unsubscribe() ends  *)
(* an active subscription, unless its type is author_..., which is not      *)
(* asked for again on a new connection (index.dart:335-420).                *)
THEOREM PromiseIsKept == ASSUME UniqueIds PROVE ProviderSpec => KeepsPromise
<1> DEFINE P == Inv /\ (\E f : PInv(f)) /\ NoGap
<1>1. ProviderInit => P
  BY InitInv, InitPInv, InitNoGap
<1>2. P /\ [ProviderNext]_vars => P'
  BY StepKeeps, PromiseStep, NoGapStep
<1>3. ProviderInit => Promise!Init
  BY InitKeepsPromise
<1>4. P /\ [ProviderNext]_vars => [Promise!Next]_<< stage, heard, quit >>
  BY StepKeepsPromise
<1> HIDE DEF P
<1> QED
  BY <1>1, <1>2, <1>3, <1>4, PTL DEF ProviderSpec, KeepsPromise, Promise!Spec
-----------------------------------------------------------------------------
(* What is registered is served by the node at the other end.              *)

(* A connection that was left, or is not there, has no requests any more.  *)
Cleared(s) == inbox[s] = {} /\ serving[s] = {}
NothingLeftBehind ==
  /\ gone \subseteq Live
  /\ \A s \in Sockets : /\ s \in gone => Cleared(s)
                        /\ s \notin Live => Cleared(s) /\ toClient[s] = << >>

(* An id that the node is asked to end has ended.                          *)
UnsubscribedForGood ==
  \A s \in Sockets : \A r \in inbox[s] : r.kind = "unsubscribe" => Ended(r.sid)

(* A subscription that the node has confirmed and that can be registered is *)
(* served; and so is every one that is registered.                          *)
IsServed(s, id) == \E x \in serving[s] : x.owner = id
ConfirmedAreServed ==
  \A s \in Sockets, i \in Nat :
    Reaches(s) /\ IsReply(s, i) =>
      LET m == toClient[s][i]
      IN  m.ok /\ m.id \in DOMAIN handlers /\ handlers[m.id].sub # NULL => IsServed(s, m.id)
ServesKey(s, k) ==
  \E x \in serving[s] : KeyOf(x.sub, x.sid) = k /\ x.sub = subscriptions[k]
RegisteredAreServed ==
  connects = 0 =>
    \A s \in Sockets : Reaches(s) => \A k \in DOMAIN subscriptions : ServesKey(s, k)

SInv == NothingLeftBehind /\ UnsubscribedForGood /\ ConfirmedAreServed /\ RegisteredAreServed
-----------------------------------------------------------------------------
LEMMA InitSInv == ASSUME ProviderInit PROVE SInv
<1>1. /\ DOMAIN handlers = {} /\ DOMAIN subscriptions = {} /\ gone = {}
      /\ \A s \in Sockets : toClient[s] = << >> /\ inbox[s] = {} /\ serving[s] = {}
  BY DEF ProviderInit, EmptyMap
<1> QED
  BY <1>1 DEF SInv, NothingLeftBehind, Cleared, UnsubscribedForGood, ConfirmedAreServed,
              RegisteredAreServed

(* Messages are only received or lost. *)
LEMMA FewerReplies ==
  ASSUME Typed, NEW s \in Sockets, NEW d \in Nat, LeftOf(s, d)
  PROVE  \A t \in Sockets, i \in Nat : IsReply(t, i)' =>
           \E j \in Nat : IsReply(t, j) /\ toClient[t][j] = toClient'[t][i]
<1>1. ASSUME NEW i \in Nat, IsReply(s, i)'
      PROVE  \E j \in Nat : IsReply(s, j) /\ toClient[s][j] = toClient'[s][i]
  <2>1. i + d \in Nat /\ IsReply(s, i + d) /\ toClient[s][i + d] = toClient'[s][i]
    BY <1>1 DEF LeftOf, IsReply
  <2> QED
    BY <2>1
<1> QED
  BY <1>1, ZenonT(60) DEF LeftOf, IsReply

(* A request is sent; one to unsubscribe is for an id that has ended.      *)
LEMMA SendRpcServed ==
  ASSUME Inv, SInv, NEW f, PInv(f), NEW kind, NEW u \in Subs \cup {NULL}, NEW sid \in 0 .. MaxId,
         SendRpc(kind, u, sid),
         kind = "unsubscribe" => /\ sid <= nextId /\ sid \notin DOMAIN handlers
                                 /\ \A k \in DOMAIN subscriptions' : k[2] # sid,
         \A k \in DOMAIN subscriptions' :
           k \in DOMAIN subscriptions /\ subscriptions'[k] = subscriptions[k],
         UNCHANGED << connVars, serving, toClient, gone >>
  PROVE  SInv'
<1> DEFINE id == nextId + 1
           req == [kind |-> kind, id |-> id, sub |-> u, sid |-> sid]
<1>0. MaxId \in Nat /\ 0 .. MaxId \subseteq Int
  BY RpcBoundsAssumption
<1>1. /\ nextId \in Nat /\ DOMAIN handlers \subseteq 1 .. nextId
      /\ inbox \in [Sockets -> SUBSET Requests]
  BY DEF Inv, IdsFresh, PInv, Typed
<1>2. /\ nextId' \in {nextId, id}
      /\ \A i \in DOMAIN handlers' : i = id \/ (i \in DOMAIN handlers /\ handlers'[i] = handlers[i])
      /\ inbox' \in [Sockets -> SUBSET (Requests \cup {req})]
      /\ \A s \in Sockets : \A r \in inbox'[s] : r \in inbox[s] \/ (r = req /\ Reaches(s))
  <2>1. CASE UNCHANGED << nextId, handlers, future, inbox >>
    BY <1>1, <2>1
  <2>2. CASE ~UNCHANGED << nextId, handlers, future, inbox >>
    <3> DEFINE e == [sub |-> u, resub |-> FALSE]
    <3>1. /\ nextId' = id /\ handlers' = Put(handlers, id, e)
          /\ inbox' = [s \in Sockets |->
                         IF s = websocket /\ Reaches(s) THEN inbox[s] \cup {req} ELSE inbox[s]]
      BY <2>2 DEF SendRpc
    <3> HIDE DEF e, id, req
    <3> QED
      BY <1>1, <3>1 DEF Put
  <2> QED
    BY <2>1, <2>2
<1>3. req.kind = kind /\ req.sid = sid /\ id \in Nat /\ id > nextId
  BY <1>1
<1> HIDE DEF id, req
<1>4. \A s \in Sockets : Reaches(s)' <=> Reaches(s)
  BY DEF Reaches, connVars
<1>5. NothingLeftBehind'
  <2>1. Live' = Live
    BY DEF Live, connVars
  <2>2. \A s \in Sockets : ~Reaches(s) => inbox'[s] \subseteq inbox[s]
    BY <1>2
  <2>3. \A s \in Sockets : s \in gone \/ s \notin Live => ~Reaches(s)
    BY DEF Reaches, Live
  <2>4. \A s \in Sockets : s \in gone \/ s \notin Live => inbox[s] = {} /\ serving[s] = {}
    BY DEF SInv, NothingLeftBehind, Cleared
  <2>5. \A s \in Sockets : s \in gone \/ s \notin Live => inbox'[s] = {}
    BY <2>2, <2>3, <2>4
  <2> QED
    BY <2>1, <2>4, <2>5 DEF SInv, NothingLeftBehind, Cleared
<1>6. UnsubscribedForGood'
  <2>1. ASSUME NEW s \in Sockets, NEW r \in inbox'[s], r.kind = "unsubscribe"
        PROVE  /\ r.sid <= nextId /\ r.sid \notin DOMAIN handlers
               /\ \A k \in DOMAIN subscriptions' : k[2] # r.sid
    BY <1>2, <1>3, <2>1 DEF SInv, UnsubscribedForGood, Ended
  <2>2. ASSUME NEW s \in Sockets, NEW r \in inbox'[s], r.kind = "unsubscribe" PROVE Ended(r.sid)'
    <3>0. r.sid \in Int
      BY <1>0, <1>2, <1>3, <1>1, <2>2 DEF Requests
    <3>1. r.sid <= nextId
      BY <2>1, <2>2
    <3>2. r.sid <= nextId' /\ r.sid # id
      BY <1>1, <1>2, <1>3, <3>0, <3>1
    <3>3. r.sid \notin DOMAIN handlers'
      BY <1>2, <2>1, <2>2, <3>2
    <3> QED
      BY <2>1, <2>2, <3>2, <3>3 DEF Ended
  <2> QED
    BY <2>2 DEF UnsubscribedForGood
<1>7. ConfirmedAreServed'
  <2>1. ASSUME NEW s \in Sockets, NEW i \in Nat, IsReply(s, i) PROVE toClient[s][i].id <= nextId
    BY <2>1 DEF PInv, Meant, MeantByNode, Known
  <2>2. ASSUME NEW s \in Sockets, NEW i \in Nat, IsReply(s, i), toClient[s][i].id \in DOMAIN handlers'
        PROVE  /\ toClient[s][i].id \in DOMAIN handlers
               /\ handlers'[toClient[s][i].id] = handlers[toClient[s][i].id]
    BY <1>1, <1>2, <1>3, <2>1, <2>2
  <2> QED
    BY <1>4, <2>2 DEF SInv, ConfirmedAreServed, IsReply, IsServed
<1>8. RegisteredAreServed'
  BY <1>4 DEF SInv, RegisteredAreServed, ServesKey, connVars
<1> QED
  BY <1>5, <1>6, <1>7, <1>8 DEF SInv

LEMMA UserStepServed == ASSUME Inv, SInv, NEW f, PInv(f), UserStep PROVE SInv'
<1>1. CASE Send
  <2>1. /\ SendRpc("call", NULL, 0) /\ 0 \in 0 .. MaxId
        /\ UNCHANGED << connVars, subscriptions, serving, toClient, gone >>
    BY <1>1, RpcBoundsAssumption DEF Send
  <2> QED
    BY <2>1, SendRpcServed
<1>2. ASSUME NEW u \in Subs, Subscribe(u) PROVE SInv'
  <2>1. /\ SendRpc("subscribe", u, 0) /\ 0 \in 0 .. MaxId
        /\ UNCHANGED << connVars, subscriptions, serving, toClient, gone >>
    BY <1>2, RpcBoundsAssumption DEF Subscribe
  <2> QED
    BY <2>1, SendRpcServed
<1>3. ASSUME NEW u \in Subs, Unsubscribe(u) PROVE SInv'
  <2> DEFINE k == KeyOf(u, knownId[u])
  <2>1. /\ k \in DOMAIN subscriptions /\ subscriptions' = Drop(subscriptions, k)
        /\ SendRpc("unsubscribe", NULL, knownId[u])
        /\ UNCHANGED << connVars, serving, toClient, gone >>
    BY <1>3 DEF Unsubscribe
  <2>2. PICK id \in Ids : /\ Known(f, nextId, id, subscriptions[k]) /\ id \notin DOMAIN handlers
                          /\ k = KeyOf(subscriptions[k], id)
    BY <2>1 DEF PInv, Meant, MeantByTables
  <2>3. knownId[u] = id
    BY <2>2, KeyTells
  <2>4. \A l \in DOMAIN subscriptions : l[2] = id => l = k
    <3>1. ASSUME NEW l \in DOMAIN subscriptions, l[2] = id PROVE l = k
      <4>1. PICK j \in Ids : Known(f, nextId, j, subscriptions[l]) /\ l = KeyOf(subscriptions[l], j)
        BY DEF PInv, Meant, MeantByTables
      <4>2. j = id
        BY <3>1, <4>1 DEF KeyOf
      <4> QED
        BY <2>2, <4>1, <4>2 DEF Known
    <3> QED
      BY <3>1
  <2> HIDE DEF k
  <2>5. /\ \A l \in DOMAIN subscriptions' :
             l \in DOMAIN subscriptions /\ subscriptions'[l] = subscriptions[l] /\ l # k
    BY <2>1 DEF Drop, Restrict
  <2>6. knownId[u] <= nextId /\ knownId[u] \notin DOMAIN handlers /\ knownId[u] \in 0 .. MaxId
    BY <2>2, <2>3 DEF Known, PInv, Typed
  <2>7. \A l \in DOMAIN subscriptions' : l[2] # knownId[u]
    BY <2>3, <2>4, <2>5
  <2> QED
    BY <2>1, <2>5, <2>6, <2>7, SendRpcServed
<1> QED
  BY <1>1, <1>2, <1>3 DEF UserStep

(* What is received: a message of s leaves its queue, and a request may be *)
(* settled.                                                                *)
LEMMA ReceptionServed ==
  ASSUME SInv, NEW f, PInv(f), NEW s \in Live, LeftOf(s, 1),
         UNCHANGED << connVars, nextId, inbox, serving, gone >>,
         \A i \in DOMAIN handlers' : i \in DOMAIN handlers /\ handlers'[i] = handlers[i]
  PROVE  /\ NothingLeftBehind' /\ ConfirmedAreServed'
         /\ \A t : Reaches(t)' <=> Reaches(t)
<1>1. /\ Live' = Live /\ s \in Sockets
      /\ \A t : Reaches(t)' <=> Reaches(t)
  BY DEF Live, Reaches, connVars
<1>2. NothingLeftBehind'
  BY <1>1 DEF SInv, NothingLeftBehind, Cleared, LeftOf
<1>3. ConfirmedAreServed'
  <2>1. \A t \in Sockets, i \in Nat : IsReply(t, i)' =>
          \E j \in Nat : IsReply(t, j) /\ toClient[t][j] = toClient'[t][i]
    BY <1>1, FewerReplies DEF PInv
  <2> QED
    BY <1>1, <2>1 DEF SInv, ConfirmedAreServed, IsServed
<1> QED
  BY <1>1, <1>2, <1>3

LEMMA ReceiveNoteServed ==
  ASSUME SInv, NEW f, PInv(f), NEW s \in Sockets, ReceiveNote(s) PROVE SInv'
<1>1. /\ s \in Live /\ LeftOf(s, 1)
      /\ UNCHANGED << connVars, nextId, handlers, subscriptions, inbox, serving, gone >>
  BY Received DEF PInv, ReceiveNote
<1>2. /\ NothingLeftBehind' /\ ConfirmedAreServed'
      /\ \A t : Reaches(t)' <=> Reaches(t)
  BY <1>1, ReceptionServed
<1>3. UnsubscribedForGood'
  BY <1>1 DEF SInv, UnsubscribedForGood, Ended
<1>4. RegisteredAreServed'
  BY <1>1, <1>2 DEF SInv, RegisteredAreServed, ServesKey, connVars
<1> QED
  BY <1>2, <1>3, <1>4 DEF SInv

(* A subscription is registered when its reply is received, and the node    *)
(* serves it then.                                                         *)
LEMMA SettleServed ==
  ASSUME TypeOK, OneChainPerCall, SInv, NEW f, PInv(f), NEW s \in Live, NEW m,
         IsReply(s, 1), m = toClient[s][1], LeftOf(s, 1), m.id \in DOMAIN handlers, Settle(m),
         UNCHANGED << connVars, nextId, inbox, serving, gone >>
  PROVE  SInv'
<1> DEFINE u == handlers[m.id].sub
           k == KeyOf(u, m.id)
<1>1. /\ \A i \in DOMAIN handlers' : i \in DOMAIN handlers /\ handlers'[i] = handlers[i]
      /\ s \in Sockets
  BY DEF Settle, Drop, Restrict, Live
<1>2. /\ NothingLeftBehind' /\ ConfirmedAreServed'
      /\ \A t : Reaches(t)' <=> Reaches(t)
  BY <1>1, ReceptionServed
<1>3. u = f[m.id] /\ (m.ok /\ u # NULL => m.sid = m.id) /\ m.id \in Ids
  BY <1>1 DEF PInv, Meant, MeantByTables, MeantByNode, Known
<1>4. CASE m.ok /\ u # NULL
  <2>1. subscriptions' = Put(subscriptions, k, u)
    BY <1>3, <1>4 DEF Settle
  <2>2. k[2] = m.id
    BY KeyTells
  <2> HIDE DEF u, k
  <2>3. \A l \in DOMAIN subscriptions' :
          \/ l = k /\ subscriptions'[l] = u
          \/ l \in DOMAIN subscriptions /\ subscriptions'[l] = subscriptions[l]
    BY <2>1 DEF Put
  <2>4. UnsubscribedForGood'
    BY <1>1, <2>2, <2>3 DEF SInv, UnsubscribedForGood, Ended
  <2>5. Reaches(s) => \E x \in serving[s] : KeyOf(x.sub, x.sid) = k /\ x.sub = u
    <3> SUFFICES ASSUME Reaches(s) PROVE \E x \in serving[s] : KeyOf(x.sub, x.sid) = k /\ x.sub = u
      OBVIOUS
    <3>1. PICK x \in serving[s] : x.owner = m.id
      BY <1>1, <1>4 DEF SInv, ConfirmedAreServed, IsServed, u
    <3>2. f[x.owner] = x.sub /\ x.sid = x.owner
      BY <1>1 DEF PInv, Meant, MeantByNode, Known
    <3>3. x.sub = u /\ x.sid = m.id
      BY <1>3, <3>1, <3>2
    <3> QED
      BY <3>3 DEF k
  <2>6. RegisteredAreServed'
    <3> SUFFICES ASSUME connects' = 0, NEW t \in Sockets, Reaches(t)', NEW l \in DOMAIN subscriptions'
                 PROVE  ServesKey(t, l)'
      BY DEF RegisteredAreServed
    <3>1. connects = 0 /\ Reaches(t) /\ t \in Live
      BY <1>2 DEF connVars, Reaches, Live
    <3>2. t = s
      BY <3>1, OneSocketAlone
    <3>3. CASE l = k /\ subscriptions'[l] = u
      BY <2>5, <3>1, <3>2, <3>3 DEF ServesKey
    <3>4. CASE l \in DOMAIN subscriptions /\ subscriptions'[l] = subscriptions[l]
      BY <3>1, <3>4 DEF SInv, RegisteredAreServed, ServesKey
    <3> QED
      BY <2>3, <3>3, <3>4
  <2> QED
    BY <1>2, <2>4, <2>6 DEF SInv
<1>5. CASE ~(m.ok /\ u # NULL)
  <2>1. subscriptions' = subscriptions
    BY <1>5 DEF Settle
  <2>2. UnsubscribedForGood'
    BY <1>1, <2>1 DEF SInv, UnsubscribedForGood, Ended
  <2>3. RegisteredAreServed'
    BY <1>2, <2>1 DEF SInv, RegisteredAreServed, ServesKey, connVars
  <2> QED
    BY <1>2, <2>2, <2>3 DEF SInv
<1> QED
  BY <1>4, <1>5

LEMMA ReceiveReplyServed ==
  ASSUME TypeOK, OneChainPerCall, SInv, NEW f, PInv(f), NEW s \in Sockets, ReceiveReply(s)
  PROVE  SInv'
<1> DEFINE m == toClient[s][1]
<1>1. /\ s \in Live /\ LeftOf(s, 1) /\ Head(toClient[s]) = m /\ IsReply(s, 1)
      /\ UNCHANGED << connVars, nextId, inbox, serving, gone >>
  BY Received DEF PInv, ReceiveReply, IsReply
<1>2. CASE m.id \in DOMAIN handlers
  <2>1. Settle(m)
    BY <1>1, <1>2 DEF ReceiveReply
  <2> QED
    BY <1>1, <1>2, <2>1, SettleServed
<1>3. CASE m.id \notin DOMAIN handlers
  <2>1. UNCHANGED << handlers, subscriptions >>
    BY <1>1, <1>3 DEF ReceiveReply
  <2>2. /\ NothingLeftBehind' /\ ConfirmedAreServed'
        /\ \A t : Reaches(t)' <=> Reaches(t)
    BY <1>1, <2>1, ReceptionServed
  <2>3. UnsubscribedForGood'
    BY <1>1, <2>1 DEF SInv, UnsubscribedForGood, Ended
  <2>4. RegisteredAreServed'
    BY <1>1, <2>1, <2>2 DEF SInv, RegisteredAreServed, ServesKey, connVars
  <2> QED
    BY <2>2, <2>3, <2>4 DEF SInv
<1> QED
  BY <1>2, <1>3
-----------------------------------------------------------------------------
(* The node.                                                               *)
LEMMA NodeServed ==
  ASSUME SInv, NEW f, PInv(f), NEW s \in Sockets, ~Cleared(s),
         UNCHANGED << connVars, tableVars, gone >>,
         \A t \in Sockets : inbox'[t] \subseteq inbox[t],
         \A t \in Sockets \ {s} : serving'[t] = serving[t] /\ toClient'[t] = toClient[t],
         \A x \in serving[s] :
           \/ Ended(x.owner)
           \/ \E y \in serving'[s] : y.owner = x.owner /\ y.sid = x.sid /\ y.sub = x.sub,
         \A i \in Nat : IsReply(s, i)' =>
           \/ IsReply(s, i) /\ toClient'[s][i] = toClient[s][i]
           \/ LET m == toClient'[s][i]
              IN  m.ok /\ m.id \in DOMAIN handlers /\ handlers[m.id].sub # NULL
                    => \E y \in serving'[s] : y.owner = m.id
  PROVE  SInv'
<1>1. /\ Live' = Live /\ UNCHANGED << nextId, handlers, subscriptions, connects >>
      /\ \A t : Reaches(t)' <=> Reaches(t)
  BY DEF Live, Reaches, connVars, tableVars
<1>2. NothingLeftBehind'
  BY <1>1 DEF SInv, NothingLeftBehind, Cleared
<1>3. UnsubscribedForGood'
  BY <1>1 DEF SInv, UnsubscribedForGood, Ended
<1>4. \A t \in Sockets, id \in DOMAIN handlers : IsServed(t, id) => IsServed(t, id)'
  BY DEF IsServed, Ended
<1>5. ConfirmedAreServed'
  <2> SUFFICES ASSUME NEW t \in Sockets, NEW i \in Nat, Reaches(t), IsReply(t, i)',
                      NEW m, m = toClient'[t][i], m.ok, m.id \in DOMAIN handlers,
                      handlers[m.id].sub # NULL
               PROVE  IsServed(t, m.id)'
    BY <1>1 DEF ConfirmedAreServed
  <2>1. CASE IsReply(t, i) /\ toClient'[t][i] = toClient[t][i]
    BY <1>4, <2>1 DEF SInv, ConfirmedAreServed
  <2>2. CASE t # s
    BY <2>1, <2>2 DEF IsReply
  <2>3. CASE t = s /\ \E y \in serving'[s] : y.owner = m.id
    BY <2>3 DEF IsServed
  <2> QED
    BY <2>1, <2>2, <2>3
<1>6. RegisteredAreServed'
  <2> SUFFICES ASSUME connects = 0, NEW t \in Sockets, Reaches(t), NEW k \in DOMAIN subscriptions
               PROVE  \E y \in serving'[t] : KeyOf(y.sub, y.sid) = k /\ y.sub = subscriptions[k]
    BY <1>1 DEF RegisteredAreServed, ServesKey
  <2>1. PICK x \in serving[t] : KeyOf(x.sub, x.sid) = k /\ x.sub = subscriptions[k]
    BY DEF SInv, RegisteredAreServed, ServesKey
  <2>2. x.sid = x.owner /\ k[2] = x.sid
    BY <2>1, KeyTells DEF PInv, Meant, MeantByNode
  <2>3. ~Ended(x.owner)
    BY <2>2 DEF Ended
  <2> QED
    BY <2>1, <2>3
<1> QED
  BY <1>2, <1>3, <1>5, <1>6 DEF SInv

LEMMA PostedServed ==
  ASSUME Typed, NEW s \in Sockets, NEW m \in Replies \cup Updates, Post(s, m)
  PROVE  /\ \A t \in Sockets \ {s} : toClient'[t] = toClient[t]
         /\ \A i \in Nat : IsReply(s, i)' =>
              \/ IsReply(s, i) /\ toClient'[s][i] = toClient[s][i]
              \/ toClient'[s][i] = m /\ m.kind = "reply"
<1>1. Len(toClient[s]) \in Nat /\ Len(toClient'[s]) = Len(toClient[s]) + 1
  BY Posted, LenProperties DEF Typed
<1> QED
  BY <1>1, Posted DEF IsReply

LEMMA NodeAnswersServed ==
  ASSUME SInv, NEW f, PInv(f), NEW s \in Sockets, NEW r \in inbox[s], NodeAnswers(s, r) PROVE SInv'
<1>1. PICK ok \in BOOLEAN : Post(s, [kind |-> "reply", id |-> r.id, ok |-> ok, sid |-> 0])
  BY DEF NodeAnswers
<1>2. PICK m : m = [kind |-> "reply", id |-> r.id, ok |-> ok, sid |-> 0]
  OBVIOUS
<1>3. f[r.id] = r.sub /\ r.sub = NULL /\ r \in Requests
  BY DEF NodeAnswers, PInv, Meant, MeantByNode, Typed, Known
<1>4. m \in Replies /\ m.id = r.id /\ Post(s, m)
  BY <1>1, <1>2, <1>3, RpcBoundsAssumption DEF Replies, Requests
<1>5. m.id \in DOMAIN handlers => handlers[m.id].sub = NULL
  BY <1>3, <1>4 DEF PInv, Meant, MeantByTables, Known
<1>6. /\ inbox' = [inbox EXCEPT ![s] = @ \ {r}]
      /\ serving' = [serving EXCEPT ![s] = {x \in @ : r.kind = "call" \/ x.sid # r.sid}]
      /\ inbox \in [Sockets -> SUBSET Requests] /\ serving \in [Sockets -> SUBSET Served]
      /\ UNCHANGED << connVars, tableVars, gone >>
  BY DEF NodeAnswers, PInv, Typed
<1>7. \A x \in serving[s] : x \in serving'[s] \/ Ended(x.owner)
  <2>1. r.kind # "call" => Ended(r.sid)
    BY <1>3 DEF NodeAnswers, Requests, SInv, UnsubscribedForGood
  <2>2. \A x \in serving[s] : x.sid = x.owner
    BY DEF PInv, Meant, MeantByNode
  <2> QED
    BY <1>6, <2>1, <2>2
<1>8. /\ \A t \in Sockets \ {s} : toClient'[t] = toClient[t]
      /\ \A i \in Nat : IsReply(s, i)' =>
           \/ IsReply(s, i) /\ toClient'[s][i] = toClient[s][i]
           \/ toClient'[s][i] = m
  BY <1>4, PostedServed DEF PInv
<1>9. ~Cleared(s) /\ \A t \in Sockets : inbox'[t] \subseteq inbox[t]
  BY <1>6 DEF Cleared
<1>10. \A t \in Sockets \ {s} : serving'[t] = serving[t]
  BY <1>6
<1> QED
  BY <1>5, <1>6, <1>7, <1>8, <1>9, <1>10, NodeServed

LEMMA NodeRefusesServed ==
  ASSUME SInv, NEW f, PInv(f), NEW s \in Sockets, NEW r \in inbox[s], NodeRefuses(s, r) PROVE SInv'
<1>2. PICK m : m = [kind |-> "reply", id |-> r.id, ok |-> FALSE, sid |-> 0]
  OBVIOUS
<1>4. m \in Replies /\ ~m.ok /\ Post(s, m)
  BY <1>2, RpcBoundsAssumption DEF Replies, Requests, NodeRefuses, PInv, Typed
<1>6. /\ inbox' = [inbox EXCEPT ![s] = @ \ {r}]
      /\ inbox \in [Sockets -> SUBSET Requests]
      /\ UNCHANGED << connVars, tableVars, gone, serving >>
  BY DEF NodeRefuses, PInv, Typed
<1>8. /\ \A t \in Sockets \ {s} : toClient'[t] = toClient[t]
      /\ \A i \in Nat : IsReply(s, i)' =>
           \/ IsReply(s, i) /\ toClient'[s][i] = toClient[s][i]
           \/ toClient'[s][i] = m
  BY <1>4, PostedServed DEF PInv
<1>9. ~Cleared(s) /\ \A t \in Sockets : inbox'[t] \subseteq inbox[t]
  BY <1>6 DEF Cleared
<1> QED
  BY <1>4, <1>6, <1>8, <1>9, NodeServed

LEMMA NodeAcceptsServed ==
  ASSUME SInv, NEW f, PInv(f), NEW s \in Sockets, NEW r \in inbox[s], NodeAccepts(s, r) PROVE SInv'
<1>1. /\ inbox' = [inbox EXCEPT ![s] = @ \ {r}]
      /\ inbox \in [Sockets -> SUBSET Requests] /\ serving \in [Sockets -> SUBSET Served]
      /\ serving[s] \subseteq serving'[s]
      /\ \A t \in Sockets \ {s} : serving'[t] = serving[t]
      /\ UNCHANGED << connVars, tableVars, gone, toClient >>
  BY DEF NodeAccepts, PInv, Typed
<1>2. ~Cleared(s) /\ \A t \in Sockets : inbox'[t] \subseteq inbox[t]
  BY <1>1 DEF Cleared
<1>3. \A i \in Nat : IsReply(s, i)' => IsReply(s, i) /\ toClient'[s][i] = toClient[s][i]
  BY <1>1 DEF IsReply
<1> QED
  BY <1>1, <1>2, <1>3, NodeServed

(* One subscription that is served is marked as it is told or notified.    *)
LEMMA ServedMarked ==
  ASSUME SInv, NEW f, PInv(f), NEW s \in Sockets, NEW x \in serving[s], NEW y,
         y.owner = x.owner /\ y.sid = x.sid /\ y.sub = x.sub,
         serving' = [serving EXCEPT ![s] = (@ \ {x}) \cup {y}],
         NEW m \in Replies \cup Updates, Post(s, m), m.kind = "reply" => m.id = x.owner,
         UNCHANGED << connVars, tableVars, gone, inbox >>
  PROVE  SInv'
<1>1. /\ \A t \in Sockets \ {s} : toClient'[t] = toClient[t]
      /\ \A i \in Nat : IsReply(s, i)' =>
           \/ IsReply(s, i) /\ toClient'[s][i] = toClient[s][i]
           \/ toClient'[s][i] = m /\ m.id = x.owner
  BY PostedServed DEF PInv
<1>2. serving \in [Sockets -> SUBSET Served] /\ ~Cleared(s)
  BY DEF PInv, Typed, Cleared
<1>3. /\ \A t \in Sockets \ {s} : serving'[t] = serving[t]
      /\ y \in serving'[s] /\ \A z \in serving[s] : z = x \/ z \in serving'[s]
  BY <1>2
<1> QED
  BY <1>1, <1>2, <1>3, NodeServed

LEMMA NodeRepliesServed ==
  ASSUME SInv, NEW f, PInv(f), NEW s \in Sockets, NEW x \in serving[s], NodeReplies(s, x) PROVE SInv'
<1>1. x \in Served
  BY DEF PInv, Typed
<1>2. PICK m : m = [kind |-> "reply", id |-> x.owner, ok |-> TRUE, sid |-> x.sid]
  OBVIOUS
<1>3. PICK y : y = [x EXCEPT !.replied = TRUE]
  OBVIOUS
<1>4. m \in Replies /\ m.id = x.owner
  BY <1>1, <1>2, RpcBoundsAssumption DEF Replies, Served, Ids
<1>5. y.owner = x.owner /\ y.sid = x.sid /\ y.sub = x.sub
  BY <1>1, <1>3 DEF Served
<1>6. /\ serving' = [serving EXCEPT ![s] = (@ \ {x}) \cup {y}] /\ Post(s, m)
      /\ UNCHANGED << connVars, tableVars, gone, inbox >>
  BY <1>2, <1>3 DEF NodeReplies
<1> QED
  BY <1>4, <1>5, <1>6, ServedMarked

LEMMA NodeNotifiesServed ==
  ASSUME SInv, NEW f, PInv(f), NEW s \in Sockets, NEW x \in serving[s], NodeNotifies(s, x) PROVE SInv'
<1>1. x \in Served /\ x.sent < MaxNotes
  BY DEF PInv, Typed, NodeNotifies
<1>2. PICK m : m = [kind |-> "note", key |-> KeyOf(x.sub, x.sid),
                    note |-> [sub |-> x.sub, owner |-> x.owner, n |-> x.sent + 1]]
  OBVIOUS
<1>3. PICK y : y = [x EXCEPT !.sent = x.sent + 1]
  OBVIOUS
<1>4. m \in Updates /\ m.kind # "reply"
  <2>1. x.sent + 1 \in 1 .. MaxNotes
    BY <1>1, RpcBoundsAssumption DEF Served
  <2> QED
    BY <1>1, <1>2, <2>1, SubsAssumption DEF Updates, Served, Notes, KeyOf, Keys, Types
<1>5. y.owner = x.owner /\ y.sid = x.sid /\ y.sub = x.sub
  BY <1>1, <1>3 DEF Served
<1>6. /\ serving' = [serving EXCEPT ![s] = (@ \ {x}) \cup {y}] /\ Post(s, m)
      /\ UNCHANGED << connVars, tableVars, gone, inbox >>
  BY <1>2, <1>3 DEF NodeNotifies
<1> QED
  BY <1>4, <1>5, <1>6, ServedMarked

(* With the peer goes all it had and served.                               *)
LEMMA PeerLeavesServed ==
  ASSUME SInv, NEW f, PInv(f), NEW s \in Sockets, PeerLeaves(s) PROVE SInv'
<1>1. /\ s \in Live /\ gone' = gone \cup {s} /\ LeftOf(s, 0)
      /\ \A t \in Sockets \ {s} : inbox'[t] = inbox[t] /\ serving'[t] = serving[t]
      /\ inbox'[s] = {} /\ serving'[s] = {}
      /\ UNCHANGED << connVars, tableVars >>
  BY Lost DEF PeerLeaves, PInv, Typed
<1>2. /\ Live' = Live /\ UNCHANGED << nextId, handlers, subscriptions, connects >>
      /\ \A t : Reaches(t)' => t # s /\ Reaches(t) /\ t \in Sockets
  BY <1>1 DEF Live, Reaches, connVars, tableVars
<1>3. NothingLeftBehind'
  BY <1>1, <1>2 DEF SInv, NothingLeftBehind, Cleared, LeftOf
<1>4. UnsubscribedForGood'
  BY <1>1, <1>2 DEF SInv, UnsubscribedForGood, Ended
<1>5. ConfirmedAreServed'
  <2>1. \A t \in Sockets \ {s}, i \in Nat : IsReply(t, i)' => IsReply(t, i) /\ toClient'[t][i] = toClient[t][i]
    BY <1>1 DEF LeftOf, IsReply
  <2> QED
    BY <1>1, <1>2, <2>1 DEF SInv, ConfirmedAreServed, IsServed
<1>6. RegisteredAreServed'
  BY <1>1, <1>2 DEF SInv, RegisteredAreServed, ServesKey
<1> QED
  BY <1>3, <1>4, <1>5, <1>6 DEF SInv
-----------------------------------------------------------------------------
(* The connections.                                                        *)

(* While nothing else happens, connections that are not opened and sockets  *)
(* that are closed in the end do no harm.                                   *)
LEMMA NothingOpenedServed ==
  ASSUME SInv, UNCHANGED << nextId, handlers, subscriptions, inbox, serving, toClient >>,
         NothingLeftBehind', connects' = 0 => connects = 0,
         \A t : Reaches(t)' => Reaches(t)
  PROVE  SInv'
<1>1. UnsubscribedForGood'
  BY DEF SInv, UnsubscribedForGood, Ended
<1>2. ConfirmedAreServed'
  BY DEF SInv, ConfirmedAreServed, IsServed, IsReply
<1>3. RegisteredAreServed'
  BY DEF SInv, RegisteredAreServed, ServesKey
<1> QED
  BY <1>1, <1>2, <1>3 DEF SInv

LEMMA ConnectionStepServed == ASSUME TypeOK, SInv, ConnectionStep PROVE SInv'
<1>1. UNCHANGED << nextId, handlers, subscriptions, inbox, serving, toClient, gone >>
  BY DEF ConnectionStep, rpcVars, tableVars, userVars, nodeVars
<1>2. /\ \A t \in Sockets : sock'[t] = "open" => sock[t] = "open"
      /\ Live' = Live
      /\ connects' = 0 => connects = 0
  <2>0. connects \in Nat /\ sock \in [Sockets -> SockStates] /\ websocket \in Sockets \cup {NULL}
    BY BoundsAssumption DEF TypeOK
  <2>1. ASSUME NEW s \in Sockets, NEW kind \in {"retrying", "calling"}, StartConnect(s, kind)
        PROVE  Live' = Live /\ \A t \in Sockets : sock'[t] = "open" => sock[t] = "open"
    BY <2>0, <2>1 DEF StartConnect, Live
  <2>2. CASE RetryTimer
    BY <2>1, <2>2 DEF RetryTimer
  <2>3. CASE Connect
    BY <2>0, <2>1, <2>3 DEF Connect
  <2>4. ASSUME NEW s \in Sockets, Failed(s)
        PROVE  /\ Live' = Live /\ \A t \in Sockets : sock'[t] = "open" => sock[t] = "open"
               /\ connects' = connects
    BY <2>0, <2>4 DEF Failed, Attempting, Live
  <2>5. CASE Disconnect
    BY <2>0, <2>5 DEF Disconnect, Live
  <2>6. CASE DisconnectDone
    BY <2>6 DEF DisconnectDone, Live
  <2> QED
    BY <2>2, <2>3, <2>4, <2>5, <2>6 DEF ConnectionStep
<1>3. NothingLeftBehind'
  BY <1>1, <1>2 DEF SInv, NothingLeftBehind, Cleared
<1>4. \A t : Reaches(t)' => Reaches(t)
  BY <1>1, <1>2 DEF Reaches
<1> QED
  BY <1>1, <1>2, <1>3, <1>4, NothingOpenedServed

LEMMA SocketClosedServed ==
  ASSUME TypeOK, SInv, NEW s \in Sockets, SocketClosed(s) PROVE SInv'
<1>1. /\ sock' = [sock EXCEPT ![s] = "closed"] /\ connects' = connects
      /\ s \in gone /\ toClient[s] = << >> /\ gone' = gone \ {s}
      /\ UNCHANGED << nextId, handlers, subscriptions, inbox, serving, toClient >>
      /\ sock \in [Sockets -> SockStates]
  BY DEF SocketClosed, Close, tableVars, TypeOK
<1>2. Live' = Live \ {s}
  BY <1>1 DEF Live
<1>3. NothingLeftBehind'
  BY <1>1, <1>2 DEF SInv, NothingLeftBehind, Cleared
<1>4. \A t : Reaches(t)' => Reaches(t)
  BY <1>1 DEF Reaches
<1> QED
  BY <1>1, <1>3, <1>4, NothingOpenedServed

(* A new connection starts with nothing registered and nothing confirmed.  *)
LEMMA SocketOpenedServed ==
  ASSUME TypeOK, Inv, SInv, NEW f, PInv(f), NEW s \in Sockets, SocketOpened(s) PROVE SInv'
<1> DEFINE n == Cardinality(Renewed)
           newIds == nextId + 1 .. nextId + n
<1>1. /\ Opened(s) /\ Resubscribe(s) /\ UNCHANGED << serving, toClient, gone >>
      /\ sock \in [Sockets -> SockStates] /\ inbox \in [Sockets -> SUBSET Requests]
  BY DEF SocketOpened, TypeOK, PInv, Typed
<1>2. n \in Nat /\ nextId \in Nat /\ DOMAIN handlers \subseteq 1 .. nextId
  BY FS_Subset, FS_CardinalityType DEF Inv, IdsFresh, Renewed
<1>3. /\ nextId' = nextId + n /\ DOMAIN subscriptions' = {}
      /\ \A i \in DOMAIN handlers' : i \in newIds \/ (i \in DOMAIN handlers /\ handlers'[i] = handlers[i])
      /\ \A t \in Sockets \ {s} : inbox'[t] = inbox[t]
      /\ \A r \in inbox'[s] : r.kind = "subscribe"
  BY <1>1 DEF Resubscribe, Remaining, EmptyMap
<1>4. \A i \in newIds : i > nextId
  BY <1>2
<1>5. nextId <= nextId'
  BY <1>2, <1>3
<1> HIDE DEF newIds, n
<1>6. /\ s \notin Live /\ Live' = Live \cup {s}
      /\ \A t : Reaches(t)' => t = s \/ Reaches(t)
  BY <1>1 DEF Opened, Attempting, Live, Reaches
<1>7. NothingLeftBehind'
  BY <1>1, <1>3, <1>6 DEF SInv, NothingLeftBehind, Cleared
<1>8. UnsubscribedForGood'
  <2>1. ASSUME NEW t \in Sockets, NEW r \in inbox'[t], r.kind = "unsubscribe" PROVE Ended(r.sid)'
    <3>1. r \in inbox[t] /\ r \in Requests
      BY <1>1, <1>3, <2>1
    <3>2. r.sid \in Nat /\ r.sid <= nextId /\ r.sid \notin DOMAIN handlers
      BY <2>1, <3>1, RpcBoundsAssumption DEF Requests, SInv, UnsubscribedForGood, Ended
    <3>3. r.sid <= nextId' /\ r.sid \notin newIds
      BY <1>2, <1>3, <1>4, <1>5, <3>2 DEF n
    <3> QED
      BY <1>3, <3>2, <3>3 DEF Ended
  <2> QED
    BY <2>1 DEF UnsubscribedForGood
<1>9. ConfirmedAreServed'
  <2>1. \A i \in Nat : ~IsReply(s, i)
    <3>1. toClient[s] = << >>
      BY <1>6 DEF SInv, NothingLeftBehind
    <3> QED
      BY <3>1 DEF IsReply
  <2>2. ASSUME NEW t \in Sockets, NEW i \in Nat, IsReply(t, i) PROVE toClient[t][i].id \notin newIds
    <3>1. toClient[t][i].id \in Ids /\ toClient[t][i].id <= nextId
      BY <2>2 DEF PInv, Meant, MeantByNode, Known
    <3> QED
      BY <1>2, <1>4, <3>1 DEF Ids
  <2> QED
    BY <1>1, <1>3, <1>6, <2>1, <2>2 DEF SInv, ConfirmedAreServed, IsServed, IsReply
<1>10. RegisteredAreServed'
  BY <1>3 DEF RegisteredAreServed
<1> QED
  BY <1>7, <1>8, <1>9, <1>10 DEF SInv

LEMMA StepServed ==
  ASSUME TypeOK, OneChainPerCall, Inv, \E f : PInv(f), SInv, [ProviderNext]_vars PROVE SInv'
<1>0. PICK f : PInv(f)
  OBVIOUS
<1>1. CASE UNCHANGED vars
  BY <1>1 DEF vars, connVars, tableVars, nodeVars, SInv, NothingLeftBehind, Cleared, Live, Reaches,
              UnsubscribedForGood, Ended, ConfirmedAreServed, RegisteredAreServed, IsReply, IsServed,
              ServesKey
<1>2. CASE ConnectionStep
  BY <1>2, ConnectionStepServed
<1>3. CASE UserStep
  BY <1>0, <1>3, UserStepServed
<1>4. ASSUME NEW s \in Sockets, SocketStep(s) PROVE SInv'
  BY <1>0, <1>4, SocketOpenedServed, ReceiveReplyServed, ReceiveNoteServed, SocketClosedServed
     DEF SocketStep
<1>5. ASSUME NEW s \in Sockets, NodeStep(s) PROVE SInv'
  BY <1>0, <1>5, NodeAnswersServed, NodeAcceptsServed, NodeRefusesServed, NodeRepliesServed,
     NodeNotifiesServed, PeerLeavesServed DEF NodeStep
<1> QED
  BY <1>1, <1>2, <1>3, <1>4, <1>5 DEF ProviderNext

ServedInv == TypeOK /\ OneChainPerCall /\ Inv /\ (\E f : PInv(f)) /\ SInv

LEMMA AlwaysServedInv == ASSUME UniqueIds PROVE ProviderSpec => []ServedInv
<1>1. ProviderInit => ServedInv
  BY ConnectionInit, TypeOKInit, OneChainInit, InitInv, InitPInv, InitSInv DEF ServedInv
<1>2. ServedInv /\ [ProviderNext]_vars => ServedInv'
  BY ConnectionSteps, TypeOKStep, OneChainStep, StepKeeps, PromiseStep, StepServed DEF ServedInv
<1> QED
  BY <1>1, <1>2, PTL DEF ProviderSpec

(* If the node uses no subscription id twice and the user does not call     *)
(* connect() beside the provider's own connections, every registered         *)
(* subscription is served by the node on the connection that is up           *)
(* (index.dart:335-420).                                                    *)
THEOREM StaysServed ==
  ASSUME UniqueIds PROVE ProviderSpec => [](connects = 0 => ActiveIsServed)
<1>1. ServedInv => (connects = 0 => ActiveIsServed)
  BY DEF ServedInv, SInv, RegisteredAreServed, ServesKey, ActiveIsServed, Reaches
<1> QED
  BY <1>1, AlwaysServedInv, PTL
-----------------------------------------------------------------------------
(* No request is forgotten while its connection lasts.                     *)

RepliedOn(s, id) == \E i \in Nat : IsReply(s, i) /\ toClient[s][i].id = id

(* The request, a subscription whose confirmation is still to come, or the *)
(* reply is on connection s.                                               *)
TravelsOn(s, id) ==
  \/ \E r \in inbox[s] : r.id = id
  \/ \E x \in serving[s] : x.owner = id /\ ~x.replied
  \/ RepliedOn(s, id)

(* What one step makes of it. *)
StaysOn(s, id) == TravelsOn(s, id)' \/ future'[id] # "pending" \/ s \in gone' \ gone

LEMMA SameConnectionStays ==
  ASSUME NEW s \in Sockets, NEW id, TravelsOn(s, id), toClient'[s] = toClient[s],
         \A r \in inbox[s] : r.id = id => r \in inbox'[s],
         \A x \in serving[s] : x.owner = id => x \in serving'[s]
  PROVE  TravelsOn(s, id)'
BY DEF TravelsOn, RepliedOn, IsReply

LEMMA PostStays ==
  ASSUME Typed, NEW s \in Sockets, NEW m \in Replies \cup Updates, Post(s, m)
  PROVE  /\ \A id : \A t \in Sockets : RepliedOn(t, id) => RepliedOn(t, id)'
         /\ m.kind = "reply" => RepliedOn(s, m.id)'
         /\ \A t \in Sockets \ {s} : toClient'[t] = toClient[t]
<1>1. /\ \A t \in Sockets \ {s} : toClient'[t] = toClient[t]
      /\ Len(toClient'[s]) = Len(toClient[s]) + 1 /\ Len(toClient[s]) \in Nat
      /\ toClient'[s][Len(toClient[s]) + 1] = m
      /\ \A i \in 1 .. Len(toClient[s]) : toClient'[s][i] = toClient[s][i]
  BY Posted, LenProperties DEF Typed
<1>2. ASSUME NEW t \in Sockets, NEW id, RepliedOn(t, id) PROVE RepliedOn(t, id)'
  <2>1. PICK i \in Nat : IsReply(t, i) /\ toClient[t][i].id = id
    BY <1>2 DEF RepliedOn
  <2>2. i \in 1 .. Len(toClient'[t]) /\ toClient'[t][i] = toClient[t][i]
    BY <1>1, <2>1 DEF IsReply
  <2> QED
    BY <2>1, <2>2 DEF RepliedOn, IsReply
<1>3. ASSUME m.kind = "reply" PROVE RepliedOn(s, m.id)'
  <2>1. PICK i \in Nat : i = Len(toClient[s]) + 1
    BY <1>1
  <2>2. i \in 1 .. Len(toClient'[s]) /\ toClient'[s][i] = m
    BY <1>1, <2>1
  <2> QED
    BY <1>3, <2>2 DEF RepliedOn, IsReply
<1> QED
  BY <1>1, <1>2, <1>3

LEMMA ReceptionStays ==
  ASSUME Typed, NEW t \in Sockets, toClient[t] # << >>,
         toClient' = [toClient EXCEPT ![t] = Tail(@)],
         NEW s \in Sockets, NEW id, RepliedOn(s, id)
  PROVE  RepliedOn(s, id)' \/ (s = t /\ IsReply(t, 1) /\ toClient[t][1].id = id)
<1>1. PICK i \in Nat : IsReply(s, i) /\ toClient[s][i].id = id
  BY DEF RepliedOn
<1>2. CASE s # t
  BY <1>1, <1>2, Received DEF LeftOf, RepliedOn, IsReply
<1>3. CASE s = t /\ i = 1
  BY <1>1, <1>3
<1>4. CASE s = t /\ i # 1
  <2>1. PICK j \in Nat : j + 1 = i /\ j # 0
    BY <1>1, <1>4 DEF IsReply
  <2>2. Len(toClient'[t]) \in Nat /\ Len(toClient[t]) = Len(toClient'[t]) + 1
    BY Received, LenProperties DEF LeftOf
  <2>3. j \in 1 .. Len(toClient'[t])
    BY <1>1, <1>4, <2>1, <2>2 DEF IsReply
  <2>4. toClient'[t][j] = toClient[t][i]
    BY <2>1, <2>3, Received DEF LeftOf
  <2> QED
    BY <1>1, <1>4, <2>3, <2>4 DEF RepliedOn, IsReply
<1> QED
  BY <1>2, <1>3, <1>4

(* The provider receives.                                                  *)
LEMMA ReceivedStays ==
  ASSUME Inv, NEW f, PInv(f), NEW t \in Sockets, ReceiveReply(t) \/ ReceiveNote(t),
         NEW s \in Sockets, NEW id \in Ids, future[id] = "pending", TravelsOn(s, id)
  PROVE  StaysOn(s, id)
<1>1. /\ toClient[t] # << >> /\ toClient' = [toClient EXCEPT ![t] = Tail(@)]
      /\ UNCHANGED << inbox, serving >>
  BY DEF ReceiveReply, ReceiveNote
<1>2. CASE ~RepliedOn(s, id) \/ RepliedOn(s, id)'
  BY <1>1, <1>2 DEF TravelsOn, StaysOn
<1>3. CASE RepliedOn(s, id) /\ ~RepliedOn(s, id)'
  <2>1. s = t /\ IsReply(t, 1) /\ toClient[t][1].id = id
    BY <1>1, <1>3, ReceptionStays DEF PInv
  <2>2. Head(toClient[t]) = toClient[t][1]
    BY <1>1, Received DEF PInv
  <2>3. id \in DOMAIN handlers
    BY DEF Inv, Answerable
  <2>4. ReceiveReply(t) /\ Settle(toClient[t][1])
    BY <2>1, <2>2, <2>3 DEF ReceiveReply, ReceiveNote, IsReply
  <2>5. future' = [future EXCEPT ![id] = Outcome(toClient[t][1])]
    BY <2>1, <2>4 DEF Settle
  <2>6. future'[id] # "pending"
    BY <2>5 DEF Outcome, Inv, IdsFresh
  <2> QED
    BY <2>6 DEF StaysOn
<1> QED
  BY <1>2, <1>3

(* The node and the network.                                               *)
LEMMA NodeReplyTypes ==
  /\ 0 \in 0 .. MaxId
  /\ \A id \in Ids, ok \in BOOLEAN, sid \in 0 .. MaxId :
       [kind |-> "reply", id |-> id, ok |-> ok, sid |-> sid] \in Replies
<1>1. 0 \in 0 .. MaxId
  BY RpcBoundsAssumption
<1> QED
  BY <1>1 DEF Replies

LEMMA NodeAnswersStays ==
  ASSUME UniqueIds, Inv, NEW f, PInv(f), SInv,
         NEW t \in Sockets, NEW r \in inbox[t], NodeAnswers(t, r),
         NEW s \in Sockets, NEW id \in Ids, future[id] = "pending", TravelsOn(s, id)
  PROVE  StaysOn(s, id)
<1>1. PICK m : /\ m \in Replies /\ m.id = r.id /\ m.kind = "reply" /\ Post(t, m)
  <2>1. r.id \in Ids
    BY DEF PInv, Typed, Requests
  <2>2. PICK ok \in BOOLEAN : Post(t, [kind |-> "reply", id |-> r.id, ok |-> ok, sid |-> 0])
    BY DEF NodeAnswers
  <2> QED
    BY <2>1, <2>2, NodeReplyTypes
<1>2. /\ inbox' = [inbox EXCEPT ![t] = @ \ {r}]
      /\ serving' = [serving EXCEPT ![t] = {x \in @ : r.kind = "call" \/ x.sid # r.sid}]
      /\ r.kind # "subscribe"
      /\ inbox \in [Sockets -> SUBSET Requests] /\ serving \in [Sockets -> SUBSET Served]
  BY DEF NodeAnswers, PInv, Typed
<1>3. /\ \A i : \A v \in Sockets : RepliedOn(v, i) => RepliedOn(v, i)'
      /\ RepliedOn(t, r.id)'
      /\ \A v \in Sockets \ {t} : toClient'[v] = toClient[v]
  BY <1>1, PostStays DEF PInv
<1>4. CASE s # t
  BY <1>2, <1>3, <1>4, SameConnectionStays DEF StaysOn
<1>5. CASE s = t
  <2>1. ASSUME NEW q \in inbox[t], q.id = id PROVE TravelsOn(t, id)'
    BY <1>2, <1>3, <2>1 DEF TravelsOn
  <2>2. ASSUME NEW x \in serving[t], x.owner = id, ~x.replied PROVE TravelsOn(t, id)'
    <3>1. x.sid = id
      BY <2>2 DEF PInv, Meant, MeantByNode
    <3>2. r.kind = "call" \/ x.sid # r.sid
      <4> SUFFICES ASSUME r.kind # "call", x.sid = r.sid PROVE FALSE
        OBVIOUS
      <4>1. r.kind = "unsubscribe"
        BY <1>2 DEF Requests
      <4>2. Ended(id)
        BY <3>1, <4>1 DEF SInv, UnsubscribedForGood
      <4> QED
        BY <4>2 DEF Ended, Inv, Answerable
    <3>3. x \in serving'[t]
      BY <1>2, <3>2
    <3> QED
      BY <2>2, <3>3 DEF TravelsOn
  <2> QED
    BY <1>3, <1>5, <2>1, <2>2 DEF TravelsOn, StaysOn
<1> QED
  BY <1>4, <1>5

LEMMA NodeStartsStays ==
  ASSUME NEW f, PInv(f), NEW t \in Sockets, NEW r \in inbox[t],
         NodeAccepts(t, r) \/ NodeRefuses(t, r),
         NEW s \in Sockets, NEW id \in Ids, TravelsOn(s, id)
  PROVE  StaysOn(s, id)
<1>1. /\ inbox' = [inbox EXCEPT ![t] = @ \ {r}]
      /\ inbox \in [Sockets -> SUBSET Requests] /\ serving \in [Sockets -> SUBSET Served]
      /\ r.id \in Ids
  BY DEF NodeAccepts, NodeRefuses, PInv, Typed, Requests
<1>2. CASE NodeAccepts(t, r)
  <2> DEFINE x == [sid |-> IF UniqueIds THEN r.id ELSE served[t] + 1, sub |-> r.sub,
                   owner |-> r.id, sent |-> 0, replied |-> FALSE]
  <2>1. serving' = [serving EXCEPT ![t] = @ \cup {x}] /\ UNCHANGED toClient
    BY <1>2 DEF NodeAccepts
  <2>2. x.owner = r.id /\ ~x.replied
    OBVIOUS
  <2> HIDE DEF x
  <2>3. CASE s # t
    BY <1>1, <2>1, <2>3, SameConnectionStays DEF StaysOn
  <2>4. CASE s = t
    BY <1>1, <2>1, <2>2, <2>4 DEF TravelsOn, RepliedOn, IsReply, StaysOn
  <2> QED
    BY <2>3, <2>4
<1>3. CASE NodeRefuses(t, r)
  <2>1. PICK m : /\ m \in Replies /\ m.id = r.id /\ m.kind = "reply" /\ Post(t, m)
    BY <1>1, <1>3, NodeReplyTypes DEF NodeRefuses
  <2>2. /\ \A i : \A v \in Sockets : RepliedOn(v, i) => RepliedOn(v, i)'
        /\ RepliedOn(t, r.id)'
        /\ \A v \in Sockets \ {t} : toClient'[v] = toClient[v]
    BY <2>1, PostStays DEF PInv
  <2>3. serving' = serving
    BY <1>3 DEF NodeRefuses
  <2>4. CASE s # t
    BY <1>1, <2>2, <2>3, <2>4, SameConnectionStays DEF StaysOn
  <2>5. CASE s = t
    BY <1>1, <2>2, <2>3, <2>5 DEF TravelsOn, StaysOn
  <2> QED
    BY <2>4, <2>5
<1> QED
  BY <1>2, <1>3

LEMMA NodeServesStays ==
  ASSUME NEW f, PInv(f), NEW t \in Sockets, NEW x \in serving[t],
         NodeReplies(t, x) \/ NodeNotifies(t, x),
         NEW s \in Sockets, NEW id \in Ids, TravelsOn(s, id)
  PROVE  StaysOn(s, id)
<1>1. /\ inbox' = inbox /\ x \in Served /\ x.owner \in Ids /\ x.sid \in 0 .. MaxId
      /\ serving \in [Sockets -> SUBSET Served]
  BY RpcBoundsAssumption DEF NodeReplies, NodeNotifies, PInv, Typed, Served, Ids
<1>2. CASE NodeReplies(t, x)
  <2> DEFINE y == [x EXCEPT !.replied = TRUE]
  <2>1. PICK m : /\ m \in Replies /\ m.id = x.owner /\ m.kind = "reply" /\ Post(t, m)
    BY <1>1, <1>2, NodeReplyTypes DEF NodeReplies
  <2>2. /\ \A i : \A v \in Sockets : RepliedOn(v, i) => RepliedOn(v, i)'
        /\ RepliedOn(t, x.owner)'
        /\ \A v \in Sockets \ {t} : toClient'[v] = toClient[v]
    BY <2>1, PostStays DEF PInv
  <2>3. serving' = [serving EXCEPT ![t] = (@ \ {x}) \cup {y}]
    BY <1>2 DEF NodeReplies
  <2> HIDE DEF y
  <2>4. CASE s # t
    BY <1>1, <2>2, <2>3, <2>4, SameConnectionStays DEF StaysOn
  <2>5. CASE s = t
    BY <1>1, <2>2, <2>3, <2>5 DEF TravelsOn, StaysOn
  <2> QED
    BY <2>4, <2>5
<1>3. CASE NodeNotifies(t, x)
  <2> DEFINE y == [x EXCEPT !.sent = @ + 1]
  <2>1. PICK m \in Updates : Post(t, m)
    <3>1. PICK m : m = [kind |-> "note", key |-> KeyOf(x.sub, x.sid),
                        note |-> [sub |-> x.sub, owner |-> x.owner, n |-> x.sent + 1]]
      OBVIOUS
    <3>2. x.sent + 1 \in 1 .. MaxNotes
      BY <1>1, <1>3, RpcBoundsAssumption DEF NodeNotifies, Served
    <3>3. m \in Updates
      BY <1>1, <3>1, <3>2, SubsAssumption DEF Updates, Served, Notes, KeyOf, Keys, Types
    <3> QED
      BY <1>3, <3>1, <3>3 DEF NodeNotifies
  <2>2. /\ \A i : \A v \in Sockets : RepliedOn(v, i) => RepliedOn(v, i)'
        /\ \A v \in Sockets \ {t} : toClient'[v] = toClient[v]
    BY <2>1, PostStays DEF PInv
  <2>3. serving' = [serving EXCEPT ![t] = (@ \ {x}) \cup {y}] /\ y.owner = x.owner /\ y.replied = x.replied
    BY <1>1, <1>3 DEF NodeNotifies, Served
  <2> HIDE DEF y
  <2>4. CASE s # t
    BY <1>1, <2>2, <2>3, <2>4, SameConnectionStays DEF StaysOn
  <2>5. CASE s = t
    BY <1>1, <2>2, <2>3, <2>5 DEF TravelsOn, StaysOn
  <2> QED
    BY <2>4, <2>5
<1> QED
  BY <1>2, <1>3

LEMMA PeerLeavesStays ==
  ASSUME NEW f, PInv(f), NEW t \in Sockets, PeerLeaves(t),
         NEW s \in Sockets, NEW id \in Ids, TravelsOn(s, id)
  PROVE  StaysOn(s, id)
<1>1. t \notin gone /\ gone' = gone \cup {t}
  BY DEF PeerLeaves
<1>2. \A v \in Sockets \ {t} : /\ toClient'[v] = toClient[v]
                               /\ inbox'[v] = inbox[v] /\ serving'[v] = serving[v]
  BY Lost DEF PeerLeaves, PInv, Typed, LeftOf
<1>3. CASE s = t
  BY <1>1, <1>3 DEF StaysOn
<1>4. CASE s # t
  BY <1>2, <1>4, SameConnectionStays DEF StaysOn
<1> QED
  BY <1>3, <1>4

(* A connection that opens had nothing on it.                              *)
LEMMA SocketOpenedStays ==
  ASSUME SInv, NEW f, PInv(f), NEW t \in Sockets, SocketOpened(t),
         NEW s \in Sockets, NEW id \in Ids, TravelsOn(s, id)
  PROVE  StaysOn(s, id)
<1>1. t \notin Live /\ UNCHANGED << serving, toClient >>
  BY DEF SocketOpened, Opened, Attempting, Live
<1>2. inbox[t] = {} /\ serving[t] = {} /\ toClient[t] = << >>
  BY <1>1 DEF SInv, NothingLeftBehind, Cleared
<1>3. s # t
  BY <1>2 DEF TravelsOn, RepliedOn, IsReply
<1>4. inbox'[s] = inbox[s]
  BY <1>3 DEF SocketOpened, Resubscribe, PInv, Typed
<1> QED
  BY <1>1, <1>4, SameConnectionStays DEF StaysOn

LEMMA SendRpcAdds ==
  ASSUME NEW f, PInv(f), NEW kind, NEW u, NEW sid, SendRpc(kind, u, sid), NEW s \in Sockets
  PROVE  inbox[s] \subseteq inbox'[s]
BY DEF SendRpc, PInv, Typed

LEMMA UserStepStays ==
  ASSUME NEW f, PInv(f), UserStep, NEW s \in Sockets, NEW id \in Ids, TravelsOn(s, id)
  PROVE  StaysOn(s, id)
<1>1. UNCHANGED << serving, toClient >>
  BY DEF UserStep, Send, Subscribe, Unsubscribe
<1>2. inbox[s] \subseteq inbox'[s]
  BY SendRpcAdds DEF UserStep, Send, Subscribe, Unsubscribe
<1> QED
  BY <1>1, <1>2, SameConnectionStays DEF StaysOn

LEMMA StepStays ==
  ASSUME UniqueIds, Inv, \E f : PInv(f), SInv, [ProviderNext]_vars,
         NEW s \in Sockets, NEW id \in Ids, future[id] = "pending", TravelsOn(s, id)
  PROVE  StaysOn(s, id)
<1>0. PICK f : PInv(f)
  OBVIOUS
<1>1. CASE UNCHANGED << inbox, serving, toClient >>
  BY <1>1, SameConnectionStays DEF StaysOn
<1>2. CASE UNCHANGED vars \/ ConnectionStep
  BY <1>1, <1>2 DEF vars, nodeVars, ConnectionStep, rpcVars
<1>3. CASE UserStep
  BY <1>0, <1>3, UserStepStays
<1>4. ASSUME NEW t \in Sockets, SocketStep(t) PROVE StaysOn(s, id)
  <2>1. CASE SocketClosed(t)
    BY <1>1, <2>1 DEF SocketClosed
  <2> QED
    BY <1>0, <1>4, <2>1, SocketOpenedStays, ReceivedStays DEF SocketStep
<1>5. ASSUME NEW t \in Sockets, NodeStep(t) PROVE StaysOn(s, id)
  BY <1>0, <1>5, NodeAnswersStays, NodeStartsStays, NodeServesStays, PeerLeavesStays DEF NodeStep
<1> QED
  BY <1>2, <1>3, <1>4, <1>5 DEF ProviderNext

(* A request that is on its way on a connection stays there until it is      *)
(* settled or the peer leaves that very connection.                         *)
LostWithConnection ==
  [][\A s \in Sockets, id \in Ids :
       future[id] = "pending" /\ TravelsOn(s, id) => StaysOn(s, id)]_vars

(* If the node uses no subscription id twice, nothing but the loss of its    *)
(* own connection takes a request from its way: no reconnection, no other    *)
(* socket, no unsubscribe() and no reply to another request (index.dart:229, *)
(* 335-420).                                                                *)
THEOREM OnlyLossForgets == ASSUME UniqueIds PROVE ProviderSpec => LostWithConnection
<1>1. ServedInv /\ [ProviderNext]_vars =>
        \A s \in Sockets, id \in Ids :
          future[id] = "pending" /\ TravelsOn(s, id) => StaysOn(s, id)
  BY StepStays DEF ServedInv
<1> QED
  BY <1>1, AlwaysServedInv, PTL DEF ProviderSpec, LostWithConnection

(* While no connection was lost and none closed by the user, every request   *)
(* whose future is pending is on its way on a connection that reaches the    *)
(* node.                                                                    *)
NothingForgotten ==
  drops = 0 /\ disconnects = 0 =>
    \A id \in Ids : future[id] = "pending" => \E s \in Sockets : Reaches(s) /\ TravelsOn(s, id)

(* Nothing has been closed or lost yet, and the requests are on their way.  *)
Undisturbed ==
  /\ closing = 0 /\ gone = {}
  /\ \A s \in Sockets : sock[s] # "closing"
  /\ websocket # NULL => Reaches(websocket)

QuietInv ==
  /\ drops \in Nat
  /\ drops = 0 /\ disconnects = 0 =>
       /\ Undisturbed
       /\ \A id \in Ids : future[id] = "pending" => \E s \in Sockets : TravelsOn(s, id)

LEMMA InitQuiet == ProviderInit => QuietInv
<1> SUFFICES ASSUME ProviderInit PROVE QuietInv
  OBVIOUS
<1>1. drops = 0 /\ \A id \in Ids : future[id] = "none"
  BY DEF ProviderInit
<1>2. Undisturbed
  BY DEF ProviderInit, Init, Undisturbed
<1> QED
  BY <1>1, <1>2 DEF QuietInv

LEMMA TravelsWhereReached ==
  ASSUME TypeOK, SInv, Undisturbed, NEW s \in Sockets, NEW id, TravelsOn(s, id)
  PROVE  Reaches(s)
<1>1. s \in Live
  BY DEF SInv, NothingLeftBehind, Cleared, TravelsOn, RepliedOn, IsReply
<1> QED
  BY <1>1 DEF Live, Undisturbed, Reaches

(* The connections of an undisturbed provider.                             *)
LEMMA StepUndisturbed ==
  ASSUME TypeOK, SInv, QuietInv, [ProviderNext]_vars
  PROVE  /\ drops' \in Nat
         /\ drops' = 0 /\ disconnects' = 0 =>
              drops = 0 /\ disconnects = 0 /\ Undisturbed /\ Undisturbed'
<1>0. /\ disconnects \in Nat /\ closing \in Nat /\ drops \in Nat
      /\ sock \in [Sockets -> SockStates] /\ websocket \in Sockets \cup {NULL}
  BY BoundsAssumption DEF TypeOK, QuietInv
<1>1. CASE UNCHANGED << drops, gone, connVars >>
  BY <1>0, <1>1 DEF QuietInv, Undisturbed, Reaches, connVars
<1>2. CASE UserStep \/ UNCHANGED vars
  BY <1>1, <1>2 DEF UserStep, Send, Subscribe, Unsubscribe, vars, nodeVars
<1>3. ASSUME NEW s \in Sockets, NodeStep(s)
      PROVE  /\ drops' \in Nat
             /\ drops' = 0 /\ disconnects' = 0 =>
                  drops = 0 /\ disconnects = 0 /\ Undisturbed /\ Undisturbed'
  <2>1. CASE PeerLeaves(s)
    <3>1. /\ s \in Live /\ drops' = (IF sock[s] = "open" THEN drops + 1 ELSE drops)
          /\ disconnects' = disconnects
      BY <2>1 DEF PeerLeaves, connVars
    <3> QED
      BY <1>0, <3>1 DEF QuietInv, Undisturbed, Live
  <2>2. CASE ~PeerLeaves(s)
    BY <1>1, <1>3, <2>2
       DEF NodeStep, NodeAnswers, NodeAccepts, NodeRefuses, NodeReplies, NodeNotifies
  <2> QED
    BY <2>1, <2>2
<1>4. ASSUME NEW s \in Sockets, SocketStep(s)
      PROVE  /\ drops' \in Nat
             /\ drops' = 0 /\ disconnects' = 0 =>
                  drops = 0 /\ disconnects = 0 /\ Undisturbed /\ Undisturbed'
  <2>1. CASE SocketOpened(s)
    BY <1>0, <2>1 DEF SocketOpened, Opened, QuietInv, Undisturbed, Reaches
  <2>2. CASE SocketClosed(s)
    BY <1>0, <2>2 DEF SocketClosed, Close, QuietInv, Undisturbed
  <2>3. CASE ReceiveReply(s) \/ ReceiveNote(s)
    BY <1>1, <2>3 DEF ReceiveReply, ReceiveNote
  <2> QED
    BY <1>4, <2>1, <2>2, <2>3 DEF SocketStep
<1>5. CASE ConnectionStep
  <2>0. UNCHANGED << drops, gone >>
    BY <1>5 DEF ConnectionStep, rpcVars, nodeVars
  <2>1. CASE /\ UNCHANGED << disconnects, closing, websocket >>
             /\ \A t \in Sockets : sock'[t] = "closing" => sock[t] = "closing"
             /\ \A t \in Sockets : sock[t] = "open" => sock'[t] = "open"
    <3>1. ASSUME Undisturbed PROVE Undisturbed'
      <4>1. Reaches(websocket) => Reaches(websocket)'
        BY <2>0, <2>1 DEF Reaches
      <4> QED
        BY <2>0, <2>1, <3>1, <4>1 DEF Undisturbed
    <3> QED
      BY <1>0, <2>0, <2>1, <3>1 DEF QuietInv
  <2>2. ASSUME NEW t \in Sockets, NEW kind \in {"retrying", "calling"}, StartConnect(t, kind)
        PROVE  \A v \in Sockets : /\ sock'[v] = "closing" => sock[v] = "closing"
                                  /\ sock[v] = "open" => sock'[v] = "open"
    BY <1>0, <2>2 DEF StartConnect
  <2>3. CASE RetryTimer \/ Connect
    BY <2>1, <2>2, <2>3 DEF RetryTimer, Connect
  <2>4. CASE \E t \in Sockets : Failed(t)
    BY <1>0, <2>1, <2>4 DEF Failed, Attempting
  <2>5. CASE Disconnect
    BY <1>0, <2>0, <2>5 DEF Disconnect
  <2>6. CASE DisconnectDone
    BY <1>0, <2>0, <2>6 DEF DisconnectDone, QuietInv, Undisturbed
  <2> QED
    BY <1>5, <2>3, <2>4, <2>5, <2>6 DEF ConnectionStep
<1> QED
  BY <1>2, <1>3, <1>4, <1>5 DEF ProviderNext

(* A request that is sent is on its way: the socket that the provider holds  *)
(* reaches the node, or there is none and the future fails.                 *)
LEMMA SendRpcTravels ==
  ASSUME TypeOK, Inv, NEW f, PInv(f), Undisturbed, NEW kind, NEW u, NEW sid, SendRpc(kind, u, sid),
         NEW id \in Ids, future'[id] = "pending"
  PROVE  future[id] = "pending" \/ \E s \in Sockets : \E r \in inbox'[s] : r.id = id
<1> DEFINE r == [kind |-> kind, id |-> nextId + 1, sub |-> u, sid |-> sid]
<1>1. CASE id # nextId + 1 \/ UNCHANGED future
  BY <1>1 DEF SendRpc, Inv, IdsFresh
<1>2. CASE id = nextId + 1 /\ future' # future
  <2>1. PICK throws \in AddThrows :
          future' = [future EXCEPT ![id] = IF throws THEN "failed" ELSE "pending"]
    BY <1>2 DEF SendRpc
  <2>2. websocket # NULL
    <3> SUFFICES ASSUME websocket = NULL PROVE FALSE
      OBVIOUS
    <3>1. AddThrows = {TRUE}
      BY SocketsAssumption DEF AddThrows, Live
    <3>2. throws
      BY <3>1, Zenon
    <3>3. future' = [future EXCEPT ![id] = "failed"]
      BY <2>1, <3>2
    <3> QED
      BY <3>3 DEF Inv, IdsFresh
  <2>3. Reaches(websocket)
    BY <2>2 DEF Undisturbed
  <2>4. Reaches(websocket) /\ websocket \in Sockets
    BY <2>3 DEF Reaches
  <2>5. inbox' = [s \in Sockets |-> IF s = websocket /\ Reaches(s) THEN inbox[s] \cup {r} ELSE inbox[s]]
    BY <1>2 DEF SendRpc
  <2>6. r \in inbox'[websocket] /\ r.id = id
    BY <1>2, <2>4, <2>5
  <2> QED
    BY <2>4, <2>6
<1> QED
  BY <1>1, <1>2

LEMMA SocketOpenedTravels ==
  ASSUME Inv, NEW f, PInv(f), NEW s \in Sockets, SocketOpened(s),
         NEW id \in Ids, future'[id] = "pending"
  PROVE  future[id] = "pending" \/ \E r \in inbox'[s] : r.id = id
<1> DEFINE newIds == nextId + 1 .. nextId + Cardinality(Renewed)
<1>1. PICK order \in Bijection(newIds, Renewed) :
        /\ future' = [i \in Ids |-> IF i \in newIds THEN "pending" ELSE future[i]]
        /\ inbox' = [inbox EXCEPT ![s] =
             {[kind |-> "subscribe", id |-> i, sub |-> subscriptions[order[i]], sid |-> 0] : i \in newIds}]
  BY DEF SocketOpened, Resubscribe
<1> HIDE DEF newIds
<1>2. CASE id \in newIds
  <2>1. [kind |-> "subscribe", id |-> id, sub |-> subscriptions[order[id]], sid |-> 0] \in inbox'[s]
    BY <1>1, <1>2 DEF PInv, Typed
  <2> QED
    BY <2>1
<1>3. CASE id \notin newIds
  BY <1>1, <1>3
<1> QED
  BY <1>2, <1>3

LEMMA NewlyPendingTravels ==
  ASSUME TypeOK, Inv, \E f : PInv(f), Undisturbed, [ProviderNext]_vars,
         NEW id \in Ids, future'[id] = "pending", future[id] # "pending"
  PROVE  \E s \in Sockets : TravelsOn(s, id)'
<1>0. PICK f : PInv(f)
  OBVIOUS
<1>1. CASE UNCHANGED future
  BY <1>1
<1>2. CASE UNCHANGED vars \/ ConnectionStep
  BY <1>1, <1>2 DEF vars, tableVars, ConnectionStep, rpcVars
<1>3. CASE UserStep
  BY <1>0, <1>3, SendRpcTravels DEF UserStep, Send, Subscribe, Unsubscribe, TravelsOn
<1>4. ASSUME NEW s \in Sockets, SocketStep(s) PROVE \E t \in Sockets : TravelsOn(t, id)'
  <2>1. CASE SocketOpened(s)
    BY <1>0, <2>1, SocketOpenedTravels DEF TravelsOn
  <2>2. CASE SocketClosed(s) \/ ReceiveNote(s)
    BY <1>1, <2>2 DEF SocketClosed, ReceiveNote, tableVars
  <2>3. CASE ReceiveReply(s)
    <3>1. PICK m : m = Head(toClient[s])
      OBVIOUS
    <3>2. UNCHANGED future \/ future' = [future EXCEPT ![m.id] = Outcome(m)]
      BY <2>3, <3>1 DEF ReceiveReply, Settle
    <3>3. Outcome(m) # "pending"
      BY DEF Outcome
    <3> QED
      BY <1>1, <3>2, <3>3 DEF Inv, IdsFresh
  <2> QED
    BY <1>4, <2>1, <2>2, <2>3 DEF SocketStep
<1>5. ASSUME NEW s \in Sockets, NodeStep(s) PROVE UNCHANGED future
  BY <1>5 DEF NodeStep, NodeAnswers, NodeAccepts, NodeRefuses, NodeReplies, NodeNotifies,
              PeerLeaves, tableVars
<1> QED
  BY <1>1, <1>2, <1>3, <1>4, <1>5 DEF ProviderNext

LEMMA StepQuiet == ASSUME UniqueIds, ServedInv, QuietInv, [ProviderNext]_vars PROVE QuietInv'
<1>1. /\ drops' \in Nat
      /\ drops' = 0 /\ disconnects' = 0 =>
           drops = 0 /\ disconnects = 0 /\ Undisturbed /\ Undisturbed'
  BY StepUndisturbed DEF ServedInv
<1>2. ASSUME drops' = 0, disconnects' = 0, NEW id \in Ids, future'[id] = "pending"
      PROVE  \E s \in Sockets : TravelsOn(s, id)'
  <2>1. CASE future[id] = "pending"
    <3>1. PICK s \in Sockets : TravelsOn(s, id)
      BY <1>1, <1>2, <2>1 DEF QuietInv
    <3>2. StaysOn(s, id)
      BY <2>1, <3>1, StepStays DEF ServedInv
    <3>3. s \notin gone'
      BY <1>1, <1>2 DEF Undisturbed
    <3> QED
      BY <1>2, <3>2, <3>3 DEF StaysOn
  <2>2. CASE future[id] # "pending"
    BY <1>1, <1>2, <2>2, NewlyPendingTravels DEF ServedInv
  <2> QED
    BY <2>1, <2>2
<1> QED
  BY <1>1, <1>2 DEF QuietInv

(* If the node uses no subscription id twice, then until a connection is     *)
(* lost or the user disconnects, every request that is not settled is on its *)
(* way on a connection that works, however many connections the user and    *)
(* the timers opened: what Settles rests on (index.dart:229-235).            *)
THEOREM NoRequestForgotten == ASSUME UniqueIds PROVE ProviderSpec => []NothingForgotten
<1>1. ServedInv /\ QuietInv /\ [ProviderNext]_vars => QuietInv'
  BY StepQuiet
<1>2. ServedInv /\ QuietInv => NothingForgotten
  BY TravelsWhereReached DEF ServedInv, QuietInv, NothingForgotten
<1> QED
  BY <1>1, <1>2, InitQuiet, AlwaysServedInv, PTL DEF ProviderSpec
=============================================================================
