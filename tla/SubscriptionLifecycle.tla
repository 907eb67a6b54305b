----------------------- MODULE SubscriptionLifecycle ------------------------
(***************************************************************************)
(* What subscribe() and unsubscribe() of a ProviderInterface                *)
(* (lib/rpc_provider/types.dart) promise to their user: one life per        *)
(* subscription, and callbacks that belong to it.  How the provider keeps   *)
(* the promise over connections that break is WsProvider.tla.               *)
(***************************************************************************)
EXTENDS Naturals

CONSTANTS
  Subs,     \* subscriptions the user may ask for
  Durable,  \* those that are asked for again on a new connection
  NULL      \* nothing heard yet

VARIABLES
  stage,  \* of each subscription
  heard,  \* the last notification each callback got: sub is the subscription
          \* it is about, owner the request that started it, n its number
  quit    \* subscriptions that the user ended

Stages == {"idle", "requested", "active", "ended"}

Init ==
  /\ stage = [u \in Subs |-> "idle"]
  /\ heard = [u \in Subs |-> NULL]
  /\ quit = {}

Newer(a, b) ==
  \/ b = NULL
  \/ a.owner > b.owner
  \/ a.owner = b.owner /\ a.n > b.n

(* The callback of u is called: with news, and news of u. *)
Hear(u) == \E note \in {heard'[u]} : /\ note # NULL
                                     /\ note.sub = u
                                     /\ Newer(note, heard[u])
                                     /\ heard' = [heard EXCEPT ![u] = note]

(* The next one of those sent under its id, or the first under a new id. *)
Follows(a, b) == a.n = IF b # NULL /\ a.owner = b.owner THEN b.n + 1 ELSE 1

Become(u, from, to) == stage[u] = from /\ stage' = [stage EXCEPT ![u] = to]

Request(u) == Become(u, "idle", "requested") /\ UNCHANGED << heard, quit >>
Refuse(u)  == /\ Become(u, "idle", "ended") \/ Become(u, "requested", "ended")
              /\ UNCHANGED << heard, quit >>
Confirm(u) == /\ Become(u, "requested", "active") /\ UNCHANGED quit
              /\ UNCHANGED heard \/ Hear(u)
Notify(u)  == /\ stage[u] = "active" /\ UNCHANGED << stage, quit >>
              /\ Hear(u) /\ Follows(heard'[u], heard[u])

(* While the connection stays, only its user ends an active subscription.  *)
Leave(u) ==
  /\ Become(u, "active", "ended")
  /\ u \notin quit /\ quit' = quit \cup {u}
  /\ UNCHANGED heard

(* A new connection: every active subscription is asked for again, or ends *)
(* if it is of those that are not.                                         *)
Renew ==
  /\ stage' = [u \in Subs |-> IF stage[u] # "active" THEN stage[u]
                              ELSE IF u \in Durable THEN "requested" ELSE "ended"]
  /\ UNCHANGED << heard, quit >>

Next ==
  \/ Renew
  \/ \E u \in Subs : Request(u) \/ Refuse(u) \/ Confirm(u) \/ Notify(u) \/ Leave(u)

Spec == Init /\ [][Next]_<< stage, heard, quit >>
=============================================================================
