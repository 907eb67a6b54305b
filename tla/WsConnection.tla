---------------------------- MODULE WsConnection ----------------------------
(***************************************************************************)
(* The connection half of WsProvider (lib/rpc_provider/ws/index.dart): who *)
(* opens a socket, which socket the provider holds, what isConnected says, *)
(* and when a reconnection is scheduled.  What travels on the sockets is   *)
(* added by WsProvider.tla.                                                *)
(*                                                                         *)
(* Dart runs one handler at a time; a handler ends at an await or a        *)
(* return.  So one action is what runs between two such points:            *)
(*   connect() up to `await WebSocket.connect`       RetryTimer, Connect   *)
(*   connect() after it                              Opened, Failed        *)
(*   disconnect() up to `await close`, after it      Disconnect,           *)
(*                                                   DisconnectDone        *)
(*   the onDone callback of a socket                 Close                 *)
(***************************************************************************)
EXTENDS Integers, FiniteSets

CONSTANTS
  Sockets,         \* WebSocket objects; one that is closed and that the
                   \* provider no longer holds stands for a new object
  NULL,            \* Dart's null
  NumEndpoints,    \* length of the list of endpoints
  Up,              \* endpoints that accept every connection
  Down,            \* endpoints that refuse every connection; any other one
                   \* accepts some and refuses some
  AutoConnect,     \* was the provider constructed with autoConnectMs > 0?
  AssertsEnabled,  \* Dart checks assert() in debug builds only
  MaxConnects,     \* bound: connect() calls made by the user
  MaxDisconnects   \* bound: disconnect() calls made by the user

Endpoints == 0 .. NumEndpoints - 1

ASSUME SocketsAssumption == /\ IsFiniteSet(Sockets)
                            /\ NULL \notin Sockets
ASSUME EndpointsAssumption == /\ NumEndpoints \in Nat \ {0}
                              /\ Up \subseteq Endpoints
                              /\ Down \subseteq Endpoints
                              /\ Up \cap Down = {}
ASSUME FlagsAssumption == /\ AutoConnect \in BOOLEAN
                          /\ AssertsEnabled \in BOOLEAN
ASSUME BoundsAssumption == /\ MaxConnects \in Nat
                           /\ MaxDisconnects \in Nat

VARIABLES
  endpointIndex,  \* _endpointIndex
  autoConnect,    \* _autoConnectMs > 0
  isConnected,    \* _isConnected
  websocket,      \* _websocket
  sock,           \* what each WebSocket object is doing, see SockStates
  target,         \* the endpoint a pending WebSocket.connect was given, or -1
  timers,         \* Future.delayed(...connectWithRetry) that have not fired
  closing,        \* disconnect() calls waiting for their close()
  connects,       \* connect() calls the user has made
  disconnects     \* disconnect() calls the user has made

connVars == << endpointIndex, autoConnect, isConnected, websocket, sock, target,
               timers, closing, connects, disconnects >>

(***************************************************************************)
(* "retrying": awaited by a connect() that connectWithRetry called;        *)
(* "calling": awaited by a connect() the user called; "open": listened to; *)
(* "closing": closed by this side, its onDone has not run; "closed": its   *)
(* onDone has run, or it was never used.                                   *)
(***************************************************************************)
SockStates == {"closed", "retrying", "calling", "open", "closing"}

Attempting == {s \in Sockets : sock[s] \in {"retrying", "calling"}}
Live       == {s \in Sockets : sock[s] \in {"open", "closing"}}

TypeOK ==
  /\ endpointIndex \in Endpoints \cup {-1}
  /\ autoConnect \in BOOLEAN
  /\ isConnected \in BOOLEAN
  /\ websocket \in Sockets \cup {NULL}
  /\ sock \in [Sockets -> SockStates]
  /\ target \in [Sockets -> Endpoints \cup {-1}]
  /\ timers \in Nat
  /\ closing \in Nat
  /\ connects \in 0 .. MaxConnects
  /\ disconnects \in 0 .. MaxDisconnects
-----------------------------------------------------------------------------
(* Names ending in Slip are versions of the definition after them that a    *)
(* slip in the code would give; no specification uses one.                  *)

NextEndpointSlip == endpointIndex + 1              \* without the modulo
NoRotationSlip == IF endpointIndex = -1 THEN 0 ELSE endpointIndex

NextEndpoint == (endpointIndex + 1) % NumEndpoints

(* The constructor: with a positive delay it calls connectWithRetry, which *)
(* runs as far as the await of its WebSocket.connect.                      *)
Init ==
  /\ autoConnect = AutoConnect
  /\ isConnected = FALSE
  /\ websocket = NULL
  /\ timers = 0
  /\ closing = 0
  /\ connects = 0
  /\ disconnects = 0
  /\ IF AutoConnect
       THEN \E s \in Sockets :
              /\ endpointIndex = 0
              /\ sock = [x \in Sockets |-> IF x = s THEN "retrying" ELSE "closed"]
              /\ target = [x \in Sockets |-> IF x = s THEN 0 ELSE -1]
       ELSE /\ endpointIndex = -1
            /\ sock = [x \in Sockets |-> "closed"]
            /\ target = [x \in Sockets |-> -1]

(* connect() up to its await: take the next endpoint, start the handshake. *)
StartConnect(s, kind) ==
  /\ sock[s] = "closed"
  /\ websocket # s
  /\ endpointIndex' = NextEndpoint
  /\ sock' = [sock EXCEPT ![s] = kind]
  /\ target' = [target EXCEPT ![s] = NextEndpoint]

PeriodicSlip == timers                 \* Timer.periodic for Future.delayed
TimersAfterFiring == timers - 1

(* The delay of a Future.delayed is over: connectWithRetry.  Nothing here  *)
(* looks at _autoConnectMs again.                                          *)
RetryTimer ==
  /\ timers > 0
  /\ timers' = TimersAfterFiring
  /\ \E s \in Sockets : StartConnect(s, "retrying")
  /\ UNCHANGED << autoConnect, isConnected, websocket, closing, connects, disconnects >>

(* The user calls connect().  Nothing prevents it from overlapping with    *)
(* another connect() or with a connection that is open.                    *)
Connect ==
  /\ connects < MaxConnects
  /\ connects' = connects + 1
  /\ \E s \in Sockets : StartConnect(s, "calling")
  /\ UNCHANGED << autoConnect, isConnected, websocket, timers, closing, disconnects >>

(* The handshake of s succeeds: connect() resumes, _onSocketOpen runs and  *)
(* the socket is listened to.                                              *)
Opened(s) ==
  /\ s \in Attempting
  /\ target[s] \notin Down
  /\ websocket' = s
  /\ isConnected' = TRUE
  /\ sock' = [sock EXCEPT ![s] = "open"]
  /\ target' = [target EXCEPT ![s] = -1]
  /\ UNCHANGED << endpointIndex, autoConnect, timers, closing, connects, disconnects >>

NoRetrySlip(s) == timers
TimersAfterFailure(s) == IF sock[s] = "retrying" THEN timers + 1 ELSE timers

(* The handshake of s fails: connect() rethrows.  connectWithRetry always  *)
(* schedules another one; the user's connect() only reports the error.     *)
Failed(s) ==
  /\ s \in Attempting
  /\ target[s] \notin Up
  /\ timers' = TimersAfterFailure(s)
  /\ sock' = [sock EXCEPT ![s] = "closed"]
  /\ target' = [target EXCEPT ![s] = -1]
  /\ UNCHANGED << endpointIndex, autoConnect, isConnected, websocket, closing,
                  connects, disconnects >>

(* onDone of s: _onSocketClose.  With autoConnect it first reads closeCode *)
(* of the socket the provider holds, whichever that is: were it null, the  *)
(* handler would end there.                                                *)
Close(s) ==
  /\ s \in Live
  /\ sock' = [sock EXCEPT ![s] = "closed"]
  /\ IF autoConnect /\ websocket = NULL
       THEN UNCHANGED << isConnected, timers >>
       ELSE /\ isConnected' = FALSE
            /\ timers' = IF autoConnect THEN timers + 1 ELSE timers
  /\ UNCHANGED << endpointIndex, autoConnect, websocket, target, closing, connects,
                  disconnects >>

(* A disconnect() that finds a socket switches autoConnect off; one that    *)
(* does not fails before or after that, see Disconnect.                     *)
StillAutoSlip == autoConnect
AutoAfterDisconnect == autoConnect /\ websocket = NULL /\ AssertsEnabled

(* The user calls disconnect(), which runs up to the await of close().     *)
(* Without a socket it throws: before it touches autoConnect where asserts *)
(* are checked, after it where they are not.                               *)
Disconnect ==
  /\ disconnects < MaxDisconnects
  /\ disconnects' = disconnects + 1
  /\ autoConnect' = AutoAfterDisconnect
  /\ IF websocket = NULL
       THEN UNCHANGED << sock, closing >>
       ELSE /\ closing' = closing + 1
            /\ sock' = [sock EXCEPT ![websocket] = IF @ = "open" THEN "closing" ELSE @]
  /\ UNCHANGED << endpointIndex, isConnected, websocket, target, timers, connects >>

(* The close() of a disconnect() is done: the provider forgets its socket, *)
(* which may by now be another one.                                        *)
DisconnectDone ==
  /\ closing > 0
  /\ closing' = closing - 1
  /\ websocket' = NULL
  /\ UNCHANGED << endpointIndex, autoConnect, isConnected, sock, target, timers,
                  connects, disconnects >>

Next ==
  \/ RetryTimer
  \/ Connect
  \/ \E s \in Sockets : Opened(s) \/ Failed(s) \/ Close(s)
  \/ Disconnect
  \/ DisconnectDone

(* Timers fire, a handshake ends one way or the other, a socket this side  *)
(* closed is done in the end (dart:io gives up waiting for the peer after  *)
(* five seconds).  Nothing makes the peer close or the user call.          *)
Fairness ==
  /\ WF_connVars(RetryTimer)
  /\ WF_connVars(DisconnectDone)
  /\ \A s \in Sockets : /\ WF_connVars(Opened(s) \/ Failed(s))
                        /\ WF_connVars(sock[s] = "closing" /\ Close(s))

Spec == Init /\ [][Next]_connVars
FairSpec == Spec /\ Fairness
-----------------------------------------------------------------------------
(* Properties.                                                             *)

(* A provider that reconnects by itself and is not connected has a          *)
(* reconnection on its way: no order of failures, drops and user calls      *)
(* leaves it disconnected with nothing scheduled.                           *)
RetryPending ==
  autoConnect /\ ~isConnected =>
    timers > 0 \/ \E s \in Sockets : sock[s] = "retrying"

(* _onSocketClose never dereferences a null _websocket (index.dart:289):    *)
(* while autoConnect is on, a socket whose onDone is still to come means    *)
(* the provider holds some socket.                                          *)
CloseHandlerSafe == autoConnect /\ Live # {} => websocket # NULL

(* No reconnection storm: the handshakes, the connections and the pending   *)
(* timers descend from the constructor's connectWithRetry and from the      *)
(* user's connect() calls, each of which is at most one of them at a time.  *)
OneChainPerCall ==
  Cardinality(Attempting) + Cardinality(Live) + timers
    <= (IF AutoConnect THEN 1 ELSE 0) + connects

(* "true if connected" (index.dart:110): as long as only connectWithRetry   *)
(* connects, isConnected is not FALSE while the socket the provider holds   *)
(* is open.  A connect() by the user ends that: the onDone of either socket *)
(* clears the flag of both.                                                 *)
FlagWhileAlone ==
  connects = 0 /\ websocket # NULL /\ sock[websocket] = "open" => isConnected

(* After a disconnect() that found a socket nothing reconnects by itself    *)
(* ("switch off autoConnect, we are in manual mode now", index.dart:191).   *)
ManualMode ==
  [][~autoConnect => \A s \in Sockets : sock'[s] = "retrying" => sock[s] = "retrying"]_connVars

(* With an endpoint that accepts connections in the list, a provider that   *)
(* reconnects by itself gets connected whatever the other endpoints do.     *)
Reconnects == autoConnect /\ ~isConnected ~> isConnected \/ ~autoConnect
=============================================================================
