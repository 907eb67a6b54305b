------------------------- MODULE WsConnectionProofs -------------------------
(***************************************************************************)
(* Proofs about WsConnection, for any number of sockets, endpoints and     *)
(* user calls.                                                             *)
(***************************************************************************)
EXTENDS WsConnection, TLAPS, FiniteSetTheorems

(* The constants' assumptions, for citation. *)
ConstantsOK == /\ IsFiniteSet(Sockets) /\ NULL \notin Sockets
               /\ NumEndpoints \in Nat \ {0}
               /\ MaxConnects \in Nat /\ MaxDisconnects \in Nat
               /\ AutoConnect \in BOOLEAN /\ AssertsEnabled \in BOOLEAN

LEMMA Constants == ConstantsOK
BY SocketsAssumption, EndpointsAssumption, BoundsAssumption, FlagsAssumption DEF ConstantsOK

(* The endpoint that connect() takes is one of the list (index.dart:131).  *)
LEMMA NextEndpointType ==
  ASSUME endpointIndex \in Endpoints \cup {-1}
  PROVE  NextEndpoint \in Endpoints
<1>1. NumEndpoints \in Nat /\ NumEndpoints > 0
  BY Constants DEF ConstantsOK
<1>2. endpointIndex + 1 \in Int
  BY <1>1 DEF Endpoints
<1>3. \A a \in Int : a % NumEndpoints \in 0 .. NumEndpoints - 1
  BY <1>1
<1> QED
  BY <1>2, <1>3 DEF NextEndpoint, Endpoints

(***************************************************************************)
(* Type correctness.                                                       *)
(***************************************************************************)
LEMMA TypeOKInit == Init => TypeOK
<1> SUFFICES ASSUME Init PROVE TypeOK
  OBVIOUS
<1>1. 0 \in Endpoints
  BY Constants DEF ConstantsOK, Endpoints
<1>2. /\ endpointIndex \in Endpoints \cup {-1}
      /\ sock \in [Sockets -> SockStates]
      /\ target \in [Sockets -> Endpoints \cup {-1}]
  <2>1. CASE AutoConnect
    <3> PICK s \in Sockets :
               /\ endpointIndex = 0
               /\ sock = [x \in Sockets |-> IF x = s THEN "retrying" ELSE "closed"]
               /\ target = [x \in Sockets |-> IF x = s THEN 0 ELSE -1]
      BY <2>1 DEF Init
    <3> QED
      BY <1>1 DEF SockStates
  <2>2. CASE ~AutoConnect
    BY <2>2 DEF Init, SockStates
  <2> QED
    BY <2>1, <2>2
<1>3. connects \in 0 .. MaxConnects /\ disconnects \in 0 .. MaxDisconnects
  BY Constants DEF Init, ConstantsOK
<1>4. autoConnect \in BOOLEAN
  BY Constants DEF Init, ConstantsOK
<1> QED
  BY <1>2, <1>3, <1>4 DEF Init, TypeOK

(* StartConnect types the variables it changes. *)
LEMMA StartConnectType ==
  ASSUME TypeOK, NEW s \in Sockets, NEW kind \in {"retrying", "calling"},
         StartConnect(s, kind)
  PROVE  /\ endpointIndex' \in Endpoints \cup {-1}
         /\ sock' \in [Sockets -> SockStates]
         /\ target' \in [Sockets -> Endpoints \cup {-1}]
BY NextEndpointType DEF TypeOK, StartConnect, SockStates

LEMMA TypeOKStep == TypeOK /\ [Next]_connVars => TypeOK'
<1> SUFFICES ASSUME TypeOK, [Next]_connVars PROVE TypeOK'
  OBVIOUS
<1>1. CASE RetryTimer
  <2> PICK s \in Sockets : StartConnect(s, "retrying")
    BY <1>1 DEF RetryTimer, TimersAfterFiring
  <2> QED
    BY <1>1, StartConnectType DEF RetryTimer, TimersAfterFiring, TypeOK
<1>2. CASE Connect
  <2> PICK s \in Sockets : StartConnect(s, "calling")
    BY <1>2 DEF Connect
  <2>1. connects' \in 0 .. MaxConnects
    BY <1>2, Constants DEF Connect, TypeOK, ConstantsOK
  <2> QED
    BY <1>2, <2>1, StartConnectType DEF Connect, TypeOK
<1>3. ASSUME NEW s \in Sockets, Opened(s) PROVE TypeOK'
  BY <1>3 DEF Opened, Attempting, TypeOK, SockStates
<1>4. ASSUME NEW s \in Sockets, Failed(s) PROVE TypeOK'
  BY <1>4 DEF Failed, TimersAfterFailure, Attempting, TypeOK, SockStates
<1>5. ASSUME NEW s \in Sockets, Close(s) PROVE TypeOK'
  <2>1. sock' \in [Sockets -> SockStates]
    BY <1>5 DEF Close, TypeOK, SockStates
  <2>2. isConnected' \in BOOLEAN
    BY <1>5 DEF Close, TypeOK
  <2>3. timers' \in Nat
    BY <1>5 DEF Close, TypeOK
  <2> QED
    BY <1>5, <2>1, <2>2, <2>3 DEF Close, TypeOK
<1>6. CASE Disconnect
  <2>1. disconnects' \in 0 .. MaxDisconnects
    BY <1>6, Constants DEF Disconnect, AutoAfterDisconnect, TypeOK, ConstantsOK
  <2>2. autoConnect' \in BOOLEAN
    BY <1>6 DEF Disconnect, AutoAfterDisconnect
  <2>3. closing' \in Nat /\ sock' \in [Sockets -> SockStates]
    BY <1>6 DEF Disconnect, AutoAfterDisconnect, TypeOK, SockStates
  <2> QED
    BY <1>6, <2>1, <2>2, <2>3 DEF Disconnect, AutoAfterDisconnect, TypeOK
<1>7. CASE DisconnectDone
  BY <1>7 DEF DisconnectDone, TypeOK
<1>8. CASE UNCHANGED connVars
  BY <1>8 DEF connVars, TypeOK
<1> QED
  BY <1>1, <1>2, <1>3, <1>4, <1>5, <1>6, <1>7, <1>8 DEF Next

(* Every variable of the connection keeps its type. *)
THEOREM TypeCorrect == Spec => []TypeOK
BY TypeOKInit, TypeOKStep, PTL DEF Spec

(***************************************************************************)
(* A reconnection is on its way.                                           *)
(***************************************************************************)
LEMMA RetryPendingInit == Init => RetryPending
BY DEF Init, RetryPending

LEMMA RetryPendingStep == TypeOK /\ RetryPending /\ [Next]_connVars => RetryPending'
<1> SUFFICES ASSUME TypeOK, RetryPending, [Next]_connVars,
                    autoConnect', ~isConnected'
             PROVE  timers' > 0 \/ \E s \in Sockets : sock'[s] = "retrying"
  BY DEF RetryPending
<1> USE DEF TypeOK
<1>1. CASE RetryTimer
  BY <1>1 DEF RetryTimer, TimersAfterFiring, StartConnect
<1>2. CASE Connect
  BY <1>2 DEF Connect, StartConnect, RetryPending
<1>3. ASSUME NEW s \in Sockets, Opened(s) PROVE FALSE
  BY <1>3 DEF Opened
<1>4. ASSUME NEW s \in Sockets, Failed(s)
      PROVE  timers' > 0 \/ \E x \in Sockets : sock'[x] = "retrying"
  <2>1. CASE sock[s] = "retrying"
    BY <1>4, <2>1 DEF Failed, TimersAfterFailure
  <2>2. CASE sock[s] # "retrying"
    BY <1>4, <2>2 DEF Failed, TimersAfterFailure, RetryPending
  <2> QED
    BY <2>1, <2>2
<1>5. ASSUME NEW s \in Sockets, Close(s)
      PROVE  timers' > 0 \/ \E x \in Sockets : sock'[x] = "retrying"
  <2>1. CASE websocket = NULL
    BY <1>5, <2>1 DEF Close, Live, RetryPending
  <2>2. CASE websocket # NULL
    BY <1>5, <2>2 DEF Close
  <2> QED
    BY <2>1, <2>2
<1>6. CASE Disconnect
  BY <1>6 DEF Disconnect, AutoAfterDisconnect, RetryPending
<1>7. CASE DisconnectDone
  BY <1>7 DEF DisconnectDone, RetryPending
<1>8. CASE UNCHANGED connVars
  BY <1>8 DEF connVars, RetryPending
<1> QED
  BY <1>1, <1>2, <1>3, <1>4, <1>5, <1>6, <1>7, <1>8 DEF Next

(* A provider that reconnects by itself never ends up disconnected with    *)
(* neither a timer nor a handshake under way.                              *)
THEOREM AlwaysRetryPending == Spec => []RetryPending
BY RetryPendingInit, RetryPendingStep, TypeCorrect, PTL DEF Spec

(***************************************************************************)
(* The close handler does not dereference null.  By itself the property is *)
(* not inductive: that DisconnectDone sets _websocket to null is harmless  *)
(* only because autoConnect is off while a disconnect() is waiting.        *)
(***************************************************************************)
ManualWhileClosing == autoConnect => closing = 0

CloseInv == TypeOK /\ ManualWhileClosing /\ CloseHandlerSafe

LEMMA CloseInvInit == Init => CloseInv
<1> SUFFICES ASSUME Init PROVE CloseInv
  OBVIOUS
<1>1. TypeOK
  BY TypeOKInit
<1>2. closing = 0
  BY DEF Init
<1>3. Live = {}
  <2>1. CASE AutoConnect
    <3> PICK s \in Sockets : sock = [x \in Sockets |-> IF x = s THEN "retrying" ELSE "closed"]
      BY <2>1 DEF Init
    <3> QED
      BY DEF Live
  <2>2. CASE ~AutoConnect
    BY <2>2 DEF Init, Live
  <2> QED
    BY <2>1, <2>2
<1> QED
  BY <1>1, <1>2, <1>3 DEF CloseInv, ManualWhileClosing, CloseHandlerSafe

LEMMA CloseInvStep == CloseInv /\ [Next]_connVars => CloseInv'
<1> SUFFICES ASSUME CloseInv, [Next]_connVars
             PROVE  ManualWhileClosing' /\ CloseHandlerSafe'
  BY TypeOKStep DEF CloseInv
<1>0. /\ TypeOK /\ NULL \notin Sockets
      /\ autoConnect => closing = 0
      /\ autoConnect /\ Live # {} => websocket # NULL
  BY Constants DEF CloseInv, ManualWhileClosing, CloseHandlerSafe, ConstantsOK
<1> USE <1>0 DEF TypeOK, ManualWhileClosing, CloseHandlerSafe, Live
<1>1. CASE RetryTimer
  BY <1>1 DEF RetryTimer, TimersAfterFiring, StartConnect
<1>2. CASE Connect
  BY <1>2 DEF Connect, StartConnect
<1>3. ASSUME NEW s \in Sockets, Opened(s) PROVE ManualWhileClosing' /\ CloseHandlerSafe'
  BY <1>3 DEF Opened
<1>4. ASSUME NEW s \in Sockets, Failed(s) PROVE ManualWhileClosing' /\ CloseHandlerSafe'
  BY <1>4 DEF Failed, TimersAfterFailure
<1>5. ASSUME NEW s \in Sockets, Close(s) PROVE ManualWhileClosing' /\ CloseHandlerSafe'
  BY <1>5 DEF Close
<1>6. CASE Disconnect
  <2>1. CASE websocket = NULL
    BY <1>6, <2>1 DEF Disconnect, AutoAfterDisconnect
  <2>2. CASE websocket # NULL
    BY <1>6, <2>2 DEF Disconnect, AutoAfterDisconnect
  <2> QED
    BY <2>1, <2>2
<1>7. CASE DisconnectDone
  BY <1>7 DEF DisconnectDone
<1>8. CASE UNCHANGED connVars
  BY <1>8 DEF connVars
<1> QED
  BY <1>1, <1>2, <1>3, <1>4, <1>5, <1>6, <1>7, <1>8 DEF Next

(* _onSocketClose never reads closeCode of a null _websocket, and so never *)
(* ends before it has cleared isConnected and scheduled the reconnection.  *)
THEOREM CloseHandlerNeverFails == Spec => []CloseHandlerSafe
<1>1. CloseInv => CloseHandlerSafe
  BY DEF CloseInv
<1> QED
  BY <1>1, CloseInvInit, CloseInvStep, PTL DEF Spec

(***************************************************************************)
(* No reconnection storm.                                                  *)
(***************************************************************************)
LEMMA SocketCounts ==
  /\ IsFiniteSet(Attempting) /\ Cardinality(Attempting) \in Nat
  /\ IsFiniteSet(Live) /\ Cardinality(Live) \in Nat
<1>1. Attempting \subseteq Sockets /\ Live \subseteq Sockets
  BY DEF Attempting, Live
<1> QED
  BY <1>1, Constants, FS_Subset, FS_CardinalityType DEF ConstantsOK

(* A handshake starts: one more attempt, the same connections. *)
LEMMA StartConnectCounts ==
  ASSUME TypeOK, NEW s \in Sockets, NEW kind \in {"retrying", "calling"},
         StartConnect(s, kind)
  PROVE  /\ Cardinality(Attempting') = Cardinality(Attempting) + 1
         /\ Live' = Live
<1>1. s \notin Attempting /\ Attempting' = Attempting \cup {s}
  BY DEF StartConnect, TypeOK, Attempting
<1>2. Live' = Live
  BY DEF StartConnect, TypeOK, Live
<1> QED
  BY <1>1, <1>2, SocketCounts, FS_AddElement

LEMMA OneChainInit == Init => OneChainPerCall
<1> SUFFICES ASSUME Init PROVE OneChainPerCall
  OBVIOUS
<1>1. CASE AutoConnect
  <2> PICK s \in Sockets : sock = [x \in Sockets |-> IF x = s THEN "retrying" ELSE "closed"]
    BY <1>1 DEF Init
  <2>1. Attempting = {s} /\ Live = {}
    BY DEF Attempting, Live
  <2>2. Cardinality(Attempting) = 1 /\ Cardinality(Live) = 0
    BY <2>1, FS_EmptySet, FS_Singleton
  <2> QED
    BY <1>1, <2>2 DEF Init, OneChainPerCall
<1>2. CASE ~AutoConnect
  <2>1. Attempting = {} /\ Live = {}
    BY <1>2 DEF Init, Attempting, Live
  <2>2. Cardinality(Attempting) = 0 /\ Cardinality(Live) = 0
    BY <2>1, FS_EmptySet
  <2> QED
    BY <1>2, <2>2 DEF Init, OneChainPerCall
<1> QED
  BY <1>1, <1>2

LEMMA OneChainStep == TypeOK /\ OneChainPerCall /\ [Next]_connVars => OneChainPerCall'
<1> SUFFICES ASSUME TypeOK, OneChainPerCall, [Next]_connVars PROVE OneChainPerCall'
  OBVIOUS
<1> DEFINE base == IF AutoConnect THEN 1 ELSE 0
<1>0. /\ timers \in Nat /\ connects \in Nat
      /\ Cardinality(Attempting) \in Nat /\ Cardinality(Live) \in Nat
      /\ Cardinality(Attempting) + Cardinality(Live) + timers <= base + connects
  BY SocketCounts, Constants DEF TypeOK, OneChainPerCall, ConstantsOK
<1>a. SUFFICES Cardinality(Attempting') + Cardinality(Live') + timers' <= base + connects'
  BY DEF OneChainPerCall, Attempting, Live
<1>1. CASE RetryTimer
  <2> PICK s \in Sockets : StartConnect(s, "retrying")
    BY <1>1 DEF RetryTimer, TimersAfterFiring
  <2>1. Cardinality(Attempting') = Cardinality(Attempting) + 1 /\ Live' = Live
    BY StartConnectCounts
  <2>2. timers' = timers - 1 /\ connects' = connects
    BY <1>1 DEF RetryTimer, TimersAfterFiring
  <2> QED
    BY <1>0, <2>1, <2>2
<1>2. CASE Connect
  <2> PICK s \in Sockets : StartConnect(s, "calling")
    BY <1>2 DEF Connect
  <2>1. Cardinality(Attempting') = Cardinality(Attempting) + 1 /\ Live' = Live
    BY StartConnectCounts
  <2>2. timers' = timers /\ connects' = connects + 1
    BY <1>2 DEF Connect
  <2> QED
    BY <1>0, <2>1, <2>2
<1>3. ASSUME NEW s \in Sockets, Opened(s)
      PROVE  Cardinality(Attempting') + Cardinality(Live') + timers' <= base + connects'
  <2>1. s \in Attempting /\ Attempting' = Attempting \ {s}
    BY <1>3 DEF Opened, TypeOK, Attempting
  <2>2. s \notin Live /\ Live' = Live \cup {s}
    BY <1>3 DEF Opened, TypeOK, Attempting, Live
  <2>3. Cardinality(Attempting') = Cardinality(Attempting) - 1
    BY <2>1, SocketCounts, FS_RemoveElement
  <2>4. Cardinality(Live') = Cardinality(Live) + 1
    BY <2>2, SocketCounts, FS_AddElement
  <2>5. timers' = timers /\ connects' = connects
    BY <1>3 DEF Opened
  <2> QED
    BY <1>0, <2>3, <2>4, <2>5
<1>4. ASSUME NEW s \in Sockets, Failed(s)
      PROVE  Cardinality(Attempting') + Cardinality(Live') + timers' <= base + connects'
  <2>1. s \in Attempting /\ Attempting' = Attempting \ {s}
    BY <1>4 DEF Failed, TimersAfterFailure, TypeOK, Attempting
  <2>2. Live' = Live
    BY <1>4 DEF Failed, TimersAfterFailure, TypeOK, Attempting, Live
  <2>3. Cardinality(Attempting') = Cardinality(Attempting) - 1
    BY <2>1, SocketCounts, FS_RemoveElement
  <2>4. timers' \in {timers, timers + 1} /\ connects' = connects
    BY <1>4 DEF Failed, TimersAfterFailure
  <2> QED
    BY <1>0, <2>2, <2>3, <2>4
<1>5. ASSUME NEW s \in Sockets, Close(s)
      PROVE  Cardinality(Attempting') + Cardinality(Live') + timers' <= base + connects'
  <2>1. s \in Live /\ Live' = Live \ {s}
    BY <1>5 DEF Close, TypeOK, Live
  <2>2. Attempting' = Attempting
    BY <1>5 DEF Close, TypeOK, Attempting, Live
  <2>3. Cardinality(Live') = Cardinality(Live) - 1
    BY <2>1, SocketCounts, FS_RemoveElement
  <2>4. timers' \in {timers, timers + 1} /\ connects' = connects
    BY <1>5 DEF Close
  <2> QED
    BY <1>0, <2>2, <2>3, <2>4
<1>6. CASE Disconnect
  <2>1. Attempting' = Attempting /\ Live' = Live
    BY <1>6 DEF Disconnect, AutoAfterDisconnect, TypeOK, Attempting, Live
  <2> QED
    BY <1>0, <1>6, <2>1 DEF Disconnect, AutoAfterDisconnect
<1>7. CASE DisconnectDone
  BY <1>0, <1>7 DEF DisconnectDone, Attempting, Live
<1>8. CASE UNCHANGED connVars
  BY <1>0, <1>8 DEF connVars, Attempting, Live
<1> QED
  BY <1>1, <1>2, <1>3, <1>4, <1>5, <1>6, <1>7, <1>8 DEF Next

(* Handshakes, connections and retry timers together are never more than   *)
(* the calls that started them, however often the connection breaks.       *)
THEOREM NoReconnectStorm == Spec => []OneChainPerCall
BY OneChainInit, OneChainStep, TypeCorrect, PTL DEF Spec

(***************************************************************************)
(* isConnected.  Only the onDone of a socket clears it; while the user has *)
(* not called connect() there is one socket at a time, so that socket is   *)
(* the one the provider holds.                                             *)
(***************************************************************************)
LEMMA OneSocketAlone ==
  ASSUME TypeOK, OneChainPerCall, connects = 0,
         NEW s \in Live, NEW t \in Live
  PROVE  s = t
<1> SUFFICES ASSUME s # t PROVE FALSE
  OBVIOUS
<1>1. Cardinality(Live) <= 1
  BY SocketCounts DEF TypeOK, OneChainPerCall
<1>2. Cardinality({s}) = 1 /\ IsFiniteSet({s})
  BY FS_Singleton
<1>3. Cardinality({s, t}) = 2
  <2>1. {s, t} = {s} \cup {t} /\ t \notin {s}
    OBVIOUS
  <2> QED
    BY <1>2, <2>1, FS_AddElement
<1>4. {s, t} \subseteq Live
  OBVIOUS
<1>5. Cardinality({s, t}) <= Cardinality(Live)
  BY <1>4, SocketCounts, FS_Subset
<1> QED
  BY <1>1, <1>3, <1>5, SocketCounts

LEMMA FlagInit == Init => FlagWhileAlone
BY DEF Init, FlagWhileAlone

LEMMA FlagStep ==
  TypeOK /\ OneChainPerCall /\ FlagWhileAlone /\ [Next]_connVars => FlagWhileAlone'
<1> SUFFICES ASSUME TypeOK, OneChainPerCall, FlagWhileAlone, [Next]_connVars,
                    connects' = 0, websocket' # NULL, sock'[websocket'] = "open"
             PROVE  isConnected'
  BY DEF FlagWhileAlone
<1>1. CASE RetryTimer
  BY <1>1 DEF RetryTimer, StartConnect, TypeOK, FlagWhileAlone
<1>2. CASE Connect
  BY <1>2, Constants DEF Connect, TypeOK, ConstantsOK
<1>3. ASSUME NEW s \in Sockets, Opened(s) PROVE isConnected'
  BY <1>3 DEF Opened
<1>4. ASSUME NEW s \in Sockets, Failed(s) PROVE isConnected'
  BY <1>4 DEF Failed, TypeOK, FlagWhileAlone
<1>5. ASSUME NEW s \in Sockets, Close(s) PROVE isConnected'
  <2>1. /\ connects = 0 /\ websocket' = websocket /\ s \in Live
        /\ sock' = [sock EXCEPT ![s] = "closed"]
    BY <1>5 DEF Close
  <2>2. websocket \in Sockets /\ websocket # s /\ sock[websocket] = "open"
    BY <2>1 DEF TypeOK
  <2>3. websocket \in Live
    BY <2>2 DEF Live
  <2> QED
    BY <2>1, <2>2, <2>3, OneSocketAlone
<1>6. CASE Disconnect
  BY <1>6 DEF Disconnect, TypeOK, FlagWhileAlone
<1>7. CASE DisconnectDone
  BY <1>7 DEF DisconnectDone
<1>8. CASE UNCHANGED connVars
  BY <1>8 DEF connVars, FlagWhileAlone
<1> QED
  BY <1>1, <1>2, <1>3, <1>4, <1>5, <1>6, <1>7, <1>8 DEF Next

(* Without a connect() by the user, isConnected is never false while the   *)
(* provider's socket is open, however often the connection breaks.         *)
THEOREM FlagFollowsSocket == Spec => []FlagWhileAlone
BY FlagInit, FlagStep, TypeCorrect, NoReconnectStorm, PTL DEF Spec

(***************************************************************************)
(* Manual mode.  A disconnect() does not end the retries that are under    *)
(* way (ManualMode fails, see the README); what it does end is new ones.   *)
(***************************************************************************)
Retrying == {s \in Sockets : sock[s] = "retrying"}

(* connectWithRetry()s that wait for their delay or for their handshake.   *)
Retries == timers + Cardinality(Retrying)

NoNewRetries == [][~autoConnect => ~autoConnect' /\ Retries' <= Retries]_connVars

LEMMA RetryCounts == IsFiniteSet(Retrying) /\ Cardinality(Retrying) \in Nat
<1>1. Retrying \subseteq Sockets
  BY DEF Retrying
<1> QED
  BY <1>1, Constants, FS_Subset, FS_CardinalityType DEF ConstantsOK

(* A handshake that ends, one way or the other. *)
LEMMA EndedRetry ==
  ASSUME TypeOK, NEW s \in Sockets, NEW now \in {"open", "closed"}, s \in Attempting,
         sock' = [sock EXCEPT ![s] = now]
  PROVE  Cardinality(Retrying') = Cardinality(Retrying) - (IF sock[s] = "retrying" THEN 1 ELSE 0)
<1>1. Retrying' = Retrying \ {s}
  BY DEF Retrying, TypeOK
<1>2. CASE sock[s] = "retrying"
  <2>1. s \in Retrying
    BY <1>2 DEF Retrying
  <2> QED
    BY <1>1, <1>2, <2>1, RetryCounts, FS_RemoveElement
<1>3. CASE sock[s] # "retrying"
  <2>1. Retrying' = Retrying
    BY <1>1, <1>3 DEF Retrying
  <2> QED
    BY <1>3, <2>1, RetryCounts
<1> QED
  BY <1>2, <1>3

LEMMA RetriesStep ==
  ASSUME TypeOK, [Next]_connVars, ~autoConnect PROVE ~autoConnect' /\ Retries' <= Retries
<1>0. timers \in Nat /\ Cardinality(Retrying) \in Nat
  BY RetryCounts DEF TypeOK
<1> SUFFICES ~autoConnect' /\ timers' + Cardinality(Retrying') <= timers + Cardinality(Retrying)
  BY DEF Retries, Retrying
<1>1. CASE RetryTimer
  <2> PICK s \in Sockets : StartConnect(s, "retrying")
    BY <1>1 DEF RetryTimer
  <2>1. s \notin Retrying /\ Retrying' = Retrying \cup {s}
    BY DEF StartConnect, TypeOK, Retrying
  <2>2. Cardinality(Retrying') = Cardinality(Retrying) + 1
    BY <2>1, RetryCounts, FS_AddElement
  <2> QED
    BY <1>0, <1>1, <2>2 DEF RetryTimer, TimersAfterFiring
<1>2. CASE Connect
  <2>1. Retrying' = Retrying
    BY <1>2 DEF Connect, StartConnect, TypeOK, Retrying
  <2> QED
    BY <1>0, <1>2, <2>1 DEF Connect
<1>3. ASSUME NEW s \in Sockets, Opened(s)
      PROVE  ~autoConnect' /\ timers' + Cardinality(Retrying') <= timers + Cardinality(Retrying)
  <2>1. /\ s \in Attempting /\ sock' = [sock EXCEPT ![s] = "open"]
        /\ UNCHANGED << autoConnect, timers >>
    BY <1>3 DEF Opened
  <2>2. Cardinality(Retrying') = Cardinality(Retrying) - (IF sock[s] = "retrying" THEN 1 ELSE 0)
    BY <2>1, EndedRetry
  <2> QED
    BY <1>0, <2>1, <2>2
<1>4. ASSUME NEW s \in Sockets, Failed(s)
      PROVE  ~autoConnect' /\ timers' + Cardinality(Retrying') <= timers + Cardinality(Retrying)
  <2>1. /\ s \in Attempting /\ sock' = [sock EXCEPT ![s] = "closed"]
        /\ UNCHANGED autoConnect
        /\ timers' = IF sock[s] = "retrying" THEN timers + 1 ELSE timers
    BY <1>4 DEF Failed, TimersAfterFailure
  <2>2. Cardinality(Retrying') = Cardinality(Retrying) - (IF sock[s] = "retrying" THEN 1 ELSE 0)
    BY <2>1, EndedRetry
  <2> QED
    BY <1>0, <2>1, <2>2
<1>5. ASSUME NEW s \in Sockets, Close(s)
      PROVE  ~autoConnect' /\ timers' + Cardinality(Retrying') <= timers + Cardinality(Retrying)
  <2>1. Retrying' = Retrying
    BY <1>5 DEF Close, TypeOK, Live, Retrying
  <2> QED
    BY <1>0, <1>5, <2>1 DEF Close
<1>6. CASE Disconnect
  <2>1. Retrying' = Retrying
    BY <1>6 DEF Disconnect, TypeOK, Retrying
  <2>2. ~autoConnect' /\ timers' = timers
    BY <1>6, Zenon DEF Disconnect, AutoAfterDisconnect
  <2> QED
    BY <1>0, <2>1, <2>2
<1>7. CASE DisconnectDone
  BY <1>0, <1>7 DEF DisconnectDone, Retrying
<1>8. CASE UNCHANGED connVars
  BY <1>0, <1>8 DEF connVars, Retrying
<1> QED
  BY <1>1, <1>2, <1>3, <1>4, <1>5, <1>6, <1>7, <1>8 DEF Next

(* Once autoConnect is off it stays off and no step starts another chain of *)
(* retries: the onDone of a socket schedules none (index.dart:287-299), a    *)
(* connect() of the user that fails schedules none, and a retry that was on  *)
(* its way comes to one more at most.  What ManualMode misses is no more     *)
(* than the retries that were under way at the disconnect().                *)
THEOREM ManualModeStartsNothing == Spec => NoNewRetries
<1>1. TypeOK /\ [Next]_connVars => (~autoConnect => ~autoConnect' /\ Retries' <= Retries)
  BY RetriesStep
<1> QED
  BY <1>1, TypeCorrect, PTL DEF Spec, NoNewRetries
=============================================================================
