----------------------------- MODULE GRPCProofs -----------------------------
(***************************************************************************)
(* Theorems about the helpers around gRPC: the connection                  *)
(* (utils/grpchelpers/grpcconn.go), the server (grpcserver.go) and the     *)
(* synchronous stream (utils/syncstream), for any number of calls, owners, *)
(* connections, starts and requests.                                       *)
(***************************************************************************)
EXTENDS SyncStream, GRPCConn, GRPCServer, CommonLemmas, TLAPS

-----------------------------------------------------------------------------
(***************************************************************************)
(* The connection                                                          *)
(***************************************************************************)

\* Connections are assigned in order, and the current one is not closed.
CurrentIsOpen ==
    /\ closedConns \subseteq 1 .. conns
    /\ grpcConn \in 0 .. conns
    /\ grpcConn \notin closedConns

\* The mutex belongs to the call that is made, which is why Stop waits for it.
CallHoldsMutex ==
    \A c \in Calls : pc[c] = "call" => mutex = c /\ grpcConn # Nil

ConnInv == TypeOK /\ CounterIsStarted /\ CurrentIsOpen /\ CallHoldsMutex

\* What the properties say follows from the invariant.
LEMMA ConnInvImplies == ConnInv => ConnectionConsistent
BY DEF ConnInv, TypeOK, CurrentIsOpen, CallHoldsMutex, ConnectionConsistent, CounterIsStarted,
       CallOnOpenConnection, Conns, Nil

LEMMA ConnInit == Init => ConnInv
<1> SUFFICES ASSUME Init PROVE ConnInv
  OBVIOUS
<1>1. TypeOK
  <2>1. started \in BOOLEAN
    BY Zenon DEF Init
  <2> QED BY <2>1, ConnAssumption DEF Init, TypeOK, Conns, Nil
<1>2. CounterIsStarted
  BY DEF Init, CounterIsStarted
<1>3. CurrentIsOpen
  BY DEF Init, CurrentIsOpen, Nil
<1>4. CallHoldsMutex
  BY DEF Init, CallHoldsMutex
<1> QED BY <1>1, <1>2, <1>3, <1>4 DEF ConnInv

\* Every operation of the connection keeps the invariant.
LEMMA ConnNext == ConnInv /\ [Next]_vars => ConnInv'
<1> SUFFICES ASSUME ConnInv, [Next]_vars PROVE ConnInv'
  OBVIOUS
<1> USE ConnAssumption DEF ConnInv, TypeOK, CounterIsStarted, CurrentIsOpen, CallHoldsMutex,
        Conns, Nil, Nobody, Locked, Alive, connVars
<1>1. CASE Set
  <2>1. TypeOK'
    BY <1>1 DEF Set
  <2>2. CounterIsStarted'
    BY <1>1 DEF Set
  <2>3. CurrentIsOpen'
    BY <1>1 DEF Set
  <2>4. CallHoldsMutex'
    BY <1>1 DEF Set
  <2> QED BY <2>1, <2>2, <2>3, <2>4
<1>2. CASE Start
  <2>0. started' \in BOOLEAN
    BY <1>2, Zenon DEF Start
  <2>1. TypeOK'
    BY <1>2, <2>0 DEF Start, Done
  <2>2. CounterIsStarted'
    BY <1>2 DEF Start, Done
  <2>3. CurrentIsOpen'
    BY <1>2 DEF Start, Done
  <2>4. CallHoldsMutex'
    BY <1>2 DEF Start, Done
  <2> QED BY <2>1, <2>2, <2>3, <2>4
<1>3. CASE Stop
  <2>0. started' \in BOOLEAN
    BY <1>3, Zenon DEF Stop
  <2>1. TypeOK'
    BY <1>3, <2>0 DEF Stop
  <2>2. CounterIsStarted'
    BY <1>3 DEF Stop
  <2>3. CurrentIsOpen'
    BY <1>3 DEF Stop
  <2>4. CallHoldsMutex'
    BY <1>3 DEF Stop
  <2> QED BY <2>1, <2>2, <2>3, <2>4
<1>4. CASE Close
  <2>0. started' \in BOOLEAN
    BY <1>4, Zenon DEF Close
  <2>a. panicked' \in {"no", "nil connection"}
    BY <1>4 DEF Close
  <2>b. wg' = 0
    <3>1. CASE started
      <4>1. wg' = wg
        BY <1>4, <3>1, Zenon DEF Close
      <4> QED BY <3>1, <4>1
    <3>2. CASE ~ started
      <4>1. wg' = wg - 1
        BY <1>4, <3>2, Zenon DEF Close, Done
      <4>2. wg = 1
        BY <3>2, Zenon
      <4> HIDE DEF ConnInv
      <4> QED BY <4>1, <4>2
    <3> QED BY <3>1, <3>2
  <2>c. /\ waiter' \in [Calls -> {"none", "waiting", "released", "signalling"}]
        /\ \A c \in Calls : waiter'[c] # "waiting"
    <3>1. CASE started
      BY <1>4, <3>1 DEF Close
    <3>2. CASE ~ started
      BY <1>4, <3>2 DEF Close, Done
    <3> QED BY <3>1, <3>2
  <2>d. started'
    BY <1>4, Zenon DEF Close
  <2>1. TypeOK'
    BY <1>4, <2>0, <2>a, <2>b, <2>c DEF Close
  <2>2. CounterIsStarted'
    BY <2>b, <2>c, <2>d
  <2>3. CurrentIsOpen'
    BY <1>4 DEF Close
  <2>4. CallHoldsMutex'
    BY <1>4 DEF Close
  <2> QED BY <2>1, <2>2, <2>3, <2>4
<1>5. CASE NewStream
  BY <1>5 DEF NewStream
<1>6. ASSUME NEW c \in Calls, Invoke(c) PROVE ConnInv'
  BY <1>6 DEF Invoke
<1>7. ASSUME NEW c \in Calls, ContextDone(c) PROVE ConnInv'
  BY <1>7 DEF ContextDone
<1>8. ASSUME NEW c \in Calls, CallStep(c) PROVE ConnInv'
  <2>1. CASE WaitReturns(c)
    BY <2>1 DEF WaitReturns
  <2>2. CASE Signal(c)
    BY <2>2 DEF Signal
  <2>3. CASE SignalNobody(c)
    BY <2>3 DEF SignalNobody
  <2>4. CASE Call(c)
    BY <2>4 DEF Call
  <2>5. CASE CallReturns(c)
    BY <2>5 DEF CallReturns
  <2> QED BY <1>8, <2>1, <2>2, <2>3, <2>4, <2>5 DEF CallStep
<1>9. CASE UNCHANGED vars
  BY <1>9 DEF vars
<1> QED BY <1>1, <1>2, <1>3, <1>4, <1>5, <1>6, <1>7, <1>8, <1>9 DEF Next

\* The types of the connection's fields and of the calls (GRPCConn).
THEOREM ConnTypeCorrect == Spec => []TypeOK
<1>1. ConnInv => TypeOK
  BY DEF ConnInv
<1> QED BY <1>1, ConnInit, ConnNext, PTL DEF Spec

\* The WaitGroup counter is that of the started flag and never goes below zero,
\* nobody waits for a started connection, and a remote call is made on the
\* current connection, open while the call lasts (Start, Stop, Close, Invoke).
THEOREM CallsOnConsistentConnection == Spec => []ConnectionConsistent
BY ConnInit, ConnNext, ConnInvImplies, PTL DEF Spec

-----------------------------------------------------------------------------
(***************************************************************************)
(* The server                                                              *)
(***************************************************************************)

ServerTypeOK ==
    /\ holder \in Owners \union {"nobody"}
    /\ grpcServer \in 0 .. MaxStarts
    /\ starts \in 0 .. MaxStarts
    /\ listeners \subseteq Servers
    /\ goroutine \in [Servers -> {"none", "spawned", "serving", "done"}]
    /\ ownerPC \in [Owners -> {"idle", "lock", "wait", "listen"}]

\* Who stops or starts the server holds the mutex, and has forgotten the old
\* server before it listens.
HolderActs ==
    \A o \in Owners :
        /\ ownerPC[o] \in {"wait", "listen"} => holder = o
        /\ ownerPC[o] = "listen" => grpcServer = NoServer

\* A listener is open only while its goroutine has it, and a goroutine that has
\* not ended is the one of the current server.
ListenersServed ==
    /\ \A s \in listeners : goroutine[s] \in {"spawned", "serving"}
    /\ \A s \in Servers : goroutine[s] \in {"spawned", "serving"} => grpcServer = s

ServerInv == ServerTypeOK /\ HolderActs /\ ListenersServed

\* The address is free for a restart: a listener would belong to a goroutine of
\* the server that was forgotten.
LEMMA ServerInvImplies == ServerInv => RestartFindsAddressFree
<1> SUFFICES ASSUME ServerInv PROVE RestartFindsAddressFree
  OBVIOUS
<1>1. ASSUME NEW o \in Owners, ownerPC[o] = "listen" PROVE listeners = {}
  <2>1. grpcServer = NoServer
    BY <1>1 DEF ServerInv, HolderActs
  <2>2. \A s \in Servers : s # NoServer
    BY ServerAssumption DEF Servers, NoServer
  <2> QED BY <2>1, <2>2 DEF ServerInv, ServerTypeOK, ListenersServed
<1> QED BY <1>1 DEF RestartFindsAddressFree, ServerInv, ListenersServed

LEMMA ServerInitInv == ServerInit => ServerInv
BY ServerAssumption DEF ServerInit, ServerInv, ServerTypeOK, HolderActs, ListenersServed, Servers,
   NoServer

\* Every operation of the server, and every step of its goroutines, keeps the
\* invariant.
LEMMA ServerNextInv == ServerInv /\ [ServerNext]_grpcServerVars => ServerInv'
<1> SUFFICES ASSUME ServerInv, [ServerNext]_grpcServerVars PROVE ServerInv'
  OBVIOUS
<1> USE ServerAssumption DEF ServerInv, NoServer
<1>1. CASE RegisterService
  BY <1>1 DEF RegisterService, ServerTypeOK, HolderActs, ListenersServed
<1>2. ASSUME NEW o \in Owners, CallServer(o) PROVE ServerInv'
  BY <1>2 DEF CallServer, ServerTypeOK, HolderActs, ListenersServed
<1>3. ASSUME NEW o \in Owners, StopGRPC(o) PROVE ServerInv'
  BY <1>3 DEF StopGRPC, ServerTypeOK, HolderActs, ListenersServed
<1>4. ASSUME NEW o \in Owners, StopReturns(o) PROVE ServerInv'
  <2>1. ServerTypeOK'
    BY <1>4 DEF StopReturns, ServerTypeOK
  <2>2. HolderActs'
    BY <1>4 DEF StopReturns, ServerTypeOK, HolderActs
  <2>3. ListenersServed'
    BY <1>4 DEF StopReturns, stopWGWait, ServerTypeOK, ListenersServed
  <2> QED BY <2>1, <2>2, <2>3
<1>5. ASSUME NEW o \in Owners, startGRPCServer(o) PROVE ServerInv'
  <2>1. grpcServer = NoServer /\ holder = o
    BY <1>5 DEF startGRPCServer, HolderActs
  <2>2. CASE ReleaseOnError(o) /\ UNCHANGED <<grpcServer, starts, listeners, goroutine>>
    BY <1>5, <2>1, <2>2 DEF startGRPCServer, ReleaseOnError, ServerTypeOK, HolderActs, ListenersServed
  <2>3. CASE /\ starts < MaxStarts
             /\ holder' = "nobody"
             /\ starts' = starts + 1
             /\ listeners' = {starts'}
             /\ grpcServer' = starts'
             /\ goroutine' = [goroutine EXCEPT ![starts'] = "spawned"]
    <3>1. starts' \in Servers
      BY <2>3 DEF ServerTypeOK, Servers
    <3>2. \A s \in Servers : goroutine[s] \notin {"spawned", "serving"}
      BY <2>1 DEF ListenersServed, Servers
    <3>3. ownerPC' = [ownerPC EXCEPT ![o] = "idle"]
      BY <1>5 DEF startGRPCServer
    <3>4. ServerTypeOK'
      BY <2>3, <3>1, <3>3 DEF ServerTypeOK, Servers
    <3>5. HolderActs'
      BY <2>1, <3>3 DEF HolderActs, ServerTypeOK
    <3>6. ListenersServed'
      BY <2>3, <3>1, <3>2 DEF ListenersServed, ServerTypeOK
    <3> QED BY <3>4, <3>5, <3>6
  <2> QED BY <1>5, <2>2, <2>3 DEF startGRPCServer
<1>6. ASSUME NEW s \in Servers, Serve(s) PROVE ServerInv'
  <2>1. grpcServer = s /\ s # NoServer
    BY <1>6 DEF Serve, ListenersServed, Servers
  <2>2. /\ goroutine' \in {[goroutine EXCEPT ![s] = "done"], [goroutine EXCEPT ![s] = "serving"]}
        /\ listeners' = IF goroutine' = [goroutine EXCEPT ![s] = "done"]
                        THEN listeners \ {s} ELSE listeners
    BY <1>6, <2>1 DEF Serve, ServerTypeOK
  <2>3. UNCHANGED <<holder, grpcServer, starts, ownerPC>>
    BY <1>6 DEF Serve
  <2> QED BY <2>1, <2>2, <2>3 DEF ServerTypeOK, HolderActs, ListenersServed
<1>7. ASSUME NEW s \in Servers, ServeReturns(s) PROVE ServerInv'
  BY <1>7 DEF ServeReturns, ServerTypeOK, HolderActs, ListenersServed
<1>8. CASE UNCHANGED grpcServerVars
  BY <1>8 DEF grpcServerVars, ServerTypeOK, HolderActs, ListenersServed
<1> QED BY <1>1, <1>2, <1>3, <1>4, <1>5, <1>6, <1>7, <1>8 DEF ServerNext, OwnerStep

\* A restart never finds its own address in use, and a spawned goroutine, which
\* reads server.grpcServer without the mutex, finds the server of its own start
\* (StartServer, RestartServer, StopServer and the goroutine of startGRPCServer).
THEOREM RestartNeverFindsAddressInUse == ServerSpec => []RestartFindsAddressFree
BY ServerInitInv, ServerNextInv, ServerInvImplies, PTL DEF ServerSpec

-----------------------------------------------------------------------------
(***************************************************************************)
(* The synchronous stream                                                  *)
(***************************************************************************)

Listed == {requests[k] : k \in 1 .. Len(requests)}

\* Ids are given out in order, so the list is ordered and has no id twice, and
\* the id of the next request, which a failing Send deletes, is not in it.
IDsInOrder ==
    /\ \A r \in Sends : sendPC[r] = "new" <=> r >= requestID
    /\ \A k \in 1 .. Len(requests) : requests[k] < requestID
    /\ \A j, k \in 1 .. Len(requests) : requests[j] = requests[k] => j = k
    /\ \A r \in Sends : r >= requestID => r \notin closed /\ channel[r] = NoMessage

\* A Send that has not returned or failed has its place in the list or its answer.
RegisteredIsServed ==
    \A r \in Sends : sendPC[r] \in {"registered", "waiting"} =>
        r \in Listed \/ channel[r] # NoMessage

\* A request is sent once, so it is answered at most once.
AnsweredOnce ==
    /\ \A k \in 1 .. Len(wire) : sendPC[wire[k]] \notin {"new", "registered"}
    /\ \A j, k \in 1 .. Len(wire) : wire[j] = wire[k] => j = k

Undisturbed == {r \in Sends : responseType[r] \notin disturbed}

\* What holds of the Sends of a type none of which failed or overlapped another:
\* at most one is active, what is listed or on the wire belongs to it, and only
\* it can be given the answer.
UndisturbedInv ==
    /\ \A r, q \in Active :
          r \in Undisturbed /\ responseType[q] = responseType[r] => q = r
    /\ \A r \in Sends : sendPC[r] \in {"failing", "failed"} => r \notin Undisturbed
    /\ \A k \in 1 .. Len(requests) : requests[k] \in Undisturbed => requests[k] \in Active
    /\ \A r \in Sends : sendPC[r] = "registered" /\ r \in Undisturbed => r \in Listed
    /\ \A k \in 1 .. Len(wire) : wire[k] \in Undisturbed =>
          sendPC[wire[k]] = "waiting" /\ wire[k] \in Listed
    /\ \A r \in Sends : channel[r] # NoMessage /\ r \in Undisturbed => channel[r] = r

StreamInv ==
    /\ StreamTypeOK
    /\ IDsInOrder
    /\ SendNeverBlocks
    /\ RegisteredIsServed
    /\ AnsweredOnce
    /\ UndisturbedInv
    /\ UndisturbedGetsOwnResponse

\* What the properties say follows from the invariant.
LEMMA StreamInvImplies == StreamInv => WaitingCanBeAnswered /\ UndisturbedGetsOwnResponse
<1> SUFFICES ASSUME StreamInv PROVE WaitingCanBeAnswered
  BY DEF StreamInv
<1>1. ASSUME NEW r \in Sends, r \in Listed PROVE r \in ToSet(requests)
  BY <1>1 DEF Listed, ToSet, StreamInv, StreamTypeOK
<1> QED BY <1>1 DEF StreamInv, RegisteredIsServed, WaitingCanBeAnswered, WaitingIsServed

LEMMA StreamInitInv == StreamInit => StreamInv
<1> SUFFICES ASSUME StreamInit PROVE StreamInv
  OBVIOUS
<1>0. requests = <<>> /\ Len(requests) = 0 /\ wire = <<>> /\ Len(wire) = 0 /\ requestID = 0
  BY DEF StreamInit
<1>1. StreamTypeOK
  BY <1>0, StreamAssumption DEF StreamInit, StreamTypeOK, NoMessage
<1>2. IDsInOrder
  BY <1>0, StreamAssumption DEF StreamInit, IDsInOrder, Sends
<1>3. SendNeverBlocks /\ RegisteredIsServed /\ AnsweredOnce
  BY <1>0 DEF StreamInit, SendNeverBlocks, RegisteredIsServed, AnsweredOnce
<1>4. UndisturbedInv /\ UndisturbedGetsOwnResponse
  BY <1>0 DEF StreamInit, UndisturbedInv, UndisturbedGetsOwnResponse, Active
<1> QED BY <1>1, <1>2, <1>3, <1>4 DEF StreamInv

\* Send registers its request: the id is new, and the type is disturbed when
\* another Send of it is active.
LEMMA RegisterInv == StreamInv /\ Register => StreamInv'
<1> SUFFICES ASSUME StreamInv, Register PROVE StreamInv'
  OBVIOUS
<1> USE StreamAssumption DEF StreamInv
<1>0. /\ requestID \in Sends /\ requestID' = requestID + 1
      /\ requests' = Append(requests, requestID)
      /\ sendPC' = [sendPC EXCEPT ![requestID] = "registered"]
      /\ disturbed \subseteq disturbed'
      /\ UNCHANGED <<responseType, channel, closed, wire, result>>
  BY DEF Register, StreamTypeOK, Sends
<1>a. /\ requests' \in Seq(Sends)
      /\ Len(requests') = Len(requests) + 1
      /\ \A j \in 1 .. Len(requests) : requests'[j] = requests[j]
      /\ requests'[Len(requests) + 1] = requestID
  BY <1>0, AppendProps DEF StreamTypeOK
<1>b. \A r : r \in Listed => r \in Listed'
  <2>1. ASSUME NEW k \in 1 .. Len(requests)
        PROVE  requests[k] \in Listed'
    <3>1. k \in 1 .. Len(requests') /\ requests'[k] = requests[k]
      BY <1>a DEF StreamTypeOK
    <3> HIDE DEF StreamInv
    <3> QED BY <3>1, Zenon DEF Listed
  <2> HIDE DEF StreamInv
  <2> QED BY <2>1, Zenon DEF Listed
<1>c. requestID \in Listed'
  BY <1>0, <1>a DEF Listed, StreamTypeOK
<1>d. sendPC[requestID] = "new"
  BY <1>0 DEF IDsInOrder, StreamTypeOK, Sends
<1>e. Active' = Active \union {requestID}
  BY <1>0 DEF Active, StreamTypeOK
<1>f. ASSUME NEW r \in Active, responseType[r] = responseType[requestID]
      PROVE  responseType[requestID] \in disturbed'
  BY <1>f DEF Register
<1>1. StreamTypeOK'
  <2>1. disturbed' \subseteq Types
    BY DEF Register, StreamTypeOK, Active
  <2> QED BY <1>0, <1>a, <2>1 DEF StreamTypeOK, Sends
<1>2. IDsInOrder'
  <2>1. \A r \in Sends : sendPC'[r] = "new" <=> r >= requestID'
    BY <1>0 DEF IDsInOrder, StreamTypeOK, Sends
  <2>2. \A k \in 1 .. Len(requests') : requests'[k] < requestID'
    BY <1>0, <1>a DEF IDsInOrder, StreamTypeOK, Sends
  <2>3. \A j, k \in 1 .. Len(requests') : requests'[j] = requests'[k] => j = k
    BY <1>0, <1>a DEF IDsInOrder, StreamTypeOK, Sends
  <2>4. \A r \in Sends : r >= requestID' => r \notin closed' /\ channel'[r] = NoMessage
    BY <1>0 DEF IDsInOrder, StreamTypeOK, Sends
  <2> QED BY <2>1, <2>2, <2>3, <2>4 DEF IDsInOrder
<1>3. SendNeverBlocks'
  <2>1. requestID \notin closed /\ channel[requestID] = NoMessage
    BY <1>0 DEF IDsInOrder, StreamTypeOK, Sends
  <2> QED BY <1>0, <1>a, <2>1 DEF SendNeverBlocks, StreamTypeOK
<1>4. RegisteredIsServed'
  BY <1>0, <1>b, <1>c DEF RegisteredIsServed, StreamTypeOK
<1>5. AnsweredOnce'
  BY <1>0, <1>d DEF AnsweredOnce, StreamTypeOK
<1>6. UndisturbedInv'
  <2>1. \A r \in Sends : r \in Undisturbed' => r \in Undisturbed
    BY <1>0 DEF Undisturbed
  <2>2. ASSUME NEW r \in Active', NEW q \in Active',
               r \in Undisturbed', responseType'[q] = responseType'[r]
        PROVE  q = r
    <3>1. CASE r \in Active /\ q \in Active
      BY <1>0, <2>1, <2>2, <3>1 DEF UndisturbedInv, Active
    <3>2. CASE r = requestID /\ q \in Active
      BY <1>0, <1>f, <2>2, <3>2 DEF Undisturbed
    <3>3. CASE q = requestID /\ r \in Active
      BY <1>0, <1>f, <2>2, <3>3 DEF Undisturbed
    <3> QED BY <1>e, <2>2, <3>1, <3>2, <3>3
  <2>3. \A r \in Sends : sendPC'[r] \in {"failing", "failed"} => r \notin Undisturbed'
    BY <1>0, <2>1 DEF UndisturbedInv, StreamTypeOK
  <2>4. \A k \in 1 .. Len(requests') : requests'[k] \in Undisturbed' => requests'[k] \in Active'
    <3> SUFFICES ASSUME NEW k \in 1 .. Len(requests'), requests'[k] \in Undisturbed'
                 PROVE  requests'[k] \in Active'
      OBVIOUS
    <3>1. CASE k \in 1 .. Len(requests)
      BY <1>a, <1>e, <2>1, <3>1 DEF UndisturbedInv, StreamTypeOK
    <3>2. CASE k = Len(requests) + 1
      BY <1>a, <1>e, <3>2
    <3> QED BY <1>a, <3>1, <3>2 DEF StreamTypeOK
  <2>5. \A r \in Sends : sendPC'[r] = "registered" /\ r \in Undisturbed' => r \in Listed'
    BY <1>0, <1>b, <1>c, <2>1 DEF UndisturbedInv, StreamTypeOK
  <2>6. \A k \in 1 .. Len(wire') : wire'[k] \in Undisturbed' =>
            sendPC'[wire'[k]] = "waiting" /\ wire'[k] \in Listed'
    <3> SUFFICES ASSUME NEW k \in 1 .. Len(wire), wire[k] \in Undisturbed'
                 PROVE  sendPC'[wire[k]] = "waiting" /\ wire[k] \in Listed'
      BY <1>0
    <3>1. wire[k] \in Sends /\ wire[k] # requestID
      BY <1>d DEF AnsweredOnce, StreamTypeOK
    <3>2. sendPC[wire[k]] = "waiting" /\ wire[k] \in Listed
      BY <2>1, <3>1 DEF UndisturbedInv
    <3> QED BY <1>0, <1>b, <3>1, <3>2 DEF StreamTypeOK
  <2>7. \A r \in Sends : channel'[r] # NoMessage /\ r \in Undisturbed' => channel'[r] = r
    BY <1>0, <2>1 DEF UndisturbedInv
  <2> QED BY <2>2, <2>3, <2>4, <2>5, <2>6, <2>7 DEF UndisturbedInv
<1>7. UndisturbedGetsOwnResponse'
  BY <1>0 DEF UndisturbedGetsOwnResponse
<1> QED BY <1>1, <1>2, <1>3, <1>4, <1>5, <1>6, <1>7

\* A Send fails, or its context ends: its type is disturbed, and nothing else
\* changes before the deferred function runs.
LEMMA FailingInv ==
    ASSUME StreamInv, NEW r \in Sends,
           sendPC[r] \in {"registered", "waiting"},
           sendPC' = [sendPC EXCEPT ![r] = "failing"],
           disturbed' = disturbed \union {responseType[r]},
           UNCHANGED <<requestID, requests, responseType, channel, closed, wire, result>>
    PROVE  StreamInv'
<1> USE DEF StreamInv
<1>0. Listed' = Listed /\ Active' = Active
  BY DEF Listed, Active, StreamTypeOK
<1>a. Undisturbed' \subseteq Undisturbed /\ r \notin Undisturbed'
  BY DEF Undisturbed
<1>1. StreamTypeOK'
  BY DEF StreamTypeOK
<1>2. IDsInOrder' /\ SendNeverBlocks'
  BY DEF IDsInOrder, SendNeverBlocks, StreamTypeOK
<1>3. RegisteredIsServed'
  BY <1>0 DEF RegisteredIsServed, StreamTypeOK
<1>4. AnsweredOnce'
  BY DEF AnsweredOnce, StreamTypeOK
<1>5. UndisturbedInv'
  <2>1. \A p \in Sends : sendPC'[p] \in {"failing", "failed"} => p \notin Undisturbed'
    BY <1>a DEF UndisturbedInv, StreamTypeOK
  <2>2. \A p \in Sends : sendPC'[p] = "registered" /\ p \in Undisturbed' => p \in Listed'
    BY <1>0, <1>a DEF UndisturbedInv, StreamTypeOK
  <2>3. \A k \in 1 .. Len(wire') : wire'[k] \in Undisturbed' =>
            sendPC'[wire'[k]] = "waiting" /\ wire'[k] \in Listed'
    <3> SUFFICES ASSUME NEW k \in 1 .. Len(wire), wire[k] \in Undisturbed'
                 PROVE  sendPC'[wire[k]] = "waiting" /\ wire[k] \in Listed'
      OBVIOUS
    <3>1. wire[k] \in Sends /\ wire[k] # r
      BY <1>a DEF StreamTypeOK
    <3>2. sendPC[wire[k]] = "waiting" /\ wire[k] \in Listed
      BY <1>a DEF UndisturbedInv
    <3> QED BY <1>0, <3>1, <3>2 DEF StreamTypeOK
  <2>4. \A p \in Sends : channel'[p] # NoMessage /\ p \in Undisturbed' => channel'[p] = p
    BY <1>a DEF UndisturbedInv
  <2>5. \A k \in 1 .. Len(requests') : requests'[k] \in Undisturbed' => requests'[k] \in Active'
    BY <1>0, <1>a DEF UndisturbedInv
  <2>6. \A p, q \in Active' :
            p \in Undisturbed' /\ responseType'[q] = responseType'[p] => q = p
    BY <1>0, <1>a DEF UndisturbedInv
  <2> QED BY <2>1, <2>2, <2>3, <2>4, <2>5, <2>6 DEF UndisturbedInv
<1>6. UndisturbedGetsOwnResponse'
  BY DEF UndisturbedGetsOwnResponse
<1> QED BY <1>1, <1>2, <1>3, <1>4, <1>5, <1>6

\* sendFunc: the request goes out once, or its type is disturbed.
LEMMA SendRequestInv ==
    ASSUME StreamInv, NEW r \in Sends, SendRequest(r)
    PROVE  StreamInv'
<1> USE StreamAssumption DEF StreamInv
<1>0. /\ sendPC[r] = "registered"
      /\ UNCHANGED <<requestID, requests, responseType, channel, closed, result>>
      /\ Listed' = Listed
  BY DEF SendRequest, Listed
<1>1. CASE /\ sendPC' = [sendPC EXCEPT ![r] = "waiting"]
           /\ wire' \in {wire, Append(wire, r)}
           /\ UNCHANGED disturbed
  <2>0. Active' = Active /\ Undisturbed' = Undisturbed
    BY <1>0, <1>1 DEF Active, Undisturbed, StreamTypeOK
  <2>a. /\ wire' \in Seq(Sends)
        /\ Len(wire') \in {Len(wire), Len(wire) + 1}
        /\ \A j \in 1 .. Len(wire) : wire'[j] = wire[j]
        /\ Len(wire') = Len(wire) + 1 => wire'[Len(wire) + 1] = r
    <3>0. wire \in Seq(Sends) /\ Len(wire) \in Nat
      BY DEF StreamTypeOK
    <3>1. CASE wire' = wire
      BY <3>0, <3>1
    <3>2. CASE wire' = Append(wire, r)
      BY <3>0, <3>2, AppendProps
    <3> QED BY <1>1, <3>1, <3>2
  <2>b. \A k \in 1 .. Len(wire) : wire[k] # r /\ wire[k] \in Sends
    BY <1>0 DEF AnsweredOnce, StreamTypeOK
  <2>c. \A k \in 1 .. Len(wire') : k \in 1 .. Len(wire) \/ k = Len(wire) + 1
    BY <2>a DEF StreamTypeOK
  <2>1. StreamTypeOK'
    BY <1>0, <1>1, <2>a DEF StreamTypeOK
  <2>2. IDsInOrder' /\ SendNeverBlocks'
    BY <1>0, <1>1 DEF IDsInOrder, SendNeverBlocks, StreamTypeOK
  <2>3. RegisteredIsServed'
    BY <1>0, <1>1 DEF RegisteredIsServed, StreamTypeOK
  <2>4. AnsweredOnce'
    <3>1. \A k \in 1 .. Len(wire') : sendPC'[wire'[k]] \notin {"new", "registered"}
      BY <1>1, <2>a, <2>b, <2>c DEF AnsweredOnce, StreamTypeOK
    <3>2. \A j, k \in 1 .. Len(wire') : wire'[j] = wire'[k] => j = k
      BY <2>a, <2>b, <2>c DEF AnsweredOnce
    <3> QED BY <3>1, <3>2 DEF AnsweredOnce
  <2>5. UndisturbedInv'
    <3>1. \A p \in Sends : sendPC'[p] \in {"failing", "failed"} => p \notin Undisturbed'
      BY <1>1, <2>0 DEF UndisturbedInv, StreamTypeOK
    <3>2. \A p \in Sends : sendPC'[p] = "registered" /\ p \in Undisturbed' => p \in Listed'
      BY <1>0, <1>1, <2>0 DEF UndisturbedInv, StreamTypeOK
    <3>3. \A k \in 1 .. Len(wire') : wire'[k] \in Undisturbed' =>
              sendPC'[wire'[k]] = "waiting" /\ wire'[k] \in Listed'
      <4> SUFFICES ASSUME NEW k \in 1 .. Len(wire'), wire'[k] \in Undisturbed'
                   PROVE  sendPC'[wire'[k]] = "waiting" /\ wire'[k] \in Listed'
        OBVIOUS
      <4>1. CASE k \in 1 .. Len(wire)
        BY <1>0, <1>1, <2>0, <2>a, <2>b, <4>1 DEF UndisturbedInv, StreamTypeOK
      <4>2. CASE k = Len(wire) + 1
        BY <1>0, <1>1, <2>0, <2>a, <4>2 DEF UndisturbedInv, StreamTypeOK
      <4> QED BY <2>c, <4>1, <4>2
    <3>4. \A p \in Sends : channel'[p] # NoMessage /\ p \in Undisturbed' => channel'[p] = p
      BY <1>0, <2>0 DEF UndisturbedInv
    <3>5. \A k \in 1 .. Len(requests') : requests'[k] \in Undisturbed' => requests'[k] \in Active'
      BY <1>0, <2>0 DEF UndisturbedInv
    <3>6. \A p, q \in Active' :
              p \in Undisturbed' /\ responseType'[q] = responseType'[p] => q = p
      BY <1>0, <2>0 DEF UndisturbedInv
    <3> QED BY <3>1, <3>2, <3>3, <3>4, <3>5, <3>6 DEF UndisturbedInv
  <2>6. UndisturbedGetsOwnResponse'
    BY <1>0, <1>1 DEF UndisturbedGetsOwnResponse
  <2> QED BY <2>1, <2>2, <2>3, <2>4, <2>5, <2>6
<1>2. CASE /\ sendPC' = [sendPC EXCEPT ![r] = "failing"]
           /\ disturbed' = disturbed \union {responseType[r]}
           /\ UNCHANGED wire
  BY <1>0, <1>2, FailingInv
<1> QED BY <1>1, <1>2 DEF SendRequest

\* The select takes the response: a request that was answered is not in the list.
LEMMA ReceiveResponseInv ==
    ASSUME StreamInv, NEW r \in Sends, ReceiveResponse(r)
    PROVE  StreamInv'
<1> USE DEF StreamInv
<1>0. /\ sendPC[r] = "waiting" /\ channel[r] # NoMessage
      /\ result' = [result EXCEPT ![r] = channel[r]]
      /\ channel' = [channel EXCEPT ![r] = NoMessage]
      /\ sendPC' = [sendPC EXCEPT ![r] = "returned"]
      /\ UNCHANGED <<requestID, requests, responseType, closed, wire, disturbed>>
  BY DEF ReceiveResponse
<1>a. Listed' = Listed /\ Undisturbed' = Undisturbed /\ Active' = Active \ {r}
  BY <1>0 DEF Listed, Active, Undisturbed, StreamTypeOK
<1>b. r \notin Listed
  BY <1>0 DEF SendNeverBlocks, Listed
<1>1. StreamTypeOK'
  BY <1>0 DEF StreamTypeOK
<1>2. IDsInOrder'
  BY <1>0 DEF IDsInOrder, StreamTypeOK
<1>3. SendNeverBlocks'
  <2>1. \A k \in 1 .. Len(requests) : requests[k] \in Sends
    BY DEF StreamTypeOK
  <2>2. \A q \in Sends : channel[q] = NoMessage => channel'[q] = NoMessage
    BY <1>0 DEF StreamTypeOK
  <2> QED BY <1>0, <2>1, <2>2 DEF SendNeverBlocks
<1>4. RegisteredIsServed'
  BY <1>0, <1>a DEF RegisteredIsServed, StreamTypeOK
<1>5. AnsweredOnce'
  <2>1. \A q \in Sends : sendPC'[q] \in {"new", "registered"} => sendPC[q] = sendPC'[q]
    BY <1>0 DEF StreamTypeOK
  <2>2. \A k \in 1 .. Len(wire) : wire[k] \in Sends
    BY DEF StreamTypeOK
  <2> QED BY <1>0, <2>1, <2>2 DEF AnsweredOnce
<1>6. UndisturbedInv'
  <2>1. \A p \in Sends : sendPC'[p] \in {"failing", "failed"} => p \notin Undisturbed'
    BY <1>0, <1>a DEF UndisturbedInv, StreamTypeOK
  <2>2. \A p \in Sends : sendPC'[p] = "registered" /\ p \in Undisturbed' => p \in Listed'
    BY <1>0, <1>a DEF UndisturbedInv, StreamTypeOK
  <2>3. \A k \in 1 .. Len(wire') : wire'[k] \in Undisturbed' =>
            sendPC'[wire'[k]] = "waiting" /\ wire'[k] \in Listed'
    <3> SUFFICES ASSUME NEW k \in 1 .. Len(wire), wire[k] \in Undisturbed
                 PROVE  sendPC'[wire[k]] = "waiting" /\ wire[k] \in Listed'
      BY <1>0, <1>a
    <3>1. sendPC[wire[k]] = "waiting" /\ wire[k] \in Listed
      BY DEF UndisturbedInv
    <3> QED BY <1>0, <1>a, <1>b, <3>1 DEF StreamTypeOK
  <2>4. \A p \in Sends : channel'[p] # NoMessage /\ p \in Undisturbed' => channel'[p] = p
    BY <1>0, <1>a DEF UndisturbedInv, StreamTypeOK
  <2>5. \A k \in 1 .. Len(requests') : requests'[k] \in Undisturbed' => requests'[k] \in Active'
    BY <1>0, <1>a, <1>b DEF UndisturbedInv, Listed
  <2>6. \A p, q \in Active' :
            p \in Undisturbed' /\ responseType'[q] = responseType'[p] => q = p
    BY <1>0, <1>a DEF UndisturbedInv
  <2> QED BY <2>1, <2>2, <2>3, <2>4, <2>5, <2>6 DEF UndisturbedInv
<1>7. UndisturbedGetsOwnResponse'
  <2>1. r \in Undisturbed => channel[r] = r
    BY <1>0 DEF UndisturbedInv
  <2> QED BY <1>0, <2>1 DEF UndisturbedGetsOwnResponse, Undisturbed, StreamTypeOK
<1> QED BY <1>1, <1>2, <1>3, <1>4, <1>5, <1>6, <1>7

\* The deferred function of a Send that failed deletes nothing: no request has the
\* id of the next one.
LEMMA CleanUpInv ==
    ASSUME StreamInv, NEW r \in Sends, CleanUp(r)
    PROVE  StreamInv'
<1> USE DEF StreamInv
<1>0. \A k \in 1 .. Len(requests) : requests[k] # requestID
  BY DEF IDsInOrder, StreamTypeOK
<1>a. /\ sendPC[r] = "failing"
      /\ sendPC' = [sendPC EXCEPT ![r] = "failed"]
      /\ UNCHANGED <<requestID, requests, closed, responseType, channel, wire, result, disturbed>>
  BY <1>0 DEF CleanUp, DeletedID, deleteRequest
<1>b. Listed' = Listed /\ Undisturbed' = Undisturbed /\ Active' = Active \ {r}
  BY <1>a DEF Listed, Active, Undisturbed, StreamTypeOK
<1>c. r \notin Undisturbed
  BY <1>a DEF UndisturbedInv
<1>1. StreamTypeOK'
  BY <1>a DEF StreamTypeOK
<1>2. IDsInOrder' /\ SendNeverBlocks'
  BY <1>a DEF IDsInOrder, SendNeverBlocks, StreamTypeOK
<1>3. RegisteredIsServed'
  BY <1>a, <1>b DEF RegisteredIsServed, StreamTypeOK
<1>4. AnsweredOnce'
  BY <1>a DEF AnsweredOnce, StreamTypeOK
<1>5. UndisturbedInv'
  <2>1. \A p \in Sends : sendPC'[p] \in {"failing", "failed"} => p \notin Undisturbed'
    BY <1>a, <1>b, <1>c DEF UndisturbedInv, StreamTypeOK
  <2>2. \A p \in Sends : sendPC'[p] = "registered" /\ p \in Undisturbed' => p \in Listed'
    BY <1>a, <1>b DEF UndisturbedInv, StreamTypeOK
  <2>3. \A k \in 1 .. Len(wire') : wire'[k] \in Undisturbed' =>
            sendPC'[wire'[k]] = "waiting" /\ wire'[k] \in Listed'
    <3> SUFFICES ASSUME NEW k \in 1 .. Len(wire), wire[k] \in Undisturbed
                 PROVE  sendPC'[wire[k]] = "waiting" /\ wire[k] \in Listed'
      BY <1>a, <1>b
    <3>1. sendPC[wire[k]] = "waiting" /\ wire[k] \in Listed
      BY DEF UndisturbedInv
    <3> QED BY <1>a, <1>b, <3>1 DEF StreamTypeOK
  <2>4. \A p \in Sends : channel'[p] # NoMessage /\ p \in Undisturbed' => channel'[p] = p
    BY <1>a, <1>b DEF UndisturbedInv
  <2>5. \A k \in 1 .. Len(requests') : requests'[k] \in Undisturbed' => requests'[k] \in Active'
    BY <1>a, <1>b, <1>c DEF UndisturbedInv
  <2>6. \A p, q \in Active' :
            p \in Undisturbed' /\ responseType'[q] = responseType'[p] => q = p
    BY <1>a, <1>b DEF UndisturbedInv
  <2> QED BY <2>1, <2>2, <2>3, <2>4, <2>5, <2>6 DEF UndisturbedInv
<1>6. UndisturbedGetsOwnResponse'
  BY <1>a DEF UndisturbedGetsOwnResponse
<1> QED BY <1>1, <1>2, <1>3, <1>4, <1>5, <1>6

\* deleteRequest of a listed request removes it from the list and nothing else.
LEMMA DeleteListed ==
    ASSUME StreamInv, NEW k \in 1 .. Len(requests), deleteRequest(requests[k])
    PROVE  /\ requests' \in Seq(Sends)
           /\ closed' = closed \union {requests[k]}
           /\ Listed' = Listed \ {requests[k]}
           /\ \A i \in 1 .. Len(requests') : requests'[i] \in Listed'
           /\ \A i, j \in 1 .. Len(requests') : requests'[i] = requests'[j] => i = j
<1>1. PICK n \in 1 .. Len(requests) :
         /\ requests[n] = requests[k]
         /\ requests' = RemoveAt(requests, n)
         /\ closed' = closed \union {requests[k]}
  BY DEF deleteRequest
<1>2. /\ requests \in Seq(Sends)
      /\ \A i, j \in 1 .. Len(requests) : requests[i] = requests[j] => i = j
  BY DEF StreamInv, StreamTypeOK, IDsInOrder
<1>3. /\ requests' \in Seq(Sends)
      /\ Len(requests') = Len(requests) - 1
      /\ \A j \in 1 .. n - 1 : requests'[j] = requests[j]
      /\ \A j \in n .. Len(requests) - 1 : requests'[j] = requests[j + 1]
  BY <1>1, <1>2, RemoveAtProps
<1>4. \A x : (\E j \in 1 .. Len(requests') : requests'[j] = x)
             <=> x # requests[n] /\ \E i \in 1 .. Len(requests) : requests[i] = x
  <2>1. \A x : (\E j \in 1 .. Len(RemoveAt(requests, n)) : RemoveAt(requests, n)[j] = x)
               <=> x # requests[n] /\ \E i \in 1 .. Len(requests) : requests[i] = x
    BY <1>2, RemoveAtMembers, Zenon
  <2> QED BY <1>1, <2>1, Zenon
<1>5. Listed' = Listed \ {requests[k]}
  BY <1>1, <1>4 DEF Listed
<1>6. \A i \in 1 .. Len(requests') : requests'[i] \in Listed'
  BY DEF Listed
<1>7. ASSUME NEW i \in 1 .. Len(requests'), NEW j \in 1 .. Len(requests'),
             requests'[i] = requests'[j]
      PROVE  i = j
  <2>1. Len(requests) \in Nat
    BY <1>2
  <2>2. CASE i < n /\ j < n
    <3>1. i \in 1 .. n - 1 /\ j \in 1 .. n - 1 /\ i \in 1 .. Len(requests) /\ j \in 1 .. Len(requests)
      BY <1>3, <2>1, <2>2
    <3> QED BY <1>2, <1>3, <1>7, <3>1
  <2>3. CASE i < n /\ j >= n
    BY <1>2, <1>3, <1>7, <2>1, <2>3
  <2>4. CASE i >= n /\ j < n
    BY <1>2, <1>3, <1>7, <2>1, <2>4
  <2>5. CASE i >= n /\ j >= n
    BY <1>2, <1>3, <1>7, <2>1, <2>5
  <2> QED BY <1>3, <2>1, <2>2, <2>3, <2>4, <2>5
<1> QED BY <1>1, <1>3, <1>5, <1>6, <1>7

\* A message is taken from the wire, whatever is done with it.
LEMMA WireTaken ==
    ASSUME StreamInv, wire # <<>>, wire' = Tail(wire)
    PROVE  /\ Head(wire) = wire[1] /\ 1 \in 1 .. Len(wire) /\ wire[1] \in Sends
           /\ wire' \in Seq(Sends)
           /\ \A k \in 1 .. Len(wire') :
                 k + 1 \in 2 .. Len(wire) /\ wire'[k] = wire[k + 1] /\ wire[k + 1] # wire[1]
           /\ \A j, k \in 1 .. Len(wire') : wire'[j] = wire'[k] => j = k
<1>1. wire \in Seq(Sends) /\ \A j, k \in 1 .. Len(wire) : wire[j] = wire[k] => j = k
  BY DEF StreamInv, StreamTypeOK, AnsweredOnce
<1>2. /\ Len(wire) \in Nat \ {0}
      /\ Head(wire) = wire[1] /\ wire[1] \in Sends
      /\ wire' \in Seq(Sends)
      /\ Len(wire') = Len(wire) - 1
      /\ \A j \in 1 .. Len(wire) - 1 : wire'[j] = wire[j + 1]
  BY <1>1, TailProps
<1>3. \A k \in 1 .. Len(wire') : k + 1 \in 2 .. Len(wire)
  BY <1>2
<1>4. \A k \in 1 .. Len(wire') : wire'[k] = wire[k + 1]
  BY <1>2
<1>5. \A k \in 1 .. Len(wire') : wire[k + 1] # wire[1]
  BY <1>1, <1>2, <1>3
<1>6. \A j, k \in 1 .. Len(wire') : wire'[j] = wire'[k] => j = k
  BY <1>1, <1>2
<1> QED BY <1>2, <1>3, <1>4, <1>5, <1>6

\* ProcessMessages: a message of an undisturbed type finds the request of its own
\* Send, the only one of the type in the list.
LEMMA ProcessMessagesInv == StreamInv /\ ProcessMessages => StreamInv'
<1> SUFFICES ASSUME StreamInv, ProcessMessages PROVE StreamInv'
  OBVIOUS
<1> USE DEF StreamInv
<1> DEFINE m == wire[1]
<1>0. /\ wire # <<>> /\ wire' = Tail(wire)
      /\ UNCHANGED <<requestID, responseType, sendPC, result, disturbed>>
  BY DEF ProcessMessages
<1>a. /\ Head(wire) = m /\ 1 \in 1 .. Len(wire) /\ m \in Sends
      /\ wire' \in Seq(Sends)
      /\ \A k \in 1 .. Len(wire') :
            k + 1 \in 1 .. Len(wire) /\ wire'[k] = wire[k + 1] /\ wire[k + 1] # m
      /\ \A j, k \in 1 .. Len(wire') : wire'[j] = wire'[k] => j = k
  <2> HIDE DEF StreamInv
  <2> QED BY <1>0, WireTaken
<1>b. Active' = Active /\ Undisturbed' = Undisturbed
  BY <1>0 DEF Active, Undisturbed
<1>c. AnsweredOnce'
  BY <1>0, <1>a DEF AnsweredOnce
<1>d. UndisturbedGetsOwnResponse'
  BY <1>0 DEF UndisturbedGetsOwnResponse
<1>e. m \in Undisturbed => sendPC[m] = "waiting" /\ m \in Active
  BY <1>a DEF UndisturbedInv, Active
<1>1. CASE UNCHANGED <<requests, channel, closed>>
  <2>1. Listed' = Listed
    BY <1>1 DEF Listed
  <2>2. StreamTypeOK' /\ IDsInOrder' /\ SendNeverBlocks'
    BY <1>0, <1>1, <1>a DEF StreamTypeOK, IDsInOrder, SendNeverBlocks
  <2>3. RegisteredIsServed'
    BY <1>0, <1>1, <2>1 DEF RegisteredIsServed
  <2>4. UndisturbedInv'
    BY <1>0, <1>1, <1>a, <1>b, <2>1 DEF UndisturbedInv
  <2> QED BY <1>c, <1>d, <2>2, <2>3, <2>4
<1>2. ASSUME NEW k \in 1 .. Len(requests),
             responseType[requests[k]] = responseType[m],
             channel' = [channel EXCEPT ![requests[k]] = m],
             deleteRequest(requests[k])
      PROVE  StreamInv'
  <2> DEFINE r == requests[k]
  <2>0. r \in Sends /\ r \in Listed
    BY DEF StreamTypeOK, Listed
  <2>a. /\ requests' \in Seq(Sends)
        /\ closed' = closed \union {r}
        /\ Listed' = Listed \ {r}
        /\ \A i \in 1 .. Len(requests') : requests'[i] \in Listed'
        /\ \A i, j \in 1 .. Len(requests') : requests'[i] = requests'[j] => i = j
    <3> HIDE DEF StreamInv
    <3> QED BY <1>2, DeleteListed
  <2>b. \A q \in Listed : q < requestID /\ q \notin closed /\ channel[q] = NoMessage /\ q \in Sends
    BY DEF Listed, IDsInOrder, SendNeverBlocks, StreamTypeOK
  <2>c. channel' = [channel EXCEPT ![r] = m] /\ m # NoMessage
    BY <1>2, <1>a, StreamAssumption DEF Sends, NoMessage
  <2>d. r \in Undisturbed <=> m \in Undisturbed
    BY <1>2, <1>a, <2>0 DEF Undisturbed
  <2>e. r \in Undisturbed => r \in Active
    BY <2>0 DEF UndisturbedInv
  <2>f. r \in Undisturbed => r = m
    BY <1>2, <1>e, <2>d, <2>e DEF UndisturbedInv
  <2> HIDE DEF r, m
  <2>1. StreamTypeOK'
    BY <1>0, <1>a, <2>0, <2>a, <2>c DEF StreamTypeOK
  <2>2. IDsInOrder'
    <3>1. \A i \in 1 .. Len(requests') : requests'[i] < requestID'
      BY <1>0, <2>a, <2>b
    <3>2. r < requestID
      BY <2>0, <2>b
    <3>3. \A q \in Sends : q >= requestID' => q \notin closed' /\ channel'[q] = NoMessage
      BY <1>0, <2>0, <2>a, <2>c, <3>2 DEF IDsInOrder, StreamTypeOK, Sends
    <3> QED BY <1>0, <2>a, <3>1, <3>3 DEF IDsInOrder
  <2>3. SendNeverBlocks'
    <3>1. \A q \in Listed' : q \notin closed' /\ channel'[q] = NoMessage
      BY <2>a, <2>b, <2>c DEF StreamTypeOK
    <3> QED BY <2>a, <3>1 DEF SendNeverBlocks
  <2>4. RegisteredIsServed'
    BY <1>0, <2>0, <2>a, <2>c DEF RegisteredIsServed, StreamTypeOK
  <2>5. UndisturbedInv'
    <3>1. \A p \in Sends : sendPC'[p] \in {"failing", "failed"} => p \notin Undisturbed'
      BY <1>0, <1>b DEF UndisturbedInv
    <3>2. \A p \in Sends : sendPC'[p] = "registered" /\ p \in Undisturbed' => p \in Listed'
      BY <1>0, <1>b, <1>e, <2>a, <2>f DEF UndisturbedInv
    <3>3. \A i \in 1 .. Len(wire') : wire'[i] \in Undisturbed' =>
              sendPC'[wire'[i]] = "waiting" /\ wire'[i] \in Listed'
      BY <1>0, <1>a, <1>b, <2>a, <2>f DEF UndisturbedInv
    <3>4. \A p \in Sends : channel'[p] # NoMessage /\ p \in Undisturbed' => channel'[p] = p
      BY <1>b, <2>0, <2>c, <2>f DEF UndisturbedInv, StreamTypeOK
    <3>5. \A i \in 1 .. Len(requests') : requests'[i] \in Undisturbed' => requests'[i] \in Active'
      <4>1. \A q \in Listed : q \in Undisturbed => q \in Active
        BY DEF Listed, UndisturbedInv
      <4> QED BY <1>b, <2>a, <4>1
    <3>6. \A p, q \in Active' :
              p \in Undisturbed' /\ responseType'[q] = responseType'[p] => q = p
      BY <1>0, <1>b DEF UndisturbedInv
    <3> QED BY <3>1, <3>2, <3>3, <3>4, <3>5, <3>6 DEF UndisturbedInv
  <2> QED BY <1>c, <1>d, <2>1, <2>2, <2>3, <2>4, <2>5
<1> QED BY <1>0, <1>1, <1>2, <1>a DEF ProcessMessages, Matches

LEMMA StreamNextInv == StreamInv /\ [StreamNext]_streamVars => StreamInv'
<1>1. ASSUME StreamInv, NEW r \in Sends, SendContextDone(r) PROVE StreamInv'
  BY <1>1, FailingInv DEF SendContextDone
<1>2. ASSUME StreamInv, UNCHANGED streamVars PROVE StreamInv'
  BY <1>2 DEF streamVars, StreamInv, StreamTypeOK, IDsInOrder, SendNeverBlocks, RegisteredIsServed,
              AnsweredOnce, UndisturbedInv, UndisturbedGetsOwnResponse, Listed, Active, Undisturbed
<1> QED BY <1>1, <1>2, RegisterInv, ProcessMessagesInv, SendRequestInv, ReceiveResponseInv, CleanUpInv
        DEF StreamNext

\* ProcessMessages, which sends to a request's channel with the mutex held, never
\* blocks or panics, and a Send that waits is listed or has its response, whatever
\* became of the other Sends (Send, deleteRequest, ProcessMessages).
THEOREM WaitingSendsAreServed == StreamSpec => []WaitingCanBeAnswered
BY StreamInitInv, StreamNextInv, StreamInvImplies, PTL DEF StreamSpec

\* Although responses are matched by type only, a Send whose type no failed or
\* overlapping Send disturbed returns the response to its own request.
THEOREM UndisturbedSendsMatch == StreamSpec => []UndisturbedGetsOwnResponse
BY StreamInitInv, StreamNextInv, StreamInvImplies, PTL DEF StreamSpec

=============================================================================
