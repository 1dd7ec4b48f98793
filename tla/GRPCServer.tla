----------------------------- MODULE GRPCServer -----------------------------
(***************************************************************************)
(* utils/grpchelpers/grpcserver.go: a gRPC server that is stopped and      *)
(* started again with new options, at one address.  Each start listens,    *)
(* makes a grpc.Server and spawns a goroutine that serves it; a stop waits *)
(* for that goroutine with the mutex held.                                 *)
(*                                                                         *)
(* Servers, listeners and goroutines are numbered by the start that made   *)
(* them.  grpc.Server is modelled from its use: Stop closes the listener   *)
(* it serves and makes Serve return; Serve of a stopped server closes its  *)
(* listener and returns.                                                   *)
(***************************************************************************)
EXTENDS Naturals, FiniteSets

CONSTANTS
    Owners,      \* goroutines that start and stop the server
    MaxStarts    \* bound: successful calls of startGRPCServer

ASSUME ServerAssumption == MaxStarts \in Nat /\ "nobody" \notin Owners

Servers == 1 .. MaxStarts
NoServer == 0
MaxServices == 1   \* bound: calls of RegisterService

VARIABLES
    holder,       \* owner that holds the mutex, or "nobody"
    grpcServer,   \* server.grpcServer
    starts,       \* number of servers made
    listeners,    \* listeners that are open
    stopped,      \* servers whose Stop was called
    goroutine,    \* goroutine[s]: where the goroutine of start s is
    ownerPC,      \* ownerPC[o]: where the call of owner o is
    restarting,   \* restarting[o]: the call is RestartServer
    services,     \* number of registered services
    offered       \* offered[s]: services registered with server s

grpcServerVars == <<holder, grpcServer, starts, listeners, stopped, goroutine, ownerPC,
                    restarting, services, offered>>

ServerInit ==
    /\ holder = "nobody"
    /\ grpcServer = NoServer
    /\ starts = 0
    /\ listeners = {}
    /\ stopped = {}
    /\ goroutine = [s \in Servers |-> "none"]
    /\ ownerPC = [o \in Owners |-> "idle"]
    /\ restarting = [o \in Owners |-> FALSE]
    /\ services = 0
    /\ offered = [s \in Servers |-> 0]

-----------------------------------------------------------------------------
RegisterService ==
    /\ holder = "nobody"
    /\ services < MaxServices
    /\ services' = services + 1
    /\ UNCHANGED <<holder, grpcServer, starts, listeners, stopped, goroutine, ownerPC,
                   restarting, offered>>

\* RestartServer or StopServer is called and waits for the mutex.
CallServer(o) ==
    /\ ownerPC[o] = "idle"
    /\ ownerPC' = [ownerPC EXCEPT ![o] = "lock"]
    /\ \E r \in BOOLEAN : restarting' = [restarting EXCEPT ![o] = r]
    /\ UNCHANGED <<holder, grpcServer, starts, listeners, stopped, goroutine, services, offered>>

(***************************************************************************)
(* stopGRPCServer: Stop, wait for the goroutine, forget the server.        *)
(***************************************************************************)
StopGRPC(o) ==
    /\ ownerPC[o] = "lock"
    /\ holder = "nobody"
    /\ holder' = o
    /\ ownerPC' = [ownerPC EXCEPT ![o] = "wait"]
    /\ stopped' = stopped \union ({grpcServer} \ {NoServer})
    /\ listeners' = listeners \ {s \in Servers : s = grpcServer /\ goroutine[s] = "serving"}
    /\ UNCHANGED <<grpcServer, starts, goroutine, restarting, services, offered>>

\* Fault: stopWG is not waited for.
WaitForNobody == TRUE

stopWGWait == \A s \in Servers : goroutine[s] \in {"none", "done"}

StopReturns(o) ==
    /\ ownerPC[o] = "wait"
    /\ stopWGWait
    /\ grpcServer' = NoServer
    /\ \/ /\ restarting[o]
          /\ ownerPC' = [ownerPC EXCEPT ![o] = "listen"]
          /\ UNCHANGED holder
       \/ /\ ~ restarting[o]
          /\ ownerPC' = [ownerPC EXCEPT ![o] = "idle"]
          /\ holder' = "nobody"
    /\ UNCHANGED <<starts, listeners, stopped, goroutine, restarting, services, offered>>

\* Fault: the mutex is released only when the start succeeds.
KeepOnError(o) == holder' = holder

ReleaseOnError(o) == holder' = "nobody"

(***************************************************************************)
(* startGRPCServer: net.Listen fails when the address is in use, or for a  *)
(* reason of the system's.                                                 *)
(***************************************************************************)
startGRPCServer(o) ==
    /\ ownerPC[o] = "listen"
    /\ ownerPC' = [ownerPC EXCEPT ![o] = "idle"]
    /\ \/ /\ ReleaseOnError(o)
          /\ UNCHANGED <<grpcServer, starts, listeners, goroutine, offered>>
       \/ /\ listeners = {}
          /\ starts < MaxStarts
          /\ holder' = "nobody"
          /\ starts' = starts + 1
          /\ listeners' = {starts'}
          /\ grpcServer' = starts'
          /\ offered' = [offered EXCEPT ![starts'] = services]
          /\ goroutine' = [goroutine EXCEPT ![starts'] = "spawned"]
    /\ UNCHANGED <<stopped, restarting, services>>

(***************************************************************************)
(* The goroutine reads server.grpcServer without the mutex.                *)
(***************************************************************************)
Serve(s) ==
    /\ goroutine[s] = "spawned"
    /\ \/ /\ grpcServer = NoServer
          /\ goroutine' = [goroutine EXCEPT ![s] = "panicked"]
          /\ UNCHANGED listeners
       \/ /\ grpcServer \in stopped
          /\ goroutine' = [goroutine EXCEPT ![s] = "done"]
          /\ listeners' = listeners \ {s}
       \/ /\ grpcServer \in Servers \ stopped
          /\ goroutine' = [goroutine EXCEPT ![s] = "serving"]
          /\ UNCHANGED listeners
    /\ UNCHANGED <<holder, grpcServer, starts, stopped, ownerPC, restarting, services, offered>>

\* Serve returns after Stop, or because accepting connections fails.
ServeReturns(s) ==
    /\ goroutine[s] = "serving"
    /\ goroutine' = [goroutine EXCEPT ![s] = "done"]
    /\ listeners' = listeners \ {s}
    /\ UNCHANGED <<holder, grpcServer, starts, stopped, ownerPC, restarting, services, offered>>

OwnerStep(o) == StopGRPC(o) \/ StopReturns(o) \/ startGRPCServer(o)

ServerNext ==
    \/ RegisterService
    \/ \E o \in Owners : CallServer(o) \/ OwnerStep(o)
    \/ \E s \in Servers : Serve(s) \/ ServeReturns(s)

ServerSpec == ServerInit /\ [][ServerNext]_grpcServerVars

(***************************************************************************)
(* Goroutines run, a stopped server's Serve returns, and the mutex does    *)
(* not starve a waiter.                                                    *)
(***************************************************************************)
ServerFairness ==
    /\ \A o \in Owners : SF_grpcServerVars(OwnerStep(o))
    /\ \A s \in Servers :
          WF_grpcServerVars(Serve(s)) /\ WF_grpcServerVars(s \in stopped /\ ServeReturns(s))

-----------------------------------------------------------------------------
(***************************************************************************)
(* Properties                                                              *)
(***************************************************************************)

\* RestartServer never finds its own address in use: the listener of the server
\* it stopped, or of one that was spawned and had not served yet, is closed.
\* The goroutine of a start serves its own server, never a nil or another one.
RestartFindsAddressFree ==
    /\ \A o \in Owners : ownerPC[o] = "listen" => listeners = {}
    /\ \A s \in Servers : goroutine[s] \in {"spawned", "serving"} => grpcServer = s

\* The mutex is held by the owner that stops or starts the server, and a call
\* of RestartServer or StopServer returns.
ServerCallReturns ==
    \A o \in Owners : ownerPC[o] = "lock" ~> ownerPC[o] = "idle"

=============================================================================
