------------------------------- MODULE MCGRPC -------------------------------
(***************************************************************************)
(* The helpers around gRPC: the synchronous stream, the connection and the *)
(* server.  They share no state: a behaviour runs one of them and leaves   *)
(* the others as they start.                                               *)
(***************************************************************************)
EXTENDS SyncStream, GRPCConn, GRPCServer

VARIABLE component

allVars == <<component, streamVars, vars, grpcServerVars>>

MCInit ==
    /\ component \in {"stream", "conn", "server"}
    /\ IF component = "stream" THEN StreamInit
       ELSE StreamInit /\ responseType = [r \in Sends |-> CHOOSE t \in Types : TRUE]
    /\ Init
    /\ ServerInit

MCNext ==
    /\ UNCHANGED component
    /\ \/ component = "stream" /\ StreamNext /\ UNCHANGED <<vars, grpcServerVars>>
       \/ component = "conn" /\ Next /\ UNCHANGED <<streamVars, grpcServerVars>>
       \/ component = "server" /\ ServerNext /\ UNCHANGED <<streamVars, vars>>

MCSpec == MCInit /\ [][MCNext]_allVars /\ Fairness /\ ServerFairness

\* Calls return: those over a connection that is started (GRPCConn.Invoke), and
\* those that stop or start a server (RestartServer, StopServer).
CallsReturn == CallReturnsOnceStarted /\ ServerCallReturns

=============================================================================
