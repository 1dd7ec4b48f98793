----------------------------- MODULE MCWebSocket -----------------------------
(***************************************************************************)
(* The web socket client and the web socket server.  They share no state   *)
(* of the program: a behaviour runs one of them, against a peer that does  *)
(* what it likes, and leaves the other as it starts.                       *)
(***************************************************************************)
EXTENDS WSClient

CONSTANTS Handlers, Addrs, NoClient

ASSUME NoClientAssumption == NoClient \notin Handlers

VARIABLES component, serverMutex, listening, clients, addr, handlerPC, link, closePC, overtook

Server == INSTANCE WSServer

srvVars == <<serverMutex, listening, clients, addr, handlerPC, link, closePC, overtook>>
allVars == <<component, vars, srvVars>>

ServerSpec == Server!ServerInit /\ [][Server!ServerNext]_srvVars

MCInit ==
    /\ component \in {"client", "server"}
    /\ Init
    /\ Server!ServerInit

MCNext ==
    \/ component = "client" /\ Next /\ UNCHANGED <<component, srvVars>>
    \/ component = "server" /\ Server!ServerNext /\ UNCHANGED <<component, vars>>

MCSpec == MCInit /\ [][MCNext]_allVars /\ Fairness /\ Server!ServerFairness

\* The listed clients are those whose handler runs, and none survives a Close
\* that has returned (Server.clients, Server.Close).
ServerClientsExact == Server!ListedIsRunning /\ Server!CloseClosesClients

\* The end of a connection is reported to ClientDisconnected, and Close
\* returns, unless Close is stuck (handleConnection, Server.Close).
ServerGoesOn == Server!EndIsReported /\ Server!CloseReturnsUnlessStuck

\* Close returns (Server.Close).
CloseReturns == Server!CloseReturns

=============================================================================
