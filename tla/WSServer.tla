------------------------------ MODULE WSServer ------------------------------
(***************************************************************************)
(* wsserver/wsserver.go: a web socket server.  Each HTTP request has a     *)
(* goroutine, its handler, that upgrades the connection, lists the client  *)
(* under its remote address, reads its messages until the connection ends  *)
(* and removes the client.  Close closes the listed clients and shuts the  *)
(* HTTP server down, all with the server's mutex held.                     *)
(*                                                                         *)
(* net/http is modelled from its use: Shutdown closes the listener and     *)
(* returns once no request is in work whose connection was not taken over  *)
(* by Upgrade.                                                             *)
(***************************************************************************)
EXTENDS Naturals, FiniteSets

CONSTANTS
    Handlers,      \* HTTP requests, each with its goroutine
    Addrs,         \* remote addresses
    NoClient

VARIABLES
    serverMutex,   \* TRUE while Close holds the server's mutex and waits
    listening,     \* "starting", "serving" or "stopped": ListenAndServeTLS
    clients,       \* clients[a]: handler of the client listed under a
    addr,          \* addr[h]: client.RemoteAddr
    handlerPC,     \* handlerPC[h]: where handleConnection is
    link,          \* link[h]: "open", "broken" by the peer, or "closed" here
    closePC,       \* where Close is
    overtook       \* handlers whose address was still listed when they came

serverVars == <<serverMutex, listening, clients, addr, handlerPC, link, closePC, overtook>>

ServerInit ==
    /\ serverMutex = FALSE
    /\ listening = "starting"
    /\ clients = [a \in Addrs |-> NoClient]
    /\ addr = [h \in Handlers |-> NoClient]
    /\ handlerPC = [h \in Handlers |-> "idle"]
    /\ link = [h \in Handlers |-> "closed"]
    /\ closePC = "idle"
    /\ overtook = {}

Goto(h, place) == handlerPC' = [handlerPC EXCEPT ![h] = place]
CloseLink(h) == link' = [link EXCEPT ![h] = "closed"]

\* The client was made and not yet deleted.
Running == {h \in Handlers : handlerPC[h] \in {"announce", "read", "process", "respond", "delete"}}

(***************************************************************************)
(* New starts a goroutine that listens, or fails to.                       *)
(***************************************************************************)
Listen ==
    /\ listening = "starting"
    /\ listening' \in {"serving", "stopped"}
    /\ UNCHANGED <<serverMutex, clients, addr, handlerPC, link, closePC, overtook>>

(***************************************************************************)
(* The peers: no two connections of one address are alive at once, but the *)
(* server may still be busy with a dead one.                               *)
(***************************************************************************)
Request(h) ==
    /\ listening = "serving"
    /\ handlerPC[h] = "idle"
    /\ \E a \in Addrs :
           /\ \A g \in Handlers : link[g] = "open" => addr[g] # a
           /\ addr' = [addr EXCEPT ![h] = a]
    /\ Goto(h, "request")
    /\ link' = [link EXCEPT ![h] = "open"]
    /\ UNCHANGED <<serverMutex, listening, clients, closePC, overtook>>

PeerBreaks(h) ==
    /\ link[h] = "open"
    /\ link' = [link EXCEPT ![h] = "broken"]
    /\ UNCHANGED <<serverMutex, listening, clients, addr, handlerPC, closePC, overtook>>

\* Fault: the mutex is not taken.
NoLock == TRUE

Lock == ~ serverMutex

(***************************************************************************)
(* newClient: a request that is no upgrade, or whose upgrade fails, makes  *)
(* the deferred function use the nil client: the handler panics and        *)
(* net/http closes the connection.                                         *)
(***************************************************************************)
newClient(h) ==
    /\ handlerPC[h] = "request"
    /\ Lock
    /\ \/ /\ Goto(h, "panicked")
          /\ CloseLink(h)
          /\ UNCHANGED <<clients, overtook>>
       \/ /\ clients' = [clients EXCEPT ![addr[h]] = h]
          /\ overtook' = IF clients[addr[h]] # NoClient THEN overtook \union {h} ELSE overtook
          /\ Goto(h, "announce")
          /\ UNCHANGED link
    /\ UNCHANGED <<serverMutex, listening, addr, closePC>>

ClientConnected(h) ==
    /\ handlerPC[h] = "announce"
    /\ Goto(h, "read")
    /\ UNCHANGED <<serverMutex, listening, clients, addr, link, closePC, overtook>>

(***************************************************************************)
(* run: ProcessMessage answers, has no answer, or fails; SendMessage       *)
(* closes a connection it cannot write to.                                 *)
(***************************************************************************)
ReadMessage(h) ==
    /\ handlerPC[h] = "read"
    /\ link[h] = "open"
    /\ Goto(h, "process")
    /\ UNCHANGED <<serverMutex, listening, clients, addr, link, closePC, overtook>>

ProcessMessage(h) ==
    /\ handlerPC[h] = "process"
    /\ \E place \in {"read", "respond"} : Goto(h, place)
    /\ UNCHANGED <<serverMutex, listening, clients, addr, link, closePC, overtook>>

\* A message is written, or the write fails, at its deadline at the latest.
Written(h) == UNCHANGED link \/ CloseLink(h)

SendResponse(h) ==
    /\ handlerPC[h] = "respond"
    /\ Written(h)
    /\ Goto(h, "read")
    /\ UNCHANGED <<serverMutex, listening, clients, addr, closePC, overtook>>

\* Another goroutine of the service sends to a client it got from GetClients,
\* or from a callback: SendMessage.
SendMessage(h) ==
    /\ h \in Running
    /\ Written(h)
    /\ UNCHANGED <<serverMutex, listening, clients, addr, handlerPC, closePC, overtook>>

\* Fault: the loop goes on after an error.
ReadAgain(h) == Goto(h, "read")

LeaveLoop(h) == Goto(h, "delete")

ReadError(h) ==
    /\ handlerPC[h] = "read"
    /\ link[h] # "open"
    /\ LeaveLoop(h)
    /\ UNCHANGED <<serverMutex, listening, clients, addr, link, closePC, overtook>>

\* Fault: the entry stays.
KeepEntry(h) == clients

DeleteEntry(h) == [clients EXCEPT ![addr[h]] = NoClient]

deleteClient(h) ==
    /\ handlerPC[h] = "delete"
    /\ ~ serverMutex
    /\ clients' = DeleteEntry(h)
    /\ CloseLink(h)
    /\ Goto(h, "goodbye")
    /\ UNCHANGED <<serverMutex, listening, addr, closePC, overtook>>

ClientDisconnected(h) ==
    /\ handlerPC[h] = "goodbye"
    /\ Goto(h, "done")
    /\ UNCHANGED <<serverMutex, listening, clients, addr, link, closePC, overtook>>

(***************************************************************************)
(* Close                                                                   *)
(***************************************************************************)
CloseClients ==
    /\ closePC = "idle"
    /\ ~ serverMutex
    /\ serverMutex' = TRUE
    /\ link' = [h \in Handlers |-> IF \E a \in Addrs : clients[a] = h THEN "closed" ELSE link[h]]
    /\ listening' = "stopped"
    /\ closePC' = "shutdown"
    /\ UNCHANGED <<clients, addr, handlerPC, overtook>>

InWork == {h \in Handlers : handlerPC[h] = "request"}

ShutdownReturns ==
    /\ closePC = "shutdown"
    /\ InWork = {}
    /\ serverMutex' = FALSE
    /\ closePC' = "returned"
    /\ UNCHANGED <<listening, clients, addr, handlerPC, link, overtook>>

handleConnection(h) ==
    \/ newClient(h) \/ ClientConnected(h) \/ ReadMessage(h) \/ ProcessMessage(h) \/ SendResponse(h)
    \/ ReadError(h) \/ deleteClient(h) \/ ClientDisconnected(h)

ServerNext ==
    \/ Listen \/ CloseClients \/ ShutdownReturns
    \/ \E h \in Handlers : Request(h) \/ PeerBreaks(h) \/ SendMessage(h) \/ handleConnection(h)

(***************************************************************************)
(* Goroutines run, callbacks return, a goroutine that waits for the mutex  *)
(* gets it in the end, and Shutdown returns when it can.                   *)
(***************************************************************************)
ServerFairness ==
    /\ \A h \in Handlers : SF_serverVars(handleConnection(h))
    /\ WF_serverVars(ShutdownReturns)

-----------------------------------------------------------------------------
(***************************************************************************)
(* Properties                                                              *)
(***************************************************************************)

\* Types of the server's state.
ServerTypeOK ==
    /\ serverMutex \in BOOLEAN
    /\ serverMutex <=> closePC = "shutdown"
    /\ listening \in {"starting", "serving", "stopped"}
    /\ clients \in [Addrs -> Handlers \union {NoClient}]
    /\ addr \in [Handlers -> Addrs \union {NoClient}]
    /\ link \in [Handlers -> {"open", "broken", "closed"}]
    /\ overtook \subseteq Handlers

\* GetClients gives the clients whose handler runs and no other, each under
\* its own address.  A client that came while the handler of a dead
\* connection of its address was still at work may be missing: deleteClient
\* removes whatever is listed under the address.
ListedIsRunning ==
    /\ \A a \in Addrs : clients[a] # NoClient =>
           clients[a] \in Running /\ addr[clients[a]] = a
    /\ \A h \in Running : clients[addr[h]] = h \/ \E g \in overtook : addr[g] = addr[h]

\* "Close closes web socket server and all connections": no client that is
\* served, however late it came, survives a Close that has returned.
CloseClosesClients ==
    closePC = "returned" =>
        \A h \in Handlers : link[h] = "open" => \E g \in overtook : addr[g] = addr[h]

\* Close waits for a request that waits for the mutex Close holds.
CloseStuck == closePC = "shutdown" /\ InWork # {}

\* A connection that ended is noticed: the client is deleted and
\* ClientDisconnected is called, unless Close is stuck.
EndIsReported ==
    \A h \in Handlers : (h \in Running /\ link[h] # "open") ~> (handlerPC[h] = "done" \/ CloseStuck)

\* Close returns unless a request came in while it waited.
CloseReturnsUnlessStuck == closePC = "shutdown" ~> (closePC = "returned" \/ CloseStuck)

\* Close returns.
CloseReturns == closePC = "shutdown" ~> closePC = "returned"

\* "new connection is not websocket" is an error that handleConnection logs:
\* a refused request does not panic.
RefusedIsLogged == \A h \in Handlers : handlerPC[h] # "panicked"

\* A client whose connection is open and whose handler runs is listed.
OpenIsListed == \A h \in Running : link[h] = "open" => clients[addr[h]] = h

=============================================================================
