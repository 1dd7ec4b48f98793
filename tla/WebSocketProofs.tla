-------------------------- MODULE WebSocketProofs --------------------------
(***************************************************************************)
(* Theorems about the web socket client (wsclient) and the web socket      *)
(* server (wsserver), for any number of requests and connections, handlers *)
(* and addresses.                                                          *)
(***************************************************************************)
EXTENDS MCWebSocket, TLAPS

-----------------------------------------------------------------------------
(***************************************************************************)
(* The client                                                              *)
(***************************************************************************)

\* A request that was stored is in the table, or a reader took it out and has
\* its response.
StoredIsKnown ==
    \A r \in Requests : requestPC[r] \in {"stored", "waiting"} =>
        \/ r \in requests
        \/ \E g \in Conns : reader[g] = "deliver" /\ delivering[g] = r

\* The readers are those of the connections made, and one that delivers a response
\* has a request to deliver it to.
ReadersMade ==
    \A g \in Conns :
        /\ g > connection => reader[g] = "none"
        /\ reader[g] = "deliver" => delivering[g] \in Requests

ClientInv == TypeOK /\ RegisteredIsAlive /\ StoredIsKnown /\ ReadersMade

\* What the property says follows from the invariant.
LEMMA ClientInvImplies == ClientInv => RequestTableExact
BY DEF ClientInv, StoredIsKnown, RequestTableExact, WaitingIsKnown

LEMMA ClientInit == Init => ClientInv
<1> SUFFICES ASSUME Init PROVE ClientInv
  OBVIOUS
<1>1. isConnected \in BOOLEAN
  BY Zenon DEF Init
<1>2. TypeOK
  BY <1>1, ConstantsAssumption DEF Init, TypeOK, Conns, errorChannelSize
<1>3. RegisteredIsAlive /\ StoredIsKnown /\ ReadersMade
  BY DEF Init, RegisteredIsAlive, StoredIsKnown, ReadersMade
<1> QED BY <1>2, <1>3 DEF ClientInv

\* Every operation of the client, and every step of its readers, keeps the
\* invariant.
LEMMA ClientNext == ClientInv /\ [Next]_vars => ClientInv'
<1> SUFFICES ASSUME ClientInv, [Next]_vars PROVE ClientInv'
  OBVIOUS
<1> USE ConstantsAssumption
<1>1. CASE Connect
  <2>1. isConnected' \in BOOLEAN
    BY <1>1, Zenon DEF Connect
  <2>2. TypeOK'
    BY <1>1, <2>1 DEF Connect, ClientInv, TypeOK, reqVars, Conns
  <2>3. RegisteredIsAlive' /\ StoredIsKnown' /\ ReadersMade'
    BY <1>1 DEF Connect, ClientInv, TypeOK, reqVars, RegisteredIsAlive, StoredIsKnown, ReadersMade,
                Conns
  <2> QED BY <2>2, <2>3 DEF ClientInv
<1>2. CASE Disconnect
  <2>1. isConnected' \in BOOLEAN
    BY <1>2, Zenon DEF Disconnect
  <2>2. TypeOK'
    BY <1>2, <2>1 DEF Disconnect, ClientInv, TypeOK, reqVars, readerVars
  <2>3. RegisteredIsAlive' /\ StoredIsKnown' /\ ReadersMade'
    BY <1>2 DEF Disconnect, ClientInv, reqVars, readerVars, RegisteredIsAlive, StoredIsKnown, ReadersMade
  <2> QED BY <2>2, <2>3 DEF ClientInv
<1>3. CASE DisconnectTimeout
  BY <1>3 DEF DisconnectTimeout, ClientInv, TypeOK, connVars, reqVars, readerVars, RegisteredIsAlive,
              StoredIsKnown, ReadersMade
<1>4. ASSUME NEW r \in Requests, StoreRequest(r) PROVE ClientInv'
  BY <1>4 DEF StoreRequest, ClientInv, TypeOK, connVars, readerVars, RegisteredIsAlive, StoredIsKnown, ReadersMade
<1>5. ASSUME NEW r \in Requests, SendMessage(r) PROVE ClientInv'
  <2>0. requestPC[r] = "stored"
        /\ UNCHANGED <<mutex, connection, isConnected, inbox, readerVars, answered, disconnectPC, errors>>
    BY <1>5 DEF SendMessage
  <2>1. CASE requestPC' = [requestPC EXCEPT ![r] = "waiting"] /\ UNCHANGED <<open, requests>>
    BY <2>0, <2>1 DEF ClientInv, TypeOK, readerVars, RegisteredIsAlive, StoredIsKnown, ReadersMade
  <2>2. CASE /\ open' = open \ {connection}
             /\ requests' = requests \ {r}
             /\ requestPC' = [requestPC EXCEPT ![r] = "failed"]
    BY <2>0, <2>2 DEF ClientInv, TypeOK, readerVars, RegisteredIsAlive, StoredIsKnown, ReadersMade
  <2> QED BY <1>5, <2>1, <2>2 DEF SendMessage, DeleteRequest
<1>6. ASSUME NEW r \in Requests, RequestTimeout(r) PROVE ClientInv'
  BY <1>6 DEF RequestTimeout, DeleteRequest, ClientInv, TypeOK, connVars, readerVars,
              RegisteredIsAlive, StoredIsKnown, ReadersMade
<1>7. ASSUME NEW r \in Requests, Respond(r) PROVE ClientInv'
  <2>1. Append(inbox[connection], r) \in Seq(Requests)
    BY <1>7 DEF Respond, ClientInv, TypeOK
  <2> QED BY <1>7, <2>1 DEF Respond, ClientInv, TypeOK, connVars, reqVars, readerVars,
                           RegisteredIsAlive, StoredIsKnown, ReadersMade
<1>8. CASE BreakConnection
  BY <1>8 DEF BreakConnection, ClientInv, TypeOK, reqVars, readerVars, RegisteredIsAlive, StoredIsKnown, ReadersMade
<1>9. CASE ReadErrorChannel
  BY <1>9 DEF ReadErrorChannel, ClientInv, TypeOK, connVars, reqVars, readerVars, RegisteredIsAlive,
              StoredIsKnown, ReadersMade, errorChannelSize
<1>10. ASSUME NEW g \in Conns, ReadMessage(g) PROVE ClientInv'
  BY <1>10 DEF ReadMessage, ClientInv, TypeOK, connVars, reqVars, RegisteredIsAlive, StoredIsKnown, ReadersMade
<1>11. ASSUME NEW g \in Conns, findRequestID(g) PROVE ClientInv'
  <2> DEFINE m == Head(inbox[reading[g]])
  <2>0. /\ reader[g] = "read"
        /\ inbox' = [inbox EXCEPT ![reading[g]] = Tail(@)]
        /\ inbox[reading[g]] # <<>>
        /\ UNCHANGED <<mutex, connVars, reading, requestPC, answered, disconnectPC, errors>>
    BY <1>11 DEF findRequestID
  <2>1. inbox' \in [Conns -> Seq(Requests)]
    <3>1. CASE reading[g] \in Conns
      <4>1. Tail(inbox[reading[g]]) \in Seq(Requests)
        BY <2>0, <3>1 DEF ClientInv, TypeOK
      <4> QED BY <2>0, <3>1, <4>1 DEF ClientInv, TypeOK
    <3>2. CASE reading[g] \notin Conns
      BY <2>0, <3>2 DEF ClientInv, TypeOK
    <3> QED BY <3>1, <3>2
  <2>2. CASE /\ m \in requests
             /\ requests' = requests \ {m}
             /\ delivering' = [delivering EXCEPT ![g] = m]
             /\ reader' = [reader EXCEPT ![g] = "deliver"]
    <3> HIDE DEF m
    <3>1. TypeOK'
      BY <2>0, <2>1, <2>2 DEF ClientInv, TypeOK, connVars
    <3>2. RegisteredIsAlive' /\ StoredIsKnown' /\ ReadersMade'
      BY <2>0, <2>2 DEF ClientInv, TypeOK, connVars, RegisteredIsAlive, StoredIsKnown, ReadersMade
    <3> QED BY <3>1, <3>2 DEF ClientInv
  <2>3. CASE reader' = [reader EXCEPT ![g] = "handler"] /\ UNCHANGED <<requests, delivering>>
    BY <2>0, <2>1, <2>3 DEF ClientInv, TypeOK, connVars, RegisteredIsAlive, StoredIsKnown, ReadersMade
  <2> QED BY <1>11, <2>2, <2>3 DEF findRequestID, Unregister
<1>12. ASSUME NEW g \in Conns, HandlerReturns(g) PROVE ClientInv'
  BY <1>12 DEF HandlerReturns, ClientInv, TypeOK, connVars, reqVars, RegisteredIsAlive, StoredIsKnown, ReadersMade
<1>13. ASSUME NEW g \in Conns, DeliverResponse(g) PROVE ClientInv'
  BY <1>13 DEF DeliverResponse, DeleteRequest, ClientInv, TypeOK, connVars, RegisteredIsAlive,
               StoredIsKnown, ReadersMade
<1>14. ASSUME NEW g \in Conns, ReadError(g) PROVE ClientInv'
  BY <1>14 DEF ReadError, ClientInv, TypeOK, connVars, reqVars, RegisteredIsAlive, StoredIsKnown, ReadersMade
<1>15. ASSUME NEW g \in Conns, disconnect(g) PROVE ClientInv'
  <2>1. isConnected' \in BOOLEAN
    BY <1>15, Zenon DEF disconnect, ClientInv, TypeOK
  <2>2. TypeOK'
    BY <1>15, <2>1 DEF disconnect, ClientInv, TypeOK, reqVars, Conns
  <2>3. RegisteredIsAlive' /\ StoredIsKnown' /\ ReadersMade'
    BY <1>15 DEF disconnect, ClientInv, TypeOK, reqVars, RegisteredIsAlive, StoredIsKnown, ReadersMade
  <2> QED BY <2>2, <2>3 DEF ClientInv
<1>16. ASSUME NEW g \in Conns, SendError(g) PROVE ClientInv'
  BY <1>16 DEF SendError, Unlock, ClientInv, TypeOK, connVars, reqVars, RegisteredIsAlive,
               StoredIsKnown, ReadersMade, errorChannelSize, Conns
<1>17. ASSUME NEW g \in Conns, AnswerDisconnect(g) PROVE ClientInv'
  BY <1>17 DEF AnswerDisconnect, Unlock, ClientInv, TypeOK, connVars, reqVars, RegisteredIsAlive,
               StoredIsKnown, ReadersMade, Conns
<1>18. CASE UNCHANGED vars
  BY <1>18 DEF vars, ClientInv, TypeOK, connVars, reqVars, readerVars, RegisteredIsAlive, StoredIsKnown, ReadersMade
<1> QED BY <1>1, <1>2, <1>3, <1>4, <1>5, <1>6, <1>7, <1>8, <1>9, <1>10, <1>11, <1>12, <1>13, <1>14,
           <1>15, <1>16, <1>17, <1>18 DEF Next, processMessages

\* The types of the client's fields; the mutex is held by a reader only while it
\* reports the end of a connection (WSClient).
THEOREM ClientTypeCorrect == Spec => []TypeOK
<1>1. ClientInv => TypeOK
  BY DEF ClientInv
<1> QED BY <1>1, ClientInit, ClientNext, PTL DEF Spec

\* A timeout, a failed send and a response, in any order and with readers of several
\* connections at work, neither leave a request in the table whose SendRequest has
\* returned nor lose one that waits (SendRequest, findRequestID, processMessages).
THEOREM RequestTableStaysExact == Spec => []RequestTableExact
BY ClientInit, ClientNext, ClientInvImplies, PTL DEF Spec

-----------------------------------------------------------------------------
(***************************************************************************)
(* The server                                                              *)
(***************************************************************************)

Ended == {"idle", "panicked", "goodbye", "done"}

\* A handler has an address and an open connection only while it works.
HandlersAgree ==
    /\ clients \in [Addrs -> Handlers \union {NoClient}]
    /\ addr \in [Handlers -> Addrs \union {NoClient}]
    /\ handlerPC \in [Handlers -> Ended \union
                         {"request", "announce", "read", "process", "respond", "delete"}]
    /\ link \in [Handlers -> {"open", "broken", "closed"}]
    /\ overtook \subseteq {h \in Handlers : handlerPC[h] # "idle"}
    /\ \A h \in Handlers : handlerPC[h] # "idle" => addr[h] \in Addrs
    /\ \A h \in Handlers : link[h] = "open" => handlerPC[h] \notin Ended

\* Some handler came to the address of h while another was listed there.
Overtaken(h) == \E g \in overtook : addr[g] = addr[h]

\* From the moment Close has the mutex, a connection is open only when its request
\* waits for that mutex or its address was overtaken.
Closing ==
    /\ serverMutex \in BOOLEAN
    /\ serverMutex <=> closePC = "shutdown"
    /\ closePC \in {"idle", "shutdown", "returned"}
    /\ closePC # "idle" => listening = "stopped"
    /\ closePC # "idle" =>
          \A h \in Handlers : link[h] = "open" => handlerPC[h] = "request" \/ Overtaken(h)
    /\ closePC = "returned" => \A h \in Handlers : handlerPC[h] # "request"

ServerInv == HandlersAgree /\ Server!ListedIsRunning /\ Closing

LEMMA ServerInitInv == Server!ServerInit => ServerInv
<1> SUFFICES ASSUME Server!ServerInit PROVE ServerInv
  OBVIOUS
<1>1. HandlersAgree
  BY DEF Server!ServerInit, HandlersAgree, Ended
<1>2. Server!ListedIsRunning
  BY DEF Server!ServerInit, Server!ListedIsRunning, Server!Running
<1>3. Closing
  <2>1. serverMutex \in BOOLEAN /\ ~ serverMutex
    BY Zenon DEF Server!ServerInit
  <2> QED BY <2>1 DEF Server!ServerInit, Closing
<1> QED BY <1>1, <1>2, <1>3 DEF ServerInv

\* Close and Listen leave the list of clients alone; Close closes what is listed.
LEMMA CloseStepInv ==
    ASSUME ServerInv, Server!Listen \/ Server!CloseClients \/ Server!ShutdownReturns
    PROVE  ServerInv'
<1> USE DEF ServerInv
<1>0. UNCHANGED <<clients, addr, handlerPC, overtook>>
  BY DEF Server!Listen, Server!CloseClients, Server!ShutdownReturns
<1>1. CASE Server!Listen
  <2>1. HandlersAgree' /\ Server!ListedIsRunning'
    BY <1>1 DEF Server!Listen, HandlersAgree, Server!ListedIsRunning, Server!Running
  <2>2. Closing'
    BY <1>1 DEF Server!Listen, Closing, Overtaken
  <2> QED BY <2>1, <2>2
<1>2. CASE Server!CloseClients
  <2>0. link' = [h \in Handlers |-> IF \E a \in Addrs : clients[a] = h THEN "closed" ELSE link[h]]
    BY <1>2 DEF Server!CloseClients
  <2>1. HandlersAgree'
    BY <1>0, <2>0 DEF HandlersAgree
  <2>2. Server!ListedIsRunning'
    BY <1>0 DEF Server!ListedIsRunning, Server!Running
  <2>3. serverMutex' \in BOOLEAN /\ serverMutex' /\ closePC' = "shutdown" /\ listening' = "stopped"
    BY <1>2, Zenon DEF Server!CloseClients
  <2>4. ASSUME NEW h \in Handlers, link'[h] = "open"
        PROVE  handlerPC[h] = "request" \/ Overtaken(h)
    <3>1. link[h] = "open" /\ \A a \in Addrs : clients[a] # h
      BY <2>0, <2>4
    <3>2. CASE h \in Server!Running
      <4>1. addr[h] \in Addrs
        BY <3>2 DEF HandlersAgree, Server!Running
      <4> QED BY <3>1, <3>2, <4>1 DEF Server!ListedIsRunning, Overtaken
    <3>3. CASE h \notin Server!Running
      BY <3>1, <3>3 DEF HandlersAgree, Server!Running, Ended
    <3> QED BY <3>2, <3>3
  <2>5. Closing'
    BY <1>0, <2>3, <2>4 DEF Closing, Overtaken
  <2> QED BY <2>1, <2>2, <2>5
<1>3. CASE Server!ShutdownReturns
  <2>0. UNCHANGED <<listening, link>>
    BY <1>3 DEF Server!ShutdownReturns
  <2>1. HandlersAgree' /\ Server!ListedIsRunning'
    BY <1>0, <2>0 DEF HandlersAgree, Server!ListedIsRunning, Server!Running
  <2>2. serverMutex' \in BOOLEAN /\ ~ serverMutex' /\ closePC' = "returned" /\ closePC = "shutdown"
    BY <1>3, Zenon DEF Server!ShutdownReturns
  <2>3. \A h \in Handlers : handlerPC[h] # "request"
    BY <1>3 DEF Server!ShutdownReturns, Server!InWork
  <2>4. Closing'
    BY <1>0, <2>0, <2>2, <2>3 DEF Closing, Overtaken
  <2> QED BY <2>1, <2>4
<1> QED BY <1>1, <1>2, <1>3

\* A handler comes to its address and goes from it: whoever else runs there was
\* overtaken.
LEMMA ListStepInv ==
    ASSUME ServerInv, NEW h \in Handlers, Server!newClient(h) \/ Server!deleteClient(h)
    PROVE  ServerInv'
<1> USE NoClientAssumption DEF ServerInv
<1>0. UNCHANGED <<serverMutex, listening, addr, closePC>> /\ ~ serverMutex
  BY DEF Server!newClient, Server!deleteClient, Server!Lock
<1>1. CASE /\ handlerPC[h] = "request"
           /\ handlerPC' = [handlerPC EXCEPT ![h] = "panicked"]
           /\ link' = [link EXCEPT ![h] = "closed"]
           /\ UNCHANGED <<clients, overtook>>
  <2>1. HandlersAgree'
    BY <1>0, <1>1 DEF HandlersAgree, Ended
  <2>2. Server!ListedIsRunning'
    <3>1. Server!Running' = Server!Running
      BY <1>1 DEF Server!Running, HandlersAgree
    <3> QED BY <1>0, <1>1, <3>1 DEF Server!ListedIsRunning
  <2>3. Closing'
    BY <1>0, <1>1 DEF Closing, Overtaken, HandlersAgree
  <2> QED BY <2>1, <2>2, <2>3
<1>2. CASE /\ handlerPC[h] = "request"
           /\ handlerPC' = [handlerPC EXCEPT ![h] = "announce"]
           /\ clients' = [clients EXCEPT ![addr[h]] = h]
           /\ overtook' = IF clients[addr[h]] # NoClient THEN overtook \union {h} ELSE overtook
           /\ UNCHANGED link
  <2>0. addr[h] \in Addrs /\ h \notin Server!Running
    BY <1>2 DEF HandlersAgree, Server!Running
  <2>1. HandlersAgree'
    <3>1. overtook' \subseteq {g \in Handlers : handlerPC'[g] # "idle"}
      BY <1>2 DEF HandlersAgree
    <3> QED BY <1>0, <1>2, <2>0, <3>1 DEF HandlersAgree, Ended
  <2>2. Server!ListedIsRunning'
    <3>1. Server!Running' = Server!Running \union {h}
      BY <1>2 DEF Server!Running, HandlersAgree
    <3>2. \A a \in Addrs : clients'[a] # NoClient =>
              clients'[a] \in Server!Running' /\ addr'[clients'[a]] = a
      BY <1>0, <1>2, <2>0, <3>1 DEF Server!ListedIsRunning, HandlersAgree
    <3>3. ASSUME NEW g \in Server!Running'
          PROVE  clients'[addr'[g]] = g \/ \E p \in overtook' : addr'[p] = addr'[g]
      <4>1. CASE g = h
        BY <1>0, <1>2, <2>0, <4>1 DEF HandlersAgree
      <4>2. CASE g \in Server!Running /\ addr[g] = addr[h]
        <5>1. CASE clients[addr[h]] = NoClient
          BY <1>0, <1>2, <4>2, <5>1 DEF Server!ListedIsRunning, Server!Running
        <5>2. CASE clients[addr[h]] # NoClient
          BY <1>0, <1>2, <4>2, <5>2
        <5> QED BY <5>1, <5>2
      <4>3. CASE g \in Server!Running /\ addr[g] # addr[h]
        <5>1. clients'[addr[g]] = clients[addr[g]] /\ overtook \subseteq overtook'
          BY <1>2, <2>0, <4>3 DEF HandlersAgree, Server!Running
        <5> QED BY <1>0, <4>3, <5>1 DEF Server!ListedIsRunning
      <4> QED BY <3>1, <3>3, <4>1, <4>2, <4>3
    <3> QED BY <3>2, <3>3 DEF Server!ListedIsRunning
  <2>3. Closing'
    BY <1>0, <1>2 DEF Closing, Overtaken, HandlersAgree
  <2> QED BY <2>1, <2>2, <2>3
<1>3. CASE /\ handlerPC[h] = "delete"
           /\ handlerPC' = [handlerPC EXCEPT ![h] = "goodbye"]
           /\ clients' = [clients EXCEPT ![addr[h]] = NoClient]
           /\ link' = [link EXCEPT ![h] = "closed"]
           /\ UNCHANGED overtook
  <2>0. addr[h] \in Addrs /\ h \in Server!Running
    BY <1>3 DEF HandlersAgree, Server!Running
  <2>1. HandlersAgree'
    BY <1>0, <1>3, <2>0 DEF HandlersAgree, Ended
  <2>2. Server!ListedIsRunning'
    <3>1. Server!Running' = Server!Running \ {h}
      BY <1>3 DEF Server!Running, HandlersAgree
    <3>2. \A a \in Addrs : clients'[a] # NoClient =>
              clients'[a] \in Server!Running' /\ addr'[clients'[a]] = a
      BY <1>0, <1>3, <2>0, <3>1 DEF Server!ListedIsRunning, HandlersAgree
    <3>3. ASSUME NEW g \in Server!Running'
          PROVE  clients'[addr'[g]] = g \/ \E p \in overtook' : addr'[p] = addr'[g]
      <4>1. CASE addr[g] = addr[h]
        BY <1>0, <1>3, <2>0, <3>1, <3>3, <4>1 DEF Server!ListedIsRunning
      <4>2. CASE addr[g] # addr[h]
        <5>1. clients'[addr[g]] = clients[addr[g]]
          BY <1>3, <2>0, <3>1, <3>3, <4>2 DEF HandlersAgree, Server!Running
        <5> QED BY <1>0, <1>3, <3>1, <3>3, <5>1 DEF Server!ListedIsRunning
      <4> QED BY <4>1, <4>2
    <3> QED BY <3>2, <3>3 DEF Server!ListedIsRunning
  <2>3. Closing'
    BY <1>0, <1>3 DEF Closing, Overtaken, HandlersAgree
  <2> QED BY <2>1, <2>2, <2>3
<1> QED BY <1>1, <1>2, <1>3 DEF Server!newClient, Server!deleteClient, Server!Goto, Server!CloseLink,
                                Server!DeleteEntry

\* The other steps leave the list alone: a handler goes on within its work, from
\* its last place to its end, or a connection ends.
LEMMA WorkStepInv ==
    ASSUME ServerInv, NEW h \in Handlers,
           UNCHANGED <<serverMutex, listening, clients, addr, closePC, overtook>>,
           link' \in {link, [link EXCEPT ![h] = "closed"], [link EXCEPT ![h] = "broken"]},
           \/ UNCHANGED handlerPC
           \/ /\ h \in Server!Running
              /\ handlerPC' \in {[handlerPC EXCEPT ![h] = p] :
                                    p \in {"announce", "read", "process", "respond", "delete"}}
           \/ /\ handlerPC[h] = "goodbye"
              /\ handlerPC' = [handlerPC EXCEPT ![h] = "done"]
    PROVE  ServerInv'
<1> USE DEF ServerInv
<1>1. Server!Running' = Server!Running
  BY DEF Server!Running, HandlersAgree
<1>2. \A g \in Handlers : /\ handlerPC'[g] = "request" <=> handlerPC[g] = "request"
                          /\ handlerPC'[g] = "idle" <=> handlerPC[g] = "idle"
                          /\ handlerPC'[g] \in Ended <=> handlerPC[g] \in Ended
  BY DEF HandlersAgree, Server!Running, Ended
<1>3. \A g \in Handlers : link'[g] = "open" => link[g] = "open"
  BY DEF HandlersAgree
<1>4. HandlersAgree'
  <2>1. link' \in [Handlers -> {"open", "broken", "closed"}]
    BY DEF HandlersAgree
  <2>2. handlerPC' \in [Handlers -> Ended \union
                            {"request", "announce", "read", "process", "respond", "delete"}]
    BY DEF HandlersAgree, Ended
  <2> QED BY <1>2, <1>3, <2>1, <2>2 DEF HandlersAgree
<1>5. Server!ListedIsRunning'
  BY <1>1 DEF Server!ListedIsRunning
<1>6. Closing'
  BY <1>2, <1>3 DEF Closing, Overtaken
<1> QED BY <1>4, <1>5, <1>6

\* A peer connects from an address that has no open connection.
LEMMA RequestInv ==
    ASSUME ServerInv, NEW h \in Handlers, Server!Request(h)
    PROVE  ServerInv'
<1> USE DEF ServerInv
<1>0. /\ listening = "serving" /\ handlerPC[h] = "idle"
      /\ handlerPC' = [handlerPC EXCEPT ![h] = "request"]
      /\ link' = [link EXCEPT ![h] = "open"]
      /\ UNCHANGED <<serverMutex, listening, clients, closePC, overtook>>
  BY DEF Server!Request, Server!Goto
<1>1. PICK a \in Addrs : addr' = [addr EXCEPT ![h] = a]
  BY DEF Server!Request
<1>2. Server!Running' = Server!Running /\ h \notin Server!Running
  BY <1>0 DEF Server!Running, HandlersAgree
<1>3. \A g \in Handlers \ {h} : addr'[g] = addr[g]
  BY <1>1 DEF HandlersAgree
<1>4. h \notin overtook
  BY <1>0 DEF HandlersAgree
<1>5. HandlersAgree'
  BY <1>0, <1>1 DEF HandlersAgree, Ended
<1>6. Server!ListedIsRunning'
  <2>1. \A g \in Server!Running : addr'[g] = addr[g]
    BY <1>2, <1>3 DEF Server!Running
  <2>2. \A g \in overtook : addr'[g] = addr[g]
    BY <1>3, <1>4 DEF HandlersAgree
  <2> QED BY <1>0, <1>2, <2>1, <2>2 DEF Server!ListedIsRunning
<1>7. Closing'
  BY <1>0 DEF Closing
<1> QED BY <1>5, <1>6, <1>7

LEMMA ServerNextInv == ServerInv /\ [Server!ServerNext]_srvVars => ServerInv'
<1> SUFFICES ASSUME ServerInv, [Server!ServerNext]_srvVars PROVE ServerInv'
  OBVIOUS
<1>1. ASSUME NEW h \in Handlers, Server!PeerBreaks(h) PROVE ServerInv'
  BY <1>1, WorkStepInv DEF Server!PeerBreaks
<1>2. ASSUME NEW h \in Handlers, Server!SendMessage(h) PROVE ServerInv'
  BY <1>2, WorkStepInv DEF Server!SendMessage, Server!Written, Server!CloseLink
<1>3. ASSUME NEW h \in Handlers, Server!ClientConnected(h) PROVE ServerInv'
  BY <1>3, WorkStepInv DEF Server!ClientConnected, Server!Goto, Server!Running
<1>4. ASSUME NEW h \in Handlers, Server!ReadMessage(h) PROVE ServerInv'
  BY <1>4, WorkStepInv DEF Server!ReadMessage, Server!Goto, Server!Running
<1>5. ASSUME NEW h \in Handlers, Server!ProcessMessage(h) PROVE ServerInv'
  BY <1>5, WorkStepInv DEF Server!ProcessMessage, Server!Goto, Server!Running
<1>6. ASSUME NEW h \in Handlers, Server!SendResponse(h) PROVE ServerInv'
  BY <1>6, WorkStepInv DEF Server!SendResponse, Server!Written, Server!CloseLink, Server!Goto,
                           Server!Running
<1>7. ASSUME NEW h \in Handlers, Server!ReadError(h) PROVE ServerInv'
  BY <1>7, WorkStepInv DEF Server!ReadError, Server!LeaveLoop, Server!Goto, Server!Running
<1>8. ASSUME NEW h \in Handlers, Server!ClientDisconnected(h) PROVE ServerInv'
  BY <1>8, WorkStepInv DEF Server!ClientDisconnected, Server!Goto
<1>9. CASE UNCHANGED srvVars
  BY <1>9 DEF srvVars, ServerInv, HandlersAgree, Server!ListedIsRunning, Server!Running, Closing,
              Overtaken
<1> QED BY <1>1, <1>2, <1>3, <1>4, <1>5, <1>6, <1>7, <1>8, <1>9, CloseStepInv, ListStepInv, RequestInv
        DEF Server!ServerNext, Server!handleConnection

\* GetClients gives the clients whose handler runs, each under its own address, and
\* no connection is open once Close has returned, except where a client came to an
\* address the handler of a dead connection had not left (handleConnection,
\* newClient, deleteClient, Close).
THEOREM ServerListsItsClients == ServerSpec => []ServerClientsExact
<1>1. ServerInv => ServerClientsExact
  BY DEF ServerInv, Closing, Overtaken, ServerClientsExact, Server!CloseClosesClients
<1> QED BY <1>1, ServerInitInv, ServerNextInv, PTL DEF ServerSpec

=============================================================================
