------------------------------ MODULE WSClient ------------------------------
(***************************************************************************)
(* wsclient/wsclient.go: a web socket client.  Connect starts a goroutine  *)
(* that reads the messages of the connection; SendRequest registers a      *)
(* request, sends it and waits for its response or for a timeout; the      *)
(* reader hands a response to the request it belongs to, and reports the   *)
(* end of the connection to Disconnect or through ErrorChannel.            *)
(*                                                                         *)
(* Readers and connections are numbered by the Connect that made them.  A  *)
(* message is the request it answers.  A message that answers no request   *)
(* looks to the client like a late answer, and is modelled by it.          *)
(***************************************************************************)
EXTENDS Integers, SequencesExt

CONSTANTS
    Requests,      \* calls of SendRequest
    MaxConns,      \* bound: number of successful calls of Connect
    Nobody

ASSUME ConstantsAssumption ==
    /\ MaxConns \in Nat
    /\ Nobody \notin Requests \union 1 .. MaxConns

Conns == 1 .. MaxConns

VARIABLES
    mutex,           \* reader that holds the client's mutex while it blocks
    connection,      \* client.connection, 0 before the first Connect
    isConnected,
    open,            \* connections that are not closed
    inbox,           \* inbox[c]: messages that have arrived on connection c
    reader,          \* reader[g]: where reader g is
    reading,         \* reading[g]: connection that reader g waits for
    delivering,      \* delivering[g]: request that reader g has a response for
    requests,        \* client.requests
    requestPC,       \* requestPC[r]: where SendRequest r is
    answered,        \* requests the server has answered
    disconnectPC,    \* where Disconnect is
    errors           \* number of errors in ErrorChannel

connVars == <<connection, isConnected, open>>
reqVars == <<requests, requestPC>>
readerVars == <<reader, reading, delivering>>

vars == <<mutex, connVars, inbox, readerVars, reqVars, answered, disconnectPC, errors>>

errorChannelSize == 1

Init ==
    /\ mutex = Nobody
    /\ connection = 0
    /\ isConnected = FALSE
    /\ open = {}
    /\ inbox = [c \in Conns |-> <<>>]
    /\ reader = [g \in Conns |-> "none"]
    /\ reading = [g \in Conns |-> 0]
    /\ delivering = [g \in Conns |-> Nobody]
    /\ requests = {}
    /\ requestPC = [r \in Requests |-> "idle"]
    /\ answered = {}
    /\ disconnectPC = "idle"
    /\ errors = 0

-----------------------------------------------------------------------------
(***************************************************************************)
(* Connect and Disconnect                                                  *)
(***************************************************************************)
Connect ==
    /\ mutex = Nobody
    /\ disconnectPC = "idle"
    /\ ~ isConnected
    /\ connection < MaxConns
    /\ connection' = connection + 1
    /\ open' = open \union {connection'}
    /\ isConnected' = TRUE
    /\ reader' = [reader EXCEPT ![connection'] = "loop"]
    /\ UNCHANGED <<mutex, inbox, reading, delivering, reqVars, answered, disconnectPC, errors>>

Disconnect ==
    /\ mutex = Nobody
    /\ disconnectPC = "idle"
    /\ isConnected
    /\ isConnected' = FALSE
    /\ open' = open \ {connection}
    /\ disconnectPC' = "select"
    /\ UNCHANGED <<mutex, connection, inbox, readerVars, reqVars, answered, errors>>

DisconnectTimeout ==
    /\ disconnectPC = "select"
    /\ disconnectPC' = "idle"
    /\ UNCHANGED <<mutex, connVars, inbox, readerVars, reqVars, answered, errors>>

(***************************************************************************)
(* SendRequest: store the request, send it (SendMessage), and wait.        *)
(***************************************************************************)
StoreRequest(r) ==
    /\ requestPC[r] = "idle"
    /\ requests' = requests \union {r}
    /\ requestPC' = [requestPC EXCEPT ![r] = "stored"]
    /\ UNCHANGED <<mutex, connVars, inbox, readerVars, answered, disconnectPC, errors>>

\* Fault: the deferred Delete is missing.
KeepRequest(r) == requests' = requests

DeleteRequest(r) == requests' = requests \ {r}

SendMessage(r) ==
    /\ requestPC[r] = "stored"
    /\ mutex = Nobody
    /\ \/ /\ isConnected /\ connection \in open
          /\ requestPC' = [requestPC EXCEPT ![r] = "waiting"]
          /\ UNCHANGED <<open, requests>>
       \/ /\ isConnected => connection \notin open
          /\ open' = open \ {connection}
          /\ DeleteRequest(r)
          /\ requestPC' = [requestPC EXCEPT ![r] = "failed"]
    /\ UNCHANGED <<mutex, connection, isConnected, inbox, readerVars, answered, disconnectPC,
                   errors>>

RequestTimeout(r) ==
    /\ requestPC[r] = "waiting"
    /\ DeleteRequest(r)
    /\ requestPC' = [requestPC EXCEPT ![r] = "failed"]
    /\ UNCHANGED <<mutex, connVars, inbox, readerVars, answered, disconnectPC, errors>>

(***************************************************************************)
(* The server and the network: a response, a broken connection; and the    *)
(* owner of ErrorChannel.                                                  *)
(***************************************************************************)
Respond(r) ==
    /\ connection \in open
    /\ requestPC[r] \in {"waiting", "failed"} /\ r \notin answered
    /\ answered' = answered \union {r}
    /\ inbox' = [inbox EXCEPT ![connection] = Append(@, r)]
    /\ UNCHANGED <<mutex, connVars, readerVars, reqVars, disconnectPC, errors>>

BreakConnection ==
    /\ connection \in open
    /\ open' = open \ {connection}
    /\ UNCHANGED <<mutex, connection, isConnected, inbox, readerVars, reqVars, answered,
                   disconnectPC, errors>>

ReadErrorChannel ==
    /\ errors > 0
    /\ errors' = errors - 1
    /\ UNCHANGED <<mutex, connVars, inbox, readerVars, reqVars, answered, disconnectPC>>

-----------------------------------------------------------------------------
(***************************************************************************)
(* processMessages reads from whatever client.connection is when the loop  *)
(* comes round.                                                            *)
(***************************************************************************)
ReadMessage(g) ==
    /\ reader[g] = "loop"
    /\ reader' = [reader EXCEPT ![g] = "read"]
    /\ reading' = [reading EXCEPT ![g] = connection]
    /\ UNCHANGED <<mutex, connVars, inbox, delivering, reqVars, answered, disconnectPC, errors>>

\* Fault: all requests are removed.
UnregisterAll(m) == requests' = {}

Unregister(m) == requests' = requests \ {m}

(***************************************************************************)
(* findRequestID removes the request the message answers and then sends to *)
(* its channel, which has no buffer.  Other messages go to messageHandler. *)
(***************************************************************************)
findRequestID(g) ==
    /\ reader[g] = "read"
    /\ inbox[reading[g]] # <<>>
    /\ LET m == Head(inbox[reading[g]]) IN
       \/ /\ m \in requests
          /\ Unregister(m)
          /\ delivering' = [delivering EXCEPT ![g] = m]
          /\ reader' = [reader EXCEPT ![g] = "deliver"]
       \/ /\ m \notin requests
          /\ reader' = [reader EXCEPT ![g] = "handler"]
          /\ UNCHANGED <<requests, delivering>>
    /\ inbox' = [inbox EXCEPT ![reading[g]] = Tail(@)]
    /\ UNCHANGED <<mutex, connVars, reading, requestPC, answered, disconnectPC, errors>>

HandlerReturns(g) ==
    /\ reader[g] = "handler"
    /\ reader' = [reader EXCEPT ![g] = "loop"]
    /\ UNCHANGED <<mutex, connVars, inbox, reading, delivering, reqVars, answered, disconnectPC,
                   errors>>

DeliverResponse(g) ==
    /\ reader[g] = "deliver"
    /\ requestPC[delivering[g]] = "waiting"
    /\ requestPC' = [requestPC EXCEPT ![delivering[g]] = "responded"]
    /\ DeleteRequest(delivering[g])
    /\ delivering' = [delivering EXCEPT ![g] = Nobody]
    /\ reader' = [reader EXCEPT ![g] = "loop"]
    /\ UNCHANGED <<mutex, connVars, inbox, reading, answered, disconnectPC, errors>>

ReadError(g) ==
    /\ reader[g] = "read"
    /\ reading[g] \notin open
    /\ reader' = [reader EXCEPT ![g] = "lost"]
    /\ UNCHANGED <<mutex, connVars, inbox, reading, delivering, reqVars, answered, disconnectPC,
                   errors>>

(***************************************************************************)
(* disconnect: with the mutex held, report an unexpected end of the        *)
(* connection or answer Disconnect; both may block.                        *)
(***************************************************************************)
disconnect(g) ==
    /\ reader[g] = "lost"
    /\ mutex = Nobody
    /\ mutex' = g
    /\ \/ /\ isConnected
          /\ open' = open \ {connection}
          /\ isConnected' = FALSE
          /\ reader' = [reader EXCEPT ![g] = "report"]
       \/ /\ ~ isConnected
          /\ reader' = [reader EXCEPT ![g] = "answer"]
          /\ UNCHANGED <<open, isConnected>>
    /\ UNCHANGED <<connection, inbox, reading, delivering, reqVars, answered, disconnectPC,
                   errors>>

\* Fault: the mutex is not released.
KeepMutex(g) == mutex' = mutex

Unlock(g) == mutex' = Nobody

SendError(g) ==
    /\ reader[g] = "report"
    /\ errors < errorChannelSize
    /\ errors' = errors + 1
    /\ Unlock(g)
    /\ reader' = [reader EXCEPT ![g] = "ended"]
    /\ UNCHANGED <<connVars, inbox, reading, delivering, reqVars, answered, disconnectPC>>

AnswerDisconnect(g) ==
    /\ reader[g] = "answer"
    /\ disconnectPC = "select"
    /\ disconnectPC' = "idle"
    /\ Unlock(g)
    /\ reader' = [reader EXCEPT ![g] = "ended"]
    /\ UNCHANGED <<connVars, inbox, reading, delivering, reqVars, answered, errors>>

processMessages(g) ==
    \/ ReadMessage(g) \/ findRequestID(g) \/ HandlerReturns(g) \/ DeliverResponse(g)
    \/ ReadError(g) \/ disconnect(g) \/ SendError(g) \/ AnswerDisconnect(g)

Next ==
    \/ Connect \/ Disconnect \/ DisconnectTimeout
    \/ \E r \in Requests : StoreRequest(r) \/ SendMessage(r) \/ RequestTimeout(r) \/ Respond(r)
    \/ BreakConnection \/ ReadErrorChannel
    \/ \E g \in Conns : processMessages(g)

Spec == Init /\ [][Next]_vars

(***************************************************************************)
(* Goroutines run, timers fire, the mutex does not starve a waiter, and    *)
(* ErrorChannel is read.                                                   *)
(***************************************************************************)
Fairness ==
    /\ \A g \in Conns : SF_vars(processMessages(g))
    /\ \A r \in Requests : SF_vars(SendMessage(r)) /\ WF_vars(RequestTimeout(r))
    /\ WF_vars(DisconnectTimeout)
    /\ WF_vars(ReadErrorChannel)

FairSpec == Spec /\ Fairness

-----------------------------------------------------------------------------
(***************************************************************************)
(* Properties                                                              *)
(***************************************************************************)

\* Types of the client's fields; the mutex is held only by a reader that
\* reports the end of a connection.
TypeOK ==
    /\ mutex \in Conns \union {Nobody}
    /\ \A g \in Conns : mutex = g <=> reader[g] \in {"report", "answer"}
    /\ connection \in 0 .. MaxConns
    /\ isConnected \in BOOLEAN
    /\ open \subseteq Conns
    /\ inbox \in [Conns -> Seq(Requests)]
    /\ reader \in [Conns -> {"none", "loop", "read", "deliver", "handler", "lost", "report",
                             "answer", "ended"}]
    /\ reading \in [Conns -> 0 .. MaxConns]
    /\ delivering \in [Conns -> Requests \union {Nobody}]
    /\ requests \subseteq Requests
    /\ requestPC \in [Requests -> {"idle", "stored", "waiting", "responded", "failed"}]
    /\ disconnectPC \in {"idle", "select"}
    /\ errors \in 0 .. errorChannelSize

\* A request in the map has a SendRequest that will take its response: nothing
\* stays registered after a timeout or a failed send, and no response can go
\* to a request that has returned before it was looked up.
RegisteredIsAlive ==
    \A r \in requests : requestPC[r] \in {"stored", "waiting"}

\* A response goes to one reader and the request that waits is registered or
\* about to be answered: it is not forgotten while its connection is read.
WaitingIsKnown ==
    \A r \in Requests : requestPC[r] = "waiting" =>
        \/ r \in requests
        \/ \E g \in Conns : reader[g] = "deliver" /\ delivering[g] = r

\* The request table holds the requests that wait and no others.
RequestTableExact == RegisteredIsAlive /\ WaitingIsKnown

\* SendRequest returns, unless the reader of a connection holds the mutex and
\* waits for a Disconnect that has given up.
SendRequestReturnsUnlessStuck ==
    \A r \in Requests :
        requestPC[r] = "stored" ~>
            \/ requestPC[r] \in {"responded", "failed"}
            \/ disconnectPC = "idle" /\ \E g \in Conns : reader[g] = "answer"

\* "SendMessage sends message without waiting for response": it returns.
SendMessageReturns ==
    \A r \in Requests : requestPC[r] = "stored" ~> requestPC[r] # "stored"

\* "SendRequest sends request and waits for response", or for its timeout: a
\* response that comes too late does not stop the reader for ever.
ReaderGoesOn ==
    \A g \in Conns : reader[g] = "deliver" ~> reader[g] # "deliver"

\* "Connections support one concurrent reader and one concurrent writer."
OneReaderPerConnection ==
    \A f, g \in Conns :
        f # g /\ reader[f] = "read" /\ reader[g] = "read" => reading[f] # reading[g]

=============================================================================
