----------------------------- MODULE SyncStream -----------------------------
(***************************************************************************)
(* utils/syncstream/syncstream.go: request and response over a stream of   *)
(* typed messages.  Send registers the type of the response it expects,    *)
(* sends the request outside the mutex, and waits for a response or for    *)
(* its context to end; ProcessMessages, called by the reader of the        *)
(* stream, hands a message to the first request that expects its type.     *)
(*                                                                         *)
(* A Send is named by its request id; the message that answers it carries  *)
(* the same number.  The peer answers in order, or not at all.             *)
(***************************************************************************)
EXTENDS Integers, SequencesExt

CONSTANTS
    Types,      \* response types
    MaxSends    \* bound: number of calls of Send

ASSUME StreamAssumption == MaxSends \in Nat

Sends == 0 .. MaxSends - 1

NoMessage == -1

VARIABLES
    requestID,     \* stream.requestID
    requests,      \* stream.requests, as ids
    responseType,  \* responseType[r]
    sendPC,            \* sendPC[r]: where Send r is
    channel,       \* channel[r]: what the channel of request r holds
    closed,        \* requests whose channel is closed
    wire,          \* answers of the peer that are on their way
    result,        \* result[r]: what Send r returned
    disturbed      \* history: types of a Send that failed or overlapped another

streamVars == <<requestID, requests, responseType, sendPC, channel, closed, wire, result, disturbed>>

Active == {r \in Sends : sendPC[r] \in {"registered", "waiting", "failing"}}

StreamInit ==
    /\ requestID = 0
    /\ requests = <<>>
    /\ responseType \in [Sends -> Types]
    /\ sendPC = [r \in Sends |-> "new"]
    /\ channel = [r \in Sends |-> NoMessage]
    /\ closed = {}
    /\ wire = <<>>
    /\ result = [r \in Sends |-> NoMessage]
    /\ disturbed = {}

-----------------------------------------------------------------------------
\* Fault: an answered request stays in the list.
KeepRequest(id) ==
    /\ requests' = requests
    /\ closed' = closed

\* Ids are unique: the loop keeps all requests, or all but one.
deleteRequest(id) ==
    \/ /\ \A k \in 1 .. Len(requests) : requests[k] # id
       /\ UNCHANGED <<requests, closed>>
    \/ \E k \in 1 .. Len(requests) :
          /\ requests[k] = id
          /\ requests' = RemoveAt(requests, k)
          /\ closed' = closed \union {id}

(***************************************************************************)
(* Send, first critical section: register the request.                     *)
(***************************************************************************)
Register ==
    /\ requestID < MaxSends
    /\ requests' = Append(requests, requestID)
    /\ sendPC' = [sendPC EXCEPT ![requestID] = "registered"]
    /\ requestID' = requestID + 1
    /\ disturbed' = disturbed \union
          ({responseType[r] : r \in Active} \intersect {responseType[requestID]})
    /\ UNCHANGED <<responseType, channel, closed, wire, result>>

(***************************************************************************)
(* sendFunc, outside the mutex: it fails, or the peer gets the request and *)
(* answers it or does not.                                                 *)
(***************************************************************************)
SendRequest(r) ==
    /\ sendPC[r] = "registered"
    /\ \/ /\ sendPC' = [sendPC EXCEPT ![r] = "waiting"]
          /\ wire' \in {wire, Append(wire, r)}
          /\ UNCHANGED disturbed
       \/ /\ sendPC' = [sendPC EXCEPT ![r] = "failing"]
          /\ disturbed' = disturbed \union {responseType[r]}
          /\ UNCHANGED wire
    /\ UNCHANGED <<requestID, requests, responseType, channel, closed, result>>

(***************************************************************************)
(* The select: the response, or the end of the context, or either when     *)
(* both are there.                                                         *)
(***************************************************************************)
ReceiveResponse(r) ==
    /\ sendPC[r] = "waiting"
    /\ channel[r] # NoMessage
    /\ result' = [result EXCEPT ![r] = channel[r]]
    /\ channel' = [channel EXCEPT ![r] = NoMessage]
    /\ sendPC' = [sendPC EXCEPT ![r] = "returned"]
    /\ UNCHANGED <<requestID, requests, responseType, closed, wire, disturbed>>

SendContextDone(r) ==
    /\ sendPC[r] = "waiting"
    /\ sendPC' = [sendPC EXCEPT ![r] = "failing"]
    /\ disturbed' = disturbed \union {responseType[r]}
    /\ UNCHANGED <<requestID, requests, responseType, channel, closed, wire, result>>

\* Fault: the most recent request is deleted.
LastRequestID(r) == requestID - 1

(***************************************************************************)
(* The deferred function of a Send that failed deletes the request whose   *)
(* id is stream.requestID, the id of the next request.                     *)
(***************************************************************************)
DeletedID(r) == requestID

CleanUp(r) ==
    /\ sendPC[r] = "failing"
    /\ deleteRequest(DeletedID(r))
    /\ sendPC' = [sendPC EXCEPT ![r] = "failed"]
    /\ UNCHANGED <<requestID, responseType, channel, wire, result, disturbed>>

(***************************************************************************)
(* ProcessMessages: the first request that expects the message's type gets *)
(* it and is deleted; a message nobody expects is left to the caller.      *)
(***************************************************************************)

\* Fault: the type is not compared.
MatchesAny(m) == 1 .. Len(requests)

Matches(m) == {k \in 1 .. Len(requests) : responseType[requests[k]] = responseType[m]}

ProcessMessages ==
    /\ wire # <<>>
    /\ LET m == Head(wire) IN
       \/ /\ Matches(m) = {}
          /\ UNCHANGED <<requests, channel, closed>>
       \/ \E k \in Matches(m) :
             /\ \A j \in Matches(m) : k <= j
             /\ channel' = [channel EXCEPT ![requests[k]] = m]
             /\ deleteRequest(requests[k])
    /\ wire' = Tail(wire)
    /\ UNCHANGED <<requestID, responseType, sendPC, result, disturbed>>

StreamNext ==
    \/ Register
    \/ ProcessMessages
    \/ \E r \in Sends :
          SendRequest(r) \/ ReceiveResponse(r) \/ SendContextDone(r) \/ CleanUp(r)

StreamSpec == StreamInit /\ [][StreamNext]_streamVars

-----------------------------------------------------------------------------
(***************************************************************************)
(* Properties                                                              *)
(***************************************************************************)

\* Types of the stream's fields and of the calls of Send.
StreamTypeOK ==
    /\ requestID \in 0 .. MaxSends
    /\ requests \in Seq(Sends)
    /\ responseType \in [Sends -> Types]
    /\ sendPC \in [Sends -> {"new", "registered", "waiting", "failing", "returned", "failed"}]
    /\ channel \in [Sends -> Sends \union {NoMessage}]
    /\ closed \subseteq Sends
    /\ wire \in Seq(Sends)
    /\ result \in [Sends -> Sends \union {NoMessage}]
    /\ disturbed \subseteq Types

\* ProcessMessages sends to a channel while it holds the mutex.  The channel of
\* a request that is still in the list is open and empty, whatever became of
\* its Send, so the send neither panics nor blocks everyone else.
SendNeverBlocks ==
    \A k \in 1 .. Len(requests) :
        requests[k] \notin closed /\ channel[requests[k]] = NoMessage

\* A waiting Send is still going to be answered: it is in the list, or its
\* channel holds the response.  No other call takes its place away.
WaitingIsServed ==
    \A r \in Sends : sendPC[r] = "waiting" =>
        r \in ToSet(requests) \/ channel[r] # NoMessage

\* A Send that waits can be answered: ProcessMessages does not block on the
\* requests before it and finds the Send's own request.
WaitingCanBeAnswered == SendNeverBlocks /\ WaitingIsServed

\* Responses are matched by type and order only.  As long as the Sends of a type
\* neither fail nor overlap, each returns the response to its own request.
UndisturbedGetsOwnResponse ==
    \A r \in Sends :
        result[r] # NoMessage /\ responseType[r] \notin disturbed => result[r] = r

\* "Send stream error", "Wrong response received": the response to a request
\* whose Send waits for it, alone with its type, reaches that Send.
ResponseReachesSender ==
    [][\A r \in Active :
          /\ wire # <<>> /\ Head(wire) = r /\ wire' = Tail(wire)
          /\ sendPC[r] = "waiting"
          /\ \A q \in Active \ {r} : responseType[q] # responseType[r]
          => channel'[r] = r]_streamVars

=============================================================================
