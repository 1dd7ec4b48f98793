------------------------------ MODULE IAMClient ------------------------------
(***************************************************************************)
(* iamclient/iamclient.go: the client's connection to the IAM server.      *)
(* Each subscription is a stream with a goroutine that reads it and hands  *)
(* the messages to its listener under the client's mutex.  When a stream   *)
(* breaks its goroutine starts reconnect, which replaces the connection    *)
(* and restores the subscriptions; Close ends all of it.                   *)
(*                                                                         *)
(* A subscription has one listener, a channel of capacity one.  The        *)
(* listener of CertSub is read by processCertChange, the others by their   *)
(* owners.  The remote procedure calls of the client (GetNodeInfo,         *)
(* RegisterInstance, ...) appear as what they do here: they hold the mutex *)
(* until they return, at the latest when iamRequestTimeout is over.        *)
(***************************************************************************)
EXTENDS Integers, FiniteSets

CONSTANTS
    NewSubs,      \* subscriptions that New makes
    LateSubs,     \* certificate types that are subscribed to later
    CertSub,      \* the subscription to the client's own certificate
    MaxBreaks,    \* bound: how often the streams break
    MaxFailures,  \* bound: how often a connection or a stream can't be opened
    EarlyBreaks,  \* whether streams may break while they are being restored
    Nobody, Closer, Caller

Subs == NewSubs \union LateSubs

ASSUME ConstantsAssumption ==
    /\ CertSub \in NewSubs
    /\ MaxBreaks \in Nat
    /\ MaxFailures \in Nat
    /\ EarlyBreaks \in BOOLEAN
    /\ {Nobody, Closer, Caller} \intersect Subs = {}

VARIABLES
    mutex,           \* who holds the client's mutex
    conn,            \* publicConnection: "nil", "open" or "closed"
    subscribed,      \* subscriptions the client keeps
    stream,          \* stream[s]: "none", "open" or "broken"
    reader,          \* reader[s]: where the goroutine that reads s is
    full,            \* subscriptions whose listener holds a message
    listening,       \* subscriptions whose listener is in the list
    closing,         \* closeChannel is closed
    isReconnecting,
    reconnectWG,     \* counter of reconnectWG
    reconnectPC,     \* where the goroutine reconnect is
    toRestore,       \* subscriptions reconnect has not restored yet
    certPC,          \* where processCertChange is
    closePC,         \* where New and, later, Close is
    breaks, failures,
    doubleReader,    \* a second goroutine was started for a subscription
    panicked

subVars == <<subscribed, stream, reader, full, listening, doubleReader>>
recVars == <<isReconnecting, reconnectWG, reconnectPC, toRestore>>
envVars == <<breaks, failures>>

vars == <<mutex, conn, subVars, closing, recVars, certPC, closePC, envVars, panicked>>

Init ==
    /\ mutex = Nobody
    /\ conn = "nil"
    /\ subscribed = {}
    /\ stream = [s \in Subs |-> "none"]
    /\ reader = [s \in Subs |-> "none"]
    /\ full = {}
    /\ listening = {}
    /\ closing = FALSE
    /\ isReconnecting = TRUE
    /\ reconnectWG = 0
    /\ reconnectPC = "none"
    /\ toRestore = {}
    /\ certPC = "none"
    /\ closePC = "connect"
    /\ breaks = 0
    /\ failures = 0
    /\ doubleReader = FALSE
    /\ panicked = FALSE

-----------------------------------------------------------------------------
(***************************************************************************)
(* The network.                                                            *)
(***************************************************************************)
Broken(st) == [s \in Subs |-> IF st[s] = "open" THEN "broken" ELSE st[s]]

BreakStreams ==
    /\ breaks < MaxBreaks
    /\ EarlyBreaks \/ ~ isReconnecting
    /\ \E s \in Subs : stream[s] = "open"
    /\ stream' = Broken(stream)
    /\ breaks' = breaks + 1
    /\ UNCHANGED <<mutex, conn, subscribed, reader, full, listening, doubleReader, closing,
                   recVars, certPC, closePC, failures, panicked>>

Fails ==
    /\ failures < MaxFailures
    /\ failures' = failures + 1
    /\ UNCHANGED breaks

Succeeds == UNCHANGED envVars

(***************************************************************************)
(* subscribeNodeInfoChange, subscribeUnitSubjectsChange,                   *)
(* SubscribeCertChanged and restoreCertInfoSubs: a stream and a goroutine  *)
(* that reads it.                                                          *)
(***************************************************************************)
StartReader(s) ==
    /\ subscribed' = subscribed \union {s}
    /\ stream' = [stream EXCEPT ![s] = "open"]
    /\ reader' = [reader EXCEPT ![s] = "recv"]
    /\ doubleReader' = (doubleReader \/ reader[s] # "none")

(***************************************************************************)
(* New connects, asks who it is, and subscribes, to its certificate last,  *)
(* while isReconnecting disables reconnect; if it fails it closes the      *)
(* client.                                                                 *)
(***************************************************************************)
NewConnect ==
    /\ closePC = "connect"
    /\ conn' = "open"
    /\ closePC' = "nodeInfo"
    /\ UNCHANGED <<mutex, subVars, closing, recVars, certPC, envVars, panicked>>

\* The remote calls of New, which take no mutex; the second one on the main node.
GetCurrentNodeInfo ==
    /\ closePC = "nodeInfo"
    /\ closePC' = "systemID"
    /\ UNCHANGED <<mutex, conn, subVars, closing, recVars, certPC, envVars, panicked>>

getSystemID ==
    /\ closePC = "systemID"
    /\ closePC' = "new"
    /\ UNCHANGED <<mutex, conn, subVars, closing, recVars, certPC, envVars, panicked>>

NewSubscribe(s) ==
    /\ closePC = "new"
    /\ s \in NewSubs \ subscribed
    /\ s = CertSub => mutex = Nobody /\ NewSubs \ subscribed = {s}
    /\ StartReader(s)
    /\ listening' = listening \union ({s} \intersect {CertSub})
    /\ Succeeds
    /\ UNCHANGED <<mutex, conn, full, closing, recVars, certPC, closePC, panicked>>

NewFails ==
    /\ closePC \in {"connect", "nodeInfo", "systemID", "new"}
    /\ Fails
    /\ closing' = TRUE
    /\ closePC' = "wait"
    /\ UNCHANGED <<mutex, conn, subVars, recVars, certPC, panicked>>

NewReturns ==
    /\ closePC = "new"
    /\ NewSubs \subseteq subscribed
    /\ isReconnecting' = FALSE
    /\ certPC' = "select"
    /\ closePC' = "open"
    /\ UNCHANGED <<mutex, conn, subVars, closing, reconnectWG, reconnectPC, toRestore,
                   envVars, panicked>>

-----------------------------------------------------------------------------
(***************************************************************************)
(* onConnectionLost: first the look at closeChannel, then, as a step of    *)
(* its own, the swap of isReconnecting and the start of reconnect.         *)
(***************************************************************************)

\* Fault: isReconnecting is set but not looked at.
SwapAlways ==
    /\ isReconnecting' = TRUE
    /\ reconnectWG' = reconnectWG + 1
    /\ reconnectPC' = "select"
    /\ UNCHANGED toRestore

CompareAndSwap ==
    \/ /\ ~ isReconnecting
       /\ isReconnecting' = TRUE
       /\ reconnectWG' = reconnectWG + 1
       /\ reconnectPC' = "select"
       /\ UNCHANGED toRestore
    \/ isReconnecting /\ UNCHANGED recVars

(***************************************************************************)
(* processNodeInfoChange, processUnitSubjectsChange and                    *)
(* processCertInfoChange                                                   *)
(***************************************************************************)
ReaderVars == <<conn, subscribed, stream, doubleReader, listening, closing, certPC, closePC,
                envVars, panicked>>

RecvMessage(s) ==
    /\ reader[s] = "recv" /\ stream[s] = "open"
    /\ reader' = [reader EXCEPT ![s] = "lock"]
    /\ UNCHANGED <<mutex, full, recVars, ReaderVars>>

RecvError(s) ==
    /\ reader[s] = "recv" /\ stream[s] = "broken"
    /\ reader' = [reader EXCEPT ![s] = "lost"]
    /\ UNCHANGED <<mutex, full, recVars, ReaderVars>>

LockForDelivery(s) ==
    /\ reader[s] = "lock"
    /\ mutex = Nobody
    /\ mutex' = s
    /\ reader' = [reader EXCEPT ![s] = "send"]
    /\ UNCHANGED <<full, recVars, ReaderVars>>

\* Fault: the mutex stays locked.
ReleaseNothing == mutex' = mutex

Release == mutex' = Nobody

Deliver(s) ==
    /\ reader[s] = "send"
    /\ s \in listening => s \notin full
    /\ full' = full \union ({s} \intersect listening)
    /\ Release
    /\ reader' = [reader EXCEPT ![s] = "recv"]
    /\ UNCHANGED <<recVars, ReaderVars>>

ReaderLost(s) ==
    /\ reader[s] = "lost"
    /\ reader' = [reader EXCEPT ![s] = IF closing THEN "none" ELSE "swap"]
    /\ UNCHANGED <<mutex, full, recVars, ReaderVars>>

ReaderSwap(s) ==
    /\ reader[s] = "swap"
    /\ CompareAndSwap
    /\ reader' = [reader EXCEPT ![s] = "none"]
    /\ UNCHANGED <<mutex, full, ReaderVars>>

ReaderStep(s) ==
    RecvError(s) \/ LockForDelivery(s) \/ Deliver(s) \/ ReaderLost(s) \/ ReaderSwap(s)

(***************************************************************************)
(* processCertChange: a new certificate means a new connection.            *)
(***************************************************************************)
CertVars == <<mutex, conn, subscribed, stream, reader, doubleReader, listening, closing,
              closePC, envVars, panicked>>

CertClosed ==
    /\ certPC = "select" /\ closing
    /\ certPC' = "none"
    /\ UNCHANGED <<full, recVars, CertVars>>

CertChanged ==
    /\ certPC = "select" /\ CertSub \in full
    /\ full' = full \ {CertSub}
    /\ certPC' = "lost"
    /\ UNCHANGED <<recVars, CertVars>>

CertLost ==
    /\ certPC = "lost"
    /\ certPC' = IF closing THEN "select" ELSE "swap"
    /\ UNCHANGED <<full, recVars, CertVars>>

CertSwap ==
    /\ certPC = "swap"
    /\ CompareAndSwap
    /\ certPC' = "select"
    /\ UNCHANGED <<full, CertVars>>

processCertChange == CertClosed \/ CertChanged \/ CertLost \/ CertSwap

ReadListener(s) ==
    /\ s \in full \ {CertSub}
    /\ full' = full \ {s}
    /\ UNCHANGED <<mutex, conn, subscribed, stream, reader, listening, doubleReader, closing,
                   recVars, certPC, closePC, envVars, panicked>>

-----------------------------------------------------------------------------
(***************************************************************************)
(* reconnect: the select sees closeChannel or the timer, either when both  *)
(* are ready; closeGRPCConnection stops the connection and waits for the   *)
(* goroutines; openGRPCConnection restores the subscriptions, and closes   *)
(* the new connection if one step fails.                                   *)
(***************************************************************************)
RecVars == <<mutex, full, listening, closing, certPC, closePC>>

ReconnectClosed ==
    /\ reconnectPC = "select" /\ closing
    /\ isReconnecting' = TRUE
    /\ reconnectPC' = "none"
    /\ reconnectWG' = reconnectWG - 1
    /\ UNCHANGED <<conn, subscribed, stream, reader, doubleReader, toRestore, envVars,
                   panicked, RecVars>>

Stop ==
    /\ conn' = "nil"
    /\ stream' = Broken(stream)

ReconnectStop ==
    /\ reconnectPC = "select"
    /\ Stop
    /\ reconnectPC' = "wait"
    /\ UNCHANGED <<subscribed, reader, doubleReader, isReconnecting, reconnectWG, toRestore,
                   envVars, panicked, RecVars>>

\* Fault: the goroutines of the old streams are not waited for.
WaitForNobody == TRUE

ReadersStopped == \A s \in subscribed : reader[s] = "none"

ReconnectWait ==
    /\ reconnectPC = "wait"
    /\ ReadersStopped
    /\ reconnectPC' = "open"
    /\ UNCHANGED <<conn, subscribed, stream, reader, doubleReader, isReconnecting, reconnectWG,
                   toRestore, envVars,
                   panicked, RecVars>>

\* Fault: the subscriptions to certificates are forgotten.
RestoreNodeSubs == subscribed \ {CertSub}

restorePublicSubs == subscribed

ReconnectOpen ==
    /\ reconnectPC = "open"
    /\ \/ /\ Succeeds
          /\ conn' = "open"
          /\ toRestore' = restorePublicSubs
          /\ reconnectPC' = "restore"
       \/ /\ Fails
          /\ reconnectPC' = "select"
          /\ UNCHANGED <<conn, toRestore>>
    /\ UNCHANGED <<subscribed, stream, reader, doubleReader, isReconnecting, reconnectWG,
                   panicked, RecVars>>

CloseNewConnection ==
    /\ conn' = IF conn = "nil" THEN "nil" ELSE "closed"
    /\ stream' = Broken(stream)

ReconnectRestore(s) ==
    /\ reconnectPC = "restore"
    /\ s \in toRestore
    /\ \/ /\ conn = "open" /\ Succeeds
          /\ StartReader(s)
          /\ toRestore' = toRestore \ {s}
          /\ UNCHANGED <<conn, reconnectPC, panicked>>
       \/ /\ conn = "open" /\ Fails
          /\ CloseNewConnection
          /\ toRestore' = {}
          /\ reconnectPC' = "select"
          /\ UNCHANGED <<subscribed, reader, doubleReader, panicked>>
       \/ /\ conn = "nil" /\ Succeeds
          /\ panicked' = TRUE
          /\ UNCHANGED <<conn, subscribed, stream, reader, doubleReader, toRestore, reconnectPC>>
    /\ UNCHANGED <<isReconnecting, reconnectWG, RecVars>>

\* The protected connection is the last step that can fail.
ReconnectProtected ==
    /\ reconnectPC = "restore"
    /\ toRestore = {}
    /\ \/ /\ Succeeds
          /\ reconnectPC' = "store"
          /\ UNCHANGED <<conn, stream>>
       \/ /\ Fails
          /\ CloseNewConnection
          /\ reconnectPC' = "select"
    /\ UNCHANGED <<subscribed, reader, doubleReader, isReconnecting, reconnectWG, toRestore,
                   panicked, RecVars>>

ReconnectStore ==
    /\ reconnectPC = "store"
    /\ isReconnecting' = FALSE
    /\ reconnectPC' = "none"
    /\ reconnectWG' = reconnectWG - 1
    /\ UNCHANGED <<conn, subscribed, stream, reader, doubleReader, toRestore, envVars,
                   panicked, RecVars>>

reconnect ==
    \/ ReconnectClosed \/ ReconnectStop \/ ReconnectWait \/ ReconnectOpen
    \/ \E s \in Subs : ReconnectRestore(s)
    \/ ReconnectProtected \/ ReconnectStore

-----------------------------------------------------------------------------
(***************************************************************************)
(* A request of the client's user (GetNodeInfo, PauseNode,                 *)
(* RegisterInstance, ...): it holds the mutex until the remote call        *)
(* returns.                                                                *)
(***************************************************************************)
CallLock ==
    /\ closePC = "open"
    /\ mutex = Nobody
    /\ mutex' = Caller
    /\ UNCHANGED <<conn, subVars, closing, recVars, certPC, closePC, envVars, panicked>>

CallReturns ==
    /\ mutex = Caller
    /\ mutex' = Nobody
    /\ UNCHANGED <<conn, subVars, closing, recVars, certPC, closePC, envVars, panicked>>

Request == CallLock \/ CallReturns

(***************************************************************************)
(* SubscribeNodeInfoChange, SubscribeUnitSubjectsChanged, and              *)
(* SubscribeCertChanged of a known type: a new, empty channel.             *)
(***************************************************************************)
AddListener(s) ==
    /\ closePC = "open"
    /\ mutex = Nobody
    /\ s \in subscribed \ listening
    /\ listening' = listening \union {s}
    /\ full' = full \ {s}
    /\ UNCHANGED <<mutex, conn, subscribed, stream, reader, doubleReader, closing,
                   recVars, certPC, closePC, envVars, panicked>>

(***************************************************************************)
(* SubscribeCertChanged of a new type opens a stream, which NewStream of   *)
(* GRPCConn does on whatever connection there is.                          *)
(***************************************************************************)
SubscribeCertChanged(s) ==
    /\ closePC = "open"
    /\ mutex = Nobody
    /\ s \in LateSubs \ subscribed
    /\ \/ /\ conn = "nil"
          /\ panicked' = TRUE
          /\ UNCHANGED subVars
       \/ /\ conn = "open"
          /\ StartReader(s)
          /\ listening' = listening \union {s}
          /\ UNCHANGED <<full, panicked>>
    /\ UNCHANGED <<mutex, conn, closing, recVars, certPC, closePC, envVars>>

UnsubscribeCertChanged(s) ==
    /\ closePC = "open"
    /\ mutex = Nobody
    /\ s \in listening \intersect LateSubs
    /\ listening' = listening \ {s}
    /\ UNCHANGED <<mutex, conn, subscribed, stream, reader, full, doubleReader, closing,
                   recVars, certPC, closePC, envVars, panicked>>

(***************************************************************************)
(* Close: close closeChannel, wait for reconnect, lock the mutex, stop the *)
(* connection and wait for the goroutines with the mutex held.             *)
(***************************************************************************)
CloseStart ==
    /\ closePC = "open"
    /\ closing' = TRUE
    /\ closePC' = "wait"
    /\ UNCHANGED <<mutex, conn, subVars, recVars, certPC, envVars, panicked>>

CloseWait ==
    /\ closePC = "wait"
    /\ reconnectWG = 0
    /\ closePC' = "lock"
    /\ UNCHANGED <<mutex, conn, subVars, closing, recVars, certPC, envVars, panicked>>

CloseStop ==
    /\ closePC = "lock"
    /\ mutex = Nobody
    /\ mutex' = Closer
    /\ isReconnecting' = TRUE
    /\ Stop
    /\ closePC' = "stop"
    /\ UNCHANGED <<subscribed, reader, full, listening, doubleReader, closing, reconnectWG,
                   reconnectPC, toRestore, certPC, envVars, panicked>>

CloseReturns ==
    /\ closePC = "stop"
    /\ ReadersStopped
    /\ Release
    /\ closePC' = "closed"
    /\ UNCHANGED <<conn, subVars, closing, recVars, certPC, envVars, panicked>>

close == CloseWait \/ CloseStop \/ CloseReturns

Next ==
    /\ ~ panicked
    /\ \/ BreakStreams
       \/ NewConnect \/ GetCurrentNodeInfo \/ getSystemID \/ NewFails \/ NewReturns
       \/ \E s \in Subs :
             \/ NewSubscribe(s) \/ RecvMessage(s) \/ ReaderStep(s) \/ ReadListener(s)
             \/ AddListener(s) \/ SubscribeCertChanged(s) \/ UnsubscribeCertChanged(s)
       \/ processCertChange
       \/ reconnect
       \/ Request
       \/ CloseStart \/ close

Spec == Init /\ [][Next]_vars

(***************************************************************************)
(* Every goroutine is scheduled; sync.Mutex hands itself to a goroutine    *)
(* that waits for long, so fairness of its users is strong.  Remote calls  *)
(* end (iamRequestTimeout), New goes on, and listeners are read.           *)
(***************************************************************************)
FairSpec ==
    /\ Spec
    /\ \A s \in Subs :
          /\ SF_vars(~ panicked /\ ReaderStep(s))
          /\ WF_vars(~ panicked /\ ReadListener(s))
          /\ WF_vars(~ panicked /\ NewSubscribe(s))
    /\ WF_vars(~ panicked /\ (NewConnect \/ GetCurrentNodeInfo \/ getSystemID \/ NewReturns))
    /\ WF_vars(~ panicked /\ processCertChange)
    /\ WF_vars(~ panicked /\ reconnect)
    /\ WF_vars(~ panicked /\ CallReturns)
    /\ SF_vars(~ panicked /\ close)

-----------------------------------------------------------------------------
(***************************************************************************)
(* Properties                                                              *)
(***************************************************************************)

\* Types of the client's fields.
TypeOK ==
    /\ mutex \in Subs \union {Nobody, Closer, Caller}
    /\ conn \in {"nil", "open", "closed"}
    /\ subscribed \subseteq Subs
    /\ stream \in [Subs -> {"none", "open", "broken"}]
    /\ reader \in [Subs -> {"none", "recv", "lock", "send", "lost", "swap"}]
    /\ full \subseteq Subs
    /\ listening \subseteq Subs
    /\ closing \in BOOLEAN
    /\ isReconnecting \in BOOLEAN
    /\ reconnectWG \in {0, 1}
    /\ reconnectPC \in {"none", "select", "wait", "open", "restore", "store"}
    /\ toRestore \subseteq subscribed
    /\ certPC \in {"none", "select", "lost", "swap"}
    /\ closePC \in {"connect", "nodeInfo", "systemID", "new", "open", "wait", "lock", "stop", "closed"}
    /\ breaks \in 0 .. MaxBreaks
    /\ failures \in 0 .. MaxFailures
    /\ doubleReader \in BOOLEAN
    /\ panicked \in BOOLEAN

\* However many goroutines lose the connection at once, one reconnect runs, it
\* is the one that is counted, and it runs only while isReconnecting is set.
OneReconnect ==
    /\ reconnectWG = IF reconnectPC = "none" THEN 0 ELSE 1
    /\ reconnectPC # "none" => isReconnecting

\* A stream has one reader: reconnect restores a subscription only when the
\* goroutine of the old stream has ended.
OneReaderPerStream == ~ doubleReader

\* Both of the above: goroutines that lose the connection together do not double
\* the reconnection or the readers.
NothingDoubled == OneReconnect /\ OneReaderPerStream

\* A subscription whose goroutine has ended is restored, through any number of
\* failed attempts, unless the client is closed or the process has crashed.
LostSubscriptionRestored ==
    \A s \in NewSubs :
        closePC = "open" /\ reader[s] = "none"
            ~> closePC # "open" \/ reader[s] # "none" \/ panicked

\* Close returns, unless it meets one of three races: it holds the mutex that a
\* reader with a message waits for and waits for the reader; the reader of the
\* certificate holds the mutex and its listener, full, is not read any more;
\* a reconnect that began after Close runs beside it.
CloseReturnsUnlessRaced ==
    closePC = "wait" ~>
        \/ closePC = "closed" \/ panicked
        \/ mutex = Closer /\ \E s \in subscribed : reader[s] = "lock"
        \/ mutex = CertSub /\ CertSub \in full /\ certPC = "none"
        \/ closePC = "stop" /\ reconnectPC # "none"

\* "Close closes IAM client": it returns.
CloseTerminates == closePC = "wait" ~> closePC = "closed"

\* "Disconnected from IAM": when Close has returned there is no connection.
ClosedMeansDisconnected == closePC = "closed" => conn # "open"

\* "blocks all incoming requests for stopped connection": a subscription made
\* while the connection is replaced does not find a nil connection.
SubscribeDoesNotPanic == ~ panicked

=============================================================================
