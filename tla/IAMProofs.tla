----------------------------- MODULE IAMProofs -----------------------------
(***************************************************************************)
(* Theorems about the connection of the IAM client (iamclient), for any    *)
(* set of subscriptions and any number of broken streams and failed        *)
(* attempts to connect, about the crypto context (utils/cryptutils) whose  *)
(* certificates and keys it connects with, for any number of users and     *)
(* tokens, about the requests of the client that take several remote       *)
(* calls, for any number of nodes, certificate types and certificates,     *)
(* about the keys of a TPM (tpmkey), the files of certificates and keys    *)
(* (utils/cryptutils) and generated certificates (utils/testtools).        *)
(***************************************************************************)
EXTENDS IAMClient, MCCertificates, CommonLemmas, TLAPS

-----------------------------------------------------------------------------
(***************************************************************************)
(* The connection: the inductive invariant                                 *)
(***************************************************************************)

InNew == {"connect", "nodeInfo", "systemID", "new"}

\* The types of the variables that reconnect, New and the readers work with.
CoreTypes ==
    /\ conn \in {"nil", "open", "closed"}
    /\ subscribed \subseteq Subs
    /\ reader \in [Subs -> {"none", "recv", "lock", "send", "lost", "swap"}]
    /\ isReconnecting \in BOOLEAN
    /\ reconnectPC \in {"none", "select", "wait", "open", "restore", "store"}
    /\ toRestore \subseteq Subs
    /\ closePC \in InNew \union {"open", "wait", "lock", "stop", "closed"}

\* New holds isReconnecting until it has subscribed, so nothing reconnects beside it.
NewIsAlone == closePC \in InNew => isReconnecting /\ reconnectPC = "none"

\* A goroutine reads a stream of a subscription the client keeps.
ReadersSubscribed == \A s \in Subs : reader[s] # "none" => s \in subscribed

\* From the stop of the connection until it is open again nobody can open a stream,
\* and what is still to be restored was subscribed before and has no reader.
RestoredHaveNoReader ==
    /\ reconnectPC \in {"wait", "open"} => conn = "nil"
    /\ reconnectPC = "open" => \A s \in Subs : reader[s] = "none"
    /\ reconnectPC = "restore" =>
          toRestore \subseteq subscribed /\ \A s \in toRestore : reader[s] = "none"

ReconnectInv ==
    /\ CoreTypes
    /\ NewIsAlone
    /\ ReadersSubscribed
    /\ RestoredHaveNoReader
    /\ NothingDoubled

coreVars == <<conn, subscribed, reader, doubleReader, recVars, closePC>>

-----------------------------------------------------------------------------
(***************************************************************************)
(* Lemmas: what the actions do to the invariant                            *)
(***************************************************************************)

LEMMA InitInv == Init => ReconnectInv
<1> SUFFICES ASSUME Init PROVE ReconnectInv
  OBVIOUS
<1>1. isReconnecting \in BOOLEAN /\ isReconnecting /\ ~ doubleReader
  BY Zenon DEF Init
<1>2. CoreTypes
  BY <1>1 DEF Init, CoreTypes, InNew
<1> QED BY <1>1, <1>2 DEF Init, ReconnectInv, NewIsAlone, ReadersSubscribed, RestoredHaveNoReader,
               NothingDoubled, OneReconnect, OneReaderPerStream

\* Steps of the network, the listeners and the calls that hold the mutex.
LEMMA OtherStepInv == ReconnectInv /\ UNCHANGED coreVars => ReconnectInv'
BY DEF coreVars, recVars, ReconnectInv, CoreTypes, NewIsAlone, ReadersSubscribed,
       RestoredHaveNoReader, NothingDoubled, OneReconnect, OneReaderPerStream

\* The goroutine of a stream goes on, or ends.
LEMMA ReaderMovesInv ==
    ASSUME ReconnectInv, NEW s \in Subs, reader[s] # "none",
           NEW p \in {"none", "recv", "lock", "send", "lost", "swap"},
           reader' = [reader EXCEPT ![s] = p],
           UNCHANGED <<conn, subscribed, doubleReader, recVars, closePC>>
    PROVE  ReconnectInv'
BY DEF recVars, ReconnectInv, CoreTypes, NewIsAlone, ReadersSubscribed, RestoredHaveNoReader,
       NothingDoubled, OneReconnect, OneReaderPerStream

\* New and Close go from one place to the next, past the places of New.
LEMMA PlaceInv ==
    ASSUME ReconnectInv,
           NEW p \in InNew \union {"open", "wait", "lock", "stop", "closed"},
           p \in InNew => closePC \in InNew,
           closePC' = p,
           UNCHANGED <<conn, subscribed, reader, doubleReader, recVars>>
    PROVE  ReconnectInv'
BY DEF recVars, ReconnectInv, CoreTypes, NewIsAlone, ReadersSubscribed, RestoredHaveNoReader,
       NothingDoubled, OneReconnect, OneReaderPerStream

\* A stream is opened for a subscription without a reader, while no reconnect is
\* between the end of the readers and the new connection.
LEMMA StartReaderInv ==
    ASSUME ReconnectInv, NEW s \in Subs, StartReader(s),
           reader[s] = "none",
           reconnectPC # "open",
           reconnectPC = "restore" => s \notin toRestore',
           toRestore' \subseteq toRestore,
           UNCHANGED <<conn, isReconnecting, reconnectWG, reconnectPC, closePC>>
    PROVE  ReconnectInv'
<1>0. /\ subscribed' = subscribed \union {s}
      /\ reader' = [reader EXCEPT ![s] = "recv"]
  BY DEF StartReader
<1>1. ~ doubleReader'
  BY DEF StartReader, ReconnectInv, NothingDoubled, OneReaderPerStream
<1>2. CoreTypes'
  BY <1>0 DEF ReconnectInv, CoreTypes
<1>3. NewIsAlone' /\ OneReconnect'
  BY DEF ReconnectInv, NewIsAlone, NothingDoubled, OneReconnect
<1>4. ReadersSubscribed'
  BY <1>0 DEF ReconnectInv, CoreTypes, ReadersSubscribed
<1>5. RestoredHaveNoReader'
  <2>1. reconnectPC = "restore" => \A q \in toRestore' : q \in Subs /\ q # s /\ reader[q] = "none"
    BY DEF ReconnectInv, CoreTypes, RestoredHaveNoReader
  <2> QED BY <1>0, <2>1 DEF ReconnectInv, CoreTypes, RestoredHaveNoReader
<1> QED BY <1>1, <1>2, <1>3, <1>4, <1>5 DEF ReconnectInv, NothingDoubled, OneReaderPerStream

\* The swap of isReconnecting starts one reconnect, however many goroutines try;
\* a goroutine that read a stream ends with it.
LEMMA SwapInv ==
    ASSUME ReconnectInv, CompareAndSwap,
           reader' \in [Subs -> {"none", "recv", "lock", "send", "lost", "swap"}],
           \A s \in Subs : reader'[s] # "none" => reader[s] # "none",
           UNCHANGED <<conn, subscribed, doubleReader, closePC>>
    PROVE  ReconnectInv'
<1>1. CASE isReconnecting /\ UNCHANGED recVars
  BY <1>1 DEF recVars, ReconnectInv, CoreTypes, NewIsAlone, ReadersSubscribed, RestoredHaveNoReader,
              NothingDoubled, OneReconnect, OneReaderPerStream
<1>2. CASE /\ ~ isReconnecting
           /\ isReconnecting' = TRUE
           /\ reconnectWG' = reconnectWG + 1
           /\ reconnectPC' = "select"
           /\ UNCHANGED toRestore
  <2>1. isReconnecting' \in BOOLEAN /\ isReconnecting'
    BY <1>2, Zenon
  <2>2. reconnectPC = "none" /\ reconnectWG = 0 /\ closePC \notin InNew
    BY <1>2 DEF ReconnectInv, NewIsAlone, NothingDoubled, OneReconnect
  <2>3. reconnectWG' = 1
    BY <1>2, <2>2
  <2>4. CoreTypes'
    BY <1>2, <2>1 DEF ReconnectInv, CoreTypes
  <2> QED BY <1>2, <2>1, <2>2, <2>3, <2>4
          DEF ReconnectInv, NewIsAlone, ReadersSubscribed, RestoredHaveNoReader, NothingDoubled,
              OneReconnect, OneReaderPerStream
<1> QED BY <1>1, <1>2 DEF CompareAndSwap

\* reconnect goes from one place to the next: it stays counted.
LEMMA ReconnectPlaceInv ==
    ASSUME ReconnectInv, reconnectPC # "none",
           NEW p \in {"select", "wait", "open", "restore", "store"},
           reconnectPC' = p,
           conn' \in {"nil", "open", "closed"},
           toRestore' \subseteq Subs,
           RestoredHaveNoReader',
           UNCHANGED <<subscribed, reader, doubleReader, isReconnecting, reconnectWG, closePC>>
    PROVE  ReconnectInv'
BY DEF ReconnectInv, CoreTypes, NewIsAlone, ReadersSubscribed, NothingDoubled, OneReconnect,
       OneReaderPerStream

\* reconnect ends, and is not counted any more.
LEMMA ReconnectEndsInv ==
    ASSUME ReconnectInv, reconnectPC # "none", reconnectPC' = "none",
           reconnectWG' = reconnectWG - 1, isReconnecting' \in BOOLEAN,
           UNCHANGED <<conn, subscribed, reader, doubleReader, toRestore, closePC>>
    PROVE  ReconnectInv'
<1>1. reconnectWG' = 0
  BY DEF ReconnectInv, NothingDoubled, OneReconnect
<1>2. closePC \notin InNew
  BY DEF ReconnectInv, NewIsAlone
<1> QED BY <1>1, <1>2 DEF ReconnectInv, CoreTypes, NewIsAlone, ReadersSubscribed, RestoredHaveNoReader,
              NothingDoubled, OneReconnect, OneReaderPerStream

-----------------------------------------------------------------------------
(***************************************************************************)
(* Every step keeps the invariant.                                         *)
(***************************************************************************)

\* New, and a late subscription.
LEMMA SubscribeStepInv ==
    ASSUME ReconnectInv, NEW s \in Subs, NewSubscribe(s) \/ SubscribeCertChanged(s)
    PROVE  ReconnectInv'
<1>1. CASE NewSubscribe(s)
  <2>1. /\ StartReader(s) /\ s \notin subscribed /\ closePC \in InNew
        /\ UNCHANGED <<conn, recVars, closePC>>
    BY <1>1 DEF NewSubscribe, InNew
  <2>2. reader[s] = "none" /\ reconnectPC = "none"
    BY <2>1 DEF ReconnectInv, ReadersSubscribed, NewIsAlone
  <2> QED BY <2>1, <2>2, StartReaderInv DEF recVars
<1>2. CASE SubscribeCertChanged(s)
  <2>1. CASE conn = "nil" /\ UNCHANGED subVars
    BY <1>2, <2>1, OtherStepInv DEF SubscribeCertChanged, subVars, coreVars
  <2>2. CASE conn = "open" /\ StartReader(s)
    <3>1. s \notin subscribed /\ UNCHANGED <<conn, recVars, closePC>>
      BY <1>2 DEF SubscribeCertChanged
    <3>2. reader[s] = "none"
      BY <3>1 DEF ReconnectInv, ReadersSubscribed
    <3>3. reconnectPC # "open" /\ (reconnectPC = "restore" => s \notin toRestore)
      BY <2>2, <3>1 DEF ReconnectInv, RestoredHaveNoReader
    <3> QED BY <2>2, <3>1, <3>2, <3>3, StartReaderInv DEF recVars
  <2> QED BY <1>2, <2>1, <2>2 DEF SubscribeCertChanged
<1> QED BY <1>1, <1>2

\* The goroutines that read the streams.
LEMMA ReaderStepInv ==
    ASSUME ReconnectInv, NEW s \in Subs, RecvMessage(s) \/ ReaderStep(s)
    PROVE  ReconnectInv'
<1>1. CASE RecvMessage(s) \/ RecvError(s) \/ LockForDelivery(s) \/ Deliver(s) \/ ReaderLost(s)
  <2>1. reader[s] # "none" /\ UNCHANGED <<conn, subscribed, doubleReader, recVars, closePC>>
    BY <1>1 DEF RecvMessage, RecvError, LockForDelivery, Deliver, ReaderLost, ReaderVars
  <2>2. \E p \in {"none", "recv", "lock", "send", "lost", "swap"} : reader' = [reader EXCEPT ![s] = p]
    BY <1>1 DEF RecvMessage, RecvError, LockForDelivery, Deliver, ReaderLost
  <2> QED BY <2>1, <2>2, ReaderMovesInv
<1>2. CASE ReaderSwap(s)
  <2>1. /\ CompareAndSwap /\ reader[s] = "swap"
        /\ reader' = [reader EXCEPT ![s] = "none"]
        /\ UNCHANGED <<conn, subscribed, doubleReader, closePC>>
    BY <1>2 DEF ReaderSwap, ReaderVars
  <2>2. /\ reader' \in [Subs -> {"none", "recv", "lock", "send", "lost", "swap"}]
        /\ \A q \in Subs : reader'[q] # "none" => reader[q] # "none"
    BY <2>1 DEF ReconnectInv, CoreTypes
  <2> QED BY <2>1, <2>2, SwapInv
<1> QED BY <1>1, <1>2 DEF ReaderStep

\* reconnect
LEMMA ReconnectStepInv == ReconnectInv /\ reconnect => ReconnectInv'
<1> SUFFICES ASSUME ReconnectInv, reconnect PROVE ReconnectInv'
  OBVIOUS
<1>0. UNCHANGED closePC
  BY DEF reconnect, ReconnectClosed, ReconnectStop, ReconnectWait, ReconnectOpen, ReconnectRestore,
         ReconnectProtected, ReconnectStore, RecVars
<1>1. CASE ReconnectClosed \/ ReconnectStore
  <2>1. isReconnecting' \in BOOLEAN
    BY <1>1, Zenon DEF ReconnectClosed, ReconnectStore
  <2> QED BY <1>0, <1>1, <2>1, ReconnectEndsInv DEF ReconnectClosed, ReconnectStore
<1>2. CASE ReconnectStop
  <2>1. RestoredHaveNoReader'
    BY <1>2 DEF ReconnectStop, Stop, RestoredHaveNoReader
  <2>2. toRestore \subseteq Subs
    BY DEF ReconnectInv, CoreTypes
  <2> QED BY <1>0, <1>2, <2>1, <2>2, ReconnectPlaceInv DEF ReconnectStop, Stop
<1>3. CASE ReconnectWait
  <2>1. \A s \in Subs : reader[s] = "none"
    BY <1>3 DEF ReconnectWait, ReadersStopped, ReconnectInv, ReadersSubscribed
  <2>2. RestoredHaveNoReader'
    BY <1>3, <2>1 DEF ReconnectWait, ReconnectInv, RestoredHaveNoReader
  <2>3. toRestore \subseteq Subs /\ conn \in {"nil", "open", "closed"}
    BY DEF ReconnectInv, CoreTypes
  <2> QED BY <1>0, <1>3, <2>2, <2>3, ReconnectPlaceInv DEF ReconnectWait
<1>4. CASE ReconnectOpen
  <2>0. /\ reconnectPC = "open"
        /\ UNCHANGED <<subscribed, reader, doubleReader, isReconnecting, reconnectWG>>
    BY <1>4 DEF ReconnectOpen
  <2>1. toRestore \subseteq Subs /\ conn \in {"nil", "open", "closed"} /\ subscribed \subseteq Subs
    BY DEF ReconnectInv, CoreTypes
  <2>2. CASE conn' = "open" /\ toRestore' = subscribed /\ reconnectPC' = "restore"
    <3>1. RestoredHaveNoReader'
      BY <2>0, <2>1, <2>2 DEF ReconnectInv, RestoredHaveNoReader
    <3> QED BY <1>0, <2>0, <2>1, <2>2, <3>1, ReconnectPlaceInv
  <2>3. CASE reconnectPC' = "select" /\ UNCHANGED <<conn, toRestore>>
    <3>1. RestoredHaveNoReader'
      BY <2>3 DEF RestoredHaveNoReader
    <3> QED BY <1>0, <2>0, <2>1, <2>3, <3>1, ReconnectPlaceInv
  <2> QED BY <1>4, <2>2, <2>3 DEF ReconnectOpen, restorePublicSubs
<1>5. ASSUME NEW s \in Subs, ReconnectRestore(s) PROVE ReconnectInv'
  <2>0. /\ reconnectPC = "restore" /\ s \in toRestore
        /\ UNCHANGED <<isReconnecting, reconnectWG>>
    BY <1>5 DEF ReconnectRestore
  <2>1. toRestore \subseteq Subs /\ conn \in {"nil", "open", "closed"}
    BY DEF ReconnectInv, CoreTypes
  <2>2. CASE StartReader(s) /\ toRestore' = toRestore \ {s} /\ UNCHANGED <<conn, reconnectPC>>
    <3>1. reader[s] = "none"
      BY <2>0 DEF ReconnectInv, RestoredHaveNoReader
    <3> QED BY <1>0, <2>0, <2>2, <3>1, StartReaderInv
  <2>3. CASE /\ CloseNewConnection
             /\ toRestore' = {}
             /\ reconnectPC' = "select"
             /\ UNCHANGED <<subscribed, reader, doubleReader>>
    <3>1. RestoredHaveNoReader' /\ conn' \in {"nil", "open", "closed"}
      BY <2>3 DEF RestoredHaveNoReader, CloseNewConnection
    <3> QED BY <1>0, <2>0, <2>3, <3>1, ReconnectPlaceInv
  <2>4. CASE UNCHANGED <<conn, subscribed, stream, reader, doubleReader, toRestore, reconnectPC>>
    BY <1>0, <2>0, <2>4, OtherStepInv DEF coreVars, recVars
  <2> QED BY <1>5, <2>2, <2>3, <2>4 DEF ReconnectRestore
<1>6. CASE ReconnectProtected
  <2>0. /\ reconnectPC = "restore" /\ reconnectPC' \in {"store", "select"}
        /\ UNCHANGED <<subscribed, reader, doubleReader, isReconnecting, reconnectWG, toRestore>>
    BY <1>6 DEF ReconnectProtected
  <2>1. toRestore \subseteq Subs /\ conn \in {"nil", "open", "closed"}
    BY DEF ReconnectInv, CoreTypes
  <2>2. RestoredHaveNoReader' /\ conn' \in {"nil", "open", "closed"}
    BY <1>6, <2>0, <2>1 DEF ReconnectProtected, CloseNewConnection, RestoredHaveNoReader
  <2> QED BY <1>0, <2>0, <2>1, <2>2, ReconnectPlaceInv
<1> QED BY <1>1, <1>2, <1>3, <1>4, <1>5, <1>6 DEF reconnect

LEMMA NextInv == ReconnectInv /\ [Next]_vars => ReconnectInv'
<1> SUFFICES ASSUME ReconnectInv, [Next]_vars PROVE ReconnectInv'
  OBVIOUS
<1>1. CASE BreakStreams \/ Request \/ \E s \in Subs : ReadListener(s) \/ AddListener(s)
                                                       \/ UnsubscribeCertChanged(s)
  BY <1>1, OtherStepInv DEF BreakStreams, Request, CallLock, CallReturns, ReadListener, AddListener,
                            UnsubscribeCertChanged, coreVars, subVars
<1>2. CASE NewConnect
  <2>1. closePC \in InNew /\ reconnectPC = "none"
    BY <1>2 DEF NewConnect, InNew, ReconnectInv, NewIsAlone
  <2> QED BY <1>2, <2>1 DEF NewConnect, InNew, subVars, recVars, ReconnectInv, CoreTypes, NewIsAlone,
              ReadersSubscribed, RestoredHaveNoReader, NothingDoubled, OneReconnect, OneReaderPerStream
<1>3. CASE GetCurrentNodeInfo \/ getSystemID \/ NewFails
  BY <1>3, PlaceInv DEF GetCurrentNodeInfo, getSystemID, NewFails, InNew, subVars
<1>4. CASE NewReturns
  <2>0. /\ closePC = "new" /\ closePC' = "open"
        /\ UNCHANGED <<conn, subVars, reconnectWG, reconnectPC, toRestore>>
    BY <1>4 DEF NewReturns
  <2>1. isReconnecting' \in BOOLEAN
    BY <1>4, Zenon DEF NewReturns
  <2>2. reconnectPC = "none"
    BY <2>0 DEF ReconnectInv, NewIsAlone, InNew
  <2> QED BY <2>0, <2>1, <2>2 DEF InNew, subVars, ReconnectInv, CoreTypes, NewIsAlone,
              ReadersSubscribed, RestoredHaveNoReader, NothingDoubled, OneReconnect, OneReaderPerStream
<1>5. ASSUME NEW s \in Subs, NewSubscribe(s) \/ SubscribeCertChanged(s) PROVE ReconnectInv'
  BY <1>5, SubscribeStepInv
<1>6. ASSUME NEW s \in Subs, RecvMessage(s) \/ ReaderStep(s) PROVE ReconnectInv'
  BY <1>6, ReaderStepInv
<1>7. CASE CertClosed \/ CertChanged \/ CertLost
  BY <1>7, OtherStepInv DEF CertClosed, CertChanged, CertLost, CertVars, coreVars
<1>8. CASE CertSwap
  <2>1. reader \in [Subs -> {"none", "recv", "lock", "send", "lost", "swap"}]
    BY DEF ReconnectInv, CoreTypes
  <2> QED BY <1>8, <2>1, SwapInv DEF CertSwap, CertVars
<1>9. CASE reconnect
  BY <1>9, ReconnectStepInv
<1>10. CASE CloseStart \/ CloseWait \/ CloseReturns
  BY <1>10, PlaceInv DEF CloseStart, CloseWait, CloseReturns, InNew, subVars
<1>11. CASE CloseStop
  <2>0. /\ conn' = "nil" /\ closePC' = "stop" /\ closePC = "lock"
        /\ UNCHANGED <<subscribed, reader, doubleReader, reconnectWG, reconnectPC, toRestore>>
    BY <1>11 DEF CloseStop, Stop
  <2>1. isReconnecting' \in BOOLEAN /\ isReconnecting'
    BY <1>11, Zenon DEF CloseStop
  <2> QED BY <2>0, <2>1 DEF InNew, ReconnectInv, CoreTypes, NewIsAlone,
              ReadersSubscribed, RestoredHaveNoReader, NothingDoubled, OneReconnect, OneReaderPerStream
<1>12. CASE UNCHANGED vars
  BY <1>12, OtherStepInv DEF vars, subVars, coreVars
<1> QED BY <1>1, <1>2, <1>3, <1>4, <1>5, <1>6, <1>7, <1>8, <1>9, <1>10, <1>11, <1>12
        DEF Next, processCertChange, close

\* Goroutines that lose the connection together, a certificate change, New, Close and
\* late subscriptions in any order start one reconnect at a time, counted by
\* reconnectWG, and never a second reader of a subscription (onConnectionLost,
\* reconnect, restorePublicSubs, SubscribeCertChanged).
THEOREM ReconnectNeverDoubled == Spec => []NothingDoubled
<1>1. ReconnectInv => NothingDoubled
  BY DEF ReconnectInv
<1> QED BY <1>1, InitInv, NextInv, PTL DEF Spec

-----------------------------------------------------------------------------
(***************************************************************************)
(* The crypto context                                                      *)
(***************************************************************************)

ContextTypes ==
    /\ contexts \in Seq(Tokens)
    /\ pkcs11Ctx \in [Tokens -> Nat]
    /\ openContexts \subseteq 1 .. Len(contexts)
    /\ holding \in [CryptoUsers -> Nat]

ContextInv == ContextTypes /\ ContextsClosed

LEMMA CryptoInitInv == CryptoInit => ContextInv
BY DEF CryptoInit, ContextInv, ContextTypes, ContextsClosed

\* A request that does not look up a context gives up the one it has, or keeps it.
LEMMA RequestStepInv ==
    ASSUME ContextInv, NEW u \in CryptoUsers,
           UNCHANGED <<pkcs11Ctx, contexts, openContexts>>,
           holding' \in {holding, [holding EXCEPT ![u] = 0]}
    PROVE  ContextInv'
<1>1. ContextTypes'
  BY DEF ContextInv, ContextTypes
<1>2. Cached' = Cached
  BY DEF Cached
<1>3. \A q \in CryptoUsers : holding'[q] \in {holding[q], 0}
  BY DEF ContextInv, ContextTypes
<1> QED BY <1>1, <1>2, <1>3 DEF ContextInv, ContextsClosed

\* A context is looked up, or made and stored, with the mutex held.
LEMMA LookUpInv ==
    ASSUME ContextInv, NEW u \in CryptoUsers, NEW url \in URLs, getPKCS11Context(u, url)
    PROVE  ContextInv'
<1> DEFINE t == url.token
<1>0. ContextTypes /\ ContextsClosed
  BY DEF ContextInv
<1>1. CASE /\ t \in Tokens /\ pkcs11Ctx[t] # 0
           /\ holding' = [holding EXCEPT ![u] = pkcs11Ctx[t]]
           /\ UNCHANGED contextVars
  <2>1. ContextTypes'
    BY <1>0, <1>1 DEF ContextTypes, contextVars
  <2>2. pkcs11Ctx[t] \in Cached
    BY <1>1 DEF Cached
  <2> QED BY <1>0, <1>1, <2>1, <2>2 DEF ContextInv, ContextTypes, ContextsClosed, contextVars, Cached
<1>2. CASE /\ t \in Tokens /\ pkcs11Ctx[t] = 0
           /\ contexts' = Append(contexts, t)
           /\ openContexts' = openContexts \union {Len(contexts')}
           /\ pkcs11Ctx' = [pkcs11Ctx EXCEPT ![t] = Len(contexts')]
           /\ holding' = [holding EXCEPT ![u] = Len(contexts')]
  <2> DEFINE n == Len(contexts')
  <2>0. /\ contexts' \in Seq(Tokens)
        /\ n = Len(contexts) + 1 /\ n \in Nat \ {0}
        /\ \A j \in 1 .. Len(contexts) : contexts'[j] = contexts[j]
        /\ contexts'[n] = t
    BY <1>0, <1>2, AppendProps DEF ContextTypes
  <2> HIDE DEF n
  <2>a. /\ openContexts' = openContexts \union {n}
        /\ pkcs11Ctx' = [pkcs11Ctx EXCEPT ![t] = n]
        /\ holding' = [holding EXCEPT ![u] = n]
    BY <1>2 DEF n
  <2>1. ContextTypes'
    <3>1. openContexts' \subseteq 1 .. n
      <4>1. Len(contexts) \in Nat /\ openContexts \subseteq 1 .. Len(contexts)
        BY <1>0 DEF ContextTypes
      <4>2. 1 .. Len(contexts) \subseteq 1 .. n /\ n \in 1 .. n
        BY <2>0, <4>1
      <4> QED BY <2>a, <4>1, <4>2, Zenon
    <3> QED BY <1>0, <2>0, <2>a, <3>1 DEF ContextTypes, n
  <2>2. ASSUME NEW m \in openContexts' PROVE pkcs11Ctx'[contexts'[m]] = m
    <3>1. CASE m = n
      BY <1>0, <1>2, <2>0, <2>a, <3>1 DEF ContextTypes
    <3>2. CASE m \in openContexts
      <4>1. m \in 1 .. Len(contexts) /\ contexts[m] \in Tokens /\ contexts'[m] = contexts[m]
        BY <1>0, <2>0, <3>2 DEF ContextTypes
      <4>2. pkcs11Ctx[contexts[m]] = m /\ contexts[m] # t
        BY <1>0, <1>2, <3>2, <4>1 DEF ContextsClosed
      <4> QED BY <1>0, <2>a, <4>1, <4>2 DEF ContextTypes
    <3> QED BY <2>2, <2>a, <3>1, <3>2
  <2>3. n \in Cached' /\ \A m \in Cached : m # 0 => m \in Cached'
    BY <1>0, <1>2, <2>a DEF ContextTypes, Cached
  <2>4. \A q \in CryptoUsers : holding'[q] # 0 => holding'[q] \in Cached'
    BY <1>0, <2>a, <2>3 DEF ContextTypes, ContextsClosed
  <2> QED BY <2>1, <2>2, <2>4 DEF ContextInv, ContextsClosed
<1>3. CASE Fail(u) /\ UNCHANGED contextVars
  BY <1>3, RequestStepInv DEF Fail, contextVars
<1> QED BY <1>1, <1>2, <1>3 DEF getPKCS11Context, StoreContext

LEMMA CryptoNextInv == ContextInv /\ [CryptoNext]_cryptoVars => ContextInv'
<1> SUFFICES ASSUME ContextInv, [CryptoNext]_cryptoVars PROVE ContextInv'
  OBVIOUS
<1>1. CASE CloseContext
  <2>1. openContexts' \subseteq openContexts /\ UNCHANGED <<pkcs11Ctx, contexts, holding>>
    BY <1>1 DEF CloseContext
  <2> QED BY <2>1 DEF ContextInv, ContextTypes, ContextsClosed, Cached
<1>2. ASSUME NEW u \in CryptoUsers,
             \/ LoadByURL(u) \/ CreatePublicConnection(u)
             \/ CreateProtectedConnection(u) \/ NewProtectedServerOptions(u)
      PROVE  ContextInv'
  <2>1. UNCHANGED <<contextVars, holding>>
    BY <1>2 DEF LoadByURL, CreatePublicConnection, CreateProtectedConnection, NewProtectedServerOptions,
                GetCertificate, Ask, Answer
  <2> QED BY <2>1, RequestStepInv DEF contextVars
<1>3. ASSUME NEW u \in CryptoUsers, FindCertificateChain(u) \/ FindKeyPair(u)
      PROVE  ContextInv'
  BY <1>3, RequestStepInv DEF FindCertificateChain, FindKeyPair, Find, Proceed, Fail, contextVars
<1>4. ASSUME NEW u \in CryptoUsers, NEW url \in URLs,
             LoadFromFile(u, url) \/ UnsupportedScheme(u, url) \/ loadPrivateKeyFromTPM(u, url)
      PROVE  ContextInv'
  BY <1>4, RequestStepInv DEF LoadFromFile, UnsupportedScheme, loadPrivateKeyFromTPM, Proceed, Fail,
                              contextVars
<1>5. ASSUME NEW u \in CryptoUsers, NEW url \in URLs, getPKCS11Context(u, url) PROVE ContextInv'
  BY <1>5, LookUpInv
<1>6. CASE UNCHANGED cryptoVars
  BY <1>6 DEF cryptoVars, ContextInv, ContextTypes, ContextsClosed, Cached
<1> QED BY <1>1, <1>2, <1>3, <1>4, <1>5, <1>6 DEF CryptoNext

\* However many goroutines load certificates and keys at once, and whenever Close
\* comes, every open PKCS11 context is the cached one of its token, which Close
\* closes, and a request uses a cached one (getPKCS11Context, Close).
THEOREM OpenContextsAreCached == CryptoSpec => []ContextsClosed
<1>1. ContextInv => ContextsClosed
  BY DEF ContextInv
<1> QED BY <1>1, CryptoInitInv, CryptoNextInv, PTL DEF CryptoSpec

-----------------------------------------------------------------------------
(***************************************************************************)
(* Requests of several remote calls: the sort of InstallCertificates       *)
(***************************************************************************)

\* Less orders certificates, those that are alike aside.
LEMMA LessIsOrder ==
    ASSUME NEW a \in Certs, NEW b \in Certs, NEW c \in Certs
    PROVE  /\ ~ (Less(a, b) /\ Less(b, a))
           /\ Less(a, b) => Less(a, c) \/ Less(c, b)
    <1>1. \A x \in Certs : x.node \in Nat
        BY RequestAssumption DEF Certs
    <1>2. \A x, y \in Certs : x.node = y.node => (IsMain(x) <=> IsMain(y))
        BY DEF IsMain
    <1>3. \A x, y \in Certs : x.node < y.node \/ x.node = y.node \/ y.node < x.node
        BY <1>1
    <1>4. ~ (Less(a, b) /\ Less(b, a))
        BY <1>1, <1>2, <1>3 DEF Less
    <1>5. ASSUME Less(a, b) PROVE Less(a, c) \/ Less(c, b)
        <2>1. CASE IsMain(b) /\ IsIAM(b)
            BY <1>5, <2>1 DEF Less
        <2>2. CASE ~ (IsMain(b) /\ IsIAM(b)) /\ ~ IsMain(a) /\ IsMain(b)
            BY <2>2 DEF Less
        <2>3. CASE ~ IsMain(a) /\ ~ IsMain(b)
            <3>1. CASE IsMain(c)
                BY <2>3, <3>1 DEF Less
            <3>2. CASE ~ IsMain(c)
                <4>1. (a.node = b.node /\ ~ IsIAM(a) /\ IsIAM(b)) \/ a.node < b.node
                    BY <1>5, <2>3 DEF Less
                <4>2. \/ (a.node = c.node /\ ~ IsIAM(a) /\ IsIAM(c)) \/ a.node < c.node
                      \/ (c.node = b.node /\ ~ IsIAM(c) /\ IsIAM(b)) \/ c.node < b.node
                    BY <1>1, <4>1
                <4> QED
                    BY <2>3, <3>2, <4>2 DEF Less
            <3> QED
                BY <3>1, <3>2
        <2> QED
            BY <1>5, <2>1, <2>2, <2>3 DEF Less
    <1> QED
        BY <1>4, <1>5

\* The sort gives the same certificates, each as often, and none after one that it
\* is less than.
LEMMA SortStableProps ==
    ASSUME NEW L \in Seq(Certs)
    PROVE  /\ SortStable(L) \in Seq(Certs) /\ Len(SortStable(L)) = Len(L)
           /\ \A j, k \in 1 .. Len(L) : j < k => ~ Less(SortStable(L)[k], SortStable(L)[j])
           /\ \A k \in 1 .. Len(L) : \E j \in 1 .. Len(L) : SortStable(L)[j] = L[k]
           /\ (\A j, k \in 1 .. Len(L) : L[j] = L[k] => j = k) =>
                  \A j, k \in 1 .. Len(L) : SortStable(L)[j] = SortStable(L)[k] => j = k
    <1> DEFINE D == 1 .. Len(L)
               R == {r \in D \X D : \/ Less(L[r[1]], L[r[2]])
                                    \/ ~ Less(L[r[2]], L[r[1]]) /\ r[1] <= r[2]}
               order == InOrder(D, R)
    <1>0. Len(L) \in Nat /\ DOMAIN L = D /\ \A k \in D : L[k] \in Certs
        OBVIOUS
    <1>1. IsFiniteSet(D) /\ Cardinality(D) = Len(L)
        <2>1. \A m \in Nat : IsFiniteSet(1 .. m) /\ Cardinality(1 .. m) = m
            BY FS_Interval
        <2> QED
            BY <1>0, <2>1
    <1>2. \A x, y \in D : <<x, y>> \in R <=> Less(L[x], L[y]) \/ (~ Less(L[y], L[x]) /\ x <= y)
        OBVIOUS
    <1>3. OrdersAll(D, R)
        <2>0. \A x \in D : x \in Nat
            BY <1>0
        <2>l. \A x, y, z \in D : /\ ~ (Less(L[x], L[y]) /\ Less(L[y], L[x]))
                                 /\ Less(L[x], L[y]) => Less(L[x], L[z]) \/ Less(L[z], L[y])
            BY <1>0, LessIsOrder
        <2> HIDE DEF R, D
        <2>1. \A x, y \in D : <<x, y>> \in R \/ <<y, x>> \in R
            <3> SUFFICES ASSUME NEW x \in D, NEW y \in D PROVE <<x, y>> \in R \/ <<y, x>> \in R
                OBVIOUS
            <3>1. x <= y \/ y <= x
                BY <2>0
            <3> QED
                BY <1>2, <2>l, <3>1
        <2>2. \A x, y \in D : <<x, y>> \in R /\ <<y, x>> \in R => x = y
            BY <1>2, <2>0, <2>l
        <2>3. \A x, y, z \in D : <<x, y>> \in R /\ <<y, z>> \in R => <<x, z>> \in R
            BY <1>2, <2>0, <2>l
        <2> QED
            BY <2>1, <2>2, <2>3 DEF OrdersAll
    <1> HIDE DEF R
    <1>4. /\ order \in [D -> D]
          /\ \A x \in D : \E k \in D : order[k] = x
          /\ \A j, k \in D : j < k => order[j] # order[k] /\ <<order[j], order[k]>> \in R
        BY <1>1, <1>3, InOrderProps
    <1>5. SortStable(L) = Rearranged(L, order)
        BY <1>0 DEF SortStable, R
    <1> HIDE DEF order
    <1>6. Len(order) = Len(L)
        BY <1>0, <1>4
    <1>7. SortStable(L) = [k \in D |-> L[order[k]]]
        BY <1>5, <1>6 DEF Rearranged
    <1>8. SortStable(L) \in Seq(Certs) /\ Len(SortStable(L)) = Len(L)
        <2>1. SortStable(L) \in [D -> Certs]
            BY <1>0, <1>4, <1>7
        <2> QED
            BY <1>0, <2>1
    <1>a. \A k \in D : order[k] \in D /\ SortStable(L)[k] = L[order[k]]
        BY <1>4, <1>7
    <1>9. ASSUME NEW j \in D, NEW k \in D, j < k PROVE ~ Less(SortStable(L)[k], SortStable(L)[j])
        <2>1. <<order[j], order[k]>> \in R /\ order[j] \in D /\ order[k] \in D
            BY <1>4, <1>9, <1>a
        <2>2. Less(L[order[j]], L[order[k]]) \/ ~ Less(L[order[k]], L[order[j]])
            BY <1>2, <2>1
        <2>3. ~ Less(L[order[k]], L[order[j]])
            BY <1>0, <2>1, <2>2, LessIsOrder
        <2> QED
            BY <1>a, <2>3
    <1>10. ASSUME NEW k \in D PROVE \E j \in D : SortStable(L)[j] = L[k]
        BY <1>4, <1>a
    <1>11. ASSUME \A j, k \in D : L[j] = L[k] => j = k, NEW j \in D, NEW k \in D,
                  SortStable(L)[j] = SortStable(L)[k]
           PROVE  j = k
        <2>1. order[j] = order[k]
            BY <1>11, <1>a
        <2>2. ~ (j < k) /\ ~ (k < j)
            BY <1>4, <2>1
        <2>3. j \in Nat /\ k \in Nat
            BY <1>0 DEF D
        <2> QED
            BY <2>2, <2>3
    <1> QED
        BY <1>8, <1>9, <1>10, <1>11 DEF D

-----------------------------------------------------------------------------
(***************************************************************************)
(* Requests of several remote calls: the inductive invariant               *)
(***************************************************************************)

Provisioning == {"start", "finish", "deprovision"}

Answers == {"ok", "rpcError", "errorInfo"}

CallNames ==
    {"ApplyCert", "CreateKey", "StartProvisioning", "GetCertTypes", "FinishProvisioning", "Deprovision"}

RemoteCalls == [call : CallNames, node : Nodes, type : Types \union {None}]

RequestTypes ==
    /\ request.op \in {"install", "renew"} \union Provisioning
    /\ request.certs \in Seq(Certs)
    /\ request.op = "install" =>
          \A j, k \in 1 .. Len(request.certs) : request.certs[j] = request.certs[k] => j = k
    /\ todo \in Seq(RemoteCalls)
    /\ results \in Seq([call : RemoteCalls, result : Answers, reachable : BOOLEAN])
    /\ sent \in Messages \union {None}
    /\ returned \in {None, "nil", "error"}

\* The certificates of an install request in the order in which they are applied.
Applied == SortStable(request.certs)

\* InstallCertificates makes all its calls, in order: no failed one ends it.
InstallGoesOn ==
    request.op = "install" =>
        /\ Len(results) + Len(todo) = Len(request.certs)
        /\ \A k \in 1 .. Len(results) :
              results[k].call.node = Applied[k].node /\ results[k].call.type = Applied[k].type
        /\ \A k \in 1 .. Len(todo) :
              /\ todo[k].node = Applied[Len(results) + k].node
              /\ todo[k].type = Applied[Len(results) + k].type

\* A server restarts only when it has got its own certificate.
RestartsForIAM ==
    request.op = "install" =>
        \A n \in restarting :
            \E k \in 1 .. Len(results) : n = results[k].call.node /\ IsIAM(results[k].call)

\* A provisioning request ends at the first error, and is answered when it ends.
EndsAtError ==
    request.op \in Provisioning =>
        /\ \A j, k \in 1 .. Len(results) : j < k => results[j].result = "ok"
        /\ todo # <<>> => \A k \in 1 .. Len(results) : results[k].result = "ok"
        /\ returned # None => sent # None

\* What was sent says what became of the calls made.
SentSaysAll ==
    sent # None =>
        /\ request.op = "install" =>
              todo = <<>> /\ sent.items = [k \in 1 .. Len(results) |-> Confirmation(results[k])]
        /\ sent.error <=> (request.op # "install" /\ (GaveUp \/ MainDeprovision))

\* InstallCertificates sends what it has to say before it returns.
InstallSends ==
    request.op = "install" /\ returned # None /\ request.certs # <<>> => sent # None

CertificatesInv ==
    /\ RequestTypes /\ InstallGoesOn /\ RestartsForIAM /\ EndsAtError /\ SentSaysAll /\ InstallSends

-----------------------------------------------------------------------------
LEMMA BoundedSeqs ==
    ASSUME NEW b \in BoundedSeq(Certs, MaxCerts)
    PROVE  b \in Seq(Certs)
    BY DEF BoundedSeq, SeqOf

LEMMA FunctionIsSeq ==
    ASSUME NEW S, NEW n \in Nat, NEW f \in [1 .. n -> S]
    PROVE  f \in Seq(S) /\ Len(f) = n
    OBVIOUS

LEMMA CallsProps ==
    ASSUME NEW s \in Seq(Certs), NEW name \in CallNames
    PROVE  /\ Calls(name, s) \in Seq(RemoteCalls) /\ Len(Calls(name, s)) = Len(s)
           /\ \A k \in 1 .. Len(s) : Calls(name, s)[k] = [call |-> name, node |-> s[k].node, type |-> s[k].type]
    <1>1. Calls(name, s) = [k \in 1 .. Len(s) |-> [call |-> name, node |-> s[k].node, type |-> s[k].type]]
        BY DEF Calls
    <1>2. \A k \in 1 .. Len(s) : [call |-> name, node |-> s[k].node, type |-> s[k].type] \in RemoteCalls
        <2>1. \A k \in 1 .. Len(s) : s[k] \in Certs
            OBVIOUS
        <2> QED
            BY <2>1 DEF Certs, RemoteCalls
    <1>3. Calls(name, s) \in [1 .. Len(s) -> RemoteCalls]
        BY <1>1, <1>2
    <1>4. Len(s) \in Nat
        OBVIOUS
    <1>5. Calls(name, s) \in Seq(RemoteCalls) /\ Len(Calls(name, s)) = Len(s)
        BY <1>3, <1>4, FunctionIsSeq
    <1> QED
        BY <1>1, <1>5

\* The calls of a request.
LEMMA CallsOfProps ==
    ASSUME NEW r \in CertificateRequests \union ProvisioningRequests
    PROVE  /\ r.op \in {"install", "renew"} \union Provisioning
           /\ r.certs \in Seq(Certs)
           /\ \A j, k \in 1 .. Len(r.certs) : r.certs[j] = r.certs[k] => j = k
           /\ CallsOf(r) \in Seq(RemoteCalls)
    <1>1. CASE r \in CertificateRequests
        <2>1. PICK o \in {"install", "renew"}, b \in Batches : r = [op |-> o, node |-> None, certs |-> b]
            BY <1>1 DEF CertificateRequests
        <2>2. b \in Seq(Certs) /\ \A j, k \in 1 .. Len(b) : b[j] = b[k] => j = k
            BY BoundedSeqs DEF Batches, IsInjective
        <2>a. r.op = o /\ r.certs = b
            BY <2>1
        <2>3. CASE o = "install"
            <3>1. CallsOf(r) = Calls("ApplyCert", SortStable(b))
                BY <2>a, <2>3 DEF CallsOf
            <3> QED
                BY <2>2, <2>a, <3>1, SortStableProps, CallsProps DEF CallNames
        <2>4. CASE o = "renew"
            <3>1. CallsOf(r) = Calls("CreateKey", b)
                BY <2>a, <2>4 DEF CallsOf
            <3> QED
                BY <2>2, <2>a, <3>1, CallsProps DEF CallNames
        <2> QED
            BY <2>3, <2>4
    <1>2. CASE r \in ProvisioningRequests
        <2>0. PICK n \in Nodes : r \in {[op |-> o, node |-> n, certs |-> s] : o \in Provisioning, s \in KeysOf(n)}
            BY <1>2 DEF ProvisioningRequests, Provisioning
        <2>1. PICK o \in Provisioning, s \in KeysOf(n) : r = [op |-> o, node |-> n, certs |-> s]
            BY <2>0
        <2>a. r.op = o /\ r.node = n /\ r.certs = s
            BY <2>1
        <2>2. s \in Seq(Certs) /\ \A j, k \in 1 .. Len(s) : s[j] = s[k] => j = k
            BY BoundedSeqs DEF KeysOf, IsInjective
        <2>3. \A name \in CallNames : NodeCall(name, n) \in Seq(RemoteCalls)
            BY DEF NodeCall, RemoteCalls
        <2>4. \A name \in CallNames : Calls(name, s) \in Seq(RemoteCalls)
            BY <2>2, CallsProps
        <2>5. \A p, q \in Seq(RemoteCalls) : p \o q \in Seq(RemoteCalls)
            OBVIOUS
        <2>6. CASE o = "start"
            <3>1. CallsOf(r) = NodeCall("StartProvisioning", n) \o NodeCall("GetCertTypes", n) \o Calls("CreateKey", s)
                BY <2>a, <2>6 DEF CallsOf
            <3>2. CallsOf(r) \in Seq(RemoteCalls)
                BY <2>3, <2>4, <2>5, <3>1 DEF CallNames
            <3> QED
                BY <2>2, <2>a, <3>2
        <2>7. CASE o = "finish"
            <3>1. CallsOf(r) = Calls("ApplyCert", s) \o NodeCall("FinishProvisioning", n)
                BY <2>a, <2>7 DEF CallsOf
            <3>2. CallsOf(r) \in Seq(RemoteCalls)
                BY <2>3, <2>4, <2>5, <3>1 DEF CallNames
            <3> QED
                BY <2>2, <2>a, <3>2
        <2>8. CASE o = "deprovision"
            <3>1. CallsOf(r) \in {<<>>, NodeCall("Deprovision", n)}
                BY <2>a, <2>8 DEF CallsOf
            <3>2. CallsOf(r) \in Seq(RemoteCalls)
                <4>1. <<>> \in Seq(RemoteCalls) /\ "Deprovision" \in CallNames
                    BY DEF CallNames
                <4> QED
                    BY <2>3, <3>1, <4>1
            <3> QED
                BY <2>2, <2>a, <3>2
        <2> QED
            BY <2>6, <2>7, <2>8 DEF Provisioning
    <1> QED
        BY <1>1, <1>2

LEMMA CertificatesInitInv == RequestInit => CertificatesInv
    <1> SUFFICES ASSUME RequestInit PROVE CertificatesInv
        OBVIOUS
    <1>0. /\ request \in CertificateRequests \union ProvisioningRequests
          /\ todo = CallsOf(request) /\ results = <<>> /\ restarting = {} /\ sent = None /\ returned = None
        BY DEF RequestInit
    <1>1. RequestTypes
        BY <1>0, CallsOfProps DEF RequestTypes
    <1>2. InstallGoesOn
        <2> SUFFICES ASSUME request.op = "install" PROVE InstallGoesOn
            BY DEF InstallGoesOn
        <2>1. todo = Calls("ApplyCert", Applied)
            BY <1>0 DEF CallsOf, Applied
        <2>2. Applied \in Seq(Certs) /\ Len(Applied) = Len(request.certs)
            BY <1>1, SortStableProps DEF RequestTypes, Applied
        <2>3. /\ Len(todo) = Len(Applied)
              /\ \A k \in 1 .. Len(Applied) :
                    todo[k] = [call |-> "ApplyCert", node |-> Applied[k].node, type |-> Applied[k].type]
            BY <2>1, <2>2, CallsProps DEF CallNames
        <2>4. Len(results) = 0 /\ Len(Applied) \in Nat
            BY <1>0, <2>2
        <2>5. \A k \in 1 .. Len(todo) : k \in 1 .. Len(Applied) /\ Len(results) + k = k
            BY <2>3, <2>4
        <2>6. \A k \in 1 .. Len(todo) : todo[k].node = Applied[k].node /\ todo[k].type = Applied[k].type
            <3> SUFFICES ASSUME NEW k \in 1 .. Len(todo)
                         PROVE  todo[k].node = Applied[k].node /\ todo[k].type = Applied[k].type
                OBVIOUS
            <3>1. todo[k] = [call |-> "ApplyCert", node |-> Applied[k].node, type |-> Applied[k].type]
                BY <2>3, <2>5
            <3> QED
                BY <3>1
        <2>7. Len(results) + Len(todo) = Len(request.certs)
            BY <2>2, <2>3, <2>4
        <2> QED
            BY <2>4, <2>5, <2>6, <2>7 DEF InstallGoesOn
    <1>3. Len(results) = 0
        BY <1>0
    <1> QED
        BY <1>0, <1>1, <1>2, <1>3 DEF CertificatesInv, RestartsForIAM, EndsAtError, SentSaysAll, InstallSends

\* What GivesUp says of the requests.
LEMMA GivesUpProps ==
    ASSUME NEW result \in Answers
    PROVE  /\ ~ GivesUp("install", result)
           /\ \A op \in Provisioning : GivesUp(op, result) <=> result # "ok"
    BY DEF GivesUp, Failed, Answers, Provisioning

LEMMA MakeCallKeeps ==
    ASSUME CertificatesInv, MakeCall
    PROVE  CertificatesInv'
    <1> DEFINE m == Len(results)
    <1>0. RequestTypes /\ InstallGoesOn /\ RestartsForIAM /\ EndsAtError /\ SentSaysAll /\ InstallSends
        BY DEF CertificatesInv
    <1>1. PICK result \in Answers :
             /\ results' = Append(results, [call |-> Head(todo), result |-> result,
                                            reachable |-> Reachable(Head(todo).node)])
             /\ Restarts(Head(todo), result)
             /\ todo' = IF GivesUp(request.op, result) THEN <<>> ELSE Tail(todo)
        BY DEF MakeCall, Answers
    <1>2. returned = None /\ sent = None /\ todo # <<>> /\ UNCHANGED <<request, sent, returned>>
        BY DEF MakeCall
    <1>3. /\ m \in Nat /\ Len(todo) \in Nat \ {0} /\ Head(todo) = todo[1] /\ Head(todo) \in RemoteCalls
          /\ Tail(todo) \in Seq(RemoteCalls) /\ Len(Tail(todo)) = Len(todo) - 1
          /\ \A k \in 1 .. Len(todo) - 1 : Tail(todo)[k] = todo[k + 1]
        BY <1>0, <1>2 DEF RequestTypes
    <1>4. PICK r \in [call : RemoteCalls, result : Answers, reachable : BOOLEAN] :
             r.call = Head(todo) /\ r.result = result /\ results' = Append(results, r)
        <2>1. [call |-> Head(todo), result |-> result, reachable |-> Reachable(Head(todo).node)]
                  \in [call : RemoteCalls, result : Answers, reachable : BOOLEAN]
            BY <1>3 DEF Reachable
        <2> QED
            BY <1>1, <2>1
    <1>5. /\ results' \in Seq([call : RemoteCalls, result : Answers, reachable : BOOLEAN])
          /\ Len(results') = m + 1 /\ results'[m + 1] = r /\ \A k \in 1 .. m : results'[k] = results[k]
        BY <1>0, <1>4 DEF RequestTypes
    <1>6. RequestTypes'
        <2>1. todo' \in Seq(RemoteCalls)
            BY <1>1, <1>3
        <2> QED
            BY <1>0, <1>2, <1>5, <2>1 DEF RequestTypes
    <1>7. ASSUME request.op = "install" PROVE todo' = Tail(todo)
        BY <1>1, <1>7, GivesUpProps
    <1>8. InstallGoesOn'
        <2> SUFFICES ASSUME request.op = "install"
                     PROVE  /\ Len(results') + Len(todo') = Len(request.certs)
                            /\ \A k \in 1 .. Len(results') : /\ results'[k].call.node = Applied[k].node
                                                             /\ results'[k].call.type = Applied[k].type
                            /\ \A k \in 1 .. Len(todo') : /\ todo'[k].node = Applied[Len(results') + k].node
                                                          /\ todo'[k].type = Applied[Len(results') + k].type
            <3>1. Applied' = Applied
                BY <1>2 DEF Applied
            <3> QED
                BY <1>2, <3>1 DEF InstallGoesOn
        <2>0. Len(todo') = Len(todo) - 1 /\ \A k \in 1 .. Len(todo) - 1 : todo'[k] = todo[k + 1]
            BY <1>3, <1>7
        <2>a. Len(request.certs) \in Nat
            BY <1>0 DEF RequestTypes
        <2>1. /\ m + Len(todo) = Len(request.certs)
              /\ \A k \in 1 .. m : results[k].call.node = Applied[k].node /\ results[k].call.type = Applied[k].type
              /\ \A k \in 1 .. Len(todo) : todo[k].node = Applied[m + k].node /\ todo[k].type = Applied[m + k].type
            BY <1>0 DEF InstallGoesOn
        <2>2. Len(results') + Len(todo') = Len(request.certs)
            <3>1. PICK x \in Nat, y \in Nat : x = m /\ y = Len(todo)
                BY <1>3
            <3>2. (x + 1) + (y - 1) = x + y
                OBVIOUS
            <3>3. Len(results') = x + 1 /\ Len(todo') = y - 1 /\ x + y = Len(request.certs)
                BY <1>5, <2>0, <2>1, <3>1
            <3> QED
                BY <3>2, <3>3
        <2>3. ASSUME NEW k \in 1 .. Len(results')
              PROVE  results'[k].call.node = Applied[k].node /\ results'[k].call.type = Applied[k].type
            <3>1. CASE k \in 1 .. m
                BY <1>5, <2>1, <3>1
            <3>2. CASE k = m + 1
                BY <1>3, <1>4, <1>5, <2>1, <3>2
            <3> QED
                BY <1>3, <1>5, <2>3, <3>1, <3>2
        <2>4. ASSUME NEW k \in 1 .. Len(todo')
              PROVE  /\ todo'[k].node = Applied[Len(results') + k].node
                     /\ todo'[k].type = Applied[Len(results') + k].type
            <3>1. k \in 1 .. Len(todo) - 1 /\ k + 1 \in 1 .. Len(todo) /\ m + (k + 1) = Len(results') + k
                BY <1>3, <1>5, <2>0, <2>4
            <3>2. todo'[k] = todo[k + 1]
                BY <2>0, <3>1
            <3> QED
                BY <2>1, <3>1, <3>2
        <2> QED
            BY <2>2, <2>3, <2>4
    <1>9. RestartsForIAM'
        <2> SUFFICES ASSUME request.op = "install", NEW n \in restarting'
                     PROVE  \E k \in 1 .. Len(results') : n = results'[k].call.node /\ IsIAM(results'[k].call)
            BY <1>2 DEF RestartsForIAM, IsIAM
        <2>1. CASE n \in restarting
            <3>1. PICK k \in 1 .. m : n = results[k].call.node /\ IsIAM(results[k].call)
                BY <1>0, <2>1 DEF RestartsForIAM
            <3>2. k \in 1 .. Len(results') /\ results'[k] = results[k]
                BY <1>3, <1>5
            <3> QED
                BY <3>1, <3>2
        <2>2. CASE n \notin restarting
            <3>1. n = Head(todo).node /\ IsIAM(Head(todo))
                BY <1>1, <2>2 DEF Restarts
            <3>2. m + 1 \in 1 .. Len(results') /\ results'[m + 1].call = Head(todo)
                BY <1>3, <1>4, <1>5
            <3> QED
                BY <3>1, <3>2
        <2> QED
            BY <2>1, <2>2
    <1>10. EndsAtError'
        <2> SUFFICES ASSUME request.op \in Provisioning PROVE EndsAtError'
            BY <1>2 DEF EndsAtError
        <2>1. \A k \in 1 .. m : results[k].result = "ok"
            BY <1>0, <1>2 DEF EndsAtError
        <2>2. \A k \in 1 .. m + 1 : k \in 1 .. m \/ k = m + 1
            BY <1>3
        <2>3. \A j, k \in 1 .. m + 1 : j < k => results'[j].result = "ok"
            BY <1>3, <1>5, <2>1
        <2>4. ASSUME todo' # <<>> PROVE \A k \in 1 .. m + 1 : results'[k].result = "ok"
            <3>1. result = "ok"
                BY <1>1, <2>4, GivesUpProps
            <3> QED
                BY <1>4, <1>5, <2>1, <2>2, <3>1
        <2> QED
            BY <1>2, <1>5, <2>3, <2>4 DEF EndsAtError
    <1>11. SentSaysAll' /\ InstallSends'
        BY <1>2 DEF SentSaysAll, InstallSends
    <1> QED
        BY <1>6, <1>8, <1>9, <1>10, <1>11 DEF CertificatesInv

\* What is sent is a message, and what it says.
LEMMA MessageProps ==
    ASSUME RequestTypes, InstallGoesOn
    PROVE  /\ Message \in Messages
           /\ request.op = "install" => Message.items = [k \in 1 .. Len(results) |-> Confirmation(results[k])]
           /\ Message.error <=> (request.op # "install" /\ (GaveUp \/ MainDeprovision))
    <1>1. CASE request.op = "install"
        <2> DEFINE items == [k \in 1 .. Len(results) |-> Confirmation(results[k])]
        <2>1. Message = [op |-> "install", error |-> FALSE, items |-> items]
            <3>1. DOMAIN results = 1 .. Len(results)
                BY DEF RequestTypes
            <3> QED
                BY <1>1, <3>1 DEF Message
        <2>2. Applied \in Seq(Certs) /\ Len(Applied) = Len(request.certs)
            BY SortStableProps DEF RequestTypes, Applied
        <2>3. ASSUME NEW k \in 1 .. Len(results)
              PROVE  Confirmation(results[k]) \in [cert : Certs, installed : BOOLEAN]
            <3>1. k \in 1 .. Len(Applied)
                BY <1>1, <2>2 DEF InstallGoesOn, RequestTypes
            <3>2. Applied[k].node \in Nodes /\ Applied[k].type \in Types
                <4>1. Applied[k] \in Certs
                    BY <2>2, <3>1
                <4> QED
                    BY <4>1 DEF Certs
            <3>3. results[k].call.node \in Nodes /\ results[k].call.type \in Types
                BY <1>1, <3>2 DEF InstallGoesOn
            <3> QED
                BY <3>3 DEF Confirmation, Certs
        <2>4. items \in Seq([cert : Certs, installed : BOOLEAN])
            <3>1. Len(results) \in Nat
                BY DEF RequestTypes
            <3>2. items \in [1 .. Len(results) -> [cert : Certs, installed : BOOLEAN]]
                BY <2>3
            <3> QED
                BY <3>1, <3>2, FunctionIsSeq
        <2> HIDE DEF items
        <2>5. Message \in Messages
            BY <2>1, <2>4 DEF Messages
        <2>6. Message.items = items /\ Message.error = FALSE
            BY <2>1
        <2> QED
            BY <1>1, <2>5, <2>6 DEF items
    <1>2. CASE request.op # "install"
        <2> DEFINE items == IF GaveUp \/ request.op \notin {"renew", "start"} THEN <<>> ELSE request.certs
        <2>1. Message = [op |-> request.op, error |-> GaveUp \/ MainDeprovision, items |-> items]
            BY <1>2 DEF Message
        <2>2. items \in Seq(Certs)
            BY DEF RequestTypes
        <2>3. (GaveUp \/ MainDeprovision) \in BOOLEAN
            OBVIOUS
        <2>4. request.op \in {"install", "renew", "start", "finish", "deprovision"}
            BY DEF RequestTypes, Provisioning
        <2> HIDE DEF items
        <2>5. Message \in Messages
            BY <2>1, <2>2, <2>3, <2>4, Zenon DEF Messages
        <2>6. Message.error = (GaveUp \/ MainDeprovision)
            BY <2>1
        <2> QED
            BY <1>2, <2>5, <2>6
    <1> QED
        BY <1>1, <1>2

LEMMA SendKeeps ==
    ASSUME CertificatesInv, Send
    PROVE  CertificatesInv'
    <1>0. RequestTypes /\ InstallGoesOn /\ RestartsForIAM /\ EndsAtError /\ SentSaysAll /\ InstallSends
        BY DEF CertificatesInv
    <1>1. /\ todo = <<>> /\ sent = None /\ returned = None /\ sent' = Message /\ returned' \in {"nil", "error"}
          /\ UNCHANGED <<request, todo, results, restarting>>
        BY DEF Send
    <1>2. sent' \in Messages /\ sent' # None
        BY <1>0, <1>1, MessageProps, NoneAssumption
    <1>3. RequestTypes'
        BY <1>0, <1>1, <1>2 DEF RequestTypes
    <1>4. InstallGoesOn' /\ RestartsForIAM' /\ EndsAtError' /\ InstallSends'
        BY <1>0, <1>1, <1>2 DEF InstallGoesOn, RestartsForIAM, EndsAtError, InstallSends, Applied, IsIAM
    <1>5. SentSaysAll'
        <2>1. GaveUp' = GaveUp /\ MainDeprovision' = MainDeprovision
            BY <1>1 DEF GaveUp, MainDeprovision
        <2> QED
            BY <1>0, <1>1, <2>1, MessageProps DEF SentSaysAll
    <1> QED
        BY <1>3, <1>4, <1>5 DEF CertificatesInv

LEMMA CertificatesStepInv == CertificatesInv /\ [RequestNext]_requestVars => CertificatesInv'
    <1> SUFFICES ASSUME CertificatesInv, [RequestNext]_requestVars PROVE CertificatesInv'
        OBVIOUS
    <1>0. RequestTypes /\ InstallGoesOn /\ RestartsForIAM /\ EndsAtError /\ SentSaysAll /\ InstallSends
        BY DEF CertificatesInv
    <1>1. CASE MakeCall
        BY <1>1, MakeCallKeeps
    <1>2. CASE NoPassword
        <2>1. /\ request.op = "renew" /\ todo' = <<>> /\ returned' = "error"
              /\ UNCHANGED <<request, results, restarting, sent>>
            BY <1>2 DEF NoPassword
        <2>2. RequestTypes'
            BY <1>0, <2>1 DEF RequestTypes
        <2>3. GaveUp' = GaveUp /\ MainDeprovision' = MainDeprovision
            BY <2>1 DEF GaveUp, MainDeprovision
        <2>4. InstallGoesOn' /\ RestartsForIAM' /\ EndsAtError' /\ SentSaysAll' /\ InstallSends'
            BY <1>0, <2>1, <2>3 DEF InstallGoesOn, RestartsForIAM, EndsAtError, SentSaysAll, InstallSends,
                                    Provisioning
        <2> QED
            BY <2>2, <2>4 DEF CertificatesInv
    <1>3. CASE Send
        BY <1>3, SendKeeps
    <1>4. CASE ReturnSilently
        <2>1. /\ NothingToSend /\ returned' \in {"nil", "error"} /\ UNCHANGED <<request, todo, results, restarting, sent>>
            BY <1>4 DEF ReturnSilently
        <2>2. RequestTypes'
            BY <1>0, <2>1 DEF RequestTypes
        <2>3. GaveUp' = GaveUp /\ MainDeprovision' = MainDeprovision /\ Applied' = Applied
            BY <2>1 DEF GaveUp, MainDeprovision, Applied
        <2>4. InstallGoesOn' /\ RestartsForIAM' /\ EndsAtError' /\ SentSaysAll'
            BY <1>0, <2>1, <2>3 DEF InstallGoesOn, RestartsForIAM, EndsAtError, SentSaysAll, NothingToSend,
                                    Provisioning, IsIAM
        <2>5. InstallSends'
            <3>1. request.op = "install" => ~ GaveUp
                BY DEF GaveUp, GivesUp
            <3> QED
                BY <2>1, <3>1 DEF InstallSends, NothingToSend
        <2> QED
            BY <2>2, <2>4, <2>5 DEF CertificatesInv
    <1>5. CASE UNCHANGED requestVars
        <2>1. GaveUp' = GaveUp /\ MainDeprovision' = MainDeprovision /\ Applied' = Applied
            BY <1>5 DEF requestVars, GaveUp, MainDeprovision, Applied
        <2> QED
            BY <1>0, <1>5, <2>1 DEF requestVars, CertificatesInv, RequestTypes, InstallGoesOn, RestartsForIAM,
                                    EndsAtError, SentSaysAll, InstallSends, IsIAM
    <1> QED
        BY <1>1, <1>2, <1>3, <1>4, <1>5 DEF RequestNext

LEMMA CertificatesInvHolds == RequestSpec => []CertificatesInv
    BY CertificatesInitInv, CertificatesStepInv, PTL DEF RequestSpec

\* The cloud learns what became of its request: InstallCertificates confirms every
\* certificate it was given, and StartProvisioning, FinishProvisioning and
\* Deprovision answer in any case, with an error exactly if a call failed; for
\* any number of nodes, types and certificates.
THEOREM RequestsAreAnswered == RequestSpec => []CloudIsAnswered
    <1>1. CertificatesInv => AllCertificatesConfirmed
        <2> SUFFICES ASSUME CertificatesInv, returned # None, request.op = "install", request.certs # <<>>
                     PROVE  /\ sent # None
                            /\ Len(sent.items) = Len(request.certs)
                            /\ \A k \in DOMAIN request.certs :
                                  \E j \in DOMAIN sent.items : sent.items[j].cert = request.certs[k]
            BY DEF AllCertificatesConfirmed
        <2>0. RequestTypes /\ InstallGoesOn /\ SentSaysAll /\ InstallSends
            BY DEF CertificatesInv
        <2>1. sent # None /\ todo = <<>>
            BY <2>0 DEF InstallSends, SentSaysAll
        <2>2. sent.items = [k \in 1 .. Len(results) |-> Confirmation(results[k])]
            BY <2>0, <2>1 DEF SentSaysAll
        <2>3. Len(results) \in Nat /\ Len(results) = Len(request.certs)
            BY <2>0, <2>1 DEF InstallGoesOn, RequestTypes
        <2>4. Len(sent.items) = Len(request.certs) /\ DOMAIN sent.items = 1 .. Len(request.certs)
            BY <2>2, <2>3
        <2>5. request.certs \in Seq(Certs) /\ DOMAIN request.certs = 1 .. Len(request.certs)
            BY <2>0 DEF RequestTypes
        <2>6. ASSUME NEW k \in 1 .. Len(request.certs)
              PROVE  \E j \in 1 .. Len(request.certs) : sent.items[j].cert = request.certs[k]
            <3>1. PICK j \in 1 .. Len(request.certs) : Applied[j] = request.certs[k]
                BY <2>5, SortStableProps DEF Applied
            <3>2. results[j].call.node = request.certs[k].node /\ results[j].call.type = request.certs[k].type
                BY <2>0, <2>3, <3>1 DEF InstallGoesOn
            <3>3. sent.items[j].cert = [node |-> request.certs[k].node, type |-> request.certs[k].type]
                BY <2>2, <2>3, <3>2 DEF Confirmation
            <3>4. request.certs[k] \in Certs
                BY <2>5
            <3>5. \A c \in Certs : c = [node |-> c.node, type |-> c.type]
                BY DEF Certs
            <3> QED
                BY <3>3, <3>4, <3>5
        <2> QED
            BY <2>1, <2>4, <2>5, <2>6
    <1>2. CertificatesInv => ProvisioningAnswered
        <2> SUFFICES ASSUME CertificatesInv, request.op \in Provisioning
                     PROVE  /\ returned # None => sent # None
                            /\ sent # None =>
                                  (sent.error <=> MainDeprovision \/ \E k \in DOMAIN results : results[k].result # "ok")
                            /\ \A k \in DOMAIN results : results[k].call.call = "FinishProvisioning" =>
                                  \A j \in 1 .. k - 1 : results[j].result = "ok"
            BY DEF ProvisioningAnswered, Provisioning
        <2>0. RequestTypes /\ EndsAtError /\ SentSaysAll
            BY DEF CertificatesInv
        <2>1. DOMAIN results = 1 .. Len(results) /\ Len(results) \in Nat
              /\ \A k \in 1 .. Len(results) : results[k].result \in Answers
            <3>1. results \in Seq([call : RemoteCalls, result : Answers, reachable : BOOLEAN])
                BY <2>0 DEF RequestTypes
            <3>2. DOMAIN results = 1 .. Len(results) /\ Len(results) \in Nat
                BY <3>1
            <3>3. \A k \in 1 .. Len(results) : results[k] \in [call : RemoteCalls, result : Answers, reachable : BOOLEAN]
                BY <3>1, ElementOfSeq
            <3> QED
                BY <3>2, <3>3
        <2>2. returned # None => sent # None
            BY <2>0 DEF EndsAtError
        <2>3. GaveUp <=> \E k \in DOMAIN results : results[k].result # "ok"
            BY <2>1, GivesUpProps DEF GaveUp
        <2>4. request.op # "install"
            BY DEF Provisioning
        <2>5. \A k \in 1 .. Len(results) : \A j \in 1 .. k - 1 : results[j].result = "ok"
            BY <2>0, <2>1 DEF EndsAtError
        <2> QED
            BY <2>0, <2>1, <2>2, <2>3, <2>4, <2>5 DEF SentSaysAll
    <1>3. CertificatesInv => CloudIsAnswered
        BY <1>1, <1>2 DEF CloudIsAnswered
    <1> QED
        BY <1>3, CertificatesInvHolds, PTL

\* The order of the sort: a certificate that comes after the one whose server restarts
\* neither belongs to that server nor comes after the main node's restart.
LEMMA SortedBeforeRestart ==
    ASSUME isMainNode, NEW a \in Certs, NEW b \in Certs, a # b, IsIAM(b), ~ Less(a, b)
    PROVE  b.node # a.node /\ b.node # MainNode
    <1>1. a.node # b.node \/ a.type # b.type
        BY DEF Certs
    <1>2. a.node \in Nat /\ b.node \in Nat
        BY RequestAssumption DEF Certs
    <1>3. b.node # MainNode
        BY <1>1 DEF Less, IsMain, IsIAM
    <1>4. b.node # a.node
        BY <1>1, <1>2, <1>3 DEF Less, IsMain, IsIAM
    <1> QED
        BY <1>3, <1>4

\* On the main node InstallCertificates never applies a certificate through a server
\* that an earlier certificate of the same request restarts, whatever certificates
\* the cloud sends, for any number of them and in any order.
THEOREM InstallOrderIsSafe ==
    ASSUME isMainNode
    PROVE  RequestSpec => []InstallSurvivesRestarts
    <1>1. RequestInit => InstallSurvivesRestarts
        BY DEF RequestInit, InstallSurvivesRestarts
    <1>2. ASSUME CertificatesInv, InstallSurvivesRestarts, MakeCall, request'.op = "install"
          PROVE  \A k \in DOMAIN results' : results'[k].reachable
        <2> DEFINE m == Len(results)
                   next == Head(todo)
        <2>0. RequestTypes /\ InstallGoesOn /\ RestartsForIAM
            BY <1>2 DEF CertificatesInv
        <2>1. PICK result \in Answers :
                 results' = Append(results, [call |-> next, result |-> result, reachable |-> Reachable(next.node)])
            BY <1>2 DEF MakeCall, Answers
        <2>2. request' = request /\ todo # <<>> /\ request.op = "install"
            BY <1>2 DEF MakeCall
        <2>3. m \in Nat /\ Len(todo) \in Nat \ {0} /\ next = todo[1] /\ DOMAIN results = 1 .. m
            BY <2>0, <2>2 DEF RequestTypes
        <2>4. request.certs \in Seq(Certs) /\ m + 1 \in 1 .. Len(request.certs) /\ Len(request.certs) \in Nat
            <3>1. m + Len(todo) = Len(request.certs) /\ request.certs \in Seq(Certs)
                BY <2>0, <2>2 DEF InstallGoesOn, RequestTypes
            <3> QED
                BY <2>3, <3>1
        <2>5. next.node = Applied[m + 1].node
            BY <2>0, <2>2, <2>3 DEF InstallGoesOn
        <2>6. Reachable(next.node)
            <3> SUFFICES ASSUME NEW n \in restarting PROVE n # next.node /\ n # MainNode
                BY DEF Reachable
            <3>1. PICK k \in 1 .. m : n = results[k].call.node /\ IsIAM(results[k].call)
                BY <2>0, <2>2 DEF RestartsForIAM
            <3>2. Applied[k].node = n /\ IsIAM(Applied[k])
                BY <2>0, <2>2, <3>1 DEF InstallGoesOn, IsIAM
            <3>3. k \in 1 .. Len(request.certs) /\ k < m + 1
                BY <2>3, <2>4
            <3>4. Applied[k] \in Certs /\ Applied[m + 1] \in Certs
                <4>1. Applied \in Seq(Certs) /\ Len(Applied) = Len(request.certs)
                    BY <2>4, SortStableProps DEF Applied
                <4> QED
                    BY <2>4, <3>3, <4>1, ElementOfSeq
            <3>5. ~ Less(Applied[m + 1], Applied[k])
                BY <2>4, <3>3, SortStableProps DEF Applied
            <3>6. Applied[m + 1] # Applied[k]
                <4>1. \A i, j \in 1 .. Len(request.certs) : request.certs[i] = request.certs[j] => i = j
                    BY <2>0, <2>2 DEF RequestTypes
                <4>2. Applied[m + 1] = Applied[k] => m + 1 = k
                    BY <2>4, <3>3, <4>1, SortStableProps DEF Applied
                <4> QED
                    BY <2>3, <3>3, <4>2
            <3> QED
                BY <2>5, <3>2, <3>4, <3>5, <3>6, SortedBeforeRestart
        <2> HIDE DEF m
        <2>7. \A k \in 1 .. m : results[k].reachable
            BY <1>2, <2>2, <2>3 DEF InstallSurvivesRestarts
        <2>8. PICK r : r.reachable /\ results' = Append(results, r)
            BY <2>1, <2>6
        <2>9. results \in Seq([call : RemoteCalls, result : Answers, reachable : BOOLEAN]) /\ m = Len(results)
            BY <2>0 DEF RequestTypes, m
        <2>10. /\ DOMAIN results' = 1 .. m + 1
               /\ results'[m + 1] = r /\ \A k \in 1 .. m : results'[k] = results[k]
            BY <2>3, <2>8, <2>9
        <2>11. \A k \in 1 .. m + 1 : k \in 1 .. m \/ k = m + 1
            BY <2>3
        <2> QED
            BY <2>7, <2>8, <2>10, <2>11
    <1>3. CertificatesInv /\ InstallSurvivesRestarts /\ [RequestNext]_requestVars => InstallSurvivesRestarts'
        <2> SUFFICES ASSUME CertificatesInv, InstallSurvivesRestarts, [RequestNext]_requestVars
                     PROVE  InstallSurvivesRestarts'
            OBVIOUS
        <2>1. CASE MakeCall
            BY <1>2, <2>1 DEF InstallSurvivesRestarts
        <2>2. CASE UNCHANGED <<request, results>>
            BY <2>2 DEF InstallSurvivesRestarts
        <2> QED
            BY <2>1, <2>2 DEF RequestNext, NoPassword, Send, ReturnSilently, requestVars
    <1> QED
        BY <1>1, <1>3, CertificatesInvHolds, PTL DEF RequestSpec

-----------------------------------------------------------------------------
(***************************************************************************)
(* TPM keys: the inductive invariant                                       *)
(***************************************************************************)

TPMTypes ==
    /\ persistent \in [Handles -> Materials \union {NoKey}]
    /\ transient \in [Users -> Materials \union {NoKey}]
    /\ material \in [Keys -> Materials \union {NoKey}]
    /\ persistentHandle \in [Keys -> Handles \union {NoHandle}]
    /\ userPC \in [Users -> {"idle", "load", "loadToStore", "use", "clear", "store", "flush"}]
    /\ userKey \in [Users -> Keys \union {NoKey}]
    /\ target \in [Users -> Handles \union {NoHandle}]

\* A slot is taken only by a call that will flush it, or by one that could not.
SlotsInUse ==
    \A u \in Users :
        /\ u \in flushFailed => userPC[u] = "idle"
        /\ u \notin flushFailed /\ userPC[u] \in {"idle", "load", "loadToStore"} => transient[u] = NoKey

\* Who uses a key uses one that was created.
UsedIsCreated ==
    \A u \in Users : userPC[u] # "idle" => userKey[u] \in Keys /\ material[userKey[u]] # NoKey

\* Who stores a key has loaded it, and has a handle to store it under.
StoresWhatIsLoaded ==
    \A u \in Users :
        /\ userPC[u] \in {"loadToStore", "clear", "store"} => target[u] \in Handles
        /\ userPC[u] \in {"clear", "store"} => transient[u] = material[userKey[u]]

\* Only a key that was created has a handle.
HandlesOfCreated == \A k \in Keys : persistentHandle[k] # NoHandle => material[k] # NoKey

TPMInv == TPMTypes /\ SlotsInUse /\ UsedIsCreated /\ StoresWhatIsLoaded /\ HandlesOfCreated /\ HandleHoldsKey

LEMMA TPMInitInv == TPMInit => TPMInv
    BY DEF TPMInit, TPMInv, TPMTypes, SlotsInUse, UsedIsCreated, StoresWhatIsLoaded, HandlesOfCreated, HandleHoldsKey

LEMMA CreateKeepsTPM ==
    ASSUME TPMInv, NEW k \in Keys, NEW m \in Materials, material[k] = NoKey, material' = [material EXCEPT ![k] = m],
           \/ UNCHANGED persistentHandle
           \/ \E h \in Handles : persistent[h] = m /\ persistentHandle' = [persistentHandle EXCEPT ![k] = h],
           UNCHANGED <<persistent, transient, userPC, userKey, target, flushFailed, reused>>
    PROVE  TPMInv'
    <1>0. TPMTypes /\ SlotsInUse /\ UsedIsCreated /\ StoresWhatIsLoaded /\ HandlesOfCreated /\ HandleHoldsKey
        BY DEF TPMInv
    <1>1. m # NoKey
        BY TPMAssumption
    <1>2. /\ material'[k] = m
          /\ \A j \in Keys : j # k => material'[j] = material[j] /\ persistentHandle'[j] = persistentHandle[j]
        BY <1>0 DEF TPMTypes
    <1>3. persistentHandle[k] = NoHandle
        BY <1>0 DEF HandlesOfCreated
    <1>4. persistentHandle'[k] # NoHandle => persistent[persistentHandle'[k]] = m
        BY <1>0, <1>3 DEF TPMTypes
    <1>5. TPMTypes'
        BY <1>0 DEF TPMTypes
    <1>6. UsedIsCreated'
        BY <1>0, <1>1, <1>2 DEF UsedIsCreated
    <1>7. StoresWhatIsLoaded'
        <2> SUFFICES ASSUME NEW u \in Users, userPC[u] \in {"clear", "store"}
                     PROVE  transient[u] = material'[userKey[u]]
            BY <1>0 DEF StoresWhatIsLoaded
        <2>1. userKey[u] \in Keys /\ userKey[u] # k
            BY <1>0 DEF UsedIsCreated
        <2> QED
            BY <1>0, <1>2, <2>1 DEF StoresWhatIsLoaded
    <1>8. HandlesOfCreated'
        BY <1>0, <1>1, <1>2 DEF HandlesOfCreated
    <1>9. HandleHoldsKey'
        BY <1>0, <1>2, <1>4 DEF HandleHoldsKey
    <1>10. SlotsInUse'
        BY <1>0 DEF SlotsInUse
    <1> QED
        BY <1>5, <1>6, <1>7, <1>8, <1>9, <1>10 DEF TPMInv

\* A step of one user that changes neither keys nor handles.
LEMMA UserStepKeepsTPM ==
    ASSUME TPMInv, NEW u \in Users, NEW pc \in {"idle", "load", "loadToStore", "use", "clear", "store", "flush"},
           userPC' = [userPC EXCEPT ![u] = pc],
           UNCHANGED <<persistent, material, persistentHandle, reused>>,
           TPMTypes',
           \A v \in Users \ {u} : /\ transient'[v] = transient[v] /\ userKey'[v] = userKey[v]
                                  /\ target'[v] = target[v] /\ (v \in flushFailed' <=> v \in flushFailed),
           u \in flushFailed' => pc = "idle",
           u \notin flushFailed' /\ pc \in {"idle", "load", "loadToStore"} => transient'[u] = NoKey,
           pc # "idle" => userKey'[u] \in Keys /\ material[userKey'[u]] # NoKey,
           pc \in {"loadToStore", "clear", "store"} => target'[u] \in Handles,
           pc \in {"clear", "store"} => transient'[u] = material[userKey'[u]]
    PROVE  TPMInv'
    <1>0. TPMTypes /\ SlotsInUse /\ UsedIsCreated /\ StoresWhatIsLoaded /\ HandlesOfCreated /\ HandleHoldsKey
        BY DEF TPMInv
    <1>1. userPC'[u] = pc /\ \A v \in Users \ {u} : userPC'[v] = userPC[v]
        BY <1>0 DEF TPMTypes
    <1>2. SlotsInUse'
        BY <1>0, <1>1 DEF SlotsInUse
    <1>3. UsedIsCreated'
        BY <1>0, <1>1 DEF UsedIsCreated
    <1>4. StoresWhatIsLoaded'
        BY <1>0, <1>1 DEF StoresWhatIsLoaded
    <1>5. HandlesOfCreated' /\ HandleHoldsKey'
        BY <1>0 DEF HandlesOfCreated, HandleHoldsKey
    <1> QED
        BY <1>2, <1>3, <1>4, <1>5 DEF TPMInv

LEMMA StartKeepsTPM ==
    ASSUME TPMInv, NEW u \in Users \ flushFailed, NEW k \in Keys,
           UseKey(u, k) \/ \E h \in Handles : MakePersistent(u, k, h)
    PROVE  TPMInv'
    <1>0. TPMTypes /\ SlotsInUse /\ UsedIsCreated /\ StoresWhatIsLoaded
        BY DEF TPMInv
    <1>1. PICK pc \in {"load", "use", "loadToStore"}, h \in Handles \union {NoHandle} :
             /\ userPC[u] = "idle" /\ material[k] # NoKey /\ (pc = "loadToStore" => h \in Handles)
             /\ userKey' = [userKey EXCEPT ![u] = k] /\ target' = [target EXCEPT ![u] = h]
             /\ userPC' = [userPC EXCEPT ![u] = pc]
             /\ UNCHANGED <<persistent, transient, material, persistentHandle, flushFailed, reused>>
        <2>1. CASE UseKey(u, k)
            <3>1. persistentHandle[k] \in Handles \union {NoHandle}
                BY <1>0 DEF TPMTypes
            <3> QED
                BY <2>1, <3>1 DEF UseKey, Goto
        <2>2. CASE \E h \in Handles : MakePersistent(u, k, h)
            BY <2>2 DEF MakePersistent, Goto
        <2> QED
            BY <2>1, <2>2
    <1>2. TPMTypes' /\ userKey'[u] = k /\ target'[u] = h
        BY <1>0, <1>1 DEF TPMTypes
    <1>3. transient[u] = NoKey
        BY <1>0, <1>1 DEF SlotsInUse
    <1>4. \A v \in Users \ {u} : userKey'[v] = userKey[v] /\ target'[v] = target[v]
        BY <1>0, <1>1 DEF TPMTypes
    <1> QED
        BY <1>1, <1>2, <1>3, <1>4, UserStepKeepsTPM

LEMMA UserStepInv ==
    ASSUME TPMInv, NEW u \in Users, UserStep(u)
    PROVE  TPMInv'
    <1>0. TPMTypes /\ SlotsInUse /\ UsedIsCreated /\ StoresWhatIsLoaded /\ HandlesOfCreated /\ HandleHoldsKey
        BY DEF TPMInv
    <1>1. CASE Load(u)
        <2>0. userPC[u] \in {"load", "loadToStore"} /\ u \notin flushFailed /\ transient[u] = NoKey
              /\ userKey[u] \in Keys /\ material[userKey[u]] \in Materials \union {NoKey}
              /\ material[userKey[u]] # NoKey
            BY <1>0, <1>1 DEF Load, SlotsInUse, UsedIsCreated, TPMTypes
        <2>1. CASE /\ transient' = [transient EXCEPT ![u] = material[userKey[u]]]
                   /\ Goto(u, IF userPC[u] = "load" THEN "use" ELSE "clear")
            <3>1. TPMTypes'
                BY <1>0, <1>1, <2>0, <2>1 DEF Load, Goto, TPMTypes
            <3>2. transient'[u] = material[userKey[u]] /\ \A v \in Users \ {u} : transient'[v] = transient[v]
                BY <1>0, <2>1 DEF TPMTypes
            <3>3. userPC[u] = "loadToStore" => target[u] \in Handles
                BY <1>0 DEF StoresWhatIsLoaded
            <3>4. UNCHANGED <<persistent, material, persistentHandle, userKey, target, flushFailed, reused>>
                BY <1>1 DEF Load
            <3> QED
                BY <2>0, <2>1, <3>1, <3>2, <3>3, <3>4, UserStepKeepsTPM DEF Goto
        <2>2. CASE Goto(u, "idle") /\ UNCHANGED transient
            <3>1. TPMTypes'
                BY <1>0, <1>1, <2>2 DEF Load, Goto, TPMTypes
            <3>2. UNCHANGED <<persistent, material, persistentHandle, userKey, target, flushFailed, reused>>
                BY <1>1 DEF Load
            <3> QED
                BY <2>0, <2>2, <3>1, <3>2, UserStepKeepsTPM DEF Goto
        <2> QED
            BY <1>1, <2>1, <2>2 DEF Load
    <1>2. CASE Use(u)
        <2>1. /\ userPC[u] = "use" /\ ReturnDeferred(u)
              /\ UNCHANGED <<persistent, transient, material, persistentHandle, userKey, target, flushFailed, reused>>
            BY <1>2 DEF Use
        <2>2. TPMTypes'
            BY <1>0, <2>1 DEF ReturnDeferred, Goto, TPMTypes
        <2>3. u \notin flushFailed /\ userKey[u] \in Keys /\ material[userKey[u]] # NoKey
            BY <1>0, <2>1 DEF SlotsInUse, UsedIsCreated
        <2> QED
            BY <2>1, <2>2, <2>3, UserStepKeepsTPM DEF ReturnDeferred, Goto
    <1>3. CASE ClearHandle(u)
        <2>0. /\ userPC[u] = "clear" /\ UNCHANGED <<transient, material, persistentHandle, userKey, target, flushFailed>>
            BY <1>3 DEF ClearHandle
        <2>1. /\ u \notin flushFailed /\ userKey[u] \in Keys /\ material[userKey[u]] # NoKey
              /\ target[u] \in Handles /\ transient[u] = material[userKey[u]]
            BY <1>0, <2>0 DEF SlotsInUse, UsedIsCreated, StoresWhatIsLoaded
        <2>2. CASE ReturnDeferred(u) /\ UNCHANGED <<persistent, reused>>
            <3>1. TPMTypes'
                BY <1>0, <2>0, <2>2 DEF ReturnDeferred, Goto, TPMTypes
            <3> QED
                BY <2>0, <2>1, <2>2, <3>1, UserStepKeepsTPM DEF ReturnDeferred, Goto
        <2>3. CASE /\ persistent' = [persistent EXCEPT ![target[u]] = NoKey] /\ Goto(u, "store")
                   /\ reused' = IF \E k \in Keys : persistentHandle[k] = target[u]
                                THEN reused \union {target[u]} ELSE reused
            <3>1. TPMTypes'
                BY <1>0, <2>0, <2>3 DEF Goto, TPMTypes
            <3>2. userPC'[u] = "store" /\ \A v \in Users \ {u} : userPC'[v] = userPC[v]
                BY <1>0, <2>3 DEF Goto, TPMTypes
            <3>3. SlotsInUse' /\ UsedIsCreated' /\ StoresWhatIsLoaded' /\ HandlesOfCreated'
                BY <1>0, <2>0, <2>1, <3>2 DEF SlotsInUse, UsedIsCreated, StoresWhatIsLoaded, HandlesOfCreated
            <3>4. HandleHoldsKey'
                <4> SUFFICES ASSUME NEW k \in Keys, persistentHandle[k] # NoHandle, persistentHandle[k] \notin reused'
                             PROVE  persistent'[persistentHandle[k]] = material[k]
                    BY <2>0 DEF HandleHoldsKey
                <4>1. persistentHandle[k] # target[u] /\ persistentHandle[k] \notin reused
                    BY <2>3
                <4>2. persistentHandle[k] \in Handles
                    BY <1>0 DEF TPMTypes
                <4> QED
                    BY <1>0, <2>3, <4>1, <4>2 DEF HandleHoldsKey, TPMTypes
            <3> QED
                BY <3>1, <3>3, <3>4 DEF TPMInv
        <2> QED
            BY <1>3, <2>2, <2>3 DEF ClearHandle
    <1>4. CASE StoreKey(u)
        <2>0. /\ userPC[u] = "store" /\ ReturnDeferred(u)
              /\ UNCHANGED <<transient, material, userKey, target, flushFailed, reused>>
            BY <1>4 DEF StoreKey
        <2>1. /\ u \notin flushFailed /\ userKey[u] \in Keys /\ material[userKey[u]] # NoKey
              /\ target[u] \in Handles /\ transient[u] = material[userKey[u]]
            BY <1>0, <2>0 DEF SlotsInUse, UsedIsCreated, StoresWhatIsLoaded
        <2>2. CASE UNCHANGED <<persistent, persistentHandle>>
            <3>1. TPMTypes'
                BY <1>0, <2>0, <2>2 DEF ReturnDeferred, Goto, TPMTypes
            <3> QED
                BY <2>0, <2>1, <2>2, <3>1, UserStepKeepsTPM DEF ReturnDeferred, Goto
        <2>3. CASE /\ persistent[target[u]] = NoKey
                   /\ persistent' = [persistent EXCEPT ![target[u]] = transient[u]]
                   /\ persistentHandle' = [persistentHandle EXCEPT ![userKey[u]] = target[u]]
            <3>1. TPMTypes'
                BY <1>0, <2>0, <2>1, <2>3 DEF ReturnDeferred, Goto, TPMTypes
            <3>2. userPC'[u] \in {"flush", "idle"} /\ (userPC'[u] = "idle" => transient[u] = NoKey)
                  /\ \A v \in Users \ {u} : userPC'[v] = userPC[v]
                BY <1>0, <2>0 DEF ReturnDeferred, Goto, TPMTypes
            <3>3. SlotsInUse' /\ UsedIsCreated' /\ StoresWhatIsLoaded'
                BY <1>0, <2>0, <2>1, <3>2 DEF SlotsInUse, UsedIsCreated, StoresWhatIsLoaded
            <3>4. /\ persistentHandle'[userKey[u]] = target[u]
                  /\ \A k \in Keys : k # userKey[u] => persistentHandle'[k] = persistentHandle[k]
                BY <1>0, <2>1, <2>3 DEF TPMTypes
            <3>5. HandlesOfCreated'
                BY <1>0, <2>0, <2>1, <3>4 DEF HandlesOfCreated
            <3>6. HandleHoldsKey'
                <4> SUFFICES ASSUME NEW k \in Keys, persistentHandle'[k] # NoHandle, persistentHandle'[k] \notin reused
                             PROVE  persistent'[persistentHandle'[k]] = material[k]
                    BY <2>0 DEF HandleHoldsKey
                <4>1. CASE k = userKey[u]
                    BY <1>0, <2>1, <2>3, <3>4, <4>1 DEF TPMTypes
                <4>2. CASE k # userKey[u]
                    <5>1. persistentHandle[k] \in Handles /\ persistent[persistentHandle[k]] = material[k]
                          /\ material[k] # NoKey
                        BY <1>0, <3>4, <4>2 DEF HandleHoldsKey, HandlesOfCreated, TPMTypes
                    <5>2. persistentHandle[k] # target[u]
                        BY <2>3, <5>1
                    <5> QED
                        BY <1>0, <2>3, <3>4, <4>2, <5>1, <5>2 DEF TPMTypes
                <4> QED
                    BY <4>1, <4>2
            <3> QED
                BY <3>1, <3>3, <3>5, <3>6 DEF TPMInv
        <2> QED
            BY <1>4, <2>2, <2>3 DEF StoreKey, NoteFailure
    <1>5. CASE FlushContext(u)
        <2>0. /\ Goto(u, "idle") /\ UNCHANGED <<persistent, material, persistentHandle, userKey, target, reused>>
            BY <1>5 DEF FlushContext
        <2>1. \/ transient' = [transient EXCEPT ![u] = NoKey] /\ flushFailed' = flushFailed
              \/ transient' = transient /\ flushFailed' = flushFailed \union {u}
            BY <1>5 DEF FlushContext
        <2>2. TPMTypes'
            BY <1>0, <2>0, <2>1 DEF Goto, TPMTypes
        <2>3. /\ \A v \in Users \ {u} : transient'[v] = transient[v] /\ (v \in flushFailed' <=> v \in flushFailed)
              /\ u \notin flushFailed' => transient'[u] = NoKey
            BY <1>0, <2>1 DEF TPMTypes
        <2> QED
            BY <2>0, <2>2, <2>3, UserStepKeepsTPM DEF Goto
    <1> QED
        BY <1>1, <1>2, <1>3, <1>4, <1>5 DEF UserStep

LEMMA TPMStepInv == TPMInv /\ [TPMNext]_tpmVars => TPMInv'
    <1> SUFFICES ASSUME TPMInv, [TPMNext]_tpmVars PROVE TPMInv'
        OBVIOUS
    <1>1. ASSUME NEW k \in Keys, NEW m \in Materials, CreateFromBlobs(k, m) PROVE TPMInv'
        BY <1>1, CreateKeepsTPM DEF CreateFromBlobs
    <1>2. ASSUME NEW k \in Keys, NEW h \in Handles, CreateFromPersistent(k, h) PROVE TPMInv'
        <2>1. persistent[h] \in Materials
            BY <1>2 DEF CreateFromPersistent, TPMInv, TPMTypes
        <2> QED
            BY <1>2, <2>1, CreateKeepsTPM DEF CreateFromPersistent
    <1>3. ASSUME NEW u \in Users \ flushFailed, NEW k \in Keys,
                 UseKey(u, k) \/ \E h \in Handles : MakePersistent(u, k, h)
          PROVE  TPMInv'
        BY <1>3, StartKeepsTPM
    <1>4. ASSUME NEW u \in Users, UserStep(u) PROVE TPMInv'
        BY <1>4, UserStepInv
    <1>5. CASE UNCHANGED tpmVars
        BY <1>5 DEF tpmVars, TPMInv, TPMTypes, SlotsInUse, UsedIsCreated, StoresWhatIsLoaded, HandlesOfCreated,
                    HandleHoldsKey
    <1> QED
        BY <1>1, <1>2, <1>3, <1>4, <1>5 DEF TPMNext

\* Sign, Decrypt and MakePersistent leave nothing in the TPM's transient slots but
\* what FlushContext could not remove, and a key is under the handle it was given
\* until another key is stored there, whichever calls of the TPM fail and however
\* goroutines interleave: for any number of keys, handles, slots and users.
THEOREM TPMObjectsStay == TPMSpec => []TPMObjectsKept
    <1>1. TPMInv => TPMObjectsKept
        BY DEF TPMInv, TPMObjectsKept, SlotsInUse, TransientSlotsFreed
    <1> QED
        BY <1>1, TPMInitInv, TPMStepInv, PTL DEF TPMSpec

-----------------------------------------------------------------------------
(***************************************************************************)
(* PEM files: the inductive invariant                                      *)
(***************************************************************************)

FileCells == [cert : PEMCerts, cell : Nat \ {0}]

\* The first n certificates of the chain are in the file, one after the other: the
\* k-th begins at pos[k], and the next one may be written at pos[n + 1].
Lies(file, chain, n, pos) ==
    /\ pos \in [1 .. n + 1 -> Nat \ {0}]
    /\ pos[1] = 1
    /\ \A i, k \in 1 .. n + 1 : i < k => pos[i] < pos[k]
    /\ pos[n + 1] <= Len(file) + 1
    /\ \A k \in 1 .. n : /\ pos[k + 1] = pos[k] + Length(chain[k])
                         /\ \A j \in 1 .. Length(chain[k]) :
                               file[pos[k] + j - 1] = [cert |-> chain[k], cell |-> j]

\* A certificate that begins is whole, and does not reach over the offset.
Whole(file, offset) ==
    \A k \in 1 .. Len(file) : file[k].cell = 1 =>
        /\ k \in Starts(file)
        /\ k <= offset => k + Length(file[k].cert) - 1 <= offset

\* What is written lies where the file was opened, a saved chain is all written,
\* and until a save fails inside a certificate no other is cut but at its begin.
FilesInv ==
    /\ certFile \in Seq(FileCells)
    /\ toSave \in Seq(PEMCerts)
    /\ saved \in Seq(PEMCerts)
    /\ written \in Nat
    /\ written = 0 \/ written < Len(toSave)
    /\ fileOffset \in Nat
    /\ \E pos : Lies(certFile, toSave, written, pos) /\ pos[written + 1] = fileOffset + 1
    /\ \E pos : Lies(certFile, saved, Len(saved), pos)
    /\ toSave # <<>> => saved = <<>>
    /\ torn \in BOOLEAN
    /\ ~ torn => Whole(certFile, fileOffset)
    /\ keyFile # NoKeyFile => keyFile.encoding \in Parsers(keyFile)

\* Nothing of a chain lies anywhere.
LEMMA NothingLies ==
    ASSUME NEW file, Len(file) \in Nat, NEW chain
    PROVE  \E pos : Lies(file, chain, 0, pos) /\ pos[1] = 1
    <1> DEFINE pos == [k \in 1 .. 0 + 1 |-> 1]
    <1>1. Lies(file, chain, 0, pos) /\ pos[1] = 1
        BY DEF Lies
    <1> QED
        BY <1>1

LEMMA OverwriteProps ==
    ASSUME NEW S, NEW old \in Seq(S), NEW new \in Seq(S), NEW offset \in Nat, offset <= Len(old)
    PROVE  /\ Overwrite(old, offset, new) \in Seq(S)
           /\ Len(Overwrite(old, offset, new)) >= offset + Len(new)
           /\ Len(Overwrite(old, offset, new)) >= Len(old)
           /\ \A k \in 1 .. Len(Overwrite(old, offset, new)) :
                 k > offset + Len(new) => k \in 1 .. Len(old) /\ Overwrite(old, offset, new)[k] = old[k]
           /\ \A k \in 1 .. offset : Overwrite(old, offset, new)[k] = old[k]
           /\ \A k \in 1 .. Len(new) : Overwrite(old, offset, new)[offset + k] = new[k]
    <1> DEFINE end == offset + Len(new)
               n == IF end > Len(old) THEN end ELSE Len(old)
               f == [k \in 1 .. n |-> IF k \in offset + 1 .. end THEN new[k - offset] ELSE old[k]]
    <1>1. n \in Nat /\ n >= end /\ n >= offset /\ n >= Len(old)
        OBVIOUS
    <1>2. ASSUME NEW k \in 1 .. n PROVE (IF k \in offset + 1 .. end THEN new[k - offset] ELSE old[k]) \in S
        <2>1. CASE k \in offset + 1 .. end
            <3>1. k - offset \in 1 .. Len(new)
                BY <2>1
            <3> QED
                BY <2>1, <3>1
        <2>2. CASE k \notin offset + 1 .. end
            <3>1. k \in 1 .. Len(old)
                BY <2>2
            <3> QED
                BY <2>2, <3>1
        <2> QED
            BY <2>1, <2>2
    <1>3. Overwrite(old, offset, new) = f
        BY DEF Overwrite
    <1>4. f \in [1 .. n -> S]
        BY <1>2
    <1>5. \A k \in 1 .. offset : f[k] = old[k]
        BY <1>1
    <1>6. ASSUME NEW k \in 1 .. Len(new) PROVE f[offset + k] = new[k]
        <2>1. offset + k \in 1 .. n /\ offset + k \in offset + 1 .. end /\ (offset + k) - offset = k
            BY <1>1
        <2> QED
            BY <2>1
    <1>8. \A k \in 1 .. n : k > end => k \in 1 .. Len(old) /\ f[k] = old[k]
        OBVIOUS
    <1> HIDE DEF f, n
    <1>7. f \in Seq(S) /\ Len(f) = n
        BY <1>1, <1>4
    <1> QED
        BY <1>1, <1>3, <1>5, <1>6, <1>7, <1>8

\* An encoded certificate.
LEMMA CellsProps ==
    ASSUME NEW c \in PEMCerts
    PROVE  /\ Cells(c) \in Seq(FileCells) /\ Len(Cells(c)) = Length(c)
           /\ \A j \in 1 .. Length(c) : Cells(c)[j] = [cert |-> c, cell |-> j]
    <1> DEFINE len == Length(c)
    <1>1. len \in Nat \ {0}
        BY LengthAssumption
    <1>2. Cells(c) = [j \in 1 .. len |-> [cert |-> c, cell |-> j]]
        BY DEF Cells
    <1>3. \A j \in 1 .. len : [cert |-> c, cell |-> j] \in FileCells
        BY <1>1 DEF FileCells
    <1> HIDE DEF len
    <1>4. Cells(c) \in Seq(FileCells) /\ Len(Cells(c)) = len
              /\ \A j \in 1 .. len : Cells(c)[j] = [cert |-> c, cell |-> j]
        BY <1>1, <1>2, <1>3
    <1> QED
        BY <1>4 DEF len

\* Writing a certificate cuts others only at their begin.
LEMMA WholeStays ==
    ASSUME NEW file \in Seq(FileCells), NEW offset \in Nat, offset <= Len(file), Whole(file, offset),
           NEW c \in PEMCerts, NEW new, new = Overwrite(file, offset, Cells(c))
    PROVE  Whole(new, offset + Length(c))
    <1> DEFINE len == Length(c)
    <1>1. len \in Nat \ {0}
        BY LengthAssumption
    <1>2. /\ new \in Seq(FileCells) /\ Len(new) \in Nat
          /\ Len(new) >= offset + len /\ Len(new) >= Len(file)
          /\ \A k \in 1 .. Len(new) : k > offset + len => k \in 1 .. Len(file) /\ new[k] = file[k]
          /\ \A k \in 1 .. offset : new[k] = file[k]
          /\ \A k \in 1 .. len : new[offset + k] = [cert |-> c, cell |-> k]
        <2>1. /\ new \in Seq(FileCells)
              /\ Len(new) >= offset + len /\ Len(new) >= Len(file)
              /\ \A k \in 1 .. Len(new) : k > offset + len => k \in 1 .. Len(file) /\ new[k] = file[k]
              /\ \A k \in 1 .. offset : new[k] = file[k]
              /\ \A k \in 1 .. len : new[offset + k] = Cells(c)[k]
            BY CellsProps, OverwriteProps
        <2> QED
            BY <2>1, CellsProps
    <1> SUFFICES ASSUME NEW k \in 1 .. Len(new), new[k].cell = 1
                 PROVE  /\ k \in Starts(new)
                        /\ k <= offset + len => k + Length(new[k].cert) - 1 <= offset + len
        BY DEF Whole
    <1> DEFINE l == Length(new[k].cert)
    <1>3. new[k] \in FileCells /\ l \in Nat \ {0}
        <2>1. new[k] \in FileCells
            BY <1>2
        <2>2. new[k].cert \in PEMCerts
            BY <2>1 DEF FileCells
        <2> QED
            BY <2>1, <2>2, LengthAssumption
    <1> HIDE DEF len, l
    <1>4. CASE k <= offset
        <2>1. k \in 1 .. Len(file) /\ new[k] = file[k]
            BY <1>2, <1>4
        <2>2. k \in Starts(file) /\ k + l - 1 <= offset
            BY <1>4, <2>1 DEF Whole, l
        <2>3. \A j \in 0 .. l - 1 : file[k + j] = [cert |-> new[k].cert, cell |-> j + 1]
            BY <2>1, <2>2 DEF Starts, l
        <2>4. \A j \in 0 .. l - 1 : k + j \in 1 .. offset
            BY <1>3, <2>2
        <2>5. \A j \in 0 .. l - 1 : new[k + j] = [cert |-> new[k].cert, cell |-> j + 1]
            BY <1>2, <2>3, <2>4
        <2>6. k + l - 1 <= Len(new) /\ k + l - 1 <= offset + len
            BY <1>1, <1>2, <1>3, <2>2
        <2> QED
            BY <1>2, <2>5, <2>6 DEF Starts, l
    <1>5. CASE k > offset /\ k <= offset + len
        <2>1. k - offset \in 1 .. len /\ k = offset + (k - offset)
            BY <1>1, <1>5
        <2>2. new[k] = [cert |-> c, cell |-> k - offset]
            BY <1>2, <2>1
        <2>3. k - offset = 1
            BY <2>2
        <2>4. k = offset + 1 /\ l = len
            BY <2>1, <2>2, <2>3 DEF l, len
        <2>5. \A j \in 0 .. l - 1 : j + 1 \in 1 .. len /\ k + j = offset + (j + 1)
            BY <1>1, <2>4
        <2>6. \A j \in 0 .. l - 1 : new[k + j] = [cert |-> new[k].cert, cell |-> j + 1]
            <3>1. new[k].cert = c
                BY <2>2
            <3>2. \A i \in 1 .. len : new[offset + i] = [cert |-> c, cell |-> i]
                BY <1>2
            <3> SUFFICES ASSUME NEW j \in 0 .. l - 1
                         PROVE  new[k + j] = [cert |-> c, cell |-> j + 1]
                BY <3>1
            <3>3. new[offset + (j + 1)] = [cert |-> c, cell |-> j + 1]
                BY <2>5, <3>2
            <3> QED
                BY <2>5, <3>3
        <2>7. k + l - 1 <= Len(new) /\ k + l - 1 <= offset + len
            BY <1>1, <1>2, <2>4
        <2> QED
            BY <1>2, <2>6, <2>7 DEF Starts, l
    <1>6. CASE k > offset + len
        <2>1. k \in 1 .. Len(file) /\ new[k] = file[k]
            BY <1>2, <1>6
        <2>2. k \in Starts(file)
            BY <2>1 DEF Whole
        <2>3. k + l - 1 <= Len(file) /\ \A j \in 0 .. l - 1 : file[k + j] = [cert |-> new[k].cert, cell |-> j + 1]
            BY <2>1, <2>2 DEF Starts, l
        <2>4. \A j \in 0 .. l - 1 : k + j \in 1 .. Len(new) /\ k + j > offset + len
            BY <1>1, <1>2, <1>3, <1>6, <2>3
        <2>5. \A j \in 0 .. l - 1 : new[k + j] = [cert |-> new[k].cert, cell |-> j + 1]
            BY <1>2, <2>3, <2>4
        <2>6. k + l - 1 <= Len(new) /\ ~ k <= offset + len
            BY <1>1, <1>2, <1>3, <1>6, <2>3
        <2> QED
            BY <1>2, <2>5, <2>6 DEF Starts, l
    <1> QED
        BY <1>1, <1>4, <1>5, <1>6 DEF len, l

\* Writing the next certificate behind those that are written.
LEMMA WriteLies ==
    ASSUME NEW file \in Seq(FileCells), NEW chain \in Seq(PEMCerts), NEW n \in Nat, n < Len(chain),
           NEW pos, Lies(file, chain, n, pos),
           NEW offset \in Nat, pos[n + 1] = offset + 1,
           NEW new, new = Overwrite(file, offset, Cells(chain[n + 1]))
    PROVE  /\ new \in Seq(FileCells)
           /\ Len(Cells(chain[n + 1])) = Length(chain[n + 1])
           /\ \E q : /\ Lies(new, chain, n + 1, q)
                     /\ q[(n + 1) + 1] = offset + Length(chain[n + 1]) + 1
    <1> DEFINE c == chain[n + 1]
               len == Length(c)
               cells == Cells(c)
    <1>1. c \in PEMCerts /\ len \in Nat \ {0}
        BY LengthAssumption
    <1>2. cells \in Seq(FileCells) /\ Len(cells) = len /\ \A j \in 1 .. len : cells[j] = [cert |-> c, cell |-> j]
        <2> HIDE DEF c
        <2> QED
            BY <1>1, CellsProps
    <1>3. offset <= Len(file)
        BY DEF Lies
    <1> HIDE DEF c, len, cells
    <1>4. /\ new \in Seq(FileCells)
          /\ Len(new) >= offset + len
          /\ \A k \in 1 .. offset : new[k] = file[k]
          /\ \A k \in 1 .. len : new[offset + k] = cells[k]
        BY <1>2, <1>3, OverwriteProps DEF cells, c
    <1> DEFINE q == [k \in 1 .. (n + 1) + 1 |-> IF k \in 1 .. n + 1 THEN pos[k] ELSE offset + len + 1]
    <1>5. /\ q \in [1 .. (n + 1) + 1 -> Nat \ {0}] /\ q[(n + 1) + 1] = offset + len + 1
          /\ \A k \in 1 .. n + 1 : q[k] = pos[k]
        BY <1>1 DEF Lies
    <1>6. \A k \in 1 .. n + 1 : pos[k] <= offset + 1
        BY DEF Lies
    <1>7. \A i, k \in 1 .. (n + 1) + 1 : i < k => q[i] < q[k]
        <2> SUFFICES ASSUME NEW i \in 1 .. (n + 1) + 1, NEW k \in 1 .. (n + 1) + 1, i < k
                     PROVE  q[i] < q[k]
            OBVIOUS
        <2> HIDE DEF q
        <2>1. CASE k = (n + 1) + 1
            <3>1. i \in 1 .. n + 1
                BY <2>1
            <3>2. q[i] <= offset + 1 /\ q[i] \in Nat
                BY <1>5, <1>6, <3>1
            <3> QED
                BY <1>1, <1>5, <2>1, <3>2
        <2>2. CASE k # (n + 1) + 1
            <3>1. i \in 1 .. n + 1 /\ k \in 1 .. n + 1
                BY <2>2
            <3> QED
                BY <1>5, <3>1 DEF Lies
        <2> QED
            BY <2>1, <2>2
    <1>8. q[1] = 1
        BY <1>5 DEF Lies
    <1> HIDE DEF q
    <1>9. ASSUME NEW k \in 1 .. n + 1
          PROVE  /\ q[k + 1] = q[k] + Length(chain[k])
                 /\ \A j \in 1 .. Length(chain[k]) : new[q[k] + j - 1] = [cert |-> chain[k], cell |-> j]
        <2>1. CASE k = n + 1
            <3>1. q[k] = offset + 1 /\ q[k + 1] = offset + len + 1
                BY <1>5, <2>1
            <3>2. \A j \in 1 .. len : (offset + 1) + j - 1 = offset + j
                BY <1>1
            <3>3. \A j \in 1 .. len : new[q[k] + j - 1] = [cert |-> c, cell |-> j]
                BY <1>2, <1>4, <3>1, <3>2
            <3>4. q[k + 1] = q[k] + len
                BY <1>1, <3>1
            <3> QED
                BY <2>1, <3>3, <3>4 DEF c, len
        <2>2. CASE k # n + 1
            <3>1. k \in 1 .. n /\ k + 1 \in 1 .. n + 1
                BY <2>2
            <3>2. q[k] = pos[k] /\ q[k + 1] = pos[k + 1] /\ pos[k] \in Nat \ {0}
                BY <1>5, <3>1 DEF Lies
            <3>3. /\ pos[k + 1] = pos[k] + Length(chain[k])
                  /\ \A j \in 1 .. Length(chain[k]) : file[pos[k] + j - 1] = [cert |-> chain[k], cell |-> j]
                BY <3>1 DEF Lies
            <3>4. Length(chain[k]) \in Nat /\ pos[k + 1] <= offset + 1
                BY <1>6, <3>1, LengthAssumption
            <3>5. \A j \in 1 .. Length(chain[k]) : pos[k] + j - 1 \in 1 .. offset
                <4> SUFFICES ASSUME NEW j \in 1 .. Length(chain[k]) PROVE pos[k] + j - 1 \in 1 .. offset
                    OBVIOUS
                <4>1. j \in Nat /\ 1 <= j /\ j <= Length(chain[k])
                    BY <3>4
                <4>2. pos[k] + Length(chain[k]) <= offset + 1
                    BY <3>3, <3>4
                <4> QED
                    BY <3>2, <3>4, <4>1, <4>2
            <3> QED
                BY <1>4, <3>2, <3>3, <3>5
        <2> QED
            BY <2>1, <2>2
    <1>10. q[(n + 1) + 1] <= Len(new) + 1
        BY <1>1, <1>4, <1>5
    <1>11. Lies(new, chain, n + 1, q)
        BY <1>5, <1>7, <1>8, <1>9, <1>10 DEF Lies
    <1> QED
        BY <1>2, <1>4, <1>5, <1>11 DEF len, c, cells

LEMMA FilesInvInit == FilesInit => FilesInv
    <1> SUFFICES ASSUME FilesInit PROVE FilesInv
        OBVIOUS
    <1>1. Len(certFile) = 0 /\ certFile = <<>> /\ toSave = <<>> /\ saved = <<>>
        BY DEF FilesInit
    <1>2. PICK pos : Lies(certFile, <<>>, 0, pos) /\ pos[1] = 1
        BY <1>1, NothingLies
    <1>3. torn \in BOOLEAN
        BY Zenon DEF FilesInit
    <1>4. Whole(certFile, fileOffset)
        BY <1>1 DEF Whole
    <1> QED
        BY <1>1, <1>2, <1>3, <1>4 DEF FilesInit, FilesInv

\* SaveCertificateToFile begins at the first cell again, over what lay there.
LEMMA FilesInvStep ==
    ASSUME FilesInv, [FilesNext]_fileVars
    PROVE  FilesInv'
    <1>0. /\ certFile \in Seq(FileCells) /\ toSave \in Seq(PEMCerts) /\ saved \in Seq(PEMCerts)
          /\ written \in Nat /\ fileOffset \in Nat
          /\ (written = 0 \/ written < Len(toSave)) /\ (toSave # <<>> => saved = <<>>)
          /\ torn \in BOOLEAN /\ (~ torn => Whole(certFile, fileOffset))
          /\ keyFile # NoKeyFile => keyFile.encoding \in Parsers(keyFile)
        BY DEF FilesInv
    <1>1. PICK p : Lies(certFile, toSave, written, p) /\ p[written + 1] = fileOffset + 1
        BY DEF FilesInv
    <1>2. PICK s : Lies(certFile, saved, Len(saved), s)
        BY DEF FilesInv
    <1>3. ASSUME NEW chain \in Chains, SaveCertificateToFile(chain)
          PROVE  FilesInv'
        <2>1. chain \in Seq(PEMCerts) /\ toSave' = chain /\ saved' = <<>> /\ written' = written
                  /\ certFile' = certFile /\ fileOffset' = fileOffset /\ keyFile' = keyFile
                  /\ toSave = <<>> /\ torn' = torn
            BY <1>3 DEF Chains, SaveCertificateToFile
        <2>2. written = 0 /\ Len(certFile) \in Nat
            BY <1>0, <2>1
        <2>3. PICK q : Lies(certFile, chain, 0, q) /\ q[1] = 1
            BY <2>2, NothingLies
        <2>4. fileOffset = 0
            BY <1>0, <1>1, <2>2 DEF Lies
        <2>5. PICK t : Lies(certFile, <<>>, 0, t) /\ t[1] = 1
            BY <2>2, NothingLies
        <2> QED
            BY <1>0, <2>1, <2>2, <2>3, <2>4, <2>5 DEF FilesInv
    <1>4. CASE WriteCertificate
        <2> DEFINE cells == Cells(toSave[written + 1])
        <2>0. /\ toSave # <<>> /\ keyFile' = keyFile
              /\ \/ /\ certFile' = Overwrite(certFile, fileOffset, cells) /\ torn' = torn
                    /\ \/ /\ written + 1 = Len(toSave) /\ saved' = toSave
                          /\ toSave' = <<>> /\ written' = 0 /\ fileOffset' = 0
                       \/ /\ written + 1 < Len(toSave) /\ written' = written + 1
                          /\ fileOffset' = fileOffset + Len(cells)
                          /\ toSave' = toSave /\ saved' = saved
                 \/ \E n \in 0 .. Len(cells) - 1 :
                       /\ certFile' = Overwrite(certFile, fileOffset, SubSeq(cells, 1, n))
                       /\ torn' = (torn \/ n > 0) /\ saved' = saved
                       /\ toSave' = <<>> /\ written' = 0 /\ fileOffset' = 0
            BY <1>4 DEF WriteCertificate, CloseCertFile
        <2>a. toSave[written + 1] \in PEMCerts /\ fileOffset <= Len(certFile) /\ written < Len(toSave)
            <3>1. written < Len(toSave)
                BY <1>0, <2>0
            <3> QED
                BY <1>0, <1>1, <3>1 DEF Lies
        <2>b. cells \in Seq(FileCells) /\ Len(cells) = Length(toSave[written + 1])
            BY <2>a, CellsProps
        <2>1. ASSUME NEW n \in 0 .. Len(cells) - 1,
                     certFile' = Overwrite(certFile, fileOffset, SubSeq(cells, 1, n)),
                     torn' = (torn \/ n > 0), saved' = saved,
                     toSave' = <<>>, written' = 0, fileOffset' = 0
              PROVE  FilesInv'
            <3> HIDE DEF cells
            <3> DEFINE part == SubSeq(cells, 1, n)
            <3>1. part \in Seq(FileCells) /\ Len(part) = n /\ n \in Nat
                BY <2>b
            <3> HIDE DEF part
            <3>2. certFile' = Overwrite(certFile, fileOffset, part)
                BY <2>1 DEF part
            <3>3. /\ certFile' \in Seq(FileCells) /\ Len(certFile') \in Nat
                  /\ Len(certFile') >= Len(certFile)
                  /\ \A k \in 1 .. Len(certFile') :
                        k > fileOffset + n => k \in 1 .. Len(certFile) /\ certFile'[k] = certFile[k]
                  /\ \A k \in 1 .. fileOffset : certFile'[k] = certFile[k]
                <4> DEFINE new == Overwrite(certFile, fileOffset, part)
                <4>1. certFile \in Seq(FileCells) /\ fileOffset \in Nat /\ fileOffset <= Len(certFile)
                    BY <1>0, <2>a
                <4>2. /\ new \in Seq(FileCells)
                      /\ Len(new) >= Len(certFile)
                      /\ \A k \in 1 .. Len(new) :
                            k > fileOffset + Len(part) => k \in 1 .. Len(certFile) /\ new[k] = certFile[k]
                      /\ \A k \in 1 .. fileOffset : new[k] = certFile[k]
                    BY <3>1, <4>1, OverwriteProps
                <4> HIDE DEF new
                <4>3. certFile' = new /\ Len(new) \in Nat /\ Len(part) = n
                    BY <3>1, <3>2, <4>2 DEF new
                <4> QED
                    BY <4>2, <4>3
            <3>4. torn' \in BOOLEAN
                BY <2>1, Zenon
            <3>5. ASSUME ~ torn' PROVE Whole(certFile, fileOffset)'
                <4>0. ~ (n > 0) /\ ~ torn
                    BY <2>1, <3>5, Zenon
                <4>1. n = 0 /\ ~ torn
                    BY <3>1, <4>0
                <4>2. Len(certFile') = Len(certFile)
                    <5>1. ASSUME Len(certFile') > Len(certFile) PROVE FALSE
                        <6> DEFINE k == Len(certFile')
                        <6>1. k \in 1 .. k /\ k > fileOffset + n /\ Len(certFile) \in Nat
                            BY <1>0, <2>a, <3>3, <4>1, <5>1
                        <6>2. k \in 1 .. Len(certFile)
                            BY <3>3, <6>1
                        <6> QED
                            BY <5>1, <6>1, <6>2
                    <5> QED
                        BY <1>0, <3>3, <5>1
                <4>3. \A k \in 1 .. Len(certFile) : certFile'[k] = certFile[k]
                    BY <1>0, <2>a, <3>3, <4>1, <4>2
                <4>4. certFile' = certFile
                    BY <1>0, <3>3, <4>2, <4>3
                <4> QED
                    BY <1>0, <2>1, <4>1, <4>4 DEF Whole
            <3>6. saved = <<>> /\ Len(saved) = 0
                BY <1>0, <2>0
            <3>7. PICK q : Lies(certFile', <<>>, 0, q) /\ q[1] = 1
                BY <3>3, NothingLies
            <3>8. <<>> \in Seq(PEMCerts)
                OBVIOUS
            <3>9. /\ Lies(certFile', toSave', written', q) /\ q[written' + 1] = fileOffset' + 1
                  /\ Lies(certFile', saved', Len(saved'), q)
                BY <2>1, <3>6, <3>7
            <3> QED
                BY <1>0, <2>0, <2>1, <3>3, <3>4, <3>5, <3>8, <3>9 DEF FilesInv
        <2>2. ASSUME certFile' = Overwrite(certFile, fileOffset, cells), torn' = torn,
                     \/ /\ written + 1 = Len(toSave) /\ saved' = toSave
                        /\ toSave' = <<>> /\ written' = 0 /\ fileOffset' = 0
                     \/ /\ written + 1 < Len(toSave) /\ written' = written + 1
                        /\ fileOffset' = fileOffset + Len(cells)
                        /\ toSave' = toSave /\ saved' = saved
              PROVE  FilesInv'
            <3> DEFINE new == Overwrite(certFile, fileOffset, Cells(toSave[written + 1]))
                       len == Length(toSave[written + 1])
            <3>1. /\ toSave # <<>> /\ certFile' = new /\ keyFile' = keyFile
                  /\ \/ /\ written + 1 = Len(toSave) /\ saved' = toSave
                        /\ toSave' = <<>> /\ written' = 0 /\ fileOffset' = 0
                     \/ /\ written + 1 < Len(toSave) /\ written' = written + 1
                        /\ fileOffset' = fileOffset + Len(Cells(toSave[written + 1]))
                        /\ toSave' = toSave /\ saved' = saved
                BY <2>0, <2>2
            <3>w. ~ torn => Whole(new, fileOffset + len) /\ Whole(new, 0)
                <4>1. ~ torn => Whole(new, fileOffset + len)
                    BY <1>0, <2>a, WholeStays
                <4> HIDE DEF new, len
                <4> QED
                    BY <4>1 DEF Whole
            <3>2. written < Len(toSave)
                BY <1>0, <3>1
            <3>3. /\ new \in Seq(FileCells)
                  /\ Len(Cells(toSave[written + 1])) = len
                  /\ \E q : Lies(new, toSave, written + 1, q) /\ q[(written + 1) + 1] = fileOffset + len + 1
                <4>1. new = Overwrite(certFile, fileOffset, Cells(toSave[written + 1]))
                    OBVIOUS
                <4> HIDE DEF new
                <4> QED
                    BY <1>0, <1>1, <3>2, <4>1, WriteLies
            <3>4. PICK q : Lies(new, toSave, written + 1, q) /\ q[(written + 1) + 1] = fileOffset + len + 1
                BY <3>3
            <3>5. len \in Nat
                BY <1>0, <3>2, LengthAssumption
            <3> HIDE DEF new, len
            <3>6. PICK t : Lies(new, <<>>, 0, t) /\ t[1] = 1
                BY <3>3, NothingLies
            <3>7. CASE written + 1 = Len(toSave) /\ saved' = toSave /\ toSave' = <<>> /\ written' = 0
                           /\ fileOffset' = 0
                <4>1. Lies(certFile', saved', Len(saved'), q)
                    BY <3>1, <3>4, <3>7
                <4>2. Lies(certFile', toSave', written', t) /\ t[written' + 1] = fileOffset' + 1
                    BY <3>1, <3>6, <3>7
                <4>3. <<>> \in Seq(PEMCerts)
                    OBVIOUS
                <4> QED
                    BY <1>0, <2>2, <3>1, <3>3, <3>7, <3>w, <4>1, <4>2, <4>3 DEF FilesInv
            <3>8. CASE written + 1 < Len(toSave) /\ written' = written + 1 /\ fileOffset' = fileOffset + len
                           /\ toSave' = toSave /\ saved' = saved
                <4>1. Lies(certFile', toSave', written', q) /\ q[written' + 1] = fileOffset' + 1
                    BY <1>0, <3>1, <3>4, <3>8
                <4>2. saved = <<>> /\ Len(saved) = 0
                    BY <1>0, <3>1
                <4>3. Lies(certFile', saved', Len(saved'), t)
                    BY <3>1, <3>6, <3>8, <4>2
                <4> QED
                    BY <1>0, <2>2, <3>1, <3>3, <3>5, <3>8, <3>w, <4>1, <4>3 DEF FilesInv
            <3> QED
                BY <3>1, <3>3, <3>7, <3>8
        <2> QED
            BY <2>0, <2>1, <2>2
    <1>5. CASE SavePrivateKeyToFile
        <2>1. certFile' = certFile /\ toSave' = toSave /\ written' = written /\ fileOffset' = fileOffset
                  /\ saved' = saved /\ torn' = torn
            BY <1>5 DEF SavePrivateKeyToFile
        <2>2. ASSUME NEW kind \in {"rsa", "ecdsa"}, keyFile' = PrivateKeyToPEM(kind)
              PROVE  (keyFile.encoding \in Parsers(keyFile))'
            BY <2>2 DEF PrivateKeyToPEM, Parsers
        <2>3. ASSUME NEW kind \in {"rsa", "ecdsa"},
                     keyFile' = [type |-> "none", encoding |-> "PKCS8", key |-> kind]
              PROVE  (keyFile.encoding \in Parsers(keyFile))'
            BY <2>3 DEF Parsers, Encodings
        <2>4. (keyFile.encoding \in Parsers(keyFile))'
            BY <1>5, <2>2, <2>3 DEF SavePrivateKeyToFile, KeyKinds
        <2> QED
            BY <2>1, <2>4 DEF FilesInv
    <1>6. CASE UNCHANGED fileVars
        BY <1>6 DEF fileVars, FilesInv
    <1> QED
        BY <1>3, <1>4, <1>5, <1>6 DEF FilesNext

\* Where one certificate after the other lies, the k-th of them is the k-th block
\* that is found.
LEMMA StartsAreFound ==
    ASSUME NEW file \in Seq(FileCells), NEW chain \in Seq(PEMCerts), NEW pos,
           Lies(file, chain, Len(chain), pos), NEW k \in 1 .. Len(chain)
    PROVE  /\ k \in 1 .. Cardinality(Starts(file))
           /\ NthStart(Starts(file), k) = pos[k]
           /\ file[pos[k]].cert = chain[k]
    <1> DEFINE n == Len(chain)
               S == Starts(file)
               upTo(x) == {j \in S : j <= x}
    <1>1. /\ n \in Nat /\ Len(file) \in Nat /\ DOMAIN file = 1 .. Len(file)
          /\ \A i \in 1 .. n : chain[i] \in PEMCerts /\ Length(chain[i]) \in Nat \ {0}
          /\ \A i \in 1 .. n + 1 : pos[i] \in Nat \ {0}
        <2>1. \A i \in 1 .. n : chain[i] \in PEMCerts
            OBVIOUS
        <2>2. \A i \in 1 .. n + 1 : pos[i] \in Nat \ {0}
            BY DEF Lies
        <2>3. n \in Nat /\ Len(file) \in Nat /\ DOMAIN file = 1 .. Len(file)
            OBVIOUS
        <2> QED
            BY <2>1, <2>2, <2>3, LengthAssumption
    <1>10. \A i, j \in 1 .. n + 1 : i <= j => pos[i] <= pos[j]
        <2> SUFFICES ASSUME NEW i \in 1 .. n + 1, NEW j \in 1 .. n + 1, i <= j
                     PROVE  pos[i] <= pos[j]
            OBVIOUS
        <2>1. i = j \/ i < j
            BY <1>1
        <2>2. i < j => pos[i] < pos[j]
            BY DEF Lies
        <2> QED
            BY <1>1, <2>1, <2>2
    <1> HIDE DEF n, S
    <1>2. ASSUME NEW i \in 1 .. n
          PROVE  /\ pos[i + 1] = pos[i] + Length(chain[i])
                 /\ pos[i + 1] <= Len(file) + 1
                 /\ \A j \in 1 .. Length(chain[i]) : file[pos[i] + j - 1] = [cert |-> chain[i], cell |-> j]
        <2>4. i + 1 \in 1 .. n + 1 /\ n + 1 \in 1 .. n + 1 /\ i + 1 <= n + 1
            BY <1>1
        <2>2. pos[i + 1] <= pos[n + 1]
            BY <1>10, <2>4
        <2>3. pos[n + 1] <= Len(file) + 1
            BY DEF Lies, n
        <2>5. pos[i + 1] <= Len(file) + 1
            BY <1>1, <2>2, <2>3, <2>4
        <2> QED
            BY <2>5 DEF Lies, n
    <1>0. k \in 1 .. n
        BY DEF n
    <1>3. ASSUME NEW i \in 1 .. n
          PROVE  pos[i] \in S /\ file[pos[i]].cert = chain[i]
        <2>1. pos[i] \in Nat \ {0} /\ Length(chain[i]) \in Nat \ {0}
            BY <1>1
        <2>2. file[pos[i]] = [cert |-> chain[i], cell |-> 1]
            <3>1. pos[i] + 1 - 1 = pos[i] /\ 1 \in 1 .. Length(chain[i])
                BY <2>1
            <3> QED
                BY <1>2, <3>1
        <2>3. pos[i] \in 1 .. Len(file) /\ pos[i] + Length(chain[i]) - 1 <= Len(file)
            BY <1>1, <1>2, <2>1
        <2>4. ASSUME NEW j \in 0 .. Length(chain[i]) - 1
              PROVE  file[pos[i] + j] = [cert |-> chain[i], cell |-> j + 1]
            <3>1. j + 1 \in 1 .. Length(chain[i]) /\ pos[i] + (j + 1) - 1 = pos[i] + j
                BY <2>1
            <3> QED
                BY <1>2, <3>1
        <2> QED
            BY <1>1, <2>2, <2>3, <2>4 DEF Starts, S
    <1>4. ASSUME NEW x \in S, x <= pos[k]
          PROVE  \E i \in 1 .. k : x = pos[i]
        <2> DEFINE I == {i \in 1 .. k : pos[i] <= x}
        <2>1. x \in Nat \ {0} /\ x \in 1 .. Len(file) /\ file[x].cell = 1
            BY <1>1 DEF Starts, S
        <2>2. 1 \in I /\ I \in SUBSET Nat /\ \A i \in I : i <= k
            BY <1>1, <1>0, <2>1 DEF Lies
        <2>3. PICK i \in I : \A j \in I : j <= i
            <3>1. k \in Nat /\ I # {} /\ I \subseteq Nat
                BY <1>0, <1>1, <2>2
            <3> HIDE DEF I
            <3> QED
                BY <2>2, <3>1, GreatestNatural
        <2>4. i \in 1 .. n /\ i + 1 \in 1 .. n + 1 /\ i \in 1 .. k /\ pos[i] <= x
            BY <1>0, <1>1, <2>3
        <2>5. CASE i = k
            BY <1>1, <1>4, <2>1, <2>4, <2>5
        <2>6. CASE i # k
            <3>1. i + 1 \in 1 .. k
                BY <1>0, <1>1, <2>4, <2>6
            <3>2. x < pos[i + 1]
                BY <1>1, <2>1, <2>3, <2>4, <3>1
            <3> DEFINE j == x - pos[i] + 1
            <3>3. pos[i] \in Nat /\ Length(chain[i]) \in Nat /\ pos[i + 1] = pos[i] + Length(chain[i])
                BY <1>1, <1>2, <2>4
            <3>4. j \in 1 .. Length(chain[i]) /\ pos[i] + j - 1 = x
                BY <2>1, <2>4, <3>2, <3>3
            <3>5. file[x] = [cert |-> chain[i], cell |-> j]
                BY <1>2, <2>4, <3>4
            <3>6. j = 1
                BY <2>1, <3>5
            <3> QED
                BY <2>1, <2>4, <3>3, <3>6
        <2> QED
            BY <2>5, <2>6
    <1>5. \A i \in 1 .. k : pos[i] \in S /\ pos[i] <= pos[k]
        <2>1. \A i \in 1 .. k : i \in 1 .. n /\ i \in 1 .. n + 1 /\ i <= k
            BY <1>0, <1>1
        <2>2. \A i \in 1 .. k : pos[i] <= pos[k]
            BY <1>0, <1>1, <1>10, <2>1
        <2> QED
            BY <1>3, <2>1, <2>2
    <1>6. IsFiniteSet(S) /\ S \in SUBSET Nat
        <2>1. S \in SUBSET (1 .. Len(file))
            BY <1>1 DEF Starts, S
        <2>2. IsFiniteSet(1 .. Len(file))
            BY <1>1, FS_Interval
        <2>3. IsFiniteSet(S)
            BY <2>1, <2>2, FS_Subset
        <2> QED
            BY <1>1, <2>1, <2>3
    <1>7. Cardinality(upTo(pos[k])) = k
        <2> DEFINE f == [i \in 1 .. k |-> pos[i]]
        <2>1. f \in Bijection(1 .. k, upTo(pos[k]))
            <3>1. \A i \in 1 .. k : f[i] \in upTo(pos[k])
                BY <1>5
            <3>2. \A i, j \in 1 .. k : f[i] = f[j] => i = j
                <4>1. \A i \in 1 .. k : i \in 1 .. n + 1
                    BY <1>0, <1>1
                <4>2. \A i, j \in 1 .. k : i < j => pos[i] < pos[j]
                    BY <4>1 DEF Lies, n
                <4> QED
                    BY <1>1, <4>1, <4>2
            <3>3. \A x \in upTo(pos[k]) : \E i \in 1 .. k : f[i] = x
                BY <1>4
            <3> HIDE DEF f
            <3>4. f \in [1 .. k -> upTo(pos[k])]
                BY <3>1 DEF f
            <3> QED
                BY <3>2, <3>3, <3>4 DEF Bijection, Injection, Surjection, IsInjective
        <2>2. k \in Nat
            BY <1>0, <1>1
        <2>3. ExistsBijection(1 .. k, upTo(pos[k]))
            BY <2>1 DEF ExistsBijection
        <2> HIDE DEF f
        <2> QED
            BY <2>2, <2>3, FS_CountingElements
    <1>8. k \in 1 .. Cardinality(S)
        <2>1. upTo(pos[k]) \in SUBSET S
            OBVIOUS
        <2>2. Cardinality(upTo(pos[k])) <= Cardinality(S) /\ Cardinality(S) \in Nat
            BY <1>6, <2>1, FS_Subset, FS_CardinalityType
        <2> QED
            BY <1>0, <1>1, <1>7, <2>2
    <1>9. ASSUME NEW x \in S, Cardinality(upTo(x)) = k
          PROVE  x = pos[k]
        <2>1. pos[k] \in S /\ pos[k] \in Nat /\ x \in Nat
            BY <1>0, <1>3, <1>6
        <2>2. upTo(x) \in SUBSET S /\ upTo(pos[k]) \in SUBSET S
            OBVIOUS
        <2>3. IsFiniteSet(upTo(x)) /\ IsFiniteSet(upTo(pos[k]))
            BY <1>6, <2>2, FS_Subset
        <2>6. ASSUME NEW y \in S, NEW z \in S, y < z
              PROVE  upTo(y) \in SUBSET upTo(z) /\ z \in upTo(z) /\ z \notin upTo(y)
            <3>1. S \subseteq Nat /\ y \in Nat /\ z \in Nat
                BY <1>6
            <3>2. \A j \in S : j <= y => j <= z
                BY <2>6, <3>1
            <3>3. z <= z /\ ~ (z <= y)
                BY <2>6, <3>1
            <3> QED
                BY <3>2, <3>3
        <2>4. ASSUME x < pos[k] PROVE FALSE
            <3>1. upTo(x) \in SUBSET upTo(pos[k]) /\ pos[k] \in upTo(pos[k]) /\ pos[k] \notin upTo(x)
                BY <2>1, <2>4, <2>6
            <3>2. upTo(x) = upTo(pos[k])
                BY <1>7, <1>9, <2>3, <3>1, FS_Subset
            <3> QED
                BY <3>1, <3>2
        <2>5. ASSUME pos[k] < x PROVE FALSE
            <3>1. upTo(pos[k]) \in SUBSET upTo(x) /\ x \in upTo(x) /\ x \notin upTo(pos[k])
                BY <2>1, <2>5, <2>6
            <3>2. upTo(x) = upTo(pos[k])
                BY <1>7, <1>9, <2>3, <3>1, FS_Subset
            <3> QED
                BY <3>1, <3>2
        <2> QED
            BY <2>1, <2>4, <2>5
    <1>11. NthStart(S, k) = pos[k]
        BY <1>0, <1>3, <1>7, <1>9 DEF NthStart
    <1> QED
        BY <1>0, <1>3, <1>8, <1>11 DEF S

LEMMA FilesInvImplies == FilesInv => SavedIsRead
    <1> SUFFICES ASSUME FilesInv PROVE SavedIsRead
        OBVIOUS
    <1>1. KeyIsRead
        BY DEF FilesInv, KeyIsRead, LoadPrivateKeyFromFile, PEMToX509PrivateKey
    <1>2. SavedChainIsRead
        <2> DEFINE n == Len(saved)
                   read == Found(certFile)
                   N == Cardinality(Starts(certFile))
        <2>1. certFile \in Seq(FileCells) /\ saved \in Seq(PEMCerts) /\ n \in Nat
            BY DEF FilesInv
        <2>2. PICK pos : Lies(certFile, saved, n, pos)
            BY DEF FilesInv
        <2>3. \A k \in 1 .. n : /\ k \in 1 .. N
                                /\ certFile[NthStart(Starts(certFile), k)].cert = saved[k]
            BY <2>1, <2>2, StartsAreFound
        <2>4. read = [k \in 1 .. N |-> certFile[NthStart(Starts(certFile), k)].cert]
            BY DEF Found
        <2>5. N \in Nat
            <3>1. Starts(certFile) \in SUBSET (1 .. Len(certFile)) /\ Len(certFile) \in Nat
                BY <2>1 DEF Starts
            <3>2. IsFiniteSet(1 .. Len(certFile))
                BY <3>1, FS_Interval
            <3> QED
                BY <3>1, <3>2, FS_Subset, FS_CardinalityType
        <2>6. Len(read) = N /\ DOMAIN read = 1 .. N /\ \A k \in 1 .. n : k \in 1 .. N /\ read[k] = saved[k]
            BY <2>3, <2>4, <2>5
        <2> HIDE DEF read, N
        <2>7. n <= N
            BY <2>1, <2>3, <2>5
        <2>8. IsPrefix(saved, read)
            <3>2. SubSeq(saved, 1, n) = [k \in 1 .. n |-> saved[k]]
                BY <2>1
            <3>3. SubSeq(read, 1, n) = [k \in 1 .. n |-> read[k]]
                BY <2>1, <2>6, <2>7
            <3> QED
                BY <2>1, <2>6, <2>7, <3>2, <3>3 DEF IsPrefix
        <2>9. ToSet(saved) \subseteq ToSet(read)
            BY <2>1, <2>6 DEF ToSet
        <2>10. Garbled(certFile) # {} => torn
            BY DEF FilesInv, Whole, Garbled
        <2> QED
            BY <2>8, <2>9, <2>10 DEF SavedChainIsRead, LoadCertificateFromFile, getCaCertPool, PEMToX509Cert, read
    <1> QED
        BY <1>1, <1>2 DEF SavedIsRead

-----------------------------------------------------------------------------
(***************************************************************************)
(* Generated certificates: the inductive invariant                         *)
(***************************************************************************)

CertNames == Subjects \union {RootSubject}
Certificates == [subject : CertNames, isCA : BOOLEAN, issuer : CertNames, public : Nat, signedBy : Nat]
Makings == [ca : BOOLEAN, root : Nat]

\* The k-th certificate is a root, or p issued it.
IsRoot(k) ==
    /\ issued[k].signedBy = k
    /\ made[k] = [ca |-> TRUE, root |-> k]

IssuedBy(k, p) ==
    /\ issued[k].signedBy = p
    /\ issued[k].issuer = issued[p].subject
    /\ made[k].root = RootOf(p)

\* A certificate has a key of its own, and was issued by an earlier one, or by
\* itself.
CertsInv ==
    /\ issued \in Seq(Certificates)
    /\ made \in Seq(Makings)
    /\ Len(made) = Len(issued)
    /\ \A k \in 1 .. Len(issued) :
          /\ issued[k].public = k
          /\ issued[k].isCA = made[k].ca
          /\ IsRoot(k) \/ \E p \in 1 .. k - 1 : IssuedBy(k, p)

LEMMA CertsInvInit == CertsInit => CertsInv
    BY DEF CertsInit, CertsInv

\* A certificate that is appended leaves those before it as they are.
LEMMA IssueKeepsInv ==
    ASSUME CertsInv, NEW c \in Certificates, NEW m \in Makings,
           issued' = Append(issued, c), made' = Append(made, m),
           c.public = Len(issued) + 1, c.isCA = m.ca,
           \/ c.signedBy = Len(issued) + 1 /\ m = [ca |-> TRUE, root |-> Len(issued) + 1]
           \/ \E p \in 1 .. Len(issued) :
                 c.signedBy = p /\ c.issuer = issued[p].subject /\ m.root = RootOf(p)
    PROVE  CertsInv'
    <1>0. PICK n \in Nat : n = Len(issued)
        BY DEF CertsInv
    <1>1. n \in Nat /\ n = Len(issued) /\ Len(made) = n /\ issued \in Seq(Certificates) /\ made \in Seq(Makings)
        BY <1>0 DEF CertsInv
    <1>2. /\ issued' \in Seq(Certificates) /\ Len(issued') = n + 1
          /\ \A k \in 1 .. n : issued'[k] = issued[k]
          /\ issued'[n + 1] = c
        BY <1>1, AppendProps
    <1>3. /\ made' \in Seq(Makings) /\ Len(made') = n + 1
          /\ \A k \in 1 .. n : made'[k] = made[k]
          /\ made'[n + 1] = m
        BY <1>1, AppendProps
    <1>4. ASSUME NEW k \in 1 .. n
          PROVE  /\ issued'[k].public = k
                 /\ issued'[k].isCA = made'[k].ca
                 /\ IsRoot(k)' \/ \E p \in 1 .. k - 1 : IssuedBy(k, p)'
        <2>1. issued'[k] = issued[k] /\ made'[k] = made[k]
            BY <1>2, <1>3
        <2>2. CASE IsRoot(k)
            BY <1>1, <2>1, <2>2 DEF CertsInv, IsRoot
        <2>3. ASSUME NEW p \in 1 .. k - 1, IssuedBy(k, p)
              PROVE  IssuedBy(k, p)'
            <3>1. p \in 1 .. n
                BY <1>1
            <3>2. issued'[p] = issued[p] /\ made'[p] = made[p]
                BY <1>2, <1>3, <3>1
            <3> QED
                BY <2>1, <2>3, <3>2 DEF IssuedBy, RootOf
        <2> QED
            BY <1>1, <2>1, <2>2, <2>3 DEF CertsInv
    <1>5. /\ issued'[n + 1].public = n + 1
          /\ issued'[n + 1].isCA = made'[n + 1].ca
          /\ IsRoot(n + 1)' \/ \E p \in 1 .. (n + 1) - 1 : IssuedBy(n + 1, p)'
        <2>1. CASE c.signedBy = n + 1 /\ m = [ca |-> TRUE, root |-> n + 1]
            <3>1. issued'[n + 1].signedBy = n + 1 /\ made'[n + 1] = [ca |-> TRUE, root |-> n + 1]
                BY <1>2, <1>3, <2>1
            <3> QED
                BY <1>1, <1>2, <1>3, <3>1 DEF IsRoot
        <2>2. ASSUME NEW p \in 1 .. n, c.signedBy = p, c.issuer = issued[p].subject, m.root = RootOf(p)
              PROVE  p \in 1 .. (n + 1) - 1 /\ IssuedBy(n + 1, p)'
            <3>1. issued'[p] = issued[p] /\ made'[p] = made[p] /\ p \in 1 .. (n + 1) - 1
                BY <1>1, <1>2, <1>3
            <3>2. RootOf(p)' = RootOf(p)
                BY <3>1 DEF RootOf
            <3>3. issued'[n + 1].signedBy = p /\ issued'[n + 1].issuer = issued'[p].subject
                      /\ made'[n + 1].root = RootOf(p)'
                BY <1>2, <1>3, <2>2, <3>1, <3>2
            <3> QED
                BY <3>1, <3>3 DEF IssuedBy
        <2> QED
            BY <1>1, <1>2, <1>3, <2>1, <2>2
    <1>6. \A k \in 1 .. n + 1 : k \in 1 .. n \/ k = n + 1
        BY <1>1
    <1>7. ASSUME NEW k \in 1 .. Len(issued')
          PROVE  /\ issued'[k].public = k
                 /\ issued'[k].isCA = made'[k].ca
                 /\ IsRoot(k)' \/ \E p \in 1 .. k - 1 : IssuedBy(k, p)'
        BY <1>2, <1>4, <1>5, <1>6
    <1> QED
        BY <1>2, <1>3, <1>7 DEF CertsInv

LEMMA CertsInvStep ==
    ASSUME CertsInv, [CertsNext]_certVars
    PROVE  CertsInv'
    <1>0. /\ Len(issued) \in Nat /\ DOMAIN issued = 1 .. Len(issued)
          /\ \A p \in 1 .. Len(issued) : issued[p] \in Certificates /\ issued[p].public = p
          /\ \A p \in 1 .. Len(issued) : made[p] \in Makings
        <2>1. issued \in Seq(Certificates) /\ made \in Seq(Makings) /\ Len(made) = Len(issued)
            BY DEF CertsInv
        <2>2. \A p \in 1 .. Len(issued) : issued[p].public = p
            BY DEF CertsInv
        <2> QED
            BY <2>1, <2>2
    <1>1. CASE GenerateDefaultCARootCertAndKey
        <2> DEFINE c == [subject |-> RootSubject, isCA |-> TRUE, issuer |-> RootSubject,
                         public |-> Len(issued) + 1, signedBy |-> Len(issued) + 1]
                   m == [ca |-> TRUE, root |-> Len(issued) + 1]
        <2>1. issued' = Append(issued, c) /\ made' = Append(made, m)
            BY <1>1 DEF GenerateDefaultCARootCertAndKey, GenerateCertAndKey, GenerateCert, Template
        <2>2. c \in Certificates /\ m \in Makings
            BY <1>0 DEF Certificates, CertNames, Makings
        <2>3. c.public = Len(issued) + 1 /\ c.signedBy = Len(issued) + 1 /\ c.isCA = m.ca
            OBVIOUS
        <2> HIDE DEF c
        <2> QED
            BY <2>1, <2>2, <2>3, IssueKeepsInv
    <1>2. ASSUME NEW subject \in Subjects, NEW p \in DOMAIN issued, NEW key \in {0} \union DOMAIN issued,
                 NEW ca \in BOOLEAN,
                 GenerateCertAndKey(Template(subject, ca), issued[p], key),
                 made' = Append(made, [ca |-> ca, root |-> RootOf(p)])
          PROVE  CertsInv'
        <2> DEFINE c == [subject |-> subject, isCA |-> ca, issuer |-> issued[p].subject,
                         public |-> Len(issued) + 1, signedBy |-> p]
                   m == [ca |-> ca, root |-> RootOf(p)]
        <2>1. key = p
            BY <1>0, <1>2 DEF GenerateCertAndKey, GenerateCert
        <2>2. issued' = Append(issued, c)
            BY <1>0, <1>2, <2>1 DEF GenerateCertAndKey, GenerateCert, Template
        <2>3. RootOf(p) \in Nat
            BY <1>0 DEF RootOf, Makings
        <2>4. c \in Certificates /\ m \in Makings
            BY <1>0, <2>3 DEF Certificates, CertNames, Makings
        <2>5. /\ c.public = Len(issued) + 1 /\ c.isCA = m.ca
              /\ c.signedBy = p /\ c.issuer = issued[p].subject /\ m.root = RootOf(p)
            OBVIOUS
        <2>6. p \in 1 .. Len(issued)
            BY <1>0
        <2>7. made' = Append(made, m)
            BY <1>2
        <2> HIDE DEF c, m
        <2> QED
            BY <2>2, <2>4, <2>5, <2>6, <2>7, IssueKeepsInv
    <1>3. CASE UNCHANGED certVars
        BY <1>3 DEF certVars, CertsInv, IsRoot, IssuedBy, RootOf
    <1> QED
        BY <1>1, <1>2, <1>3 DEF CertsNext, GenerateCACertAndKey, GenerateCertAndKeyWithSubject


LEMMA CertsInvImplies == CertsInv => CertificatesVerify
    <1> SUFFICES ASSUME CertsInv PROVE CertificatesVerify
        OBVIOUS
    <1> DEFINE N == Len(issued)
    <1>1. /\ N \in Nat /\ DOMAIN issued = 1 .. N
          /\ \A k \in 1 .. N : issued[k].public = k /\ issued[k].isCA = made[k].ca
          /\ \A k \in 1 .. N : IsRoot(k) \/ \E p \in 1 .. k - 1 : IssuedBy(k, p)
        BY DEF CertsInv
    <1>2. \A j, k \in 1 .. N : issued[j] = issued[k] => j = k
        BY <1>1
    <1>3. \A k \in 1 .. N : k \in Roots <=> IsRoot(k)
        <2>1. \A k \in 1 .. N : k \in Roots <=> issued[k].signedBy = k
            BY <1>1 DEF Roots
        <2>2. \A k \in 1 .. N : \A p \in 1 .. k - 1 : IssuedBy(k, p) => issued[k].signedBy # k
            BY <1>1 DEF IssuedBy
        <2>3. \A k \in 1 .. N : IsRoot(k) => issued[k].signedBy = k
            BY DEF IsRoot
        <2> HIDE DEF N
        <2> QED
            BY <1>1, <2>1, <2>2, <2>3
    <1>4. ASSUME NEW k \in 1 .. N, NEW key \in 1 .. N
          PROVE  CheckCertificate(issued[k], key) <=> key = k
        BY <1>1 DEF CheckCertificate
    <1>5. ASSUME NEW k \in 1 .. N, NEW r \in Roots
          PROVE  VerifyCertChain(issued[k], {issued[r]}, {issued[j] : j \in DOMAIN issued \ Roots})
                     <=> made[k].root = r
        <2> DEFINE all == {issued[k]} \union {issued[r]} \union {issued[j] : j \in DOMAIN issued \ Roots}
                   Closed(T) == \A x \in T, y \in all : SignedBy(x, y) => y \in T
        <2>1. r \in 1 .. N /\ IsRoot(r) /\ r # 0
            BY <1>1, <1>3 DEF Roots
        <2>2. VerifyCertChain(issued[k], {issued[r]}, {issued[j] : j \in DOMAIN issued \ Roots})
                  <=> \A T \in SUBSET all : issued[k] \in T /\ Closed(T) => issued[r] \in T
            BY DEF VerifyCertChain
        <2>3. /\ \A x \in all : \E j \in 1 .. N : x = issued[j]
              /\ issued[k] \in all /\ issued[r] \in all
              /\ \A j \in 1 .. N : j \notin Roots => issued[j] \in all
            BY <1>1, <2>1
        <2> HIDE DEF all
        <2>4. ASSUME made[k].root = r, NEW T \in SUBSET all, issued[k] \in T, Closed(T)
              PROVE  issued[r] \in T
            <3> DEFINE J == {j \in 1 .. N : issued[j] \in T /\ made[j].root = r}
            <3>1. J \in SUBSET Nat /\ k \in J
                BY <1>1, <2>4
            <3>2. PICK j \in J : \A i \in J : j <= i
                BY <3>1, LeastNatural
            <3>3. CASE IsRoot(j)
                BY <3>2, <3>3 DEF IsRoot
            <3>4. ASSUME NEW p \in 1 .. j - 1, IssuedBy(j, p)
                  PROVE  FALSE
                <4>1. p \in 1 .. N /\ p < j
                    BY <1>1, <3>2
                <4>2. made[p].ca /\ made[p].root = r
                    BY <2>1, <3>2, <3>4 DEF IssuedBy, RootOf
                <4>3. issued[p] \in all
                    <5>1. CASE IsRoot(p)
                        BY <2>3, <4>2, <5>1 DEF IsRoot
                    <5>2. CASE ~ IsRoot(p)
                        BY <1>3, <2>3, <4>1, <5>2
                    <5> QED
                        BY <5>1, <5>2
                <4>4. SignedBy(issued[j], issued[p])
                    BY <1>1, <3>4, <4>1, <4>2 DEF SignedBy, IssuedBy
                <4>5. p \in J
                    BY <2>4, <3>2, <4>1, <4>2, <4>3, <4>4
                <4> QED
                    BY <1>1, <3>2, <4>1, <4>5
            <3> QED
                BY <1>1, <3>2, <3>3, <3>4
        <2>5. ASSUME made[k].root # r
              PROVE  \E T \in SUBSET all : issued[k] \in T /\ Closed(T) /\ issued[r] \notin T
            <3> DEFINE J == {j \in 1 .. N : issued[j] \in all /\ made[j].root # r}
                       T == {issued[j] : j \in J}
            <3>1. T \in SUBSET all /\ issued[k] \in T
                BY <2>3, <2>5
            <3>2. issued[r] \notin T
                BY <1>2, <2>1 DEF IsRoot
            <3>3. ASSUME NEW x \in T, NEW y \in all, SignedBy(x, y)
                  PROVE  y \in T
                <4>1. PICK j \in J : x = issued[j]
                    OBVIOUS
                <4>2. PICK i \in 1 .. N : y = issued[i]
                    BY <2>3
                <4>3. issued[j].signedBy = i /\ made[i].ca
                    BY <1>1, <3>3, <4>1, <4>2 DEF SignedBy
                <4>4. CASE IsRoot(j)
                    BY <4>1, <4>2, <4>3, <4>4 DEF IsRoot
                <4>5. ASSUME NEW p \in 1 .. j - 1, IssuedBy(j, p)
                      PROVE  y \in T
                    BY <4>1, <4>2, <4>3, <4>5 DEF IssuedBy, RootOf
                <4> QED
                    BY <1>1, <4>1, <4>4, <4>5
            <3>4. Closed(T)
                BY <3>3
            <3> QED
                BY <3>1, <3>2, <3>4, Zenon
        <2> QED
            BY <2>2, <2>4, <2>5
    <1> QED
        BY <1>1, <1>4, <1>5 DEF CertificatesVerify

-----------------------------------------------------------------------------
\* Keys and certificates that were stored are what is read or used afterwards: a
\* chain that SaveCertificateToFile saved is read back first, whatever the file held;
\* a key is read as it was written; the objects of the TPM stay, and no call that
\* failed keeps a slot; and a generated certificate matches its own key and verifies
\* with its own root alone.  For any lengths of the encoded certificates, any number
\* of keys, handles and users of the TPM, and any number and names of certificates.
THEOREM StoredStaysUsable == MCSpec => []StoredIsUsable
    <1> DEFINE Inv == FilesInv /\ TPMInv /\ CertsInv
    <1>1. MCInit => Inv
        BY FilesInvInit, TPMInitInv, CertsInvInit DEF MCInit
    <1>2. ASSUME Inv, [MCNext]_allVars PROVE Inv'
        <2>1. [FilesNext]_fileVars /\ [TPMNext]_tpmVars /\ [CertsNext]_certVars
            BY <1>2, Zenon DEF MCNext, allVars
        <2> QED
            BY <1>2, <2>1, FilesInvStep, TPMStepInv, CertsInvStep
    <1>3. Inv => StoredIsUsable
        BY FilesInvImplies, CertsInvImplies DEF StoredIsUsable, TPMInv, TPMObjectsKept, SlotsInUse, TransientSlotsFreed
    <1> QED
        BY <1>1, <1>2, <1>3, PTL DEF MCSpec

=============================================================================
