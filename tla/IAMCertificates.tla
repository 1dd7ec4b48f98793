--------------------------- MODULE IAMCertificates ---------------------------
(***************************************************************************)
(* iamclient/iamclient.go: the requests that take several remote calls,    *)
(* each made under the client's mutex and therefore one at a time:         *)
(* InstallCertificates, RenewCertificatesNotification, StartProvisioning,  *)
(* FinishProvisioning and Deprovision.  A behaviour of this module is one  *)
(* request.  The protected connection is configured and client.sender is   *)
(* set: without them the requests are refused, or not answered.            *)
(*                                                                         *)
(* A remote call returns "ok", "rpcError" (the call failed) or             *)
(* "errorInfo" (it succeeded and its response carries an error).  The IAM  *)
(* server of a node restarts when it has got a certificate of type         *)
(* iamCertType, and is unreachable for the rest of the request; when the   *)
(* main node's server restarts nobody is reachable.                        *)
(***************************************************************************)
EXTENDS Integers, SequencesExt, Ordering

CONSTANTS
    Nodes,         \* node ids; strings.Compare orders them as their numbers
    MainNode,      \* client.nodeID
    isMainNode,    \* client.isMainNode
    Types,         \* certificate types
    iamCertType,
    MaxCerts,      \* bound: number of certificates in a request
    None

ASSUME RequestAssumption ==
    /\ Nodes \subseteq Nat
    /\ MainNode \in Nodes
    /\ isMainNode \in BOOLEAN
    /\ iamCertType \in Types
    /\ MaxCerts \in Nat

Certs == [node : Nodes, type : Types]

\* What is sent to the cloud: the certificates of a request, or confirmations.
Messages ==
    LET Ops == {"install", "renew", "start", "finish", "deprovision"} IN
    [op : Ops, error : BOOLEAN, items : Seq(Certs)]
        \union [op : Ops, error : BOOLEAN, items : Seq([cert : Certs, installed : BOOLEAN])]

ASSUME NoneAssumption == None \notin Messages \union {"nil", "error"}

\* The certificates of a request are different from each other.
Batches == {b \in BoundedSeq(Certs, MaxCerts) : IsInjective(b)}

VARIABLES
    request,     \* the request, its node and its certificates
    todo,        \* the remote calls that are left, in order
    results,     \* results of the remote calls made so far
    restarting,  \* nodes whose IAM server is restarting
    sent,        \* the message given to client.sender, or None
    returned     \* what the request returned: None, "nil" or "error"

requestVars == <<request, todo, results, restarting, sent, returned>>

-----------------------------------------------------------------------------
(***************************************************************************)
(* The sort of InstallCertificates.                                        *)
(***************************************************************************)
IsMain(c) == isMainNode /\ c.node = MainNode

IsIAM(c) == c.type = iamCertType

\* Fault: the main node is like any other.
LessByNode(a, b) ==
    \/ a.node = b.node /\ ~ IsIAM(a) /\ IsIAM(b)
    \/ a.node < b.node

Less(a, b) ==
    /\ ~ (IsMain(a) /\ IsIAM(a))
    /\ \/ IsMain(b) /\ IsIAM(b)
       \/ /\ ~ IsMain(a)
          /\ \/ IsMain(b)
             \/ a.node = b.node /\ ~ IsIAM(a) /\ IsIAM(b)
             \/ a.node < b.node

\* Elements that are alike keep their order.
SortStable(s) ==
    LET before == {r \in (DOMAIN s) \X (DOMAIN s) :
                     \/ Less(s[r[1]], s[r[2]])
                     \/ ~ Less(s[r[2]], s[r[1]]) /\ r[1] <= r[2]}
    IN  Rearranged(s, InOrder(DOMAIN s, before))

(***************************************************************************)
(* The remote calls of a request.                                          *)
(***************************************************************************)
Calls(name, s) == [k \in DOMAIN s |-> [call |-> name, node |-> s[k].node, type |-> s[k].type]]

NodeCall(name, n) == <<[call |-> name, node |-> n, type |-> None]>>

\* createKeys asks the node for its types.
KeysOf(n) == {s \in BoundedSeq(Certs, MaxCerts) :
                 IsInjective(s) /\ \A k \in DOMAIN s : s[k].node = n}

CallsOf(r) ==
    CASE r.op = "install" -> Calls("ApplyCert", SortStable(r.certs))
      [] r.op = "renew"   -> Calls("CreateKey", r.certs)
      [] r.op = "start"   -> NodeCall("StartProvisioning", r.node)
                             \o NodeCall("GetCertTypes", r.node)
                             \o Calls("CreateKey", r.certs)
      [] r.op = "finish"  -> Calls("ApplyCert", r.certs)
                             \o NodeCall("FinishProvisioning", r.node)
      [] r.op = "deprovision" ->
            IF isMainNode /\ r.node = MainNode THEN <<>> ELSE NodeCall("Deprovision", r.node)

CertificateRequests ==
    {[op |-> o, node |-> None, certs |-> b] : o \in {"install", "renew"}, b \in Batches}

ProvisioningRequests ==
    UNION {{[op |-> o, node |-> n, certs |-> s] :
               o \in {"start", "finish", "deprovision"}, s \in KeysOf(n)} : n \in Nodes}

RequestInit ==
    /\ request \in CertificateRequests \union ProvisioningRequests
    /\ todo = CallsOf(request)
    /\ results = <<>>
    /\ restarting = {}
    /\ sent = None
    /\ returned = None

-----------------------------------------------------------------------------
(***************************************************************************)
(* InstallCertificates goes on after a failed call, the others give up.    *)
(* InstallCertificates and RenewCertificatesNotification do not look at    *)
(* the error in the response.                                              *)
(***************************************************************************)

\* Fault: no request looks at the error in the response.
FailedCall(op, result) == result = "rpcError"

Failed(op, result) ==
    \/ result = "rpcError"
    \/ result = "errorInfo" /\ op \in {"start", "finish", "deprovision"}

\* Fault: InstallCertificates gives up too.
GivesUpAlways(op, result) == Failed(op, result)

GivesUp(op, result) == op # "install" /\ Failed(op, result)

Reachable(n) == n \notin restarting /\ MainNode \notin restarting

\* The server's side of a call.
Restarts(c, result) ==
    restarting' = IF c.call = "ApplyCert" /\ IsIAM(c) /\ result = "ok"
                  THEN restarting \union {c.node} ELSE restarting

MakeCall ==
    /\ returned = None /\ sent = None
    /\ todo # <<>>
    /\ \E result \in {"ok", "rpcError", "errorInfo"} :
          /\ Reachable(Head(todo).node) \/ result = "rpcError"
          /\ Head(todo).call = "GetCertTypes" => result # "errorInfo"
          /\ results' = Append(results, [call |-> Head(todo), result |-> result,
                                         reachable |-> Reachable(Head(todo).node)])
          /\ Restarts(Head(todo), result)
          /\ todo' = IF GivesUp(request.op, result) THEN <<>> ELSE Tail(todo)
    /\ UNCHANGED <<request, sent, returned>>

\* RenewCertificatesNotification has no password for the node.
NoPassword ==
    /\ request.op = "renew"
    /\ returned = None
    /\ todo # <<>>
    /\ todo' = <<>>
    /\ returned' = "error"
    /\ UNCHANGED <<request, results, restarting, sent>>

(***************************************************************************)
(* What is sent to the cloud: confirmations, keys or, for provisioning, a  *)
(* response in any case.                                                   *)
(***************************************************************************)
GaveUp == \E k \in DOMAIN results : GivesUp(request.op, results[k].result)

MainDeprovision == request.op = "deprovision" /\ isMainNode /\ request.node = MainNode

Confirmation(r) ==
    [cert |-> [node |-> r.call.node, type |-> r.call.type], installed |-> r.result # "rpcError"]

Message ==
    IF request.op = "install"
    THEN [op |-> "install", error |-> FALSE,
          items |-> [k \in DOMAIN results |-> Confirmation(results[k])]]
    ELSE [op |-> request.op, error |-> GaveUp \/ MainDeprovision,
          items |-> IF GaveUp \/ request.op \notin {"renew", "start"} THEN <<>> ELSE request.certs]

NothingToSend ==
    /\ request.op \in {"install", "renew"}
    /\ request.certs = <<>> \/ GaveUp

Send ==
    /\ todo = <<>>
    /\ sent = None /\ returned = None
    /\ ~ NothingToSend
    /\ sent' = Message
    /\ \E error \in BOOLEAN :
          returned' = IF error \/ GaveUp \/ MainDeprovision THEN "error" ELSE "nil"
    /\ UNCHANGED <<request, todo, results, restarting>>

ReturnSilently ==
    /\ todo = <<>>
    /\ returned = None
    /\ NothingToSend
    /\ returned' = IF GaveUp THEN "error" ELSE "nil"
    /\ UNCHANGED <<request, todo, results, restarting, sent>>

RequestNext == MakeCall \/ NoPassword \/ Send \/ ReturnSilently

RequestSpec == RequestInit /\ [][RequestNext]_requestVars

-----------------------------------------------------------------------------
(***************************************************************************)
(* Properties                                                              *)
(***************************************************************************)

\* "Otherwise IAM client/server restart will fail the following certificates to
\* apply": in whatever order the cloud sends the certificates, no ApplyCert of
\* InstallCertificates comes after the restart of the server it needs.
InstallSurvivesRestarts ==
    request.op = "install" => \A k \in DOMAIN results : results[k].reachable

\* InstallCertificates tells the cloud about every certificate it was given,
\* once, whatever calls failed on the way.
AllCertificatesConfirmed ==
    returned # None /\ request.op = "install" /\ request.certs # <<>> =>
        /\ sent # None
        /\ Len(sent.items) = Len(request.certs)
        /\ \A k \in DOMAIN request.certs :
              \E j \in DOMAIN sent.items : sent.items[j].cert = request.certs[k]

\* A provisioning request is answered whatever happens, its answer carries an
\* error if one of its calls failed, and FinishProvisioning is not called for a
\* node that lacks a certificate.
ProvisioningAnswered ==
    request.op \in {"start", "finish", "deprovision"} =>
        /\ returned # None => sent # None
        /\ sent # None =>
              (sent.error <=> MainDeprovision \/ \E k \in DOMAIN results : results[k].result # "ok")
        /\ \A k \in DOMAIN results : results[k].call.call = "FinishProvisioning" =>
              \A j \in 1 .. k - 1 : results[j].result = "ok"

\* Both of the above: the cloud learns what became of its request.
CloudIsAnswered == AllCertificatesConfirmed /\ ProvisioningAnswered

\* "InstallCertificates applies new issued certificates": one that is confirmed
\* as installed has been applied without an error.
InstalledMeansApplied ==
    sent # None /\ request.op = "install" =>
        \A k \in DOMAIN sent.items : sent.items[k].installed => results[k].result = "ok"

=============================================================================
