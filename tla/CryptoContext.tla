--------------------------- MODULE CryptoContext ---------------------------
(***************************************************************************)
(* utils/cryptutils: certificates and keys by URL, and the TLS             *)
(* configurations made of them; with the callers in utils/grpchelpers that *)
(* ask the IAM for the URLs and dial.  A crypto context caches one PKCS11  *)
(* context for each library and token, and closes them in Close.           *)
(*                                                                         *)
(* A user is a goroutine that makes one request.  A request for            *)
(* a TLS configuration loads the certificates, then the key; the mutex is  *)
(* held only while a PKCS11 context or a TPM device is looked up, so Close *)
(* may come between.  What a file holds is module PEMFiles; here it can be *)
(* read or not.                                                            *)
(***************************************************************************)
EXTENDS Naturals, FiniteSets, Sequences

CONSTANTS
    Tokens,        \* PKCS11 tokens with a certificate chain and a key
    CryptoUsers,
    MaxContexts,   \* bound: PKCS11 contexts configured
    Nil

VARIABLES
    pkcs11Ctx,     \* pkcs11Ctx[t]: number of the cached context of token t
    contexts,      \* contexts[n]: token of context n
    openContexts,  \* contexts that are not closed
    openDevices,   \* TPM devices opened
    tpmDevices,    \* cryptoContext.tpmDevices
    closeDone,     \* Close was called
    asked,         \* asked[u]: what user u asks for
    loadPC,        \* loadPC[u]: where the request is
    holding,       \* holding[u]: PKCS11 context that u uses
    outcome        \* outcome[u]: what the request returned

cryptoVars == <<pkcs11Ctx, contexts, openContexts, openDevices, tpmDevices, closeDone, asked,
                loadPC, holding, outcome>>

contextVars == <<pkcs11Ctx, contexts, openContexts, openDevices, tpmDevices, closeDone>>

(***************************************************************************)
(* URLs.  A URL of a TPM key names a device or a handle: url.Parse leaves  *)
(* Opaque, the handle, empty when there is a host.                         *)
(***************************************************************************)
FileURL == [scheme |-> "file", token |-> Nil]
DeviceURL == [scheme |-> "tpm", token |-> "device"]
HandleURL == [scheme |-> "tpm", token |-> Nil]
PKCS11URL(t) == [scheme |-> "pkcs11", token |-> t]
NoLibraryURL == [scheme |-> "pkcs11", token |-> Nil]   \* and no DefaultPKCS11Library
OtherURL == [scheme |-> "http", token |-> Nil]

URLs == {FileURL, DeviceURL, HandleURL, NoLibraryURL, OtherURL} \union {PKCS11URL(t) : t \in Tokens}

(***************************************************************************)
(* CryptoRequests: a TLS configuration, with a certificate and then a key, *)
(* for GetServerMutualTLSConfig, GetServerTLSConfig and                    *)
(* GetClientMutualTLSConfig; or a certificate or a key alone.              *)
(***************************************************************************)
CryptoRequests == {"tls", "certificate", "key"}

CryptoInit ==
    /\ pkcs11Ctx = [t \in Tokens |-> 0]
    /\ contexts = <<>>
    /\ openContexts = {}
    /\ openDevices = 0
    /\ tpmDevices = {}
    /\ closeDone = FALSE
    /\ asked = [u \in CryptoUsers |-> Nil]
    /\ loadPC = [u \in CryptoUsers |-> "idle"]
    /\ holding = [u \in CryptoUsers |-> 0]
    /\ outcome = [u \in CryptoUsers |-> "none"]

-----------------------------------------------------------------------------
(***************************************************************************)
(* A request begins.                                                       *)
(***************************************************************************)
Ask(u, r) ==
    /\ loadPC[u] = "idle" /\ outcome[u] = "none"
    /\ asked' = [asked EXCEPT ![u] = r]
    /\ loadPC' = [loadPC EXCEPT ![u] = IF r = "key" THEN "key" ELSE "cert"]
    /\ UNCHANGED <<contextVars, holding, outcome>>

Answer(u, result) ==
    /\ loadPC[u] = "idle" /\ outcome[u] = "none"
    /\ outcome' = [outcome EXCEPT ![u] = result]
    /\ UNCHANGED <<contextVars, asked, loadPC, holding>>

\* LoadCertificateByURL and LoadPrivateKeyByURL
LoadByURL(u) == \E r \in CryptoRequests \ {"tls"} : Ask(u, r)

\* The IAM is asked, without the mutex of the IAM client, which a reconnection
\* must not wait for: it gives the URLs, or the call fails.
GetCertificate(u) == Ask(u, "tls") \/ Answer(u, "error")

\* Connections and servers without security load nothing.
CreatePublicConnection(u) == Answer(u, "ok") \/ Answer(u, "error")

CreateProtectedConnection(u) == Answer(u, "ok") \/ GetCertificate(u)

NewProtectedServerOptions(u) == Answer(u, "ok") \/ GetCertificate(u)

\* The request goes on to the key, or ends.
Proceed(u) ==
    /\ holding' = [holding EXCEPT ![u] = 0]
    /\ \/ /\ loadPC[u] \in {"cert", "findCert"} /\ asked[u] = "tls"
          /\ loadPC' = [loadPC EXCEPT ![u] = "key"]
          /\ UNCHANGED outcome
       \/ /\ loadPC[u] \in {"key", "findKey"} \/ asked[u] = "certificate"
          /\ loadPC' = [loadPC EXCEPT ![u] = "idle"]
          /\ outcome' = [outcome EXCEPT ![u] = "ok"]

Fail(u) ==
    /\ holding' = [holding EXCEPT ![u] = 0]
    /\ loadPC' = [loadPC EXCEPT ![u] = "idle"]
    /\ outcome' = [outcome EXCEPT ![u] = "error"]

(***************************************************************************)
(* LoadCertificateByURL and LoadPrivateKeyByURL: files, and schemes that   *)
(* are not supported, a certificate in a TPM among them.                   *)
(***************************************************************************)
LoadFromFile(u, url) ==
    /\ loadPC[u] \in {"cert", "key"}
    /\ url.scheme = "file"
    /\ Proceed(u) \/ Fail(u)
    /\ UNCHANGED <<contextVars, asked>>

UnsupportedScheme(u, url) ==
    /\ \/ loadPC[u] = "cert" /\ url.scheme \notin {"file", "pkcs11"}
       \/ loadPC[u] = "key" /\ url.scheme \notin {"file", "pkcs11", "tpm"}
    /\ Fail(u)
    /\ UNCHANGED <<contextVars, asked>>

(***************************************************************************)
(* loadPrivateKeyFromTPM: the default device, or one that getTPMDevice     *)
(* opens, does not store, and nobody uses, because the URL has no handle.  *)
(***************************************************************************)
loadPrivateKeyFromTPM(u, url) ==
    /\ loadPC[u] = "key"
    /\ url.scheme = "tpm"
    /\ \/ /\ url = DeviceURL
          /\ openDevices' \in {openDevices, openDevices + 1}
          /\ Fail(u)
       \/ /\ url = HandleURL
          /\ Proceed(u) \/ Fail(u)
          /\ UNCHANGED openDevices
    /\ UNCHANGED <<pkcs11Ctx, contexts, openContexts, tpmDevices, closeDone, asked>>

(***************************************************************************)
(* getPKCS11Context                                                        *)
(***************************************************************************)

\* Fault: the new context is not stored.
ForgetContext(t, n) == pkcs11Ctx' = pkcs11Ctx

StoreContext(t, n) == pkcs11Ctx' = [pkcs11Ctx EXCEPT ![t] = n]

getPKCS11Context(u, url) ==
    /\ loadPC[u] \in {"cert", "key"}
    /\ url.scheme = "pkcs11"
    /\ LET t == url.token
           find == IF loadPC[u] = "cert" THEN "findCert" ELSE "findKey"
       IN
       \/ /\ t \in Tokens /\ pkcs11Ctx[t] # 0
          /\ holding' = [holding EXCEPT ![u] = pkcs11Ctx[t]]
          /\ loadPC' = [loadPC EXCEPT ![u] = find]
          /\ UNCHANGED <<contextVars, outcome>>
       \/ /\ t \in Tokens /\ pkcs11Ctx[t] = 0
          /\ Len(contexts) < MaxContexts
          /\ contexts' = Append(contexts, t)
          /\ openContexts' = openContexts \union {Len(contexts')}
          /\ StoreContext(t, Len(contexts'))
          /\ holding' = [holding EXCEPT ![u] = Len(contexts')]
          /\ loadPC' = [loadPC EXCEPT ![u] = find]
          /\ UNCHANGED <<openDevices, tpmDevices, closeDone, outcome>>
       \/ \* there is no library, or the token cannot be opened
          /\ t \in Tokens => pkcs11Ctx[t] = 0
          /\ Fail(u)
          /\ UNCHANGED contextVars
    /\ UNCHANGED asked

\* A closed context gives an error; an open one may not have the object.
Find(u) ==
    /\ \/ holding[u] \in openContexts /\ Proceed(u)
       \/ Fail(u)
    /\ UNCHANGED <<contextVars, asked>>

FindCertificateChain(u) == loadPC[u] = "findCert" /\ Find(u)
FindKeyPair(u) == loadPC[u] = "findKey" /\ Find(u)

Cached == {pkcs11Ctx[t] : t \in Tokens}

(***************************************************************************)
(* Close closes what the maps hold and leaves the maps as they are.        *)
(***************************************************************************)
CloseContext ==
    /\ openContexts' = openContexts \ Cached
    /\ openDevices' = openDevices - Cardinality(tpmDevices)
    /\ closeDone' = TRUE
    /\ UNCHANGED <<pkcs11Ctx, contexts, tpmDevices, asked, loadPC, holding, outcome>>

CryptoNext ==
    \/ CloseContext
    \/ \E u \in CryptoUsers :
          \/ LoadByURL(u) \/ CreatePublicConnection(u)
          \/ CreateProtectedConnection(u) \/ NewProtectedServerOptions(u)
          \/ FindCertificateChain(u) \/ FindKeyPair(u)
          \/ \E url \in URLs :
                \/ LoadFromFile(u, url) \/ UnsupportedScheme(u, url)
                \/ loadPrivateKeyFromTPM(u, url) \/ getPKCS11Context(u, url)

CryptoSpec == CryptoInit /\ [][CryptoNext]_cryptoVars

-----------------------------------------------------------------------------
(***************************************************************************)
(* Properties                                                              *)
(***************************************************************************)

\* One PKCS11 context for each library and token, however many goroutines ask
\* for it at once, and Close knows it: none is opened twice or left open.
ContextsClosed ==
    /\ \A n \in openContexts : pkcs11Ctx[contexts[n]] = n
    /\ \A u \in CryptoUsers : holding[u] # 0 => holding[u] \in Cached

\* "Close closes crypto context": the TPM devices that were opened too.
DevicesClosed == closeDone => openDevices = 0

\* A context that was closed is not given out again.
NoClosedContextUsed ==
    [][\A u \in CryptoUsers :
          holding[u] = 0 /\ holding'[u] # 0 => holding'[u] \in openContexts']_cryptoVars

=============================================================================
