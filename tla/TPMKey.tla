------------------------------- MODULE TPMKey -------------------------------
(***************************************************************************)
(* tpmkey: keys kept by a TPM.  A key object is made from blobs or from a  *)
(* persistent handle of the TPM.  Signing and decrypting with a key from   *)
(* blobs loads it into one of the TPM's few transient slots and flushes it *)
(* afterwards; MakePersistent stores it under a persistent handle, after   *)
(* clearing what was there.                                                *)
(*                                                                         *)
(* Every call of the TPM is a step of its own and may fail: the package    *)
(* takes no lock, and several goroutines use the keys.  Material is what   *)
(* distinguishes one private key from another.                             *)
(***************************************************************************)
EXTENDS Naturals, FiniteSets

CONSTANTS
    Keys,          \* key objects
    Materials,     \* private keys in blobs
    RSA, ECC,      \* materials of each kind; the rest is of an unsupported one
    Handles,       \* persistent handles, none of them 0
    Users,         \* goroutines
    TransientSlots,
    MaxTPMFailures,   \* bound: calls of the TPM that fail without a reason
    NoHandle, NoKey

ASSUME TPMAssumption == NoHandle \notin Handles /\ NoKey \notin Materials

VARIABLES
    persistent,        \* persistent[h]: material stored under handle h
    transient,         \* transient[u]: material that user u has loaded
    material,          \* material[k]: whose public key the object k has
    persistentHandle,  \* persistentHandle[k]
    userPC, userKey,   \* where user u is, and with which key
    target,            \* target[u]: argument of MakePersistent, or the handle used
    signedBy,          \* signedBy[u]: private key of the last signature of u
    tpmFailures,
    flushFailed,       \* history: users whose FlushContext failed
    reused             \* history: handles that were cleared while a key used them

tpmVars == <<persistent, transient, material, persistentHandle, userPC, userKey, target,
             signedBy, tpmFailures, flushFailed, reused>>

TPMInit ==
    /\ persistent = [h \in Handles |-> NoKey]
    /\ transient = [u \in Users |-> NoKey]
    /\ material = [k \in Keys |-> NoKey]
    /\ persistentHandle = [k \in Keys |-> NoHandle]
    /\ userPC = [u \in Users |-> "idle"]
    /\ userKey = [u \in Users |-> NoKey]
    /\ target = [u \in Users |-> NoHandle]
    /\ signedBy = [u \in Users |-> NoKey]
    /\ tpmFailures = 0
    /\ flushFailed = {}
    /\ reused = {}

Goto(u, place) == userPC' = [userPC EXCEPT ![u] = place]

TPMFails == tpmFailures < MaxTPMFailures /\ tpmFailures' = tpmFailures + 1

\* The TPM refuses the call when c holds, or fails.
RefusedIf(c) == TPMFails \/ (c /\ UNCHANGED tpmFailures)

\* createNewKey: an object is made for an RSA or an ECC key only.
createNewKey(m) == m \in RSA \union ECC

-----------------------------------------------------------------------------
CreateFromBlobs(k, m) ==
    /\ material[k] = NoKey
    /\ createNewKey(m)
    /\ material' = [material EXCEPT ![k] = m]
    /\ UNCHANGED <<persistent, transient, persistentHandle, userPC, userKey, target, signedBy,
                   tpmFailures, flushFailed, reused>>

CreateFromPersistent(k, h) ==
    /\ material[k] = NoKey
    /\ persistent[h] # NoKey
    /\ createNewKey(persistent[h])
    /\ material' = [material EXCEPT ![k] = persistent[h]]
    /\ persistentHandle' = [persistentHandle EXCEPT ![k] = h]
    /\ UNCHANGED <<persistent, transient, userPC, userKey, target, signedBy, tpmFailures,
                   flushFailed, reused>>

(***************************************************************************)
(* Sign and Decrypt: the options are looked at before the TPM is used.     *)
(* The receiver is copied, with the handle it has then.                    *)
(***************************************************************************)
SignOptions == [hash : BOOLEAN, length : BOOLEAN, pss : BOOLEAN, autoSalt : BOOLEAN]

SignAccepted(k, o) ==
    /\ (material[k] \in RSA /\ o.pss) => o.autoSalt
    /\ o.hash          \* one of supportedHash
    /\ o.length        \* the digest has the length of the hash

DecryptOptions == [oaep : BOOLEAN, hash : BOOLEAN, known : BOOLEAN]

DecryptAccepted(o) == o.known /\ (o.oaep => o.hash)

Accepted(k) ==
    \/ \E o \in SignOptions : SignAccepted(k, o)
    \/ material[k] \in RSA /\ \E o \in DecryptOptions : DecryptAccepted(o)

UseKey(u, k) ==
    /\ userPC[u] = "idle"
    /\ material[k] # NoKey
    /\ Accepted(k)
    /\ userKey' = [userKey EXCEPT ![u] = k]
    /\ target' = [target EXCEPT ![u] = persistentHandle[k]]
    /\ Goto(u, IF persistentHandle[k] = NoHandle THEN "load" ELSE "use")
    /\ UNCHANGED <<persistent, transient, material, persistentHandle, signedBy, tpmFailures,
                   flushFailed, reused>>

MakePersistent(u, k, h) ==
    /\ userPC[u] = "idle"
    /\ material[k] # NoKey
    /\ persistentHandle[k] = NoHandle
    /\ userKey' = [userKey EXCEPT ![u] = k]
    /\ target' = [target EXCEPT ![u] = h]
    /\ Goto(u, "loadToStore")
    /\ UNCHANGED <<persistent, transient, material, persistentHandle, signedBy, tpmFailures,
                   flushFailed, reused>>

(***************************************************************************)
(* tpm2.Load needs a free transient slot.                                  *)
(***************************************************************************)
Loaded == {u \in Users : transient[u] # NoKey}

Load(u) ==
    /\ userPC[u] \in {"load", "loadToStore"}
    /\ \/ /\ Cardinality(Loaded) < TransientSlots
          /\ transient' = [transient EXCEPT ![u] = material[userKey[u]]]
          /\ Goto(u, IF userPC[u] = "load" THEN "use" ELSE "clear")
          /\ UNCHANGED tpmFailures
       \/ /\ RefusedIf(Cardinality(Loaded) >= TransientSlots)
          /\ Goto(u, "idle")
          /\ UNCHANGED transient
    /\ UNCHANGED <<persistent, material, persistentHandle, userKey, target, signedBy,
                   flushFailed, reused>>

\* Fault: a call that failed returns without the deferred flush.
ReturnAtOnce(u) == Goto(u, "idle")

\* The deferred function flushes what was loaded, on every path.
ReturnDeferred(u) == Goto(u, IF transient[u] # NoKey THEN "flush" ELSE "idle")

(***************************************************************************)
(* tpm2.Sign or RSADecrypt with the transient or the persistent handle.    *)
(***************************************************************************)
Use(u) ==
    /\ userPC[u] = "use"
    /\ LET private == IF target[u] = NoHandle THEN transient[u] ELSE persistent[target[u]] IN
       \/ /\ private # NoKey
          /\ signedBy' = [signedBy EXCEPT ![u] = private]
          /\ ReturnDeferred(u)
          /\ UNCHANGED tpmFailures
       \/ /\ RefusedIf(private = NoKey)
          /\ ReturnDeferred(u)
          /\ signedBy' = [signedBy EXCEPT ![u] = NoKey]
    /\ UNCHANGED <<persistent, transient, material, persistentHandle, userKey, target,
                   flushFailed, reused>>

(***************************************************************************)
(* makePersistent: clear the handle, where an empty one is no error, and   *)
(* store the key.                                                          *)
(***************************************************************************)
ClearHandle(u) ==
    /\ userPC[u] = "clear"
    /\ \/ /\ persistent' = [persistent EXCEPT ![target[u]] = NoKey]
          /\ reused' = IF \E k \in Keys : persistentHandle[k] = target[u]
                       THEN reused \union {target[u]} ELSE reused
          /\ Goto(u, "store")
          /\ UNCHANGED tpmFailures
       \/ /\ TPMFails
          /\ ReturnDeferred(u)
          /\ UNCHANGED <<persistent, reused>>
    /\ UNCHANGED <<transient, material, persistentHandle, userKey, target, signedBy, flushFailed>>

\* Fault: the key takes its handle whether it was stored or not.
TakeHandle(u) == persistentHandle' = [persistentHandle EXCEPT ![userKey[u]] = target[u]]

NoteFailure(u) == UNCHANGED persistentHandle

StoreKey(u) ==
    /\ userPC[u] = "store"
    /\ ReturnDeferred(u)
    /\ \/ /\ persistent[target[u]] = NoKey
          /\ persistent' = [persistent EXCEPT ![target[u]] = transient[u]]
          /\ persistentHandle' = [persistentHandle EXCEPT ![userKey[u]] = target[u]]
          /\ UNCHANGED tpmFailures
       \/ /\ RefusedIf(persistent[target[u]] # NoKey)
          /\ NoteFailure(u)
          /\ UNCHANGED persistent
    /\ UNCHANGED <<transient, material, userKey, target, signedBy, flushFailed, reused>>

FlushContext(u) ==
    /\ userPC[u] = "flush"
    /\ Goto(u, "idle")
    /\ \/ /\ transient' = [transient EXCEPT ![u] = NoKey]
          /\ UNCHANGED <<tpmFailures, flushFailed>>
       \/ /\ TPMFails
          /\ flushFailed' = flushFailed \union {u}
          /\ UNCHANGED transient
    /\ UNCHANGED <<persistent, material, persistentHandle, userKey, target, signedBy, reused>>

UserStep(u) == Load(u) \/ Use(u) \/ ClearHandle(u) \/ StoreKey(u) \/ FlushContext(u)

\* A user whose flush failed makes no further call: the model keeps one slot for
\* each user.
TPMNext ==
    \/ \E k \in Keys, m \in Materials : CreateFromBlobs(k, m)
    \/ \E k \in Keys, h \in Handles : CreateFromPersistent(k, h)
    \/ \E u \in Users \ flushFailed, k \in Keys :
          UseKey(u, k) \/ \E h \in Handles : MakePersistent(u, k, h)
    \/ \E u \in Users : UserStep(u)

TPMSpec == TPMInit /\ [][TPMNext]_tpmVars

-----------------------------------------------------------------------------
(***************************************************************************)
(* Properties                                                              *)
(***************************************************************************)

\* Nothing stays in a transient slot when the call that loaded it is over,
\* whichever of its steps failed, unless the flush itself failed.
TransientSlotsFreed ==
    \A u \in Users : userPC[u] = "idle" /\ u \notin flushFailed => transient[u] = NoKey

\* A key object that has a persistent handle has its private key under it,
\* although other goroutines store keys and any call may fail, as long as
\* nobody stores another key under the same handle.
HandleHoldsKey ==
    \A k \in Keys :
        persistentHandle[k] # NoHandle /\ persistentHandle[k] \notin reused =>
            persistent[persistentHandle[k]] = material[k]

\* Both of the above.
TPMObjectsKept == TransientSlotsFreed /\ HandleHoldsKey

\* A signature is made with the private key that belongs to the object's public
\* key, also when the handle was given to another key.
SignedByOwnKey ==
    \A u \in Users : signedBy[u] # NoKey => signedBy[u] = material[userKey[u]]

=============================================================================
