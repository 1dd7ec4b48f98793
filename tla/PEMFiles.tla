------------------------------ MODULE PEMFiles ------------------------------
(***************************************************************************)
(* utils/cryptutils: certificates and private keys in PEM files.           *)
(*                                                                         *)
(* A certificate or key is a model value.  A file of certificates is a     *)
(* sequence of cells: an encoded certificate is as many cells as it has    *)
(* length, so that writing a short one over a long one leaves a rest.      *)
(***************************************************************************)
EXTENDS Naturals, FiniteSets, SequencesExt

CONSTANTS
    PEMCerts,      \* certificates
    Length(_),     \* length of an encoded certificate
    MaxChain,      \* bound: length of a chain of certificates
    NoKeyFile

ASSUME LengthAssumption ==
    /\ MaxChain \in Nat
    /\ \A c \in PEMCerts : Length(c) \in Nat \ {0}

VARIABLES
    certFile,      \* cells of a certificate file
    toSave,        \* the chain that is being saved, or <<>>
    written,       \* number of its certificates that are written
    fileOffset,    \* of the open file
    saved,         \* history: the chain saved last, or <<>> if that failed
    torn,          \* history: a save failed inside a certificate
    keyFile        \* PEM block of a key file, or NoKeyFile

fileVars == <<certFile, toSave, written, fileOffset, saved, torn, keyFile>>

FilesInit ==
    /\ certFile = <<>>
    /\ toSave = <<>>
    /\ written = 0
    /\ fileOffset = 0
    /\ saved = <<>>
    /\ torn = FALSE
    /\ keyFile = NoKeyFile

(***************************************************************************)
(* PEM files.  SaveCertificateToFile opens the file without truncating it, *)
(* writes one certificate after the other and may fail at each of them,    *)
(* with a part of it written.                                              *)
(***************************************************************************)
Cells(c) == [k \in 1 .. Length(c) |-> [cert |-> c, cell |-> k]]

\* Fault: the file is opened for appending.
AppendCells(old, offset, new) == old \o new

Overwrite(old, offset, new) ==
    LET end == offset + Len(new) IN
    [k \in 1 .. IF end > Len(old) THEN end ELSE Len(old) |->
        IF k \in offset + 1 .. end THEN new[k - offset] ELSE old[k]]

SaveCertificateToFile(chain) ==
    /\ toSave = <<>>
    /\ toSave' = chain
    /\ saved' = <<>>
    /\ UNCHANGED <<certFile, written, fileOffset, torn, keyFile>>

CloseCertFile ==
    /\ toSave' = <<>>
    /\ written' = 0
    /\ fileOffset' = 0

\* One turn of the loop.
WriteCertificate ==
    /\ toSave # <<>>
    /\ LET cells == Cells(toSave[written + 1]) IN
       \/ /\ certFile' = Overwrite(certFile, fileOffset, cells)
          /\ \/ /\ written + 1 = Len(toSave)
                /\ saved' = toSave
                /\ CloseCertFile
             \/ /\ written + 1 < Len(toSave)
                /\ written' = written + 1
                /\ fileOffset' = fileOffset + Len(cells)
                /\ UNCHANGED <<toSave, saved>>
          /\ UNCHANGED torn
       \/ \* pem.Encode fails
          \E n \in 0 .. Len(cells) - 1 :
             /\ certFile' = Overwrite(certFile, fileOffset, SubSeq(cells, 1, n))
             /\ torn' = (torn \/ n > 0)
             /\ CloseCertFile
             /\ UNCHANGED saved
    /\ UNCHANGED keyFile

\* The complete blocks that pem.Decode finds.
Starts(cells) ==
    {k \in DOMAIN cells :
        /\ cells[k].cell = 1
        /\ k + Length(cells[k].cert) - 1 <= Len(cells)
        /\ \A j \in 0 .. Length(cells[k].cert) - 1 :
              cells[k + j] = [cert |-> cells[k].cert, cell |-> j + 1]}

NthStart(starts, n) == CHOOSE k \in starts : Cardinality({j \in starts : j <= k}) = n

Found(cells) ==
    LET starts == Starts(cells) IN
    [n \in 1 .. Cardinality(starts) |-> cells[NthStart(starts, n)].cert]

\* Blocks that pem.Decode may take for complete ones: a certificate begins, and
\* the end that follows is not its own.
Garbled(cells) ==
    {k \in DOMAIN cells :
        /\ cells[k].cell = 1
        /\ k \notin Starts(cells)
        /\ \E e \in k + 1 .. Len(cells) :
              /\ cells[e].cell = Length(cells[e].cert)
              /\ \A j \in k + 1 .. e : cells[j].cell # 1}

\* All certificates in the order of the file; none of them, and an error, if one
\* cannot be parsed, which is the worst that may come of a garbled block.
PEMToX509Cert(cells) == IF Garbled(cells) = {} THEN Found(cells) ELSE <<>>

LoadCertificateFromFile == PEMToX509Cert(certFile)

\* The root certificates of a crypto context: those that can be parsed, at least
\* one of them, or an error.
getCaCertPool == ToSet(Found(certFile))

(***************************************************************************)
(* Keys in files: PrivateKeyToPEM names the encoding in the block's type,  *)
(* and refuses a key of another kind; PEMToX509PrivateKey goes by the type *)
(* of the block and tries every encoding when it names none.               *)
(***************************************************************************)
Encodings == {"PKCS1", "EC", "PKCS8"}
KeyKinds == {"rsa", "ecdsa", "tpm"}

\* Fault: the types of the blocks are swapped.
PrivateKeyToPEMSwapped(kind) ==
    [type |-> IF kind = "rsa" THEN "EC PRIVATE KEY" ELSE "RSA PRIVATE KEY",
     encoding |-> IF kind = "rsa" THEN "PKCS1" ELSE "EC", key |-> kind]

PrivateKeyToPEM(kind) ==
    [type |-> IF kind = "rsa" THEN "RSA PRIVATE KEY" ELSE "EC PRIVATE KEY",
     encoding |-> IF kind = "rsa" THEN "PKCS1" ELSE "EC", key |-> kind]

Parsers(block) ==
    CASE block.type = "RSA PRIVATE KEY" -> {"PKCS1"}
      [] block.type = "EC PRIVATE KEY" -> {"EC"}
      [] OTHER -> Encodings

PEMToX509PrivateKey(block) == IF block.encoding \in Parsers(block) THEN block.key ELSE NoKeyFile

LoadPrivateKeyFromFile == PEMToX509PrivateKey(keyFile)

\* A key file written by the service, or by somebody else: raw, or PKCS8.
SavePrivateKeyToFile ==
    /\ \/ \E kind \in KeyKinds \ {"tpm"} : keyFile' = PrivateKeyToPEM(kind)
       \/ \E kind \in {"rsa", "ecdsa"} :
             keyFile' = [type |-> "none", encoding |-> "PKCS8", key |-> kind]
    /\ UNCHANGED <<certFile, toSave, written, fileOffset, saved, torn>>

Chains == UNION {[1 .. n -> PEMCerts] : n \in 1 .. MaxChain}

FilesNext ==
    \/ \E chain \in Chains : SaveCertificateToFile(chain)
    \/ WriteCertificate
    \/ SavePrivateKeyToFile

-----------------------------------------------------------------------------
(***************************************************************************)
(* Properties                                                              *)
(***************************************************************************)

\* A chain that was saved is read back, its first certificate first, whatever
\* the file held before and however it is cut into blocks, and a crypto context
\* that is given the file trusts all of it.  Only a save that failed inside a
\* certificate can keep LoadCertificateFromFile from it, and only until its
\* garbled block is overwritten.
SavedChainIsRead ==
    /\ saved # <<>> =>
          /\ Garbled(certFile) = {} => IsPrefix(saved, LoadCertificateFromFile)
          /\ ToSet(saved) \subseteq getCaCertPool
    /\ Garbled(certFile) # {} => torn

\* A key is read back from a file as it was written.
KeyIsRead == keyFile # NoKeyFile => LoadPrivateKeyFromFile = keyFile.key

\* Both of the above.
SavedIsRead == SavedChainIsRead /\ KeyIsRead

\* "SaveCertificateToFile saves certificate to file": reading gives what was
\* saved, and no certificate of an older chain.
SavedChainIsAll == saved # <<>> => LoadCertificateFromFile = saved

\* "LoadCertificateFromFile loads certificate from file": what was saved can be
\* read, after an earlier save that failed too.
SavedCanBeRead == saved # <<>> => LoadCertificateFromFile # <<>>

=============================================================================
