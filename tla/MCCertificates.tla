--------------------------- MODULE MCCertificates ---------------------------
(***************************************************************************)
(* What a node does with its certificates and keys.  A behaviour is one    *)
(* request of the IAM client, or a sequence of calls of the crypto         *)
(* context, of the PEM files, of the TPM keys or of the generator of test  *)
(* certificates: they share no state.                                      *)
(***************************************************************************)
EXTENDS IAMCertificates, CryptoContext, PEMFiles, TPMKey, TestCerts

VARIABLE component

MCLength(c) == IF c = "long" THEN 3 ELSE 1

allVars == <<component, requestVars, cryptoVars, fileVars, tpmVars, certVars>>

\* Any request, where the component is the IAM client; else a fixed one.
MCInit ==
    /\ component \in {"iam", "crypto", "files", "tpm", "testcerts"}
    /\ RequestInit
    /\ component # "iam" => request = [op |-> "install", node |-> None, certs |-> <<>>]
    /\ CryptoInit
    /\ FilesInit
    /\ TPMInit
    /\ CertsInit

MCNext ==
    /\ UNCHANGED component
    /\ \/ component = "iam" /\ RequestNext /\ UNCHANGED <<cryptoVars, fileVars, tpmVars, certVars>>
       \/ component = "crypto" /\ CryptoNext /\ UNCHANGED <<requestVars, fileVars, tpmVars, certVars>>
       \/ component = "files" /\ FilesNext /\ UNCHANGED <<requestVars, cryptoVars, tpmVars, certVars>>
       \/ component = "tpm" /\ TPMNext /\ UNCHANGED <<requestVars, cryptoVars, fileVars, certVars>>
       \/ /\ component = "testcerts" /\ CertsNext
          /\ UNCHANGED <<requestVars, cryptoVars, fileVars, tpmVars>>

MCSpec == MCInit /\ [][MCNext]_allVars

\* Keys and certificates that were stored are what is read or used afterwards,
\* in files (SaveCertificateToFile, SavePrivateKeyToFile) and in the TPM
\* (MakePersistent, Sign), failing calls leave no TPM slot taken, and generated
\* certificates are verified by their own root (GenerateCertAndKey).
StoredIsUsable == SavedIsRead /\ TPMObjectsKept /\ CertificatesVerify

=============================================================================
