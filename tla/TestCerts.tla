----------------------------- MODULE TestCerts -----------------------------
(***************************************************************************)
(* utils/testtools/crypto.go: hierarchies of certificates for the tests of *)
(* the services, and CheckCertificate of utils/cryptutils.                 *)
(*                                                                         *)
(* The k-th certificate is generated with key k; key 0 is none.  Names may *)
(* be those of other certificates, and all roots have the same name.       *)
(***************************************************************************)
EXTENDS Naturals, FiniteSets, Sequences

CONSTANTS
    Subjects,      \* names of certificates
    RootSubject,   \* "Fusion Root CA"
    MaxIssued      \* bound: number of certificates

ASSUME IssuedAssumption == MaxIssued \in Nat

VARIABLES
    issued,        \* certificates in the order of their generation
    made           \* history: made[k]: whether the k-th was made as an authority, and
                   \* the root whose authorities issued it, or 0 when it was
                   \* issued with a certificate that is no authority

certVars == <<issued, made>>

CertsInit ==
    /\ issued = <<>>
    /\ made = <<>>

\* x509.CreateCertificate refuses a key that is not the parent's; the template of
\* a root has no key yet.
GenerateCert(template, parent, privateKey, publicKey) ==
    /\ parent.public \in {0, privateKey}
    /\ issued' = Append(issued,
          [subject |-> template.subject, isCA |-> template.isCA, issuer |-> parent.subject,
           public |-> publicKey, signedBy |-> privateKey])

GenerateCertAndKey(template, parent, parentPrivateKey) ==
    LET key == Len(issued) + 1 IN
    /\ Len(issued) < MaxIssued
    /\ GenerateCert(template, parent, IF parentPrivateKey = 0 THEN key ELSE parentPrivateKey, key)

Template(subject, isCA) == [subject |-> subject, isCA |-> isCA, public |-> 0]

GenerateDefaultCARootCertAndKey ==
    /\ GenerateCertAndKey(Template(RootSubject, TRUE), Template(RootSubject, TRUE), 0)
    /\ made' = Append(made, [ca |-> TRUE, root |-> Len(issued) + 1])

RootOf(p) == IF made[p].ca THEN made[p].root ELSE 0

\* Fault: the template's IsCA is not set.
GenerateCAWithoutIsCA(subject, p, key) ==
    /\ GenerateCertAndKey(Template(subject, FALSE), issued[p], key)
    /\ made' = Append(made, [ca |-> TRUE, root |-> RootOf(p)])

GenerateCACertAndKey(subject, p, key) ==
    /\ GenerateCertAndKey(Template(subject, TRUE), issued[p], key)
    /\ made' = Append(made, [ca |-> TRUE, root |-> RootOf(p)])

GenerateCertAndKeyWithSubject(subject, p, key) ==
    /\ GenerateCertAndKey(Template(subject, FALSE), issued[p], key)
    /\ made' = Append(made, [ca |-> FALSE, root |-> RootOf(p)])

CertsNext ==
    \/ GenerateDefaultCARootCertAndKey
    \/ \E subject \in Subjects, p \in DOMAIN issued, key \in {0} \union DOMAIN issued :
          \/ GenerateCACertAndKey(subject, p, key)
          \/ GenerateCertAndKeyWithSubject(subject, p, key)

-----------------------------------------------------------------------------
CheckCertificate(cert, key) == cert.public = key

\* A certificate is signed by an authority that has the issuer's name: crypto/x509.
SignedBy(x, y) == y.isCA /\ x.issuer = y.subject /\ x.signedBy = y.public

\* The leaf is a root or a chain leads from it to one: every set of certificates
\* that has the leaf and, with a certificate, all that signed it, has a root.
VerifyCertChain(leaf, roots, intermediates) ==
    LET all == {leaf} \union roots \union intermediates IN
    \A chains \in SUBSET all :
        /\ leaf \in chains
        /\ \A x \in chains, y \in all : SignedBy(x, y) => y \in chains
        => chains \intersect roots # {}

-----------------------------------------------------------------------------
(***************************************************************************)
(* Properties                                                              *)
(***************************************************************************)

Issued == {issued[k] : k \in DOMAIN issued}

Roots == {k \in DOMAIN issued : issued[k].signedBy = issued[k].public}

\* A generated certificate matches its own key and no other, and it can be
\* verified with the root it descends from and with no other, although roots and
\* authorities may have the same names.
CertificatesVerify ==
    \A k \in DOMAIN issued :
        /\ \A key \in DOMAIN issued : CheckCertificate(issued[k], key) <=> key = k
        /\ \A r \in Roots :
              VerifyCertChain(issued[k], {issued[r]}, {issued[j] : j \in DOMAIN issued \ Roots})
                  <=> made[k].root = r

=============================================================================
