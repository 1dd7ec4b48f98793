SPECIFICATION MCSpec
CONSTANTS
    Nodes = {1, 2, 3}
    MainNode = 2
    isMainNode = TRUE
    Types = {"iam", "online"}
    iamCertType = "iam"
    MaxCerts = 4
    None = None
    Tokens = {t1, t2}
    CryptoUsers = {c1, c2}
    MaxContexts = 2
    Nil = Nil
    PEMCerts = {"long", "short"}
    Length <- MCLength
    MaxChain = 3
    NoKeyFile = NoKeyFile
    Keys = {k1, k2}
    Materials = {m1, m2, m3}
    RSA = {m1}
    ECC = {m2}
    Handles = {h1}
    Users = {u1, u2}
    TransientSlots = 1
    MaxTPMFailures = 1
    NoHandle = NoHandle
    NoKey = NoKey
    Subjects = {"root", "ca"}
    RootSubject = "root"
    MaxIssued = 4
INVARIANTS
    InstallSurvivesRestarts
    CloudIsAnswered
    ContextsClosed
    StoredIsUsable
CHECK_DEADLOCK FALSE
