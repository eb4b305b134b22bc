SPECIFICATION InboundFairSpec
CONSTANTS
    Self = "n"
    Peers = {"p", "q"}
    r1 = r1
    r2 = r2
    Runtimes = {r1, r2}
    Secrets = {"a", "b"}
    Transactions = {"pset", "pdel", "pvoc", "pother", "qset", "nset", "nvoc", "ndel"}
    Origin <- MCOrigin
    Kind <- MCKind
    SecretOf <- MCSecretOf
    Word <- MCWord
    Vocabulary <- MCVocabulary
    Grant <- MCGrant
    StorageMode <- EncryptedButQ
    MaxKills = 1
    None = None
INVARIANTS
    AppliedOnce
    RebuildIsIdentity
    DeliveredIsRetained
PROPERTIES
    CommittedWhilePermitted
    RacedRetriesSettle
