SPECIFICATION InboundSpec
CONSTANTS
    Self = "n"
    Peers = {"p", "q"}
    r1 = r1
    r2 = r2
    Runtimes = {r1, r2}
    Secrets = {"a", "b"}
    Transactions = {"pset", "pdel", "pvoc", "pother", "qset", "nset", "nvoc", "ndel"}
    Origin <- MCOrigin
    Kind <- MCKind
    SecretOf <- MCSecretOf
    Word <- MCWord
    Vocabulary <- MCVocabulary
    Grant <- MCGrant
    StorageMode <- PlainReceiver
    MaxKills = 0
    None = None
PROPERTY
    DuplicateAlone
