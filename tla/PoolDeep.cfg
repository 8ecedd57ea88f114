SPECIFICATION AuditSpec
CONSTANTS
    None = None
    usd = usd
    eur = eur
    verifierA = verifierA
    Mints = {usd}
    AssetIds = {1}
    AssetIdOf <- OneAsset
    TransferFee <- NoFees
    Supply <- TwoEach
    Users = {alice}
    Groups = {treasury}
    ComplianceKeys = {k1}
    InitialKey = k1
    Programs = {verifierA}
    InitialVerifiers <- AllVerifierA
    Signers = {admin, other}
    UpgradeAuthority = admin
    Capacity = 5
    RootRingSize = 3
    MaxAmount = 2
    MaxVersion = 0
    MaxProofs = 1
    ReplaceableCircuits = {}
    PauseValues = {}
    DonatedMints = {}
INVARIANTS
    Provenance
    LogReplays
CHECK_DEADLOCK FALSE
