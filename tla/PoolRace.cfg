SPECIFICATION Spec
CONSTANTS
    None = None
    usd = usd
    eur = eur
    verifierA = verifierA
    Mints = {usd}
    AssetIds = {1}
    AssetIdOf <- OneAsset
    TransferFee <- NoFees
    Supply <- TwoEach
    Users = {alice}
    Groups = {treasury}
    ComplianceKeys = {k1}
    InitialKey = k1
    Programs = {verifierA}
    InitialVerifiers <- AllVerifierA
    Signers = {admin, other}
    UpgradeAuthority = admin
    Capacity = 4
    RootRingSize = 2
    MaxAmount = 2
    MaxVersion = 0
    MaxProofs = 2
    ReplaceableCircuits = {}
    PauseValues = {}
    DonatedMints = {}
INVARIANTS
    TypeOK
    SpentOnce
    Redeemable
    RootRetention
PROPERTY RootIndexStable
CHECK_DEADLOCK FALSE
