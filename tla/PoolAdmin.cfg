SPECIFICATION Spec
CONSTANTS
    None = None
    usd = usd
    eur = eur
    verifierA = verifierA
    Mints = {usd, fake, eur}
    AssetIds = {1, 2}
    AssetIdOf <- Colliding
    TransferFee <- EurFee
    Supply <- OneEach
    Users = {alice}
    Groups = {}
    ComplianceKeys = {k1, k2}
    InitialKey = k1
    Programs = {verifierA, verifierB}
    InitialVerifiers <- AllVerifierA
    Signers = {admin, other}
    UpgradeAuthority = admin
    Capacity = 3
    RootRingSize = 2
    MaxAmount = 1
    MaxVersion = 2
    MaxProofs = 1
    ReplaceableCircuits = {"withdraw"}
    PauseValues = {TRUE, FALSE}
    DonatedMints = {usd, fake}
INVARIANTS
    Auditable
    Solvent
CHECK_DEADLOCK FALSE
