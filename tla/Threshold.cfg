SPECIFICATION Spec
CONSTANTS
    Q = 101
    Dealers = 3
    Quorum = 2
    Secrets = {1, 4}
    Slopes = {0, 3}
    Texts = {2}
    EphPubs = {1, 3}
    Schemes = {"feldman", "gjkr"}
INVARIANTS
    SharesOfOneKey
    FaultyDealersOut
    SignatureSound
    CommitteeOpens
CHECK_DEADLOCK FALSE
