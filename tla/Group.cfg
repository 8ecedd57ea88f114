SPECIFICATION Spec
CONSTANTS
    Members = {m1, m2, m3}
    Threshold = 2
    FreshIdentity = {m3}
    Volunteers = {m1, m2}
    ProposalIds = {p1}
    Texts = {pay, refund}
    Leaders = {m1}
    MaxAgain = 1
    MaxProposals = 2
INVARIANTS
    AgreedKey
    OneRoster
    QuorumSigned
    NonceSignsOnce
PROPERTY OrderlyExecutes
CHECK_DEADLOCK FALSE
