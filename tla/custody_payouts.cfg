SPECIFICATION FairCustodySpec

CONSTANTS
    m1 = m1
    m2 = m2
    c1 = c1
    c2 = c2
    r1 = r1
    r2 = r2
    Members = {m1, m2, m3}
    Founders = {m1, m2}
    Custody <- MCCustody
    Reserve <- MCReserve
    Allocation <- MCAllocation
    ReserveRatio <- MCReserveRatio
    Custodians = {a1}
    Controllers = {k1, k2}
    Delegates = {g1}
    Accuracy = 100
    PayoutFrequency = 2
    CustodyDuration = 5
    GovernanceCustodyDuration = 3
    ExistentialDeposit = 2
    ProxyDeposit = 1
    Stakes = {6}
    Gifts = {2}
    Slashes = {2}
    MaxForeign <- MCMaxForeign
    MaxBlock = 6


INVARIANTS
    TeamTypeOK
    TotalMatches
    VestedOnSchedule
    EveryCustodyHasOneMember
    CustodyBacked
    KeptAlive

PROPERTIES
    FinalPayoutEmpties
    AllPaidOut
