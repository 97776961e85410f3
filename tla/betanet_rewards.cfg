SPECIFICATION FairBetanetSpec

CONSTANTS
    Accounts = {a1, a2}
    a1 = a1
    ExistentialDeposit = 2
    MaxSchedules = 2
    MaxBlock = 3
    Addresses = {e1, e2}
    Statements = {regular}
    None = none
    ClaimAmounts = {5}
    RewardAmounts = {5}
    ScheduleLists <- MCScheduleLists
    OpeningBalances = {0}
    OpeningSchedules <- MCOpeningSchedules
    MaxMinted = 10
    EnactmentBlock = 2
    BlocksPerMonth = 1
    Choices = {"Vesting9Month"}
    OpeningAccounts <- MCOpeningAccounts

INVARIANTS
    BetanetTypeOK
    TotalCoversClaims
    RewardsCharged
    NothingOwedAfterEnactment

PROPERTIES
    NewClaimsHaveTheirOwnTerms
    NoRewardTwice
    LocksChosenAmount
    LeftoverLocked
    ApprovedIsEnacted
