SPECIFICATION BetanetSpec

CONSTANTS
    Accounts = {a1}
    a1 = a1
    ExistentialDeposit = 2
    MaxSchedules = 2
    MaxBlock = 3
    Addresses = {e1, e2}
    Statements = {regular}
    None = none
    ClaimAmounts = {5}
    RewardAmounts = {5}
    ScheduleLists <- MCScheduleLists
    OpeningBalances = {0}
    OpeningSchedules <- MCOpeningSchedules
    MaxMinted = 5
    EnactmentBlock = 2
    BlocksPerMonth = 1
    Choices = {"NoVesting", "Vesting9Month"}
    OpeningAccounts <- MCOpeningAccounts

PROPERTIES
    RewardsReachClaims
