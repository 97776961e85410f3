SPECIFICATION EconomySpec

CONSTANTS
    user = user
    other = other
    testnet = testnet
    sale = sale
    Accounts = {pool, treasury, bridge, testnet, sale, user, other}
    ExistentialDeposit = 2
    MaxSchedules = 2
    MaxBlock = 8
    Accuracy = 100
    EraDuration = 4
    RewardsPool = pool
    Treasury = treasury
    BridgeAccount = bridge
    TestnetFund = testnet
    SaleFund = sale
    CustodyTotals = {3}
    NoAuthor = none
    Portion = 30
    StakingRatios = {60}
    EraBlocks = {2, 4}
    Parameters <- MCParameters
    Curves <- MCCurves
    LiquidityStakes = {20}
    LiquidityBalances = {9}
    RewardAmounts = {1, 5}
    Fees = {5}
    Tips = {1}
    OpeningBalances <- MCOpeningBalances
    OpeningLiquidity = 6
    AdjustTransfer = 4
    AdjustLiquidity = 2
    MaxCalls = 1
    FundAccount <- MCFundAccount
    Managers = {m1}
    NoManager = none
    Distributions <- MCDistributions
    MaxDistributions = 2

INVARIANTS
    IssuanceMatches
    StakeableIsTheRest
    InterestFollowsCurve

PROPERTIES
    PoolPaysFirst
    InterestFalls
    DistributedAsListed
