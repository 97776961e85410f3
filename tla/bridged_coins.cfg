SPECIFICATION BridgedSpec

CONSTANTS
    Accounts = {a1}
    Chains = {xx, eth}
    ThisChain = xx
    ResourceIds = {coin}
    DepositNonces = {1, 2}
    Calls <- MCCalls
    Payloads = {2}
    ProposalLifetime = 1
    MaxThreshold = 2
    MaxTransfers = 1
    MaxBlock = 1
    Users = {u1}
    u1 = u1
    Bridge = bridge
    NoAccount = none
    ExistentialDeposit = 2
    Frozen <- MCFrozen
    Fees = {1}
    Modulus = 16
    UserFunds = 6
    BridgeFunds = 3
    MaxGifts = 0
    NativeTokenId = coin
    Faulty = {}
    Remote = eth

INVARIANTS
    WrappedCoinsBacked
    ReleasesFunded
