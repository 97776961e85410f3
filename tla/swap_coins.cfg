SPECIFICATION SwapSpec

CONSTANTS
    Accounts = {a1}
    Chains = {xx, eth}
    ThisChain = xx
    ResourceIds = {coin}
    DepositNonces = {1}
    Calls <- MCCalls
    Payloads = {1, 3, 15}
    ProposalLifetime = 1
    MaxThreshold = 1
    MaxTransfers = 2
    MaxBlock = 1
    Users = {u1, u2}
    u1 = u1
    u2 = u2
    Bridge = bridge
    NoAccount = none
    ExistentialDeposit = 2
    Frozen <- MCFrozen
    Fees = {0, 2}
    Modulus = 16
    UserFunds = 4
    BridgeFunds = 4
    MaxGifts = 1
    NativeTokenId = coin

INVARIANTS
    SwapTypeOK
    BridgeAccountsForTransfers
