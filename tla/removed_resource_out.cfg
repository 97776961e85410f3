SPECIFICATION RegisteredSpec

CONSTANTS
    Accounts = {a1}
    Chains = {xx, eth}
    ThisChain = xx
    ResourceIds = {coin}
    DepositNonces = {1}
    Calls <- MCCalls
    Payloads = {2}
    ProposalLifetime = 1
    MaxThreshold = 2
    MaxTransfers = 1
    MaxBlock = 0
    Users = {u1}
    u1 = u1
    u2 = u2
    Bridge = bridge
    NoAccount = none
    ExistentialDeposit = 2
    Frozen <- MCFrozen1
    Fees = {0}
    Modulus = 16
    UserFunds = 6
    BridgeFunds = 4
    MaxGifts = 0
    NativeTokenId = coin

PROPERTIES
    NoTransferOfRemovedResource
