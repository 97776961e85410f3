SPECIFICATION RelaySpec

CONSTANTS
    Accounts = {a1, a2, a3}
    Chains = {xx, eth}
    ThisChain = xx
    ResourceIds = {coin}
    DepositNonces = {1}
    Calls = {c1, c2}
    Payloads = {}
    ProposalLifetime = 1
    MaxThreshold = 3
    MaxTransfers = 0
    MaxBlock = 1
    Faulty = {a3}

SYMMETRY RelayerSymmetry

INVARIANTS
    OnlyGenuineExecuted
    OneReleasePerDeposit
