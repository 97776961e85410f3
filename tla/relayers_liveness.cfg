SPECIFICATION LiveSpec

CONSTANTS
    Accounts = {a1, a2, a3, a4}
    Chains = {xx, eth}
    ThisChain = xx
    ResourceIds = {coin}
    DepositNonces = {1, 2}
    Calls = {pay}
    Payloads = {}
    ProposalLifetime = 2
    MaxThreshold = 3
    MaxTransfers = 0
    MaxBlock = 3
    Faulty = {a4}

PROPERTIES
    DepositsReleased

CHECK_DEADLOCK FALSE
