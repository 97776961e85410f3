SPECIFICATION Spec

CONSTANTS
    Accounts = {a1, a2, a3}
    Chains = {xx, eth}
    ThisChain = xx
    ResourceIds = {coin}
    DepositNonces = {1}
    Calls = {pay}
    Payloads = {fungible}
    ProposalLifetime = 2
    MaxThreshold = 3
    MaxTransfers = 2
    MaxBlock = 3

SYMMETRY RelayerSymmetry

INVARIANTS
    TypeOK
    OneVoice
    ExecutedIffApproved
    DepositNoncesConsecutive

PROPERTIES
    SettledForever
    NoVoteKeptUnexecuted
    RejectedIffUnreachable
    ImplementsOutcome
