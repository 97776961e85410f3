SPECIFICATION FairCmixSpec

CONSTANTS
    low = low
    high = high
    None = none
    Hashes = {h1, h2}
    AddressSpaces = {8, 9}
    Servers = {s1, s2}
    Validators = {v1, v2}
    Variables = {low, high}
    BlockPoints <- MCBlockPoints
    Submissions = {2}
    MaxPoints = 4
    MaxBlock = 2

INVARIANTS
    OnePricePerEra

PROPERTIES
    DecisionTakesEffect
