CONSTANTS
    low = low
    middle = middle
    high = high
    k1 = k1
    k2 = k2
    k3 = k3
    i1 = i1
    i2 = i2
    i3 = i3
    w1 = w1
    Nil = Nil
    Tiers <- MCTiers
    Lower <- MCLower
    ValidDuration <- MCValidDuration
    MinNrCodes <- MCMinNrCodes
    Tokens <- MCTokens
    Ids <- MCIds
    MaxDay = 1
    MaxDup = 2
    MaxResets = 0
    Wallets = {}
SPECIFICATION WalletSpec
SYMMETRY MCSymmetry
INVARIANT ValidLevelsPerSpec
CHECK_DEADLOCK FALSE
