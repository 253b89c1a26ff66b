CONSTANTS
    low = low
    middle = middle
    high = high
    k1 = k1
    k2 = k2
    k3 = k3
    i1 = i1
    i2 = i2
    i3 = i3
    w1 = w1
    Nil = Nil
    Tiers <- MCTiers
    Lower <- MCLower
    ValidDuration <- MCValidDuration
    MinNrCodes <- MCMinNrCodes
    Tokens <- MCTokens
    Ids <- MCIds
    MaxDay = 1
    MaxDup = 1
    MaxResets = 1
    Wallets = {w1}
SPECIFICATION WalletSpec
SYMMETRY MCSymmetry
INVARIANT WalletTypeOK
INVARIANT SearchIsReachability
INVARIANT CodesRedeemedOnce
INVARIANT VerifyCodesMonotone
PROPERTY WalletAccessCoversReached
CHECK_DEADLOCK FALSE
