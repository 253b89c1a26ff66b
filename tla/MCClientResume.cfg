CONSTANTS
    a1 = a1
    a2 = a2
    Empty = Empty
    Seeds <- MCSeeds
    Accounts <- MCAccounts
    MaxAdrID = 7
    MaxFresh = 16
    CrashAt <- MCCrashSig2
    MaxAccess = 1
    AccountZero = a1
    NewAccountID <- MCNewAccountID
    NewSeed <- MCNewSeed
    MaxClients = 1
    MaxResets = 0
    MaxFreshReset = 0
    MaxCheckedID = 0
    Lossy = FALSE
SPECIFICATION Spec
INVARIANT Recoverable
