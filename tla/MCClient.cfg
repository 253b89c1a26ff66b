CONSTANTS
    a1 = a1
    a2 = a2
    Empty = Empty
    Seeds <- MCSeeds
    Accounts <- MCAccounts
    MaxAdrID = 2
    MaxFresh = 16
    MaxFreshReset = 10
    CrashAt <- MCCrashAt
    MaxAccess = 2
    AccountZero = a1
    NewAccountID <- MCNewAccountID
    NewSeed <- MCNewSeed
    MaxClients = 1
    MaxResets = 1
    MaxCheckedID = 120
    Lossy = TRUE
SPECIFICATION Spec
CONSTRAINT MCResetBound
INVARIANT TypeOK
INVARIANT RestoreReturnsLatest
INVARIANT PkrMapsDisjoint
PROPERTY LedgerRefinement
PROPERTY RecoveryHistoryKept
INVARIANT MnemonicIsDecimalID
