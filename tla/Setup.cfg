SPECIFICATION SetupSpec
CONSTANTS
    Wallets = {w1, w2}
    NoWallet = none
    LastName = 2
    MaxFetches = 1
    MaxDestinations = 1
    ErrorsMove = TRUE
    Levels = {"medium"}
    OtherOwner = other
    MaxJobs = 2
    SetupWallets = {w1}
    RegisteredNames = {1}
INVARIANTS
    TypeOK
    CompleteMeansVault
    FormShowsRegistration
PROPERTIES
    CreationEnds
    RegisteredIsListed
