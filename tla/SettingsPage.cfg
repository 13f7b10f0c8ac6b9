SPECIFICATION PageSpec
CONSTANTS
    Positions = {1, 4, 10}
    Typed = {0, 1, 9, 75}
    EnteredSettings <- MCEnteredSettings
    Thresholds = {0}
    MaxRetries = 2
    VaultGiven = "wallet"
    MaxDestinations = 2
    ErrorsMove = TRUE
    MaxTimers = 2
INVARIANT
    OneSaveAtATime
PROPERTIES
    MaxUnitKeepsGap
    StatusGoes
