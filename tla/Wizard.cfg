SPECIFICATION WizardSpec
CONSTANTS
    EnteredSettings <- MCEnteredSettings
    Thresholds = {0, 1}
    MaxSent = 1
    MaxRetries = 1
    VaultGiven = "vault"
    MaxDestinations = 2
    ErrorsMove = FALSE
INVARIANTS
    DestinationsValid
    StoredShowsAsReviewed
