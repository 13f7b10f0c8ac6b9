SPECIFICATION DelegationSpec
CONSTANTS
  Names = {n1}
  Users = {u1, u2}
  NoUser = NoUser
  RentExempt = 1
  MaxNonce = 2
  Purse = 3
  ReservesRent = TRUE
  MaxDestinations = 1
  DustThreshold = 1
  MaxTime = 1
  InitialWallet <- MCInitialWallet
  DefaultPolicy <- MCDefaultPolicy
  SettingsChoices <- MCSettingsChoices
SYMMETRY Symmetric
INVARIANTS
  DelegationTypeOK
  PolicyValid
  LamportsConserved
  DomainReclaimable
  FundsWithdrawable
PROPERTIES
  NonceCountsChanges
CHECK_DEADLOCK FALSE
