SPECIFICATION Spec
CONSTANTS
  Names = {n1, n2}
  Users = {u1, u2}
  NoUser = NoUser
  RentExempt = 1
  MaxNonce = 2
  Purse = 4
  ReservesRent = FALSE
  InitialWallet <- MCInitialWallet
  DefaultPolicy <- MCDefaultPolicy
SYMMETRY Symmetric
INVARIANTS
  AccountsCoupled
  FlagMeansCustody
PROPERTIES
  OwnerFollowsRegistry
  ImplementsCustody
CHECK_DEADLOCK FALSE
