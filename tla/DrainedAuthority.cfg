SPECIFICATION Spec
CONSTANTS
  Names = {n1}
  Users = {u1, u2}
  NoUser = NoUser
  RentExempt = 2
  MaxNonce = 2
  Purse = 8
  ReservesRent = FALSE
  InitialWallet <- MCInitialWallet
  DefaultPolicy <- MCDefaultPolicy
INVARIANTS
  DomainReclaimable
CHECK_DEADLOCK FALSE
