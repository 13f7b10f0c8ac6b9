SPECIFICATION FairFlowSpec
CONSTANTS
  Names = {n1}
  Users = {me, u2}
  NoUser = NoUser
  RentExempt = 1
  MaxNonce = 1
  ReservesRent = TRUE
  Me = me
  Page = n1
  OnlyVault = TRUE
  MaxBusy = 1
  MaxLoose = 1
  InitialWallet <- MCInitialWallet
  DefaultPolicy <- MCDefaultPolicy
INVARIANTS
  FlowTypeOK
PROPERTIES
  LimboEnds
  ViewCatchesUp
  SuccessWasExecuted
CHECK_DEADLOCK FALSE
