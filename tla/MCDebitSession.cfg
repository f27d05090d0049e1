CONSTANTS
  MODELS <- MCModels
  Grain = 2
  InitialBalances <- MCBalances
  Requests <- MCRequests
  Bills <- MCBills
SPECIFICATION Spec
INVARIANTS
  TypeOK
  WalkIsLoop
PROPERTIES
  DenialIsJustified
  SettledAsIfExact
  BillIsCeiling
  PaidOnlyIsPaid
