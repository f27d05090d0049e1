CONSTANTS
  Nil = Nil
  u1 = u1
  d1 = d1
  d2 = d2
  r1 = r1
  r2 = r2
  o1 = o1
  c1 = c1
  c2 = c2
  c3 = c3
  t1 = t1
  g1 = g1
  p1 = p1
  MODELS <- MCModels
  Grain = 2
  Users = {u1}
  RequestIds = {r1, r2}
  OperationIds = {o1}
  Dialogs = {d1, d2}
  Tokens <- MCTokens
  MaxFaults = 2
  Tasks = {c1, t1, g1, p1}
  RESERVE_MAX_ATTEMPTS = 3
  RETRY_ATTEMPTS = 2
  Calls = {c1}
  Requests <- OneRequest
  Bills = {3}
  TopUps = {t1}
  Readers = {g1}
  Commands <- OneCommand
  Reapers = {p1}
  REAP_BATCH_SIZE = 2
  InitialRows <- ScarceRows
  StartsCold = TRUE
SPECIFICATION Spec
INVARIANTS
  IInv
  OneSelect
PROPERTIES
  LedgerSpec
  SeedNeverOverwrites
