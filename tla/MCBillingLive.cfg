CONSTANTS
  Nil = Nil
  u1 = u1
  d1 = d1
  d2 = d2
  r1 = r1
  r2 = r2
  o1 = o1
  c1 = c1
  c2 = c2
  c3 = c3
  t1 = t1
  g1 = g1
  p1 = p1
  MODELS <- MCModels
  Grain = 2
  Users = {u1}
  RequestIds = {r1}
  OperationIds = {o1}
  Dialogs = {d1, d2}
  Tokens <- MCTokens
  MaxFaults = 1
  Tasks = {c1, c2, p1}
  RESERVE_MAX_ATTEMPTS = 3
  RETRY_ATTEMPTS = 2
  Calls = {c1, c2}
  Requests <- OneRequest
  Bills = {0, 3}
  TopUps = {}
  Readers = {}
  Commands <- OneCommand
  Reapers = {p1}
  REAP_BATCH_SIZE = 2
  InitialRows <- ScarceRows
  StartsCold = TRUE
SPECIFICATION FairEvictionSpec
PROPERTIES
  CallsReturn
  ReservationsEnd
