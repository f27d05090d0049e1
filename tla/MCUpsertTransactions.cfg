CONSTANTS
  Nil = Nil
  u1 = u1
  u2 = u2
  o1 = o1
  o2 = o2
  t1 = t1
  t2 = t2
  g1 = g1
  f1 = f1
  f2 = f2
  MODELS <- MCModels
  Grain = 1
  Users = {u1, u2}
  RequestIds = {}
  OperationIds = {o1, o2}
  Dialogs = {}
  Tokens = {}
  MaxFaults = 1
  Tasks = {t1, t2}
  RESERVE_MAX_ATTEMPTS = 2
  RETRY_ATTEMPTS = 2
  TopUps = {t1, t2}
  Readers = {}
  Commands <- EitherUser
  Flushers = {f1, f2}
  FLUSH_BATCH_SIZE = 2
  Losses = {}
  MaxLosses = 0
  InitialRows <- Rows
  Stoppable = {f1, f2}
  LossesMidFlush = FALSE
  KeyOf <- MCKeyOf
SPECIFICATION TxnSpec
SYMMETRY Symmetry
INVARIANTS
  TypeOK
  CleanIsDurable
  RowNeverAhead
  NoCircularWait
PROPERTIES
  AtomicUpserts
