CONSTANTS
  x1 = x1  x2 = x2  w1 = w1  w2 = w2
  NoValue = NoValue
  TxIds <- MCTxIds
  Workers <- MCWorkers
  WRITE_BATCH_MAX = 1
  GRAN = 2
  TTL = 2
  MaxTime = 4
SPECIFICATION Spec
SYMMETRY WorkerSymmetry
INVARIANT RefreshedOnce
INVARIANT DepartedRefreshedAtMostOnce
