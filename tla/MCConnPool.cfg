SPECIFICATION FairSpec
CONSTANTS
  TxRequests = {t1, t2, t3, t4}
  Queries = {g1}
  PoolReads = 2
  MaxConns = 3
  Nobody = Nobody
INVARIANTS
  StarvedHoldNoRow
  StallTakesAFullPool
PROPERTY EveryRequestAnswered
