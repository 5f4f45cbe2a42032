\* Three threads share up to two clients; constructors and Connects throw, and
\* callers Remove clients; one slot may be left unwritten by racing push_backs.
SPECIFICATION FairSpec
CONSTANTS
  Thread = {t1, t2, t3}
  Addr = {a1, a2, a3}
  NoClient = NoClient
  MinPoolSize = 1
  MaxPoolSize = 2
  MaxStale = 1
INVARIANTS TypeOK ExclusiveOwnership PoolAccounting NoLostWakeup
PROPERTIES GiveUpOnlyWhenExhausted PopReturns ImplementsBoundedPool
