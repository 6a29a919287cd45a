\* Two callers on a pool of one connection, every VersionParam over one
\* hash, two numbers and one timestamp, and three kinds of contract_ids.
CONSTANTS
  Callers = {c1, c2}
  PoolSize = 1
  eth = eth
  h1 = h1
  n1 = n1
  n2 = n2
  t1 = t1
  a1 = a1
  a2 = a2
  A1h = A1h
  A2h = A2h
  A1n = A1n
  A1t = A1t
  None = None
  Chains = {eth}
  Hashes = {h1}
  Numbers = {n1, n2}
  Timestamps = {t1}
  Addrs = {a1, a2}
  Requests <- MCRequests
  DbAt <- MCDbAt

SPECIFICATION Spec
INVARIANT TypeOK
INVARIANT AnswerIsStateAtVersion
\* Every caller sends one request; once all are answered the server idles.
CHECK_DEADLOCK FALSE
