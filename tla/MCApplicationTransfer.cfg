SPECIFICATION FairSpec
CONSTANTS
  A = A  B = B  C = C
  r1 = r1  r2 = r2  r3 = r3  r4 = r4
  f1 = f1  f2 = f2
  c1 = c1  c2 = c2
  k1 = k1
  key1 = key1  key2 = key2
  m1 = m1
  good = good  torn = torn
  t1 = t1  t2 = t2
  Archives = {good, torn}
  Contents <- MCContents
  Sessions <- MCSessions
  Threads = {t1, t2}
  Orders <- MCOrders
  Late <- MCLate
  Required = {"auth-v1"}
  PageRows = 1
  MaxFailures = 1
  MaxIndex = 3
INVARIANTS CompleteExact StagedInert
PROPERTIES TargetGrows TransferEnds
CHECK_DEADLOCK FALSE
