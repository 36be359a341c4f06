SPECIFICATION FairSpec
CONSTANTS
  A = A  B = B
  r1 = r1  r2 = r2  r3 = r3  r4 = r4
  f1 = f1  f2 = f2
  c1 = c1  c2 = c2
  k1 = k1
  m1 = m1
  Orders <- MCOrders
  Required <- MCRequired
  MaxFailures = 2
  MaxIndex = 1
INVARIANTS HistoryIntact AckedDurable
PROPERTIES ImplementsLog EventuallySettled
