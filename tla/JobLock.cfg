SPECIFICATION FairSpec
CONSTANTS
  r1 = r1  r2 = r2  r3 = r3
  refresh = refresh  digest = digest
  Runs = {r1, r2, r3}
  LockNames = {refresh, digest}
  LockOf <- MCLockOf
  TTL <- MCTTL
  Lag = 1
  Admins = {a1}
  Cleaners = {c1}
  Nobody = Nobody
INVARIANT NoTwoEntitled
PROPERTIES ImplementsLease EveryAskerWorks
