SPECIFICATION FairSpec
CONSTANTS
  Senders = {api1, api2, worker}
  Guarded = {api1, api2}
  MaxReport = 1
INVARIANTS SentWasDelivered OnceUnlessExcused
PROPERTY LatestArrives
