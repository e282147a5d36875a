SPECIFICATION Spec
CONSTANTS
  p1 = p1  p2 = p2  r1 = r1  r2 = r2  w1 = w1
  Keys = {k1}
  Procs = {p1, p2}
  Readers = {r1, r2}
  Writers = {w1}
  Home <- MCHome
  TTL = 2
  Lag = 1
  MaxVersion = 2
  Redis = Redis
INVARIANTS StalenessBounded AnsweredWriteIsSeen
