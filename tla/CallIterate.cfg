\* A program iterates on a call of two backends, one of which may yield for ever, and may stop it or leave the loop.
CONSTANTS
  b1 = b1
  b2 = b2
  N = 2
  Backends = {b1, b2}
  BackendOf <- TwoBackends
  MaxItems = 2
  Endless <- FirstIsEndless
  Iterators = {it1}
  Callbacks = {}
  Waiters = {}
  Stoppers = {s1}
  Holders = {}
  HasErrback = FALSE
SPECIFICATION FairSpec
INVARIANTS TypeOK NoLostResult AtMostOneLate OnceInOrder
PROPERTIES IsResultStream StopEndsThreads
