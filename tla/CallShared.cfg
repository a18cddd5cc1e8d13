\* Two callback threads and a wait() share a call that lists one backend twice, which other code locks too.
CONSTANTS
  b1 = b1
  b2 = b2
  N = 2
  Backends = {b1}
  BackendOf <- OneTwice
  MaxItems = 1
  Endless = {}
  Iterators = {}
  Callbacks = {c1, c2}
  Waiters = {w1}
  Stoppers = {}
  Holders = {h1}
  HasErrback = TRUE
SPECIFICATION FairSpec
INVARIANTS NoLostError BackendExclusive
PROPERTIES ConsumersEnd 
