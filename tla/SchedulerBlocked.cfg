\* want_stop() against an interrupted run() that joins a timer registered late.
CONSTANTS
  Programs = {p1, p2}
  MaxEvents = 2
  MaxRuns = 2
SPECIFICATION FairSpec
PROPERTIES WantStopReturns
CHECK_DEADLOCK FALSE
