\* Two program threads and the functions of the events use the scheduler; run() may be interrupted: it can then
\* block for ever, which SchedulerBlocked.cfg shows.
CONSTANTS
  Programs = {p1, p2}
  MaxEvents = 2
  MaxRuns = 2
SPECIFICATION FairSpec
INVARIANTS TypeOK CancelOrRun NoOrphanTimer
PROPERTIES EventHandled TimersStop
CHECK_DEADLOCK FALSE
