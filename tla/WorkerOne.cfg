SPECIFICATION FairSpec
CONSTANTS
  Workers = {w1}
  Tasks = {a, b}
  NoItem = NoItem
  NoWorker = NoWorker
  MaxItems = 3
INVARIANTS NoStrandedTask CacheMirrorsGc ReleasedAfterSync CrashVisible DrainedUnlessCrashed FreedUnused
PROPERTIES ImplementsTaskLife JoinTerminates CollectWaitEnds TasksStart
CHECK_DEADLOCK FALSE
