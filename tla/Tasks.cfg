SPECIFICATION FairSpec
CONSTANTS MaxPid = 6
          MaxTyped = 2
INVARIANTS TypeOK ListIsLive KilledNeverRuns NoLostTask OneShell Consistent
PROPERTIES ImplementsScheduler RoundRobin
CHECK_DEADLOCK FALSE
