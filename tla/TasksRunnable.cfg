SPECIFICATION FairSpec
CONSTANTS MaxPid = 4
          MaxTyped = 1
PROPERTY RunnableRuns
CHECK_DEADLOCK FALSE
