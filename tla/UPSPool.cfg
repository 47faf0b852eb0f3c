SPECIFICATION FairSpec
CONSTANTS
  Tasks = {j1, j2, j3}
  NoTask = NoTask
  Workers = {w1, w2, w3}
  MaxTasks = 2
  NoThread = NoThread
INVARIANTS TypeOK NoIdleSleeper
PROPERTIES ImplementsQueue EveryTaskRuns DestructorReturns
CHECK_DEADLOCK FALSE
