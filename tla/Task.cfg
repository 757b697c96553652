SPECIFICATION FairSpec
CONSTANTS
  Tasks = {t1}
  Requests = {r1, r2}
  Jobs = {j1, j2}
  NoTask = NoTask
  MaxDeaths = 2
  Faults = {"queue", "database", "restart"}
CHECK_DEADLOCK FALSE
INVARIANTS
  TypeOK
  ActiveTaskHasJob
  SequentialTasks
PROPERTY QueuedTaskEnds
