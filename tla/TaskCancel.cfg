SPECIFICATION Spec
CONSTANTS
  Tasks = {t1}
  Requests = {r1}
  Jobs = {j1}
  NoTask = NoTask
  MaxDeaths = 0
  Faults = {}
CHECK_DEADLOCK FALSE
PROPERTY CancelIsFinal
