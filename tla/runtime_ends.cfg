SPECIFICATION EndsSpec
CONSTANTS
  None = None
  w1 = w1
  p1 = p1
  Task = {1, 2}
  Worker = {w1, w2}
  Slot = {p1, p2}
  Job = {j1, j2}
  PollMax = 2
  BatchLimit = 1
  MaxCrashes = 2
  MaxFaults = 0
PROPERTIES QueuedTaskEnds
