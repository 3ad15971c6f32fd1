SPECIFICATION FairSpec
CONSTANTS
  None = None
  w1 = w1
  p1 = p1
  Task = {1}
  Worker = {w1}
  Slot = {p1}
  Job = {j1}
  PollMax = 2
  BatchLimit = 100
  MaxCrashes = 1
  MaxFaults = 1
PROPERTIES SweepRequeues
