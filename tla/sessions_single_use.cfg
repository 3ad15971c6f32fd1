SPECIFICATION Spec
CONSTANTS
  Phone = {p1}
  Handler = {h1, h2}
  None = None
  Boot = None
  CodeTtl = 3
  Cooldown = 2
  MaxAttempts = 2
  MaxCodes = 1
  MaxMisses = 0
  Late = 1
CHECK_DEADLOCK FALSE
INVARIANTS CodeUsedOnce
