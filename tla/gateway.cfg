SPECIFICATION GatewaySpec
CONSTANTS
  None = None
  Request = {r1}
  Channel = {1, 2, 3}
  Routes <- AllRoutes
  Base <- ThreeBase
  Usage = {u1, u2}
  MaxChunks = 2
  MaxEdits = 1
  MaxFaults = 1
  HealthChannel = {ch1, ch2}
  HealthRequest = {q1, q2}
  HealthRouted = {ch1}
  Condition = {"http error", "slow", "fine"}
  MaxHealthEdits = 2
  MaxTurns = 1
  ch2 = ch2
  q2 = q2
CHECK_DEADLOCK FALSE
INVARIANTS BilledAsAnswered AnsweredIsSettled
PROPERTIES InTurn Ends OperatorsWin HealthFollows
