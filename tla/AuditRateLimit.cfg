CONSTANTS
  a1 = a1
  a2 = a2
  e1 = e1
  e2 = e2
  e3 = e3
  e4 = e4
  Entry <- MCEntry
  ResultOf <- MCResultOf
  Genesis = Genesis
  MaxClock = 5
  Appender = {a1}
SPECIFICATION Spec
INVARIANT FinishedIsLogged
CHECK_DEADLOCK FALSE
