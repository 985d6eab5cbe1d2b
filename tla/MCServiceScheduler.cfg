SPECIFICATION Spec
CONSTANTS
  a = a
  b = b
  Schedule = {a, b}
  Interval <- MCInterval
  NewInterval = {1}
  Ticks = 2
  ManualRun = {q1}
  Patch = {p1, p2}
  MaxTime = 1
  MaxEvents = 2
INVARIANTS
  RunningIsRunning
  HandledIsNotDue
PROPERTIES
  RunsAreSpaced
  TickGivesWay
CHECK_DEADLOCK FALSE
