\* A controller whose watch breaks twice, with two objects.
SPECIFICATION Spec
CONSTANTS
  o1 = o1
  o2 = o2
  absent = absent
  red = red
  Objects = {o1, o2}
  Absent = absent
  States = {absent, red}
  MaxChanges = 2
  MaxBreaks = 2
  MaxFailures = 1
INVARIANTS
  PanicsForUnseenOnly
  NothingForgotten
PROPERTIES
  DealtWithInTheEnd
CHECK_DEADLOCK FALSE
