\* Stop, and what a comment says of it.
SPECIFICATION Spec
CONSTANTS
  n1 = n1
  n2 = n2
  w1 = w1
  w2 = w2
  m1 = m1
  None = None
  Namespaces = {n1}
  KubeSystem = n2
  Watchers = {w1, w2}
  Monitors = {m1}
  Helpers = 2
  MaxNsChanges = 2
  MaxLookups = 1
  Inputs <- Both
PROPERTIES
  StopTellsAll
