SPECIFICATION Spec
CONSTANTS
  p1 = p1
  p2 = p2
  c1 = c1
  c2 = c2
  c3 = c3
  x1 = x1
  x2 = x2
  w1 = w1
  w2 = w2
  nil = nil
  red = red
  blue = blue
  b1 = b1
  b2 = b2
  None = None
  Pods = {p1, p2}
  Contexts = {c1, c2}
  Kind <- InfraOnly
  Policies = {x1}
  Labels = {red, nil}
  NoLabels = nil
  Selectors <- LabelSelectors
  Bodies = {b1}
  BadBodies = {}
  Watchers = {w1}
  BetaPolicies = FALSE
  EgressPolicies = TRUE
  InitialPods <- OneRunning
  InitialNs = {"off"}
  InitialPols <- NoneOnly
  MaxChanges = 1
  MaxNsChanges = 0
  MaxFaults = 0
INVARIANTS
  StaleOnlyIfMissed
  PolicyReachesOwnPod
PROPERTIES
  HandlersAdvance
SYMMETRY PodSymmetry
CONSTRAINT ActivatedFirst OneStart NoStops
CHECK_DEADLOCK FALSE
