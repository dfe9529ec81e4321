\* One pod, with two containers one after the other or two changes of pod and policies.
SPECIFICATION Spec
CONSTANTS
  p1 = p1
  p2 = p2
  c1 = c1
  c2 = c2
  c3 = c3
  x1 = x1
  x2 = x2
  w1 = w1
  w2 = w2
  nil = nil
  red = red
  blue = blue
  b1 = b1
  b2 = b2
  None = None
  Pods = {p1}
  Contexts = {c1, c2}
  Kind <- InfraOnly
  Policies = {x1}
  Labels = {red, blue, nil}
  NoLabels = nil
  Selectors <- LabelSelectors
  Bodies = {b1}
  BadBodies = {}
  Watchers = {w1}
  BetaPolicies = FALSE
  EgressPolicies = TRUE
  InitialPods <- OneRunning
  InitialNs = {"off"}
  InitialPols <- NoneOnly
  MaxChanges = 2
  MaxNsChanges = 0
  MaxFaults = 0
INVARIANTS
  TypeOK
  StaleOnlyIfMissed
CONSTRAINT PairsAfterRestart
SYMMETRY PodSymmetry
CHECK_DEADLOCK FALSE
