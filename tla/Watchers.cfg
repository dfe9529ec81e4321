\* The watchers of two namespaces, one of them kube-system.
SPECIFICATION Spec
CONSTANTS
  n1 = n1
  n2 = n2
  w1 = w1
  w2 = w2
  m1 = m1
  None = None
  Namespaces = {n1, n2}
  KubeSystem = n2
  Watchers = {w1, w2}
  Monitors = {}
  Helpers = 1
  MaxNsChanges = 1
  MaxLookups = 1
  Inputs <- Both
INVARIANTS
  OneTokenEach
PROPERTIES
  ImplementsRegistry
