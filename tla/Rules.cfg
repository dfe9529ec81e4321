SPECIFICATION Spec
CONSTANTS
  own = own
  other = other
  app = app
  a = a
  b = b
  http = http
  dns = dns
  None = None
  Star = Star
  NsKey = NsKey
  PortKey = PortKey
  Namespaces = {own, other}
  Own = own
  Keys = {app}
  Values = {a, b}
  Ports = {http, dns}
  Inputs <- RuleInputs
INVARIANTS
  TypeOK
  WidenedOnlyByNamespacePeers
  RulesAddUp
  OutsideByPortsOnly
  FailsForBadRulesOnly
CHECK_DEADLOCK FALSE
