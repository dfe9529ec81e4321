----------------------------- MODULE PolicyRules -----------------------------
(***************************************************************************)
(* The translation of Kubernetes NetworkPolicy rules to a Trireme policy   *)
(* (resolver/selector.go), beside a reference definition of what the rules *)
(* allow.                                                                  *)
(*                                                                         *)
(* Variables ingress and egress are the rules of the policies that select  *)
(* one pod of namespace Own, and nsLabels the labels of every namespace at *)
(* the API server.  Lists whose order cannot be told from the result (the  *)
(* rules, the peers of a rule, its ports, the generated selectors) are     *)
(* sets; a nil list or selector is None, which is not the empty one.       *)
(*                                                                         *)
(* A label set maps the keys that are present to values.  A tag selector   *)
(* is a set of clauses, all of which a peer's tags must meet.              *)
(*                                                                         *)
(* A definition named D_Something is the form D would have with one fault  *)
(* in the code.  Nothing uses it; put in D's place, it makes the run named *)
(* in PROJECT.json fail.                                                   *)
(***************************************************************************)
EXTENDS Naturals, FiniteSets

CONSTANTS
  Namespaces, Own,    \* Own: the namespace of the pod
  Keys, Values,       \* of labels
  Ports,              \* port numbers
  None,               \* nil; also "no such label"
  Star,               \* the value "*"
  NsKey, PortKey,     \* the tags "@namespace" and "$sys:port"
  Inputs              \* bound: the (ingress, egress) pairs of rule sets

Labels == [Keys -> Values \cup {None}]

Requirement == [key: Keys, op: {"In", "NotIn", "Exists", "DoesNotExist"},
                values: SUBSET Values]
Selector    == SUBSET Requirement
(* A peer selects pods, or namespaces, or is an address block.             *)
Peer        == {peer \in [pod: Selector \cup {None}, ns: Selector \cup {None}] :
                  None \in {peer.pod, peer.ns}}
Port        == [port: Ports, proto: {"TCP", "UDP", "other"}]
Rule        == [from: (SUBSET Peer) \cup {None}, ports: (SUBSET Port) \cup {None}]

(* Neither nil nor "*" is a label value, a namespace or a port.            *)
ASSUME ConstantsAssumption ==
  /\ Own \in Namespaces
  /\ {None, Star} \cap (Values \cup Namespaces \cup Ports) = {}
  /\ NsKey \notin Keys /\ PortKey \notin Keys /\ NsKey # PortKey
  /\ Inputs \subseteq (SUBSET Rule) \X (SUBSET Rule)

VARIABLES
  betaPolicies, egressPolicies,   \* the two flags of the process
  ingress, egress, nsLabels,
  policy      \* the outcome of generatePUPolicy

vars == <<betaPolicies, egressPolicies, ingress, egress, nsLabels, policy>>

-----------------------------------------------------------------------------
(* labels.Selector of the Kubernetes libraries (external). *)

Meets(req, lab) ==
  CASE req.op = "In"     -> lab[req.key] \in req.values
    [] req.op = "NotIn"  -> lab[req.key] \notin req.values
    [] req.op = "Exists" -> lab[req.key] # None
    [] OTHER             -> lab[req.key] = None

Matches(selector, lab) == \A req \in selector : Meets(req, lab)

(* The nil selector has no requirements and, unlike the empty one, matches *)
(* nothing.                                                                *)
Requirements(selector) == IF selector = None THEN {} ELSE selector
SelectorMatches(selector, lab) == selector # None /\ Matches(selector, lab)

(* LabelSelectorAsSelector refuses In and NotIn without values, Exists and *)
(* DoesNotExist with values.  (Such requirements stand for those with a    *)
(* key, an operator or a value that it refuses, too.)                      *)
WellFormed(req)  == req.op \in {"In", "NotIn"} <=> req.values # {}
Parses(selector) == \A req \in Requirements(selector) : WellFormed(req)

-----------------------------------------------------------------------------
(* Tag selectors, for connections with pods. *)

clause(key, op, values) == [key |-> key, op |-> op, values |-> values]

requirementClause_NotInAsIn(req) ==
  CASE req.op \in {"In", "NotIn"} -> clause(req.key, "Equal", req.values)
    [] req.op = "Exists"          -> clause(req.key, "KeyExists", {Star})
    [] OTHER                      -> clause(req.key, "KeyNotExists", {Star})
requirementClause(req) ==
  CASE req.op = "In"     -> clause(req.key, "Equal", req.values)
    [] req.op = "NotIn"  -> clause(req.key, "NotEqual", req.values)
    [] req.op = "Exists" -> clause(req.key, "KeyExists", {Star})
    [] OTHER             -> clause(req.key, "KeyNotExists", {Star})

(* For nil ports there is no clause, and the caller lets none of them      *)
(* through.  (For empty ports neither.)                                    *)
portSelector(ports) ==
  IF ports \in {None, {}} THEN {}
  ELSE {clause(PortKey, "Equal", {e.port : e \in ports})}

namespaceSelector(names) == {clause(NsKey, "Equal", names)}

(* The selectors of a rule's peers are parsed first.                       *)
podRulesFail(rule) == \E peer \in rule.from : ~Parses(peer.pod)
podIngressRules_AnyNamespace(rule) ==
  {portSelector(rule.ports)
     \cup {requirementClause(req) : req \in Requirements(peer.pod)}
   : peer \in rule.from}
podIngressRules(rule) ==
  {portSelector(rule.ports) \cup namespaceSelector({Own})
     \cup {requirementClause(req) : req \in Requirements(peer.pod)}
   : peer \in rule.from}

namespaceRulesFail_Ignored(rule) == FALSE
namespaceRulesFail(rule) == \E peer \in rule.from : ~Parses(peer.ns)

(* One selector for every other namespace that some peer selects, whatever *)
(* the ports of the rule.                                                  *)
namespaceIngressRules(rule, items) ==
  LET matched == {n \in DOMAIN items : \E peer \in rule.from :
                                         SelectorMatches(peer.ns, items[n])}
      allowed == matched \ {Own}
  IN IF allowed = {} THEN {} ELSE {namespaceSelector(allowed)}

rulesAllowAll == {namespaceSelector({Star})}

-----------------------------------------------------------------------------
(* ACLs, for connections with addresses outside the cluster. *)

aclFails(rule) ==
  rule.ports = None \/ \E e \in rule.ports : e.proto = "other"
aclIngressRules(rule) == rule.ports
aclsAllowAll == [port: Ports, proto: {"TCP", "UDP"}]

-----------------------------------------------------------------------------

error == [kind |-> "error"]
rulesAndACLsAllowAll ==
  [kind |-> "rules", tags |-> rulesAllowAll, acls |-> aclsAllowAll]

(* Without a rule, unless the flag says otherwise, everything is allowed.  *)
allowsAll_EvenBeta(rules) == rules = {}
allowsAll(rules) == ~betaPolicies /\ rules = {}

fromUnset(rule) == rule.from = None

(* Rules without peers give ACLs.  Rules with peers give tag selectors,    *)
(* unless peers or ports are empty.  The first that fails fails the list.  *)
generateIngressRulesList(rules, items) ==
  LET open   == {r \in rules : fromUnset(r)}
      peered == {r \in rules \ open : r.from # {} /\ r.ports \notin {None, {}}}
  IN
  IF allowsAll(rules) THEN rulesAndACLsAllowAll
  ELSE IF \/ \E r \in open : aclFails(r)
          \/ \E r \in peered : podRulesFail(r) \/ namespaceRulesFail(r)
  THEN error
  ELSE [kind |-> "rules",
        tags |-> UNION {podIngressRules(r) \cup namespaceIngressRules(r, items)
                        : r \in peered},
        acls |-> UNION {aclIngressRules(r) : r \in open}]

(* The egress functions repeat the ingress ones word for word. *)
generateEgressRulesList(rules, items) == generateIngressRulesList(rules, items)

generatePUPolicy_IgnoresErrors(items) ==
  LET in == generateIngressRulesList(ingress, items)
      eg == IF egressPolicies THEN generateEgressRulesList(egress, items)
            ELSE rulesAndACLsAllowAll
  IN [kind |-> "policy", in |-> in, eg |-> eg, items |-> items]
generatePUPolicy(items) ==
  LET in == generateIngressRulesList(ingress, items)
      eg == IF egressPolicies THEN generateEgressRulesList(egress, items)
            ELSE rulesAndACLsAllowAll
  IN IF error \in {in, eg} THEN error
     ELSE [kind |-> "policy", in |-> in, eg |-> eg, items |-> items]

Init ==
  /\ \E pair \in Inputs : ingress = pair[1] /\ egress = pair[2]
  /\ betaPolicies \in BOOLEAN /\ egressPolicies \in BOOLEAN
  /\ nsLabels \in [Namespaces -> Labels]
  /\ policy = [kind |-> "none"]

(* The end of resolvePodPolicy: the namespaces are listed (a failed call   *)
(* leaves the list empty, and the error is dropped) and the policy made.   *)
resolve ==
  /\ policy.kind = "none"
  /\ \E items \in {nsLabels, [n \in {} |-> None]} :
       policy' = generatePUPolicy(items)
  /\ UNCHANGED <<betaPolicies, egressPolicies, ingress, egress, nsLabels>>

Next == resolve

Spec == Init /\ [][Next]_vars

-----------------------------------------------------------------------------
(* How Trireme reads a policy (external: of its library only the names of  *)
(* the operators are here; NotEqual is taken to hold of an absent tag, as  *)
(* NotIn does).                                                            *)

PodFlow  == [ns: Namespaces, lab: Labels, port: Ports]
OutsideFlow == [port: Ports, proto: {"TCP", "UDP"}]

Tag(flow, key) ==
  CASE key = NsKey   -> flow.ns
    [] key = PortKey -> flow.port
    [] OTHER         -> flow.lab[key]

Holds(cl, flow) ==
  LET v == Tag(flow, cl.key) IN
  CASE cl.op = "Equal"     -> v # None /\ (v \in cl.values \/ Star \in cl.values)
    [] cl.op = "NotEqual"  -> v \notin cl.values
    [] cl.op = "KeyExists" -> v # None
    [] OTHER               -> v = None

Accepts(list, flow) == \E sel \in list.tags : \A cl \in sel : Holds(cl, flow)

-----------------------------------------------------------------------------
(* The reference: what the rules allow, by the definition of the           *)
(* NetworkPolicy API.  Tag selectors carry no protocol, so it is left out  *)
(* for pods.                                                               *)

Unset(list) == list \in {None, {}}

PeerAllows(peer, flow, items) ==
  \/ peer.pod # None /\ flow.ns = Own /\ Matches(peer.pod, flow.lab)
  \/ peer.ns # None /\ Matches(peer.ns, items[flow.ns])

PortAllows(rule, flow) ==
  Unset(rule.ports) \/ \E e \in rule.ports : e.port = flow.port

RuleAllows(rule, flow, items) ==
  /\ PortAllows(rule, flow)
  /\ Unset(rule.from) \/ \E peer \in rule.from : PeerAllows(peer, flow, items)

(* Both directions of a generated policy, each with its rules.             *)
Directions ==
  IF policy.kind # "policy" THEN {}
  ELSE {<<ingress, policy.in>>}
         \cup (IF egressPolicies THEN {<<egress, policy.eg>>} ELSE {})

Unruled(rules) == ~betaPolicies /\ rules = {}

-----------------------------------------------------------------------------
(* Properties. *)

(* A policy that was made has rules in both directions.                    *)
TypeOK ==
  /\ betaPolicies \in BOOLEAN /\ egressPolicies \in BOOLEAN
  /\ ingress \subseteq Rule /\ egress \subseteq Rule
  /\ nsLabels \in [Namespaces -> Labels]
  /\ policy.kind \in {"none", "error", "policy"}
  /\ policy.kind = "policy" =>
       \A list \in {policy.in, policy.eg} :
         list.kind = "rules" /\ list.acls \subseteq OutsideFlow

(* A peer by pod selector lets in no pod that the rules do not: a          *)
(* connection the policy accepts beyond the rules comes through a peer     *)
(* without pod selector, from the pod's own namespace on a port of the     *)
(* rule, or from another namespace that the peer selects (podIngressRules, *)
(* namespaceIngressRules).                                                 *)
WidenedOnlyByNamespacePeers ==
  \A d \in Directions, f \in PodFlow :
    Accepts(d[2], f) /\ ~Unruled(d[1]) =>
      \E r \in d[1] :
        \/ RuleAllows(r, f, nsLabels)
        \/ /\ r.from # None
           /\ \E peer \in r.from :
             /\ peer.pod = None
             /\ \/ f.ns = Own /\ PortAllows(r, f)
                \/ f.ns # Own /\ SelectorMatches(peer.ns, nsLabels[f.ns])

(* A connection that a rule allows is accepted, unless the rule leaves its *)
(* peers or its ports out, or the namespaces could not be listed: neither  *)
(* another rule, nor another peer, nor the other direction takes it away   *)
(* (generateIngressRulesList, generatePUPolicy).                           *)
RulesAddUp ==
  \A d \in Directions, f \in PodFlow :
    (\E r \in d[1] : /\ RuleAllows(r, f, nsLabels)
                     /\ ~Unset(r.from) /\ ~Unset(r.ports)
                     /\ policy.items = nsLabels \/ f.ns = Own)
      => Accepts(d[2], f)

(* Outside the cluster, a connection is accepted just when a rule without  *)
(* peers lists its port and protocol, or there is no rule at all           *)
(* (aclIngressRules, aclsAllowAll).                                        *)
OutsideByPortsOnly ==
  \A d \in Directions, f \in OutsideFlow :
    f \in d[2].acls <=> \/ Unruled(d[1])
                        \/ \E r \in d[1] : /\ r.from = None
                                           /\ f \in r.ports

(* A policy fails to be generated just when one of the rules in a          *)
(* direction that is in use cannot be translated: it has no peers, and no  *)
(* ports or a protocol that is neither TCP nor UDP, or it has peers and    *)
(* ports, and a peer's selector is malformed (selector.go:227-239, 117,    *)
(* 410).  A malformed selector is no reason where peers or ports are empty *)
(* (selector.go:331), nor anything in the egress rules while they are off. *)
Untranslatable(r) ==
  \/ r.from = None /\ (r.ports = None \/ \E e \in r.ports : e.proto = "other")
  \/ /\ ~Unset(r.from) /\ ~Unset(r.ports)
     /\ \E peer \in r.from : ~Parses(peer.pod) \/ ~Parses(peer.ns)
FailsForBadRulesOnly ==
  policy.kind # "none" =>
    (policy.kind = "error" <=>
       \E r \in ingress \cup (IF egressPolicies THEN egress ELSE {}) : Untranslatable(r))

(* "Ports also not set: Allow All!" (selector.go:319): a rule with neither *)
(* peers nor ports accepts every connection.                               *)
NothingSetAllowsAll ==
  (\E r \in ingress : r.from = None /\ r.ports = None) /\ policy.kind # "none"
    => policy.kind = "policy" /\ OutsideFlow \subseteq policy.in.acls

=============================================================================
