-------------------------- MODULE PolicyRulesProofs --------------------------
(***************************************************************************)
(* What holds of PolicyRules for all rule lists, labels and namespaces: the *)
(* properties of the policy that is generated.                             *)
(***************************************************************************)
EXTENDS PolicyRules, TLAPS

NoItems == [n \in {} |-> None]

(* Every policy was generated from the rules and labels that are there.    *)
Generated ==
  /\ betaPolicies \in BOOLEAN /\ egressPolicies \in BOOLEAN
  /\ ingress \subseteq Rule /\ egress \subseteq Rule
  /\ nsLabels \in [Namespaces -> Labels]
  /\ \/ policy = [kind |-> "none"]
     \/ \E items \in {nsLabels, NoItems} : policy = generatePUPolicy(items)

LEMMA GeneratedHolds == Spec => []Generated
<1>1. Init => Generated
  BY ConstantsAssumption DEF Init, Generated, ConstantsAssumption
<1>2. Generated /\ [Next]_vars => Generated'
  <2> SUFFICES ASSUME Generated, [Next]_vars PROVE Generated'
    OBVIOUS
  <2>1. UNCHANGED <<betaPolicies, egressPolicies, ingress, egress, nsLabels>>
    BY DEF Next, resolve, vars
  <2>2. CASE UNCHANGED vars
    <3>1. ASSUME NEW items PROVE generatePUPolicy(items)' = generatePUPolicy(items)
      BY <2>1 DEF generatePUPolicy, generateIngressRulesList, generateEgressRulesList,
         allowsAll
    <3> QED BY <2>1, <2>2, <3>1 DEF Generated, vars
  <2>3. CASE resolve
    <3>1. PICK items \in {nsLabels, NoItems} : policy' = generatePUPolicy(items)
      BY <2>3 DEF resolve, NoItems
    <3>2. generatePUPolicy(items)' = generatePUPolicy(items)
      BY <2>1 DEF generatePUPolicy, generateIngressRulesList, generateEgressRulesList,
         allowsAll
    <3> QED BY <2>1, <3>1, <3>2 DEF Generated
  <2> QED BY <2>2, <2>3 DEF Next
<1> QED BY <1>1, <1>2, PTL DEF Spec

-----------------------------------------------------------------------------
(* One direction. *)

Open(rules)   == {r \in rules : r.from = None}
Peered(rules) == {r \in rules : r.from \notin {None, {}} /\ r.ports \notin {None, {}}}

(* The list for a direction: an error just because of a rule that cannot  *)
(* be translated, or everything, or what the rules give one by one.        *)
LEMMA ListCases ==
  ASSUME NEW rules \in SUBSET Rule, NEW items, NEW list,
         list = generateIngressRulesList(rules, items)
  PROVE  \/ list = rulesAndACLsAllowAll /\ Unruled(rules)
         \/ list = error /\ ~Unruled(rules) /\ \E r \in rules : Untranslatable(r)
         \/ /\ ~Unruled(rules) /\ \A r \in rules : ~Untranslatable(r)
            /\ list.kind = "rules"
            /\ list.tags = UNION {podIngressRules(r) \cup namespaceIngressRules(r, items)
                                  : r \in Peered(rules)}
            /\ list.acls = UNION {r.ports : r \in Open(rules)}
<1>1. /\ {r \in rules : fromUnset(r)} = Open(rules)
      /\ {r \in rules \ Open(rules) : r.from # {} /\ r.ports \notin {None, {}}}
           = Peered(rules)
  BY DEF Open, Peered, fromUnset
<1>2. \A r \in rules :
        Untranslatable(r) <=>
          \/ r \in Open(rules) /\ aclFails(r)
          \/ r \in Peered(rules) /\ (podRulesFail(r) \/ namespaceRulesFail(r))
  BY DEF Untranslatable, Open, Peered, Unset, aclFails, podRulesFail, namespaceRulesFail
<1> DEFINE Bad == \/ \E r \in Open(rules) : aclFails(r)
                  \/ \E r \in Peered(rules) : podRulesFail(r) \/ namespaceRulesFail(r)
<1>3. Bad <=> \E r \in rules : Untranslatable(r)
  BY <1>2 DEF Open, Peered
<1>4. list = IF Unruled(rules) THEN rulesAndACLsAllowAll
             ELSE IF Bad THEN error
             ELSE [kind |-> "rules",
                   tags |-> UNION {podIngressRules(r) \cup namespaceIngressRules(r, items)
                                   : r \in Peered(rules)},
                   acls |-> UNION {r.ports : r \in Open(rules)}]
  BY <1>1 DEF generateIngressRulesList, allowsAll, Unruled, aclIngressRules
<1> QED BY <1>3, <1>4

(* A policy's directions are lists for their rules, from the same items.   *)
LEMMA DirectionCases ==
  ASSUME Generated, NEW d \in Directions
  PROVE  /\ d[1] \subseteq Rule /\ policy.items \in {nsLabels, NoItems}
         /\ d[2] = generateIngressRulesList(d[1], policy.items) /\ d[2] # error
<1>1. policy.kind = "policy"
  BY DEF Directions
<1>2. PICK items \in {nsLabels, NoItems} : policy = generatePUPolicy(items)
  BY <1>1 DEF Generated
<1>3. /\ policy.items = items /\ policy.in # error /\ policy.eg # error
      /\ policy.in = generateIngressRulesList(ingress, items)
      /\ egressPolicies => policy.eg = generateIngressRulesList(egress, items)
  BY <1>1, <1>2 DEF generatePUPolicy, generateEgressRulesList, error
<1>4. d = <<ingress, policy.in>> \/ (egressPolicies /\ d = <<egress, policy.eg>>)
  BY <1>1 DEF Directions
<1> QED BY <1>2, <1>3, <1>4 DEF Generated

(* A list that is no error has ACLs that stand for ports outside.          *)
LEMMA ListType ==
  ASSUME NEW rules \in SUBSET Rule, NEW items,
         generateIngressRulesList(rules, items) # error
  PROVE  /\ generateIngressRulesList(rules, items).kind = "rules"
         /\ generateIngressRulesList(rules, items).acls \subseteq OutsideFlow
<1> DEFINE list == generateIngressRulesList(rules, items)
<1>1. CASE list = rulesAndACLsAllowAll
  BY <1>1 DEF rulesAndACLsAllowAll, aclsAllowAll, OutsideFlow
<1>2. CASE /\ list.kind = "rules" /\ list.acls = UNION {r.ports : r \in Open(rules)}
           /\ \A r \in rules : ~Untranslatable(r)
  <2>1. ASSUME NEW r \in Open(rules) PROVE r.ports \subseteq OutsideFlow
    <3>1. r \in Rule /\ ~Untranslatable(r) /\ r.from = None
      BY <1>2, <2>1 DEF Open
    <3>2. r.ports \subseteq Port /\ \A e \in r.ports : e.proto # "other"
      BY <3>1 DEF Untranslatable, Rule
    <3>3. ASSUME NEW e \in Port, e.proto # "other" PROVE e \in OutsideFlow
      BY <3>3 DEF Port, OutsideFlow
    <3> QED BY <3>2, <3>3
  <2> QED BY <1>2, <2>1
<1> QED BY <1>1, <1>2, ListCases

(* A policy that was made has rules in both directions. *)
THEOREM PolicyTypeCorrect == Spec => []TypeOK
<1>1. Generated => TypeOK
  <2> SUFFICES ASSUME Generated PROVE TypeOK
    OBVIOUS
  <2>1. CASE policy = [kind |-> "none"]
    BY <2>1 DEF Generated, TypeOK
  <2>2. ASSUME NEW items, policy = generatePUPolicy(items) PROVE TypeOK
    <3>1. CASE policy = error
      BY <3>1 DEF Generated, TypeOK, error
    <3>2. CASE /\ policy.kind = "policy" /\ policy.in # error /\ policy.eg # error
               /\ policy.in = generateIngressRulesList(ingress, items)
               /\ policy.eg = generateIngressRulesList(egress, items)
                  \/ policy.eg = rulesAndACLsAllowAll
      <4>1. \A list \in {policy.in, policy.eg} :
              list.kind = "rules" /\ list.acls \subseteq OutsideFlow
        <5>1. rulesAndACLsAllowAll.kind = "rules"
              /\ rulesAndACLsAllowAll.acls \subseteq OutsideFlow
          BY DEF rulesAndACLsAllowAll, aclsAllowAll, OutsideFlow
        <5> QED BY <3>2, <5>1, ListType DEF Generated
      <4> QED BY <3>2, <4>1 DEF Generated, TypeOK
    <3> QED BY <2>2, <3>1, <3>2 DEF generatePUPolicy, generateEgressRulesList, error
  <2> QED BY <2>1, <2>2 DEF Generated
<1> QED BY <1>1, GeneratedHolds, PTL

(* A policy fails to be generated just when a rule in use is one without   *)
(* peers that lists no ports or an unknown protocol, or one with peers and *)
(* ports and a malformed selector (generateIngressRulesList).              *)
THEOREM FailureExplained == Spec => []FailsForBadRulesOnly
<1>1. Generated => FailsForBadRulesOnly
  <2> DEFINE InUse == ingress \cup (IF egressPolicies THEN egress ELSE {})
  <2> SUFFICES ASSUME Generated, policy.kind # "none"
               PROVE  policy.kind = "error" <=> \E r \in InUse : Untranslatable(r)
    BY DEF FailsForBadRulesOnly
  <2>1. PICK items \in {nsLabels, NoItems} : policy = generatePUPolicy(items)
    BY DEF Generated
  <2> DEFINE Fails(rules) == generateIngressRulesList(rules, items) = error
  <2>2. error.kind = "error" /\ rulesAndACLsAllowAll # error
    BY DEF error, rulesAndACLsAllowAll
  <2>3. policy.kind = "error" <=> Fails(ingress) \/ (egressPolicies /\ Fails(egress))
    BY <2>1, <2>2 DEF generatePUPolicy, generateEgressRulesList, error
  <2>4. ASSUME NEW rules \in SUBSET Rule
        PROVE  Fails(rules) <=> \E r \in rules : Untranslatable(r)
    <3>1. CASE Unruled(rules)
      BY <2>2, <3>1, ListCases DEF Unruled
    <3>2. CASE ~Unruled(rules)
      <4>1. \A list : list.kind = "rules" => list # error
        BY DEF error
      <4> QED BY <3>2, <4>1, ListCases
    <3> QED BY <3>1, <3>2
  <2>5. ingress \in SUBSET Rule /\ egress \in SUBSET Rule
    BY DEF Generated
  <2>6. Fails(ingress) <=> \E r \in ingress : Untranslatable(r)
    BY <2>4, <2>5
  <2>7. Fails(egress) <=> \E r \in egress : Untranslatable(r)
    BY <2>4, <2>5
  <2> HIDE DEF Fails
  <2> QED BY <2>3, <2>6, <2>7
<1> QED BY <1>1, GeneratedHolds, PTL

(* Outside the cluster a connection is accepted just when a rule without   *)
(* peers lists its port and protocol, or there is no rule at all.          *)
THEOREM OutsideExact == Spec => []OutsideByPortsOnly
<1>1. Generated => OutsideByPortsOnly
  <2> SUFFICES ASSUME Generated, NEW d \in Directions, NEW f \in OutsideFlow
               PROVE  f \in d[2].acls <=> \/ Unruled(d[1])
                                          \/ \E r \in d[1] : r.from = None /\ f \in r.ports
    BY DEF OutsideByPortsOnly
  <2>1. CASE d[2] = rulesAndACLsAllowAll /\ Unruled(d[1])
    BY <2>1 DEF rulesAndACLsAllowAll, aclsAllowAll, OutsideFlow
  <2>2. CASE /\ ~Unruled(d[1])
             /\ d[2].acls = UNION {r.ports : r \in Open(d[1])}
    BY <2>2 DEF Open
  <2>3. d[2] # error /\ d[2] = generateIngressRulesList(d[1], policy.items)
        /\ d[1] \in SUBSET Rule
    BY DirectionCases
  <2> QED BY <2>1, <2>2, <2>3, ListCases
<1> QED BY <1>1, GeneratedHolds, PTL

-----------------------------------------------------------------------------
(* Tag selectors, clause by clause.                                        *)

(* The requirements of a rule's peer are about labels, and on values.      *)
LEMMA PeerTypes ==
  ASSUME NEW rules \in SUBSET Rule, NEW r \in Peered(rules)
  PROVE  /\ r \in Rule /\ r.ports \in SUBSET Port /\ r.ports # {}
         /\ r.from \in SUBSET Peer
         /\ \A peer \in r.from :
              /\ peer.pod = None \/ peer.pod \in Selector
              /\ peer.ns = None \/ peer.ns \in Selector
              /\ peer.pod = None \/ peer.ns = None
BY DEF Peered, Rule, Peer

(* A clause holds of a pod just when its requirement is met. *)
LEMMA ClauseHolds ==
  ASSUME NEW req \in Requirement, NEW f \in PodFlow
  PROVE  Holds(requirementClause(req), f) <=> Meets(req, f.lab)
<1>1. /\ req.key \in Keys /\ req.key # NsKey /\ req.key # PortKey
      /\ req.values \subseteq Values
      /\ req.op \in {"In", "NotIn", "Exists", "DoesNotExist"}
      /\ None \notin req.values /\ Star \notin req.values
  BY ConstantsAssumption DEF Requirement, ConstantsAssumption
<1>2. Tag(f, req.key) = f.lab[req.key]
  BY <1>1 DEF Tag
<1>3. CASE req.op = "In"
  <2>1. requirementClause(req) = [key |-> req.key, op |-> "Equal", values |-> req.values]
    BY <1>3 DEF requirementClause, clause
  <2> QED BY <1>1, <1>2, <1>3, <2>1 DEF Holds, Meets
<1>4. CASE req.op = "NotIn"
  <2>1. requirementClause(req) = [key |-> req.key, op |-> "NotEqual", values |-> req.values]
    BY <1>4 DEF requirementClause, clause
  <2> QED BY <1>1, <1>2, <1>4, <2>1 DEF Holds, Meets
<1>5. CASE req.op = "Exists"
  <2>1. requirementClause(req) = [key |-> req.key, op |-> "KeyExists", values |-> {Star}]
    BY <1>5 DEF requirementClause, clause
  <2> QED BY <1>1, <1>2, <1>5, <2>1 DEF Holds, Meets
<1>6. CASE req.op = "DoesNotExist"
  <2>1. requirementClause(req) = [key |-> req.key, op |-> "KeyNotExists", values |-> {Star}]
    BY <1>6 DEF requirementClause, clause
  <2> QED BY <1>1, <1>2, <1>6, <2>1 DEF Holds, Meets
<1> QED BY <1>1, <1>3, <1>4, <1>5, <1>6

(* The clauses on the namespace and on the ports. *)
LEMMA NamespaceClause ==
  ASSUME NEW names \in SUBSET Namespaces, NEW f \in PodFlow
  PROVE  (\A cl \in namespaceSelector(names) : Holds(cl, f)) <=> f.ns \in names
<1>1. f.ns \in Namespaces /\ f.ns # None /\ Star \notin names
  BY ConstantsAssumption DEF PodFlow, ConstantsAssumption
<1>2. namespaceSelector(names) = {[key |-> NsKey, op |-> "Equal", values |-> names]}
  BY DEF namespaceSelector, clause
<1>3. Tag(f, NsKey) = f.ns
  BY ConstantsAssumption DEF Tag, ConstantsAssumption
<1> QED BY <1>1, <1>2, <1>3 DEF Holds

LEMMA PortClause ==
  ASSUME NEW ports \in SUBSET Port, ports # {}, ports # None, NEW f \in PodFlow
  PROVE  (\A cl \in portSelector(ports) : Holds(cl, f)) <=> \E e \in ports : e.port = f.port
<1> DEFINE numbers == {e.port : e \in ports}
<1>1. f.port \in Ports /\ f.port # None /\ Star \notin numbers
  <2>1. None \notin Ports /\ Star \notin Ports
    BY ConstantsAssumption DEF ConstantsAssumption
  <2>2. \A e \in ports : e.port \in Ports
    BY DEF Port
  <2>3. f.port \in Ports
    BY DEF PodFlow
  <2> QED BY <2>1, <2>2, <2>3
<1>2. portSelector(ports) = {[key |-> PortKey, op |-> "Equal", values |-> numbers]}
  BY DEF portSelector, clause
<1>3. Tag(f, PortKey) = f.port
  BY ConstantsAssumption DEF Tag, ConstantsAssumption
<1>4. Holds([key |-> PortKey, op |-> "Equal", values |-> numbers], f) <=> f.port \in numbers
  BY <1>1, <1>3 DEF Holds
<1> QED BY <1>2, <1>4

(* A selector for a peer accepts the pods of the own namespace on the      *)
(* rule's ports that meet the peer's requirements.                         *)
PeerSelector(r, peer) ==
  portSelector(r.ports) \cup namespaceSelector({Own})
    \cup {requirementClause(req) : req \in Requirements(peer.pod)}

LEMMA PeerAccepts ==
  ASSUME NEW rules \in SUBSET Rule, NEW r \in Peered(rules), NEW peer \in r.from,
         NEW f \in PodFlow
  PROVE  (\A cl \in PeerSelector(r, peer) : Holds(cl, f))
           <=> /\ PortAllows(r, f) /\ f.ns = Own
               /\ peer.pod # None => Matches(peer.pod, f.lab)
<1>1. r.ports \in SUBSET Port /\ r.ports # {} /\ r.ports # None
  BY PeerTypes DEF Peered
<1>2. (\A cl \in portSelector(r.ports) : Holds(cl, f)) <=> PortAllows(r, f)
  BY <1>1, PortClause DEF PortAllows, Unset
<1>3. (\A cl \in namespaceSelector({Own}) : Holds(cl, f)) <=> f.ns = Own
  <2>1. {Own} \in SUBSET Namespaces
    BY ConstantsAssumption DEF ConstantsAssumption
  <2> QED BY <2>1, NamespaceClause
<1>4. (\A cl \in {requirementClause(req) : req \in Requirements(peer.pod)} : Holds(cl, f))
        <=> (peer.pod # None => Matches(peer.pod, f.lab))
  <2>1. CASE peer.pod = None
    BY <2>1 DEF Requirements
  <2>2. CASE peer.pod # None
    <3>1. peer.pod \subseteq Requirement /\ Requirements(peer.pod) = peer.pod
      BY <2>2, PeerTypes DEF Requirements, Selector
    <3>2. \A req \in peer.pod : Holds(requirementClause(req), f) <=> Meets(req, f.lab)
      BY <3>1, ClauseHolds
    <3> QED BY <2>2, <3>1, <3>2 DEF Matches
  <2> QED BY <2>1, <2>2
<1> QED BY <1>2, <1>3, <1>4 DEF PeerSelector

(* The selector for other namespaces accepts those that a peer selects.    *)
Selected(r, items) ==
  {n \in DOMAIN items : \E peer \in r.from : SelectorMatches(peer.ns, items[n])} \ {Own}

LEMMA NamespacesAccept ==
  ASSUME NEW r, NEW items, DOMAIN items \subseteq Namespaces, NEW f \in PodFlow
  PROVE  (\E sel \in namespaceIngressRules(r, items) : \A cl \in sel : Holds(cl, f))
           <=> f.ns \in Selected(r, items)
<1>1. Selected(r, items) \in SUBSET Namespaces
  BY DEF Selected
<1>2. namespaceIngressRules(r, items)
        = IF Selected(r, items) = {} THEN {} ELSE {namespaceSelector(Selected(r, items))}
  BY DEF namespaceIngressRules, Selected
<1>3. (\A cl \in namespaceSelector(Selected(r, items)) : Holds(cl, f))
        <=> f.ns \in Selected(r, items)
  BY <1>1, NamespaceClause
<1> QED BY <1>2, <1>3

(* What a direction with rules accepts, rule by rule.                      *)
LEMMA AcceptsCases ==
  ASSUME Generated, NEW d \in Directions, ~Unruled(d[1]), NEW f \in PodFlow
  PROVE  Accepts(d[2], f) <=>
           \E r \in Peered(d[1]) :
             \/ \E peer \in r.from : /\ PortAllows(r, f) /\ f.ns = Own
                                     /\ peer.pod # None => Matches(peer.pod, f.lab)
             \/ f.ns \in Selected(r, policy.items)
<1>1. /\ d[1] \in SUBSET Rule /\ d[2] # error /\ policy.items \in {nsLabels, NoItems}
      /\ d[2] = generateIngressRulesList(d[1], policy.items)
  BY DirectionCases
<1>2. d[2].tags = UNION {podIngressRules(r) \cup namespaceIngressRules(r, policy.items)
                         : r \in Peered(d[1])}
  BY <1>1, ListCases
<1>3. DOMAIN policy.items \subseteq Namespaces
  BY <1>1 DEF NoItems, Generated
<1>4. ASSUME NEW r \in Peered(d[1])
      PROVE  (\E sel \in podIngressRules(r) : \A cl \in sel : Holds(cl, f))
               <=> \E peer \in r.from : /\ PortAllows(r, f) /\ f.ns = Own
                                        /\ peer.pod # None => Matches(peer.pod, f.lab)
  <2>1. podIngressRules(r) = {PeerSelector(r, peer) : peer \in r.from}
    BY DEF podIngressRules, PeerSelector
  <2>2. \A peer \in r.from :
          (\A cl \in PeerSelector(r, peer) : Holds(cl, f))
            <=> /\ PortAllows(r, f) /\ f.ns = Own
                /\ peer.pod # None => Matches(peer.pod, f.lab)
    BY <1>1, PeerAccepts
  <2> QED BY <2>1, <2>2
<1>5. \A r \in Peered(d[1]) :
        (\E sel \in namespaceIngressRules(r, policy.items) : \A cl \in sel : Holds(cl, f))
          <=> f.ns \in Selected(r, policy.items)
  BY <1>3, NamespacesAccept
<1>6. Accepts(d[2], f) <=>
        \E r \in Peered(d[1]) :
          \/ \E sel \in podIngressRules(r) : \A cl \in sel : Holds(cl, f)
          \/ \E sel \in namespaceIngressRules(r, policy.items) : \A cl \in sel : Holds(cl, f)
  BY <1>2 DEF Accepts
<1> QED BY <1>4, <1>5, <1>6

(* Beyond the rules, only peers without pod selector let a pod in.         *)
THEOREM WideningExplained == Spec => []WidenedOnlyByNamespacePeers
<1>1. Generated => WidenedOnlyByNamespacePeers
  <2> SUFFICES ASSUME Generated, NEW d \in Directions, NEW f \in PodFlow,
                      Accepts(d[2], f), ~Unruled(d[1])
               PROVE  \E r \in d[1] :
                        \/ RuleAllows(r, f, nsLabels)
                        \/ /\ r.from # None
                           /\ \E peer \in r.from :
                             /\ peer.pod = None
                             /\ \/ f.ns = Own /\ PortAllows(r, f)
                                \/ f.ns # Own /\ SelectorMatches(peer.ns, nsLabels[f.ns])
    BY DEF WidenedOnlyByNamespacePeers
  <2>1. PICK r \in Peered(d[1]) :
          \/ \E peer \in r.from : /\ PortAllows(r, f) /\ f.ns = Own
                                  /\ peer.pod # None => Matches(peer.pod, f.lab)
          \/ f.ns \in Selected(r, policy.items)
    BY AcceptsCases
  <2>2. r \in d[1] /\ r.from # None /\ d[1] \in SUBSET Rule
    BY DirectionCases DEF Peered
  <2>3. ASSUME NEW peer \in r.from, PortAllows(r, f), f.ns = Own,
               peer.pod # None => Matches(peer.pod, f.lab)
        PROVE  RuleAllows(r, f, nsLabels) \/ peer.pod = None
    BY <2>3 DEF RuleAllows, PeerAllows
  <2>4. ASSUME f.ns \in Selected(r, policy.items)
        PROVE  \E peer \in r.from :
                 /\ peer.pod = None /\ f.ns # Own
                 /\ SelectorMatches(peer.ns, nsLabels[f.ns])
    <3>1. policy.items = nsLabels
      BY <2>4, DirectionCases DEF Selected, NoItems
    <3>2. PICK peer \in r.from : SelectorMatches(peer.ns, nsLabels[f.ns]) /\ f.ns # Own
      BY <2>4, <3>1 DEF Selected
    <3>3. peer.pod = None
      BY <2>2, <3>2, PeerTypes DEF SelectorMatches
    <3> QED BY <3>2, <3>3
  <2> QED BY <2>1, <2>2, <2>3, <2>4
<1> QED BY <1>1, GeneratedHolds, PTL

(* What a rule with peers and ports allows is accepted, whatever other     *)
(* rules and peers there are.                                              *)
THEOREM RulesNeverCancel == Spec => []RulesAddUp
<1>1. Generated => RulesAddUp
  <2> SUFFICES ASSUME Generated, NEW d \in Directions, NEW f \in PodFlow,
                      NEW r \in d[1], RuleAllows(r, f, nsLabels),
                      ~Unset(r.from), ~Unset(r.ports),
                      policy.items = nsLabels \/ f.ns = Own
               PROVE  Accepts(d[2], f)
    BY DEF RulesAddUp
  <2>1. r \in Peered(d[1]) /\ ~Unruled(d[1]) /\ d[1] \in SUBSET Rule
    BY DirectionCases DEF Peered, Unset, Unruled
  <2>2. PICK peer \in r.from : PeerAllows(peer, f, nsLabels) /\ PortAllows(r, f)
    BY DEF RuleAllows
  <2>3. CASE f.ns = Own
    <3>1. peer.pod # None => Matches(peer.pod, f.lab)
      BY <2>1, <2>2, PeerTypes DEF PeerAllows
    <3> QED BY <2>1, <2>2, <2>3, <3>1, AcceptsCases
  <2>4. CASE f.ns # Own
    <3>1. SelectorMatches(peer.ns, nsLabels[f.ns])
      BY <2>2, <2>4 DEF PeerAllows, SelectorMatches
    <3>2. f.ns \in Selected(r, policy.items)
      BY <2>4, <3>1 DEF Selected, Generated, PodFlow
    <3> QED BY <2>1, <3>2, AcceptsCases
  <2> QED BY <2>3, <2>4
<1> QED BY <1>1, GeneratedHolds, PTL

=============================================================================
