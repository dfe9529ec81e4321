---------------------------- MODULE MCPolicyRules ----------------------------
(* Small instances of PolicyRules for TLC. *)
EXTENDS PolicyRules

CONSTANTS own, other, app, a, b, http, dns

Req(op) == [key |-> app, op |-> op,
            values |-> IF op \in {"In", "NotIn"} THEN {a} ELSE {}]
Malformed == [key |-> app, op |-> "In", values |-> {}]
Selectors == {{}, {Malformed}} \cup {{Req(op)} : op \in {"In", "NotIn", "Exists",
                                                          "DoesNotExist"}}

(* Bound: a peer selects pods or namespaces, or is an address block.       *)
PodPeers == [pod: Selectors, ns: {None}]
NsPeers  == [pod: {None}, ns: Selectors]
Peers    == PodPeers \cup NsPeers \cup {[pod |-> None, ns |-> None]}

Tcp(p) == [port |-> p, proto |-> "TCP"]
Udp(p) == [port |-> p, proto |-> "UDP"]
PortLists == {None, {}, {Tcp(http)}, {Tcp(http), Udp(dns)},
              {[port |-> dns, proto |-> "other"]}}

(* Bound: at most two peers, the first of them any.                        *)
PeerLists == {None, {}} \cup {{q} : q \in Peers}
               \cup {{q, [pod |-> {Req("In")}, ns |-> None]} : q \in Peers}
OneRule == [from: PeerLists, ports: PortLists]

SecondRule == [from: {None, {[pod |-> {Req("In")}, ns |-> None]},
                      {[pod |-> None, ns |-> {Req("In")}]}},
               ports: {None, {}, {Udp(http)}}]

(* Bound: at most two rules in a direction, and the other direction empty  *)
(* or a single rule of the second kind.                                    *)
TwoRules == {{}} \cup {{r} : r \in OneRule}
              \cup {{r, s} : r \in OneRule, s \in SecondRule}
Others == {{}} \cup {{s} : s \in SecondRule}
RuleInputs == (TwoRules \X {{}}) \cup ({{}} \X TwoRules)
                \cup ({{r} : r \in OneRule} \X Others)

=============================================================================
