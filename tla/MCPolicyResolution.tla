------------------------ MODULE MCPolicyResolution ------------------------
(* Small instances of PolicyResolution for TLC. *)
EXTENDS PolicyResolution, TLC

CONSTANTS c1, c2, c3, p1, p2, x1, x2, w1, w2, nil, red, blue, b1, b2

InfraOnly  == [c \in Contexts |-> "infra"]
MixedKinds == [c \in Contexts |-> IF c = c1 THEN "infra"
                                  ELSE IF c = c2 THEN "app" ELSE "untagged"]

LabelSelectors == {{l} : l \in Labels \ {NoLabels}}

OneRunning    == {[ip |-> "pod", lab |-> red]}
NoneOrRunning == {None, [ip |-> "pod", lab |-> red]}
NotYetRunning == {[ip |-> "none", lab |-> red]}

NoneOnly  == {None}
OnlyRed   == {[sel |-> {red}, body |-> b1]}
NoneOrRed == {None, [sel |-> {red}, body |-> b1]}

(* Bound: no container starts before the namespace is active. *)
ActivatedFirst == active = None => \A c \in Contexts : pu[c] = "new"

(* Bound: at most two goroutines, the namespace controller's included, are *)
(* busy at a time.                                                          *)
PairsOnly ==
  Cardinality({t \in Threads : pc[t] # "idle"})
    + (IF nsPc = "idle" THEN 0 ELSE 1) <= 2

(* Bound: the same, once a second container is started. *)
PairsAfterRestart ==
  PairsOnly \/ Cardinality({c \in Contexts : pu[c] # "new"}) <= 1

(* Bound: containers do not stop. *)
NoStops == \A c \in Contexts : pu[c] # "gone"

(* Bound: one container at a time is being started. *)
OneStart == Cardinality({c \in Contexts : pu[c] = "creating"}) <= 1

(* Bound: pods and policies change only while all containers run. *)
RunningFirst == changes > 0 => \A c \in Contexts : pu[c] = "up"

(* Bound: containers start after two changes, such as the deletion and the *)
(* creation of their pod.                                                  *)
RecreatedFirst == changes < 2 => \A c \in Contexts : pu[c] = "new"

PodSymmetry == Permutations(Pods) \cup Permutations(Contexts)

=============================================================================
