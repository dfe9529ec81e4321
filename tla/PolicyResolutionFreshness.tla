------------------------ MODULE PolicyResolutionFreshness ------------------------
(* The freshness of the enforced policies: a running pod whose policy is   *)
(* not the one called for is one that a recorded loss befell, or one that  *)
(* something still under way will resolve again.                           *)
EXTENDS PolicyResolutionSafety

(* The watcher whose stores the resolver reads, or is about to read, and   *)
(* whether its informers have begun to follow the API server.              *)
Current == IF active # None THEN active ELSE nsW
PodsFollowed     == active # None \/ nsPc \in {"startPolicies", "activate"}
PoliciesFollowed == active # None \/ nsPc = "activate"

(* What an informer's store will hold once its queue is empty. *)
Upcoming(s, q) == IF q = <<>> THEN s ELSE q[Len(q)]

(* The rules one policy object adds to pods with labels l. *)
Contribution(v, l) == IF v # None /\ l \in v.sel THEN {v.body} ELSE {}

(* A queued delta makes a handler resolve the pod again. *)
PodDelta(p) ==
  \E i \in 1..Len(podQ[Current][p]) : podQ[Current][p][i] # podStore[Current][p]
PolicyDelta(p) ==
  /\ PoliciesFollowed
  /\ \E x \in Policies : \E i \in 1..Len(polQ[Current][x]) :
       Contribution(polQ[Current][x][i], api[p].lab)
         # Contribution(polStore[Current][x], api[p].lab)

(* The policy of the pod while its namespace is active. *)
Plain(p) == api[p].ip \in {"none", "host"} \/ api[p].lab = NoLabels
Called(p) == PodRules(pols, api[p].lab)
Target(p) ==
  IF Plain(p) THEN notInfraContainerPolicy
  ELSE generatePUPolicy(api[p].lab, Called(p),
                        IF EgressPolicies THEN Called(p) ELSE {})

(* What the goroutine read so far is what the API server says now. *)
UpToDate(t, p) ==
  \/ /\ ~Plain(p) /\ job[t].lab = api[p].lab
     /\ \/ pc[t] \in {"nsActive", "getWatcher"}
        \/ /\ active # None
           /\ \/ pc[t] = "listPolicies" /\ job[t].w = active
              \/ pc[t] = "ingress" /\ PodRules(job[t].list, api[p].lab) = Called(p)
              \/ /\ pc[t] = "egress" /\ job[t].in = Called(p)
                 /\ PodRules(job[t].list, api[p].lab) = Called(p)
  \/ /\ Plain(p) \/ active # None
     /\ pc[t] = "update" /\ job[t].pol = Target(p)

(* The goroutine will resolve the pod and write its policy, or record that *)
(* it did not: it has yet to read the pod, what it read is up to date, or  *)
(* the container it works for is no longer the pod's.                      *)
Serves(t, p) ==
  \/ t \in Controllers /\ pc[t] \notin {"idle", "localPods"} /\ p \in job[t].todo
  \/ /\ t \in Controllers /\ pc[t] = "localPods"
     /\ api[p].lab \in job[t].sel \cup job[t].lost
  \/ t = Mon(live[p]) /\ pc[t] = "resolve"
  \/ /\ job[t].pod = p /\ job[t].ctx # None
     /\ \/ pc[t] = "getPod" /\ (t \in Controllers \/ job[t].ctx = live[p])
        \/ /\ pc[t] \in Reading /\ job[t].ctx # live[p]
           /\ t \in Controllers \/ job[t].repairs # {}
        \/ job[t].ctx = live[p] /\ UpToDate(t, p)

(* The container has the policy called for, and no resolution under way    *)
(* can take it back without recording so.                                  *)
Settled(p) ==
  /\ pu[live[p]] = "up" /\ enforced[live[p]] = Target(p)
  /\ Plain(p) \/ active # None
  /\ \A t \in Threads : pc[t] \in Reading /\ job[t].ctx = live[p] => job[t].late

Fresh(p) ==
  PodsFollowed /\ live[p] # None /\ api[p] # None /\ missed[p] = {} =>
    \/ pu[live[p]] = "failed"
    \/ PodDelta(p) \/ PolicyDelta(p)
    \/ \E t \in Threads : Serves(t, p)
    \/ Settled(p)

FreshInv == \A p \in Pods : Fresh(p)

-----------------------------------------------------------------------------
(* Informers: nothing reaches a watcher before its controllers start, and  *)
(* the current watcher's stores and queues lead to the API server's state. *)
InformerInv ==
  /\ \A w \in Watchers : wstate[w] = "unused" =>
       \A p \in Pods : podQ[w][p] = <<>> /\ podStore[w][p] = None
  /\ \A w \in Watchers : wstate[w] = "unused" \/ (w = nsW /\ nsPc = "startPolicies") =>
       \A x \in Policies : polQ[w][x] = <<>> /\ polStore[w][x] = None
  /\ PodsFollowed =>
       \A p \in Pods : Upcoming(podStore[Current][p], podQ[Current][p]) = api[p]
  /\ PoliciesFollowed =>
       \A x \in Policies : Upcoming(polStore[Current][x], polQ[Current][x]) = pols[x]

(* Containers: a pod's container is one of its own; a PU that was created  *)
(* is that of its pod's container; a monitor works on its own container    *)
(* while the PU is being created; a resolution knows its container.        *)
ContainerInv ==
  /\ \A p \in Pods : live[p] # None =>
       /\ ctxPod[live[p]] = p /\ Kind[live[p]] = "infra"
       /\ pu[live[p]] \in {"creating", "up", "failed"}
  /\ \A c \in Contexts : pu[c] # "new" => ctxPod[c] \in Pods
  /\ \A c \in Contexts : Kind[c] = "infra" /\ pu[c] = "up" => live[ctxPod[c]] = c
  /\ \A c \in Contexts : pc[Mon(c)] # "idle" => pu[c] = "creating"
  /\ \A c \in Contexts : pc[Mon(c)] \notin {"next", "localPods"}
  /\ \A c \in Contexts : \/ job[Mon(c)].ctx = c
                         \/ job[Mon(c)].ctx = None /\ job[Mon(c)].pod = None
  /\ \A t \in Threads : pc[t] = "getPod" => job[t].ctx # None

-----------------------------------------------------------------------------
(* Queues of deltas. *)

(* A new delta is what the store will hold in the end. *)
LEMMA UpcomingAppend ==
  ASSUME NEW V, NEW q \in Seq(V), NEW v \in V, NEW s
  PROVE  Upcoming(s, Append(q, v)) = v
<1>1. Append(q, v) # <<>> /\ Append(q, v)[Len(Append(q, v))] = v OBVIOUS
<1> QED BY <1>1 DEF Upcoming

(* The entries that are left of a queue when its first delta is stored. *)
LEMMA PopEntries ==
  ASSUME NEW V, NEW q \in Seq(V), q # <<>>
  PROVE  /\ Len(q) \in Nat \ {0} /\ Head(q) = q[1] /\ Tail(q) \in Seq(V)
         /\ Len(Tail(q)) = Len(q) - 1
         /\ Tail(q) = <<>> <=> Len(q) = 1
         /\ \A i \in 1..(Len(q) - 1) : Tail(q)[i] = q[i + 1]
<1>1. Len(q) \in Nat \ {0} BY EmptySeq
<1>2. /\ Len(Tail(q)) = Len(q) - 1 /\ Tail(q) \in Seq(V) /\ Head(q) = q[1]
      /\ \A i \in 1..(Len(q) - 1) : Tail(q)[i] = q[i + 1]
  BY HeadTailProperties
<1>3. Tail(q) # <<>> => Len(Tail(q)) # 0
  <2>1. Tail(q) # <<>> => Len(Tail(q)) \in Nat \ {0} BY <1>2, EmptySeq
  <2> QED BY <2>1
<1>4. Tail(q) = <<>> => Len(Tail(q)) = 0
  <2>1. Len(<<>>) = 0 OBVIOUS
  <2> QED BY <2>1
<1>5. Tail(q) = <<>> <=> Len(q) = 1 BY <1>1, <1>2, <1>3, <1>4
<1> QED BY <1>1, <1>2, <1>5

(* Storing the first delta of a queue does not change where it leads. *)
LEMMA UpcomingPop ==
  ASSUME NEW V, NEW q \in Seq(V), q # <<>>, NEW s
  PROVE  Upcoming(Head(q), Tail(q)) = Upcoming(s, q)
<1>1. CASE Len(q) = 1
  BY <1>1, PopEntries DEF Upcoming
<1>2. CASE Len(q) # 1
  <2>1. Tail(q) # <<>> /\ Tail(q)[Len(q) - 1] = q[Len(q)] BY <1>2, PopEntries
  <2> QED BY <2>1, PopEntries DEF Upcoming
<1> QED BY <1>1, <1>2

-----------------------------------------------------------------------------
(* The informers of the current watcher. *)

(* Whose stores are followed: a watcher that started and receives deltas. *)
LEMMA CurrentFollows ==
  ASSUME TypeInv, WatcherInv
  PROVE  /\ PoliciesFollowed => PodsFollowed
         /\ PodsFollowed => /\ Current \in Watchers /\ "pod" \in fed[Current]
                            /\ wstate[Current] # "unused"
         /\ PoliciesFollowed => "pol" \in fed[Current]
BY DEF TypeInv, TypeOK, WatcherInv, Current, PodsFollowed, PoliciesFollowed

(* What a step may do to the informers and to what they follow. *)
LEMMA InformerFrame ==
  ASSUME TypeInv, [Next]_vars
  PROVE  \/ \E p \in Pods : \E v \in PodObj \cup {None} : ChangePod(p, v)
         \/ \E x \in Policies : ChangePolicy(x)
         \/ NamespaceController
         \/ \E w \in Watchers, p \in Pods : Pop(w, p)
         \/ \E w \in Watchers, x \in Policies :
              polQ[w][x] # <<>> /\ \E sel, lost : PopPolicy(w, x, sel, lost)
         \/ UNCHANGED <<podQVars, polQVars, api, pols, nsVars>>
<1> DEFINE Same == UNCHANGED <<podQVars, polQVars, api, pols, nsVars>>
<1>1. ASSUME Environment
      PROVE  \/ \E p \in Pods : \E v \in PodObj \cup {None} : ChangePod(p, v)
             \/ \E x \in Policies : ChangePolicy(x)
             \/ Same
  <2>1. ASSUME NEW p \in Pods,
               CreatePod(p) \/ AssignIP(p) \/ UpdateApiPod(p) \/ DeleteApiPod(p)
        PROVE  \E v \in PodObj \cup {None} : ChangePod(p, v)
    <3>1. api[p] # None => api[p] \in PodObj BY DEF TypeInv, TypeOK
    <3>2. CASE CreatePod(p) BY <3>2 DEF CreatePod, PodObj
    <3>3. CASE AssignIP(p) BY <3>1, <3>3 DEF AssignIP, PodObj
    <3>4. CASE UpdateApiPod(p) BY <3>1, <3>4 DEF UpdateApiPod, PodObj
    <3>5. CASE DeleteApiPod(p) BY <3>5 DEF DeleteApiPod
    <3> QED BY <2>1, <3>2, <3>3, <3>4, <3>5
  <2>2. ASSUME NEW p \in Pods, StopContainer(p) PROVE Same
    BY <2>2 DEF StopContainer, apiVars
  <2>3. ASSUME NEW c \in Contexts, NEW p \in Pods, StartContainer(c, p) PROVE Same
    BY <2>3 DEF StartContainer, apiVars
  <2>4. ASSUME ChangeNamespace PROVE Same
    BY <2>4 DEF ChangeNamespace
  <2> QED BY <1>1, <2>1, <2>2, <2>3, <2>4 DEF Environment
<1>2. ASSUME NEW t, Resolve(t) PROVE Same
  BY <1>2 DEF Resolve, contextIDByPodName, getPod, isNamespaceActive,
     getNamespaceWatcher, getPolicyList, IngressPodRules, EgressPodRules,
     PodReadFails, unchangedByReads, apiVars
<1>3. ASSUME NEW t, UpdatePolicy(t) \/ UpdatePolicyFails(t) PROVE Same
  BY <1>3 DEF UpdatePolicy, UpdatePolicyFails, unchangedByReads, apiVars
<1>4. ASSUME NEW c \in Contexts, Monitor(c) PROVE Same
  BY <1>2, <1>4 DEF Monitor, ResolvePolicy, CreatePU, apiVars
<1>5. ASSUME NEW w \in Watchers, PodController(w)
      PROVE  Same \/ \E p \in Pods : Pop(w, p)
  BY <1>2, <1>3, <1>5 DEF PodController, addPod, updatePod, deletePod
<1>6. ASSUME NEW w \in Watchers, PolicyController(w)
      PROVE  \/ Same
             \/ \E x \in Policies :
                  polQ[w][x] # <<>> /\ \E sel, lost : PopPolicy(w, x, sel, lost)
  <2>1. ASSUME NEW x \in Policies, \/ addNetworkPolicy(w, x) \/ updateNetworkPolicy(w, x)
                                   \/ deleteNetworkPolicy(w, x)
        PROVE  polQ[w][x] # <<>> /\ \E sel, lost : PopPolicy(w, x, sel, lost)
    BY <2>1 DEF addNetworkPolicy, updateNetworkPolicy, deleteNetworkPolicy
  <2>2. ASSUME NEW t, LocalPods(t) \/ LocalPodsFails(t) PROVE Same
    BY <2>2 DEF LocalPods, LocalPodsFails, unchangedByReads, apiVars
  <2> QED BY <1>2, <1>3, <1>6, <2>1, <2>2 DEF PolicyController
<1>7. UNCHANGED vars => Same BY DEF vars, apiVars
<1> QED BY <1>1, <1>4, <1>5, <1>6, <1>7 DEF Next

(* InformerInv holds when the process starts. *)
LEMMA InformerInvInit == Init => InformerInv
BY ConstantsAssumption
   DEF Init, InformerInv, PodsFollowed, PoliciesFollowed, NoPolicies

(* Every step keeps InformerInv. *)
LEMMA InformerInvStep ==
  TypeInv /\ WatcherInv /\ InformerInv /\ [Next]_vars => InformerInv'
<1> SUFFICES ASSUME TypeInv, WatcherInv, InformerInv, [Next]_vars
             PROVE  InformerInv'
  OBVIOUS
<1>0. /\ podQ \in [Watchers -> [Pods -> Seq(PodObj \cup {None})]]
      /\ podStore \in [Watchers -> [Pods -> PodObj \cup {None}]]
      /\ polQ \in [Watchers -> [Policies -> Seq(PolObj \cup {None})]]
      /\ polStore \in [Watchers -> [Policies -> PolObj \cup {None}]]
      /\ api \in [Pods -> PodObj \cup {None}]
      /\ pols \in [Policies -> PolObj \cup {None}]
  BY DEF TypeInv, TypeOK, PolicyMap
<1>n. UNCHANGED nsVars => /\ Current' = Current /\ (PodsFollowed <=> PodsFollowed')
                          /\ (PoliciesFollowed <=> PoliciesFollowed')
                          /\ wstate' = wstate /\ nsW' = nsW /\ nsPc' = nsPc
  BY DEF nsVars, Current, PodsFollowed, PoliciesFollowed
<1>1. ASSUME NEW p \in Pods, NEW v \in PodObj \cup {None}, ChangePod(p, v)
      PROVE  InformerInv'
  <2>1. /\ api' = [api EXCEPT ![p] = v] /\ podQ' = Push(podQ, "pod", p, v)
        /\ UNCHANGED <<pols, podStore, polQ, polStore, nsVars>>
    BY <1>1 DEF ChangePod, polQVars
  <2>2. \A w \in Watchers, q \in Pods :
          podQ'[w][q] = IF "pod" \in fed[w] /\ q = p THEN Append(podQ[w][q], v)
                        ELSE podQ[w][q]
    BY <1>0, <2>1 DEF Push
  <2>3. \A w \in Watchers : wstate[w] = "unused" => "pod" \notin fed[w]
    BY DEF WatcherInv
  <2>4. ASSUME PodsFollowed, NEW q \in Pods
        PROVE  Upcoming(podStore[Current][q], podQ'[Current][q]) = api'[q]
    <3>1. Current \in Watchers /\ "pod" \in fed[Current] BY <2>4, CurrentFollows
    <3>2. CASE q = p
      <4>1. podQ[Current][q] \in Seq(PodObj \cup {None}) BY <1>0, <3>1
      <4>2. podQ'[Current][q] = Append(podQ[Current][q], v) BY <2>2, <3>1, <3>2
      <4>3. api'[q] = v BY <1>0, <2>1, <3>2
      <4> QED BY <4>1, <4>2, <4>3, UpcomingAppend
    <3>3. CASE q # p
      <4>1. podQ'[Current][q] = podQ[Current][q] /\ api'[q] = api[q]
        BY <1>0, <2>1, <2>2, <3>1, <3>3
      <4> QED BY <2>4, <4>1 DEF InformerInv
    <3> QED BY <3>2, <3>3
  <2> QED BY <1>n, <2>1, <2>2, <2>3, <2>4 DEF InformerInv
<1>2. ASSUME NEW x \in Policies, ChangePolicy(x)
      PROVE  InformerInv'
  <2>1. PICK v \in PolObj \cup {None} :
          pols' = [pols EXCEPT ![x] = v] /\ polQ' = Push(polQ, "pol", x, v)
    BY <1>2 DEF ChangePolicy
  <2>s. UNCHANGED <<api, podQ, podStore, polStore, nsVars>>
    BY <1>2 DEF ChangePolicy, podQVars
  <2>2. \A w \in Watchers, y \in Policies :
          polQ'[w][y] = IF "pol" \in fed[w] /\ y = x THEN Append(polQ[w][y], v)
                        ELSE polQ[w][y]
    BY <1>0, <2>1 DEF Push
  <2>3. \A w \in Watchers :
          wstate[w] = "unused" \/ (w = nsW /\ nsPc = "startPolicies") => "pol" \notin fed[w]
    BY DEF WatcherInv
  <2>4. ASSUME PoliciesFollowed, NEW y \in Policies
        PROVE  Upcoming(polStore[Current][y], polQ'[Current][y]) = pols'[y]
    <3>1. Current \in Watchers /\ "pol" \in fed[Current] BY <2>4, CurrentFollows
    <3>2. CASE y = x
      <4>1. polQ[Current][y] \in Seq(PolObj \cup {None}) BY <1>0, <3>1
      <4>2. polQ'[Current][y] = Append(polQ[Current][y], v) BY <2>2, <3>1, <3>2
      <4>3. pols'[y] = v BY <1>0, <2>1, <3>2
      <4> QED BY <4>1, <4>2, <4>3, UpcomingAppend
    <3>3. CASE y # x
      <4>1. polQ'[Current][y] = polQ[Current][y] /\ pols'[y] = pols[y]
        BY <1>0, <2>1, <2>2, <3>1, <3>3
      <4> QED BY <2>4, <4>1 DEF InformerInv
    <3> QED BY <3>2, <3>3
  <2> QED BY <1>n, <2>s, <2>1, <2>2, <2>3, <2>4 DEF InformerInv
<1>3. ASSUME NEW w \in Watchers, NEW p \in Pods, Pop(w, p)
      PROVE  InformerInv'
  <2>1. /\ podQ[w][p] # <<>>
        /\ podQ' = [podQ EXCEPT ![w][p] = Tail(@)]
        /\ podStore' = [podStore EXCEPT ![w][p] = Head(podQ[w][p])]
        /\ UNCHANGED <<api, pols, polQ, polStore, nsVars>>
    BY <1>3 DEF Pop, apiVars, polQVars
  <2>2. \A u \in Watchers, q \in Pods :
          /\ Upcoming(podStore'[u][q], podQ'[u][q]) = Upcoming(podStore[u][q], podQ[u][q])
          /\ podQ[u][q] = <<>> => podQ'[u][q] = <<>> /\ podStore'[u][q] = podStore[u][q]
    <3>1. podQ[w][p] \in Seq(PodObj \cup {None}) BY <1>0
    <3>2. Upcoming(Head(podQ[w][p]), Tail(podQ[w][p]))
            = Upcoming(podStore[w][p], podQ[w][p])
      BY <2>1, <3>1, UpcomingPop
    <3> QED BY <1>0, <2>1, <3>2
  <2> QED BY <1>n, <2>1, <2>2, CurrentFollows DEF InformerInv
<1>4. ASSUME NEW w \in Watchers, NEW x \in Policies, polQ[w][x] # <<>>,
             NEW sel, NEW lost, PopPolicy(w, x, sel, lost)
      PROVE  InformerInv'
  <2>1. /\ polQ' = [polQ EXCEPT ![w][x] = Tail(@)]
        /\ polStore' = [polStore EXCEPT ![w][x] = Head(polQ[w][x])]
        /\ UNCHANGED <<api, pols, podQ, podStore, nsVars>>
    BY <1>4 DEF PopPolicy, apiVars, podQVars
  <2>2. \A u \in Watchers, y \in Policies :
          /\ Upcoming(polStore'[u][y], polQ'[u][y]) = Upcoming(polStore[u][y], polQ[u][y])
          /\ polQ[u][y] = <<>> => polQ'[u][y] = <<>> /\ polStore'[u][y] = polStore[u][y]
    <3>1. polQ[w][x] \in Seq(PolObj \cup {None}) BY <1>0
    <3>2. Upcoming(Head(polQ[w][x]), Tail(polQ[w][x]))
            = Upcoming(polStore[w][x], polQ[w][x])
      BY <1>4, <3>1, UpcomingPop
    <3> QED BY <1>0, <1>4, <2>1, <3>2
  <2> QED BY <1>n, <2>1, <2>2, CurrentFollows DEF InformerInv
<1>5. CASE addNamespace \/ deleteNamespace \/ updateNamespace
  <2>1. nsPc = "idle" /\ UNCHANGED <<podQ, podStore, polQ, polStore, api, pols>>
    BY <1>5 DEF addNamespace, deleteNamespace, updateNamespace, PopNamespace, apiVars,
       podQVars, polQVars
  <2>2. \/ active = None /\ BeginActivation
        \/ active # None /\ deactivateNamespace
        \/ UNCHANGED nsVars
    BY <1>5, NamespaceHandlers
  <2>3. CASE active = None /\ BeginActivation
    BY <2>1, <2>3 DEF BeginActivation, InformerInv, PodsFollowed, PoliciesFollowed
  <2>4. CASE active # None /\ deactivateNamespace
    <3>1. \A w \in Watchers : wstate'[w] = "unused" => wstate[w] = "unused"
      BY <2>4 DEF deactivateNamespace, TypeInv, TypeOK
    <3>2. nsPc' = "idle" /\ active' = None BY <2>1, <2>4 DEF deactivateNamespace
    <3> QED BY <2>1, <3>1, <3>2 DEF InformerInv, PodsFollowed, PoliciesFollowed
  <2>5. CASE UNCHANGED nsVars
    BY <1>n, <2>1, <2>5 DEF InformerInv
  <2> QED BY <2>2, <2>3, <2>4, <2>5
<1>6. CASE StartPodController
  <2>1. /\ nsPc = "startPods" /\ nsPc' = "startPolicies" /\ active = None
        /\ active' = active /\ nsW' = nsW /\ nsW \in Watchers
        /\ wstate[nsW] = "unused" /\ wstate' = [wstate EXCEPT ![nsW] = "started"]
        /\ podQ' = [podQ EXCEPT ![nsW] = [p \in Pods |-> Listed(api[p])]]
        /\ UNCHANGED <<podStore, polQ, polStore, api, pols>>
    BY <1>6 DEF StartPodController, WatcherInv, apiVars, polQVars
  <2>2. \A w \in Watchers : wstate'[w] = "unused" => wstate[w] = "unused" /\ w # nsW
    BY <2>1 DEF TypeInv, TypeOK
  <2>3. ASSUME NEW p \in Pods
        PROVE  Upcoming(podStore[nsW][p], podQ'[nsW][p]) = api[p]
    <3>1. podQ'[nsW][p] = Listed(api[p]) BY <1>0, <2>1
    <3>2. podStore[nsW][p] = None BY <2>1 DEF InformerInv
    <3>3. <<api[p]>> # <<>> /\ <<api[p]>>[Len(<<api[p]>>)] = api[p] OBVIOUS
    <3> QED BY <3>1, <3>2, <3>3 DEF Listed, Upcoming
  <2>4. \A w \in Watchers, p \in Pods : w # nsW => podQ'[w][p] = podQ[w][p]
    BY <1>0, <2>1
  <2>5. Current' = nsW /\ ~PoliciesFollowed'
    BY <2>1 DEF Current, PoliciesFollowed
  <2>6. \A w \in Watchers :
          wstate'[w] = "unused" \/ (w = nsW' /\ nsPc' = "startPolicies")
            => wstate[w] = "unused"
    BY <2>1, <2>2
  <2> QED BY <2>1, <2>2, <2>3, <2>4, <2>5, <2>6 DEF InformerInv
<1>7. CASE StartPolicyController
  <2>1. /\ nsPc = "startPolicies" /\ nsPc' = "activate" /\ active = None
        /\ active' = active /\ nsW' = nsW /\ nsW \in Watchers
        /\ wstate' = wstate
        /\ polQ' = [polQ EXCEPT ![nsW] = [x \in Policies |-> Listed(pols[x])]]
        /\ UNCHANGED <<podQ, podStore, polStore, api, pols>>
    BY <1>7 DEF StartPolicyController, WatcherInv, apiVars, podQVars
  <2>2. wstate[nsW] # "unused" BY <2>1 DEF WatcherInv
  <2>3. ASSUME NEW x \in Policies
        PROVE  Upcoming(polStore[nsW][x], polQ'[nsW][x]) = pols[x]
    <3>1. polQ'[nsW][x] = Listed(pols[x]) BY <1>0, <2>1
    <3>2. polStore[nsW][x] = None BY <2>1 DEF InformerInv
    <3>3. <<pols[x]>> # <<>> /\ <<pols[x]>>[Len(<<pols[x]>>)] = pols[x] OBVIOUS
    <3> QED BY <3>1, <3>2, <3>3 DEF Listed, Upcoming
  <2>4. \A w \in Watchers, x \in Policies : w # nsW => polQ'[w][x] = polQ[w][x]
    BY <1>0, <2>1
  <2>5. Current' = nsW /\ Current = nsW /\ PodsFollowed
    BY <2>1 DEF Current, PodsFollowed
  <2> QED BY <2>1, <2>2, <2>3, <2>4, <2>5 DEF InformerInv
<1>8. CASE activateNamespaceWatcher
  <2>1. /\ nsPc = "activate" /\ active = None /\ active' = nsW /\ nsPc' = "idle"
        /\ nsW \in Watchers /\ wstate' = wstate
        /\ UNCHANGED <<podQ, podStore, polQ, polStore, api, pols>>
    BY <1>8 DEF activateNamespaceWatcher, WatcherInv, apiVars, podQVars, polQVars
  <2>2. Current' = nsW /\ Current = nsW /\ PodsFollowed /\ PoliciesFollowed
    BY <2>1, ConstantsAssumption DEF Current, PodsFollowed, PoliciesFollowed
  <2> QED BY <2>1, <2>2 DEF InformerInv
<1>9. CASE UNCHANGED <<podQVars, polQVars, api, pols, nsVars>>
  BY <1>n, <1>9 DEF podQVars, polQVars, InformerInv
<1> QED BY <1>1, <1>2, <1>3, <1>4, <1>5, <1>6, <1>7, <1>8, <1>9, InformerFrame
   DEF NamespaceController

-----------------------------------------------------------------------------
(* Containers and the monitors that create their PUs. *)

(* ContainerInv holds when the process starts. *)
LEMMA ContainerInvInit == Init => ContainerInv
<1> SUFFICES ASSUME Init PROVE ContainerInv
  OBVIOUS
<1>1. \A t \in Threads : job[t].ctx = None /\ job[t].pod = None /\ pc[t] = "idle"
  BY NoJobType DEF Init
<1> QED BY <1>1, ThreadTypes DEF Init, ContainerInv

(* What a goroutine's step may do without breaking ContainerInv: a monitor *)
(* stays within a resolution of its own container.                         *)
LEMMA ContainerGoto ==
  ASSUME TypeInv, ContainerInv, NEW t \in Threads, NEW l \in Positions, NEW j \in Job,
         Goto(t, l, j), UNCHANGED <<live, ctxPod, pu>>,
         l = "getPod" => j.ctx # None,
         \A c \in Contexts : t = Mon(c) =>
            /\ pc[t] # "idle" /\ l \notin {"next", "localPods"}
            /\ \/ j.ctx = c
               \/ j.ctx = None /\ j.pod = None
               \/ j.ctx = job[t].ctx /\ j.pod = job[t].pod
  PROVE  ContainerInv'
<1>1. /\ pc' = [pc EXCEPT ![t] = l] /\ job' = [job EXCEPT ![t] = j]
      /\ pc \in [Threads -> Positions] /\ job \in [Threads -> Job]
      /\ \A c \in Contexts : Mon(c) \in Threads
  BY ThreadTypes DEF Goto, TypeInv, TypeOK
<1>2. ASSUME NEW c \in Contexts
      PROVE  /\ pc'[Mon(c)] # "idle" => pu'[c] = "creating"
             /\ pc'[Mon(c)] \notin {"next", "localPods"}
             /\ \/ job'[Mon(c)].ctx = c
                \/ job'[Mon(c)].ctx = None /\ job'[Mon(c)].pod = None
  <2>1. CASE t = Mon(c)
    <3>1. pc'[Mon(c)] = l /\ job'[Mon(c)] = j BY <1>1, <2>1
    <3> QED BY <2>1, <3>1 DEF ContainerInv
  <2>2. CASE t # Mon(c)
    <3>1. pc'[Mon(c)] = pc[Mon(c)] /\ job'[Mon(c)] = job[Mon(c)] BY <1>1, <2>2
    <3> QED BY <3>1 DEF ContainerInv
  <2> QED BY <2>1, <2>2
<1>3. \A u \in Threads : pc'[u] = "getPod" => job'[u].ctx # None
  BY <1>1 DEF ContainerInv
<1> QED BY <1>2, <1>3 DEF ContainerInv

(* A failed resolution keeps ContainerInv: a monitor's PU was being made.  *)
LEMMA ContainerFail ==
  ASSUME TypeInv, ContainerInv, NEW t \in Threads, NEW p, NEW r, Fail(t, p, r),
         UNCHANGED <<live, ctxPod>>, pc[t] # "idle"
  PROVE  ContainerInv'
<1>0. /\ pc \in [Threads -> Positions] /\ job \in [Threads -> Job]
      /\ pu \in [Contexts -> {"new", "creating", "up", "failed", "gone"}]
      /\ live \in [Pods -> Contexts \cup {None}]
      /\ None \notin Contexts
      /\ \A c \in Contexts : Mon(c) \in Threads
  BY ConstantsAssumption, ThreadTypes DEF TypeInv, TypeOK
<1>1. Goto(t, "idle", NoJob) BY DEF Fail
<1>2. NoJob \in Job /\ NoJob.ctx = None /\ NoJob.pod = None /\ "idle" \in Positions
  BY NoJobType DEF Positions
<1> HIDE DEF NoJob
<1>3. CASE t \notin Monitors
  <2>1. pu' = pu BY <1>3 DEF Fail
  <2>2. \A c \in Contexts : t # Mon(c) BY <1>3 DEF Mon, Monitors
  <2> QED BY <1>1, <1>2, <2>1, <2>2, ContainerGoto
<1>4. CASE t \in Monitors
  <2>1. PICK c \in Contexts : t = Mon(c) /\ t[2] = c BY <1>4 DEF Mon, Monitors
  <2>2. pu' = [pu EXCEPT ![c] = "failed"] BY <1>4, <2>1 DEF Fail
  <2>3. pu[c] = "creating" BY <2>1 DEF ContainerInv
  <2>4. \A d \in Contexts : Mon(d) = t => d = c BY <2>1 DEF Mon
  <2>5. pc' = [pc EXCEPT ![t] = "idle"] /\ job' = [job EXCEPT ![t] = NoJob]
    BY <1>1 DEF Goto
  <2>6. \A p1 \in Pods : live'[p1] # None =>
          /\ ctxPod'[live'[p1]] = p1 /\ Kind[live'[p1]] = "infra"
          /\ pu'[live'[p1]] \in {"creating", "up", "failed"}
    BY <1>0, <2>2 DEF ContainerInv
  <2>7. \A d \in Contexts :
          /\ pu'[d] # "new" => ctxPod'[d] \in Pods
          /\ Kind[d] = "infra" /\ pu'[d] = "up" => live'[ctxPod'[d]] = d
    BY <1>0, <2>2, <2>3 DEF ContainerInv
  <2>8. ASSUME NEW d \in Contexts
        PROVE  /\ pc'[Mon(d)] # "idle" => pu'[d] = "creating"
               /\ pc'[Mon(d)] \notin {"next", "localPods"}
               /\ \/ job'[Mon(d)].ctx = d
                  \/ job'[Mon(d)].ctx = None /\ job'[Mon(d)].pod = None
    <3>1. CASE d = c
      <4>1. pc'[Mon(d)] = "idle" /\ job'[Mon(d)] = NoJob
        BY <1>0, <2>1, <2>5, <3>1
      <4> QED BY <1>2, <4>1
    <3>2. CASE d # c
      <4>1. pc'[Mon(d)] = pc[Mon(d)] /\ job'[Mon(d)] = job[Mon(d)] /\ pu'[d] = pu[d]
        BY <1>0, <2>2, <2>4, <2>5, <3>2
      <4> QED BY <4>1 DEF ContainerInv
    <3> QED BY <3>1, <3>2
  <2>9. \A u \in Threads : pc'[u] = "getPod" => job'[u].ctx # None
    BY <1>0, <2>5 DEF ContainerInv
  <2> QED BY <2>6, <2>7, <2>8, <2>9 DEF ContainerInv
<1> QED BY <1>3, <1>4

(* A step that leaves containers and goroutines alone. *)
LEMMA ContainerFrame ==
  ASSUME ContainerInv, UNCHANGED <<live, ctxPod, pu, jobVars>>
  PROVE  ContainerInv'
BY DEF ContainerInv, jobVars

(* The starts and stops of containers keep ContainerInv. *)
LEMMA ContainerEnvironment ==
  ASSUME TypeInv, OwnPodInv, ContainerInv, Environment
  PROVE  ContainerInv'
<1>0. /\ pc \in [Threads -> Positions] /\ job \in [Threads -> Job]
      /\ pu \in [Contexts -> {"new", "creating", "up", "failed", "gone"}]
      /\ live \in [Pods -> Contexts \cup {None}]
      /\ ctxPod \in [Contexts -> Pods \cup {None}]
      /\ None \notin Contexts /\ None \notin Pods
      /\ \A c \in Contexts : Mon(c) \in Threads
      /\ \A c \in Contexts, d \in Contexts : Mon(c) = Mon(d) => c = d
  BY ConstantsAssumption, ThreadTypes DEF TypeInv, TypeOK, Mon
<1>1. ASSUME NEW p \in Pods, StopContainer(p)
      PROVE  ContainerInv'
  <2> DEFINE c == live[p]
  <2>1. /\ c \in Contexts /\ live' = [live EXCEPT ![p] = None]
        /\ UNCHANGED <<ctxPod, pc, job>>
        /\ IF pu[c] = "creating" THEN pu' = pu ELSE pu' = [pu EXCEPT ![c] = "gone"]
    BY <1>0, <1>1 DEF StopContainer, jobVars
  <2>2. \A q \in Pods : live[q] = c => q = p
    BY <1>0, <2>1 DEF ContainerInv
  <2>3. ASSUME NEW q \in Pods, live'[q] # None
        PROVE  /\ ctxPod'[live'[q]] = q /\ Kind[live'[q]] = "infra"
               /\ pu'[live'[q]] \in {"creating", "up", "failed"}
    <3>1. live'[q] = live[q] /\ live[q] # c BY <1>0, <2>1, <2>2, <2>3
    <3>2. pu'[live[q]] = pu[live[q]] BY <1>0, <2>1, <2>3, <3>1
    <3> QED BY <2>1, <2>3, <3>1, <3>2 DEF ContainerInv
  <2>4. ASSUME NEW d \in Contexts
        PROVE  /\ pu'[d] # "new" => ctxPod'[d] \in Pods
               /\ Kind[d] = "infra" /\ pu'[d] = "up" => live'[ctxPod'[d]] = d
               /\ pc'[Mon(d)] # "idle" => pu'[d] = "creating"
    <3>1. CASE d = c BY <1>0, <2>1, <2>2, <3>1 DEF ContainerInv
    <3>2. CASE d # c
      <4>1. pu'[d] = pu[d] BY <1>0, <2>1, <3>2
      <4> QED BY <1>0, <2>1, <3>2, <4>1 DEF ContainerInv
    <3> QED BY <3>1, <3>2
  <2> QED BY <2>1, <2>3, <2>4 DEF ContainerInv
<1>2. ASSUME NEW c \in Contexts, NEW p \in Pods, StartContainer(c, p)
      PROVE  ContainerInv'
  <2>1. /\ pu[c] = "new" /\ ctxPod' = [ctxPod EXCEPT ![c] = p]
        /\ pu' = [pu EXCEPT ![c] = "creating"]
        /\ IF Kind[c] = "infra" THEN live[p] = None /\ live' = [live EXCEPT ![p] = c]
           ELSE live' = live
        /\ pc' = [pc EXCEPT ![Mon(c)] = "resolve"] /\ job' = job
    BY <1>2 DEF StartContainer
  <2>2. ASSUME NEW q \in Pods, live'[q] # None
        PROVE  /\ ctxPod'[live'[q]] = q /\ Kind[live'[q]] = "infra"
               /\ pu'[live'[q]] \in {"creating", "up", "failed"}
    <3>1. CASE live'[q] = live[q]
      <4>1. live[q] \in Contexts /\ live[q] # c
        BY <1>0, <2>1, <2>2, <3>1 DEF ContainerInv
      <4> QED BY <1>0, <2>1, <2>2, <3>1, <4>1 DEF ContainerInv
    <3>2. CASE live'[q] # live[q]
      <4>1. q = p /\ live'[q] = c /\ Kind[c] = "infra" BY <1>0, <2>1, <3>2
      <4> QED BY <1>0, <2>1, <4>1
    <3> QED BY <3>1, <3>2
  <2>3. ASSUME NEW d \in Contexts
        PROVE  /\ pu'[d] # "new" => ctxPod'[d] \in Pods
               /\ Kind[d] = "infra" /\ pu'[d] = "up" => live'[ctxPod'[d]] = d
               /\ pc'[Mon(d)] # "idle" => pu'[d] = "creating"
               /\ pc'[Mon(d)] \notin {"next", "localPods"}
    <3>1. CASE d = c
      <4>1. pu'[d] = "creating" /\ ctxPod'[d] = p /\ pc'[Mon(d)] = "resolve"
        BY <1>0, <2>1, <3>1
      <4> QED BY <4>1
    <3>2. CASE d # c
      <4>1. pu'[d] = pu[d] /\ ctxPod'[d] = ctxPod[d] /\ pc'[Mon(d)] = pc[Mon(d)]
        BY <1>0, <2>1, <3>2
      <4>2. ASSUME Kind[d] = "infra", pu[d] = "up" PROVE live'[ctxPod[d]] = d
        <5>1. live[ctxPod[d]] = d /\ ctxPod[d] \in Pods BY <4>2 DEF ContainerInv
        <5> QED BY <1>0, <2>1, <5>1
      <4> QED BY <4>1, <4>2 DEF ContainerInv
    <3> QED BY <3>1, <3>2
  <2>4. \A u \in Threads : pc'[u] = "getPod" => job'[u].ctx # None
    BY <1>0, <2>1 DEF ContainerInv
  <2> QED BY <2>1, <2>2, <2>3, <2>4 DEF ContainerInv
<1> QED BY <1>1, <1>2, ContainerFrame DEF Environment, CreatePod, AssignIP,
       UpdateApiPod, DeleteApiPod, ChangePod, ChangePolicy, ChangeNamespace, puVars

(* Every step of resolvePodPolicy keeps ContainerInv. *)
LEMMA ContainerResolve ==
  ASSUME TypeInv, ContainerInv, NEW t \in Threads, Resolve(t)
  PROVE  ContainerInv'
<1>0. /\ job[t] \in Job /\ podCache \in [Pods -> Contexts \cup {None}]
      /\ pc[t] # "idle" /\ UNCHANGED <<live, ctxPod>>
      /\ contextIDByPodName(t) \/ pc[t] \notin {"next", "localPods"}
  BY DEF TypeInv, TypeOK, Resolve, contextIDByPodName, getPod, isNamespaceActive,
     getNamespaceWatcher, getPolicyList, IngressPodRules, EgressPodRules, PodReadFails,
     unchangedByReads
<1>p. "getPod" \in Positions BY DEF Positions
<1>f. ASSUME NEW q, NEW r, Fail(t, q, r) PROVE ContainerInv'
  BY <1>0, <1>f, ContainerFail
<1>g. ASSUME NEW l \in Positions \ {"getPod", "next", "localPods"}, NEW j \in Job,
             Goto(t, l, j),
             j.ctx = job[t].ctx /\ j.pod = job[t].pod, UNCHANGED pu
      PROVE  ContainerInv'
  BY <1>0, <1>g, ContainerGoto
<1>3. CASE contextIDByPodName(t)
  <2>0. \A c \in Contexts : t # Mon(c)
    BY <1>3 DEF contextIDByPodName, ContainerInv
  <2>1. PICK q \in job[t].todo :
          IF podCache[q] # None
          THEN /\ Goto(t, "getPod", [job[t] EXCEPT !.pod = q, !.ctx = podCache[q],
                                                   !.todo = @ \ {q}])
               /\ UNCHANGED <<pu, missed>>
          ELSE Fail(t, q, "unmapped")
    BY <1>3 DEF contextIDByPodName
  <2> DEFINE j == [job[t] EXCEPT !.pod = q, !.ctx = podCache[q], !.todo = @ \ {q}]
  <2>2. j \in Job /\ j.ctx = podCache[q] BY <1>0 DEF Job
  <2>3. CASE podCache[q] # None
    <3>1. Goto(t, "getPod", j) /\ UNCHANGED pu /\ j.ctx # None BY <2>1, <2>2, <2>3
    <3> HIDE DEF j
    <3> QED BY <1>0, <1>p, <2>0, <2>2, <3>1, ContainerGoto
  <2>4. CASE podCache[q] = None
    BY <1>f, <2>1, <2>4
  <2> QED BY <2>3, <2>4
<1>4. CASE ~contextIDByPodName(t)
  <2>1. \/ \E q, r : Fail(t, q, r)
        \/ \E l \in Positions \ {"getPod", "next", "localPods"}, j \in Job :
             Goto(t, l, j) /\ j.ctx = job[t].ctx /\ j.pod = job[t].pod /\ UNCHANGED pu
    BY <1>4, ResolveSteps
  <2> QED BY <1>f, <1>g, <2>1
<1> QED BY <1>3, <1>4

(* ResolvePolicy keeps ContainerInv. *)
LEMMA ContainerResolvePolicy ==
  ASSUME TypeInv, ContainerInv, NEW c \in Contexts, ResolvePolicy(c)
  PROVE  ContainerInv'
<1> DEFINE t == Mon(c)  p == ctxPod[c]
<1>0. /\ t \in Threads /\ job[t] \in Job /\ p \in Pods /\ pc[t] = "resolve"
      /\ UNCHANGED <<live, ctxPod>>
      /\ \A d \in Contexts : t = Mon(d) => d = c
  BY ThreadTypes DEF TypeInv, TypeOK, LocalsSet, ResolvePolicy, Mon
<1>p. {"getPod", "update"} \subseteq Positions \ {"next", "localPods"}
  BY DEF Positions, Reading
<1>1. CASE /\ Goto(t, "update", [job[t] EXCEPT !.pol = notInfraContainerPolicy])
           /\ UNCHANGED <<podCache, pu, missed>>
  <2> DEFINE j == [job[t] EXCEPT !.pol = notInfraContainerPolicy]
  <2>1. j \in Job /\ j.ctx = job[t].ctx /\ j.pod = job[t].pod
    BY <1>0, PolicyTypes DEF Job
  <2>2. Goto(t, "update", j) /\ UNCHANGED pu BY <1>1
  <2> HIDE DEF j
  <2> QED BY <1>0, <1>p, <2>1, <2>2, ContainerGoto
<1>2. CASE Fail(t, None, "resolveFailed") /\ UNCHANGED podCache
  BY <1>0, <1>2, ContainerFail
<1>3. CASE /\ Goto(t, "getPod", [job[t] EXCEPT !.pod = p, !.ctx = c])
           /\ UNCHANGED <<pu, missed>>
  <2> DEFINE j == [job[t] EXCEPT !.pod = p, !.ctx = c]
  <2>1. j \in Job /\ j.ctx = c /\ c # None BY <1>0, ConstantsAssumption DEF Job
  <2>2. Goto(t, "getPod", j) /\ UNCHANGED pu BY <1>3
  <2> HIDE DEF j
  <2> QED BY <1>0, <1>p, <2>1, <2>2, ContainerGoto
<1> QED BY <1>1, <1>2, <1>3 DEF ResolvePolicy

(* The creation of a PU keeps ContainerInv. *)
LEMMA ContainerCreatePU ==
  ASSUME TypeInv, ContainerInv, NEW c \in Contexts, CreatePU(c)
  PROVE  ContainerInv'
<1> DEFINE t == Mon(c)
<1>0. /\ pc \in [Threads -> Positions] /\ t \in Threads /\ pc[t] = "update"
      /\ pu \in [Contexts -> {"new", "creating", "up", "failed", "gone"}]
      /\ live \in [Pods -> Contexts \cup {None}]
      /\ None \notin Contexts
      /\ \A d \in Contexts : Mon(d) \in Threads /\ (t = Mon(d) => d = c)
  BY ConstantsAssumption, ThreadTypes DEF TypeInv, TypeOK, Mon, CreatePU
<1>1. /\ pc' = [pc EXCEPT ![t] = "idle"] /\ job' = Overtake(t, c)
      /\ UNCHANGED <<live, ctxPod>>
      /\ IF Kind[c] = "infra" /\ live[ctxPod[c]] # c
         THEN pu' = [pu EXCEPT ![c] = "gone"] ELSE pu' = [pu EXCEPT ![c] = "up"]
  BY DEF CreatePU
<1>2. \A u \in Threads : IF u = t THEN job'[u].ctx = None /\ job'[u].pod = None
                         ELSE job'[u].ctx = job[u].ctx /\ job'[u].pod = job[u].pod
  BY <1>0, <1>1, OvertakeKeeps, NoJobType DEF TypeInv
<1>3. pu[c] = "creating" BY <1>0 DEF ContainerInv
<1>4. ASSUME NEW q \in Pods, live'[q] # None
      PROVE  /\ ctxPod'[live'[q]] = q /\ Kind[live'[q]] = "infra"
             /\ pu'[live'[q]] \in {"creating", "up", "failed"}
  <2>1. live'[q] = live[q] /\ live[q] \in Contexts BY <1>0, <1>1, <1>4
  <2>2. CASE live[q] = c BY <1>0, <1>1, <1>4, <2>1, <2>2 DEF ContainerInv
  <2>3. CASE live[q] # c BY <1>0, <1>1, <1>4, <2>1, <2>3 DEF ContainerInv
  <2> QED BY <2>2, <2>3
<1>5. ASSUME NEW d \in Contexts
      PROVE  /\ pu'[d] # "new" => ctxPod'[d] \in Pods
             /\ Kind[d] = "infra" /\ pu'[d] = "up" => live'[ctxPod'[d]] = d
             /\ pc'[Mon(d)] # "idle" => pu'[d] = "creating"
             /\ pc'[Mon(d)] \notin {"next", "localPods"}
             /\ \/ job'[Mon(d)].ctx = d
                \/ job'[Mon(d)].ctx = None /\ job'[Mon(d)].pod = None
  <2>1. CASE d = c BY <1>0, <1>1, <1>2, <1>3, <2>1 DEF ContainerInv
  <2>2. CASE d # c
    <3>1. pu'[d] = pu[d] /\ pc'[Mon(d)] = pc[Mon(d)] BY <1>0, <1>1, <2>2
    <3>2. job'[Mon(d)].ctx = job[Mon(d)].ctx /\ job'[Mon(d)].pod = job[Mon(d)].pod
      BY <1>0, <1>2, <2>2
    <3> QED BY <1>1, <3>1, <3>2 DEF ContainerInv
  <2> QED BY <2>1, <2>2
<1>6. \A u \in Threads : pc'[u] = "getPod" => job'[u].ctx # None
  BY <1>0, <1>1, <1>2 DEF ContainerInv
<1> QED BY <1>4, <1>5, <1>6 DEF ContainerInv

(* A policy update keeps ContainerInv. *)
LEMMA ContainerUpdatePolicy ==
  ASSUME TypeInv, ContainerInv, NEW t \in Controllers, UpdatePolicy(t)
  PROVE  ContainerInv'
<1>0. t \in Threads /\ \A d \in Contexts : Mon(d) \in Threads /\ t # Mon(d)
  BY ThreadTypes DEF Threads, Controllers, Mon
<1>1. /\ \A u \in Threads : u # t => pc'[u] = pc[u]
      /\ \A u \in Threads : u # t => job'[u] = Overtake(t, job[t].ctx)[u]
      /\ UNCHANGED <<live, ctxPod, pu>>
  <2>1. DOMAIN Overtake(t, job[t].ctx) = Threads BY DEF Overtake
  <2> QED BY <1>0, <2>1 DEF UpdatePolicy, TypeInv, TypeOK
<1>2. \A d \in Contexts : /\ pc'[Mon(d)] = pc[Mon(d)]
                          /\ job'[Mon(d)].ctx = job[Mon(d)].ctx
                          /\ job'[Mon(d)].pod = job[Mon(d)].pod
  BY <1>0, <1>1, OvertakeKeeps DEF TypeInv
<1>3. pc'[t] # "getPod" BY <1>0 DEF UpdatePolicy, Continue, TypeInv, TypeOK
<1>4. \A u \in Threads : pc'[u] = "getPod" => job'[u].ctx # None
  BY <1>0, <1>1, <1>3, OvertakeKeeps DEF TypeInv, ContainerInv
<1> QED BY <1>1, <1>2, <1>4 DEF ContainerInv

(* The controllers of a watcher keep ContainerInv. *)
LEMMA ContainerControllers ==
  ASSUME TypeInv, ContainerInv, NEW w \in Watchers,
         PodController(w) \/ PolicyController(w)
  PROVE  ContainerInv'
<1>0. /\ PodCtl(w) \in Controllers /\ PolCtl(w) \in Controllers
      /\ Controllers \subseteq Threads
      /\ \A t \in Controllers, c \in Contexts : t # Mon(c)
      /\ pc \in [Threads -> Positions] /\ job \in [Threads -> Job]
  BY DEF Controllers, Threads, PodCtl, PolCtl, Mon, TypeInv, TypeOK
<1>g. ASSUME NEW t \in Controllers, NEW l, NEW j, Goto(t, l, j), l # "getPod",
             UNCHANGED <<live, ctxPod, pu>>
      PROVE  ContainerInv'
  <2>1. \A c \in Contexts : pc'[Mon(c)] = pc[Mon(c)] /\ job'[Mon(c)] = job[Mon(c)]
    BY <1>0, <1>g, ThreadTypes DEF Goto
  <2>2. \A u \in Threads : pc'[u] = "getPod" => job'[u].ctx # None
    BY <1>0, <1>g DEF Goto, ContainerInv
  <2> QED BY <1>g, <2>1, <2>2 DEF ContainerInv
<1>1. ASSUME NEW t \in Controllers, Resolve(t) PROVE ContainerInv'
  BY <1>0, <1>1, ContainerResolve
<1>2. ASSUME NEW t \in Controllers, UpdatePolicy(t) PROVE ContainerInv'
  BY <1>2, ContainerUpdatePolicy
<1>3. ASSUME NEW t \in Controllers, UpdatePolicyFails(t) PROVE ContainerInv'
  BY <1>0, <1>3, ContainerFail DEF UpdatePolicyFails, unchangedByReads
<1>5. ASSUME NEW p \in Pods, addPod(w, p) \/ updatePod(w, p) \/ deletePod(w, p)
      PROVE  ContainerInv'
  <2>1. UNCHANGED <<live, ctxPod, pu>>
    BY <1>5 DEF addPod, updatePod, deletePod, Pop, puVars
  <2>2. Goto(PodCtl(w), "next", [NoJob EXCEPT !.todo = {p}]) \/ UNCHANGED jobVars
    BY <1>5 DEF addPod, updatePod, deletePod
  <2> QED BY <1>0, <1>g, <2>1, <2>2, ContainerFrame
<1>6. ASSUME NEW x \in Policies, \/ addNetworkPolicy(w, x) \/ updateNetworkPolicy(w, x)
                                 \/ deleteNetworkPolicy(w, x)
      PROVE  ContainerInv'
  <2>1. PICK sel, lost : PopPolicy(w, x, sel, lost)
    BY <1>6 DEF addNetworkPolicy, updateNetworkPolicy, deleteNetworkPolicy
  <2> QED BY <1>0, <1>g, <2>1 DEF PopPolicy, puVars
<1>7. ASSUME LocalPods(PolCtl(w)) \/ LocalPodsFails(PolCtl(w))
      PROVE  ContainerInv'
  BY <1>0, <1>g, <1>7 DEF LocalPods, LocalPodsFails, unchangedByReads
<1> QED BY <1>0, <1>1, <1>2, <1>3, <1>5, <1>6, <1>7 DEF PodController, PolicyController

(* Every step keeps ContainerInv. *)
LEMMA ContainerStep ==
  TypeInv /\ OwnPodInv /\ ContainerInv /\ [Next]_vars => ContainerInv'
<1> SUFFICES ASSUME TypeInv, OwnPodInv, ContainerInv, [Next]_vars PROVE ContainerInv'
  OBVIOUS
<1>1. CASE Environment BY <1>1, ContainerEnvironment
<1>2. CASE NamespaceController \/ UNCHANGED vars
  <2>1. UNCHANGED <<jobVars, puVars>>
    BY <1>2 DEF NamespaceController, addNamespace, deleteNamespace, updateNamespace,
       PopNamespace, StartPodController, StartPolicyController,
       activateNamespaceWatcher, vars
  <2> QED BY <2>1, ContainerFrame DEF puVars
<1>3. ASSUME NEW c \in Contexts, Monitor(c) PROVE ContainerInv'
  BY <1>3, ThreadTypes, ContainerResolvePolicy, ContainerResolve, ContainerCreatePU
     DEF Monitor
<1> QED BY <1>1, <1>2, <1>3, ContainerControllers DEF Next

-----------------------------------------------------------------------------
(* The evidence that a pod's policy is fresh or about to be. *)

(* Two jobs that differ at most in whether another policy overtook them.   *)
SameReads(j, k) ==
  /\ j.pod = k.pod /\ j.ctx = k.ctx /\ j.lab = k.lab /\ j.w = k.w
  /\ j.list = k.list /\ j.in = k.in /\ j.pol = k.pol /\ j.todo = k.todo
  /\ j.sel = k.sel /\ j.lost = k.lost /\ j.repairs = k.repairs

(* A step after which the API server and the activation call for the same  *)
(* policy of the pod as before.                                            *)
Steady(p) ==
  /\ api'[p] = api[p] /\ live'[p] = live[p]
  /\ active # None => active' = active /\ Called(p)' = Called(p)

(* What the evidence is about: a running pod without a recorded loss.      *)
Followed(p) == PodsFollowed /\ live[p] # None /\ api[p] # None

(* The rules of a pod are those its policies contribute. *)
LEMMA RulesByContribution ==
  ASSUME NEW L, NEW M, NEW l,
         \A x \in Policies : Contribution(L[x], l) = Contribution(M[x], l)
  PROVE  PodRules(L, l) = PodRules(M, l)
<1>1. ASSUME NEW A, NEW B, NEW r \in PodRules(A, l),
             \A x \in Policies : Contribution(A[x], l) = Contribution(B[x], l)
      PROVE  r \in PodRules(B, l)
  <2>1. PICK x \in Policies : A[x] # None /\ l \in A[x].sel /\ r = <<x, A[x].body>>
    BY <1>1 DEF PodRules
  <2>2. Contribution(B[x], l) = {A[x].body} BY <1>1, <2>1 DEF Contribution
  <2>3. B[x] # None /\ l \in B[x].sel /\ B[x].body = A[x].body
    BY <2>2 DEF Contribution
  <2> QED BY <2>1, <2>3 DEF PodRules
<1> QED BY <1>1

(* Resolutions under way go on serving the pod through a steady step of    *)
(* another goroutine.                                                      *)
LEMMA ServesKept ==
  ASSUME NEW p, NEW t, Serves(t, p), Steady(p), pc'[t] = pc[t],
         SameReads(job'[t], job[t])
  PROVE  Serves(t, p)'
<1>1. Plain(p)' <=> Plain(p) BY DEF Plain, Steady
<1>2. Plain(p) \/ active # None => Target(p)' = Target(p)
  BY <1>1 DEF Target, Steady
<1>3. UpToDate(t, p) => UpToDate(t, p)'
  BY <1>1, <1>2 DEF UpToDate, Steady, SameReads
<1> QED BY <1>3 DEF Serves, Steady, SameReads

(* So does a settled pod stay settled if nothing writes its policy. *)
LEMMA SettledKept ==
  ASSUME NEW p, Settled(p), Steady(p), pu'[live[p]] = pu[live[p]],
         enforced'[live[p]] = enforced[live[p]],
         \A t \in Threads : pc'[t] \in Reading /\ job'[t].ctx = live[p] => job'[t].late
  PROVE  Settled(p)'
<1>1. Plain(p)' <=> Plain(p) BY DEF Plain, Steady
<1>2. Target(p)' = Target(p) BY <1>1 DEF Target, Steady, Settled
<1> QED BY <1>1, <1>2 DEF Settled, Steady

(* A step of one goroutine keeps the pod fresh if it keeps what it stands  *)
(* for, and consumes a delta only to serve the pod.                        *)
LEMMA FreshThread ==
  ASSUME NEW p, NEW t \in Threads, Fresh(p), Steady(p),
         PodsFollowed' => PodsFollowed,
         \A u \in Threads : u # t => /\ pc'[u] = pc[u] /\ SameReads(job'[u], job[u])
                                     /\ job[u].late => job'[u].late,
         live[p] # None => /\ pu'[live[p]] \in {pu[live[p]], "failed"}
                           /\ enforced'[live[p]] = enforced[live[p]],
         Followed(p) /\ missed'[p] = {} =>
           /\ missed[p] = {} \/ Serves(t, p)'
           /\ PodDelta(p) => PodDelta(p)' \/ Serves(t, p)'
           /\ PolicyDelta(p) => PolicyDelta(p)' \/ Serves(t, p)'
           /\ Serves(t, p) =>
                Serves(t, p)' \/ PolicyDelta(p)' \/ pu'[live[p]] = "failed"
           /\ pc'[t] \in Reading /\ job'[t].ctx = live[p] =>
                \/ Serves(t, p)'
                \/ /\ pc[t] \in Reading /\ job[t].ctx = live[p]
                   /\ job[t].late => job'[t].late
  PROVE  Fresh(p)'
<1> SUFFICES ASSUME (PodsFollowed /\ live[p] # None /\ api[p] # None /\ missed[p] = {})',
                    pu'[live[p]] # "failed", ~PodDelta(p)', ~PolicyDelta(p)',
                    \A u \in Threads : ~Serves(u, p)'
             PROVE  Settled(p)'
  BY DEF Fresh, Steady
<1>1. Followed(p) /\ missed'[p] = {} /\ missed[p] = {} BY DEF Steady, Followed
<1>2. pu'[live[p]] = pu[live[p]] /\ enforced'[live[p]] = enforced[live[p]]
  BY <1>1 DEF Followed
<1>3. \A u \in Threads : ~Serves(u, p) BY <1>1, ServesKept
<1>4. Settled(p) BY <1>1, <1>2, <1>3 DEF Fresh, Followed
<1>5. \A u \in Threads : pc'[u] \in Reading /\ job'[u].ctx = live[p] => job'[u].late
  BY <1>1, <1>4 DEF Settled, SameReads
<1> QED BY <1>2, <1>4, <1>5, SettledKept

(* A step that no goroutine takes keeps the pod fresh if it is steady.     *)
LEMMA FreshFrame ==
  ASSUME NEW p, Fresh(p), Steady(p), UNCHANGED jobVars,
         PodsFollowed' => PodsFollowed,
         live[p] # None => /\ pu'[live[p]] = pu[live[p]]
                           /\ enforced'[live[p]] = enforced[live[p]],
         missed'[p] = {} => missed[p] = {},
         Followed(p) /\ PodsFollowed' => /\ PodDelta(p) => PodDelta(p)'
                                         /\ PolicyDelta(p) => PolicyDelta(p)'
  PROVE  Fresh(p)'
<1> SUFFICES ASSUME (PodsFollowed /\ live[p] # None /\ api[p] # None /\ missed[p] = {})',
                    pu'[live[p]] # "failed", ~PodDelta(p)', ~PolicyDelta(p)',
                    \A u \in Threads : ~Serves(u, p)'
             PROVE  Settled(p)'
  BY DEF Fresh, Steady
<1>1. Followed(p) /\ missed[p] = {} BY DEF Steady, Followed
<1>2. \A u \in Threads : ~Serves(u, p) BY ServesKept DEF jobVars, SameReads
<1>3. Settled(p) BY <1>1, <1>2 DEF Fresh, Followed
<1> QED BY <1>1, <1>3, SettledKept DEF Followed, Settled, jobVars

(* Steps that leave the informers and what they follow alone.              *)
LEMMA DeltasKept ==
  ASSUME NEW p, UNCHANGED <<podQ, podStore, polQ, polStore, api, active, nsPc, nsW>>
  PROVE  /\ PodDelta(p)' <=> PodDelta(p)
         /\ PolicyDelta(p)' <=> PolicyDelta(p)
         /\ PodsFollowed' <=> PodsFollowed
BY DEF PodDelta, PolicyDelta, PodsFollowed, PoliciesFollowed, Current

-----------------------------------------------------------------------------
(* resolvePodPolicy, step by step. *)

(* All that the steps below rest on. *)
FreshBase ==
  /\ TypeInv /\ WatcherInv /\ OwnPodInv /\ InformerInv /\ ContainerInv

(* A goroutine at work on the pod's container is at work on the pod, and a *)
(* monitor at work on a pod is at work on its own container.               *)
LEMMA Pairing ==
  ASSUME FreshBase, NEW p \in Pods, NEW t \in Threads
  PROVE  /\ job[t].ctx # None /\ job[t].ctx = live[p] => job[t].pod = p
         /\ job[t].pod # None /\ t \in Monitors => job[t].ctx = t[2] /\ t = Mon(t[2])
         /\ p # None
         /\ t \in Controllers \/ t \in Monitors
<1>1. job[t].ctx # None /\ job[t].ctx = live[p] => job[t].pod = p
  BY DEF FreshBase, OwnPodInv, ContainerInv
<1>2. job[t].pod # None /\ t \in Monitors => job[t].ctx = t[2] /\ t = Mon(t[2])
  BY ThreadTypes DEF FreshBase, ContainerInv
<1> QED BY <1>1, <1>2, ConstantsAssumption DEF Threads

(* A goroutine at a fixed position within its job serves no other pods     *)
(* than those of the job.                                                  *)
LEMMA ServesOnly ==
  ASSUME NEW p, NEW t, Serves(t, p)
  PROVE  /\ pc[t] # "idle"
         /\ pc[t] = "localPods" => /\ t \in Controllers
                                   /\ api[p].lab \in job[t].sel \cup job[t].lost
         /\ pc[t] = "resolve" =>
              t = Mon(live[p]) \/ (t \in Controllers /\ p \in job[t].todo)
         /\ pc[t] = "next" => t \in Controllers /\ p \in job[t].todo
         /\ pc[t] = "getPod" => \/ t \in Controllers /\ p \in job[t].todo
                                \/ /\ job[t].pod = p /\ job[t].ctx # None
                                   /\ t \in Controllers \/ job[t].ctx = live[p]
         /\ pc[t] \in Reading =>
              \/ t \in Controllers /\ p \in job[t].todo
              \/ /\ job[t].pod = p /\ job[t].ctx # None /\ job[t].ctx # live[p]
                 /\ t \in Controllers \/ job[t].repairs # {}
              \/ /\ job[t].pod = p /\ job[t].ctx # None /\ job[t].ctx = live[p]
                 /\ UpToDate(t, p)
BY DEF Serves, UpToDate, Reading

(* A resolution that fails records that it leaves pods unserved. *)
LEMMA FreshFail ==
  ASSUME FreshBase, NEW p \in Pods, Fresh(p), NEW t \in Threads, NEW q, NEW r,
         Fail(t, q, r), pc[t] # "localPods",
         pc[t] \in Reading \cup {"getPod"} => q = job[t].pod,
         UNCHANGED <<apiVars, live, enforced, podQVars, polQVars, nsVars>>
  PROVE  Fresh(p)'
<1>0. /\ pc \in [Threads -> Positions] /\ job \in [Threads -> Job]
      /\ pu \in [Contexts -> {"new", "creating", "up", "failed", "gone"}]
      /\ missed \in [Pods -> SUBSET Reasons]
      /\ live[p] \in Contexts \cup {None}
      /\ job[t].repairs \in SUBSET Reasons
      /\ None \notin Contexts
  BY ConstantsAssumption DEF FreshBase, TypeInv, TypeOK, Job
<1>1. Goto(t, "idle", NoJob) BY DEF Fail
<1>2. Steady(p) BY DEF Steady, apiVars, nsVars, Called
<1>3. /\ PodDelta(p)' <=> PodDelta(p)
      /\ PolicyDelta(p)' <=> PolicyDelta(p)
      /\ PodsFollowed' <=> PodsFollowed
  BY DeltasKept DEF apiVars, podQVars, polQVars, nsVars
<1>4. /\ pc'[t] = "idle"
      /\ \A u \in Threads : u # t => pc'[u] = pc[u] /\ job'[u] = job[u]
  BY <1>0, <1>1 DEF Goto
<1>5. live[p] # None => /\ pu'[live[p]] \in {pu[live[p]], "failed"}
                        /\ enforced'[live[p]] = enforced[live[p]]
  BY <1>0 DEF Fail
<1>6. missed'[p] = {} => missed[p] = {} BY <1>0 DEF Fail, Flags
<1>7. ASSUME Serves(t, p), missed'[p] = {}, live[p] # None PROVE pu'[live[p]] = "failed"
  <2>1. CASE t \in Monitors
    <3>0. missed' = Flags(q, job[t].repairs) /\ pu' = [pu EXCEPT ![t[2]] = "failed"]
      BY <2>1 DEF Fail
    <3>1. p = q => job[t].repairs = {} BY <1>0, <1>7, <3>0 DEF Flags
    <3>2. t \notin Controllers /\ t[2] \in Contexts /\ t = Mon(t[2])
      BY <2>1 DEF Monitors, Controllers, Mon
    <3>3. CASE pc[t] = "resolve"
      <4>1. t = Mon(live[p]) BY <1>7, <3>2, <3>3, ServesOnly
      <4>2. t[2] = live[p] BY <4>1 DEF Mon
      <4> QED BY <1>0, <3>0, <3>2, <4>2
    <3>4. CASE pc[t] # "resolve"
      <4>1. pc[t] \in Reading \cup {"getPod"}
        BY <1>0, <1>7, <3>2, <3>4, ServesOnly DEF Positions
      <4>2. job[t].pod = p /\ job[t].ctx # None BY <1>7, <3>2, <4>1, ServesOnly
      <4>3. job[t].ctx = live[p] BY <1>7, <3>1, <3>2, <4>1, <4>2, ServesOnly
      <4>4. job[t].ctx = t[2] BY <2>1, <4>2, Pairing
      <4> QED BY <1>0, <3>0, <3>2, <4>3, <4>4
    <3> QED BY <3>3, <3>4
  <2>2. CASE t \notin Monitors
    <3>1. /\ p = q => missed'[p] # {}
          /\ p \in job[t].todo => missed'[p] # {}
      BY <2>2 DEF Fail
    <3>2. pc[t] \in {"resolve", "next", "getPod"} \cup Reading
      BY <1>0, <1>7, ServesOnly DEF Positions
    <3>3. CASE pc[t] = "resolve"
      <4>1. t = Mon(live[p]) => t \in Monitors BY <1>0, <1>7 DEF Mon, Monitors
      <4> QED BY <1>7, <2>2, <3>1, <3>3, <4>1, ServesOnly
    <3>4. CASE pc[t] = "next" BY <1>7, <3>1, <3>4, ServesOnly
    <3>5. CASE pc[t] \in Reading \cup {"getPod"} BY <1>7, <3>1, <3>5, ServesOnly
    <3> QED BY <3>2, <3>3, <3>4, <3>5
  <2> QED BY <2>1, <2>2
<1>8. /\ pc'[t] \notin Reading
      /\ \A u \in Threads : u # t => /\ pc'[u] = pc[u] /\ SameReads(job'[u], job[u])
                                     /\ job[u].late => job'[u].late
  BY <1>4 DEF Reading, SameReads
<1>9. Followed(p) => live[p] # None BY DEF Followed
<1> QED BY <1>2, <1>3, <1>5, <1>6, <1>7, <1>8, <1>9, FreshThread

(* A resolution that moves on within its reads stays up to date unless a   *)
(* delta is on its way.                                                    *)
LEMMA FreshMove ==
  ASSUME FreshBase, NEW p \in Pods, Fresh(p), NEW t \in Threads, NEW l \in Reading,
         NEW j \in Job, Goto(t, l, j), pc[t] \in Reading,
         j.pod = job[t].pod, j.ctx = job[t].ctx, j.todo = job[t].todo,
         j.repairs = job[t].repairs, j.late = job[t].late,
         missed'[p] = {} => missed[p] = {},
         Followed(p) /\ missed'[p] = {} /\ job[t].pod = p /\ UpToDate(t, p) =>
           UpToDate(t, p)' \/ PolicyDelta(p),
         UNCHANGED <<apiVars, live, enforced, pu, podQVars, polQVars, nsVars>>
  PROVE  Fresh(p)'
<1>0. pc \in [Threads -> Positions] /\ job \in [Threads -> Job]
  BY DEF FreshBase, TypeInv, TypeOK
<1>1. Steady(p) BY DEF Steady, apiVars, nsVars, Called
<1>2. /\ PodDelta(p)' <=> PodDelta(p)
      /\ PolicyDelta(p)' <=> PolicyDelta(p)
      /\ PodsFollowed' <=> PodsFollowed
  BY DeltasKept DEF apiVars, podQVars, polQVars, nsVars
<1>3. /\ pc'[t] = l /\ job'[t] = j
      /\ \A u \in Threads : u # t => pc'[u] = pc[u] /\ job'[u] = job[u]
  BY <1>0 DEF Goto
<1>4. ASSUME Serves(t, p), Followed(p), missed'[p] = {}
      PROVE  Serves(t, p)' \/ PolicyDelta(p)
  <2>1. CASE t \in Controllers /\ p \in job[t].todo
    BY <1>3, <2>1 DEF Serves, Reading
  <2>2. CASE /\ job[t].pod = p /\ job[t].ctx # None /\ job[t].ctx # live[p]
             /\ t \in Controllers \/ job[t].repairs # {}
    BY <1>3, <2>2 DEF Serves
  <2>3. CASE /\ job[t].pod = p /\ job[t].ctx # None /\ job[t].ctx = live[p]
             /\ UpToDate(t, p)
    BY <1>3, <1>4, <2>3 DEF Serves
  <2> QED BY <1>4, <2>1, <2>2, <2>3, ServesOnly
<1>5. \A u \in Threads : u # t => /\ pc'[u] = pc[u] /\ SameReads(job'[u], job[u])
                                  /\ job[u].late => job'[u].late
  BY <1>3 DEF SameReads
<1> QED BY <1>1, <1>2, <1>3, <1>4, <1>5, FreshThread

(* A store that no delta will change holds the pod's policies. *)
LEMMA StoreComplete ==
  ASSUME FreshBase, NEW p \in Pods, PoliciesFollowed, ~PolicyDelta(p)
  PROVE  PodRules(polStore[Current], api[p].lab) = Called(p)
<1> DEFINE l == api[p].lab
<1>1. ASSUME NEW x \in Policies
      PROVE  Contribution(polStore[Current][x], l) = Contribution(pols[x], l)
  <2> DEFINE q == polQ[Current][x]
  <2>1. q \in Seq(PolObj \cup {None})
    BY CurrentFollows DEF FreshBase, TypeInv, TypeOK
  <2>2. Upcoming(polStore[Current][x], q) = pols[x] BY DEF FreshBase, InformerInv
  <2>3. CASE q = <<>> BY <2>2, <2>3 DEF Upcoming
  <2>4. CASE q # <<>>
    <3>1. Len(q) \in 1..Len(q) BY <2>1, <2>4, PopEntries
    <3>2. q[Len(q)] = pols[x] BY <2>2, <2>4 DEF Upcoming
    <3> QED BY <3>1, <3>2 DEF PolicyDelta
  <2> QED BY <2>3, <2>4
<1> QED BY <1>1, RulesByContribution DEF Called

(* What the reads of a resolution leave alone. *)
LEMMA ReadsLeave ==
  ASSUME UNCHANGED unchangedByReads
  PROVE  /\ UNCHANGED <<apiVars, live, enforced, podQVars, polQVars, nsVars>>
         /\ UNCHANGED <<podQ, podStore, polQ, polStore, api, pols, active, nsPc, nsW>>
BY DEF unchangedByReads, apiVars, podQVars, polQVars, nsVars

(* The first read of the pod starts a resolution that is up to date.       *)
LEMMA FreshGetPod ==
  ASSUME FreshBase, NEW p \in Pods, Fresh(p), NEW t \in Threads, getPod(t)
  PROVE  Fresh(p)'
<1> DEFINE q == job[t].pod
           read == [job[t] EXCEPT !.repairs = missed[q]]
           j == IF Plain(q) THEN [read EXCEPT !.pol = notInfraContainerPolicy]
                ELSE [read EXCEPT !.lab = api[q].lab]
           l == IF Plain(q) THEN "update" ELSE "nsActive"
<1>0. /\ pc \in [Threads -> Positions] /\ job \in [Threads -> Job]
      /\ missed \in [Pods -> SUBSET Reasons] /\ job[t] \in Job /\ q \in Pods
      /\ pc[t] = "getPod" /\ job[t].ctx # None
  BY DEF FreshBase, TypeInv, TypeOK, LocalsSet, getPod, ContainerInv
<1>1. /\ Goto(t, l, j) /\ missed' = [missed EXCEPT ![q] = {}]
      /\ UNCHANGED unchangedByReads /\ UNCHANGED pu
  BY DEF getPod, Plain
<1>2. /\ j.pod = q /\ j.ctx = job[t].ctx /\ j.todo = job[t].todo
      /\ j.repairs = missed[q]
      /\ Plain(q) => j.pol = notInfraContainerPolicy
      /\ ~Plain(q) => j.lab = api[q].lab
  BY <1>0 DEF Job
<1>3. l \in Reading /\ (l = "update" <=> Plain(q)) /\ (l = "nsActive" <=> ~Plain(q))
  BY DEF Reading
<1> HIDE DEF j, l
<1>4. /\ pc'[t] = l /\ job'[t] = j
      /\ \A u \in Threads : u # t => pc'[u] = pc[u] /\ job'[u] = job[u]
  BY <1>0, <1>1 DEF Goto
<1>5. Steady(p) BY <1>1, ReadsLeave DEF Steady, apiVars, Called
<1>6. /\ PodDelta(p)' <=> PodDelta(p)
      /\ PolicyDelta(p)' <=> PolicyDelta(p)
      /\ PodsFollowed' <=> PodsFollowed
  BY <1>1, ReadsLeave, DeltasKept
<1>7. ASSUME q = p, job[t].ctx = live[p] PROVE Serves(t, p)'
  <2>1. UpToDate(t, p)'
    <3>1. Plain(p)' <=> Plain(p) BY <1>5 DEF Plain, Steady
    <3>2. CASE Plain(p) BY <1>2, <1>3, <1>4, <1>7, <3>1, <3>2 DEF UpToDate, Target
    <3>3. CASE ~Plain(p)
      BY <1>2, <1>3, <1>4, <1>5, <1>7, <3>1, <3>3 DEF UpToDate, Steady
    <3> QED BY <3>2, <3>3
  <2> QED BY <1>0, <1>2, <1>4, <1>5, <1>7, <2>1 DEF Serves, Steady
<1>8. ASSUME q = p, job[t].ctx # live[p], t \in Controllers \/ missed[p] # {}
      PROVE  Serves(t, p)'
  BY <1>0, <1>2, <1>3, <1>4, <1>5, <1>8 DEF Serves, Steady
<1>9. ASSUME Followed(p), missed'[p] = {} PROVE missed[p] = {} \/ Serves(t, p)'
  BY <1>0, <1>1, <1>7, <1>8, <1>9
<1>10. ASSUME Serves(t, p) PROVE Serves(t, p)'
  <2>1. CASE t \in Controllers /\ p \in job[t].todo
    BY <1>2, <1>3, <1>4, <2>1 DEF Serves, Reading
  <2>2. CASE q = p /\ (t \in Controllers \/ job[t].ctx = live[p])
    BY <1>7, <1>8, <2>2
  <2> QED BY <1>0, <1>10, <2>1, <2>2, ServesOnly
<1>11. ASSUME pc'[t] \in Reading, job'[t].ctx = live[p] PROVE Serves(t, p)'
  <2>1. job[t].ctx = live[p] BY <1>2, <1>4, <1>11
  <2>2. q = p BY <1>0, <2>1, Pairing
  <2> QED BY <1>7, <2>1, <2>2
<1>12. \A u \in Threads : u # t => /\ pc'[u] = pc[u] /\ SameReads(job'[u], job[u])
                                   /\ job[u].late => job'[u].late
  BY <1>4 DEF SameReads
<1>13. pu' = pu /\ enforced' = enforced BY <1>1, ReadsLeave
<1> QED BY <1>5, <1>6, <1>9, <1>10, <1>11, <1>12, <1>13, FreshThread

(* An inactive namespace is noticed, and is no loss unless the activation  *)
(* is about to complete.                                                   *)
LEMMA FreshNsActive ==
  ASSUME FreshBase, NEW p \in Pods, Fresh(p), NEW t \in Threads, isNamespaceActive(t)
  PROVE  Fresh(p)'
<1>0. /\ job[t] \in Job /\ pc[t] = "nsActive" /\ pc[t] \in Reading
      /\ missed \in [Pods -> SUBSET Reasons]
      /\ UNCHANGED unchangedByReads /\ UNCHANGED pu
      /\ {"update", "getWatcher"} \subseteq Reading
  BY DEF FreshBase, TypeInv, TypeOK, isNamespaceActive, Reading
<1>1. CASE active = None
  <2> DEFINE j == [job[t] EXCEPT !.pol = allowAllPolicy(job[t].lab)]
  <2>1. allowAllPolicy(job[t].lab) \in Policy BY <1>0, PolicyTypes DEF Job
  <2>2. /\ j \in Job /\ j.pod = job[t].pod /\ j.ctx = job[t].ctx
        /\ j.todo = job[t].todo /\ j.repairs = job[t].repairs /\ j.late = job[t].late
    BY <1>0, <2>1 DEF Job
  <2>3. /\ Goto(t, "update", j)
        /\ missed' = IF nsPc \in {"startPolicies", "activate"}
                     THEN Flag({job[t].pod}, "preActivation") ELSE missed
    BY <1>1 DEF isNamespaceActive
  <2> HIDE DEF j
  <2>4. missed'[p] = {} => missed[p] = {} BY <1>0, <2>3 DEF Flag
  <2>5. Followed(p) /\ job[t].pod = p => missed'[p] # {}
    BY <1>0, <1>1, <2>3 DEF Followed, PodsFollowed, Flag
  <2> QED BY <1>0, <2>2, <2>3, <2>4, <2>5, ReadsLeave, FreshMove
<1>2. CASE active # None
  <2>1. Goto(t, "getWatcher", job[t]) /\ missed' = missed
    BY <1>2 DEF isNamespaceActive
  <2>2. pc'[t] = "getWatcher" /\ job'[t] = job[t]
    BY <2>1 DEF Goto, FreshBase, TypeInv, TypeOK
  <2>3. UpToDate(t, p) => UpToDate(t, p)'
    BY <1>0, <2>2, ReadsLeave DEF UpToDate, Plain
  <2> QED BY <1>0, <2>1, <2>3, ReadsLeave, FreshMove
<1> QED BY <1>1, <1>2

(* The watcher is looked up. *)
LEMMA FreshGetWatcher ==
  ASSUME FreshBase, NEW p \in Pods, Fresh(p), NEW t \in Threads, getNamespaceWatcher(t)
  PROVE  Fresh(p)'
<1> DEFINE j == [job[t] EXCEPT !.w = active]
<1>0. /\ job[t] \in Job /\ pc[t] = "getWatcher" /\ pc[t] \in Reading
      /\ active \in Watchers \cup {None} /\ "listPolicies" \in Reading
      /\ UNCHANGED unchangedByReads
  BY DEF FreshBase, TypeInv, TypeOK, getNamespaceWatcher, Reading
<1>1. CASE active # None
  <2>1. Goto(t, "listPolicies", j) /\ UNCHANGED <<pu, missed>>
    BY <1>1 DEF getNamespaceWatcher
  <2>2. /\ j \in Job /\ j.pod = job[t].pod /\ j.ctx = job[t].ctx /\ j.lab = job[t].lab
        /\ j.todo = job[t].todo /\ j.repairs = job[t].repairs /\ j.late = job[t].late
        /\ j.w = active
    BY <1>0 DEF Job
  <2> HIDE DEF j
  <2>3. pc'[t] = "listPolicies" /\ job'[t] = j
    BY <2>1 DEF Goto, FreshBase, TypeInv, TypeOK
  <2>4. UpToDate(t, p) => UpToDate(t, p)'
    BY <1>0, <1>1, <2>2, <2>3, ReadsLeave DEF UpToDate, Plain
  <2> QED BY <1>0, <2>1, <2>2, <2>4, ReadsLeave, FreshMove
<1>2. CASE active = None
  <2>1. Fail(t, job[t].pod, "resolveFailed") BY <1>2 DEF getNamespaceWatcher
  <2> QED BY <1>0, <2>1, ReadsLeave, FreshFail
<1> QED BY <1>1, <1>2

(* The list of policies is complete unless a delta is on its way.          *)
LEMMA FreshGetList ==
  ASSUME FreshBase, NEW p \in Pods, Fresh(p), NEW t \in Threads, getPolicyList(t)
  PROVE  Fresh(p)'
<1> DEFINE j == [job[t] EXCEPT !.list = polStore[job[t].w]]
<1>0. /\ job[t] \in Job /\ pc[t] = "listPolicies" /\ pc[t] \in Reading
      /\ polStore[job[t].w] \in PolicyMap /\ "ingress" \in Reading
      /\ UNCHANGED unchangedByReads /\ UNCHANGED <<pu, missed>> /\ Goto(t, "ingress", j)
  BY DEF FreshBase, TypeInv, TypeOK, LocalsSet, getPolicyList, Reading
<1>1. /\ j \in Job /\ j.pod = job[t].pod /\ j.ctx = job[t].ctx /\ j.lab = job[t].lab
      /\ j.todo = job[t].todo /\ j.repairs = job[t].repairs /\ j.late = job[t].late
      /\ j.list = polStore[job[t].w]
  BY <1>0 DEF Job
<1> HIDE DEF j
<1>2. pc'[t] = "ingress" /\ job'[t] = j
  BY <1>0 DEF Goto, FreshBase, TypeInv, TypeOK
<1>3. ASSUME UpToDate(t, p) PROVE UpToDate(t, p)' \/ PolicyDelta(p)
  <2>1. /\ active # None /\ job[t].w = active /\ ~Plain(p) /\ job[t].lab = api[p].lab
    BY <1>0, <1>3 DEF UpToDate
  <2>2. PoliciesFollowed /\ Current = active BY <2>1 DEF PoliciesFollowed, Current
  <2>3. ~PolicyDelta(p) => PodRules(j.list, api[p].lab) = Called(p)
    BY <1>1, <2>1, <2>2, StoreComplete
  <2>4. Called(p)' = Called(p) /\ (Plain(p)' <=> Plain(p))
    BY <1>0, ReadsLeave DEF Called, Plain
  <2> QED BY <1>0, <1>1, <1>2, <2>1, <2>3, <2>4, ReadsLeave DEF UpToDate
<1> QED BY <1>0, <1>1, <1>3, ReadsLeave, FreshMove

(* The ingress rules are those of the labels the pod has now. *)
LEMMA FreshIngress ==
  ASSUME FreshBase, NEW p \in Pods, Fresh(p), NEW t \in Threads, IngressPodRules(t)
  PROVE  Fresh(p)'
<1> DEFINE rules == PodRules(job[t].list, api[job[t].pod].lab)
           j == [job[t] EXCEPT !.in = rules]
<1>0. /\ job[t] \in Job /\ pc[t] = "ingress" /\ pc[t] \in Reading
      /\ rules \in SUBSET Rule /\ "egress" \in Reading
      /\ UNCHANGED unchangedByReads /\ UNCHANGED <<pu, missed>> /\ Goto(t, "egress", j)
  BY PodRulesType DEF FreshBase, TypeInv, TypeOK, Job, IngressPodRules, Reading
<1>1. /\ j \in Job /\ j.pod = job[t].pod /\ j.ctx = job[t].ctx /\ j.lab = job[t].lab
      /\ j.todo = job[t].todo /\ j.repairs = job[t].repairs /\ j.late = job[t].late
      /\ j.list = job[t].list /\ j.in = rules
  BY <1>0 DEF Job
<1> HIDE DEF j
<1>2. pc'[t] = "egress" /\ job'[t] = j
  BY <1>0 DEF Goto, FreshBase, TypeInv, TypeOK
<1>3. ASSUME UpToDate(t, p), job[t].pod = p PROVE UpToDate(t, p)'
  <2>1. /\ active # None /\ ~Plain(p) /\ job[t].lab = api[p].lab
        /\ PodRules(job[t].list, api[p].lab) = Called(p)
    BY <1>0, <1>3 DEF UpToDate
  <2>2. Called(p)' = Called(p) /\ (Plain(p)' <=> Plain(p))
    BY <1>0, ReadsLeave DEF Called, Plain
  <2> QED BY <1>0, <1>1, <1>2, <1>3, <2>1, <2>2, ReadsLeave DEF UpToDate
<1> QED BY <1>0, <1>1, <1>3, ReadsLeave, FreshMove

(* The policy generated at the end is the one called for. *)
LEMMA FreshEgress ==
  ASSUME FreshBase, NEW p \in Pods, Fresh(p), NEW t \in Threads, EgressPodRules(t)
  PROVE  Fresh(p)'
<1> DEFINE rules == PodRules(job[t].list, api[job[t].pod].lab)
           eg == IF EgressPolicies THEN rules ELSE {}
           pol == generatePUPolicy(job[t].lab, job[t].in, eg)
           j == [job[t] EXCEPT !.pol = pol]
<1>0. /\ job[t] \in Job /\ pc[t] = "egress" /\ pc[t] \in Reading
      /\ rules \in SUBSET Rule /\ "update" \in Reading
      /\ UNCHANGED unchangedByReads
      /\ job[t].lab \in Labels /\ job[t].in \in SUBSET Rule
  BY PodRulesType DEF FreshBase, TypeInv, TypeOK, Job, EgressPodRules, Reading
<1>1. CASE Goto(t, "update", j) /\ UNCHANGED <<pu, missed>>
  <2>0. pol \in Policy
    <3>1. eg \in SUBSET Rule BY <1>0
    <3> HIDE DEF eg
    <3> QED BY <1>0, <3>1, PolicyTypes
  <2>1. /\ j \in Job /\ j.pod = job[t].pod /\ j.ctx = job[t].ctx
        /\ j.todo = job[t].todo /\ j.repairs = job[t].repairs /\ j.late = job[t].late
        /\ j.pol = pol
    <3> HIDE DEF pol
    <3> QED BY <1>0, <2>0 DEF Job
  <2>g. Goto(t, "update", j) BY <1>1
  <2> HIDE DEF j
  <2>2. pc'[t] = "update" /\ job'[t] = j
    BY <2>g DEF Goto, FreshBase, TypeInv, TypeOK
  <2>3. ASSUME UpToDate(t, p), job[t].pod = p PROVE UpToDate(t, p)'
    <3>1. /\ active # None /\ ~Plain(p) /\ job[t].lab = api[p].lab
          /\ rules = Called(p) /\ job[t].in = Called(p)
      BY <1>0, <2>3 DEF UpToDate
    <3>2. pol = Target(p) BY <3>1 DEF Target
    <3>3. Target(p)' = Target(p) /\ active' = active
      BY <1>0, ReadsLeave DEF Target, Called, Plain
    <3> HIDE DEF pol
    <3> QED BY <2>1, <2>2, <3>1, <3>2, <3>3 DEF UpToDate
  <2> QED BY <1>0, <1>1, <2>g, <2>1, <2>3, ReadsLeave, FreshMove
<1>2. CASE Fail(t, job[t].pod, "resolveFailed")
  BY <1>0, <1>2, ReadsLeave, FreshFail
<1> QED BY <1>1, <1>2 DEF EgressPodRules

(* A handler that finds the container goes on to resolve the pod; one that *)
(* does not records the pods it leaves.                                    *)
LEMMA FreshNext ==
  ASSUME FreshBase, NEW p \in Pods, Fresh(p), NEW t \in Threads, contextIDByPodName(t)
  PROVE  Fresh(p)'
<1>0. /\ pc \in [Threads -> Positions] /\ job \in [Threads -> Job] /\ job[t] \in Job
      /\ pc[t] = "next" /\ pc[t] \notin Reading \cup {"getPod"}
      /\ UNCHANGED <<apiVars, live, enforced, podQVars, polQVars, nsVars>>
  BY DEF FreshBase, TypeInv, TypeOK, contextIDByPodName, Reading
<1>1. t \in Controllers
  <2>1. \A c \in Contexts : t # Mon(c) BY <1>0 DEF FreshBase, ContainerInv
  <2> QED BY <2>1, ThreadTypes DEF Threads
<1>2. PICK q \in job[t].todo :
        IF podCache[q] # None
        THEN /\ Goto(t, "getPod", [job[t] EXCEPT !.pod = q, !.ctx = podCache[q],
                                                 !.todo = @ \ {q}])
             /\ UNCHANGED <<pu, missed>>
        ELSE Fail(t, q, "unmapped")
  BY DEF contextIDByPodName
<1>3. CASE podCache[q] # None
  <2> DEFINE j == [job[t] EXCEPT !.pod = q, !.ctx = podCache[q], !.todo = @ \ {q}]
  <2>1. j.pod = q /\ j.ctx = podCache[q] /\ j.todo = job[t].todo \ {q}
    BY <1>0 DEF Job
  <2>2. Goto(t, "getPod", j) /\ UNCHANGED <<pu, missed>> BY <1>2, <1>3
  <2> HIDE DEF j
  <2>3. /\ pc'[t] = "getPod" /\ job'[t] = j
        /\ \A u \in Threads : u # t => pc'[u] = pc[u] /\ job'[u] = job[u]
    BY <1>0, <2>2 DEF Goto
  <2>4. Steady(p) BY <1>0 DEF Steady, apiVars, nsVars, Called
  <2>5. /\ PodDelta(p)' <=> PodDelta(p)
        /\ PolicyDelta(p)' <=> PolicyDelta(p)
        /\ PodsFollowed' <=> PodsFollowed
    BY <1>0, DeltasKept DEF apiVars, podQVars, polQVars, nsVars
  <2>6. Serves(t, p) => Serves(t, p)'
    <3>1. Serves(t, p) => p \in job[t].todo BY <1>0, ServesOnly
    <3>2. p = q => Serves(t, p)' BY <1>1, <1>3, <2>1, <2>3 DEF Serves
    <3>3. p # q /\ p \in job[t].todo => Serves(t, p)'
      BY <1>1, <2>1, <2>3 DEF Serves
    <3> QED BY <3>1, <3>2, <3>3
  <2>7. /\ pc'[t] \notin Reading
        /\ \A u \in Threads : u # t => /\ pc'[u] = pc[u] /\ SameReads(job'[u], job[u])
                                       /\ job[u].late => job'[u].late
    BY <2>3 DEF SameReads, Reading
  <2> QED BY <1>0, <2>2, <2>4, <2>5, <2>6, <2>7, FreshThread
<1>4. CASE podCache[q] = None
  <2>1. Fail(t, q, "unmapped") BY <1>2, <1>4
  <2> QED BY <1>0, <2>1, FreshFail
<1> QED BY <1>3, <1>4

(* Every step of resolvePodPolicy keeps the pods fresh. *)
LEMMA FreshResolve ==
  ASSUME FreshBase, NEW p \in Pods, Fresh(p), NEW t \in Threads, Resolve(t)
  PROVE  Fresh(p)'
<1>1. ASSUME PodReadFails(t) PROVE Fresh(p)'
  <2>1. /\ Fail(t, job[t].pod, "resolveFailed") /\ pc[t] # "localPods"
        /\ UNCHANGED unchangedByReads
    BY <1>1 DEF PodReadFails
  <2> QED BY <2>1, ReadsLeave, FreshFail
<1> QED BY <1>1, FreshNext, FreshGetPod, FreshNsActive, FreshGetWatcher, FreshGetList,
       FreshIngress, FreshEgress DEF Resolve

(* ResolvePolicy keeps the pods fresh: only an infra container is policed. *)
LEMMA FreshResolvePolicy ==
  ASSUME FreshBase, NEW p \in Pods, Fresh(p), NEW c \in Contexts, ResolvePolicy(c)
  PROVE  Fresh(p)'
<1> DEFINE t == Mon(c)  q == ctxPod[c]
<1>0. /\ t \in Threads /\ job[t] \in Job /\ pc[t] = "resolve"
      /\ pc \in [Threads -> Positions] /\ job \in [Threads -> Job]
      /\ UNCHANGED <<apiVars, live, enforced, podQVars, polQVars, nsVars>>
      /\ t \notin Controllers /\ None \notin Contexts
      /\ live[p] \in Contexts \cup {None}
      /\ t = Mon(live[p]) => live[p] = c
      /\ live[p] = c => q = p /\ Kind[c] = "infra"
      /\ job[t].ctx \in {c, None}
  BY ThreadTypes, ConstantsAssumption
     DEF FreshBase, TypeInv, TypeOK, ContainerInv, ResolvePolicy, Mon, Controllers
<1>1. Steady(p) BY <1>0 DEF Steady, apiVars, nsVars, Called
<1>2. /\ PodDelta(p)' <=> PodDelta(p)
      /\ PolicyDelta(p)' <=> PolicyDelta(p)
      /\ PodsFollowed' <=> PodsFollowed
  BY <1>0, DeltasKept DEF apiVars, podQVars, polQVars, nsVars
<1>3. Serves(t, p) => live[p] = c BY <1>0, ServesOnly
<1>g. ASSUME NEW l, NEW j, Goto(t, l, j), UNCHANGED <<pu, missed>>,
             live[p] = c => Serves(t, p)',
             l \notin Reading \/ (j.ctx \in {c, None} /\ live[p] # c)
      PROVE  Fresh(p)'
  <2>1. /\ pc'[t] = l /\ job'[t] = j
        /\ \A u \in Threads : u # t => pc'[u] = pc[u] /\ job'[u] = job[u]
    BY <1>0, <1>g DEF Goto
  <2>2. \A u \in Threads : u # t => /\ pc'[u] = pc[u] /\ SameReads(job'[u], job[u])
                                    /\ job[u].late => job'[u].late
    BY <2>1 DEF SameReads
  <2>3. Followed(p) => ~(pc'[t] \in Reading /\ job'[t].ctx = live[p])
    BY <1>0, <1>g, <2>1 DEF Followed
  <2> QED BY <1>0, <1>1, <1>2, <1>3, <1>g, <2>2, <2>3, FreshThread
<1>4. CASE /\ Kind[c] = "app"
           /\ Goto(t, "update", [job[t] EXCEPT !.pol = notInfraContainerPolicy])
           /\ UNCHANGED <<pu, missed>>
  <2> DEFINE j == [job[t] EXCEPT !.pol = notInfraContainerPolicy]
  <2>1. j.ctx = job[t].ctx BY <1>0 DEF Job
  <2>2. Goto(t, "update", j) BY <1>4
  <2> HIDE DEF j
  <2> QED BY <1>0, <1>4, <1>g, <2>1, <2>2
<1>5. CASE Fail(t, None, "resolveFailed")
  BY <1>0, <1>5, FreshFail DEF Reading
<1>6. CASE /\ Goto(t, "getPod", [job[t] EXCEPT !.pod = q, !.ctx = c])
           /\ UNCHANGED <<pu, missed>>
  <2> DEFINE j == [job[t] EXCEPT !.pod = q, !.ctx = c]
  <2>1. j.pod = q /\ j.ctx = c BY <1>0 DEF Job
  <2>2. Goto(t, "getPod", j) BY <1>6
  <2> HIDE DEF j
  <2>3. pc'[t] = "getPod" /\ job'[t] = j BY <1>0, <2>2 DEF Goto
  <2>4. live[p] = c => Serves(t, p)' BY <1>0, <2>1, <2>3 DEF Serves
  <2>5. "getPod" \notin Reading BY DEF Reading
  <2> QED BY <1>6, <1>g, <2>2, <2>4, <2>5
<1> QED BY <1>4, <1>5, <1>6 DEF ResolvePolicy, tags

-----------------------------------------------------------------------------
(* Policies that are written. *)

(* Another goroutine's job keeps what it read when a policy is written; if *)
(* it works on the same container it is marked late.                       *)
LEMMA OvertakeReads ==
  ASSUME TypeOK, NEW t \in Threads, NEW c, NEW u \in Threads, u # t
  PROVE  /\ SameReads(Overtake(t, c)[u], job[u])
         /\ job[u].late => Overtake(t, c)[u].late
         /\ job[u].ctx = c /\ pc[u] \in Reading => Overtake(t, c)[u].late
<1>1. job[u] \in Job BY DEF TypeOK
<1>2. /\ SameReads([job[u] EXCEPT !.late = TRUE], job[u])
      /\ [job[u] EXCEPT !.late = TRUE].late
  BY <1>1 DEF SameReads, Job
<1>3. Overtake(t, c)[u] = IF job[u].ctx = c /\ pc[u] \in Reading
                           THEN [job[u] EXCEPT !.late = TRUE] ELSE job[u]
  BY DEF Overtake
<1>4. CASE job[u].ctx = c /\ pc[u] \in Reading BY <1>2, <1>3, <1>4
<1>5. CASE ~(job[u].ctx = c /\ pc[u] \in Reading) BY <1>3, <1>5 DEF SameReads
<1> QED BY <1>4, <1>5

(* An up-to-date policy that is written settles the pod: no resolution     *)
(* that is still under way can take it back without recording so.          *)
LEMMA FreshWrite ==
  ASSUME NEW p, NEW t \in Threads, Fresh(p), Steady(p),
         pc[t] = "update", pc'[t] \notin Reading,
         pu[live[p]] # "failed", pu'[live[p]] = "up",
         enforced'[live[p]] = job[t].pol,
         \A u \in Threads : u # t =>
            /\ pc'[u] = pc[u] /\ SameReads(job'[u], job[u])
            /\ job[u].ctx = live[p] /\ pc[u] \in Reading => job'[u].late,
         missed'[p] = {} => missed[p] = {},
         PodsFollowed' <=> PodsFollowed,
         PodDelta(p)' <=> PodDelta(p),
         PolicyDelta(p)' <=> PolicyDelta(p),
         Followed(p) /\ missed'[p] = {} /\ Serves(t, p) =>
           Serves(t, p)' \/ UpToDate(t, p),
         missed'[p] = {} => ~Settled(p)
  PROVE  Fresh(p)'
<1> SUFFICES ASSUME (PodsFollowed /\ live[p] # None /\ api[p] # None /\ missed[p] = {})',
                    ~PodDelta(p)', ~PolicyDelta(p)', \A u \in Threads : ~Serves(u, p)'
             PROVE  Settled(p)'
  BY DEF Fresh
<1>1. Followed(p) /\ missed[p] = {} BY DEF Steady, Followed
<1>2. \A u \in Threads : u # t => ~Serves(u, p) BY ServesKept
<1>3. UpToDate(t, p) BY <1>1, <1>2 DEF Fresh, Followed
<1>4. (Plain(p) \/ active # None) /\ job[t].pol = Target(p) BY <1>3 DEF UpToDate
<1>5. Plain(p)' <=> Plain(p) BY DEF Plain, Steady
<1>6. Target(p)' = Target(p) BY <1>4, <1>5 DEF Target, Steady
<1>7. \A u \in Threads : pc'[u] \in Reading /\ job'[u].ctx = live[p] => job'[u].late
  BY DEF SameReads
<1> QED BY <1>4, <1>5, <1>6, <1>7 DEF Settled, Steady

(* UpdatePolicy settles its pod, or what it wrote is older than what was   *)
(* written meanwhile, and it records so.                                   *)
LEMMA FreshUpdatePolicy ==
  ASSUME FreshBase, NEW p \in Pods, Fresh(p), NEW t \in Controllers, UpdatePolicy(t)
  PROVE  Fresh(p)'
<1> DEFINE c == job[t].ctx
<1>0. /\ t \in Threads /\ pc \in [Threads -> Positions] /\ job \in [Threads -> Job]
      /\ enforced \in [Contexts -> Policy] /\ missed \in [Pods -> SUBSET Reasons]
      /\ live[p] \in Contexts \cup {None} /\ job[t].todo \in SUBSET Pods
      /\ pc[t] = "update" /\ pu[c] = "up" /\ pu' = pu
      /\ enforced' = [enforced EXCEPT ![c] = job[t].pol]
      /\ pc' = [pc EXCEPT ![t] = Continue(t)]
      /\ job' = [Overtake(t, c) EXCEPT ![t].todo = job[t].todo]
      /\ missed' = Enforced(t)
      /\ UNCHANGED <<apiVars, live, podQVars, polQVars, nsVars>>
      /\ job[t].ctx \in Contexts \cup {None} /\ None \notin Contexts
  BY ConstantsAssumption DEF Threads, FreshBase, TypeInv, TypeOK, Job, UpdatePolicy
<1>1. Steady(p) BY <1>0 DEF Steady, apiVars, nsVars, Called
<1>2. /\ PodDelta(p)' <=> PodDelta(p)
      /\ PolicyDelta(p)' <=> PolicyDelta(p)
      /\ PodsFollowed' <=> PodsFollowed
  BY <1>0, DeltasKept DEF apiVars, podQVars, polQVars, nsVars
<1>3. /\ pc'[t] = Continue(t) /\ pc'[t] \notin Reading
      /\ job[t].todo # {} => pc'[t] = "next" /\ job'[t].todo = job[t].todo
  <2>1. Overtake(t, c)[t] = NoJob /\ DOMAIN Overtake(t, c) = Threads
    BY <1>0 DEF Overtake
  <2>2. job'[t] = [NoJob EXCEPT !.todo = job[t].todo] BY <1>0, <2>1
  <2>3. job'[t].todo = job[t].todo BY <2>2, NoJobType DEF Job
  <2> QED BY <1>0, <2>3 DEF Continue, Reading
<1>4. \A u \in Threads : u # t =>
         /\ pc'[u] = pc[u] /\ SameReads(job'[u], job[u])
         /\ job[u].late => job'[u].late
         /\ job[u].ctx = c /\ pc[u] \in Reading => job'[u].late
  <2>1. \A u \in Threads : u # t => pc'[u] = pc[u] /\ job'[u] = Overtake(t, c)[u]
    BY <1>0 DEF Overtake
  <2> QED BY <1>0, <2>1, OvertakeReads DEF FreshBase, TypeInv
<1>5. missed'[p] = {} => missed[p] = {} BY <1>0 DEF Enforced, Flag
<1>6. p \in job[t].todo => Serves(t, p)' BY <1>3 DEF Serves
<1>7. CASE live[p] # None /\ c = live[p]
  <2>1. job[t].pod = p BY <1>7, <1>0, Pairing
  <2>2. job[t].late => missed'[p] # {} BY <1>0, <2>1 DEF Enforced, Flag
  <2>3. missed'[p] = {} => ~Settled(p) BY <1>0, <1>7, <2>2 DEF Settled, Reading
  <2>4. Serves(t, p) => Serves(t, p)' \/ UpToDate(t, p)
    BY <1>0, <1>6, <1>7, ServesOnly DEF Reading
  <2>5. enforced'[live[p]] = job[t].pol BY <1>0, <1>7
  <2> QED BY <1>0, <1>1, <1>2, <1>3, <1>4, <1>5, <1>7, <2>3, <2>4, <2>5, FreshWrite
<1>8. CASE live[p] # None /\ c # live[p]
  <2>1. ASSUME Serves(t, p) PROVE Serves(t, p)'
    <3>1. CASE p \in job[t].todo BY <1>6, <3>1
    <3>2. CASE job[t].pod = p /\ c # None
      <4>1. ctxPod[c] = p /\ Kind[c] = "infra"
        BY <1>0, <3>2 DEF FreshBase, OwnPodInv
      <4>2. live[p] = c BY <1>0, <3>2, <4>1 DEF FreshBase, ContainerInv
      <4> QED BY <1>8, <4>2
    <3> QED BY <1>0, <2>1, <3>1, <3>2, ServesOnly DEF Reading
  <2>2. enforced'[live[p]] = enforced[live[p]] BY <1>0, <1>8
  <2> QED BY <1>0, <1>1, <1>2, <1>3, <1>4, <1>5, <2>1, <2>2, FreshThread
<1>9. CASE live[p] = None
  BY <1>0, <1>9 DEF Fresh
<1> QED BY <1>7, <1>8, <1>9

(* The creation of a PU settles its pod, or records the losses the         *)
(* resolution was to make up for if the container was replaced meanwhile.  *)
LEMMA FreshCreatePU ==
  ASSUME FreshBase, NEW p \in Pods, Fresh(p), NEW c \in Contexts, CreatePU(c)
  PROVE  Fresh(p)'
<1> DEFINE t == Mon(c)
<1>0. /\ t \in Threads /\ t \in Monitors /\ t \notin Controllers
      /\ pc \in [Threads -> Positions] /\ job \in [Threads -> Job]
      /\ pu \in [Contexts -> {"new", "creating", "up", "failed", "gone"}]
      /\ enforced \in [Contexts -> Policy] /\ missed \in [Pods -> SUBSET Reasons]
      /\ live[p] \in Contexts \cup {None}
      /\ pc[t] = "update" /\ pu[c] = "creating"
      /\ pc' = [pc EXCEPT ![t] = "idle"] /\ job' = Overtake(t, c)
      /\ UNCHANGED <<apiVars, live, podQVars, polQVars, nsVars>>
      /\ job[t].ctx = c \/ (job[t].ctx = None /\ job[t].pod = None)
      /\ None \notin Contexts /\ p # None
  BY ThreadTypes, ConstantsAssumption
     DEF FreshBase, TypeInv, TypeOK, ContainerInv, CreatePU, Mon, Monitors, Controllers
<1>1. Steady(p) BY <1>0 DEF Steady, apiVars, nsVars, Called
<1>2. /\ PodDelta(p)' <=> PodDelta(p)
      /\ PolicyDelta(p)' <=> PolicyDelta(p)
      /\ PodsFollowed' <=> PodsFollowed
  BY <1>0, DeltasKept DEF apiVars, podQVars, polQVars, nsVars
<1>3. pc'[t] = "idle" /\ pc'[t] \notin Reading BY <1>0 DEF Reading
<1>4. \A u \in Threads : u # t =>
         /\ pc'[u] = pc[u] /\ SameReads(job'[u], job[u])
         /\ job[u].late => job'[u].late
         /\ job[u].ctx = c /\ pc[u] \in Reading => job'[u].late
  BY <1>0, OvertakeReads DEF FreshBase, TypeInv
<1>5. Serves(t, p) /\ live[p] # None =>
        /\ job[t].pod = p /\ job[t].ctx = c
        /\ live[p] # c => job[t].repairs # {}
        /\ live[p] = c => UpToDate(t, p)
  BY <1>0, ServesOnly DEF Reading
<1>6. CASE Kind[c] = "infra" /\ live[ctxPod[c]] # c
  <2>1. /\ pu' = [pu EXCEPT ![c] = "gone"] /\ enforced' = enforced
        /\ missed' = Flags(job[t].pod, job[t].repairs)
    BY <1>6 DEF CreatePU
  <2>2. live[p] # None => live[p] # c BY <1>6 DEF FreshBase, ContainerInv
  <2>3. missed'[p] = {} => missed[p] = {} BY <1>0, <2>1 DEF Flags
  <2>4. live[p] # None /\ missed'[p] = {} => ~Serves(t, p)
    BY <1>0, <1>5, <2>1, <2>2 DEF Flags
  <2>5. live[p] # None => pu'[live[p]] = pu[live[p]] BY <1>0, <2>1, <2>2
  <2> QED BY <1>0, <1>1, <1>2, <1>3, <1>4, <2>1, <2>3, <2>4, <2>5, FreshThread
       DEF Followed
<1>7. CASE ~(Kind[c] = "infra" /\ live[ctxPod[c]] # c)
  <2>1. /\ pu' = [pu EXCEPT ![c] = "up"]
        /\ enforced' = [enforced EXCEPT ![c] = job[t].pol] /\ missed' = Enforced(t)
    BY <1>7 DEF CreatePU
  <2>2. missed'[p] = {} => missed[p] = {} BY <1>0, <2>1 DEF Enforced, Flag
  <2>3. CASE live[p] = c
    <3>1. pu[live[p]] # "failed" /\ pu'[live[p]] = "up" /\ ~Settled(p)
          /\ enforced'[live[p]] = job[t].pol
      BY <1>0, <2>1, <2>3 DEF Settled
    <3>2. Serves(t, p) => UpToDate(t, p) BY <1>0, <1>5, <2>3
    <3> QED BY <1>0, <1>1, <1>2, <1>3, <1>4, <2>2, <2>3, <3>1, <3>2, FreshWrite
  <2>4. CASE live[p] # None /\ live[p] # c
    <3>1. ~Serves(t, p)
      <4>1. Serves(t, p) => ctxPod[c] = p /\ Kind[c] = "infra"
        BY <1>0, <1>5, <2>4 DEF FreshBase, OwnPodInv
      <4> QED BY <1>7, <2>4, <4>1
    <3>2. pu'[live[p]] = pu[live[p]] /\ enforced'[live[p]] = enforced[live[p]]
      BY <1>0, <2>1, <2>4
    <3> QED BY <1>0, <1>1, <1>2, <1>3, <1>4, <2>2, <3>1, <3>2, FreshThread
  <2>5. CASE live[p] = None BY <1>0, <2>5 DEF Fresh
  <2> QED BY <2>3, <2>4, <2>5
<1> QED BY <1>6, <1>7

-----------------------------------------------------------------------------
(* Deltas that are handled. *)

(* A pod delta is consumed only for a new object; the others leave one     *)
(* that is still to come.                                                  *)
LEMMA PodDeltaPop ==
  ASSUME FreshBase, NEW w \in Watchers, NEW q \in Pods, Pop(w, q), NEW p \in Pods,
         Followed(p), PodDelta(p)
  PROVE  \/ PodDelta(p)'
         \/ p = q /\ podStore'[w][p] = Head(podQ[w][p])
            /\ podStore'[w][p] \notin {podStore[w][p], None}
<1>0. /\ podQ \in [Watchers -> [Pods -> Seq(PodObj \cup {None})]]
      /\ podStore \in [Watchers -> [Pods -> PodObj \cup {None}]]
      /\ Current \in Watchers /\ Current' = Current
      /\ podQ[w][q] # <<>>
      /\ podStore' = [podStore EXCEPT ![w][q] = Head(podQ[w][q])]
      /\ podQ' = [podQ EXCEPT ![w][q] = Tail(@)]
  BY CurrentFollows DEF FreshBase, TypeInv, TypeOK, Pop, Followed, nsVars, Current
<1>1. CASE ~(w = Current /\ p = q)
  <2>1. podQ'[Current][p] = podQ[Current][p] /\ podStore'[Current][p] = podStore[Current][p]
    BY <1>0, <1>1
  <2> QED BY <1>0, <2>1 DEF PodDelta
<1>2. CASE w = Current /\ p = q
  <2> DEFINE Q == podQ[w][p]  s == podStore[w][p]
  <2>0. Q \in Seq(PodObj \cup {None}) /\ Q # <<>> BY <1>0, <1>2
  <2>1. podStore'[w][p] = Head(Q) /\ podQ'[w][p] = Tail(Q) BY <1>0, <1>2
  <2>2. Upcoming(s, Q) = api[p] /\ api[p] # None
    BY <1>2 DEF FreshBase, InformerInv, Followed
  <2>3. PICK i \in 1..Len(Q) : Q[i] # s BY <1>2 DEF PodDelta
  <2> HIDE DEF Q, s
  <2>4. CASE Head(Q) = s
    <3>1. i - 1 \in 1..Len(Tail(Q)) /\ Tail(Q)[i - 1] = Q[i]
      BY <2>0, <2>3, <2>4, PopEntries
    <3>2. /\ i - 1 \in 1..Len(podQ'[Current'][p])
          /\ podQ'[Current'][p][i - 1] # podStore'[Current'][p]
      BY <1>0, <1>2, <2>1, <2>3, <2>4, <3>1
    <3> QED BY <3>2 DEF PodDelta
  <2>5. CASE Head(Q) = None
    <3>1. Upcoming(Head(Q), Tail(Q)) = api[p] BY <2>0, <2>2, UpcomingPop
    <3>2. Tail(Q) # <<>> /\ Tail(Q)[Len(Tail(Q))] # Head(Q)
      BY <2>2, <2>5, <3>1 DEF Upcoming
    <3>3. Len(Tail(Q)) \in 1..Len(Tail(Q)) BY <2>0, <3>2, PopEntries
    <3> QED BY <1>0, <1>2, <2>1, <3>2, <3>3 DEF PodDelta
  <2>6. CASE Head(Q) \notin {s, None} BY <1>2, <2>1, <2>6 DEF Q, s
  <2> QED BY <2>4, <2>5, <2>6
<1> QED BY <1>1, <1>2

(* The pod handlers resolve every pod whose object changed. *)
LEMMA FreshPodHandlers ==
  ASSUME FreshBase, NEW p \in Pods, Fresh(p), NEW w \in Watchers, NEW q \in Pods,
         addPod(w, q) \/ updatePod(w, q) \/ deletePod(w, q)
  PROVE  Fresh(p)'
<1> DEFINE t == PodCtl(w)  j == [NoJob EXCEPT !.todo = {q}]
<1>0. /\ t \in Threads /\ t \in Controllers /\ pc[t] = "idle"
      /\ pc \in [Threads -> Positions] /\ job \in [Threads -> Job]
      /\ podStore[w][q] \in PodObj \cup {None} /\ podQ[w][q] \in Seq(PodObj \cup {None})
      /\ podQ[w][q] # <<>>
      /\ UNCHANGED <<apiVars, live, pu, enforced, missed, polQVars, nsVars>>
      /\ Goto(t, "next", j) \/ UNCHANGED jobVars
      /\ Pop(w, q)
  BY ThreadTypes DEF FreshBase, TypeInv, TypeOK, addPod, updatePod, deletePod, Pop, puVars,
     Controllers, PodCtl
<1>1. /\ pc'[t] \in {"next", "idle"} /\ pc'[t] \notin Reading
      /\ \A u \in Threads : u # t => pc'[u] = pc[u] /\ job'[u] = job[u]
  BY <1>0 DEF Goto, Reading, jobVars
<1>2. Steady(p) BY <1>0 DEF Steady, apiVars, nsVars, Called
<1>3. (PolicyDelta(p)' <=> PolicyDelta(p)) /\ (PodsFollowed' <=> PodsFollowed)
  BY <1>0 DEF PolicyDelta, PodsFollowed, PoliciesFollowed, Current, apiVars, polQVars, nsVars
<1>4. ~Serves(t, p) BY <1>0, ServesOnly
<1>5. ASSUME Goto(t, "next", j) PROVE Serves(t, q)'
  <2>1. j.todo = {q} BY NoJobType DEF Job
  <2>2. pc'[t] = "next" /\ job'[t] = j BY <1>0, <1>5 DEF Goto
  <2> HIDE DEF j
  <2> QED BY <1>0, <2>1, <2>2 DEF Serves
<1>6. ASSUME podStore'[w][q] = Head(podQ[w][q]),
             podStore'[w][q] \notin {podStore[w][q], None}
      PROVE  Serves(t, q)'
  <2>1. CASE addPod(w, q) BY <1>5, <2>1 DEF addPod
  <2>2. CASE updatePod(w, q)
    <3>1. podStore'[w][q] \in PodObj /\ podStore[w][q] \in PodObj
      BY <1>0, <1>6, <2>2 DEF updatePod
    <3>2. isPolicyUpdateNeeded(podStore[w][q], podStore'[w][q])
      BY <1>6, <3>1 DEF isPolicyUpdateNeeded, PodObj
    <3> QED BY <1>5, <2>2, <3>2 DEF updatePod
  <2>3. CASE deletePod(w, q) BY <1>6, <2>3 DEF deletePod
  <2> QED BY <2>1, <2>2, <2>3
<1>7. Followed(p) /\ PodDelta(p) => PodDelta(p)' \/ Serves(t, p)'
  BY <1>0, <1>6, PodDeltaPop
<1>8. \A u \in Threads : u # t => /\ pc'[u] = pc[u] /\ SameReads(job'[u], job[u])
                                  /\ job[u].late => job'[u].late
  BY <1>1 DEF SameReads
<1> QED BY <1>0, <1>1, <1>2, <1>3, <1>4, <1>7, <1>8, FreshThread

(* A policy delta is consumed only to look for the pods it concerns.       *)
LEMMA PolicyDeltaPop ==
  ASSUME FreshBase, NEW w \in Watchers, NEW x \in Policies, polQ[w][x] # <<>>,
         NEW sel, NEW lost, PopPolicy(w, x, sel, lost),
         NEW p \in Pods, PolicyDelta(p)
  PROVE  \/ PolicyDelta(p)'
         \/ Contribution(Head(polQ[w][x]), api[p].lab)
              # Contribution(polStore[w][x], api[p].lab)
<1> DEFINE l == api[p].lab
<1>0. /\ polQ \in [Watchers -> [Policies -> Seq(PolObj \cup {None})]]
      /\ polStore \in [Watchers -> [Policies -> PolObj \cup {None}]]
      /\ PoliciesFollowed /\ PoliciesFollowed' /\ Current \in Watchers
      /\ Current' = Current /\ api' = api
      /\ polStore' = [polStore EXCEPT ![w][x] = Head(polQ[w][x])]
      /\ polQ' = [polQ EXCEPT ![w][x] = Tail(@)]
  BY CurrentFollows DEF FreshBase, TypeInv, TypeOK, PolicyMap, PopPolicy, PolicyDelta,
     nsVars, apiVars, Current, PoliciesFollowed
<1>1. PICK y \in Policies : \E i \in 1..Len(polQ[Current][y]) :
         Contribution(polQ[Current][y][i], l) # Contribution(polStore[Current][y], l)
  BY DEF PolicyDelta
<1>2. CASE ~(w = Current /\ y = x)
  <2>1. polQ'[Current][y] = polQ[Current][y] /\ polStore'[Current][y] = polStore[Current][y]
    BY <1>0, <1>2
  <2>2. \E i \in 1..Len(polQ'[Current'][y]) :
           Contribution(polQ'[Current'][y][i], api'[p].lab)
             # Contribution(polStore'[Current'][y], api'[p].lab)
    BY <1>0, <1>1, <2>1
  <2> QED BY <1>0, <2>2 DEF PolicyDelta
<1>3. CASE w = Current /\ y = x
  <2> DEFINE Q == polQ[w][x]  s == polStore[w][x]
  <2>0. Q \in Seq(PolObj \cup {None}) /\ Q # <<>> BY <1>0
  <2>1. polStore'[w][x] = Head(Q) /\ polQ'[w][x] = Tail(Q) BY <1>0
  <2>2. PICK i \in 1..Len(Q) : Contribution(Q[i], l) # Contribution(s, l)
    BY <1>1, <1>3
  <2> SUFFICES ASSUME Contribution(Head(Q), l) = Contribution(s, l)
               PROVE  PolicyDelta(p)'
    OBVIOUS
  <2> HIDE DEF Q, s
  <2>3. i - 1 \in 1..Len(Tail(Q)) /\ Tail(Q)[i - 1] = Q[i]
    <3>1. i # 1 BY <2>0, <2>2, PopEntries
    <3> QED BY <2>0, <2>2, <3>1, PopEntries
  <2>4. Contribution(Tail(Q)[i - 1], l) # Contribution(Head(Q), l) BY <2>2, <2>3
  <2>5. /\ i - 1 \in 1..Len(polQ'[Current'][x])
        /\ Contribution(polQ'[Current'][x][i - 1], api'[p].lab)
             # Contribution(polStore'[Current'][x], api'[p].lab)
    BY <1>0, <1>3, <2>1, <2>3, <2>4
  <2> QED BY <1>0, <2>5 DEF PolicyDelta
<1> QED BY <1>2, <1>3

(* The policy handlers look for every pod whose rules changed. *)
LEMMA FreshPolicyHandlers ==
  ASSUME FreshBase, NEW p \in Pods, Fresh(p), NEW w \in Watchers, NEW x \in Policies,
         \/ addNetworkPolicy(w, x) \/ updateNetworkPolicy(w, x)
         \/ deleteNetworkPolicy(w, x)
  PROVE  Fresh(p)'
<1> DEFINE t == PolCtl(w)  l == api[p].lab  h == Head(polQ[w][x])  s == polStore[w][x]
<1>1. PICK sel, lost : /\ PopPolicy(w, x, sel, lost) /\ polQ[w][x] # <<>>
                       /\ Contribution(h, l) # Contribution(s, l) => l \in sel \cup lost
  <2>1. CASE addNetworkPolicy(w, x)
    BY <2>1 DEF addNetworkPolicy, Contribution
  <2>2. CASE updateNetworkPolicy(w, x)
    BY <2>2 DEF updateNetworkPolicy, Contribution
  <2>3. CASE deleteNetworkPolicy(w, x)
    BY <2>3 DEF deleteNetworkPolicy, Contribution
  <2> QED BY <2>1, <2>2, <2>3
<1> DEFINE j == [NoJob EXCEPT !.sel = sel, !.lost = lost]
<1>0. /\ t \in Threads /\ t \in Controllers /\ pc[t] = "idle"
      /\ pc \in [Threads -> Positions] /\ job \in [Threads -> Job]
      /\ UNCHANGED <<apiVars, live, pu, enforced, missed, podQVars, nsVars>>
      /\ Goto(t, "localPods", j)
  BY <1>1, ThreadTypes DEF FreshBase, TypeInv, TypeOK, PopPolicy, puVars, Controllers, PolCtl
<1>2. j.sel = sel /\ j.lost = lost BY DEF NoJob
<1> HIDE DEF j
<1>3. /\ pc'[t] = "localPods" /\ pc'[t] \notin Reading /\ job'[t] = j
      /\ \A u \in Threads : u # t => pc'[u] = pc[u] /\ job'[u] = job[u]
  BY <1>0 DEF Goto, Reading
<1>4. Steady(p) BY <1>0 DEF Steady, apiVars, nsVars, Called
<1>5. (PodDelta(p)' <=> PodDelta(p)) /\ (PodsFollowed' <=> PodsFollowed)
  BY <1>0 DEF PodDelta, PodsFollowed, Current, podQVars, nsVars
<1>6. ~Serves(t, p) BY <1>0, ServesOnly
<1>7. l \in sel \cup lost => Serves(t, p)'
  BY <1>0, <1>2, <1>3 DEF Serves, apiVars
<1>8. PolicyDelta(p) => PolicyDelta(p)' \/ Serves(t, p)'
  BY <1>1, <1>7, PolicyDeltaPop
<1>9. \A u \in Threads : u # t => /\ pc'[u] = pc[u] /\ SameReads(job'[u], job[u])
                                  /\ job[u].late => job'[u].late
  BY <1>3 DEF SameReads
<1> QED BY <1>0, <1>3, <1>4, <1>5, <1>6, <1>8, <1>9, FreshThread

(* The pods found are resolved; those that are not found are recorded.     *)
LEMMA FreshLocalPods ==
  ASSUME FreshBase, NEW p \in Pods, Fresh(p), NEW t \in Controllers,
         LocalPods(t) \/ LocalPodsFails(t)
  PROVE  Fresh(p)'
<1> DEFINE S == Selected(job[t].sel)  j == [NoJob EXCEPT !.todo = S]
<1>0. /\ t \in Threads /\ pc[t] = "localPods"
      /\ pc \in [Threads -> Positions] /\ job \in [Threads -> Job]
      /\ missed \in [Pods -> SUBSET Reasons]
      /\ UNCHANGED unchangedByReads /\ UNCHANGED pu
  BY DEF FreshBase, TypeInv, TypeOK, Threads, LocalPods, LocalPodsFails
<1>1. Steady(p) BY <1>0, ReadsLeave DEF Steady, apiVars, Called
<1>2. /\ PodDelta(p)' <=> PodDelta(p)
      /\ PolicyDelta(p)' <=> PolicyDelta(p)
      /\ PodsFollowed' <=> PodsFollowed
  BY <1>0, ReadsLeave, DeltasKept
<1>3. Serves(t, p) => api[p].lab \in job[t].sel \cup job[t].lost
  BY <1>0, ServesOnly
<1>4. \E l \in {"idle", "next"} : \E k : Goto(t, l, k)
  BY DEF LocalPods, LocalPodsFails
<1>5. /\ pc'[t] \notin Reading
      /\ \A u \in Threads : u # t => pc'[u] = pc[u] /\ job'[u] = job[u]
  BY <1>0, <1>4 DEF Goto, Reading
<1>6. missed'[p] = {} => missed[p] = {}
  BY <1>0 DEF LocalPods, LocalPodsFails, Flag
<1>7. ASSUME Serves(t, p), api[p] # None, missed'[p] = {}
      PROVE  Serves(t, p)'
  <2>1. CASE LocalPods(t)
    <3>1. p \notin Selected(job[t].lost) BY <1>0, <1>7, <2>1 DEF LocalPods, Flag
    <3>2. p \in S BY <1>3, <1>7, <3>1 DEF Selected
    <3>3. j.todo = S BY DEF NoJob
    <3>4. Goto(t, "next", j) BY <2>1, <3>2 DEF LocalPods
    <3> HIDE DEF j, S
    <3>5. pc'[t] = "next" /\ job'[t] = j BY <1>0, <3>4 DEF Goto
    <3> QED BY <3>2, <3>3, <3>5 DEF Serves
  <2>2. CASE LocalPodsFails(t)
    <3>1. p \in Selected(job[t].sel \cup job[t].lost) BY <1>3, <1>7 DEF Selected
    <3>2. missed'[p] # {} BY <1>0, <2>2, <3>1 DEF LocalPodsFails, Flag
    <3> QED BY <1>7, <3>2
  <2> QED BY <2>1, <2>2
<1>8. \A u \in Threads : u # t => /\ pc'[u] = pc[u] /\ SameReads(job'[u], job[u])
                                  /\ job[u].late => job'[u].late
  BY <1>5 DEF SameReads
<1>9. enforced' = enforced BY <1>0, ReadsLeave
<1> QED BY <1>0, <1>1, <1>2, <1>5, <1>6, <1>7, <1>8, <1>9, FreshThread DEF Followed

(* The controllers of a watcher keep the pods fresh. *)
LEMMA FreshControllers ==
  ASSUME FreshBase, NEW p \in Pods, Fresh(p), NEW w \in Watchers,
         PodController(w) \/ PolicyController(w)
  PROVE  Fresh(p)'
<1>0. /\ PodCtl(w) \in Controllers /\ PolCtl(w) \in Controllers
      /\ Controllers \subseteq Threads
  BY DEF Controllers, Threads, PodCtl, PolCtl
<1>1. ASSUME NEW t \in Controllers, UpdatePolicyFails(t) PROVE Fresh(p)'
  <2>1. /\ Fail(t, job[t].pod, "resolveFailed") /\ pc[t] = "update"
        /\ UNCHANGED unchangedByReads
    BY <1>1 DEF UpdatePolicyFails
  <2> QED BY <1>0, <2>1, ReadsLeave, FreshFail
<1> QED BY <1>0, <1>1, FreshResolve, FreshUpdatePolicy, FreshPodHandlers,
       FreshPolicyHandlers, FreshLocalPods DEF PodController, PolicyController

-----------------------------------------------------------------------------
(* Changes of the cluster. *)

(* The entries of a queue that got a new delta. *)
LEMMA AppendEntries ==
  ASSUME NEW V, NEW q \in Seq(V), NEW v \in V
  PROVE  /\ Len(q) \in Nat /\ Len(Append(q, v)) = Len(q) + 1
         /\ Append(q, v)[Len(q) + 1] = v
         /\ \A i \in 1..Len(q) : Append(q, v)[i] = q[i]
OBVIOUS

(* A change of a pod leaves a delta for the pod, and those of the others.  *)
LEMMA FreshChangePod ==
  ASSUME FreshBase, NEW p \in Pods, Fresh(p), NEW q \in Pods,
         NEW v \in PodObj \cup {None}, ChangePod(q, v)
  PROVE  Fresh(p)'
<1>0. /\ podQ \in [Watchers -> [Pods -> Seq(PodObj \cup {None})]]
      /\ podStore \in [Watchers -> [Pods -> PodObj \cup {None}]]
      /\ api \in [Pods -> PodObj \cup {None}]
      /\ api' = [api EXCEPT ![q] = v] /\ podQ' = Push(podQ, "pod", q, v)
      /\ UNCHANGED <<pols, live, pu, enforced, podStore, polQVars, nsVars, jobVars, missed>>
      /\ Current' = Current /\ (PodsFollowed' <=> PodsFollowed)
      /\ (PoliciesFollowed' <=> PoliciesFollowed) /\ active' = active
  BY DEF FreshBase, TypeInv, TypeOK, ChangePod, puVars, nsVars, Current, PodsFollowed,
     PoliciesFollowed
<1>1. PodsFollowed => Current \in Watchers /\ "pod" \in fed[Current]
  BY CurrentFollows DEF FreshBase
<1>2. PodsFollowed => podQ'[Current][p] = IF p = q THEN Append(podQ[Current][p], v)
                                          ELSE podQ[Current][p]
  BY <1>0, <1>1 DEF Push
<1>3. PodsFollowed => podQ[Current][p] \in Seq(PodObj \cup {None})
  BY <1>0, <1>1
<1>4. CASE p # q \/ v = api[p]
  <2>1. api'[p] = api[p] BY <1>0, <1>4
  <2>2. Steady(p) BY <1>0, <2>1 DEF Steady, Called
  <2>3. PolicyDelta(p)' <=> PolicyDelta(p) BY <1>0, <2>1 DEF PolicyDelta, polQVars
  <2>4. ASSUME Followed(p), PodDelta(p) PROVE PodDelta(p)'
    <3>1. PICK i \in 1..Len(podQ[Current][p]) : podQ[Current][p][i] # podStore[Current][p]
      BY <2>4 DEF PodDelta
    <3>2. i \in 1..Len(podQ'[Current][p]) /\ podQ'[Current][p][i] = podQ[Current][p][i]
      <4>1. CASE p = q
        BY <1>2, <1>3, <2>4, <3>1, <4>1, AppendEntries DEF Followed
      <4>2. CASE p # q BY <1>2, <2>4, <3>1, <4>2 DEF Followed
      <4> QED BY <4>1, <4>2
    <3>3. i \in 1..Len(podQ'[Current'][p]) /\ podQ'[Current'][p][i] # podStore'[Current'][p]
      BY <1>0, <3>1, <3>2
    <3> QED BY <3>3 DEF PodDelta
  <2> QED BY <1>0, <2>2, <2>3, <2>4, FreshFrame
<1>5. CASE p = q /\ v # api[p]
  <2> SUFFICES ASSUME PodsFollowed PROVE PodDelta(p)'
    BY <1>0 DEF Fresh
  <2> DEFINE Q == podQ[Current][p]  s == podStore[Current][p]
  <2>1. Upcoming(s, Q) = api[p] BY DEF FreshBase, InformerInv
  <2>2. Q \in Seq(PodObj \cup {None}) /\ podQ'[Current][p] = Append(Q, v)
    BY <1>2, <1>3, <1>5
  <2> HIDE DEF Q, s
  <2>3. \E i \in 1..Len(Append(Q, v)) : Append(Q, v)[i] # s
    <3>1. CASE v # s BY <2>2, <3>1, AppendEntries
    <3>2. CASE v = s
      <4>1. Q # <<>> /\ Q[Len(Q)] # s BY <1>5, <2>1, <3>2 DEF Upcoming
      <4>2. Len(Q) \in 1..Len(Q) BY <2>2, <4>1, PopEntries
      <4> QED BY <2>2, <4>1, <4>2, AppendEntries
    <3> QED BY <3>1, <3>2
  <2>4. \E i \in 1..Len(podQ'[Current'][p]) : podQ'[Current'][p][i] # podStore'[Current'][p]
    BY <1>0, <2>2, <2>3 DEF s
  <2> QED BY <2>4 DEF PodDelta
<1> QED BY <1>4, <1>5

(* A change of a policy leaves a delta unless it leaves the pod's rules.   *)
LEMMA FreshChangePolicy ==
  ASSUME FreshBase, NEW p \in Pods, Fresh(p), NEW x \in Policies, ChangePolicy(x)
  PROVE  Fresh(p)'
<1> DEFINE l == api[p].lab
<1>1. PICK v \in PolObj \cup {None} :
        pols' = [pols EXCEPT ![x] = v] /\ polQ' = Push(polQ, "pol", x, v)
  BY DEF ChangePolicy
<1>0. /\ polQ \in [Watchers -> [Policies -> Seq(PolObj \cup {None})]]
      /\ polStore \in [Watchers -> [Policies -> PolObj \cup {None}]]
      /\ pols \in [Policies -> PolObj \cup {None}]
      /\ UNCHANGED <<api, live, pu, enforced, podQVars, polStore, nsVars, jobVars, missed>>
      /\ Current' = Current /\ (PodsFollowed' <=> PodsFollowed)
      /\ (PoliciesFollowed' <=> PoliciesFollowed) /\ active' = active
  BY DEF FreshBase, TypeInv, TypeOK, PolicyMap, ChangePolicy, puVars, nsVars, Current,
     PodsFollowed, PoliciesFollowed
<1>2. PoliciesFollowed => Current \in Watchers /\ "pol" \in fed[Current]
  BY CurrentFollows DEF FreshBase
<1>3. \A y \in Policies : PoliciesFollowed =>
         /\ polQ'[Current][y] = IF y = x THEN Append(polQ[Current][y], v)
                                ELSE polQ[Current][y]
         /\ polQ[Current][y] \in Seq(PolObj \cup {None})
  BY <1>0, <1>1, <1>2 DEF Push
<1>4. PodDelta(p)' <=> PodDelta(p) BY <1>0 DEF PodDelta, podQVars
<1>5. CASE Contribution(v, l) = Contribution(pols[x], l) \/ ~PoliciesFollowed
  <2>1. Steady(p)
    <3>1. CASE ~PoliciesFollowed
      BY <1>0, <3>1 DEF Steady, PoliciesFollowed
    <3>2. CASE Contribution(v, l) = Contribution(pols[x], l)
      <4>1. \A y \in Policies : Contribution(pols'[y], l) = Contribution(pols[y], l)
        BY <1>0, <1>1, <3>2
      <4>2. PodRules(pols', l) = PodRules(pols, l) BY <4>1, RulesByContribution
      <4>3. Called(p)' = Called(p) BY <1>0, <4>2 DEF Called
      <4> QED BY <1>0, <4>3 DEF Steady
    <3> QED BY <1>5, <3>1, <3>2
  <2>2. ASSUME PolicyDelta(p) PROVE PolicyDelta(p)'
    <3>0. PoliciesFollowed BY <2>2 DEF PolicyDelta
    <3>y. PICK y \in Policies : \E i \in 1..Len(polQ[Current][y]) :
            Contribution(polQ[Current][y][i], l) # Contribution(polStore[Current][y], l)
      BY <2>2 DEF PolicyDelta
    <3>1. PICK i \in 1..Len(polQ[Current][y]) :
            Contribution(polQ[Current][y][i], l) # Contribution(polStore[Current][y], l)
      BY <3>y
    <3>2. i \in 1..Len(polQ'[Current][y]) /\ polQ'[Current][y][i] = polQ[Current][y][i]
      <4>1. CASE y = x
        <5>1. /\ polQ[Current][y] \in Seq(PolObj \cup {None})
              /\ polQ'[Current][y] = Append(polQ[Current][y], v)
          BY <1>3, <3>0, <4>1
        <5>2. /\ Len(polQ[Current][y]) \in Nat
              /\ Len(Append(polQ[Current][y], v)) = Len(polQ[Current][y]) + 1
              /\ Append(polQ[Current][y], v)[i] = polQ[Current][y][i]
          BY <3>1, <5>1, AppendEntries
        <5> QED BY <5>1, <5>2
      <4>2. CASE y # x BY <1>3, <3>0, <3>1, <4>2
      <4> QED BY <4>1, <4>2
    <3>3. /\ i \in 1..Len(polQ'[Current'][y])
          /\ Contribution(polQ'[Current'][y][i], api'[p].lab)
               # Contribution(polStore'[Current'][y], api'[p].lab)
      BY <1>0, <3>1, <3>2
    <3> QED BY <1>0, <3>0, <3>3 DEF PolicyDelta
  <2> QED BY <1>0, <1>4, <2>1, <2>2, FreshFrame
<1>6. CASE Contribution(v, l) # Contribution(pols[x], l) /\ PoliciesFollowed
  <2> SUFFICES PolicyDelta(p)'
    BY DEF Fresh
  <2> DEFINE Q == polQ[Current][x]  s == polStore[Current][x]
  <2>1. Upcoming(s, Q) = pols[x] BY <1>6 DEF FreshBase, InformerInv
  <2>2. Q \in Seq(PolObj \cup {None}) /\ polQ'[Current][x] = Append(Q, v)
    BY <1>3, <1>6
  <2> HIDE DEF Q, s
  <2>3. \E i \in 1..Len(Append(Q, v)) :
           Contribution(Append(Q, v)[i], l) # Contribution(s, l)
    <3>1. CASE Contribution(v, l) # Contribution(s, l)
      <4>1. Append(Q, v)[Len(Q) + 1] = v /\ Len(Q) + 1 \in 1..Len(Append(Q, v))
        BY <2>2, AppendEntries
      <4> QED BY <3>1, <4>1
    <3>2. CASE Contribution(v, l) = Contribution(s, l)
      <4>1. Q # <<>> /\ Q[Len(Q)] = pols[x] BY <1>6, <2>1, <3>2 DEF Upcoming
      <4>2. Len(Q) \in 1..Len(Append(Q, v)) /\ Append(Q, v)[Len(Q)] = pols[x]
        BY <2>2, <4>1, PopEntries, AppendEntries
      <4> QED BY <1>6, <3>2, <4>2
    <3> QED BY <3>1, <3>2
  <2>4. \E i \in 1..Len(polQ'[Current'][x]) :
           Contribution(polQ'[Current'][x][i], api'[p].lab)
             # Contribution(polStore'[Current'][x], api'[p].lab)
    BY <1>0, <2>2, <2>3 DEF s
  <2> QED BY <1>0, <1>6, <2>4 DEF PolicyDelta
<1> QED BY <1>5, <1>6

(* A pod whose infra container starts is to be resolved by its monitor.    *)
LEMMA FreshStartContainer ==
  ASSUME FreshBase, NEW p \in Pods, Fresh(p), NEW c \in Contexts, NEW q \in Pods,
         StartContainer(c, q)
  PROVE  Fresh(p)'
<1> DEFINE t == Mon(c)
<1>0. /\ t \in Threads /\ pc \in [Threads -> Positions] /\ job \in [Threads -> Job]
      /\ pu \in [Contexts -> {"new", "creating", "up", "failed", "gone"}]
      /\ live \in [Pods -> Contexts \cup {None}] /\ missed \in [Pods -> SUBSET Reasons]
      /\ pu[c] = "new" /\ pu' = [pu EXCEPT ![c] = "creating"]
      /\ pc' = [pc EXCEPT ![t] = "resolve"] /\ pc[t] = "idle"
      /\ UNCHANGED <<apiVars, enforced, podQVars, polQVars, nsVars, job>>
  BY ThreadTypes DEF FreshBase, TypeInv, TypeOK, ContainerInv, StartContainer
<1>1. pc'[t] = "resolve" /\ \A u \in Threads : u # t => pc'[u] = pc[u] BY <1>0
<1>2. CASE Kind[c] = "infra" /\ p = q
  <2>1. live'[p] = c BY <1>0, <1>2 DEF StartContainer
  <2>2. Serves(t, p)' BY <1>1, <2>1 DEF Serves
  <2> QED BY <1>0, <2>2 DEF Fresh
<1>3. CASE ~(Kind[c] = "infra" /\ p = q)
  <2>1. live'[p] = live[p] /\ missed'[p] = missed[p]
    BY <1>0, <1>3 DEF StartContainer
  <2>2. live[p] # None => live[p] # c BY <1>0 DEF FreshBase, ContainerInv
  <2>3. live[p] # None => pu'[live[p]] = pu[live[p]] BY <1>0, <2>2
  <2>4. Steady(p) BY <1>0, <2>1 DEF Steady, apiVars, nsVars, Called
  <2>5. /\ PodDelta(p)' <=> PodDelta(p)
        /\ PolicyDelta(p)' <=> PolicyDelta(p)
        /\ PodsFollowed' <=> PodsFollowed
    BY <1>0, DeltasKept DEF apiVars, podQVars, polQVars, nsVars
  <2>6. ~Serves(t, p) BY <1>0, ServesOnly
  <2>7. pc'[t] \notin Reading BY <1>1 DEF Reading
  <2>8. \A u \in Threads : u # t => /\ pc'[u] = pc[u] /\ SameReads(job'[u], job[u])
                                    /\ job[u].late => job'[u].late
    BY <1>0, <1>1 DEF SameReads
  <2> QED BY <1>0, <2>1, <2>3, <2>4, <2>5, <2>6, <2>7, <2>8, FreshThread
<1> QED BY <1>2, <1>3

(* Every change of the cluster keeps the pods fresh. *)
LEMMA FreshEnvironment ==
  ASSUME FreshBase, NEW p \in Pods, Fresh(p), Environment
  PROVE  Fresh(p)'
<1>1. ASSUME NEW q \in Pods,
             CreatePod(q) \/ AssignIP(q) \/ UpdateApiPod(q) \/ DeleteApiPod(q)
      PROVE  Fresh(p)'
  <2>1. \E v \in PodObj \cup {None} : ChangePod(q, v)
    <3>1. api[q] # None => api[q] \in PodObj BY DEF FreshBase, TypeInv, TypeOK
    <3>2. CASE CreatePod(q) BY <3>2 DEF CreatePod, PodObj
    <3>3. CASE AssignIP(q) BY <3>1, <3>3 DEF AssignIP, PodObj
    <3>4. CASE UpdateApiPod(q) BY <3>1, <3>4 DEF UpdateApiPod, PodObj
    <3>5. CASE DeleteApiPod(q) BY <3>5 DEF DeleteApiPod
    <3> QED BY <1>1, <3>2, <3>3, <3>4, <3>5
  <2> QED BY <2>1, FreshChangePod
<1>2. ASSUME NEW q \in Pods, StopContainer(q) PROVE Fresh(p)'
  <2>0. /\ live \in [Pods -> Contexts \cup {None}] /\ enforced \in [Contexts -> Policy]
        /\ pu \in [Contexts -> {"new", "creating", "up", "failed", "gone"}]
        /\ live[q] # None /\ live' = [live EXCEPT ![q] = None]
        /\ UNCHANGED <<apiVars, podQVars, polQVars, nsVars, jobVars, missed>>
    BY <1>2 DEF FreshBase, TypeInv, TypeOK, StopContainer
  <2>1. CASE p = q BY <2>0, <2>1 DEF Fresh
  <2>2. CASE p # q
    <3>1. live'[p] = live[p] BY <2>0, <2>2
    <3>2. live[p] # None => live[p] # live[q]
      BY <2>0, <2>2 DEF FreshBase, ContainerInv
    <3>3. live[p] # None => pu'[live[p]] = pu[live[p]] /\ enforced'[live[p]] = enforced[live[p]]
      BY <1>2, <2>0, <3>2 DEF StopContainer
    <3>4. Steady(p) BY <2>0, <3>1 DEF Steady, apiVars, nsVars, Called
    <3>5. /\ PodDelta(p)' <=> PodDelta(p)
          /\ PolicyDelta(p)' <=> PolicyDelta(p)
          /\ PodsFollowed' <=> PodsFollowed
      BY <2>0, DeltasKept DEF apiVars, podQVars, polQVars, nsVars
    <3> QED BY <2>0, <3>3, <3>4, <3>5, FreshFrame
  <2> QED BY <2>1, <2>2
<1>3. ASSUME ChangeNamespace PROVE Fresh(p)'
  <2>1. UNCHANGED <<api, pols, puVars, podQVars, polQVars, nsVars, jobVars, missed>>
    BY <1>3 DEF ChangeNamespace
  <2>2. Steady(p) BY <2>1 DEF Steady, puVars, nsVars, Called
  <2>3. /\ PodDelta(p)' <=> PodDelta(p)
        /\ PolicyDelta(p)' <=> PolicyDelta(p)
        /\ PodsFollowed' <=> PodsFollowed
    BY <2>1, DeltasKept DEF podQVars, polQVars, nsVars
  <2> QED BY <2>1, <2>2, <2>3, FreshFrame DEF puVars
<1> QED BY <1>1, <1>2, <1>3, FreshChangePolicy, FreshStartContainer DEF Environment

(* So does every step of the namespace controller: the stores of a new     *)
(* watcher are filled by deltas, which resolve the pods once more.         *)
LEMMA FreshNamespaceController ==
  ASSUME FreshBase, NEW p \in Pods, Fresh(p), NamespaceController
  PROVE  Fresh(p)'
<1>0. UNCHANGED <<apiVars, puVars, jobVars, missed, podStore, polStore>>
  BY DEF NamespaceController, addNamespace, deleteNamespace, updateNamespace,
     PopNamespace, StartPodController, StartPolicyController,
     activateNamespaceWatcher, podQVars, polQVars
<1>1. CASE addNamespace \/ deleteNamespace \/ updateNamespace
  <2>1. UNCHANGED <<podQVars, polQVars>>
    BY <1>1 DEF addNamespace, deleteNamespace, updateNamespace, PopNamespace
  <2>2. \/ ~PodsFollowed'
        \/ UNCHANGED nsVars
    BY <1>1, NamespaceHandlers
       DEF BeginActivation, deactivateNamespace, PodsFollowed
  <2>3. CASE ~PodsFollowed' BY <2>3 DEF Fresh
  <2>4. CASE UNCHANGED nsVars
    <3>1. Steady(p) BY <1>0, <2>4 DEF Steady, apiVars, puVars, nsVars, Called
    <3>2. /\ PodDelta(p)' <=> PodDelta(p)
          /\ PolicyDelta(p)' <=> PolicyDelta(p)
          /\ PodsFollowed' <=> PodsFollowed
      BY <1>0, <2>1, <2>4, DeltasKept DEF apiVars, podQVars, polQVars, nsVars
    <3> QED BY <1>0, <3>1, <3>2, FreshFrame DEF puVars
  <2> QED BY <2>2, <2>3, <2>4
<1>2. CASE StartPodController
  <2>1. /\ nsPc = "startPods" /\ active = None /\ active' = active /\ nsW' = nsW
        /\ nsW \in Watchers /\ wstate[nsW] = "unused"
        /\ podQ' = [podQ EXCEPT ![nsW] = [r \in Pods |-> Listed(api[r])]]
        /\ podQ \in [Watchers -> [Pods -> Seq(PodObj \cup {None})]]
    BY <1>2 DEF StartPodController, FreshBase, WatcherInv, TypeInv, TypeOK
  <2>2. Current' = nsW BY <2>1 DEF Current
  <2>3. podStore'[nsW][p] = None BY <1>0, <2>1 DEF FreshBase, InformerInv
  <2>4. podQ'[nsW][p] = Listed(api[p]) BY <2>1
  <2>5. api[p] # None => PodDelta(p)'
    <3>1. api[p] # None => podQ'[nsW][p] = <<api[p]>> BY <2>4 DEF Listed
    <3>2. Len(<<api[p]>>) = 1 /\ <<api[p]>>[1] = api[p] OBVIOUS
    <3>3. ASSUME api[p] # None
          PROVE  \E i \in 1..Len(podQ'[Current'][p]) :
                    podQ'[Current'][p][i] # podStore'[Current'][p]
      <4>1. podQ'[Current'][p] = <<api[p]>> /\ podStore'[Current'][p] = None
        BY <2>2, <2>3, <3>1, <3>3
      <4>2. 1 \in 1..Len(<<api[p]>>) /\ <<api[p]>>[1] # None BY <3>2, <3>3
      <4> QED BY <4>1, <4>2
    <3> QED BY <3>3 DEF PodDelta
  <2> QED BY <1>0, <2>5 DEF Fresh, apiVars
<1>3. CASE StartPolicyController
  <2>1. /\ active = None /\ active' = None /\ nsW' = nsW /\ nsPc = "startPolicies"
        /\ nsPc' = "activate" /\ UNCHANGED podQ
    BY <1>3 DEF StartPolicyController, FreshBase, WatcherInv, podQVars
  <2>2. Steady(p) BY <1>0, <2>1 DEF Steady, apiVars, puVars
  <2>3. (PodDelta(p)' <=> PodDelta(p)) /\ ~PolicyDelta(p) /\ PodsFollowed
    BY <1>0, <2>1 DEF PodDelta, PolicyDelta, PoliciesFollowed, PodsFollowed, Current
  <2> QED BY <1>0, <2>2, <2>3, FreshFrame DEF puVars
<1>4. CASE activateNamespaceWatcher
  <2>1. /\ active = None /\ active' = nsW /\ nsPc = "activate" /\ nsW \in Watchers
        /\ UNCHANGED <<podQ, polQ>>
    BY <1>4 DEF activateNamespaceWatcher, FreshBase, WatcherInv, podQVars, polQVars
  <2>2. Steady(p) BY <1>0, <2>1 DEF Steady, apiVars, puVars
  <2>3. Current = nsW /\ Current' = nsW /\ PodsFollowed /\ PoliciesFollowed /\ PoliciesFollowed'
    BY <2>1, ConstantsAssumption DEF Current, PodsFollowed, PoliciesFollowed
  <2>4. (PodDelta(p)' <=> PodDelta(p)) /\ (PolicyDelta(p)' <=> PolicyDelta(p))
    BY <1>0, <2>1, <2>3 DEF PodDelta, PolicyDelta, apiVars
  <2> QED BY <1>0, <2>2, <2>3, <2>4, FreshFrame DEF puVars
<1> QED BY <1>1, <1>2, <1>3, <1>4 DEF NamespaceController

-----------------------------------------------------------------------------
(* The theorem. *)

(* Nothing is followed when the process starts. *)
LEMMA FreshInit == Init => FreshInv
BY DEF Init, FreshInv, Fresh, PodsFollowed

(* Every step keeps the pods fresh. *)
LEMMA FreshStep == FreshBase /\ FreshInv /\ [Next]_vars => FreshInv'
<1> SUFFICES ASSUME FreshBase, FreshInv, [Next]_vars, NEW p \in Pods PROVE Fresh(p)'
  BY DEF FreshInv
<1>0. Fresh(p) BY DEF FreshInv
<1>1. ASSUME NEW c \in Contexts, Monitor(c) PROVE Fresh(p)'
  BY <1>0, <1>1, ThreadTypes, FreshResolvePolicy, FreshResolve, FreshCreatePU DEF Monitor
<1>2. ASSUME UNCHANGED vars PROVE Fresh(p)'
  <2>1. UNCHANGED <<apiVars, puVars, jobVars, missed, podQVars, polQVars, nsVars>>
    BY <1>2 DEF vars
  <2>2. Steady(p) BY <2>1 DEF Steady, apiVars, puVars, nsVars, Called
  <2>3. /\ PodDelta(p)' <=> PodDelta(p)
        /\ PolicyDelta(p)' <=> PolicyDelta(p)
        /\ PodsFollowed' <=> PodsFollowed
    BY <2>1, DeltasKept DEF apiVars, podQVars, polQVars, nsVars
  <2> QED BY <1>0, <2>1, <2>2, <2>3, FreshFrame DEF puVars
<1> QED BY <1>0, <1>1, <1>2, FreshEnvironment, FreshNamespaceController, FreshControllers
       DEF Next

(* When nothing is under way, a fresh pod in an active namespace has the   *)
(* policy called for.                                                      *)
LEMMA FreshWhenQuiescent ==
  ASSUME TypeInv, WatcherInv, ActivationInv, FreshInv
  PROVE  StaleOnlyIfMissed
<1> SUFFICES ASSUME NEW p \in Pods, Quiescent, active # None, Enforceable(p),
                    missed[p] = {}
             PROVE  enforced[live[p]] = Desired(p)
  BY DEF StaleOnlyIfMissed, Stale
<1>0. active \in Watchers BY DEF TypeInv, TypeOK
<1>1. Fresh(p) /\ PodsFollowed /\ live[p] # None /\ api[p] # None /\ pu[live[p]] = "up"
  BY DEF FreshInv, PodsFollowed, Enforceable
<1>2. Current = active BY DEF Current
<1>4. ~PodDelta(p)
  <2>1. podQ[active][p] = <<>> BY <1>0 DEF Quiescent
  <2>2. Len(<<>>) = 0 OBVIOUS
  <2> QED BY <1>2, <2>1, <2>2 DEF PodDelta
<1>5. ~PolicyDelta(p)
  <2>1. \A x \in Policies : polQ[active][x] = <<>> BY <1>0 DEF Quiescent
  <2>2. Len(<<>>) = 0 OBVIOUS
  <2> QED BY <1>2, <2>1, <2>2 DEF PolicyDelta
<1>6. \A t \in Threads : ~Serves(t, p) BY ServesOnly DEF Quiescent
<1>7. enforced[live[p]] = Target(p) BY <1>1, <1>4, <1>5, <1>6 DEF Fresh, Settled
<1>8. Wanted(ns) BY DEF ActivationInv, Quiescent
<1> QED BY <1>7, <1>8 DEF Target, Desired, Plain, Called

(* A running pod whose policy is not the one the API server's state calls  *)
(* for, although nothing is left to do, is one that a recorded loss befell *)
(* since it was last resolved (updatePodPolicy, resolvePodPolicy).         *)
THEOREM StaleExplained == Spec => []StaleOnlyIfMissed
<1> DEFINE Inv == FreshBase /\ ActivationInv /\ FreshInv
<1>1. Init => Inv
  BY InitType, WatcherInvInit, OwnPodInvInit, InformerInvInit, ContainerInvInit,
     ActivationInvInit, FreshInit DEF FreshBase
<1>2. Inv /\ [Next]_vars => Inv'
  BY NextType, WatcherInvStep, OwnPodStep, InformerInvStep, ContainerStep,
     ActivationInvStep, FreshStep DEF FreshBase
<1>3. Inv => StaleOnlyIfMissed BY FreshWhenQuiescent DEF FreshBase
<1> QED BY <1>1, <1>2, <1>3, PTL DEF Spec

=============================================================================
