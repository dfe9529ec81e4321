------------------------ MODULE PolicyResolutionSafety ------------------------
(* The safety invariants of PolicyResolution that hold for every value of  *)
(* its constants.                                                          *)
EXTENDS PolicyResolutionProofs, SequenceTheorems

(* Nothing but the namespace controller and changes of the namespace       *)
(* object touches the activation state or the namespace's informer.        *)
LEMMA NamespaceFrame ==
  [Next]_vars =>
    NamespaceController \/ ChangeNamespace \/ UNCHANGED <<nsVars, nsQVars, ns>>
<1> SUFFICES ASSUME [Next]_vars
             PROVE  \/ NamespaceController \/ ChangeNamespace
                    \/ UNCHANGED <<nsVars, nsQVars, ns>>
  OBVIOUS
<1>1. CASE Environment
  BY <1>1 DEF Environment, CreatePod, AssignIP, UpdateApiPod, DeleteApiPod, ChangePod,
     ChangePolicy, StartContainer, StopContainer, apiVars
<1>2. ASSUME NEW t, Resolve(t) PROVE UNCHANGED <<nsVars, nsQVars, ns>>
  BY <1>2 DEF Resolve, contextIDByPodName, getPod, isNamespaceActive,
     getNamespaceWatcher, getPolicyList, IngressPodRules, EgressPodRules,
     PodReadFails, unchangedByReads, apiVars
<1>3. ASSUME NEW t, UpdatePolicy(t) \/ UpdatePolicyFails(t) PROVE UNCHANGED <<nsVars, nsQVars, ns>>
  BY <1>3 DEF UpdatePolicy, UpdatePolicyFails, unchangedByReads, apiVars
<1>4. ASSUME NEW c \in Contexts, Monitor(c) PROVE UNCHANGED <<nsVars, nsQVars, ns>>
  BY <1>4, <1>2 DEF Monitor, ResolvePolicy, addPodToCache, CreatePU, apiVars
<1>5. ASSUME NEW w \in Watchers, PodController(w) PROVE UNCHANGED <<nsVars, nsQVars, ns>>
  BY <1>5, <1>2, <1>3 DEF PodController, addPod, updatePod, deletePod, Pop, apiVars
<1>6. ASSUME NEW w \in Watchers, PolicyController(w) PROVE UNCHANGED <<nsVars, nsQVars, ns>>
  BY <1>6, <1>2, <1>3 DEF PolicyController, addNetworkPolicy, updateNetworkPolicy,
     deleteNetworkPolicy, PopPolicy, LocalPods, LocalPodsFails, unchangedByReads, apiVars
<1> QED BY <1>1, <1>4, <1>5, <1>6 DEF Next, vars, apiVars

(* A handler of the namespace controller begins an activation, ends one,   *)
(* or leaves the activation state alone.                                   *)
LEMMA NamespaceHandlers ==
  ASSUME addNamespace \/ deleteNamespace \/ updateNamespace
  PROVE  /\ nsPc = "idle"
         /\ \/ active = None /\ BeginActivation
            \/ active # None /\ deactivateNamespace
            \/ UNCHANGED nsVars
<1>1. CASE addNamespace BY <1>1 DEF addNamespace, PopNamespace
<1>2. CASE deleteNamespace BY <1>2 DEF deleteNamespace, PopNamespace
<1>3. CASE updateNamespace
  <2>1. nsPc = "idle" BY <1>3 DEF updateNamespace, PopNamespace
  <2>2. CASE BetaPolicies /\ Head(nsQ) = "on" /\ active = None
    BY <1>3, <2>1, <2>2 DEF updateNamespace
  <2>3. CASE BetaPolicies /\ Head(nsQ) # "on" /\ active # None
    BY <1>3, <2>1, <2>3 DEF updateNamespace
  <2>4. CASE /\ ~(BetaPolicies /\ Head(nsQ) = "on" /\ active = None)
             /\ ~(BetaPolicies /\ Head(nsQ) # "on" /\ active # None)
    BY <1>3, <2>1, <2>4 DEF updateNamespace
  <2> QED BY <2>2, <2>3, <2>4
<1> QED BY <1>1, <1>2, <1>3

(* Watchers: the namespace controller builds one at a time, only while     *)
(* none is active, and feeds both of its stores before it is active.       *)
WatcherInv ==
  /\ \A w \in Watchers :
       wstate[w] = "started" => w = active \/ (w = nsW /\ nsPc # "idle")
  /\ \A w \in Watchers : wstate[w] = "unused" => fed[w] = {}
  /\ active # None => fed[active] = {"pod", "pol"} /\ nsPc = "idle"
  /\ nsPc = "idle" => nsW = None
  /\ nsPc # "idle" => active = None /\ nsW \in Watchers
  /\ nsPc = "startPods" => wstate[nsW] = "unused"
  /\ nsPc = "startPolicies" => fed[nsW] = {"pod"}
  /\ nsPc = "activate" => fed[nsW] = {"pod", "pol"}

(* WatcherInv holds when the process starts. *)
LEMMA WatcherInvInit == Init => WatcherInv
BY ConstantsAssumption DEF Init, WatcherInv

(* Every step keeps WatcherInv. *)
LEMMA WatcherInvStep == TypeInv /\ WatcherInv /\ [Next]_vars => WatcherInv'
<1> SUFFICES ASSUME TypeInv, WatcherInv, [Next]_vars PROVE WatcherInv'
  OBVIOUS
<1>0. /\ active \in Watchers \cup {None} /\ nsW \in Watchers \cup {None}
      /\ nsPc \in {"idle", "startPods", "startPolicies", "activate"}
      /\ fed \in [Watchers -> SUBSET {"pod", "pol"}]
      /\ wstate \in [Watchers -> {"unused", "started", "retired"}]
      /\ None \notin Watchers
  BY ConstantsAssumption DEF TypeInv, TypeOK
<1>1. CASE addNamespace \/ deleteNamespace \/ updateNamespace
  <2>1. /\ nsPc = "idle"
        /\ \/ active = None /\ BeginActivation
           \/ active # None /\ deactivateNamespace
           \/ UNCHANGED nsVars
    BY <1>1, NamespaceHandlers
  <2>2. CASE active = None /\ BeginActivation
    BY <1>0, <2>1, <2>2 DEF BeginActivation, WatcherInv
  <2>3. CASE active # None /\ deactivateNamespace
    BY <1>0, <2>1, <2>3 DEF deactivateNamespace, WatcherInv
  <2>4. CASE UNCHANGED nsVars
    BY <2>4 DEF nsVars, WatcherInv
  <2> QED BY <2>1, <2>2, <2>3, <2>4
<1>2. CASE StartPodController
  BY <1>0, <1>2 DEF StartPodController, WatcherInv
<1>3. CASE StartPolicyController
  BY <1>0, <1>3 DEF StartPolicyController, WatcherInv
<1>4. CASE activateNamespaceWatcher
  BY <1>0, <1>4 DEF activateNamespaceWatcher, WatcherInv
<1>5. CASE UNCHANGED nsVars
  BY <1>5 DEF nsVars, WatcherInv
<1>6. CASE ChangeNamespace
  BY <1>6 DEF ChangeNamespace, nsVars, WatcherInv
<1> QED BY <1>1, <1>2, <1>3, <1>4, <1>5, <1>6, NamespaceFrame
   DEF NamespaceController

(* No activation overwrites another, no watcher leaks, and the active one  *)
(* is never starved of deltas (policy.go activateNamespace, cache.go).     *)
THEOREM WatchersAccounted == Spec => []WatcherAccounted
<1>1. WatcherInv => WatcherAccounted BY DEF WatcherInv, WatcherAccounted
<1> QED BY <1>1, InitType, NextType, WatcherInvInit, WatcherInvStep, PTL DEF Spec

-----------------------------------------------------------------------------
(* The namespace controller has handled all deltas but those in nsQ, whose *)
(* last one is the namespace object; activation follows what it handled.   *)
ActivationInv ==
  /\ nsPc = "idle" => (active # None <=> Wanted(nsStore))
  /\ nsPc # "idle" => Wanted(nsStore)
  /\ IF nsQ = <<>> THEN nsStore = ns ELSE nsQ[Len(nsQ)] = ns

(* ActivationInv holds when the process starts. *)
LEMMA ActivationInvInit == Init => ActivationInv
BY DEF Init, ActivationInv, Wanted

(* Every step keeps ActivationInv. *)
LEMMA ActivationInvStep ==
  TypeInv /\ WatcherInv /\ ActivationInv /\ [Next]_vars => ActivationInv'
<1> SUFFICES ASSUME TypeInv, WatcherInv, ActivationInv, [Next]_vars
             PROVE  ActivationInv'
  OBVIOUS
<1>0. /\ active \in Watchers \cup {None} /\ nsW \in Watchers \cup {None}
      /\ nsQ \in Seq(NsObj) /\ nsStore \in NsObj /\ ns \in NsObj
      /\ nsPc \in {"idle", "startPods", "startPolicies", "activate"}
      /\ None \notin Watchers /\ BetaPolicies \in BOOLEAN
  BY ConstantsAssumption DEF TypeInv, TypeOK
<1>1. CASE addNamespace \/ deleteNamespace \/ updateNamespace
  <2>1. /\ nsPc = "idle" /\ nsQ # <<>> /\ ns' = ns
        /\ nsStore' = Head(nsQ) /\ nsQ' = Tail(nsQ)
    BY <1>1 DEF addNamespace, deleteNamespace, updateNamespace, PopNamespace, apiVars
  <2>2. IF nsQ' = <<>> THEN nsStore' = ns' ELSE nsQ'[Len(nsQ')] = ns'
    <3>1. Len(nsQ) \in Nat \ {0} /\ nsQ[Len(nsQ)] = ns
      BY <1>0, <2>1 DEF ActivationInv
    <3>2. /\ Len(Tail(nsQ)) = Len(nsQ) - 1 /\ Tail(nsQ) \in Seq(NsObj)
          /\ Head(nsQ) = nsQ[1]
          /\ \A i \in 1..(Len(nsQ) - 1) : Tail(nsQ)[i] = nsQ[i + 1]
      BY <1>0, <2>1, HeadTailProperties
    <3>e. \A s \in Seq(NsObj) : (s # <<>>) => Len(s) # 0
      <4>1. \A s \in Seq(NsObj) : (s # <<>>) => Len(s) \in Nat \ {0} BY EmptySeq
      <4> QED BY <4>1
    <3>3. CASE Len(nsQ) = 1
      <4>0. Len(Tail(nsQ)) = 0 BY <3>2, <3>3
      <4>1. Tail(nsQ) = <<>> BY <3>2, <3>e, <4>0
      <4> QED BY <2>1, <3>1, <3>2, <3>3, <4>1
    <3>4. CASE Len(nsQ) > 1
      <4>0. Len(Tail(nsQ)) # 0 BY <3>1, <3>2, <3>4
      <4>1. Tail(nsQ) # <<>>
        <5>1. SUFFICES ASSUME Tail(nsQ) = <<>> PROVE FALSE
          OBVIOUS
        <5>2. Len(<<>>) = 0 OBVIOUS
        <5> QED BY <4>0, <5>1, <5>2
      <4>2. Tail(nsQ)[Len(nsQ) - 1] = nsQ[Len(nsQ)] BY <3>1, <3>2, <3>4
      <4> QED BY <2>1, <3>1, <3>2, <4>1, <4>2
    <3>5. Len(nsQ) = 1 \/ Len(nsQ) > 1 BY <3>1
    <3> QED BY <3>3, <3>4, <3>5
  <2>3. active # None <=> Wanted(nsStore) BY <2>1 DEF ActivationInv
  <2>4. Head(nsQ) \in NsObj BY <1>0, <2>1
  <2>5. CASE addNamespace
    <3>1. active = None BY <2>3, <2>5 DEF addNamespace, Wanted
    <3>2. CASE Wanted(Head(nsQ))
      <4>1. BeginActivation BY <2>5, <3>1, <3>2 DEF addNamespace
      <4> QED BY <2>1, <2>2, <3>2, <4>1 DEF BeginActivation, ActivationInv
    <3>3. CASE ~Wanted(Head(nsQ))
      <4>1. UNCHANGED nsVars BY <2>5, <3>3 DEF addNamespace
      <4> QED BY <2>1, <2>2, <3>1, <3>3, <4>1 DEF nsVars, ActivationInv
    <3> QED BY <3>2, <3>3
  <2>6. CASE deleteNamespace
    <3>1. ~Wanted(Head(nsQ)) BY <2>6 DEF deleteNamespace, Wanted
    <3>2. active' = None /\ nsPc' = nsPc
      BY <2>6 DEF deleteNamespace, deactivateNamespace, nsVars
    <3> QED BY <2>1, <2>2, <3>1, <3>2 DEF ActivationInv
  <2>7. CASE updateNamespace
    <3>0. nsStore # "absent" /\ Head(nsQ) # "absent" BY <2>7 DEF updateNamespace
    <3>1. CASE BetaPolicies /\ Head(nsQ) = "on" /\ active = None
      <4>1. BeginActivation BY <2>7, <3>1 DEF updateNamespace
      <4> QED BY <2>1, <2>2, <3>1, <4>1 DEF BeginActivation, ActivationInv, Wanted
    <3>2. CASE BetaPolicies /\ Head(nsQ) # "on" /\ active # None
      <4>1. deactivateNamespace BY <2>7, <3>2 DEF updateNamespace
      <4> QED BY <2>1, <2>2, <3>2, <4>1 DEF deactivateNamespace, ActivationInv, Wanted
    <3>3. CASE /\ ~(BetaPolicies /\ Head(nsQ) = "on" /\ active = None)
               /\ ~(BetaPolicies /\ Head(nsQ) # "on" /\ active # None)
      <4>1. UNCHANGED nsVars BY <2>7, <3>3 DEF updateNamespace
      <4>2. active # None <=> Wanted(Head(nsQ))
        BY <1>0, <2>3, <3>0, <3>3 DEF Wanted
      <4> QED BY <2>1, <2>2, <4>1, <4>2 DEF nsVars, ActivationInv
    <3> QED BY <3>1, <3>2, <3>3
  <2> QED BY <1>1, <2>5, <2>6, <2>7
<1>2. CASE StartPodController \/ StartPolicyController
  BY <1>2 DEF StartPodController, StartPolicyController, ActivationInv, apiVars, nsQVars
<1>3. CASE activateNamespaceWatcher
  BY <1>0, <1>3 DEF activateNamespaceWatcher, ActivationInv, WatcherInv, apiVars, nsQVars
<1>4. CASE ChangeNamespace
  <2>1. PICK v \in NsObj : ns' = v /\ nsQ' = Append(nsQ, v)
    BY <1>4 DEF ChangeNamespace
  <2>2. nsQ' # <<>> /\ nsQ'[Len(nsQ')] = v BY <1>0, <2>1
  <2> QED BY <1>4, <2>1, <2>2 DEF ChangeNamespace, nsVars, ActivationInv
<1>5. CASE UNCHANGED <<nsVars, nsQVars, ns>>
  BY <1>5 DEF nsVars, nsQVars, ActivationInv
<1> QED BY <1>1, <1>2, <1>3, <1>4, <1>5, NamespaceFrame DEF NamespaceController

(* Once the namespace's deltas are handled it is active just when its      *)
(* object asks for network policies (addNamespace, updateNamespace,        *)
(* deleteNamespace).                                                       *)
THEOREM ActivationFollows == Spec => []ActivationFollowsNamespace
<1>1. ActivationInv => ActivationFollowsNamespace
  BY DEF ActivationInv, ActivationFollowsNamespace
<1> QED BY <1>1, InitType, NextType, WatcherInvInit, WatcherInvStep,
           ActivationInvInit, ActivationInvStep, PTL DEF Spec

-----------------------------------------------------------------------------
(* A container's name in the cache or in a job is one that was started: it *)
(* keeps its pod from then on.  A container that is not an infra container *)
(* is resolved without ever getting a pod.                                 *)
OwnPodInv ==
  /\ \A p \in Pods : podCache[p] # None =>
       /\ ctxPod[podCache[p]] = p /\ Kind[podCache[p]] = "infra"
       /\ pu[podCache[p]] # "new"
  /\ \A t \in Threads : job[t].ctx # None =>
       /\ ctxPod[job[t].ctx] = job[t].pod /\ Kind[job[t].ctx] = "infra"
       /\ pu[job[t].ctx] # "new"
  /\ \A c \in Contexts : Kind[c] # "infra" =>
       /\ enforced[c] \in {NoPolicy, notInfraContainerPolicy}
       /\ pc[Mon(c)] \in {"idle", "resolve", "update"}
       /\ pc[Mon(c)] = "update" => job[Mon(c)].pol = notInfraContainerPolicy
  /\ \A c \in Contexts : pc[Mon(c)] # "idle" => pu[c] # "new"

(* OwnPodInv holds when the process starts. *)
LEMMA OwnPodInvInit == Init => OwnPodInv
<1> SUFFICES ASSUME Init PROVE OwnPodInv
  OBVIOUS
<1>1. \A t \in Threads : job[t].ctx = None /\ pc[t] = "idle"
  BY NoJobType DEF Init
<1> QED BY <1>1, ThreadTypes DEF Init, OwnPodInv

(* What the steps of a goroutine may do without breaking OwnPodInv: its    *)
(* job drops its container or keeps it, and the monitor of a container     *)
(* that is not infra gets no further than "update".                        *)
LEMMA OwnPodGoto ==
  ASSUME TypeInv, OwnPodInv, NEW t \in Threads, NEW l \in Positions, NEW j \in Job,
         Goto(t, l, j),
         \/ j.ctx = None
         \/ j.ctx = job[t].ctx /\ j.pod = job[t].pod
         \/ j.ctx \in Contexts /\ podCache[j.pod] = j.ctx /\ j.pod \in Pods,
         UNCHANGED <<podCache, ctxPod, enforced>>,
         \A c \in Contexts : pu'[c] = "new" => pu[c] = "new",
         \A c \in Contexts : t = Mon(c) => pu[c] # "new",
         \A c \in Contexts : t = Mon(c) /\ Kind[c] # "infra" => l = "idle"
  PROVE  OwnPodInv'
<1>1. /\ pc' = [pc EXCEPT ![t] = l] /\ job' = [job EXCEPT ![t] = j]
      /\ pc \in [Threads -> Positions] /\ job \in [Threads -> Job]
      /\ podCache \in [Pods -> Contexts \cup {None}]
      /\ \A u \in Threads : job[u].ctx \in Contexts \cup {None}
  BY DEF Goto, TypeInv, TypeOK, Job
<1>2. \A c \in Contexts : Mon(c) \in Threads BY ThreadTypes
<1>3. \A p \in Pods : podCache'[p] # None =>
        /\ ctxPod'[podCache'[p]] = p /\ Kind[podCache'[p]] = "infra"
        /\ pu'[podCache'[p]] # "new"
  BY <1>1 DEF OwnPodInv
<1>4. ASSUME NEW u \in Threads, job'[u].ctx # None
      PROVE  /\ ctxPod'[job'[u].ctx] = job'[u].pod /\ Kind[job'[u].ctx] = "infra"
             /\ pu'[job'[u].ctx] # "new"
  <2>1. CASE u # t BY <1>1, <1>4, <2>1 DEF OwnPodInv
  <2>2. CASE u = t
    <3>1. job'[u] = j BY <1>1, <2>2
    <3>2. CASE j.ctx = job[t].ctx /\ j.pod = job[t].pod
      BY <1>1, <1>4, <3>1, <3>2 DEF OwnPodInv
    <3>3. CASE j.ctx \in Contexts /\ podCache[j.pod] = j.ctx /\ j.pod \in Pods
      BY <1>1, <1>4, <3>1, <3>3 DEF OwnPodInv
    <3> QED BY <1>4, <3>1, <3>2, <3>3
  <2> QED BY <2>1, <2>2
<1>5. ASSUME NEW c \in Contexts, Kind[c] # "infra"
      PROVE  /\ enforced'[c] \in {NoPolicy, notInfraContainerPolicy}
             /\ pc'[Mon(c)] \in {"idle", "resolve", "update"}
             /\ pc'[Mon(c)] = "update" => job'[Mon(c)].pol = notInfraContainerPolicy
  <2> HIDE DEF NoPolicy, notInfraContainerPolicy
  <2>1. CASE t # Mon(c) BY <1>1, <1>2, <1>5, <2>1 DEF OwnPodInv
  <2>2. CASE t = Mon(c) BY <1>1, <1>2, <1>5, <2>2 DEF OwnPodInv
  <2> QED BY <2>1, <2>2
<1>6. ASSUME NEW c \in Contexts, pc'[Mon(c)] # "idle" PROVE pu'[c] # "new"
  BY <1>1, <1>2, <1>6 DEF OwnPodInv
<1> QED BY <1>3, <1>4, <1>5, <1>6 DEF OwnPodInv

(* A step that leaves the goroutines alone, and starts no container.       *)
LEMMA OwnPodFrame ==
  ASSUME TypeInv, OwnPodInv, UNCHANGED <<jobVars, ctxPod>>,
         \A p \in Pods : podCache'[p] \in {podCache[p], None},
         \A c \in Contexts : enforced'[c] \in {enforced[c], NoPolicy},
         \A c \in Contexts : pu'[c] = "new" => pu[c] = "new"
  PROVE  OwnPodInv'
<1>1. /\ \A p \in Pods : podCache[p] \in Contexts \cup {None}
      /\ \A t \in Threads : job[t].ctx \in Contexts \cup {None}
      /\ pc' = pc /\ job' = job /\ ctxPod' = ctxPod
  BY DEF TypeInv, TypeOK, Job, jobVars
<1>2. \A p \in Pods : podCache'[p] # None =>
        /\ ctxPod'[podCache'[p]] = p /\ Kind[podCache'[p]] = "infra"
        /\ pu'[podCache'[p]] # "new"
  BY <1>1 DEF OwnPodInv
<1>3. \A t \in Threads : job'[t].ctx # None =>
       /\ ctxPod'[job'[t].ctx] = job'[t].pod /\ Kind[job'[t].ctx] = "infra"
       /\ pu'[job'[t].ctx] # "new"
  BY <1>1 DEF OwnPodInv
<1>4. \A c \in Contexts : Kind[c] # "infra" =>
       /\ enforced'[c] \in {NoPolicy, notInfraContainerPolicy}
       /\ pc'[Mon(c)] \in {"idle", "resolve", "update"}
       /\ pc'[Mon(c)] = "update" => job'[Mon(c)].pol = notInfraContainerPolicy
  BY <1>1 DEF OwnPodInv
<1>5. \A c \in Contexts : pc'[Mon(c)] # "idle" => pu'[c] # "new"
  BY <1>1 DEF OwnPodInv
<1> QED BY <1>2, <1>3, <1>4, <1>5 DEF OwnPodInv

(* A failed resolution keeps OwnPodInv. *)
LEMMA OwnPodFail ==
  ASSUME TypeInv, OwnPodInv, NEW t \in Threads, NEW p, NEW r, Fail(t, p, r),
         UNCHANGED <<podCache, ctxPod, enforced>>,
         \A c \in Contexts : t = Mon(c) => pu[c] # "new"
  PROVE  OwnPodInv'
<1>1. Goto(t, "idle", NoJob) BY DEF Fail
<1>2. \A c \in Contexts : pu'[c] = "new" => pu[c] = "new"
  BY DEF Fail, TypeInv, TypeOK
<1>3. NoJob \in Job /\ NoJob.ctx = None /\ "idle" \in Positions
  BY NoJobType DEF Positions
<1> HIDE DEF NoJob
<1> QED BY <1>1, <1>2, <1>3, OwnPodGoto

(* A goroutine inside a resolution is busy with a container that started,  *)
(* an infra container if it is the monitor's.                              *)
LEMMA BusyStarted ==
  ASSUME OwnPodInv, NEW t \in Threads, pc[t] # "idle", NEW c \in Contexts, t = Mon(c)
  PROVE  /\ pu[c] # "new"
         /\ pc[t] \notin {"idle", "resolve", "update"} => Kind[c] = "infra"
BY DEF OwnPodInv

(* The steps of the environment keep OwnPodInv. *)
LEMMA OwnPodEnvironment ==
  ASSUME TypeInv, OwnPodInv, Environment
  PROVE  OwnPodInv'
<1>1. ASSUME NEW p \in Pods, StopContainer(p)
      PROVE  OwnPodInv'
  <2>1. /\ pu \in [Contexts -> {"new", "creating", "up", "failed", "gone"}]
        /\ enforced \in [Contexts -> Policy]
    BY DEF TypeInv, TypeOK
  <2>2. \A c \in Contexts : pu'[c] = "new" => pu[c] = "new"
    BY <1>1, <2>1 DEF StopContainer
  <2>3. \A c \in Contexts : enforced'[c] \in {enforced[c], NoPolicy}
    BY <1>1, <2>1 DEF StopContainer
  <2> QED BY <1>1, <2>2, <2>3, OwnPodFrame DEF StopContainer
<1>2. ASSUME UNCHANGED <<puVars, podCache, jobVars>>
      PROVE  OwnPodInv'
  BY <1>2, OwnPodFrame DEF puVars
<1>3. ASSUME NEW c \in Contexts, NEW p \in Pods, StartContainer(c, p)
      PROVE  OwnPodInv'
  <2>1. /\ ctxPod' = [ctxPod EXCEPT ![c] = p]
        /\ pu[c] = "new" /\ pu' = [pu EXCEPT ![c] = "creating"]
        /\ pc' = [pc EXCEPT ![Mon(c)] = "resolve"]
        /\ UNCHANGED <<enforced, podCache, job>>
    BY <1>3 DEF StartContainer
  <2>2. /\ ctxPod \in [Contexts -> Pods \cup {None}]
        /\ pu \in [Contexts -> {"new", "creating", "up", "failed", "gone"}]
        /\ pc \in [Threads -> Positions]
        /\ \A q \in Pods : podCache[q] \in Contexts \cup {None}
        /\ \A t \in Threads : job[t].ctx \in Contexts \cup {None}
    BY DEF TypeInv, TypeOK, Job
  <2>3. \A d \in Contexts : Mon(d) \in Threads /\ (Mon(d) = Mon(c) => d = c)
    BY ThreadTypes DEF Mon
  <2>4. \A q \in Pods : podCache'[q] # None =>
          /\ ctxPod'[podCache'[q]] = q /\ Kind[podCache'[q]] = "infra"
          /\ pu'[podCache'[q]] # "new"
    BY <2>1, <2>2 DEF OwnPodInv
  <2>5. \A t \in Threads : job'[t].ctx # None =>
          /\ ctxPod'[job'[t].ctx] = job'[t].pod /\ Kind[job'[t].ctx] = "infra"
          /\ pu'[job'[t].ctx] # "new"
    BY <2>1, <2>2 DEF OwnPodInv
  <2>6. \A d \in Contexts : Kind[d] # "infra" =>
          /\ enforced'[d] \in {NoPolicy, notInfraContainerPolicy}
          /\ pc'[Mon(d)] \in {"idle", "resolve", "update"}
          /\ pc'[Mon(d)] = "update" => job'[Mon(d)].pol = notInfraContainerPolicy
    BY <2>1, <2>2, <2>3 DEF OwnPodInv
  <2>7. \A d \in Contexts : pc'[Mon(d)] # "idle" => pu'[d] # "new"
    BY <2>1, <2>2, <2>3 DEF OwnPodInv
  <2> QED BY <2>4, <2>5, <2>6, <2>7 DEF OwnPodInv
<1> QED BY <1>1, <1>2, <1>3 DEF Environment, CreatePod, AssignIP, UpdateApiPod,
       DeleteApiPod, ChangePod, ChangePolicy, ChangeNamespace

(* ResolvePolicy keeps OwnPodInv. *)
LEMMA OwnPodResolvePolicy ==
  ASSUME TypeInv, OwnPodInv, NEW c \in Contexts, ResolvePolicy(c)
  PROVE  OwnPodInv'
<1> DEFINE t == Mon(c)  p == ctxPod[c]
<1>0. /\ t \in Threads /\ job[t] \in Job /\ p \in Pods /\ pc[t] = "resolve"
      /\ pu[c] # "new" /\ ctxPod' = ctxPod /\ enforced' = enforced
      /\ \A d \in Contexts : Mon(d) \in Threads /\ (t = Mon(d) => d = c)
  BY ThreadTypes, BusyStarted DEF TypeInv, TypeOK, LocalsSet, ResolvePolicy, Mon
<1>t. /\ pc \in [Threads -> Positions] /\ job \in [Threads -> Job]
      /\ podCache \in [Pods -> Contexts \cup {None}]
      /\ \A q \in Threads : job[q].ctx \in Contexts \cup {None}
  BY DEF TypeInv, TypeOK, Job
<1>1. CASE /\ Kind[c] = "app"
           /\ Goto(t, "update", [job[t] EXCEPT !.pol = notInfraContainerPolicy])
           /\ UNCHANGED <<podCache, pu, missed>>
  <2> DEFINE j == [job[t] EXCEPT !.pol = notInfraContainerPolicy]
  <2>1. j.ctx = job[t].ctx /\ j.pod = job[t].pod /\ j.pol = notInfraContainerPolicy
    BY <1>0 DEF Job
  <2>2. pc' = [pc EXCEPT ![t] = "update"] /\ job' = [job EXCEPT ![t] = j]
    BY <1>1 DEF Goto
  <2> HIDE DEF j
  <2>3. \A u \in Threads : job'[u].ctx = job[u].ctx /\ job'[u].pod = job[u].pod
    BY <1>0, <1>t, <2>1, <2>2
  <2>4. \A u \in Threads : job'[u].ctx # None =>
          /\ ctxPod'[job'[u].ctx] = job'[u].pod /\ Kind[job'[u].ctx] = "infra"
          /\ pu'[job'[u].ctx] # "new"
    BY <1>0, <1>1, <2>3 DEF OwnPodInv
  <2>5. \A d \in Contexts : Kind[d] # "infra" =>
          /\ enforced'[d] \in {NoPolicy, notInfraContainerPolicy}
          /\ pc'[Mon(d)] \in {"idle", "resolve", "update"}
          /\ pc'[Mon(d)] = "update" => job'[Mon(d)].pol = notInfraContainerPolicy
    <3> HIDE DEF NoPolicy, notInfraContainerPolicy
    <3>1. ASSUME NEW d \in Contexts, Kind[d] # "infra", d # c
          PROVE  /\ enforced'[d] \in {NoPolicy, notInfraContainerPolicy}
                 /\ pc'[Mon(d)] \in {"idle", "resolve", "update"}
                 /\ pc'[Mon(d)] = "update" => job'[Mon(d)].pol = notInfraContainerPolicy
      <4>1. pc'[Mon(d)] = pc[Mon(d)] /\ job'[Mon(d)] = job[Mon(d)]
        BY <1>0, <1>t, <2>2, <3>1
      <4> QED BY <1>0, <3>1, <4>1 DEF OwnPodInv
    <3>2. /\ enforced'[c] \in {NoPolicy, notInfraContainerPolicy}
          /\ pc'[t] \in {"idle", "resolve", "update"}
          /\ pc'[t] = "update" => job'[t].pol = notInfraContainerPolicy
      <4>1. Kind[c] # "infra" BY <1>1
      <4> QED BY <1>0, <1>t, <2>1, <2>2, <4>1 DEF OwnPodInv
    <3> QED BY <3>1, <3>2
  <2>6. \A d \in Contexts : pc'[Mon(d)] # "idle" => pu'[d] # "new"
    BY <1>0, <1>t, <1>1, <2>2 DEF OwnPodInv
  <2>7. \A q \in Pods : podCache'[q] # None =>
          /\ ctxPod'[podCache'[q]] = q /\ Kind[podCache'[q]] = "infra"
          /\ pu'[podCache'[q]] # "new"
    BY <1>0, <1>1 DEF OwnPodInv
  <2> QED BY <2>4, <2>5, <2>6, <2>7 DEF OwnPodInv
<1>2. CASE Fail(t, None, "resolveFailed") /\ UNCHANGED podCache
  BY <1>0, <1>2, OwnPodFail
<1>3. CASE /\ Kind[c] = "infra"
           /\ podCache' = [podCache EXCEPT ![p] = c]
           /\ Goto(t, "getPod", [job[t] EXCEPT !.pod = p, !.ctx = c])
           /\ UNCHANGED <<pu, missed>>
  <2> DEFINE j == [job[t] EXCEPT !.pod = p, !.ctx = c]
  <2>1. j.ctx = c /\ j.pod = p BY <1>0 DEF Job
  <2>2. pc' = [pc EXCEPT ![t] = "getPod"] /\ job' = [job EXCEPT ![t] = j]
    BY <1>3 DEF Goto
  <2> HIDE DEF j
  <2>3. \A q \in Pods : podCache'[q] # None =>
          /\ ctxPod'[podCache'[q]] = q /\ Kind[podCache'[q]] = "infra"
          /\ pu'[podCache'[q]] # "new"
    BY <1>0, <1>t, <1>3 DEF OwnPodInv
  <2>4. \A u \in Threads : job'[u].ctx # None =>
          /\ ctxPod'[job'[u].ctx] = job'[u].pod /\ Kind[job'[u].ctx] = "infra"
          /\ pu'[job'[u].ctx] # "new"
    BY <1>0, <1>t, <1>3, <2>1, <2>2 DEF OwnPodInv
  <2>5. \A d \in Contexts : Kind[d] # "infra" =>
          /\ enforced'[d] \in {NoPolicy, notInfraContainerPolicy}
          /\ pc'[Mon(d)] \in {"idle", "resolve", "update"}
          /\ pc'[Mon(d)] = "update" => job'[Mon(d)].pol = notInfraContainerPolicy
    <3>1. ASSUME NEW d \in Contexts, Kind[d] # "infra"
          PROVE  pc'[Mon(d)] = pc[Mon(d)] /\ job'[Mon(d)] = job[Mon(d)]
      BY <1>0, <1>t, <1>3, <2>2, <3>1
    <3> HIDE DEF NoPolicy, notInfraContainerPolicy
    <3> QED BY <1>0, <3>1 DEF OwnPodInv
  <2>6. \A d \in Contexts : pc'[Mon(d)] # "idle" => pu'[d] # "new"
    BY <1>0, <1>t, <1>3, <2>2 DEF OwnPodInv
  <2> QED BY <2>3, <2>4, <2>5, <2>6 DEF OwnPodInv
<1> QED BY <1>0, <1>1, <1>2, <1>3 DEF ResolvePolicy, addPodToCache, tags

(* What a step of resolvePodPolicy does to the goroutine that takes it. *)
LEMMA ResolveSteps ==
  ASSUME TypeInv, NEW t \in Threads, Resolve(t), ~contextIDByPodName(t)
  PROVE  \/ \E q, r : Fail(t, q, r)
         \/ \E l \in Positions \ {"getPod", "next", "localPods"}, j \in Job :
              Goto(t, l, j) /\ j.ctx = job[t].ctx /\ j.pod = job[t].pod /\ UNCHANGED pu
<1> DEFINE p == job[t].pod
           Moves(l, j) == Goto(t, l, j) /\ j.ctx = job[t].ctx /\ j.pod = job[t].pod
                          /\ UNCHANGED pu
           R == \/ \E q, r : Fail(t, q, r)
                \/ \E l \in Positions \ {"getPod", "next", "localPods"}, j \in Job : Moves(l, j)
<1>0. job[t] \in Job BY DEF TypeInv, TypeOK
<1>p. {"update", "nsActive", "getWatcher", "listPolicies", "ingress", "egress"}
         \subseteq Positions \ {"getPod", "next", "localPods"}
  BY DEF Positions, Reading
<1>g. ASSUME NEW l \in Positions \ {"getPod", "next", "localPods"}, NEW j \in Job, Moves(l, j)
      PROVE  R
  BY <1>g
<1> SUFFICES R
  OBVIOUS
<1> HIDE DEF Moves, R
<1>4. CASE getPod(t)
  <2> DEFINE read == [job[t] EXCEPT !.repairs = missed[p]]
             j1 == [read EXCEPT !.pol = notInfraContainerPolicy]
             j2 == [read EXCEPT !.lab = api[p].lab]
  <2>1. p \in Pods /\ api[p] \in PodObj /\ missed[p] \in SUBSET Reasons
    BY <1>4 DEF getPod, TypeInv, TypeOK, LocalsSet
  <2>2. /\ j1 \in Job /\ j1.ctx = job[t].ctx /\ j1.pod = job[t].pod
        /\ j2 \in Job /\ j2.ctx = job[t].ctx /\ j2.pod = job[t].pod
    BY <1>0, <2>1, PolicyTypes DEF Job, PodObj
  <2>3. UNCHANGED pu /\ (Goto(t, "update", j1) \/ Goto(t, "nsActive", j2))
    BY <1>4 DEF getPod
  <2> HIDE DEF j1, j2
  <2>4. Moves("update", j1) \/ Moves("nsActive", j2) BY <2>2, <2>3 DEF Moves
  <2> QED BY <1>p, <1>g, <2>2, <2>4
<1>5. CASE isNamespaceActive(t)
  <2> DEFINE j == [job[t] EXCEPT !.pol = allowAllPolicy(job[t].lab)]
  <2>1. allowAllPolicy(job[t].lab) \in Policy BY <1>0, PolicyTypes DEF Job
  <2>2. j \in Job /\ j.ctx = job[t].ctx /\ j.pod = job[t].pod BY <1>0, <2>1 DEF Job
  <2>3. UNCHANGED pu /\ (Goto(t, "update", j) \/ Goto(t, "getWatcher", job[t]))
    BY <1>5 DEF isNamespaceActive
  <2> HIDE DEF j
  <2>4. Moves("update", j) \/ Moves("getWatcher", job[t]) BY <2>2, <2>3 DEF Moves
  <2> QED BY <1>0, <1>p, <1>g, <2>2, <2>4
<1>6. CASE getNamespaceWatcher(t)
  <2> DEFINE j == [job[t] EXCEPT !.w = active]
  <2>1. active \in Watchers \cup {None} BY DEF TypeInv, TypeOK
  <2>2. j \in Job /\ j.ctx = job[t].ctx /\ j.pod = job[t].pod BY <1>0, <2>1 DEF Job
  <2>3. \/ Goto(t, "listPolicies", j) /\ UNCHANGED pu
        \/ Fail(t, job[t].pod, "resolveFailed")
    BY <1>6 DEF getNamespaceWatcher
  <2> HIDE DEF j
  <2>4. Moves("listPolicies", j) \/ Fail(t, job[t].pod, "resolveFailed")
    BY <2>2, <2>3 DEF Moves
  <2> QED BY <1>p, <1>g, <2>2, <2>4 DEF R
<1>7. CASE getPolicyList(t)
  <2> DEFINE j == [job[t] EXCEPT !.list = polStore[job[t].w]]
  <2>1. polStore[job[t].w] \in PolicyMap
    BY <1>7 DEF getPolicyList, TypeInv, LocalsSet, TypeOK
  <2>2. j \in Job /\ j.ctx = job[t].ctx /\ j.pod = job[t].pod BY <1>0, <2>1 DEF Job
  <2>3. UNCHANGED pu /\ Goto(t, "ingress", j) BY <1>7 DEF getPolicyList
  <2> HIDE DEF j
  <2>4. Moves("ingress", j) BY <2>2, <2>3 DEF Moves
  <2> QED BY <1>p, <1>g, <2>2, <2>4
<1>8. CASE IngressPodRules(t)
  <2> DEFINE j == [job[t] EXCEPT !.in = PodRules(job[t].list, api[p].lab)]
  <2>1. PodRules(job[t].list, api[p].lab) \in SUBSET Rule
    BY <1>0, PodRulesType DEF Job
  <2>2. j \in Job /\ j.ctx = job[t].ctx /\ j.pod = job[t].pod BY <1>0, <2>1 DEF Job
  <2>3. UNCHANGED pu /\ Goto(t, "egress", j) BY <1>8 DEF IngressPodRules
  <2> HIDE DEF j
  <2>4. Moves("egress", j) BY <2>2, <2>3 DEF Moves
  <2> QED BY <1>p, <1>g, <2>2, <2>4
<1>9. CASE EgressPodRules(t)
  <2> DEFINE eg == IF EgressPolicies THEN PodRules(job[t].list, api[p].lab) ELSE {}
             j == [job[t] EXCEPT !.pol = generatePUPolicy(job[t].lab, job[t].in, eg)]
  <2>1. PodRules(job[t].list, api[p].lab) \in SUBSET Rule
    BY <1>0, PodRulesType DEF Job
  <2>2. eg \in SUBSET Rule /\ job[t].lab \in Labels /\ job[t].in \in SUBSET Rule
    BY <1>0, <2>1 DEF Job
  <2>3. generatePUPolicy(job[t].lab, job[t].in, eg) \in Policy BY <2>2, PolicyTypes
  <2>4. j \in Job /\ j.ctx = job[t].ctx /\ j.pod = job[t].pod BY <1>0, <2>3 DEF Job
  <2>5. \/ Goto(t, "update", j) /\ UNCHANGED pu
        \/ Fail(t, job[t].pod, "resolveFailed")
    BY <1>9 DEF EgressPodRules
  <2> HIDE DEF j
  <2>6. Moves("update", j) \/ Fail(t, job[t].pod, "resolveFailed")
    BY <2>4, <2>5 DEF Moves
  <2> QED BY <1>p, <1>g, <2>4, <2>6 DEF R
<1>10. CASE PodReadFails(t)
  BY <1>10 DEF PodReadFails, R
<1> QED BY <1>4, <1>5, <1>6, <1>7, <1>8, <1>9, <1>10 DEF Resolve

(* Every step of resolvePodPolicy keeps OwnPodInv. *)
LEMMA OwnPodResolve ==
  ASSUME TypeInv, OwnPodInv, NEW t \in Threads, Resolve(t)
  PROVE  OwnPodInv'
<1> DEFINE p == job[t].pod
<1>0. /\ job[t] \in Job /\ podCache \in [Pods -> Contexts \cup {None}]
      /\ pc[t] \notin {"idle", "resolve", "update"}
  BY DEF TypeInv, TypeOK, Resolve, contextIDByPodName, getPod, isNamespaceActive,
     getNamespaceWatcher, getPolicyList, IngressPodRules, EgressPodRules, PodReadFails
<1>1. \A c \in Contexts : t = Mon(c) => pu[c] # "new" /\ Kind[c] = "infra"
  BY <1>0, BusyStarted
<1>p. {"getPod", "update", "nsActive", "getWatcher", "listPolicies", "ingress",
       "egress"} \subseteq Positions
  BY DEF Positions, Reading
<1>f. ASSUME NEW q, NEW r, Fail(t, q, r), UNCHANGED <<podCache, ctxPod, enforced>>
      PROVE  OwnPodInv'
  BY <1>1, <1>f, OwnPodFail
<1>g. ASSUME NEW l \in Positions, NEW j \in Job, Goto(t, l, j),
             j.ctx = job[t].ctx /\ j.pod = job[t].pod,
             UNCHANGED <<podCache, ctxPod, enforced, pu>>
      PROVE  OwnPodInv'
  BY <1>1, <1>g, OwnPodGoto
<1>2. UNCHANGED <<podCache, ctxPod, enforced>>
  BY DEF Resolve, contextIDByPodName, getPod, isNamespaceActive,
     getNamespaceWatcher, getPolicyList, IngressPodRules, EgressPodRules,
     PodReadFails, unchangedByReads
<1>3. CASE contextIDByPodName(t)
  <2>1. PICK q \in job[t].todo :
          IF podCache[q] # None
          THEN /\ Goto(t, "getPod", [job[t] EXCEPT !.pod = q, !.ctx = podCache[q],
                                                   !.todo = @ \ {q}])
               /\ UNCHANGED <<pu, missed>>
          ELSE Fail(t, q, "unmapped")
    BY <1>3 DEF contextIDByPodName
  <2> DEFINE j == [job[t] EXCEPT !.pod = q, !.ctx = podCache[q], !.todo = @ \ {q}]
  <2>2. q \in Pods /\ j \in Job /\ j.pod = q /\ j.ctx = podCache[q]
    BY <1>0 DEF Job
  <2>3. CASE podCache[q] # None
    <3>1. Goto(t, "getPod", j) /\ UNCHANGED pu BY <2>1, <2>3
    <3>2. j.ctx \in Contexts /\ podCache[j.pod] = j.ctx /\ j.pod \in Pods
      BY <1>0, <2>2, <2>3
    <3> HIDE DEF j
    <3> QED BY <1>1, <1>2, <1>p, <2>2, <3>1, <3>2, OwnPodGoto
  <2>4. CASE podCache[q] = None
    BY <1>2, <1>f, <2>1, <2>4
  <2> QED BY <2>3, <2>4
<1>4. CASE ~contextIDByPodName(t)
  <2>1. \/ \E q, r : Fail(t, q, r)
        \/ \E l \in Positions \ {"getPod", "next", "localPods"}, j \in Job :
             Goto(t, l, j) /\ j.ctx = job[t].ctx /\ j.pod = job[t].pod /\ UNCHANGED pu
    BY <1>4, ResolveSteps
  <2> QED BY <1>2, <1>f, <1>g, <2>1
<1> QED BY <1>3, <1>4

(* Writing a policy: jobs keep their pods and containers, or are reset.    *)
LEMMA OvertakeKeeps ==
  ASSUME TypeOK, NEW t \in Threads, NEW c
  PROVE  \A u \in Threads :
           IF u = t THEN Overtake(t, c)[u] = NoJob
           ELSE /\ Overtake(t, c)[u].ctx = job[u].ctx
                /\ Overtake(t, c)[u].pod = job[u].pod
                /\ Overtake(t, c)[u].pol = job[u].pol
<1>1. \A u \in Threads : job[u] \in Job BY DEF TypeOK
<1>2. \A j \in Job : /\ [j EXCEPT !.late = TRUE].ctx = j.ctx
                     /\ [j EXCEPT !.late = TRUE].pod = j.pod
                     /\ [j EXCEPT !.late = TRUE].pol = j.pol
  BY DEF Job
<1> HIDE DEF NoJob
<1> QED BY <1>1, <1>2 DEF Overtake

(* The creation of a PU keeps OwnPodInv. *)
LEMMA OwnPodCreatePU ==
  ASSUME TypeInv, OwnPodInv, NEW c \in Contexts, CreatePU(c)
  PROVE  OwnPodInv'
<1> DEFINE t == Mon(c)
<1>0. /\ t \in Threads /\ pc[t] = "update" /\ pu[c] # "new"
      /\ \A d \in Contexts : Mon(d) \in Threads /\ (t = Mon(d) => d = c)
      /\ Kind[c] # "infra" => job[t].pol = notInfraContainerPolicy
  BY ThreadTypes DEF CreatePU, OwnPodInv, Mon
<1>1. /\ pu' \in {[pu EXCEPT ![c] = "gone"], [pu EXCEPT ![c] = "up"]}
      /\ enforced' \in {enforced, [enforced EXCEPT ![c] = job[t].pol]}
      /\ job' = Overtake(t, c) /\ pc' = [pc EXCEPT ![t] = "idle"]
      /\ UNCHANGED <<ctxPod, podCache>>
  BY DEF CreatePU
<1>2. /\ pc \in [Threads -> Positions]
      /\ pu \in [Contexts -> {"new", "creating", "up", "failed", "gone"}]
      /\ enforced \in [Contexts -> Policy]
      /\ \A q \in Pods : podCache[q] \in Contexts \cup {None}
      /\ \A u \in Threads : job[u].ctx \in Contexts \cup {None}
  BY DEF TypeInv, TypeOK, Job
<1>3. \A d \in Contexts : pu'[d] = "new" => pu[d] = "new" BY <1>1, <1>2
<1>4. \A u \in Threads :
         IF u = t THEN job'[u].ctx = None
         ELSE /\ job'[u].ctx = job[u].ctx /\ job'[u].pod = job[u].pod
              /\ job'[u].pol = job[u].pol
  BY <1>0, <1>1, OvertakeKeeps, NoJobType DEF TypeInv
<1>5. \A q \in Pods : podCache'[q] # None =>
        /\ ctxPod'[podCache'[q]] = q /\ Kind[podCache'[q]] = "infra"
        /\ pu'[podCache'[q]] # "new"
  BY <1>1, <1>2, <1>3 DEF OwnPodInv
<1>6. \A u \in Threads : job'[u].ctx # None =>
        /\ ctxPod'[job'[u].ctx] = job'[u].pod /\ Kind[job'[u].ctx] = "infra"
        /\ pu'[job'[u].ctx] # "new"
  BY <1>1, <1>2, <1>3, <1>4 DEF OwnPodInv
<1>7. ASSUME NEW d \in Contexts, Kind[d] # "infra"
      PROVE  /\ enforced'[d] \in {NoPolicy, notInfraContainerPolicy}
             /\ pc'[Mon(d)] \in {"idle", "resolve", "update"}
             /\ pc'[Mon(d)] = "update" => job'[Mon(d)].pol = notInfraContainerPolicy
  <2> HIDE DEF NoPolicy, notInfraContainerPolicy
  <2>1. CASE d = c BY <1>0, <1>1, <1>2, <1>7, <2>1 DEF OwnPodInv
  <2>2. CASE d # c
    <3>1. /\ enforced'[d] = enforced[d] /\ pc'[Mon(d)] = pc[Mon(d)]
          /\ job'[Mon(d)].pol = job[Mon(d)].pol
      BY <1>0, <1>1, <1>2, <1>4, <2>2
    <3> QED BY <1>7, <3>1 DEF OwnPodInv
  <2> QED BY <2>1, <2>2
<1>8. \A d \in Contexts : pc'[Mon(d)] # "idle" => pu'[d] # "new"
  BY <1>0, <1>1, <1>2, <1>3 DEF OwnPodInv
<1> QED BY <1>5, <1>6, <1>7, <1>8 DEF OwnPodInv

(* A policy update, successful or not, keeps OwnPodInv. *)
LEMMA OwnPodUpdatePolicy ==
  ASSUME TypeInv, OwnPodInv, NEW t \in Controllers, UpdatePolicy(t)
  PROVE  OwnPodInv'
<1> DEFINE c == job[t].ctx
<1>0. t \in Threads /\ \A d \in Contexts : Mon(d) \in Threads /\ t # Mon(d)
  BY ThreadTypes DEF Threads, Controllers, Mon
<1>1. /\ enforced' = [enforced EXCEPT ![c] = job[t].pol]
      /\ \A u \in Threads : u # t => pc'[u] = pc[u]
      /\ job' = [Overtake(t, c) EXCEPT ![t].todo = job[t].todo]
      /\ UNCHANGED <<ctxPod, podCache, pu>>
  BY DEF UpdatePolicy, TypeInv, TypeOK
<1>2. /\ enforced \in [Contexts -> Policy] /\ c \in Contexts \cup {None}
      /\ \A q \in Pods : podCache[q] \in Contexts \cup {None}
      /\ \A u \in Threads : job[u].ctx \in Contexts \cup {None}
      /\ None \notin Contexts
  BY <1>0, ConstantsAssumption DEF TypeInv, TypeOK, Job
<1>3. \A u \in Threads :
         IF u = t THEN job'[u].ctx = None
         ELSE /\ job'[u].ctx = job[u].ctx /\ job'[u].pod = job[u].pod
              /\ job'[u].pol = job[u].pol
  <2>1. /\ DOMAIN Overtake(t, c) = Threads
        /\ Overtake(t, c)[t] = NoJob
    BY <1>0, OvertakeKeeps DEF TypeInv, Overtake
  <2>2. [NoJob EXCEPT !.todo = job[t].todo].ctx = None BY NoJobType DEF Job
  <2>3. job' = [Overtake(t, c) EXCEPT ![t] = [NoJob EXCEPT !.todo = job[t].todo]]
    BY <1>1, <2>1
  <2>4. job'[t].ctx = None BY <1>0, <2>1, <2>2, <2>3
  <2>5. \A u \in Threads : u # t => job'[u] = Overtake(t, c)[u] BY <2>1, <2>3
  <2> QED BY <1>0, <2>4, <2>5, OvertakeKeeps DEF TypeInv
<1>4. \A q \in Pods : podCache'[q] # None =>
        /\ ctxPod'[podCache'[q]] = q /\ Kind[podCache'[q]] = "infra"
        /\ pu'[podCache'[q]] # "new"
  BY <1>1, <1>2 DEF OwnPodInv
<1>5. \A u \in Threads : job'[u].ctx # None =>
        /\ ctxPod'[job'[u].ctx] = job'[u].pod /\ Kind[job'[u].ctx] = "infra"
        /\ pu'[job'[u].ctx] # "new"
  BY <1>1, <1>2, <1>3 DEF OwnPodInv
<1>6. ASSUME NEW d \in Contexts, Kind[d] # "infra"
      PROVE  /\ enforced'[d] \in {NoPolicy, notInfraContainerPolicy}
             /\ pc'[Mon(d)] \in {"idle", "resolve", "update"}
             /\ pc'[Mon(d)] = "update" => job'[Mon(d)].pol = notInfraContainerPolicy
  <2> HIDE DEF NoPolicy, notInfraContainerPolicy
  <2>1. d # c BY <1>0, <1>2, <1>6 DEF OwnPodInv
  <2>2. /\ enforced'[d] = enforced[d] /\ pc'[Mon(d)] = pc[Mon(d)]
        /\ job'[Mon(d)].pol = job[Mon(d)].pol
    BY <1>0, <1>1, <1>2, <1>3, <2>1
  <2> QED BY <1>6, <2>2 DEF OwnPodInv
<1>7. \A d \in Contexts : pc'[Mon(d)] # "idle" => pu'[d] # "new"
  BY <1>0, <1>1 DEF OwnPodInv
<1> QED BY <1>4, <1>5, <1>6, <1>7 DEF OwnPodInv

(* The first step of a handler: its controller's job holds no container.   *)
LEMMA OwnPodHandler ==
  ASSUME TypeInv, OwnPodInv, NEW t \in Controllers, NEW l \in Positions, NEW j \in Job,
         Goto(t, l, j), j.ctx = None, UNCHANGED <<podCache, ctxPod, enforced, pu>>
  PROVE  OwnPodInv'
<1>1. t \in Threads /\ \A c \in Contexts : t # Mon(c)
  BY DEF Threads, Controllers, Mon
<1> QED BY <1>1, OwnPodGoto

(* The controllers of a watcher keep OwnPodInv. *)
LEMMA OwnPodControllers ==
  ASSUME TypeInv, OwnPodInv, NEW w \in Watchers, PodController(w) \/ PolicyController(w)
  PROVE  OwnPodInv'
<1>0. /\ PodCtl(w) \in Controllers /\ PolCtl(w) \in Controllers
      /\ Controllers \subseteq Threads
      /\ \A t \in Controllers, c \in Contexts : t # Mon(c)
  BY DEF Controllers, Threads, PodCtl, PolCtl, Mon
<1>1. ASSUME NEW t \in Controllers, Resolve(t) PROVE OwnPodInv'
  BY <1>0, <1>1, OwnPodResolve
<1>2. ASSUME NEW t \in Controllers, UpdatePolicy(t) PROVE OwnPodInv'
  BY <1>2, OwnPodUpdatePolicy
<1>3. ASSUME NEW t \in Controllers, UpdatePolicyFails(t) PROVE OwnPodInv'
  BY <1>0, <1>3, OwnPodFail DEF UpdatePolicyFails, unchangedByReads
<1>4. \A S \in SUBSET Pods : /\ [NoJob EXCEPT !.todo = S] \in Job
                             /\ [NoJob EXCEPT !.todo = S].ctx = None
  BY NoJobType DEF Job
<1>p. {"idle", "next", "localPods"} \subseteq Positions BY DEF Positions
<1>5. ASSUME NEW p \in Pods, addPod(w, p) \/ updatePod(w, p) \/ deletePod(w, p)
      PROVE  OwnPodInv'
  <2>1. UNCHANGED <<ctxPod, enforced, pu>>
    BY <1>5 DEF addPod, updatePod, deletePod, Pop, puVars
  <2>2. \/ UNCHANGED podCache /\ Goto(PodCtl(w), "next", [NoJob EXCEPT !.todo = {p}])
        \/ /\ podCache' \in {podCache, [podCache EXCEPT ![p] = None]}
           /\ UNCHANGED jobVars
    BY <1>5 DEF addPod, updatePod, deletePod, deleteFromCacheByPodName
  <2>3. CASE /\ UNCHANGED podCache
             /\ Goto(PodCtl(w), "next", [NoJob EXCEPT !.todo = {p}])
    <3> HIDE DEF NoJob
    <3> QED BY <1>0, <1>4, <1>p, <2>1, <2>3, OwnPodHandler
  <2>4. CASE /\ podCache' \in {podCache, [podCache EXCEPT ![p] = None]}
             /\ UNCHANGED jobVars
    <3>1. \A q \in Pods : podCache'[q] \in {podCache[q], None}
      BY <2>4 DEF TypeInv, TypeOK
    <3> QED BY <2>1, <2>4, <3>1, OwnPodFrame
  <2> QED BY <2>2, <2>3, <2>4
<1>6. ASSUME NEW x \in Policies, \/ addNetworkPolicy(w, x) \/ updateNetworkPolicy(w, x)
                                 \/ deleteNetworkPolicy(w, x)
      PROVE  OwnPodInv'
  <2>1. PICK sel, lost : PopPolicy(w, x, sel, lost)
    BY <1>6 DEF addNetworkPolicy, updateNetworkPolicy, deleteNetworkPolicy
  <2> DEFINE j == [NoJob EXCEPT !.sel = sel, !.lost = lost]
  <2>2. /\ Goto(PolCtl(w), "localPods", j)
        /\ UNCHANGED <<podCache, ctxPod, enforced, pu>>
    BY <2>1 DEF PopPolicy, puVars
  <2>3. j \in Job
    <3>1. job'[PolCtl(w)] = j BY <1>0, <2>2 DEF Goto, TypeInv, TypeOK
    <3>2. TypeInv' BY <1>6, PolicyHandlerType
    <3> QED BY <1>0, <3>1, <3>2 DEF TypeInv, TypeOK
  <2>4. j.ctx = None BY NoJobType DEF Job
  <2> HIDE DEF j
  <2> QED BY <1>0, <1>p, <2>2, <2>3, <2>4, OwnPodHandler
<1>7. ASSUME LocalPods(PolCtl(w)) \/ LocalPodsFails(PolCtl(w))
      PROVE  OwnPodInv'
  <2> DEFINE t == PolCtl(w)  j == [NoJob EXCEPT !.todo = Selected(job[t].sel)]
  <2>1. Selected(job[t].sel) \in SUBSET Pods BY DEF Selected
  <2>2. /\ Goto(t, "idle", NoJob) \/ Goto(t, "idle", j) \/ Goto(t, "next", j)
        /\ UNCHANGED <<podCache, ctxPod, enforced, pu>>
    BY <1>7 DEF LocalPods, LocalPodsFails, unchangedByReads
  <2>3. j \in Job /\ j.ctx = None BY <1>4, <2>1
  <2> HIDE DEF j, NoJob
  <2> QED BY <1>0, <1>p, <2>2, <2>3, NoJobType, OwnPodHandler
<1> QED BY <1>0, <1>1, <1>2, <1>3, <1>5, <1>6, <1>7 DEF PodController, PolicyController

(* Every step keeps OwnPodInv. *)
LEMMA OwnPodStep == TypeInv /\ OwnPodInv /\ [Next]_vars => OwnPodInv'
<1> SUFFICES ASSUME TypeInv, OwnPodInv, [Next]_vars PROVE OwnPodInv'
  OBVIOUS
<1>1. CASE Environment BY <1>1, OwnPodEnvironment
<1>2. CASE NamespaceController \/ UNCHANGED vars
  <2>1. UNCHANGED <<jobVars, puVars, podCache>>
    BY <1>2 DEF NamespaceController, addNamespace, deleteNamespace, updateNamespace,
       PopNamespace, StartPodController, StartPolicyController,
       activateNamespaceWatcher, vars
  <2> QED BY <2>1, OwnPodFrame DEF puVars
<1>3. ASSUME NEW c \in Contexts, Monitor(c) PROVE OwnPodInv'
  BY <1>3, ThreadTypes, OwnPodResolvePolicy, OwnPodResolve, OwnPodCreatePU DEF Monitor
<1> QED BY <1>1, <1>2, <1>3, OwnPodControllers DEF Next

(* No container ever gets another pod's policy, and none but infra         *)
(* containers are policed (ResolvePolicy, updatePodPolicy, cache.go).      *)
THEOREM OwnPodPolicy == Spec => []PolicyReachesOwnPod
<1>1. OwnPodInv => PolicyReachesOwnPod BY DEF OwnPodInv, PolicyReachesOwnPod
<1> QED BY <1>1, InitType, NextType, OwnPodInvInit, OwnPodStep, PTL DEF Spec

=============================================================================
