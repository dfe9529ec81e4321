------------------------ MODULE PolicyResolutionProofs ------------------------
(* Proofs about PolicyResolution, for every value of its constants.        *)
EXTENDS PolicyResolution, TLAPS

(* What a goroutine's position says of its locals: the pod of a resolution *)
(* is known before it is read, the watcher before its store is listed, and *)
(* a container's pod before ResolvePolicy runs.                            *)
LocalsSet ==
  /\ \A t \in Threads : pc[t] = "getPod" => job[t].pod \in Pods
  /\ \A t \in Threads : pc[t] = "listPolicies" => job[t].w \in Watchers
  /\ \A c \in Contexts : pc[Mon(c)] = "resolve" => ctxPod[c] \in Pods

TypeInv == TypeOK /\ LocalsSet

-----------------------------------------------------------------------------
(* The values the actions build have their types. *)

(* The policies the resolver builds have the type of policies. *)
LEMMA PolicyTypes ==
  /\ NoPolicy \in Policy
  /\ notInfraContainerPolicy \in Policy
  /\ \A l \in Labels : allowAllPolicy(l) \in Policy
  /\ \A l \in Labels, i \in SUBSET Rule, e \in SUBSET Rule :
       generatePUPolicy(l, i, e) \in Policy
BY ConstantsAssumption
   DEF Policy, NoPolicy, notInfraContainerPolicy, allowAllPolicy, generatePUPolicy

(* The locals of an idle goroutine have their type. *)
LEMMA NoJobType == NoJob \in Job /\ NoJob.pod = None /\ NoJob.ctx = None
BY ConstantsAssumption, PolicyTypes
   DEF Job, NoJob, PolicyMap, NoPolicies

(* PodRules returns rules of the listed policies. *)
LEMMA PodRulesType ==
  ASSUME NEW list \in PolicyMap, NEW l
  PROVE  PodRules(list, l) \in SUBSET Rule
BY DEF PodRules, PolicyMap, Rule, PolObj

(* The goroutines of a watcher and of a container are threads. *)
LEMMA ThreadTypes ==
  /\ \A w \in Watchers : PodCtl(w) \in Threads /\ PolCtl(w) \in Threads
  /\ \A c \in Contexts : Mon(c) \in Threads
  /\ \A t \in Monitors : t[2] \in Contexts /\ t = Mon(t[2])
BY DEF Threads, Controllers, Monitors, PodCtl, PolCtl, Mon

(* A step of one goroutine to a typed position with typed locals is typed. *)
LEMMA GotoType ==
  ASSUME TypeOK, NEW t \in Threads, NEW l \in Positions, NEW j \in Job,
         Goto(t, l, j)
  PROVE  pc' \in [Threads -> Positions] /\ job' \in [Threads -> Job]
BY DEF TypeOK, Goto

(* Recording lost updates keeps the history typed. *)
LEMMA FlagTypes ==
  ASSUME TypeOK
  PROVE  /\ \A S, r : r \in Reasons => Flag(S, r) \in [Pods -> SUBSET Reasons]
         /\ \A q, R : R \in SUBSET Reasons => Flags(q, R) \in [Pods -> SUBSET Reasons]
BY DEF TypeOK, Flag, Flags

(* A failed resolution keeps the positions, locals and history typed. *)
LEMMA FailType ==
  ASSUME TypeOK, NEW t \in Threads, NEW p, NEW r \in Reasons, Fail(t, p, r)
  PROVE  /\ pc' \in [Threads -> Positions] /\ job' \in [Threads -> Job]
         /\ missed' \in [Pods -> SUBSET Reasons]
         /\ pu' \in [Contexts -> {"new", "creating", "up", "failed", "gone"}]
<1>1. Goto(t, "idle", NoJob) BY DEF Fail
<1>2. pc' \in [Threads -> Positions] /\ job' \in [Threads -> Job]
  BY <1>1, NoJobType, GotoType DEF Positions
<1>3. job[t].repairs \in SUBSET Reasons BY DEF TypeOK, Job
<1>4. CASE t \in Monitors
  <2>1. missed' = Flags(p, job[t].repairs) /\ pu' = [pu EXCEPT ![t[2]] = "failed"]
    BY <1>4 DEF Fail
  <2> QED BY <2>1, <1>2, <1>3, FlagTypes DEF TypeOK
<1>5. CASE t \notin Monitors
  <2>1. /\ missed' = [q \in Pods |->
               IF q = p THEN missed[q] \cup job[t].repairs \cup {r}
               ELSE IF q \in job[t].todo THEN missed[q] \cup {"aborted"}
               ELSE missed[q]]
        /\ UNCHANGED pu
    BY <1>5 DEF Fail
  <2>2. "aborted" \in Reasons BY DEF Reasons
  <2>3. missed' \in [Pods -> SUBSET Reasons] BY <2>1, <2>2, <1>3 DEF TypeOK
  <2> QED BY <2>1, <2>3, <1>2 DEF TypeOK
<1> QED BY <1>4, <1>5

-----------------------------------------------------------------------------
(* Type correctness. *)

(* The type invariant holds when the process starts. *)
LEMMA InitType == Init => TypeInv
<1> SUFFICES ASSUME Init PROVE TypeInv
  OBVIOUS
<1> USE ConstantsAssumption
<1>1. /\ api \in [Pods -> PodObj \cup {None}]
      /\ pols \in PolicyMap
      /\ ns \in NsObj /\ nsQ \in Seq(NsObj) /\ nsStore \in NsObj
  <2>1. ns \in NsObj /\ nsStore \in NsObj /\ nsQ \in {<<>>, <<ns>>}
    BY DEF Init, NsObj
  <2> QED BY <2>1 DEF Init, PolicyMap
<1>2. /\ live \in [Pods -> Contexts \cup {None}]
      /\ ctxPod \in [Contexts -> Pods \cup {None}]
      /\ pu \in [Contexts -> {"new", "creating", "up", "failed", "gone"}]
      /\ enforced \in [Contexts -> Policy]
      /\ missed \in [Pods -> SUBSET Reasons]
  BY PolicyTypes DEF Init
<1>3. /\ podQ \in [Watchers -> [Pods -> Seq(PodObj \cup {None})]]
      /\ podStore \in [Watchers -> [Pods -> PodObj \cup {None}]]
      /\ polQ \in [Watchers -> [Policies -> Seq(PolObj \cup {None})]]
      /\ polStore \in [Watchers -> PolicyMap]
      /\ fed \in [Watchers -> SUBSET {"pod", "pol"}]
      /\ podCache \in [Pods -> Contexts \cup {None}]
  BY DEF Init, PolicyMap, NoPolicies
<1>4. /\ active \in Watchers \cup {None}
      /\ nsPc \in {"idle", "startPods", "startPolicies", "activate"}
      /\ nsW \in Watchers \cup {None}
      /\ wstate \in [Watchers -> {"unused", "started", "retired"}]
      /\ changes \in 0..MaxChanges
      /\ nsChanges \in 0..MaxNsChanges
      /\ faults \in 0..MaxFaults
  BY DEF Init
<1>5. pc \in [Threads -> Positions] /\ job \in [Threads -> Job]
  BY NoJobType DEF Init, Positions
<1>6. LocalsSet
  BY ThreadTypes DEF Init, LocalsSet
<1> QED BY <1>1, <1>2, <1>3, <1>4, <1>5, <1>6 DEF TypeInv, TypeOK

(* The API server's queues keep their types. *)
LEMMA PushType ==
  ASSUME NEW O, NEW V, NEW Q \in [Watchers -> [O -> Seq(V)]], NEW kind,
         NEW o \in O, NEW v \in V
  PROVE  Push(Q, kind, o, v) \in [Watchers -> [O -> Seq(V)]]
<1>1. ASSUME NEW w \in Watchers
      PROVE  [Q[w] EXCEPT ![o] = Append(@, v)] \in [O -> Seq(V)]
  <2>1. Q[w] \in [O -> Seq(V)] OBVIOUS
  <2>2. Append(Q[w][o], v) \in Seq(V) BY <2>1
  <2> QED BY <2>1, <2>2
<1> QED BY <1>1 DEF Push

(* A change of a pod at the API server keeps the types. *)
LEMMA ChangePodType ==
  ASSUME TypeInv, NEW p \in Pods, NEW v \in PodObj \cup {None}, ChangePod(p, v)
  PROVE  TypeInv'
<1>1. api' \in [Pods -> PodObj \cup {None}] BY DEF TypeInv, TypeOK, ChangePod
<1>2. podQ' \in [Watchers -> [Pods -> Seq(PodObj \cup {None})]]
  BY PushType DEF TypeInv, TypeOK, ChangePod
<1>3. changes' \in 0..MaxChanges
  BY ConstantsAssumption DEF TypeInv, TypeOK, ChangePod
<1> QED BY <1>1, <1>2, <1>3
   DEF TypeInv, TypeOK, LocalsSet, ChangePod, puVars, nsQVars, polQVars, nsVars, jobVars

(* Every step of the environment keeps the types. *)
LEMMA EnvironmentType ==
  ASSUME TypeInv, Environment
  PROVE  TypeInv'
<1>1. ASSUME NEW p \in Pods,
             CreatePod(p) \/ AssignIP(p) \/ UpdateApiPod(p) \/ DeleteApiPod(p)
      PROVE  TypeInv'
  <2>1. \E v \in PodObj \cup {None} : ChangePod(p, v)
    <3>1. CASE CreatePod(p)
      BY <3>1 DEF CreatePod, PodObj
    <3>2. CASE AssignIP(p)
      <4>1. api[p] \in PodObj BY <3>2 DEF AssignIP, TypeInv, TypeOK
      <4> QED BY <3>2, <4>1 DEF AssignIP, PodObj
    <3>3. CASE UpdateApiPod(p)
      <4>1. api[p] \in PodObj BY <3>3 DEF UpdateApiPod, TypeInv, TypeOK
      <4> QED BY <3>3, <4>1 DEF UpdateApiPod, PodObj
    <3>4. CASE DeleteApiPod(p)
      BY <3>4 DEF DeleteApiPod
    <3> QED BY <1>1, <3>1, <3>2, <3>3, <3>4
  <2> QED BY <2>1, ChangePodType
<1>2. ASSUME NEW p \in Pods, StopContainer(p)
      PROVE  TypeInv'
  <2>1. live' \in [Pods -> Contexts \cup {None}]
    BY <1>2 DEF TypeInv, TypeOK, StopContainer
  <2>2. pu' \in [Contexts -> {"new", "creating", "up", "failed", "gone"}]
    BY <1>2 DEF TypeInv, TypeOK, StopContainer
  <2>3. enforced' \in [Contexts -> Policy]
    BY <1>2, PolicyTypes DEF TypeInv, TypeOK, StopContainer
  <2> QED BY <1>2, <2>1, <2>2, <2>3
     DEF TypeInv, TypeOK, LocalsSet, StopContainer, apiVars, nsQVars, podQVars,
         polQVars, nsVars, jobVars, bounds
<1>3. ASSUME NEW x \in Policies, ChangePolicy(x)
      PROVE  TypeInv'
  <2>1. PICK v \in PolObj \cup {None} : /\ pols' = [pols EXCEPT ![x] = v]
                                        /\ polQ' = Push(polQ, "pol", x, v)
    BY <1>3 DEF ChangePolicy
  <2>2. pols' \in PolicyMap BY <2>1 DEF TypeInv, TypeOK, PolicyMap
  <2>3. polQ' \in [Watchers -> [Policies -> Seq(PolObj \cup {None})]]
    BY <2>1, PushType DEF TypeInv, TypeOK
  <2>4. changes' \in 0..MaxChanges
    BY <1>3, ConstantsAssumption DEF TypeInv, TypeOK, ChangePolicy
  <2> QED BY <1>3, <2>2, <2>3, <2>4
     DEF TypeInv, TypeOK, LocalsSet, ChangePolicy, puVars, nsQVars, podQVars,
         nsVars, jobVars
<1>4. ASSUME ChangeNamespace
      PROVE  TypeInv'
  <2>1. ns' \in NsObj /\ nsQ' \in Seq(NsObj)
    BY <1>4 DEF TypeInv, TypeOK, ChangeNamespace
  <2>2. nsChanges' \in 0..MaxNsChanges
    BY <1>4, ConstantsAssumption DEF TypeInv, TypeOK, ChangeNamespace
  <2> QED BY <1>4, <2>1, <2>2
     DEF TypeInv, TypeOK, LocalsSet, ChangeNamespace, puVars, podQVars, polQVars,
         nsVars, jobVars
<1>5. ASSUME NEW c \in Contexts, NEW p \in Pods, StartContainer(c, p)
      PROVE  TypeInv'
  <2>1. /\ ctxPod' \in [Contexts -> Pods \cup {None}]
        /\ pu' \in [Contexts -> {"new", "creating", "up", "failed", "gone"}]
        /\ live' \in [Pods -> Contexts \cup {None}]
        /\ missed' \in [Pods -> SUBSET Reasons]
    BY <1>5 DEF TypeInv, TypeOK, StartContainer
  <2>2. pc' \in [Threads -> Positions] /\ pc' = [pc EXCEPT ![Mon(c)] = "resolve"]
    BY <1>5, ThreadTypes DEF TypeInv, TypeOK, StartContainer, Positions
  <2>3. LocalsSet'
    <3>1. \A d \in Contexts : Mon(d) = Mon(c) => d = c BY DEF Mon
    <3> QED BY <1>5, <2>1, <2>2, <3>1, ThreadTypes
         DEF TypeInv, TypeOK, LocalsSet, StartContainer
  <2> QED BY <1>5, <2>1, <2>2, <2>3
     DEF TypeInv, TypeOK, StartContainer, apiVars, nsQVars, podQVars, polQVars,
         nsVars, bounds
<1> QED BY <1>1, <1>2, <1>3, <1>4, <1>5 DEF Environment

(* A goroutine that moves on keeps LocalsSet if its new locals respect it. *)
LEMMA GotoLocals ==
  ASSUME TypeInv, NEW t \in Threads, NEW l \in Positions \ {"resolve"},
         NEW j \in Job, Goto(t, l, j), UNCHANGED ctxPod,
         l = "getPod" => j.pod \in Pods, l = "listPolicies" => j.w \in Watchers
  PROVE  /\ pc' \in [Threads -> Positions] /\ job' \in [Threads -> Job]
         /\ LocalsSet'
<1>1. pc' \in [Threads -> Positions] /\ job' \in [Threads -> Job]
  BY GotoType DEF TypeInv
<1>2. /\ pc' = [pc EXCEPT ![t] = l] /\ job' = [job EXCEPT ![t] = j]
      /\ pc \in [Threads -> Positions] /\ job \in [Threads -> Job]
  BY DEF Goto, TypeInv, TypeOK
<1>3. \A c \in Contexts : Mon(c) \in Threads BY ThreadTypes
<1>4. LocalsSet'
  BY <1>2, <1>3 DEF TypeInv, LocalsSet
<1> QED BY <1>1, <1>4

(* A failed resolution keeps LocalsSet: the goroutine reads no pod. *)
LEMMA FailLocals ==
  ASSUME TypeInv, NEW t \in Threads, NEW p, NEW r \in Reasons, Fail(t, p, r),
         UNCHANGED ctxPod
  PROVE  /\ pc' \in [Threads -> Positions] /\ job' \in [Threads -> Job]
         /\ missed' \in [Pods -> SUBSET Reasons]
         /\ pu' \in [Contexts -> {"new", "creating", "up", "failed", "gone"}]
         /\ LocalsSet'
<1>1. Goto(t, "idle", NoJob) BY DEF Fail
<1> QED BY <1>1, NoJobType, GotoLocals, FailType DEF TypeInv, Positions

(* The count of faults stays within its bound. *)
LEMMA FaultType ==
  ASSUME TypeOK, NEW must, CallFails(must)
  PROVE  faults' \in 0..MaxFaults
BY ConstantsAssumption DEF TypeOK, CallFails

(* ResolvePolicy keeps the types. *)
LEMMA ResolvePolicyType ==
  ASSUME TypeInv, NEW c \in Contexts, ResolvePolicy(c)
  PROVE  TypeInv'
<1> DEFINE t == Mon(c)  p == ctxPod[c]
<1>0. t \in Threads /\ job[t] \in Job /\ p \in Pods /\ pc[t] = "resolve"
  BY ThreadTypes DEF TypeInv, TypeOK, LocalsSet, ResolvePolicy
<1>1. CASE /\ Goto(t, "update", [job[t] EXCEPT !.pol = notInfraContainerPolicy])
           /\ UNCHANGED <<podCache, pu, missed>>
  <2>1. [job[t] EXCEPT !.pol = notInfraContainerPolicy] \in Job
    BY <1>0, PolicyTypes DEF Job
  <2>2. /\ pc' \in [Threads -> Positions] /\ job' \in [Threads -> Job]
        /\ LocalsSet'
    BY <1>0, <1>1, <2>1, GotoLocals DEF ResolvePolicy, Positions, Reading
  <2> QED BY <1>1, <2>2
     DEF ResolvePolicy, TypeInv, TypeOK, apiVars, nsQVars, podQVars, polQVars,
         nsVars, bounds
<1>2. CASE Fail(t, None, "resolveFailed") /\ UNCHANGED podCache
  <2> "resolveFailed" \in Reasons BY DEF Reasons
  <2>2. /\ pc' \in [Threads -> Positions] /\ job' \in [Threads -> Job]
        /\ missed' \in [Pods -> SUBSET Reasons]
        /\ pu' \in [Contexts -> {"new", "creating", "up", "failed", "gone"}]
        /\ LocalsSet'
    BY <1>0, <1>2, FailLocals DEF ResolvePolicy
  <2> QED BY <1>2, <2>2
     DEF ResolvePolicy, TypeInv, TypeOK, apiVars, nsQVars, podQVars, polQVars,
         nsVars, bounds
<1>3. CASE /\ podCache' = [podCache EXCEPT ![p] = c]
           /\ Goto(t, "getPod", [job[t] EXCEPT !.pod = p, !.ctx = c])
           /\ UNCHANGED <<pu, missed>>
  <2>1. /\ [job[t] EXCEPT !.pod = p, !.ctx = c] \in Job
        /\ [job[t] EXCEPT !.pod = p, !.ctx = c].pod \in Pods
    BY <1>0 DEF Job
  <2>2. /\ pc' \in [Threads -> Positions] /\ job' \in [Threads -> Job]
        /\ LocalsSet'
    BY <1>0, <1>3, <2>1, GotoLocals DEF ResolvePolicy, Positions
  <2>3. podCache' \in [Pods -> Contexts \cup {None}]
    BY <1>0, <1>3 DEF TypeInv, TypeOK
  <2> QED BY <1>3, <2>2, <2>3
     DEF ResolvePolicy, TypeInv, TypeOK, apiVars, nsQVars, podQVars, polQVars,
         nsVars, bounds
<1> QED BY <1>1, <1>2, <1>3 DEF ResolvePolicy, addPodToCache, tags

(* Every action of Resolve leaves all but these variables alone. *)
LEMMA ReadsType ==
  ASSUME TypeInv, UNCHANGED unchangedByReads,
         pc' \in [Threads -> Positions], job' \in [Threads -> Job], LocalsSet',
         missed' \in [Pods -> SUBSET Reasons], faults' \in 0..MaxFaults,
         pu' \in [Contexts -> {"new", "creating", "up", "failed", "gone"}]
  PROVE  TypeInv'
BY DEF TypeInv, TypeOK, unchangedByReads, apiVars, nsQVars, podQVars, polQVars,
       nsVars

(* Every step of resolvePodPolicy keeps the types. *)
LEMMA ResolveType ==
  ASSUME TypeInv, NEW t \in Threads, Resolve(t)
  PROVE  TypeInv'
<1> DEFINE p == job[t].pod
<1>0. /\ job[t] \in Job /\ missed \in [Pods -> SUBSET Reasons]
      /\ pu \in [Contexts -> {"new", "creating", "up", "failed", "gone"}]
      /\ faults \in 0..MaxFaults /\ active \in Watchers \cup {None}
      /\ polStore \in [Watchers -> PolicyMap]
      /\ podCache \in [Pods -> Contexts \cup {None}]
  BY DEF TypeInv, TypeOK
<1>p. \A l \in {"getPod", "update", "nsActive", "getWatcher", "listPolicies",
               "ingress", "egress"} : l \in Positions \ {"resolve"}
  BY DEF Positions, Reading
<1>r. {"resolveFailed", "unmapped", "preActivation"} \subseteq Reasons
  BY DEF Reasons
<1>f. ASSUME NEW q, NEW r \in Reasons, Fail(t, q, r), UNCHANGED unchangedByReads,
             faults' \in 0..MaxFaults
      PROVE  TypeInv'
  <2>1. UNCHANGED ctxPod BY <1>f DEF unchangedByReads
  <2> QED BY <1>f, <2>1, FailLocals, ReadsType
<1>g. ASSUME NEW l \in Positions \ {"resolve"}, NEW j \in Job, Goto(t, l, j),
             l = "getPod" => j.pod \in Pods,
             l = "listPolicies" => j.w \in Watchers,
             UNCHANGED unchangedByReads, UNCHANGED <<pu, faults>>,
             missed' \in [Pods -> SUBSET Reasons]
      PROVE  TypeInv'
  <2>1. UNCHANGED ctxPod BY <1>g DEF unchangedByReads
  <2> QED BY <1>0, <1>g, <2>1, GotoLocals, ReadsType
<1>1. CASE contextIDByPodName(t)
  <2>1. PICK q \in job[t].todo :
          IF podCache[q] # None
          THEN /\ Goto(t, "getPod", [job[t] EXCEPT !.pod = q, !.ctx = podCache[q],
                                                   !.todo = @ \ {q}])
               /\ UNCHANGED <<pu, missed>>
          ELSE Fail(t, q, "unmapped")
    BY <1>1 DEF contextIDByPodName
  <2>2. UNCHANGED unchangedByReads /\ UNCHANGED faults
    BY <1>1 DEF contextIDByPodName, unchangedByReads, bounds
  <2>3. q \in Pods /\ podCache[q] \in Contexts \cup {None} BY <1>0 DEF Job
  <2> DEFINE j == [job[t] EXCEPT !.pod = q, !.ctx = podCache[q], !.todo = @ \ {q}]
  <2>4. j \in Job /\ j.pod \in Pods BY <1>0, <2>3 DEF Job
  <2>5. CASE podCache[q] # None
    <3>1. Goto(t, "getPod", j) /\ UNCHANGED <<pu, missed>> BY <2>1, <2>5
    <3> HIDE DEF j
    <3> QED BY <1>0, <1>p, <1>g, <2>2, <2>4, <3>1
  <2>6. CASE podCache[q] = None
    BY <1>0, <1>f, <1>r, <2>1, <2>2, <2>6
  <2> QED BY <2>5, <2>6
<1>2. CASE getPod(t)
  <2> DEFINE read == [job[t] EXCEPT !.repairs = missed[p]]
             j1 == [read EXCEPT !.pol = notInfraContainerPolicy]
             j2 == [read EXCEPT !.lab = api[p].lab]
  <2>1. p \in Pods /\ api[p] \in PodObj
    BY <1>2 DEF getPod, TypeInv, TypeOK, LocalsSet
  <2>2. read \in Job BY <1>0, <2>1 DEF Job
  <2>3. j1 \in Job BY <2>2, PolicyTypes DEF Job
  <2>4. j2 \in Job BY <2>1, <2>2 DEF Job, PodObj
  <2>5. /\ Goto(t, "update", j1) \/ Goto(t, "nsActive", j2)
        /\ missed' = [missed EXCEPT ![p] = {}]
        /\ UNCHANGED unchangedByReads /\ UNCHANGED <<pu, faults>>
    BY <1>2 DEF getPod
  <2>6. missed' \in [Pods -> SUBSET Reasons] BY <1>0, <2>5
  <2> HIDE DEF j1, j2
  <2> QED BY <1>p, <1>g, <2>3, <2>4, <2>5, <2>6
<1>3. CASE isNamespaceActive(t)
  <2> DEFINE j == [job[t] EXCEPT !.pol = allowAllPolicy(job[t].lab)]
  <2>1. allowAllPolicy(job[t].lab) \in Policy BY <1>0, PolicyTypes DEF Job
  <2>2. j \in Job BY <1>0, <2>1 DEF Job
  <2>3. /\ Goto(t, "update", j) \/ Goto(t, "getWatcher", job[t])
        /\ missed' \in {missed, Flag({job[t].pod}, "preActivation")}
        /\ UNCHANGED unchangedByReads /\ UNCHANGED <<pu, faults>>
    BY <1>3 DEF isNamespaceActive
  <2>4. missed' \in [Pods -> SUBSET Reasons]
    BY <1>0, <1>r, <2>3, FlagTypes DEF TypeInv
  <2> HIDE DEF j
  <2> QED BY <1>0, <1>p, <1>g, <2>2, <2>3, <2>4
<1>4. CASE getNamespaceWatcher(t)
  <2> DEFINE j == [job[t] EXCEPT !.w = active]
  <2>1. active # None => j \in Job /\ j.w \in Watchers BY <1>0 DEF Job
  <2>2. /\ UNCHANGED unchangedByReads /\ UNCHANGED faults
        /\ \/ active # None /\ Goto(t, "listPolicies", j) /\ UNCHANGED <<pu, missed>>
           \/ Fail(t, job[t].pod, "resolveFailed")
    BY <1>4 DEF getNamespaceWatcher
  <2> HIDE DEF j
  <2> QED BY <1>0, <1>p, <1>r, <1>f, <1>g, <2>1, <2>2
<1>5. CASE getPolicyList(t)
  <2> DEFINE j == [job[t] EXCEPT !.list = polStore[job[t].w]]
  <2>1. job[t].w \in Watchers BY <1>5 DEF getPolicyList, TypeInv, LocalsSet
  <2>2. j \in Job BY <1>0, <2>1 DEF Job
  <2>3. /\ Goto(t, "ingress", j)
        /\ UNCHANGED unchangedByReads /\ UNCHANGED <<pu, missed, faults>>
    BY <1>5 DEF getPolicyList
  <2> HIDE DEF j
  <2> QED BY <1>0, <1>p, <1>g, <2>2, <2>3
<1>6. CASE IngressPodRules(t)
  <2> DEFINE j == [job[t] EXCEPT !.in = PodRules(job[t].list, api[p].lab)]
  <2>1. PodRules(job[t].list, api[p].lab) \in SUBSET Rule
    BY <1>0, PodRulesType DEF Job
  <2>2. j \in Job BY <1>0, <2>1 DEF Job
  <2>3. /\ Goto(t, "egress", j)
        /\ UNCHANGED unchangedByReads /\ UNCHANGED <<pu, missed, faults>>
    BY <1>6 DEF IngressPodRules
  <2> HIDE DEF j
  <2> QED BY <1>0, <1>p, <1>g, <2>2, <2>3
<1>7. CASE EgressPodRules(t)
  <2> DEFINE eg == IF EgressPolicies THEN PodRules(job[t].list, api[p].lab) ELSE {}
             j == [job[t] EXCEPT !.pol = generatePUPolicy(job[t].lab, job[t].in, eg)]
  <2>1. PodRules(job[t].list, api[p].lab) \in SUBSET Rule
    BY <1>0, PodRulesType DEF Job
  <2>2. eg \in SUBSET Rule BY <2>1
  <2>3. job[t].lab \in Labels /\ job[t].in \in SUBSET Rule BY <1>0 DEF Job
  <2>4. generatePUPolicy(job[t].lab, job[t].in, eg) \in Policy
    BY <2>2, <2>3, PolicyTypes
  <2>5. j \in Job BY <1>0, <2>4 DEF Job
  <2>6. /\ UNCHANGED unchangedByReads /\ UNCHANGED faults
        /\ \/ Goto(t, "update", j) /\ UNCHANGED <<pu, missed>>
           \/ Fail(t, job[t].pod, "resolveFailed")
    BY <1>7 DEF EgressPodRules
  <2> HIDE DEF j
  <2> QED BY <1>0, <1>p, <1>r, <1>f, <1>g, <2>5, <2>6
<1>8. CASE PodReadFails(t)
  <2>1. /\ UNCHANGED unchangedByReads /\ Fail(t, job[t].pod, "resolveFailed")
        /\ CallFails(api[p] = None)
    BY <1>8 DEF PodReadFails
  <2>2. faults' \in 0..MaxFaults BY <2>1, FaultType DEF TypeInv
  <2> QED BY <1>r, <1>f, <2>1, <2>2
<1> QED BY <1>1, <1>2, <1>3, <1>4, <1>5, <1>6, <1>7, <1>8 DEF Resolve

(* Marking the overtaken resolutions keeps the locals typed. *)
LEMMA OvertakeType ==
  ASSUME TypeOK, NEW t \in Threads, NEW c
  PROVE  /\ Overtake(t, c) \in [Threads -> Job]
         /\ Overtake(t, c)[t] = NoJob
         /\ \A u \in Threads : /\ Overtake(t, c)[u].pod \in {job[u].pod, NoJob.pod}
                               /\ u # t => /\ Overtake(t, c)[u].pod = job[u].pod
                                           /\ Overtake(t, c)[u].w = job[u].w
<1>1. \A u \in Threads : job[u] \in Job BY DEF TypeOK
<1>2. ASSUME NEW j \in Job
      PROVE  /\ [j EXCEPT !.late = TRUE] \in Job
             /\ [j EXCEPT !.late = TRUE].pod = j.pod
             /\ [j EXCEPT !.late = TRUE].w = j.w
  BY DEF Job
<1>3. NoJob \in Job BY NoJobType
<1> HIDE DEF NoJob
<1> QED BY <1>1, <1>2, <1>3 DEF Overtake

(* Recording an overtaken policy keeps the history typed. *)
LEMMA EnforcedType ==
  ASSUME TypeOK, NEW t \in Threads
  PROVE  Enforced(t) \in [Pods -> SUBSET Reasons]
<1>1. "overtaken" \in Reasons BY DEF Reasons
<1> QED BY <1>1, FlagTypes DEF Enforced, TypeOK

(* The creation of a PU keeps the types. *)
LEMMA CreatePUType ==
  ASSUME TypeInv, NEW c \in Contexts, CreatePU(c)
  PROVE  TypeInv'
<1> DEFINE t == Mon(c)
<1>0. /\ t \in Threads /\ job[t] \in Job /\ job[t].pol \in Policy
      /\ job[t].repairs \in SUBSET Reasons
  BY ThreadTypes DEF TypeInv, TypeOK, Job
<1>1. job' \in [Threads -> Job] BY <1>0, OvertakeType DEF CreatePU, TypeInv
<1>2. pc' \in [Threads -> Positions] /\ pc' = [pc EXCEPT ![t] = "idle"]
  BY <1>0 DEF CreatePU, TypeInv, TypeOK, Positions
<1>3. pu' \in [Contexts -> {"new", "creating", "up", "failed", "gone"}]
  BY DEF CreatePU, TypeInv, TypeOK
<1>4. enforced' \in [Contexts -> Policy]
  BY <1>0 DEF CreatePU, TypeInv, TypeOK
<1>5. missed' \in [Pods -> SUBSET Reasons]
  BY <1>0, FlagTypes, EnforcedType DEF CreatePU, TypeInv
<1>6. LocalsSet'
  <2>1. \A u \in Threads : u # t => job'[u].pod = job[u].pod /\ job'[u].w = job[u].w
    BY <1>0, OvertakeType DEF CreatePU, TypeInv
  <2>2. pc \in [Threads -> Positions] /\ ctxPod' = ctxPod
    BY DEF CreatePU, TypeInv, TypeOK
  <2> QED BY <1>0, <1>2, <2>1, <2>2, ThreadTypes DEF TypeInv, LocalsSet
<1> QED BY <1>1, <1>2, <1>3, <1>4, <1>5, <1>6
   DEF CreatePU, TypeInv, TypeOK, apiVars, nsQVars, podQVars, polQVars, nsVars, bounds

(* A policy update by Trireme keeps the types. *)
LEMMA UpdatePolicyType ==
  ASSUME TypeInv, NEW t \in Threads, UpdatePolicy(t)
  PROVE  TypeInv'
<1> DEFINE c == job[t].ctx
<1>0. job[t] \in Job /\ job[t].pol \in Policy /\ job[t].todo \in SUBSET Pods
  BY DEF TypeInv, TypeOK, Job
<1>1. /\ job' = [Overtake(t, c) EXCEPT ![t] = [NoJob EXCEPT !.todo = job[t].todo]]
      /\ [NoJob EXCEPT !.todo = job[t].todo] \in Job
  <2>1. Overtake(t, c)[t] = NoJob BY OvertakeType DEF TypeInv
  <2>2. [NoJob EXCEPT !.todo = job[t].todo] \in Job BY <1>0, NoJobType DEF Job
  <2> QED BY <2>1, <2>2 DEF UpdatePolicy
<1>2. job' \in [Threads -> Job] BY <1>1, OvertakeType DEF TypeInv
<1>3. /\ pc' \in [Threads -> Positions] /\ pc \in [Threads -> Positions]
      /\ \A u \in Threads : u # t => pc'[u] = pc[u]
      /\ pc'[t] \in {"idle", "next"}
  BY DEF UpdatePolicy, Continue, TypeInv, TypeOK, Positions
<1>4. enforced' \in [Contexts -> Policy] BY <1>0 DEF UpdatePolicy, TypeInv, TypeOK
<1>5. missed' \in [Pods -> SUBSET Reasons]
  BY EnforcedType DEF UpdatePolicy, TypeInv
<1>6. LocalsSet'
  <2>1. \A u \in Threads : u # t => job'[u].pod = job[u].pod /\ job'[u].w = job[u].w
    BY <1>1, OvertakeType DEF TypeInv
  <2>2. ctxPod' = ctxPod BY DEF UpdatePolicy
  <2> QED BY <1>3, <2>1, <2>2, ThreadTypes DEF TypeInv, LocalsSet
<1> QED BY <1>2, <1>3, <1>4, <1>5, <1>6
   DEF UpdatePolicy, TypeInv, TypeOK, apiVars, nsQVars, podQVars, polQVars, nsVars, bounds

(* A failed policy update keeps the types. *)
LEMMA UpdatePolicyFailsType ==
  ASSUME TypeInv, NEW t \in Threads, UpdatePolicyFails(t)
  PROVE  TypeInv'
<1>1. "resolveFailed" \in Reasons BY DEF Reasons
<1>2. /\ Fail(t, job[t].pod, "resolveFailed") /\ UNCHANGED unchangedByReads
      /\ CallFails(pu[job[t].ctx] # "up")
  BY DEF UpdatePolicyFails
<1>3. faults' \in 0..MaxFaults BY <1>2, FaultType DEF TypeInv
<1>4. UNCHANGED ctxPod BY <1>2 DEF unchangedByReads
<1> QED BY <1>1, <1>2, <1>3, <1>4, FailLocals, ReadsType

(* A queue of deltas holds what the informer may store. *)
LEMMA PopType ==
  ASSUME NEW O, NEW V, NEW Q \in [Watchers -> [O -> Seq(V)]],
         NEW S \in [Watchers -> [O -> V]], NEW w \in Watchers, NEW o \in O,
         Q[w][o] # <<>>
  PROVE  /\ Head(Q[w][o]) \in V
         /\ [Q EXCEPT ![w][o] = Tail(@)] \in [Watchers -> [O -> Seq(V)]]
         /\ [S EXCEPT ![w][o] = Head(Q[w][o])] \in [Watchers -> [O -> V]]
<1>1. Q[w] \in [O -> Seq(V)] /\ Q[w][o] \in Seq(V) /\ S[w] \in [O -> V] OBVIOUS
<1>2. Head(Q[w][o]) \in V /\ Tail(Q[w][o]) \in Seq(V) BY <1>1
<1>3. [Q[w] EXCEPT ![o] = Tail(@)] \in [O -> Seq(V)] BY <1>1, <1>2
<1>4. [S[w] EXCEPT ![o] = Head(Q[w][o])] \in [O -> V] BY <1>1, <1>2
<1> QED BY <1>2, <1>3, <1>4

(* The handlers of the pod controller keep the types. *)
LEMMA PodHandlerType ==
  ASSUME TypeInv, NEW w \in Watchers, NEW p \in Pods,
         addPod(w, p) \/ updatePod(w, p) \/ deletePod(w, p)
  PROVE  TypeInv'
<1> DEFINE t == PodCtl(w)  j == [NoJob EXCEPT !.todo = {p}]
<1>1. /\ Pop(w, p)
      /\ missed' = missed
      /\ podCache' \in {podCache, [podCache EXCEPT ![p] = None]}
      /\ Goto(t, "next", j) \/ UNCHANGED jobVars
  BY DEF addPod, updatePod, deletePod, deleteFromCacheByPodName
<1>2. /\ podQ' \in [Watchers -> [Pods -> Seq(PodObj \cup {None})]]
      /\ podStore' \in [Watchers -> [Pods -> PodObj \cup {None}]]
  BY <1>1, PopType DEF Pop, TypeInv, TypeOK
<1>3. podCache' \in [Pods -> Contexts \cup {None}]
  BY <1>1 DEF TypeInv, TypeOK
<1>4. j \in Job BY NoJobType DEF Job
<1>5. ctxPod' = ctxPod BY <1>1 DEF Pop, puVars
<1>6. t \in Threads BY ThreadTypes
<1>7. /\ pc' \in [Threads -> Positions] /\ job' \in [Threads -> Job]
      /\ LocalsSet'
  <2>1. CASE Goto(t, "next", j)
    <3> HIDE DEF j
    <3> QED BY <1>4, <1>5, <1>6, <2>1, GotoLocals DEF Positions
  <2>2. CASE UNCHANGED jobVars
    BY <1>5, <2>2 DEF jobVars, TypeInv, TypeOK, LocalsSet
  <2> QED BY <1>1, <2>1, <2>2
<1> QED BY <1>1, <1>2, <1>3, <1>7
   DEF Pop, TypeInv, TypeOK, apiVars, puVars, nsQVars, polQVars, nsVars, bounds

(* The handlers of the network policy controller keep the types. *)
LEMMA PolicyHandlerType ==
  ASSUME TypeInv, NEW w \in Watchers, NEW x \in Policies,
         \/ addNetworkPolicy(w, x) \/ updateNetworkPolicy(w, x)
         \/ deleteNetworkPolicy(w, x)
  PROVE  TypeInv'
<1> DEFINE t == PolCtl(w)
<1>0. /\ polQ \in [Watchers -> [Policies -> Seq(PolObj \cup {None})]]
      /\ polStore \in [Watchers -> [Policies -> PolObj \cup {None}]]
  BY DEF TypeInv, TypeOK, PolicyMap
<1>1. polQ[w][x] # <<>>
  BY DEF addNetworkPolicy, updateNetworkPolicy, deleteNetworkPolicy
<1>2. /\ Head(polQ[w][x]) \in PolObj \cup {None}
      /\ polStore[w][x] \in PolObj \cup {None}
  BY <1>0, <1>1, PopType
<1>3. \A o \in PolObj : o.sel \in SUBSET Labels
  BY ConstantsAssumption DEF PolObj
<1>4. PICK sel \in SUBSET Labels, lost \in SUBSET Labels :
        PopPolicy(w, x, sel, lost)
  <2>1. CASE addNetworkPolicy(w, x)
    BY <1>2, <1>3, <2>1 DEF addNetworkPolicy
  <2>2. CASE updateNetworkPolicy(w, x)
    <3>1. polStore[w][x].sel \ Head(polQ[w][x]).sel \in SUBSET Labels
      BY <1>2, <1>3, <2>2 DEF updateNetworkPolicy
    <3> QED BY <1>2, <1>3, <2>2, <3>1 DEF updateNetworkPolicy
  <2>3. CASE deleteNetworkPolicy(w, x)
    BY <1>2, <1>3, <2>3 DEF deleteNetworkPolicy
  <2> QED BY <2>1, <2>2, <2>3
<1> DEFINE j == [NoJob EXCEPT !.sel = sel, !.lost = lost]
<1>5. j \in Job BY NoJobType DEF Job
<1>6. Goto(t, "localPods", j) /\ ctxPod' = ctxPod BY <1>4 DEF PopPolicy, puVars
<1>7. /\ pc' \in [Threads -> Positions] /\ job' \in [Threads -> Job]
      /\ LocalsSet'
  <2> t \in Threads BY ThreadTypes
  <2> HIDE DEF j
  <2> QED BY <1>5, <1>6, GotoLocals DEF Positions
<1>8. /\ polQ' \in [Watchers -> [Policies -> Seq(PolObj \cup {None})]]
      /\ polStore' \in [Watchers -> [Policies -> PolObj \cup {None}]]
  BY <1>0, <1>1, <1>4, PopType DEF PopPolicy
<1>9. polStore' \in [Watchers -> PolicyMap] BY <1>8 DEF PolicyMap
<1> QED BY <1>4, <1>7, <1>8, <1>9
   DEF PopPolicy, TypeInv, TypeOK, apiVars, puVars, nsQVars, podQVars, nsVars, bounds

(* Listing the local pods, or failing to, keeps the types. *)
LEMMA LocalPodsType ==
  ASSUME TypeInv, NEW t \in Threads, LocalPods(t) \/ LocalPodsFails(t)
  PROVE  TypeInv'
<1>1. \A S : Selected(S) \in SUBSET Pods BY DEF Selected
<1> DEFINE j == [NoJob EXCEPT !.todo = Selected(job[t].sel)]
<1>2. j \in Job BY <1>1, NoJobType DEF Job
<1>3. /\ Goto(t, "idle", NoJob) \/ Goto(t, "idle", j) \/ Goto(t, "next", j)
      /\ UNCHANGED unchangedByReads /\ UNCHANGED pu
      /\ \E S : missed' = Flag(S, "selectorMoved") \/ missed' = Flag(S, "aborted")
      /\ UNCHANGED faults \/ CallFails(FALSE)
  BY DEF LocalPods, LocalPodsFails
<1>4. missed' \in [Pods -> SUBSET Reasons]
  BY <1>3, FlagTypes DEF TypeInv, Reasons
<1>5. faults' \in 0..MaxFaults BY <1>3, FaultType DEF TypeInv, TypeOK
<1>6. ctxPod' = ctxPod BY <1>3 DEF unchangedByReads
<1>7. /\ pc' \in [Threads -> Positions] /\ job' \in [Threads -> Job]
      /\ LocalsSet'
  <2> HIDE DEF j
  <2> QED BY <1>2, <1>3, <1>6, NoJobType, GotoLocals DEF Positions
<1>8. pu' \in [Contexts -> {"new", "creating", "up", "failed", "gone"}]
  BY <1>3 DEF TypeInv, TypeOK
<1> QED BY <1>3, <1>4, <1>5, <1>7, <1>8, ReadsType

(* The list an informer begins with. *)
LEMMA ListedType ==
  ASSUME NEW V, NEW o \in V
  PROVE  Listed(o) \in Seq(V)
<1>1. <<>> \in Seq(V) OBVIOUS
<1>2. <<o>> \in Seq(V) OBVIOUS
<1> QED BY <1>1, <1>2 DEF Listed

(* The namespace controller keeps the types. *)
LEMMA NamespaceType ==
  ASSUME TypeInv, NamespaceController
  PROVE  TypeInv'
<1> USE DEF TypeInv
<1>1. CASE addNamespace \/ deleteNamespace \/ updateNamespace
  <2>1. PopNamespace BY <1>1 DEF addNamespace, deleteNamespace, updateNamespace
  <2>2. nsQ' \in Seq(NsObj) /\ nsStore' \in NsObj
    BY <2>1 DEF PopNamespace, TypeOK
  <2>3. BeginActivation \/ (active # None /\ deactivateNamespace) \/ UNCHANGED nsVars
    BY <1>1 DEF addNamespace, deleteNamespace, updateNamespace
  <2>4. /\ active' \in Watchers \cup {None}
        /\ nsPc' \in {"idle", "startPods", "startPolicies", "activate"}
        /\ nsW' \in Watchers \cup {None}
        /\ wstate' \in [Watchers -> {"unused", "started", "retired"}]
        /\ fed' \in [Watchers -> SUBSET {"pod", "pol"}]
    <3>1. CASE BeginActivation BY <3>1 DEF BeginActivation, TypeOK
    <3>2. CASE active # None /\ deactivateNamespace
      <4>1. PICK still \in SUBSET fed[active] : fed' = [fed EXCEPT ![active] = still]
        BY <3>2 DEF deactivateNamespace
      <4>2. still \in SUBSET {"pod", "pol"} BY <3>2, <4>1 DEF TypeOK
      <4> QED BY <3>2, <4>1, <4>2 DEF deactivateNamespace, TypeOK
    <3>3. CASE UNCHANGED nsVars BY <3>3 DEF nsVars, TypeOK
    <3> QED BY <2>3, <3>1, <3>2, <3>3
  <2> QED BY <2>1, <2>2, <2>4
     DEF PopNamespace, TypeOK, LocalsSet, apiVars, puVars, podQVars, polQVars, jobVars,
         bounds
<1>2. CASE StartPodController
  <2>1. ASSUME NEW p \in Pods PROVE Listed(api[p]) \in Seq(PodObj \cup {None})
    <3>1. api[p] \in PodObj \cup {None} BY DEF TypeOK
    <3> QED BY <3>1, ListedType
  <2>2. podQ' \in [Watchers -> [Pods -> Seq(PodObj \cup {None})]]
    BY <1>2, <2>1 DEF StartPodController, TypeOK
  <2>3. /\ wstate' \in [Watchers -> {"unused", "started", "retired"}]
        /\ fed' \in [Watchers -> SUBSET {"pod", "pol"}]
    BY <1>2 DEF StartPodController, TypeOK
  <2> QED BY <1>2, <2>2, <2>3
     DEF StartPodController, TypeOK, LocalsSet, apiVars, puVars, nsQVars, polQVars,
         jobVars, bounds
<1>3. CASE StartPolicyController
  <2>1. ASSUME NEW x \in Policies PROVE Listed(pols[x]) \in Seq(PolObj \cup {None})
    <3>1. pols[x] \in PolObj \cup {None} BY DEF TypeOK, PolicyMap
    <3> QED BY <3>1, ListedType
  <2>2. polQ' \in [Watchers -> [Policies -> Seq(PolObj \cup {None})]]
    BY <1>3, <2>1 DEF StartPolicyController, TypeOK
  <2>3. fed' \in [Watchers -> SUBSET {"pod", "pol"}]
    BY <1>3 DEF StartPolicyController, TypeOK
  <2> QED BY <1>3, <2>2, <2>3
     DEF StartPolicyController, TypeOK, LocalsSet, apiVars, puVars, nsQVars, podQVars,
         jobVars, bounds
<1>4. CASE activateNamespaceWatcher
  BY <1>4
  DEF activateNamespaceWatcher, TypeOK, LocalsSet, apiVars, puVars, nsQVars, podQVars,
      polQVars, jobVars, bounds
<1> QED BY <1>1, <1>2, <1>3, <1>4 DEF NamespaceController

(* Every step keeps the type invariant. *)
LEMMA NextType == TypeInv /\ [Next]_vars => TypeInv'
<1> SUFFICES ASSUME TypeInv, [Next]_vars PROVE TypeInv'
  OBVIOUS
<1>1. CASE Environment BY <1>1, EnvironmentType
<1>2. CASE NamespaceController BY <1>2, NamespaceType
<1>3. ASSUME NEW c \in Contexts, Monitor(c) PROVE TypeInv'
  BY <1>3, ThreadTypes, ResolvePolicyType, ResolveType, CreatePUType DEF Monitor
<1>4. ASSUME NEW w \in Watchers, PodController(w) PROVE TypeInv'
  BY <1>4, ThreadTypes, PodHandlerType, ResolveType, UpdatePolicyType,
     UpdatePolicyFailsType DEF PodController
<1>5. ASSUME NEW w \in Watchers, PolicyController(w) PROVE TypeInv'
  BY <1>5, ThreadTypes, PolicyHandlerType, LocalPodsType, ResolveType,
     UpdatePolicyType, UpdatePolicyFailsType DEF PolicyController
<1>6. CASE UNCHANGED vars
  BY <1>6 DEF vars, TypeInv, TypeOK, LocalsSet, apiVars, puVars, nsQVars, podQVars,
     polQVars, nsVars, jobVars, bounds
<1> QED BY <1>1, <1>2, <1>3, <1>4, <1>5, <1>6 DEF Next

(* Every variable keeps its type, and every goroutine has set the locals   *)
(* its next step reads (policy.go's handlers and ResolvePolicy).           *)
THEOREM TypeCorrect == Spec => []TypeOK
<1>1. TypeInv => TypeOK BY DEF TypeInv
<1> QED BY <1>1, InitType, NextType, PTL DEF Spec

=============================================================================
