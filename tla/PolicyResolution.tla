-------------------------- MODULE PolicyResolution --------------------------
(***************************************************************************)
(* The policy resolver of trireme-kubernetes (resolver/policy.go and       *)
(* resolver/cache.go) for the pods that one namespace has on this node.    *)
(*                                                                         *)
(* Goroutines:                                                             *)
(*   - the namespace controller, which activates and deactivates the       *)
(*     namespace (variables nsPc, nsW);                                    *)
(*   - per activation ("watcher") a pod controller <<"pod", w>> and a      *)
(*     network policy controller <<"pol", w>>;                             *)
(*   - per container a monitor goroutine <<"mon", c>> of Trireme, inside   *)
(*     ResolvePolicy while its PU is created.                              *)
(* A controller runs one handler at a time; handlers of different          *)
(* controllers interleave at every API call and every cache lock.          *)
(*                                                                         *)
(* A definition named D_Something is the form D would have with one fault  *)
(* in the code.  Nothing uses it; put in D's place, it makes the run named *)
(* in PROJECT.json fail.                                                   *)
(*                                                                         *)
(* Data: a label set is one value, a selector is the set of label sets it  *)
(* matches, a policy body is one value, and a generated policy is the set  *)
(* of (policy, body) pairs whose rules went into it.                       *)
(***************************************************************************)
EXTENDS Naturals, Sequences, FiniteSets

CONSTANTS
  Pods,          \* "namespace/name" keys of the pods scheduled on this node
  Contexts,      \* container (PU) identifiers
  Kind,          \* Kind[c]: what the container's Docker tags say of it
  Policies,      \* names of NetworkPolicies
  Labels,        \* label sets of pods
  NoLabels,      \* the nil label map
  Selectors,     \* pod selectors, each the set of label sets it matches
  Bodies,        \* rule lists of policies
  BadBodies,     \* those generatePUPolicy returns an error for
  Watchers,      \* one per activation of the namespace
  BetaPolicies,  \* the --BetaNetPolicies flag
  EgressPolicies,\* the --EgressNetPolicies flag
  None,          \* "absent", nil, "not found"
  InitialPods,   \* bound: pod objects the process may find when it starts
  InitialPols,   \* bound: policy objects the process may find
  InitialNs,     \* bound: namespace objects it may find
  MaxChanges,    \* bound: changes of pods and policies at the API server
  MaxNsChanges,  \* bound: changes of the namespace at the API server
  MaxFaults      \* bound: failed calls of the API server and of Trireme

PodObj == [ip: {"none", "pod", "host"}, lab: Labels]
PolObj == [sel: Selectors, body: Bodies]
NsObj  == {"absent", "off", "on"}    \* "on": the DefaultDeny annotation is set

ASSUME ConstantsAssumption ==
  /\ Kind \in [Contexts -> {"infra", "app", "untagged"}]
  /\ NoLabels \in Labels
  /\ Selectors \subseteq SUBSET Labels
  /\ BadBodies \subseteq Bodies
  /\ BetaPolicies \in BOOLEAN /\ EgressPolicies \in BOOLEAN
  /\ None \notin Pods \cup Contexts \cup Watchers
  /\ None \notin PodObj /\ None \notin PolObj
  /\ InitialPods \subseteq PodObj \cup {None}
  /\ InitialPols \subseteq PolObj \cup {None}
  /\ InitialNs \subseteq NsObj
  /\ MaxChanges \in Nat /\ MaxNsChanges \in Nat /\ MaxFaults \in Nat

(* Enough watchers for every activation MaxNsChanges can bring about. *)
ASSUME WatchersSuffice == 2 * Cardinality(Watchers) >= MaxNsChanges + 2

VARIABLES
  \* The API server and the container runtime.
  api,        \* api[p]: the pod object, or None
  pols,       \* pols[x]: the NetworkPolicy object, or None
  ns,         \* the namespace object
  live,       \* live[p]: the infra container that runs for the pod, or None
  ctxPod,     \* ctxPod[c]: the pod the container's tags name
  \* Trireme.
  pu,         \* pu[c]: "new", "creating", "up", "failed", "gone"
  enforced,   \* enforced[c]: the policy Trireme applies
  \* Informers: pending deltas per object, and the stores they fill.
  nsQ, nsStore, podQ, podStore, polQ, polStore,
  fed,        \* fed[w]: the informers of w that still receive deltas
  \* The resolver.
  podCache,   \* podCache[p]: contextID, or None
  active,     \* namespaceActivation of this namespace: a watcher, or None
  nsPc, nsW,  \* the namespace controller's position and its new watcher
  wstate,     \* wstate[w]: "unused", "started", "retired"
  pc, job,    \* position and locals of the other goroutines
  \* History and bounds.
  missed,     \* missed[p]: how an update of this pod's policy got lost
  changes, nsChanges, faults

apiVars   == <<api, pols, ns>>
puVars    == <<live, ctxPod, pu, enforced>>
nsQVars   == <<nsQ, nsStore>>
podQVars  == <<podQ, podStore>>
polQVars  == <<polQ, polStore>>
nsVars    == <<active, nsPc, nsW, wstate, fed>>
jobVars   == <<pc, job>>
bounds    == <<changes, nsChanges, faults>>
vars == <<apiVars, puVars, nsQVars, podQVars, polQVars, nsVars, podCache,
          jobVars, missed, bounds>>

-----------------------------------------------------------------------------
(* Policies, as Trireme receives them. *)

Rule   == Policies \X Bodies
Policy == [kind: {"none", "default", "allowAll", "rules"}, lab: Labels,
           in: SUBSET Rule, eg: SUBSET Rule]

NoPolicy == [kind |-> "none", lab |-> NoLabels, in |-> {}, eg |-> {}]
notInfraContainerPolicy ==
  [kind |-> "default", lab |-> NoLabels, in |-> {}, eg |-> {}]
allowAllPolicy(l) == [kind |-> "allowAll", lab |-> l, in |-> {}, eg |-> {}]
generatePUPolicy(l, i, e) == [kind |-> "rules", lab |-> l, in |-> i, eg |-> e]

PolicyMap == [Policies -> PolObj \cup {None}]

(* The rules of the listed policies whose selector matches the labels. *)
PodRules(list, l) ==
  {<<x, list[x].body>> : x \in {y \in Policies : list[y] # None
                                               /\ l \in list[y].sel}}

Generates(rules) == \A r \in rules : r[2] \notin BadBodies

isPolicyUpdateNeeded_IPOnly(old, new) == old.ip # new.ip
isPolicyUpdateNeeded_LabelsOnly(old, new) == old.lab # new.lab
isPolicyUpdateNeeded(old, new) == old.ip # new.ip \/ old.lab # new.lab

(* Does the namespace's object ask for network policies? *)
Wanted(v) == IF BetaPolicies THEN v = "on" ELSE v # "absent"

-----------------------------------------------------------------------------
(* Goroutines. *)

PodCtl(w) == <<"pod", w>>
PolCtl(w) == <<"pol", w>>
Mon(c)    == <<"mon", c>>
Controllers == {"pod", "pol"} \X Watchers
Monitors    == {"mon"} \X Contexts
Threads     == Controllers \cup Monitors

(* Positions inside resolvePodPolicy at which the pod was already read. *)
Reading == {"nsActive", "getWatcher", "listPolicies", "ingress", "egress",
            "update"}
Positions == Reading \cup {"idle", "resolve", "localPods", "next", "getPod"}

(* How the policy of a pod can miss an update (history, for the properties *)
(* only).  The last three fields of a job are history too: the labels an    *)
(* update of a policy stopped selecting, the losses the job makes up for   *)
(* if it succeeds, and whether its container got another policy meanwhile. *)
Reasons == {"resolveFailed", "aborted", "selectorMoved", "overtaken",
            "unmapped", "preActivation"}

Job == [pod: Pods \cup {None}, ctx: Contexts \cup {None}, lab: Labels,
        w: Watchers \cup {None}, list: PolicyMap, in: SUBSET Rule,
        pol: Policy, todo: SUBSET Pods, sel: SUBSET Labels,
        lost: SUBSET Labels, repairs: SUBSET Reasons, late: BOOLEAN]

NoPolicies == [x \in Policies |-> None]
NoJob == [pod |-> None, ctx |-> None, lab |-> NoLabels, w |-> None,
          list |-> NoPolicies, in |-> {}, pol |-> NoPolicy, todo |-> {},
          sel |-> {}, lost |-> {}, repairs |-> {}, late |-> FALSE]

Flag(S, r) ==
  [p \in Pods |-> IF p \in S THEN missed[p] \cup {r} ELSE missed[p]]
Flags(q, R) ==
  [p \in Pods |-> IF p = q THEN missed[p] \cup R ELSE missed[p]]

TypeOK ==
  /\ api \in [Pods -> PodObj \cup {None}]
  /\ pols \in PolicyMap
  /\ ns \in NsObj
  /\ live \in [Pods -> Contexts \cup {None}]
  /\ ctxPod \in [Contexts -> Pods \cup {None}]
  /\ pu \in [Contexts -> {"new", "creating", "up", "failed", "gone"}]
  /\ enforced \in [Contexts -> Policy]
  /\ nsQ \in Seq(NsObj) /\ nsStore \in NsObj
  /\ podQ \in [Watchers -> [Pods -> Seq(PodObj \cup {None})]]
  /\ podStore \in [Watchers -> [Pods -> PodObj \cup {None}]]
  /\ polQ \in [Watchers -> [Policies -> Seq(PolObj \cup {None})]]
  /\ polStore \in [Watchers -> PolicyMap]
  /\ fed \in [Watchers -> SUBSET {"pod", "pol"}]
  /\ podCache \in [Pods -> Contexts \cup {None}]
  /\ active \in Watchers \cup {None}
  /\ nsPc \in {"idle", "startPods", "startPolicies", "activate"}
  /\ nsW \in Watchers \cup {None}
  /\ wstate \in [Watchers -> {"unused", "started", "retired"}]
  /\ pc \in [Threads -> Positions]
  /\ job \in [Threads -> Job]
  /\ missed \in [Pods -> SUBSET Reasons]
  /\ changes \in 0..MaxChanges
  /\ nsChanges \in 0..MaxNsChanges
  /\ faults \in 0..MaxFaults


Init ==
  /\ api \in [Pods -> InitialPods]
  /\ pols \in [Policies -> InitialPols]
  /\ ns \in InitialNs
  /\ ns = "absent" => /\ \A p \in Pods : api[p] = None
                      /\ \A x \in Policies : pols[x] = None
  /\ nsQ = (IF ns = "absent" THEN <<>> ELSE <<ns>>) /\ nsStore = "absent"
  /\ live = [p \in Pods |-> None]
  /\ ctxPod = [c \in Contexts |-> None]
  /\ pu = [c \in Contexts |-> "new"]
  /\ enforced = [c \in Contexts |-> NoPolicy]
  /\ podQ = [w \in Watchers |-> [p \in Pods |-> <<>>]]
  /\ podStore = [w \in Watchers |-> [p \in Pods |-> None]]
  /\ polQ = [w \in Watchers |-> [x \in Policies |-> <<>>]]
  /\ polStore = [w \in Watchers |-> NoPolicies]
  /\ fed = [w \in Watchers |-> {}]
  /\ podCache = [p \in Pods |-> None]
  /\ active = None
  /\ nsPc = "idle" /\ nsW = None
  /\ wstate = [w \in Watchers |-> "unused"]
  /\ pc = [t \in Threads |-> "idle"]
  /\ job = [t \in Threads |-> NoJob]
  /\ missed = [p \in Pods |-> {}]
  /\ changes = 0 /\ nsChanges = 0 /\ faults = 0

-----------------------------------------------------------------------------
(* The API server: every change is a delta for the informers that watch.   *)

Push(Q, kind, o, v) ==
  [w \in Watchers |-> IF kind \in fed[w]
                       THEN [Q[w] EXCEPT ![o] = Append(@, v)] ELSE Q[w]]

ChangePod(p, v) ==
  /\ changes < MaxChanges
  /\ changes' = changes + 1
  /\ api' = [api EXCEPT ![p] = v]
  /\ podQ' = Push(podQ, "pod", p, v)
  /\ UNCHANGED <<pols, ns, puVars, nsQVars, podStore, polQVars, nsVars,
                 podCache, jobVars, missed, nsChanges, faults>>

CreatePod(p) ==
  /\ api[p] = None /\ ns # "absent"
  /\ \E l \in Labels : ChangePod(p, [ip |-> "none", lab |-> l])

AssignIP(p) ==
  /\ api[p] # None /\ api[p].ip = "none"
  /\ \E i \in {"pod", "host"} : ChangePod(p, [api[p] EXCEPT !.ip = i])

(* New labels, or (l unchanged) an update of some other field. *)
UpdateApiPod(p) ==
  /\ api[p] # None
  /\ \E l \in Labels : ChangePod(p, [api[p] EXCEPT !.lab = l])

DeleteApiPod(p) == api[p] # None /\ ChangePod(p, None)

ChangePolicy(x) ==
  /\ changes < MaxChanges
  /\ changes' = changes + 1
  /\ \E v \in PolObj \cup {None} :
       /\ v # pols[x]
       /\ v # None => ns # "absent"
       /\ pols' = [pols EXCEPT ![x] = v]
       /\ polQ' = Push(polQ, "pol", x, v)
  /\ UNCHANGED <<api, ns, puVars, nsQVars, podQVars, polStore, nsVars,
                 podCache, jobVars, missed, nsChanges, faults>>

(* A namespace is deleted only once it is empty. *)
ChangeNamespace ==
  /\ nsChanges < MaxNsChanges
  /\ nsChanges' = nsChanges + 1
  /\ \E v \in NsObj :
       /\ ~(v = "absent" /\ ns = "absent")
       /\ v = "absent" => /\ \A p \in Pods : api[p] = None
                         /\ \A x \in Policies : pols[x] = None
       /\ ns' = v
       /\ nsQ' = Append(nsQ, v)
  /\ UNCHANGED <<api, pols, puVars, nsStore, podQVars, polQVars, nsVars,
                 podCache, jobVars, missed, changes, faults>>

-----------------------------------------------------------------------------
(* Containers and Trireme. *)

(* The monitor reports a started container: Trireme creates its PU. *)
StartContainer(c, p) ==
  /\ pu[c] = "new" /\ api[p] # None
  /\ ctxPod' = [ctxPod EXCEPT ![c] = p]
  /\ pu' = [pu EXCEPT ![c] = "creating"]
  /\ IF Kind[c] = "infra"
     THEN /\ live[p] = None
          /\ live' = [live EXCEPT ![p] = c]
          /\ missed' = [missed EXCEPT ![p] = {}]
     ELSE UNCHANGED <<live, missed>>
  /\ pc' = [pc EXCEPT ![Mon(c)] = "resolve"]
  /\ UNCHANGED <<apiVars, enforced, nsQVars, podQVars, polQVars, nsVars,
                 podCache, job, bounds>>

(* The infra container dies.  HandlePUEvent only logs, so the resolver     *)
(* keeps its state.                                                        *)
StopContainer(p) ==
  /\ live[p] # None
  /\ live' = [live EXCEPT ![p] = None]
  /\ IF pu[live[p]] = "creating"
     THEN UNCHANGED <<pu, enforced>>
     ELSE /\ pu' = [pu EXCEPT ![live[p]] = "gone"]
          /\ enforced' = [enforced EXCEPT ![live[p]] = NoPolicy]
  /\ UNCHANGED <<apiVars, ctxPod, nsQVars, podQVars, polQVars, nsVars,
                 podCache, jobVars, missed, bounds>>

(* The jobs that hold c and already read the pod when u writes c's policy. *)
Overtake(u, c) ==
  [t \in Threads |->
     IF t = u THEN NoJob
     ELSE IF job[t].ctx = c /\ pc[t] \in Reading
     THEN [job[t] EXCEPT !.late = TRUE] ELSE job[t]]

(* A policy written over one that was resolved meanwhile may take it back. *)
Enforced(t) == IF job[t].late THEN Flag({job[t].pod}, "overtaken") ELSE missed

(* ResolvePolicy returned a policy: Trireme enforces it. *)
CreatePU(c) ==
  /\ pc[Mon(c)] = "update"
  /\ IF Kind[c] = "infra" /\ live[ctxPod[c]] # c
     THEN /\ pu' = [pu EXCEPT ![c] = "gone"]
          /\ missed' = Flags(job[Mon(c)].pod, job[Mon(c)].repairs)
          /\ UNCHANGED enforced
     ELSE /\ pu' = [pu EXCEPT ![c] = "up"]
          /\ enforced' = [enforced EXCEPT ![c] = job[Mon(c)].pol]
          /\ missed' = Enforced(Mon(c))
  /\ job' = Overtake(Mon(c), c)
  /\ pc' = [pc EXCEPT ![Mon(c)] = "idle"]
  /\ UNCHANGED <<apiVars, live, ctxPod, nsQVars, podQVars, polQVars, nsVars,
                 podCache, bounds>>


-----------------------------------------------------------------------------
(* ResolvePolicy, updatePodPolicy and resolvePodPolicy, one step per API   *)
(* call or cache access, in the order of the code.                         *)

Goto(t, l, j) ==
  /\ pc' = [pc EXCEPT ![t] = l]
  /\ job' = [job EXCEPT ![t] = j]

(* An error return: ResolvePolicy leaves the PU without a policy, and a    *)
(* handler ends, dropping the pods it had still to update.                 *)
Fail(t, p, reason) ==
  /\ Goto(t, "idle", NoJob)
  /\ IF t \in Monitors
     THEN /\ pu' = [pu EXCEPT ![t[2]] = "failed"]
          /\ missed' = Flags(p, job[t].repairs)
     ELSE /\ missed' = [q \in Pods |->
               IF q = p THEN missed[q] \cup job[t].repairs \cup {reason}
               ELSE IF q \in job[t].todo THEN missed[q] \cup {"aborted"}
               ELSE missed[q]]
          /\ UNCHANGED pu

(* A call fails because it must, or by a fault of the network.             *)
CallFails(must) ==
  IF must THEN UNCHANGED faults
  ELSE faults < MaxFaults /\ faults' = faults + 1

addPodToCache_Swapped(p, c) == podCache' = [podCache EXCEPT ![p] = p]
addPodToCache_NoPodName(p, c) == podCache' = [q \in Pods |-> c]
addPodToCache(p, c) == podCache' = [podCache EXCEPT ![p] = c]
deleteFromCacheByPodName(p) == podCache' = [podCache EXCEPT ![p] = None]

tags_NoContainerName(c) == IF Kind[c] = "app" THEN "infra" ELSE Kind[c]
tags(c) == Kind[c]

ResolvePolicy(c) ==
  LET t == Mon(c)  p == ctxPod[c] IN
  /\ pc[t] = "resolve"
  /\ \/ /\ tags(c) = "app"
        /\ Goto(t, "update", [job[t] EXCEPT !.pol = notInfraContainerPolicy])
        /\ UNCHANGED <<podCache, pu, missed>>
     \/ /\ tags(c) = "untagged"
        /\ Fail(t, None, "resolveFailed")
        /\ UNCHANGED podCache
     \/ /\ tags(c) = "infra"
        /\ addPodToCache(p, c)
        /\ Goto(t, "getPod", [job[t] EXCEPT !.pod = p, !.ctx = c])
        /\ UNCHANGED <<pu, missed>>
  /\ UNCHANGED <<apiVars, live, ctxPod, enforced, nsQVars, podQVars, polQVars,
                 nsVars, bounds>>

(* updatePodPolicy finds the pod's contextID in the cache.                 *)
contextIDByPodName_StaysAtPod(t) ==
  /\ pc[t] = "next"
  /\ \E p \in job[t].todo :
       IF podCache[p] # None
       THEN /\ Goto(t, "getPod", [job[t] EXCEPT !.pod = p, !.ctx = podCache[p]])
            /\ UNCHANGED <<pu, missed>>
       ELSE Fail(t, p, "unmapped")
  /\ UNCHANGED <<apiVars, live, ctxPod, enforced, nsQVars, podQVars, polQVars,
                 nsVars, podCache, bounds>>
contextIDByPodName(t) ==
  /\ pc[t] = "next"
  /\ \E p \in job[t].todo :
       IF podCache[p] # None
       THEN /\ Goto(t, "getPod", [job[t] EXCEPT !.pod = p, !.ctx = podCache[p],
                                                !.todo = @ \ {p}])
            /\ UNCHANGED <<pu, missed>>
       ELSE Fail(t, p, "unmapped")
  /\ UNCHANGED <<apiVars, live, ctxPod, enforced, nsQVars, podQVars, polQVars,
                 nsVars, podCache, bounds>>

unchangedByReads == <<apiVars, live, ctxPod, enforced, nsQVars, podQVars,
                      polQVars, nsVars, podCache, changes, nsChanges>>

getPod(t) ==
  LET pod == api[job[t].pod]
      read == [job[t] EXCEPT !.repairs = missed[job[t].pod]]
  IN
  /\ pc[t] = "getPod" /\ pod # None
  /\ IF pod.ip \in {"none", "host"} \/ pod.lab = NoLabels
     THEN Goto(t, "update", [read EXCEPT !.pol = notInfraContainerPolicy])
     ELSE Goto(t, "nsActive", [read EXCEPT !.lab = pod.lab])
  /\ missed' = [missed EXCEPT ![job[t].pod] = {}]
  /\ UNCHANGED <<unchangedByReads, pu, faults>>

isNamespaceActive(t) ==
  /\ pc[t] = "nsActive"
  /\ IF active = None
     THEN /\ Goto(t, "update", [job[t] EXCEPT !.pol = allowAllPolicy(job[t].lab)])
          /\ missed' = IF nsPc \in {"startPolicies", "activate"}
                       THEN Flag({job[t].pod}, "preActivation") ELSE missed
     ELSE /\ Goto(t, "getWatcher", job[t])
          /\ UNCHANGED missed
  /\ UNCHANGED <<unchangedByReads, pu, faults>>

getNamespaceWatcher(t) ==
  /\ pc[t] = "getWatcher"
  /\ IF active # None
     THEN /\ Goto(t, "listPolicies", [job[t] EXCEPT !.w = active])
          /\ UNCHANGED <<pu, missed>>
     ELSE Fail(t, job[t].pod, "resolveFailed")
  /\ UNCHANGED <<unchangedByReads, faults>>

(* The store's policies.  (The code's list also begins with as many zero   *)
(* policies, which match every pod and carry no rule.)                     *)
getPolicyList(t) ==
  /\ pc[t] = "listPolicies"
  /\ Goto(t, "ingress", [job[t] EXCEPT !.list = polStore[job[t].w]])
  /\ UNCHANGED <<unchangedByReads, pu, missed, faults>>

IngressPodRules(t) ==
  LET pod == api[job[t].pod] IN
  /\ pc[t] = "ingress" /\ pod # None
  /\ Goto(t, "egress", [job[t] EXCEPT !.in = PodRules(job[t].list, pod.lab)])
  /\ UNCHANGED <<unchangedByReads, pu, missed, faults>>

(* The third read of the pod, and the generation of the policy.            *)
EgressPodRules(t) ==
  LET pod == api[job[t].pod]
      eg  == IF EgressPolicies THEN PodRules(job[t].list, pod.lab) ELSE {}
  IN
  /\ pc[t] = "egress" /\ pod # None
  /\ IF Generates(job[t].in \cup eg)
     THEN /\ Goto(t, "update", [job[t] EXCEPT
               !.pol = generatePUPolicy(job[t].lab, job[t].in, eg)])
          /\ UNCHANGED <<pu, missed>>
     ELSE Fail(t, job[t].pod, "resolveFailed")
  /\ UNCHANGED <<unchangedByReads, faults>>

(* A pod read fails when the pod is gone, or by a fault.                   *)
PodReadFails(t) ==
  /\ pc[t] \in {"getPod", "ingress", "egress"}
  /\ CallFails(api[job[t].pod] = None)
  /\ Fail(t, job[t].pod, "resolveFailed")
  /\ UNCHANGED unchangedByReads

Continue_FirstPodOnly(t) == "idle"
Continue(t) == IF job[t].todo = {} THEN "idle" ELSE "next"

(* Trireme replaces the policy of an existing PU, and otherwise (or by a   *)
(* fault) returns an error; for a PU in creation it may also wait.         *)
UpdatePolicy(t) ==
  LET c == job[t].ctx IN
  /\ t \in Controllers /\ pc[t] = "update" /\ pu[c] = "up"
  /\ enforced' = [enforced EXCEPT ![c] = job[t].pol]
  /\ pc' = [pc EXCEPT ![t] = Continue(t)]
  /\ job' = [Overtake(t, c) EXCEPT ![t].todo = job[t].todo]
  /\ missed' = Enforced(t)
  /\ UNCHANGED <<apiVars, live, ctxPod, pu, nsQVars, podQVars, polQVars, nsVars,
                 podCache, bounds>>

UpdatePolicyFails_Retries(t) ==
  /\ t \in Controllers /\ pc[t] = "update"
  /\ CallFails(pu[job[t].ctx] # "up")
  /\ UNCHANGED <<unchangedByReads, pu, jobVars, missed>>
UpdatePolicyFails(t) ==
  /\ t \in Controllers /\ pc[t] = "update"
  /\ CallFails(pu[job[t].ctx] # "up")
  /\ Fail(t, job[t].pod, "resolveFailed")
  /\ UNCHANGED unchangedByReads

-----------------------------------------------------------------------------
(* Handlers of the pod controller of watcher w.                            *)

(* The informer stores the object of the next delta, then calls a handler. *)
Pop(w, p) ==
  /\ pc[PodCtl(w)] = "idle" /\ podQ[w][p] # <<>>
  /\ podStore' = [podStore EXCEPT ![w][p] = Head(podQ[w][p])]
  /\ podQ' = [podQ EXCEPT ![w][p] = Tail(@)]
  /\ UNCHANGED <<apiVars, puVars, nsQVars, polQVars, nsVars, bounds>>

addPod_NoUpdate(w, p) ==
  /\ Pop(w, p)
  /\ podStore[w][p] = None /\ podStore'[w][p] # None
  /\ UNCHANGED <<jobVars, podCache, missed>>
addPod(w, p) ==
  /\ Pop(w, p)
  /\ podStore[w][p] = None /\ podStore'[w][p] # None
  /\ Goto(PodCtl(w), "next", [NoJob EXCEPT !.todo = {p}])
  /\ UNCHANGED <<podCache, missed>>

updatePod(w, p) ==
  /\ Pop(w, p)
  /\ podStore[w][p] # None /\ podStore'[w][p] # None
  /\ IF isPolicyUpdateNeeded(podStore[w][p], podStore'[w][p])
     THEN Goto(PodCtl(w), "next", [NoJob EXCEPT !.todo = {p}])
     ELSE UNCHANGED jobVars
  /\ UNCHANGED <<podCache, missed>>

deletePod(w, p) ==
  /\ Pop(w, p)
  /\ podStore'[w][p] = None
  /\ deleteFromCacheByPodName(p)
  /\ UNCHANGED <<jobVars, missed>>

-----------------------------------------------------------------------------
(* Handlers of the network policy controller of watcher w.                 *)

PopPolicy(w, x, sel, lost) ==
  LET t == PolCtl(w) IN
  /\ pc[t] = "idle"
  /\ polStore' = [polStore EXCEPT ![w][x] = Head(polQ[w][x])]
  /\ polQ' = [polQ EXCEPT ![w][x] = Tail(@)]
  /\ Goto(t, "localPods", [NoJob EXCEPT !.sel = sel, !.lost = lost])
  /\ UNCHANGED <<apiVars, puVars, nsQVars, podQVars, nsVars, podCache, missed,
                 bounds>>

addNetworkPolicy(w, x) ==
  /\ polQ[w][x] # <<>> /\ polStore[w][x] = None /\ Head(polQ[w][x]) # None
  /\ PopPolicy(w, x, Head(polQ[w][x]).sel, {})

(* The pods of the new selector are resolved again; "lost" records, for    *)
(* the properties only, what the old selector matched besides.             *)
updateNetworkPolicy(w, x) ==
  /\ polQ[w][x] # <<>> /\ polStore[w][x] # None /\ Head(polQ[w][x]) # None
  /\ PopPolicy(w, x, Head(polQ[w][x]).sel,
               polStore[w][x].sel \ Head(polQ[w][x]).sel)

deleteNetworkPolicy_NoPods(w, x) ==
  /\ polQ[w][x] # <<>> /\ Head(polQ[w][x]) = None /\ polStore[w][x] # None
  /\ PopPolicy(w, x, {}, {})
deleteNetworkPolicy(w, x) ==
  /\ polQ[w][x] # <<>> /\ Head(polQ[w][x]) = None /\ polStore[w][x] # None
  /\ PopPolicy(w, x, polStore[w][x].sel, {})

Selected(S) == {p \in Pods : api[p] # None /\ api[p].lab \in S}

LocalPods(t) ==
  LET affected == Selected(job[t].sel) IN
  /\ pc[t] = "localPods"
  /\ Goto(t, IF affected = {} THEN "idle" ELSE "next",
             [NoJob EXCEPT !.todo = affected])
  /\ missed' = Flag(Selected(job[t].lost), "selectorMoved")
  /\ UNCHANGED <<unchangedByReads, pu, faults>>

LocalPodsFails(t) ==
  /\ pc[t] = "localPods"
  /\ CallFails(FALSE)
  /\ Goto(t, "idle", NoJob)
  /\ missed' = Flag(Selected(job[t].sel \cup job[t].lost), "aborted")
  /\ UNCHANGED <<unchangedByReads, pu>>


-----------------------------------------------------------------------------
(* The namespace controller.                                               *)

(* activateNamespace creates the pod controller first (StartPodController);*)
(* deactivateNamespace hands each controller of the watcher one stop       *)
(* token, which may or may not end the feed of its informer.               *)
BeginActivation ==
  /\ nsPc' = "startPods"
  /\ \E w \in Watchers : wstate[w] = "unused" /\ nsW' = w
  /\ UNCHANGED <<active, wstate, fed>>

deactivateNamespace_NoStop ==
  /\ active' = None
  /\ UNCHANGED <<nsPc, nsW, wstate, fed>>
deactivateNamespace ==
  /\ active' = None
  /\ wstate' = [wstate EXCEPT ![active] = "retired"]
  /\ \E still \in SUBSET fed[active] : fed' = [fed EXCEPT ![active] = still]
  /\ UNCHANGED <<nsPc, nsW>>

PopNamespace ==
  /\ nsPc = "idle" /\ nsQ # <<>>
  /\ nsStore' = Head(nsQ)
  /\ nsQ' = Tail(nsQ)
  /\ UNCHANGED <<apiVars, puVars, podQVars, polQVars, podCache, jobVars, missed,
                 bounds>>

addNamespace ==
  /\ PopNamespace
  /\ nsStore = "absent" /\ Head(nsQ) # "absent"
  /\ IF active = None /\ Wanted(Head(nsQ))
     THEN BeginActivation ELSE UNCHANGED nsVars

deleteNamespace ==
  /\ PopNamespace
  /\ Head(nsQ) = "absent"
  /\ IF active # None THEN deactivateNamespace ELSE UNCHANGED nsVars

updateNamespace_NeverOff ==
  /\ PopNamespace
  /\ nsStore # "absent" /\ Head(nsQ) # "absent"
  /\ IF BetaPolicies /\ Head(nsQ) = "on" /\ active = None
     THEN BeginActivation ELSE UNCHANGED nsVars
updateNamespace ==
  /\ PopNamespace
  /\ nsStore # "absent" /\ Head(nsQ) # "absent"
  /\ CASE BetaPolicies /\ Head(nsQ) = "on" /\ active = None -> BeginActivation
       [] BetaPolicies /\ Head(nsQ) # "on" /\ active # None -> deactivateNamespace
       [] OTHER -> UNCHANGED nsVars

Listed(obj) == IF obj = None THEN <<>> ELSE <<obj>>

StartPodController ==
  /\ nsPc = "startPods"
  /\ nsPc' = "startPolicies"
  /\ wstate' = [wstate EXCEPT ![nsW] = "started"]
  /\ fed' = [fed EXCEPT ![nsW] = @ \cup {"pod"}]
  /\ podQ' = [podQ EXCEPT ![nsW] = [p \in Pods |-> Listed(api[p])]]
  /\ UNCHANGED <<apiVars, puVars, nsQVars, podStore, polQVars, active, nsW,
                 podCache, jobVars, missed, bounds>>

StartPolicyController ==
  /\ nsPc = "startPolicies"
  /\ nsPc' = "activate"
  /\ fed' = [fed EXCEPT ![nsW] = @ \cup {"pol"}]
  /\ polQ' = [polQ EXCEPT ![nsW] = [x \in Policies |-> Listed(pols[x])]]
  /\ UNCHANGED <<apiVars, puVars, nsQVars, podQVars, polStore, active, nsW, wstate,
                 podCache, jobVars, missed, bounds>>

activateNamespaceWatcher ==
  /\ nsPc = "activate"
  /\ active' = nsW
  /\ nsPc' = "idle" /\ nsW' = None
  /\ UNCHANGED <<apiVars, puVars, nsQVars, podQVars, polQVars, wstate, fed,
                 podCache, jobVars, missed, bounds>>

-----------------------------------------------------------------------------

Environment ==
  \/ \E p \in Pods : CreatePod(p) \/ AssignIP(p) \/ UpdateApiPod(p)
                     \/ DeleteApiPod(p) \/ StopContainer(p)
  \/ \E x \in Policies : ChangePolicy(x)
  \/ ChangeNamespace
  \/ \E c \in Contexts, p \in Pods : StartContainer(c, p)

NamespaceController ==
  \/ addNamespace \/ deleteNamespace \/ updateNamespace
  \/ StartPodController \/ StartPolicyController \/ activateNamespaceWatcher

Resolve(t) ==
  \/ contextIDByPodName(t)
  \/ getPod(t) \/ isNamespaceActive(t) \/ getNamespaceWatcher(t)
  \/ getPolicyList(t) \/ IngressPodRules(t) \/ EgressPodRules(t)
  \/ PodReadFails(t)

Monitor(c) == ResolvePolicy(c) \/ Resolve(Mon(c)) \/ CreatePU(c)

PodController(w) ==
  \/ \E p \in Pods : addPod(w, p) \/ updatePod(w, p) \/ deletePod(w, p)
  \/ Resolve(PodCtl(w)) \/ UpdatePolicy(PodCtl(w))
  \/ UpdatePolicyFails(PodCtl(w))

PolicyController(w) ==
  LET t == PolCtl(w) IN
  \/ \E x \in Policies : \/ addNetworkPolicy(w, x) \/ updateNetworkPolicy(w, x)
                         \/ deleteNetworkPolicy(w, x)
  \/ LocalPods(t) \/ LocalPodsFails(t)
  \/ Resolve(t) \/ UpdatePolicy(t) \/ UpdatePolicyFails(t)

Next ==
  \/ Environment
  \/ NamespaceController
  \/ \E c \in Contexts : Monitor(c)
  \/ \E w \in Watchers : PodController(w) \/ PolicyController(w)

(* Every goroutine that can take a step eventually takes one; the          *)
(* environment need not do anything.                                       *)
Fairness ==
  /\ WF_vars(NamespaceController)
  /\ \A c \in Contexts : WF_vars(Monitor(c))
  /\ \A w \in Watchers : WF_vars(PodController(w)) /\ WF_vars(PolicyController(w))

Spec == Init /\ [][Next]_vars /\ Fairness

-----------------------------------------------------------------------------
(* Properties. *)

Quiescent ==
  /\ nsPc = "idle" /\ nsQ = <<>>
  /\ \A t \in Threads : pc[t] = "idle"
  /\ \A w \in Watchers : /\ \A p \in Pods : podQ[w][p] = <<>>
                         /\ \A x \in Policies : polQ[w][x] = <<>>

(* The policy resolvePodPolicy would give the pod if nothing interfered.   *)
Desired(p) ==
  LET l == api[p].lab  r == PodRules(pols, l) IN
  IF api[p].ip \in {"none", "host"} \/ l = NoLabels THEN notInfraContainerPolicy
  ELSE IF ~Wanted(ns) THEN allowAllPolicy(l)
  ELSE generatePUPolicy(l, r, IF EgressPolicies THEN r ELSE {})

Enforceable(p) == live[p] # None /\ pu[live[p]] = "up" /\ api[p] # None

(* Every goroutine is idle and every delta handled, yet the pod's running  *)
(* container does not have the policy the API server's state calls for.    *)
Stale(p) ==
  /\ Quiescent /\ active # None /\ Enforceable(p)
  /\ enforced[live[p]] # Desired(p)

(* In an active namespace a running pod ends up with the policy that the   *)
(* API server's present state calls for, whatever the interleaving of the  *)
(* handlers, unless one of the recorded losses befell it since it was last *)
(* resolved (updatePodPolicy, resolvePodPolicy).                           *)
StaleOnlyIfMissed == \A p \in Pods : Stale(p) => missed[p] # {}

(* Only infra containers are in the cache, each under its own pod's name,  *)
(* and a resolution under way is for the pod whose container it will       *)
(* update: no container ever gets another pod's policy, and the other      *)
(* containers of a pod are never policed.                                  *)
PolicyReachesOwnPod ==
  /\ \A p \in Pods : podCache[p] # None =>
       ctxPod[podCache[p]] = p /\ Kind[podCache[p]] = "infra"
  /\ \A t \in Threads : job[t].ctx # None =>
       ctxPod[job[t].ctx] = job[t].pod /\ Kind[job[t].ctx] = "infra"
  /\ \A c \in Contexts : Kind[c] # "infra" =>
       enforced[c] \in {NoPolicy, notInfraContainerPolicy}

(* No activation overwrites another and no watcher leaks: a watcher whose  *)
(* controllers run is the one in the cache or the one being put there, and *)
(* the one in the cache still receives every delta (activateNamespace,     *)
(* deactivateNamespaceWatcher).                                            *)
WatcherAccounted ==
  /\ \A w \in Watchers : wstate[w] = "started" => w = active \/ w = nsW
  /\ active # None => fed[active] = {"pod", "pol"} /\ nsPc = "idle"

(* Between two handlers of the namespace controller, with no delta left,   *)
(* the namespace is active just when its object asks for network policies. *)
ActivationFollowsNamespace ==
  nsQ = <<>> /\ nsPc = "idle" => (active # None <=> Wanted(ns))

(* When changes stop, every handler ends and every delta gets handled.     *)
EventuallyQuiescent == <>[]Quiescent

(* A handler never turns back: every step it takes ends it, or ends its    *)
(* work for one of the pods it began with, or goes on to a later call for  *)
(* the same pod, whatever the other goroutines do meanwhile.  So it calls  *)
(* updatePodPolicy at most once for each pod, and it returns (policy.go:346*)
(* to 448).                                                                *)
Stage == [resolve |-> 0, localPods |-> 0, next |-> 1, getPod |-> 2, nsActive |-> 3,
          getWatcher |-> 4, listPolicies |-> 5, ingress |-> 6, egress |-> 7,
          update |-> 8]
Left(t) ==
  job[t].todo \cup (IF pc[t] \in Reading \cup {"getPod"} THEN {job[t].pod} ELSE {})
Rests(t) == pc'[t] = pc[t] /\ Left(t)' = Left(t)
Advances(t) ==
  \/ pc'[t] = "idle"
  \/ Stage[pc[t]] = 0 /\ Stage[pc'[t]] > 0
  \/ Left(t)' \subseteq Left(t) /\ Left(t)' # Left(t)
  \/ Left(t)' = Left(t) /\ Stage[pc'[t]] > Stage[pc[t]]
HandlersAdvance ==
  [][\A t \in Threads : pc[t] # "idle" => Rests(t) \/ Advances(t)]_vars

(* "Reresolve all affected pods" (policy.go:439): an updated policy leaves *)
(* no pod behind that its old selector matched.                            *)
SelectorMoveReresolves ==
  \A p \in Pods : Stale(p) => missed[p] # {"selectorMoved"}

(* "Keep the mapping in cache" (policy.go:126): a running pod's container  *)
(* that was resolved is found when its policy has to change.               *)
MappingKept ==
  \A p \in Pods : Stale(p) => missed[p] # {"unmapped"}

=============================================================================
