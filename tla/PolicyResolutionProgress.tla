----------------------- MODULE PolicyResolutionProgress -----------------------
(***************************************************************************)
(* Every step of a handler of PolicyResolution brings it closer to its     *)
(* return, for any number of pods, policies and goroutines.                *)
(***************************************************************************)
EXTENDS PolicyResolutionSafety

(* A handler has no pods left before it begins, and no longer counts the   *)
(* one it works on among those that wait.                                  *)
LoopInv ==
  \A t \in Threads :
    /\ pc[t] \in {"idle", "resolve", "localPods"} => job[t].todo = {}
    /\ pc[t] \in Reading \cup {"getPod"} => job[t].pod \notin job[t].todo

(* The ways in which a step may move goroutine t from position l to m and  *)
(* its locals from i to j.                                                 *)
Begins(l, m, j)  == l = "idle" /\ m \in {"resolve", "localPods", "next"}
                    /\ (m # "next" => j.todo = {})
Starts(l, m, j)  == l \in {"resolve", "localPods"} /\ (m = "next" \/ j.todo = {})
                    /\ m \in {"next", "getPod", "update"}
Picks(l, m, i, j) == l = "next" /\ m = "getPod"
                     /\ j.pod \in i.todo /\ j.todo = i.todo \ {j.pod}
Reads(l, m, i, j) == l \in Reading \cup {"getPod"} /\ m \in Reading
                     /\ Stage[m] > Stage[l] /\ j.pod = i.pod /\ j.todo = i.todo
Loops(l, m, i, j) == l = "update" /\ m = "next" /\ j.todo = i.todo
Stays(l, m, i, j) == l = m /\ j.pod = i.pod /\ j.todo = i.todo
Ends(m, j)        == m = "idle" /\ j.todo = {}

Moves(l, m, i, j) ==
  \/ Begins(l, m, j) \/ Starts(l, m, j) \/ Picks(l, m, i, j) \/ Reads(l, m, i, j)
  \/ Loops(l, m, i, j) \/ Stays(l, m, i, j) \/ Ends(m, j)

(* All goroutines move in one of these ways. *)
AllMove == \A t \in Threads : Moves(pc[t], pc'[t], job[t], job'[t])

-----------------------------------------------------------------------------
(* The order of the positions. *)
LEMMA Stages ==
  /\ Stage["resolve"] = 0 /\ Stage["localPods"] = 0 /\ Stage["next"] = 1
  /\ Stage["getPod"] = 2 /\ Stage["nsActive"] = 3 /\ Stage["getWatcher"] = 4
  /\ Stage["listPolicies"] = 5 /\ Stage["ingress"] = 6 /\ Stage["egress"] = 7
  /\ Stage["update"] = 8
BY DEF Stage

(* If all goroutines move in these ways, the handlers advance and the      *)
(* invariant holds again.                                                  *)
LEMMA MovesAdvance ==
  ASSUME LoopInv, AllMove
  PROVE  LoopInv' /\ \A t \in Threads : pc[t] # "idle" => Rests(t) \/ Advances(t)
<1> DEFINE A(t) == pc[t] # "idle" => Rests(t) \/ Advances(t)
           L(t) == /\ pc[t] \in {"idle", "resolve", "localPods"} => job[t].todo = {}
                   /\ pc[t] \in Reading \cup {"getPod"} => job[t].pod \notin job[t].todo
<1> SUFFICES ASSUME NEW t \in Threads PROVE L(t)' /\ A(t)
  BY DEF LoopInv
<1>0. L(t) /\ Moves(pc[t], pc'[t], job[t], job'[t])
  BY DEF LoopInv, AllMove
<1> USE Stages DEF Left, Rests, Advances
<1>1. CASE Begins(pc[t], pc'[t], job'[t])
  BY <1>1 DEF Begins, Reading
<1>2. CASE Starts(pc[t], pc'[t], job'[t])
  BY <1>2 DEF Starts, Reading
<1>3. CASE Picks(pc[t], pc'[t], job[t], job'[t])
  BY <1>3 DEF Picks, Reading
<1>4. CASE Reads(pc[t], pc'[t], job[t], job'[t])
  BY <1>0, <1>4 DEF Reads, Reading
<1>5. CASE Loops(pc[t], pc'[t], job[t], job'[t])
  BY <1>0, <1>5 DEF Loops, Reading
<1>6. CASE Stays(pc[t], pc'[t], job[t], job'[t])
  BY <1>0, <1>6 DEF Stays
<1>7. CASE Ends(pc'[t], job'[t])
  BY <1>7 DEF Ends, Reading
<1> QED BY <1>0, <1>1, <1>2, <1>3, <1>4, <1>5, <1>6, <1>7 DEF Moves

-----------------------------------------------------------------------------
(* A step of one goroutine. *)
LEMMA GotoMoves ==
  ASSUME TypeInv, NEW t \in Threads, NEW l, NEW j, Goto(t, l, j),
         Moves(pc[t], l, job[t], j)
  PROVE  AllMove
<1>1. \A u \in Threads : u # t => pc'[u] = pc[u] /\ job'[u] = job[u]
  BY DEF Goto, TypeInv, TypeOK
<1>2. pc'[t] = l /\ job'[t] = j
  BY DEF Goto, TypeInv, TypeOK
<1>3. \A u \in Threads : u # t => Moves(pc[u], pc'[u], job[u], job'[u])
  BY <1>1 DEF Moves, Stays
<1> QED BY <1>2, <1>3 DEF AllMove

(* A step that leaves the goroutines alone. *)
LEMMA NoneMoves ==
  ASSUME UNCHANGED jobVars
  PROVE  AllMove
BY DEF jobVars, AllMove, Moves, Stays

(* A handler that returns an error ends. *)
LEMMA FailMoves ==
  ASSUME TypeInv, NEW t \in Threads, NEW p, NEW r, Fail(t, p, r)
  PROVE  AllMove
<1>1. Goto(t, "idle", NoJob)
  BY DEF Fail
<1>2. Moves(pc[t], "idle", job[t], NoJob)
  BY DEF NoJob, Moves, Ends
<1> HIDE DEF NoJob
<1> QED BY <1>1, <1>2, GotoMoves

(* The calls of resolvePodPolicy come in the order of the code. *)
LEMMA ResolveMoves ==
  ASSUME TypeInv, NEW t \in Threads, Resolve(t)
  PROVE  AllMove
<1>0. job[t] \in Job
  BY DEF TypeInv, TypeOK
<1>a. ASSUME NEW l \in Reading, NEW j, Goto(t, l, j), pc[t] \in Reading \cup {"getPod"},
             Stage[l] > Stage[pc[t]], j.pod = job[t].pod, j.todo = job[t].todo
      PROVE  AllMove
  <2>1. Moves(pc[t], l, job[t], j)
    BY <1>a DEF Moves, Reads
  <2> QED BY <1>a, <2>1, GotoMoves
<1>b. ASSUME NEW p, NEW r, Fail(t, p, r) PROVE AllMove
  BY <1>b, FailMoves
<1>r. /\ Reading = {"nsActive", "getWatcher", "listPolicies", "ingress", "egress", "update"}
      /\ "getPod" \in Reading \cup {"getPod"}
  BY DEF Reading
<1>1. CASE contextIDByPodName(t)
  <2>1. PICK p \in job[t].todo :
          \/ /\ pc[t] = "next"
             /\ Goto(t, "getPod", [job[t] EXCEPT !.pod = p, !.ctx = podCache[p],
                                                 !.todo = job[t].todo \ {p}])
          \/ Fail(t, p, "unmapped")
    BY <1>1 DEF contextIDByPodName
  <2> DEFINE j == [job[t] EXCEPT !.pod = p, !.ctx = podCache[p],
                                 !.todo = job[t].todo \ {p}]
  <2>2. j.pod = p /\ j.todo = job[t].todo \ {p}
    BY <1>0 DEF Job
  <2>3. CASE pc[t] = "next" /\ Goto(t, "getPod", j)
    <3> HIDE DEF j
    <3>1. Moves(pc[t], "getPod", job[t], j)
      BY <2>2, <2>3 DEF Moves, Picks
    <3> QED BY <2>3, <3>1, GotoMoves
  <2> QED BY <1>b, <2>1, <2>3
<1>2. CASE getPod(t)
  <2> DEFINE j1 == [[job[t] EXCEPT !.repairs = missed[job[t].pod]]
                    EXCEPT !.pol = notInfraContainerPolicy]
             j2 == [[job[t] EXCEPT !.repairs = missed[job[t].pod]]
                    EXCEPT !.lab = api[job[t].pod].lab]
  <2>1. pc[t] = "getPod" /\ (Goto(t, "update", j1) \/ Goto(t, "nsActive", j2))
    BY <1>2 DEF getPod
  <2>2. /\ j1.pod = job[t].pod /\ j1.todo = job[t].todo
        /\ j2.pod = job[t].pod /\ j2.todo = job[t].todo
    BY <1>0 DEF Job
  <2> HIDE DEF j1, j2
  <2> QED BY <1>a, <1>r, <2>1, <2>2, Stages
<1>3. CASE isNamespaceActive(t)
  <2> DEFINE j == [job[t] EXCEPT !.pol = allowAllPolicy(job[t].lab)]
  <2>1. pc[t] = "nsActive" /\ (Goto(t, "update", j) \/ Goto(t, "getWatcher", job[t]))
    BY <1>3 DEF isNamespaceActive
  <2>2. j.pod = job[t].pod /\ j.todo = job[t].todo
    BY <1>0 DEF Job
  <2> HIDE DEF j
  <2> QED BY <1>a, <1>r, <2>1, <2>2, Stages
<1>4. CASE getNamespaceWatcher(t)
  <2> DEFINE j == [job[t] EXCEPT !.w = active]
  <2>1. /\ pc[t] = "getWatcher"
        /\ Goto(t, "listPolicies", j) \/ Fail(t, job[t].pod, "resolveFailed")
    BY <1>4 DEF getNamespaceWatcher
  <2>2. j.pod = job[t].pod /\ j.todo = job[t].todo
    BY <1>0 DEF Job
  <2> HIDE DEF j
  <2> QED BY <1>a, <1>b, <1>r, <2>1, <2>2, Stages
<1>5. CASE getPolicyList(t)
  <2> DEFINE j == [job[t] EXCEPT !.list = polStore[job[t].w]]
  <2>1. pc[t] = "listPolicies" /\ Goto(t, "ingress", j)
    BY <1>5 DEF getPolicyList
  <2>2. j.pod = job[t].pod /\ j.todo = job[t].todo
    BY <1>0 DEF Job
  <2> HIDE DEF j
  <2> QED BY <1>a, <1>r, <2>1, <2>2, Stages
<1>6. CASE IngressPodRules(t)
  <2> DEFINE j == [job[t] EXCEPT !.in = PodRules(job[t].list, api[job[t].pod].lab)]
  <2>1. pc[t] = "ingress" /\ Goto(t, "egress", j)
    BY <1>6 DEF IngressPodRules
  <2>2. j.pod = job[t].pod /\ j.todo = job[t].todo
    BY <1>0 DEF Job
  <2> HIDE DEF j
  <2> QED BY <1>a, <1>r, <2>1, <2>2, Stages
<1>7. CASE EgressPodRules(t)
  <2> DEFINE eg == IF EgressPolicies THEN PodRules(job[t].list, api[job[t].pod].lab) ELSE {}
             j  == [job[t] EXCEPT !.pol = generatePUPolicy(job[t].lab, job[t].in, eg)]
  <2>1. /\ pc[t] = "egress"
        /\ Goto(t, "update", j) \/ Fail(t, job[t].pod, "resolveFailed")
    BY <1>7 DEF EgressPodRules
  <2>2. j.pod = job[t].pod /\ j.todo = job[t].todo
    BY <1>0 DEF Job
  <2> HIDE DEF j
  <2> QED BY <1>a, <1>b, <1>r, <2>1, <2>2, Stages
<1>8. CASE PodReadFails(t)
  BY <1>8, <1>b DEF PodReadFails
<1> QED BY <1>1, <1>2, <1>3, <1>4, <1>5, <1>6, <1>7, <1>8 DEF Resolve

(* Another goroutine's policy is marked late, and nothing else. *)
LEMMA OvertakeMoves ==
  ASSUME TypeInv, NEW t \in Threads, NEW c, NEW u \in Threads, u # t
  PROVE  /\ Overtake(t, c)[u].pod = job[u].pod
         /\ Overtake(t, c)[u].todo = job[u].todo
<1>1. job[u] \in Job
  BY DEF TypeInv, TypeOK
<1>2. /\ [job[u] EXCEPT !.late = TRUE].pod = job[u].pod
      /\ [job[u] EXCEPT !.late = TRUE].todo = job[u].todo
  BY <1>1 DEF Job
<1> QED BY <1>2 DEF Overtake

(* What Trireme's monitors do. *)
LEMMA MonitorMoves ==
  ASSUME TypeInv, LoopInv, NEW c \in Contexts, Monitor(c)
  PROVE  AllMove
<1> DEFINE t == Mon(c)
<1>0. t \in Threads /\ job[t] \in Job
  BY ThreadTypes DEF TypeInv, TypeOK
<1>1. CASE ResolvePolicy(c)
  <2> DEFINE j1 == [job[t] EXCEPT !.pol = notInfraContainerPolicy]
             j2 == [job[t] EXCEPT !.pod = ctxPod[c], !.ctx = c]
  <2>1. /\ pc[t] = "resolve"
        /\ \/ Goto(t, "update", j1) \/ Goto(t, "getPod", j2)
           \/ Fail(t, None, "resolveFailed")
    BY <1>1 DEF ResolvePolicy
  <2>2. job[t].todo = {}
    BY <1>0, <2>1 DEF LoopInv
  <2>3. j1.todo = {} /\ j2.todo = {}
    BY <1>0, <2>2 DEF Job
  <2> HIDE DEF j1, j2
  <2>4. Moves(pc[t], "update", job[t], j1) /\ Moves(pc[t], "getPod", job[t], j2)
    BY <2>1, <2>3 DEF Moves, Starts
  <2> QED BY <1>0, <2>1, <2>4, GotoMoves, FailMoves
<1>2. CASE CreatePU(c)
  <2>1. pc' = [pc EXCEPT ![t] = "idle"] /\ job' = Overtake(t, c)
    BY <1>2 DEF CreatePU
  <2>2. pc'[t] = "idle" /\ job'[t] = NoJob
    BY <1>0, <2>1 DEF TypeInv, TypeOK, Overtake
  <2>3. NoJob.todo = {}
    BY DEF NoJob
  <2> HIDE DEF NoJob
  <2>4. ASSUME NEW u \in Threads, u # t PROVE Stays(pc[u], pc'[u], job[u], job'[u])
    BY <1>0, <2>1, <2>4, OvertakeMoves DEF Stays, TypeInv, TypeOK
  <2> QED BY <2>2, <2>3, <2>4 DEF AllMove, Moves, Ends
<1> QED BY <1>0, <1>1, <1>2, ResolveMoves DEF Monitor

(* What the controllers of a watcher do. *)
LEMMA ControllerMoves ==
  ASSUME TypeInv, LoopInv, NEW w \in Watchers, PodController(w) \/ PolicyController(w)
  PROVE  AllMove
<1>0. PodCtl(w) \in Threads /\ PolCtl(w) \in Threads
  BY ThreadTypes
<1>n. /\ NoJob.todo = {} /\ \A S : [NoJob EXCEPT !.todo = S].todo = S
      /\ \A a, b : [NoJob EXCEPT !.sel = a, !.lost = b].todo = {}
  BY DEF NoJob
<1> HIDE DEF NoJob
<1>1. ASSUME NEW p \in Pods, addPod(w, p) \/ updatePod(w, p) \/ deletePod(w, p)
      PROVE  AllMove
  <2>1. \/ /\ pc[PodCtl(w)] = "idle"
           /\ Goto(PodCtl(w), "next", [NoJob EXCEPT !.todo = {p}])
        \/ UNCHANGED jobVars
    BY <1>1 DEF addPod, updatePod, deletePod, Pop
  <2>2. pc[PodCtl(w)] = "idle" =>
          Moves(pc[PodCtl(w)], "next", job[PodCtl(w)], [NoJob EXCEPT !.todo = {p}])
    BY DEF Moves, Begins
  <2> QED BY <1>0, <2>1, <2>2, GotoMoves, NoneMoves
<1>2. ASSUME NEW x \in Policies, \/ addNetworkPolicy(w, x) \/ updateNetworkPolicy(w, x)
                                 \/ deleteNetworkPolicy(w, x)
      PROVE  AllMove
  <2>1. PICK sel, lost : PopPolicy(w, x, sel, lost)
    BY <1>2 DEF addNetworkPolicy, updateNetworkPolicy, deleteNetworkPolicy
  <2> DEFINE j == [NoJob EXCEPT !.sel = sel, !.lost = lost]
  <2>2. pc[PolCtl(w)] = "idle" /\ Goto(PolCtl(w), "localPods", j)
    BY <2>1 DEF PopPolicy
  <2>3. j.todo = {}
    BY <1>n
  <2> HIDE DEF j
  <2>4. Moves(pc[PolCtl(w)], "localPods", job[PolCtl(w)], j)
    BY <2>2, <2>3 DEF Moves, Begins
  <2> QED BY <1>0, <2>2, <2>4, GotoMoves
<1>3. CASE LocalPods(PolCtl(w)) \/ LocalPodsFails(PolCtl(w))
  <2> DEFINE t == PolCtl(w)
             S == Selected(job[t].sel)
             j == [NoJob EXCEPT !.todo = S]
  <2>1. /\ pc[t] = "localPods"
        /\ \/ S = {} /\ Goto(t, "idle", j)
           \/ Goto(t, "next", j)
           \/ Goto(t, "idle", NoJob)
    BY <1>3 DEF LocalPods, LocalPodsFails
  <2>2. j.todo = S
    BY <1>n
  <2> HIDE DEF S, j
  <2>3. /\ S = {} => Moves(pc[t], "idle", job[t], j)
        /\ Moves(pc[t], "next", job[t], j)
        /\ Moves(pc[t], "idle", job[t], NoJob)
    BY <1>n, <2>1, <2>2 DEF Moves, Ends, Starts
  <2> QED BY <1>0, <2>1, <2>3, GotoMoves
<1>4. ASSUME NEW t \in Threads, UpdatePolicy(t) PROVE AllMove
  <2> DEFINE O == Overtake(t, job[t].ctx)
  <2>1. /\ pc[t] = "update" /\ pc' = [pc EXCEPT ![t] = Continue(t)]
        /\ job' = [O EXCEPT ![t].todo = job[t].todo]
    BY <1>4 DEF UpdatePolicy
  <2>2. O \in [Threads -> Job]
    BY OvertakeType DEF TypeInv
  <2>3. \A u \in Threads : u # t => O[u].pod = job[u].pod /\ O[u].todo = job[u].todo
    BY OvertakeMoves
  <2> HIDE DEF O
  <2>4. /\ job'[t].todo = job[t].todo
        /\ \A u \in Threads : u # t => job'[u] = O[u]
    <3>1. O[t] \in Job
      BY <2>2
    <3>2. [O[t] EXCEPT !.todo = job[t].todo].todo = job[t].todo
      BY <3>1 DEF Job
    <3>3. job' = [O EXCEPT ![t] = [O[t] EXCEPT !.todo = job[t].todo]]
      BY <2>1
    <3> QED BY <2>2, <3>2, <3>3
  <2>5. /\ pc'[t] = Continue(t)
        /\ \A u \in Threads : u # t => pc'[u] = pc[u]
    BY <2>1 DEF TypeInv, TypeOK
  <2>6. ASSUME NEW u \in Threads, u # t PROVE Stays(pc[u], pc'[u], job[u], job'[u])
    BY <2>3, <2>4, <2>5, <2>6 DEF Stays
  <2>7. Moves(pc[t], pc'[t], job[t], job'[t])
    BY <2>1, <2>4, <2>5 DEF Continue, Moves, Ends, Loops
  <2> QED BY <2>6, <2>7 DEF AllMove, Moves
<1>5. ASSUME NEW t \in Threads, UpdatePolicyFails(t) PROVE AllMove
  BY <1>5, FailMoves DEF UpdatePolicyFails
<1> QED BY <1>0, <1>1, <1>2, <1>3, <1>4, <1>5, ResolveMoves
        DEF PodController, PolicyController

(* Every step moves all goroutines in one of these ways. *)
LEMMA NextMoves == TypeInv /\ OwnPodInv /\ LoopInv /\ [Next]_vars => AllMove
<1> SUFFICES ASSUME TypeInv, OwnPodInv, LoopInv, [Next]_vars PROVE AllMove
  OBVIOUS
<1>1. CASE Environment
  <2>1. ASSUME NEW c \in Contexts, NEW p \in Pods, StartContainer(c, p) PROVE AllMove
    <3>1. /\ pu[c] = "new" /\ UNCHANGED job
          /\ pc' = [pc EXCEPT ![Mon(c)] = "resolve"] /\ Mon(c) \in Threads
      BY <2>1, ThreadTypes DEF StartContainer
    <3>2. pc[Mon(c)] = "idle"
      BY <3>1 DEF OwnPodInv
    <3>3. job[Mon(c)].todo = {}
      BY <3>1, <3>2 DEF LoopInv
    <3>4. Moves(pc[Mon(c)], "resolve", job[Mon(c)], job[Mon(c)])
      BY <3>2, <3>3 DEF Moves, Begins
    <3>5. Goto(Mon(c), "resolve", job[Mon(c)])
      BY <3>1 DEF Goto, TypeInv, TypeOK
    <3> QED BY <3>1, <3>4, <3>5, GotoMoves
  <2>2. CASE \/ \E p \in Pods : CreatePod(p) \/ AssignIP(p) \/ UpdateApiPod(p)
                               \/ DeleteApiPod(p) \/ StopContainer(p)
             \/ \E x \in Policies : ChangePolicy(x)
             \/ ChangeNamespace
    <3>1. UNCHANGED jobVars
      BY <2>2 DEF CreatePod, AssignIP, UpdateApiPod, DeleteApiPod, ChangePod,
         StopContainer, ChangePolicy, ChangeNamespace
    <3> QED BY <3>1, NoneMoves
  <2> QED BY <1>1, <2>1, <2>2 DEF Environment
<1>2. CASE NamespaceController \/ UNCHANGED vars
  <2>1. UNCHANGED jobVars
    BY <1>2 DEF NamespaceController, addNamespace, deleteNamespace, updateNamespace,
       PopNamespace, StartPodController, StartPolicyController,
       activateNamespaceWatcher, vars
  <2> QED BY <2>1, NoneMoves
<1> QED BY <1>1, <1>2, MonitorMoves, ControllerMoves DEF Next

(* A handler never turns back, and so it returns: after as many steps as   *)
(* its pods and the calls for each allow, whatever the other goroutines do *)
(* (policy.go:112 to 235, and 346 to 448).                                 *)
THEOREM HandlersFinish == Spec => HandlersAdvance
<1>1. Init => LoopInv
  BY DEF Init, LoopInv, NoJob
<1>2. TypeInv /\ OwnPodInv /\ LoopInv /\ [Next]_vars =>
        /\ LoopInv'
        /\ [\A t \in Threads : pc[t] # "idle" => Rests(t) \/ Advances(t)]_vars
  BY NextMoves, MovesAdvance
<1> QED
  BY <1>1, <1>2, InitType, NextType, OwnPodInvInit, OwnPodStep, PTL
  DEF Spec, HandlersAdvance

=============================================================================
