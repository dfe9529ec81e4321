---------------------------- MODULE ProcessProofs ----------------------------
(***************************************************************************)
(* What holds of Process for every value of its constants: its types, its  *)
(* start, the stop tokens, and that the cache keeps its promise.           *)
(***************************************************************************)
EXTENDS Process, TLAPS

-----------------------------------------------------------------------------
(* The steps of Process, as steps of NamespaceWatch.                       *)

WatchStep ==
  \/ Others \/ (\E m \in Monitors : MonitorAsks(m))
  \/ Run \/ Stop \/ StopSteps \/ MapRace

(* Every step of the process is one of the watchers or leaves them alone.  *)
LEMMA WatchSteps == [Next]_vars => WatchStep \/ UNCHANGED watchVars
<1> SUFFICES ASSUME [Next]_vars PROVE WatchStep \/ UNCHANGED watchVars
  OBVIOUS
<1>1. CASE Main
  BY <1>1 DEF Main, RunResolver, StopResolver, WatchStep
<1>2. CASE SignalReceived \/ MonitorEvent
  BY <1>2 DEF SignalReceived, MonitorEvent, WatchStep
<1>3. CASE Step(Others)
  BY <1>3 DEF Step, WatchStep
<1>4. CASE Done \/ UNCHANGED vars
  BY <1>4 DEF Done, vars
<1> QED BY <1>1, <1>2, <1>3, <1>4 DEF Next

(* The controllers, and who may ask. *)
LEMMA ControllerTypes ==
  /\ \A w \in Watchers : Pods(w) \in Controllers /\ Pols(w) \in Controllers
  /\ \A k \in Controllers : k[2] \in Watchers
  /\ Controllers \subseteq Readers /\ Monitors \subseteq Readers
  /\ \A v, w \in Watchers : /\ Pods(v) # Pols(w)
                            /\ Pods(v) = Pods(w) => v = w
                            /\ Pols(v) = Pols(w) => v = w
BY DEF Pods, Pols, Controllers, Readers

-----------------------------------------------------------------------------
(* Types. *)

(* A fresh watcher keeps the types. *)
LEMMA ActivateType ==
  ASSUME TypeOK, NEW n \in Namespaces, activateNamespace(n)
  PROVE  /\ nsPc' = "startPods" /\ nsW' \in Watchers /\ home[nsW'] = None
         /\ home' = [home EXCEPT ![nsW'] = n]
         /\ home' \in [Watchers -> Namespaces \cup {None}]
BY DEF TypeOK, activateNamespace

(* A handler of the namespace controller keeps the types. *)
LEMMA NamespaceHandlerType ==
  ASSUME TypeOK, NEW n \in Namespaces,
         addNamespace(n) \/ deleteNamespace(n) \/ updateNamespace(n)
  PROVE  TypeOK'
<1>1. Take(n)
  BY DEF addNamespace, deleteNamespace, updateNamespace
<1>2. /\ nsStore' \in [Namespaces -> NsObj] /\ nsQ' \in [Namespaces -> Seq(NsObj)]
  <2>1. nsQ[n] \in Seq(NsObj) /\ nsQ[n] # <<>>
    BY <1>1 DEF Take, TypeOK
  <2>2. Head(nsQ[n]) \in NsObj /\ Tail(nsQ[n]) \in Seq(NsObj)
    BY <2>1
  <2> QED BY <1>1, <2>2 DEF Take, TypeOK
<1>3. \/ activateNamespace(n)
      \/ activation[n] # None /\ deactivateNamespace(n)
      \/ UNCHANGED <<ctlVars, home>>
  BY DEF addNamespace, deleteNamespace, updateNamespace
<1>4. /\ nsPc' \in {"idle", "startPods", "startPolicies", "activate"} \cup Telling
      /\ nsW' \in Watchers \cup {None}
      /\ home' \in [Watchers -> Namespaces \cup {None}]
  <2>1. CASE activateNamespace(n)
    BY <2>1, ActivateType
  <2>2. CASE activation[n] # None /\ deactivateNamespace(n)
    BY <2>2 DEF deactivateNamespace, TypeOK, Telling
  <2>3. CASE UNCHANGED <<ctlVars, home>>
    BY <2>3 DEF TypeOK, ctlVars
  <2> QED BY <1>3, <2>1, <2>2, <2>3
<1> QED
  BY <1>1, <1>2, <1>4 DEF Take, TypeOK, loopVars, readVars, mainVars

(* A token keeps the types of the controllers' loops. *)
LEMMA SendType ==
  ASSUME TypeOK, WatchAssumption, NEW k \in Controllers, NEW who \in {"ns", "main"},
         Send(k, who)
  PROVE  /\ told' \in [Controllers -> SUBSET {"ns", "main"}]
         /\ serving' \subseteq Controllers
         /\ helpers' \in [Controllers -> 0..Helpers]
<1>1. told' \in [Controllers -> SUBSET {"ns", "main"}]
  BY DEF Send, TypeOK
<1>2. serving' \subseteq Controllers
  BY DEF Send, TypeOK
<1>3. helpers' \in [Controllers -> 0..Helpers]
  <2>1. helpers \in [Controllers -> 0..Helpers] /\ Helpers \in Nat
    BY DEF TypeOK, WatchAssumption
  <2>2. CASE helpers[k] > 0 /\ helpers' = [helpers EXCEPT ![k] = @ - 1]
    <3>1. helpers[k] - 1 \in 0..Helpers
      BY <2>1, <2>2
    <3> QED BY <2>1, <2>2, <3>1
  <2> QED BY <2>1, <2>2 DEF Send
<1> QED BY <1>1, <1>2, <1>3

(* Who hands out tokens knows whose watcher it is, and who looks a         *)
(* namespace up which one.                                                 *)
Asked == \A r \in Readers : target[r] \in Namespaces <=> asks[r] # "idle"
Aimed ==
  /\ Asked
  /\ nsPc # "idle" => nsW \in Watchers
  /\ mainPc \in {"pods", "policies"} => walkW \in Watchers

(* Only controllers of a watcher that was made run. *)
Serving ==
  /\ serving \subseteq running
  /\ \A k \in Controllers : k \notin running => helpers[k] = 0 /\ told[k] = {}
  /\ \A k \in running : home[k[2]] \in Namespaces

(* Every step of the watchers keeps their types. *)
LEMMA WatchType == TypeOK /\ Aimed /\ (WatchStep \/ UNCHANGED watchVars) => TypeOK'
<1> SUFFICES ASSUME TypeOK, Aimed, WatchStep \/ UNCHANGED watchVars PROVE TypeOK'
  OBVIOUS
<1> USE WatchAssumption
<1>1. ASSUME NEW n \in Namespaces, ChangeNamespace(n) PROVE TypeOK'
  <2>1. nsQ' \in [Namespaces -> Seq(NsObj)]
    BY <1>1 DEF ChangeNamespace, TypeOK
  <2> QED BY <1>1, <2>1 DEF ChangeNamespace, TypeOK, WatchAssumption, mapVars,
             ctlVars, loopVars, readVars, mainVars
<1>2. ASSUME NEW k \in Controllers, RunController(k) PROVE TypeOK'
  BY <1>2 DEF RunController, TypeOK, WatchAssumption, nsVars, mapVars, ctlVars, readVars, mainVars
<1>3. ASSUME NEW r \in Readers, NEW n \in Namespaces \cup {None}, Ask(r, n) PROVE TypeOK'
  BY <1>3 DEF Ask, TypeOK, nsVars, mapVars, ctlVars, loopVars, mainVars
<1>4. ASSUME NEW r \in Readers, Looks(r) PROVE TypeOK'
  <2>1. PICK next \in {"idle", "getWatcher"} : Look(r, next)
    BY <1>4 DEF Looks, isNamespaceActive, getNamespaceWatcher
  <2>2. /\ found' \in Watchers \cup {None}
        /\ asks' \in [Readers -> {"idle", "isActive", "getWatcher"}]
        /\ target' \in [Readers -> Namespaces \cup {None}]
    <3>1. asks' \in [Readers -> {"idle", "isActive", "getWatcher"}]
      BY <2>1 DEF Look, TypeOK
    <3>2. target' \in [Readers -> Namespaces \cup {None}]
      BY <2>1 DEF Look, TypeOK
    <3>3. found' \in Watchers \cup {None}
      <4>1. target[r] \in Namespaces
        BY <1>4 DEF Looks, isNamespaceActive, getNamespaceWatcher, Aimed, Asked
      <4> QED BY <2>1, <4>1 DEF Look, TypeOK
    <3> QED BY <3>1, <3>2, <3>3
  <2>3. UNCHANGED <<betaPolicies, nsVars, mapVars, ctlVars, loopVars, mainVars, due>>
    BY <2>1 DEF Look
  <2> QED BY <2>2, <2>3 DEF TypeOK, nsVars, mapVars, ctlVars, loopVars, mainVars
<1>5. CASE CreateController \/ activateNamespaceWatcher \/ dropWatcher
  <2>1. activation' \in [Namespaces -> Watchers \cup {None}]
    <3>1. nsW \in Watchers
      BY <1>5 DEF CreateController, activateNamespaceWatcher, dropWatcher, Aimed
    <3>2. \A n, v : v \in Watchers \cup {None} =>
            [activation EXCEPT ![n] = v] \in [Namespaces -> Watchers \cup {None}]
      BY DEF TypeOK
    <3> QED BY <1>5, <3>1, <3>2 DEF CreateController, activateNamespaceWatcher,
               dropWatcher, TypeOK, mapVars
  <2>4. due' \subseteq Namespaces
    BY <1>5 DEF CreateController, activateNamespaceWatcher, dropWatcher, TypeOK
  <2>5. /\ nsPc' \in {"idle", "startPods", "startPolicies", "activate"} \cup Telling
        /\ nsW' \in Watchers \cup {None}
    BY <1>5 DEF CreateController, activateNamespaceWatcher, dropWatcher, TypeOK
  <2>2. UNCHANGED <<betaPolicies, nsVars, home, loopVars, readVars, mainVars>>
    BY <1>5 DEF CreateController, activateNamespaceWatcher, dropWatcher, mapVars
  <2> QED BY <2>1, <2>2, <2>4, <2>5 DEF TypeOK, nsVars, loopVars, readVars, mainVars
<1>6. ASSUME NEW k \in Controllers, NEW who \in {"ns", "main"}, Send(k, who),
             UNCHANGED <<activation, due>>,
             nsPc' \in {"idle", "startPods", "startPolicies", "activate"} \cup Telling,
             nsW' \in Watchers \cup {None}, UNCHANGED <<nsServing, nsHelpers, visited, walkW>>,
             mainPc' \in {"new", "wait", "stopAll", "walk", "pods", "policies",
                          "stopped", "fatal"}
      PROVE  TypeOK'
  <2>1. /\ told' \in [Controllers -> SUBSET {"ns", "main"}]
        /\ serving' \subseteq Controllers
        /\ helpers' \in [Controllers -> 0..Helpers]
    BY <1>6, SendType
  <2>2. UNCHANGED <<betaPolicies, nsVars, running, home, readVars>>
    BY <1>6 DEF Send
  <2> QED BY <1>6, <2>1, <2>2 DEF TypeOK, nsVars, readVars
<1>7. CASE TellPods \/ TellPolicies \/ StopPods \/ StopPolicies
  <2>1. \E k \in Controllers, who \in {"ns", "main"} : Send(k, who)
    BY <1>7, ControllerTypes DEF TellPods, TellPolicies, StopPods, StopPolicies, Aimed
  <2>2. /\ nsPc' \in {"idle", "startPods", "startPolicies", "activate"} \cup Telling
        /\ nsW' \in Watchers \cup {None} /\ UNCHANGED <<activation, due>>
        /\ UNCHANGED <<nsServing, nsHelpers, visited, walkW>>
        /\ mainPc' \in {"new", "wait", "stopAll", "walk", "pods", "policies",
                        "stopped", "fatal"}
    BY <1>7 DEF TellPods, TellPolicies, StopPods, StopPolicies, TypeOK, Telling,
       ctlVars, mainVars
  <2> QED BY <1>6, <2>1, <2>2
<1>8. CASE Run \/ Stop \/ SendStopAll \/ WalkEnds \/ MapRace
  <2>1. /\ mainPc' \in {"new", "wait", "stopAll", "walk", "pods", "policies",
                        "stopped", "fatal"}
        /\ nsServing' \in BOOLEAN /\ due' \subseteq Namespaces
    BY <1>8 DEF Run, Stop, SendStopAll, WalkEnds, MapRace, TypeOK
  <2>2. nsHelpers' \in 0..Helpers
    BY <1>8 DEF Run, Stop, SendStopAll, WalkEnds, MapRace, TypeOK, WatchAssumption
  <2>3. UNCHANGED <<betaPolicies, nsVars, mapVars, ctlVars, loopVars, readVars,
                    visited, walkW>>
    BY <1>8 DEF Run, Stop, SendStopAll, WalkEnds, MapRace
  <2> QED BY <2>1, <2>2, <2>3 DEF TypeOK, nsVars, mapVars, ctlVars, loopVars, readVars
<1>9. ASSUME NEW n \in Namespaces, WalkTo(n) PROVE TypeOK'
  <2>1. /\ mainPc' = "pods" /\ visited' \subseteq Namespaces
        /\ walkW' \in Watchers \cup {None}
    BY <1>9 DEF WalkTo, TypeOK
  <2>2. UNCHANGED <<betaPolicies, nsVars, mapVars, ctlVars, loopVars, readVars,
                    nsServing, nsHelpers, due>>
    BY <1>9 DEF WalkTo
  <2> QED BY <2>1, <2>2 DEF TypeOK, nsVars, mapVars, ctlVars, loopVars, readVars
<1>10. CASE UNCHANGED watchVars
  BY <1>10 DEF watchVars, TypeOK, nsVars, mapVars, ctlVars, loopVars, readVars, mainVars
<1>11. ASSUME NEW k \in Controllers, HandlerAsks(k) PROVE TypeOK'
  <2>1. home[k[2]] \in Namespaces \cup {None} /\ k \in Readers
    BY ControllerTypes DEF TypeOK
  <2> QED BY <1>3, <1>11, <2>1 DEF HandlerAsks
<1>12. ASSUME NEW m \in Monitors, MonitorAsks(m) PROVE TypeOK'
  BY <1>3, <1>12, ControllerTypes DEF MonitorAsks
<1> QED
  BY <1>1, <1>2, <1>4, <1>5, <1>7, <1>8, <1>9, <1>10, <1>11, <1>12,
     NamespaceHandlerType
  DEF WatchStep, Others, NamespaceController, StopSteps

(* Every step keeps Aimed. *)
LEMMA AimedStep ==
  TypeOK /\ Aimed /\ Serving /\ (WatchStep \/ UNCHANGED watchVars) => Aimed'
<1> SUFFICES ASSUME TypeOK, Aimed, Serving, WatchStep \/ UNCHANGED watchVars PROVE Aimed'
  OBVIOUS
<1> DEFINE Holders == /\ nsPc # "idle" => nsW \in Watchers
                      /\ mainPc \in {"pods", "policies"} => walkW \in Watchers
<1>1. ASSUME NEW n \in Namespaces,
             addNamespace(n) \/ deleteNamespace(n) \/ updateNamespace(n)
      PROVE  Aimed'
  <2>1. UNCHANGED <<mainVars, readVars>>
    BY <1>1 DEF addNamespace, deleteNamespace, updateNamespace, Take
  <2>2. nsPc' # "idle" => nsW' \in Watchers
    BY <1>1, ActivateType DEF addNamespace, deleteNamespace, updateNamespace,
       deactivateNamespace, ctlVars, TypeOK, Aimed
  <2> QED BY <2>1, <2>2 DEF Aimed, mainVars, readVars, Asked
<1>2. ASSUME UNCHANGED readVars PROVE Asked'
  BY <1>2 DEF Aimed, Asked, readVars
<1>3. CASE CreateController \/ activateNamespaceWatcher \/ dropWatcher
           \/ TellPods \/ TellPolicies
  <2>1. UNCHANGED readVars
    BY <1>3 DEF CreateController, activateNamespaceWatcher, dropWatcher, TellPods,
       TellPolicies, Send
  <2>2. Holders'
    BY <1>3 DEF CreateController, activateNamespaceWatcher, dropWatcher, TellPods,
       TellPolicies, Aimed, mainVars
  <2> QED BY <1>2, <2>1, <2>2 DEF Aimed
<1>4. CASE Run \/ Stop \/ StopSteps \/ MapRace
  <2>1. UNCHANGED readVars
    BY <1>4 DEF Run, Stop, StopSteps, SendStopAll, WalkTo, StopPods, StopPolicies,
       WalkEnds, MapRace, Send
  <2>2. Holders'
    BY <1>4 DEF Run, Stop, StopSteps, SendStopAll, WalkTo, StopPods, StopPolicies,
       WalkEnds, MapRace, Aimed, ctlVars, TypeOK
  <2> QED BY <1>2, <2>1, <2>2 DEF Aimed
<1>5. ASSUME NEW n, NEW k, ChangeNamespace(n) \/ RunController(k) PROVE Aimed'
  <2>1. UNCHANGED <<ctlVars, mainVars, readVars>>
    BY <1>5 DEF ChangeNamespace, RunController
  <2> QED BY <1>2, <2>1 DEF Aimed, ctlVars, mainVars
<1>6. ASSUME NEW r \in Readers, NEW n \in Namespaces, Ask(r, n) PROVE Aimed'
  <2>1. Asked'
    BY <1>6 DEF Ask, Aimed, Asked, TypeOK
  <2> QED BY <1>6, <2>1 DEF Ask, Aimed, ctlVars, mainVars
<1>7. ASSUME NEW r \in Readers, Looks(r) PROVE Aimed'
  <2>1. PICK next \in {"idle", "getWatcher"} : Look(r, next) /\ asks[r] # "idle"
    BY <1>7 DEF Looks, isNamespaceActive, getNamespaceWatcher
  <2>2. Asked'
    BY <2>1, WatchAssumption DEF Look, Aimed, Asked, TypeOK, WatchAssumption
  <2> QED BY <2>1, <2>2 DEF Look, Aimed, ctlVars, mainVars
<1>8. ASSUME NEW k \in Controllers, HandlerAsks(k) PROVE Aimed'
  <2>1. k \in Readers /\ home[k[2]] \in Namespaces
    BY <1>8, ControllerTypes DEF HandlerAsks, Serving
  <2> QED BY <1>6, <1>8, <2>1 DEF HandlerAsks
<1>9. ASSUME NEW m \in Monitors, MonitorAsks(m) PROVE Aimed'
  BY <1>6, <1>9, ControllerTypes DEF MonitorAsks
<1>10. CASE UNCHANGED watchVars
  BY <1>2, <1>10 DEF watchVars, Aimed, ctlVars, mainVars
<1> QED
  BY <1>1, <1>3, <1>4, <1>5, <1>7, <1>8, <1>9, <1>10
  DEF WatchStep, Others, NamespaceController

-----------------------------------------------------------------------------
(* What the steps do to the map, the controllers and their tokens.         *)

Handler == \E n \in Namespaces :
             addNamespace(n) \/ deleteNamespace(n) \/ updateNamespace(n)
Tells   == TellPods \/ TellPolicies \/ StopPods \/ StopPolicies

(* Only these steps touch the map, the controllers or Stop's walk.         *)
LEMMA WatchFrame ==
  ASSUME WatchStep \/ UNCHANGED watchVars
  PROVE  \/ Handler \/ CreateController \/ activateNamespaceWatcher
         \/ dropWatcher \/ Tells
         \/ \E k \in Controllers : RunController(k)
         \/ \E n \in Namespaces : WalkTo(n)
         \/ /\ UNCHANGED <<mapVars, ctlVars, loopVars, visited, walkW>>
            /\ mainPc' = mainPc \/ mainPc' \notin {"pods", "policies"}
<1>1. ASSUME NEW n, ChangeNamespace(n)
      PROVE  UNCHANGED <<mapVars, ctlVars, loopVars, visited, walkW, mainPc>>
  BY <1>1 DEF ChangeNamespace, mainVars
<1>2. ASSUME NEW r, HandlerAsks(r) \/ MonitorAsks(r) \/ Looks(r)
      PROVE  UNCHANGED <<mapVars, ctlVars, loopVars, visited, walkW, mainPc>>
  BY <1>2 DEF HandlerAsks, MonitorAsks, Looks, isNamespaceActive,
     getNamespaceWatcher, Ask, Look, mainVars
<1>3. CASE Run \/ Stop \/ SendStopAll \/ WalkEnds \/ MapRace
  BY <1>3 DEF Run, Stop, SendStopAll, WalkEnds, MapRace
<1>4. CASE UNCHANGED watchVars
  BY <1>4 DEF watchVars, mainVars
<1> QED
  BY <1>1, <1>2, <1>3, <1>4
  DEF WatchStep, Others, NamespaceController, StopSteps, Handler, Tells

(* What a handler of the namespace controller may do. *)
LEMMA HandlerCases ==
  ASSUME TypeOK, Handler
  PROVE  /\ nsPc = "idle" /\ UNCHANGED <<activation, loopVars, mainVars>>
         /\ \/ \E n \in Namespaces :
                 /\ activation[n] = None /\ nsPc' = "startPods"
                 /\ nsW' \in Watchers /\ home[nsW'] = None
                 /\ home' = [home EXCEPT ![nsW'] = n]
            \/ \E n \in Namespaces :
                 /\ activation[n] \in Watchers
                 /\ nsPc' = "tellPods" /\ nsW' = activation[n] /\ UNCHANGED home
            \/ UNCHANGED <<ctlVars, home>>
<1>1. PICK n \in Namespaces : addNamespace(n) \/ deleteNamespace(n) \/ updateNamespace(n)
  BY DEF Handler
<1>2. Take(n)
  BY <1>1 DEF addNamespace, deleteNamespace, updateNamespace
<1>3. \/ activation[n] = None /\ activateNamespace(n)
      \/ activation[n] # None /\ deactivateNamespace(n)
      \/ UNCHANGED <<ctlVars, home>>
  BY <1>1 DEF addNamespace, deleteNamespace, updateNamespace
<1>4. nsPc = "idle" /\ UNCHANGED <<activation, loopVars, mainVars>>
  BY <1>2 DEF Take
<1>5. activation[n] \in Watchers \cup {None}
  BY DEF TypeOK
<1>6. CASE activation[n] = None /\ activateNamespace(n)
  BY <1>4, <1>6, ActivateType
<1>7. CASE activation[n] # None /\ deactivateNamespace(n)
  BY <1>4, <1>5, <1>7 DEF deactivateNamespace
<1> QED BY <1>3, <1>4, <1>6, <1>7

(* Who is told what by whom. *)
LEMMA TellsCases ==
  ASSUME TypeOK, Aimed, Tells
  PROVE  /\ UNCHANGED <<activation, home, nsW, visited, walkW, running>>
         /\ \/ /\ nsPc = "tellPods" /\ nsPc' = "tellPolicies"
               /\ nsW \in Watchers /\ Send(Pods(nsW), "ns") /\ mainPc' = mainPc
            \/ /\ nsPc = "tellPolicies" /\ nsPc' = "drop"
               /\ nsW \in Watchers /\ Send(Pols(nsW), "ns") /\ mainPc' = mainPc
            \/ /\ mainPc = "pods" /\ mainPc' = "policies" /\ nsPc' = nsPc
               /\ walkW \in Watchers /\ Send(Pods(walkW), "main")
            \/ /\ mainPc = "policies" /\ mainPc' = "walk" /\ nsPc' = nsPc
               /\ walkW \in Watchers /\ Send(Pols(walkW), "main")
BY DEF Tells, TellPods, TellPolicies, StopPods, StopPolicies, Send, Aimed,
   mainVars, ctlVars

(* The receivers of a controller, and what it was told. *)
LEMMA SendCases ==
  ASSUME TypeOK, Serving, NEW k \in Controllers, NEW who \in {"ns", "main"}, Send(k, who)
  PROVE  /\ k \in running /\ UNCHANGED <<running, home>>
         /\ told' = [told EXCEPT ![k] = told[k] \cup {who}]
         /\ \/ /\ k \in serving /\ serving' = serving \ {k} /\ helpers' = helpers
            \/ /\ helpers[k] > 0 /\ serving' = serving
               /\ helpers' = [helpers EXCEPT ![k] = helpers[k] - 1]
<1>1. told' = [told EXCEPT ![k] = told[k] \cup {who}] /\ UNCHANGED <<running, home>>
  BY DEF Send
<1>2. CASE k \in serving /\ serving' = serving \ {k} /\ UNCHANGED helpers
  BY <1>1, <1>2 DEF Serving
<1>3. CASE helpers[k] > 0 /\ helpers' = [helpers EXCEPT ![k] = helpers[k] - 1] /\ UNCHANGED serving
  <2>1. helpers[k] # 0
    BY <1>3
  <2>2. k \in running
    BY <2>1 DEF Serving
  <2> QED BY <1>1, <1>3, <2>2
<1> QED BY <1>2, <1>3 DEF Send

(* Every step keeps Serving. *)
LEMMA ServingStep ==
  TypeOK /\ Aimed /\ Serving /\ (WatchStep \/ UNCHANGED watchVars) => Serving'
<1> SUFFICES ASSUME TypeOK, Aimed, Serving, WatchStep \/ UNCHANGED watchVars PROVE Serving'
  OBVIOUS
<1>0. /\ home \in [Watchers -> Namespaces \cup {None}] /\ running \subseteq Controllers
      /\ None \notin Namespaces /\ \A k \in Controllers : k[2] \in Watchers
  BY WatchAssumption, ControllerTypes DEF TypeOK, WatchAssumption
<1>1. CASE Handler
  <2>1. UNCHANGED loopVars
    BY <1>1, HandlerCases
  <2>2. \A k \in running : home'[k[2]] \in Namespaces
    BY <1>0, <1>1, HandlerCases DEF Serving
  <2> QED BY <2>1, <2>2 DEF Serving, loopVars
<1>2. CASE Tells
  <2>1. PICK k \in Controllers, who \in {"ns", "main"} : Send(k, who)
    BY <1>2, TellsCases, ControllerTypes
  <2>2. serving' \subseteq running' /\ UNCHANGED <<home, running>>
    BY <2>1, SendCases DEF Serving
  <2>3. ASSUME NEW j \in Controllers, j \notin running
        PROVE  helpers'[j] = 0 /\ told'[j] = {}
    <3>1. j # k /\ helpers[j] = 0 /\ told[j] = {}
      BY <2>1, <2>3, SendCases DEF Serving
    <3>2. told' = [told EXCEPT ![k] = told[k] \cup {who}]
      BY <2>1, SendCases
    <3>3. helpers' = helpers \/ helpers' = [helpers EXCEPT ![k] = helpers[k] - 1]
      BY <2>1, SendCases
    <3>4. told'[j] = told[j]
      BY <3>1, <3>2 DEF TypeOK
    <3>5. helpers'[j] = helpers[j]
      BY <3>1, <3>3 DEF TypeOK
    <3> QED BY <3>1, <3>4, <3>5
  <2> QED BY <2>2, <2>3 DEF Serving
<1>3. ASSUME NEW k \in Controllers, RunController(k) PROVE Serving'
  <2>1. home[k[2]] \in Namespaces /\ UNCHANGED <<home, told>>
    BY <1>0, <1>3 DEF RunController, Launched, mapVars
  <2>2. /\ running' = running \cup {k} /\ serving' = serving \cup {k}
        /\ helpers' = [helpers EXCEPT ![k] = Helpers]
    BY <1>3 DEF RunController
  <2> QED BY <2>1, <2>2 DEF Serving, TypeOK
<1>4. CASE CreateController \/ activateNamespaceWatcher \/ dropWatcher
           \/ (\E n \in Namespaces : WalkTo(n))
           \/ UNCHANGED <<mapVars, ctlVars, loopVars, visited, walkW>>
  <2>1. UNCHANGED <<home, loopVars>>
    BY <1>4 DEF CreateController, activateNamespaceWatcher, dropWatcher, WalkTo, mapVars
  <2> QED BY <2>1 DEF Serving, loopVars
<1> QED BY <1>1, <1>2, <1>3, <1>4, WatchFrame

-----------------------------------------------------------------------------
(* The map: each watcher is there under its own namespace, and only while  *)
(* the lock is held can it be one that was told to stop.                   *)
Starting == {"startPods", "startPolicies", "activate"}
Book ==
  /\ \A n \in Namespaces : activation[n] # None => home[activation[n]] = n
  /\ nsPc \in Starting => /\ home[nsW] \in Namespaces /\ activation[home[nsW]] = None
                          /\ nsW \notin Retired
  /\ nsPc \in Telling => /\ home[nsW] \in Namespaces /\ activation[home[nsW]] = nsW
                         /\ nsW \in Retired <=> nsPc # "tellPods"
  /\ \A n \in Namespaces : activation[n] \in Retired =>
                            nsPc \in Telling /\ activation[n] = nsW
  /\ \A w \in Retired : home[w] \in Namespaces

(* Only the first token of the namespace controller retires a watcher.     *)
LEMMA RetiredStep ==
  ASSUME TypeOK, Aimed, Serving, Tells
  PROVE  Retired' = IF nsPc = "tellPods" /\ nsPc' = "tellPolicies"
                    THEN Retired \cup {nsW} ELSE Retired
<1>1. ASSUME NEW k \in Controllers, NEW who \in {"ns", "main"}, Send(k, who),
             NEW w \in Watchers
      PROVE  w \in Retired' <=> w \in Retired \/ (k = Pods(w) /\ who = "ns")
  <2>1. told' = [told EXCEPT ![k] = told[k] \cup {who}] /\ Pods(w) \in Controllers
    BY <1>1, SendCases, ControllerTypes
  <2> QED BY <2>1 DEF Retired, TypeOK
<1>2. Retired \subseteq Watchers /\ Retired' \subseteq Watchers
  BY DEF Retired
<1>3. CASE nsPc = "tellPods" /\ nsPc' = "tellPolicies"
  <2>1. nsW \in Watchers /\ Send(Pods(nsW), "ns") /\ Pods(nsW) \in Controllers
    BY <1>3, TellsCases, ControllerTypes
  <2> QED BY <1>1, <1>2, <1>3, <2>1, ControllerTypes
<1>4. CASE ~(nsPc = "tellPods" /\ nsPc' = "tellPolicies")
  <2>1. \E k \in Controllers, who \in {"ns", "main"} :
          Send(k, who) /\ \A w \in Watchers : ~(k = Pods(w) /\ who = "ns")
    BY <1>4, TellsCases, ControllerTypes
  <2> QED BY <1>1, <1>2, <1>4, <2>1
<1> QED BY <1>3, <1>4

(* Every step keeps Book. *)
LEMMA BookStep ==
  TypeOK /\ Aimed /\ Serving /\ Book /\ (WatchStep \/ UNCHANGED watchVars) => Book'
<1> SUFFICES ASSUME TypeOK, Aimed, Serving, Book, WatchStep \/ UNCHANGED watchVars
             PROVE  Book'
  OBVIOUS
<1>0. /\ home \in [Watchers -> Namespaces \cup {None}]
      /\ activation \in [Namespaces -> Watchers \cup {None}]
      /\ None \notin Namespaces /\ None \notin Watchers
      /\ Retired \subseteq Watchers
      /\ nsPc # "idle" => nsW \in Watchers
  BY WatchAssumption DEF TypeOK, WatchAssumption, Retired, Aimed
<1>1. CASE Handler
  <2>1. Retired' = Retired /\ activation' = activation /\ nsPc = "idle"
    BY <1>1, HandlerCases DEF Retired, loopVars
  <2>2. \A n \in Namespaces : activation[n] \notin Retired
    BY <2>1 DEF Book, Telling
  <2>3. CASE UNCHANGED <<ctlVars, home>>
    BY <2>1, <2>3 DEF Book, ctlVars
  <2>4. ASSUME NEW n \in Namespaces, activation[n] = None, nsPc' = "startPods",
               nsW' \in Watchers, home[nsW'] = None, home' = [home EXCEPT ![nsW'] = n]
        PROVE  Book'
    <3>1. home'[nsW'] = n /\ \A w \in Watchers \ {nsW'} : home'[w] = home[w]
      BY <1>0, <2>4
    <3>2. nsW' \notin Retired
      BY <1>0, <2>4 DEF Book
    <3>3. \A m \in Namespaces : activation[m] # nsW'
      BY <1>0, <2>4 DEF Book
    <3> QED BY <1>0, <2>1, <2>2, <2>4, <3>1, <3>2, <3>3 DEF Book, Starting, Telling
  <2>5. ASSUME NEW n \in Namespaces, activation[n] \in Watchers, nsPc' = "tellPods",
               nsW' = activation[n], UNCHANGED home
        PROVE  Book'
    BY <1>0, <2>1, <2>2, <2>5 DEF Book, Starting, Telling
  <2> QED BY <1>1, <2>3, <2>4, <2>5, HandlerCases
<1>2. CASE Tells
  <2>1. UNCHANGED <<activation, home, nsW>>
    BY <1>2, TellsCases
  <2>2. CASE nsPc = "tellPods" /\ nsPc' = "tellPolicies"
    <3>1. Retired' = Retired \cup {nsW}
      BY <1>2, <2>2, RetiredStep
    <3> QED BY <1>0, <2>1, <2>2, <3>1 DEF Book, Starting, Telling
  <2>3. CASE ~(nsPc = "tellPods" /\ nsPc' = "tellPolicies")
    <3>1. Retired' = Retired
      BY <1>2, <2>3, RetiredStep
    <3>2. nsPc' = nsPc \/ (nsPc = "tellPolicies" /\ nsPc' = "drop")
      BY <1>2, <2>3, TellsCases
    <3> QED BY <1>0, <2>1, <3>1, <3>2 DEF Book, Starting, Telling
  <2> QED BY <2>2, <2>3
<1>3. CASE CreateController
  BY <1>3 DEF CreateController, Book, Retired, Starting, Telling, mapVars, loopVars
<1>4. CASE activateNamespaceWatcher
  <2>1. /\ Retired' = Retired /\ home' = home /\ nsPc = "activate" /\ nsPc' = "idle"
        /\ activation' = [activation EXCEPT ![home[nsW]] = nsW]
    BY <1>4 DEF activateNamespaceWatcher, Retired, loopVars
  <2> QED BY <1>0, <2>1 DEF Book, Starting, Telling
<1>5. CASE dropWatcher
  <2>1. /\ Retired' = Retired /\ home' = home /\ nsPc = "drop" /\ nsPc' = "idle"
        /\ activation' = [activation EXCEPT ![home[nsW]] = None]
    BY <1>5 DEF dropWatcher, Retired, loopVars
  <2> QED BY <1>0, <2>1 DEF Book, Starting, Telling
<1>6. CASE \/ \E k \in Controllers : RunController(k)
           \/ \E n \in Namespaces : WalkTo(n)
           \/ UNCHANGED <<mapVars, ctlVars, loopVars, visited, walkW>>
  <2>1. UNCHANGED <<mapVars, ctlVars, told>>
    BY <1>6 DEF RunController, WalkTo, loopVars
  <2> QED BY <2>1 DEF Book, Retired, mapVars, ctlVars
<1> QED BY <1>1, <1>2, <1>3, <1>4, <1>5, <1>6, WatchFrame

-----------------------------------------------------------------------------
(* Tokens: each controller is told at most once by the namespace           *)
(* controller, and at most once by Stop, which visits each namespace once. *)
Receivers(k) == (Helpers - helpers[k]) + (IF k \in serving THEN 0 ELSE 1)
Senders(k) == (IF "ns" \in told[k] THEN 1 ELSE 0) + (IF "main" \in told[k] THEN 1 ELSE 0)

Tokens ==
  /\ \A k \in running : Receivers(k) = Senders(k)
  /\ \A w \in Watchers : "ns" \in told[Pols(w)] =>
                         w \in Retired /\ (nsPc = "tellPolicies" => w # nsW)
  /\ \A k \in Controllers : "main" \in told[k] => home[k[2]] \in visited
  /\ mainPc \in {"pods", "policies"} =>
       home[walkW] \in visited /\ "main" \notin told[Pols(walkW)]
  /\ mainPc = "pods" => "main" \notin told[Pods(walkW)]

(* A token that its sender had not sent yet reaches one more receiver.     *)
LEMMA SendCounts ==
  ASSUME TypeOK, Serving, WatchAssumption, NEW k \in Controllers,
         NEW who \in {"ns", "main"}, Send(k, who), who \notin told[k],
         \A j \in running : Receivers(j) = Senders(j)
  PROVE  \A j \in running' : Receivers(j)' = Senders(j)'
<1>1. /\ k \in running /\ UNCHANGED <<running, home>>
      /\ told' = [told EXCEPT ![k] = told[k] \cup {who}]
  BY SendCases
<1>2. \/ /\ k \in serving /\ serving' = serving \ {k} /\ helpers' = helpers
      \/ /\ helpers[k] > 0 /\ serving' = serving
         /\ helpers' = [helpers EXCEPT ![k] = helpers[k] - 1]
  BY SendCases
<1>3. /\ helpers \in [Controllers -> 0..Helpers] /\ running \subseteq Controllers
      /\ told \in [Controllers -> SUBSET {"ns", "main"}] /\ Helpers \in Nat
  BY DEF TypeOK, WatchAssumption
<1>4. Receivers(k)' = Receivers(k) + 1
  <2>1. helpers[k] \in 0..Helpers
    BY <1>3
  <2>2. CASE k \in serving /\ serving' = serving \ {k} /\ helpers' = helpers
    BY <1>3, <2>1, <2>2 DEF Receivers
  <2>3. CASE helpers[k] > 0 /\ serving' = serving
             /\ helpers' = [helpers EXCEPT ![k] = helpers[k] - 1]
    <3>1. helpers'[k] = helpers[k] - 1
      BY <1>3, <2>3
    <3> QED BY <1>3, <2>1, <2>3, <3>1 DEF Receivers
  <2> QED BY <1>2, <2>2, <2>3
<1>5. Senders(k)' = Senders(k) + 1
  <2>1. told'[k] = told[k] \cup {who}
    BY <1>1, <1>3
  <2> QED BY <2>1 DEF Senders
<1>6. ASSUME NEW j \in running, j # k
      PROVE  Receivers(j)' = Receivers(j) /\ Senders(j)' = Senders(j)
  <2>1. told'[j] = told[j] /\ j \in Controllers
    BY <1>1, <1>3, <1>6
  <2>2. helpers'[j] = helpers[j] /\ (j \in serving' <=> j \in serving)
    BY <1>2, <1>3, <1>6, <2>1
  <2> QED BY <2>1, <2>2 DEF Receivers, Senders
<1> QED BY <1>1, <1>4, <1>5, <1>6

(* Every step keeps Tokens. *)
LEMMA TokensStep ==
  TypeOK /\ Aimed /\ Serving /\ Book /\ Tokens /\ (WatchStep \/ UNCHANGED watchVars)
    => Tokens'
<1> SUFFICES ASSUME TypeOK, Aimed, Serving, Book, Tokens,
                    WatchStep \/ UNCHANGED watchVars
             PROVE  Tokens'
  OBVIOUS
<1>0. /\ home \in [Watchers -> Namespaces \cup {None}] /\ None \notin Namespaces
      /\ visited \subseteq Namespaces /\ WatchAssumption
      /\ nsPc # "idle" => nsW \in Watchers
  BY WatchAssumption DEF TypeOK, WatchAssumption, Aimed
<1>1. CASE Handler
  <2>1. UNCHANGED <<loopVars, mainVars>> /\ Retired' = Retired /\ nsPc = "idle"
        /\ nsPc' # "tellPolicies"
    BY <1>1, HandlerCases DEF Retired, loopVars, ctlVars
  <2>2. \A w \in Watchers : home[w] \in Namespaces => home'[w] = home[w]
    BY <1>0, <1>1, HandlerCases
  <2>3. \A k \in Controllers : home[k[2]] \in visited => home'[k[2]] \in visited
    BY <1>0, <2>2, ControllerTypes
  <2>4. mainPc \in {"pods", "policies"} => home'[walkW] \in visited
    BY <1>0, <2>2 DEF Tokens, Aimed
  <2> QED BY <2>1, <2>3, <2>4 DEF Tokens, Receivers, Senders, loopVars, mainVars
<1>2. CASE Tells
  <2>0. UNCHANGED <<activation, home, nsW, visited, walkW, running>>
    BY <1>2, TellsCases
  <2>a. ASSUME NEW k \in Controllers, NEW who \in {"ns", "main"}, Send(k, who)
        PROVE  \A j \in Controllers : told'[j] = IF j = k THEN told[k] \cup {who} ELSE told[j]
    <3>1. told' = [told EXCEPT ![k] = told[k] \cup {who}]
      BY <2>a, SendCases
    <3> QED BY <3>1 DEF TypeOK
  <2>1. CASE /\ nsPc = "tellPods" /\ nsPc' = "tellPolicies"
             /\ nsW \in Watchers /\ Send(Pods(nsW), "ns") /\ mainPc' = mainPc
    <3>1. nsW \notin Retired /\ Pods(nsW) \in Controllers /\ Pols(nsW) \in Controllers
      BY <2>1, ControllerTypes DEF Book, Telling
    <3>2. "ns" \notin told[Pods(nsW)]
      BY <2>1, <3>1 DEF Retired
    <3>3. \A j \in running' : Receivers(j)' = Senders(j)'
      BY <1>0, <2>1, <3>1, <3>2, SendCounts DEF Tokens
    <3>4. \A w \in Watchers : "ns" \in told'[Pols(w)] => w \in Retired /\ w # nsW
      BY <2>1, <2>a, <3>1, ControllerTypes DEF Tokens
    <3>5. Retired' = Retired \cup {nsW}
      BY <1>2, <2>1, RetiredStep
    <3>6. \A j \in Controllers : "main" \in told'[j] <=> "main" \in told[j]
      BY <2>1, <2>a, <3>1
    <3>7. mainPc \in {"pods", "policies"} => walkW \in Watchers
      BY DEF Aimed
    <3> QED BY <2>0, <2>1, <3>3, <3>4, <3>5, <3>6, <3>7, ControllerTypes DEF Tokens
  <2>2. CASE /\ nsPc = "tellPolicies" /\ nsPc' = "drop"
             /\ nsW \in Watchers /\ Send(Pols(nsW), "ns") /\ mainPc' = mainPc
    <3>1. nsW \in Retired /\ Pods(nsW) \in Controllers /\ Pols(nsW) \in Controllers
      BY <2>2, ControllerTypes DEF Book, Telling
    <3>2. "ns" \notin told[Pols(nsW)]
      BY <2>2 DEF Tokens
    <3>3. \A j \in running' : Receivers(j)' = Senders(j)'
      BY <1>0, <2>2, <3>1, <3>2, SendCounts DEF Tokens
    <3>4. \A w \in Watchers : "ns" \in told'[Pols(w)] => w \in Retired
      BY <2>2, <2>a, <3>1, ControllerTypes DEF Tokens
    <3>5. Retired' = Retired
      BY <1>2, <2>2, RetiredStep
    <3>6. \A j \in Controllers : "main" \in told'[j] <=> "main" \in told[j]
      BY <2>2, <2>a, <3>1
    <3>7. mainPc \in {"pods", "policies"} => walkW \in Watchers
      BY DEF Aimed
    <3> QED BY <2>0, <2>2, <3>3, <3>4, <3>5, <3>6, <3>7, ControllerTypes DEF Tokens
  <2>3. CASE /\ mainPc \in {"pods", "policies"} /\ nsPc' = nsPc /\ walkW \in Watchers
             /\ \/ mainPc = "pods" /\ mainPc' = "policies" /\ Send(Pods(walkW), "main")
                \/ mainPc = "policies" /\ mainPc' = "walk" /\ Send(Pols(walkW), "main")
    <3>1. PICK k \in Controllers :
            /\ Send(k, "main") /\ home[k[2]] = home[walkW] /\ "main" \notin told[k]
            /\ mainPc = "pods" => k # Pols(walkW)
      <4>1. /\ Pods(walkW) \in Controllers /\ Pods(walkW)[2] = walkW
            /\ Pols(walkW) \in Controllers /\ Pols(walkW)[2] = walkW
            /\ Pods(walkW) # Pols(walkW)
        BY <2>3, ControllerTypes DEF Pods, Pols
      <4>2. CASE mainPc = "pods" /\ Send(Pods(walkW), "main")
        BY <4>1, <4>2 DEF Tokens
      <4>3. CASE mainPc = "policies" /\ Send(Pols(walkW), "main")
        BY <4>1, <4>3 DEF Tokens
      <4> QED BY <2>3, <4>2, <4>3
    <3>3. \A j \in running' : Receivers(j)' = Senders(j)'
      BY <1>0, <3>1, SendCounts DEF Tokens
    <3>4. \A j \in Controllers : /\ "ns" \in told'[j] <=> "ns" \in told[j]
                                 /\ "main" \in told'[j] <=> "main" \in told[j] \/ j = k
      <4>1. \A j \in Controllers :
              told'[j] = IF j = k THEN told[k] \cup {"main"} ELSE told[j]
        BY <2>a, <3>1
      <4> QED BY <4>1
    <3>5. Retired' = Retired
      BY <1>2, <2>3, RetiredStep, TellsCases
    <3>6. mainPc = "pods" => "main" \notin told'[Pols(walkW)]
      BY <2>3, <3>1, <3>4, ControllerTypes DEF Tokens
    <3>7. \A j \in Controllers : "main" \in told'[j] => home[j[2]] \in visited
      BY <2>3, <3>1, <3>4 DEF Tokens
    <3>8. \A w \in Watchers : "ns" \in told'[Pols(w)] =>
                             w \in Retired /\ (nsPc = "tellPolicies" => w # nsW)
      BY <3>4, ControllerTypes DEF Tokens
    <3> QED BY <2>0, <2>3, <3>3, <3>5, <3>6, <3>7, <3>8 DEF Tokens
  <2> QED BY <1>2, <2>1, <2>2, <2>3, TellsCases
<1>3. ASSUME NEW k \in Controllers, RunController(k) PROVE Tokens'
  <2>1. /\ UNCHANGED <<home, told, ctlVars, mainVars>> /\ Retired' = Retired
        /\ k \notin running /\ running' = running \cup {k}
        /\ serving' = serving \cup {k} /\ helpers' = [helpers EXCEPT ![k] = Helpers]
    BY <1>3 DEF RunController, mapVars, Retired
  <2>2. Receivers(k)' = 0 /\ Senders(k)' = 0
    <3>1. helpers'[k] = Helpers /\ told'[k] = {}
      BY <2>1 DEF TypeOK, Serving
    <3> QED BY <1>0, <2>1, <3>1 DEF Receivers, Senders, WatchAssumption
  <2>3. \A j \in running : Receivers(j)' = Receivers(j) /\ Senders(j)' = Senders(j)
    BY <2>1 DEF Receivers, Senders, TypeOK
  <2> QED BY <2>1, <2>2, <2>3 DEF Tokens, ctlVars, mainVars
<1>4. CASE CreateController \/ activateNamespaceWatcher \/ dropWatcher
  <2>1. /\ UNCHANGED <<home, loopVars, mainVars>> /\ Retired' = Retired
        /\ nsPc' # "tellPolicies"
    BY <1>4 DEF CreateController, activateNamespaceWatcher, dropWatcher, Retired,
       mapVars, loopVars
  <2> QED BY <2>1 DEF Tokens, Receivers, Senders, loopVars, mainVars
<1>5. ASSUME NEW n \in Namespaces, WalkTo(n) PROVE Tokens'
  <2>1. /\ n \notin visited /\ visited' = visited \cup {n} /\ activation[n] # None
        /\ walkW' = activation[n] /\ mainPc' = "pods"
        /\ UNCHANGED <<mapVars, ctlVars, loopVars>> /\ Retired' = Retired
    BY <1>5 DEF WalkTo, Retired, loopVars
  <2>2. walkW' \in Watchers /\ home[walkW'] = n
    BY <2>1 DEF Book, TypeOK
  <2>3. "main" \notin told[Pods(walkW')] /\ "main" \notin told[Pols(walkW')]
    BY <2>1, <2>2, ControllerTypes DEF Tokens, Pods, Pols
  <2> QED BY <2>1, <2>2, <2>3 DEF Tokens, Receivers, Senders, mapVars, ctlVars, loopVars
<1>6. CASE /\ UNCHANGED <<mapVars, ctlVars, loopVars, visited, walkW>>
           /\ mainPc' = mainPc \/ mainPc' \notin {"pods", "policies"}
  <2>1. Retired' = Retired
    BY <1>6 DEF Retired, loopVars
  <2> QED BY <1>6, <2>1 DEF Tokens, Receivers, Senders, mapVars, ctlVars, loopVars
<1> QED BY <1>1, <1>2, <1>3, <1>4, <1>5, <1>6, WatchFrame

(* Stop never tells a watcher whose controllers are still being launched.  *)
Apart == nsPc \in Starting /\ mainPc \in {"pods", "policies"} => nsW # walkW

LEMMA ApartStep ==
  TypeOK /\ Aimed /\ Serving /\ Book /\ Tokens /\ Apart
    /\ (WatchStep \/ UNCHANGED watchVars) => Apart'
<1> SUFFICES ASSUME TypeOK, Aimed, Serving, Book, Tokens, Apart,
                    WatchStep \/ UNCHANGED watchVars
             PROVE  Apart'
  OBVIOUS
<1>0. None \notin Namespaces /\ visited \subseteq Namespaces
  BY WatchAssumption DEF TypeOK, WatchAssumption
<1>1. CASE Handler
  <2>1. UNCHANGED mainVars /\ nsPc = "idle"
    BY <1>1, HandlerCases
  <2>2. mainPc \in {"pods", "policies"} => home[walkW] # None
    BY <1>0 DEF Tokens
  <2> QED BY <1>1, <2>1, <2>2, HandlerCases DEF Apart, Starting, mainVars, ctlVars
<1>2. CASE Tells
  BY <1>2, TellsCases DEF Apart, Starting
<1>3. CASE CreateController \/ activateNamespaceWatcher \/ dropWatcher
  BY <1>3 DEF CreateController, activateNamespaceWatcher, dropWatcher, Apart,
     Starting, mainVars
<1>4. ASSUME NEW k \in Controllers, RunController(k) PROVE Apart'
  BY <1>4 DEF RunController, Apart, Starting, ctlVars, mainVars
<1>5. ASSUME NEW n \in Namespaces, WalkTo(n) PROVE Apart'
  <2>1. activation[n] # None /\ walkW' = activation[n] /\ UNCHANGED ctlVars
    BY <1>5 DEF WalkTo
  <2>2. home[activation[n]] = n
    BY <2>1 DEF Book
  <2>3. nsPc \in Starting => activation[home[nsW]] = None
    BY DEF Book
  <2> QED BY <2>1, <2>2, <2>3 DEF Apart, ctlVars
<1>6. CASE /\ UNCHANGED <<mapVars, ctlVars, loopVars, visited, walkW>>
           /\ mainPc' = mainPc \/ mainPc' \notin {"pods", "policies"}
  BY <1>6 DEF Apart, ctlVars
<1> QED BY <1>1, <1>2, <1>3, <1>4, <1>5, <1>6, WatchFrame

(* The invariant of the watchers holds at first, and every step of the     *)
(* process keeps it.                                                       *)
WatchInv == TypeOK /\ Aimed /\ Serving /\ Book /\ Tokens /\ Apart

LEMMA WatchInvInit == WatchInit => WatchInv
<1> SUFFICES ASSUME WatchInit PROVE WatchInv
  OBVIOUS
<1> USE WatchAssumption DEF WatchAssumption
<1>1. TypeOK
  <2>1. nsQ \in [Namespaces -> Seq(NsObj)]
    <3>1. <<"off">> \in Seq(NsObj) /\ <<"on">> \in Seq(NsObj)
      BY DEF NsObj
    <3> QED BY <3>1 DEF WatchInit
  <2>2. /\ betaPolicies \in BOOLEAN /\ nsServing \in BOOLEAN
        /\ nsStore \in [Namespaces -> NsObj]
    BY DEF WatchInit, NsObj
  <2>4. 0 \in 0..Helpers /\ 0 \in 0..MaxNsChanges
    BY DEF WatchAssumption
  <2>5. /\ nsHelpers \in 0..Helpers /\ nsChanges \in 0..MaxNsChanges
        /\ helpers \in [Controllers -> 0..Helpers]
    BY <2>4 DEF WatchInit
  <2>3. /\ activation \in [Namespaces -> Watchers \cup {None}]
        /\ home \in [Watchers -> Namespaces \cup {None}]
        /\ told \in [Controllers -> SUBSET {"ns", "main"}]
        /\ asks \in [Readers -> {"idle", "isActive", "getWatcher"}]
        /\ target \in [Readers -> Namespaces \cup {None}]
    BY DEF WatchInit
  <2> QED BY <2>1, <2>2, <2>3, <2>5 DEF WatchInit, TypeOK
<1>2. Aimed
  BY DEF WatchInit, Aimed, Asked
<1>3. Serving
  BY DEF WatchInit, Serving
<1>4. Retired = {}
  BY ControllerTypes DEF WatchInit, Retired
<1>5. Book
  BY <1>4 DEF WatchInit, Book, Starting, Telling
<1>6. Tokens
  BY <1>4, ControllerTypes DEF WatchInit, Tokens
<1>7. Apart
  BY DEF WatchInit, Apart, Starting
<1> QED BY <1>1, <1>2, <1>3, <1>5, <1>6, <1>7 DEF WatchInv

LEMMA WatchInvStep == WatchInv /\ [Next]_vars => WatchInv'
BY WatchSteps, WatchType, AimedStep, ServingStep, BookStep, TokensStep, ApartStep
DEF WatchInv

LEMMA WatchInvHolds == Spec => []WatchInv
<1>1. Init => WatchInv
  BY WatchInvInit DEF Init
<1> QED BY <1>1, WatchInvStep, PTL DEF Spec

(* A controller never gets more tokens than it has goroutines to receive   *)
(* them, whatever the numbers of namespaces, watchers and helpers          *)
(* (namespace.go:39).                                                      *)
THEOREM EachTokenReceived == Spec => []OneTokenEach
<1>1. WatchInv => OneTokenEach
  BY DEF WatchInv, Tokens, OneTokenEach, Receivers, Senders
<1> QED BY <1>1, WatchInvHolds, PTL

(* No sender waits for a goroutine that does not come: with two helpers,   *)
(* one is left for a controller that got a token from the other sender     *)
(* (namespace.go:39-41, policy.go:283-289).  With a single one this is     *)
(* false: the loop may be in a handler that waits for the lock that the    *)
(* namespace controller holds while it sends.                              *)
THEOREM SendersMeetReceivers == ASSUME Helpers >= 2 PROVE Spec => []SendsReceived
<1>1. WatchInv => SendsReceived
  <2> SUFFICES ASSUME WatchInv, NEW k \in Controllers, AboutToTell(k)
               PROVE  \/ k \in running /\ helpers[k] > 0
                      \/ k \notin running /\ Launched(k)
    BY DEF SendsReceived
  <2>0. /\ helpers[k] \in 0..Helpers /\ Helpers \in Nat
        /\ None \notin Namespaces /\ visited \subseteq Namespaces
        /\ nsPc # "idle" => nsW \in Watchers
        /\ mainPc \in {"pods", "policies"} => walkW \in Watchers
    BY WatchAssumption DEF WatchInv, TypeOK, WatchAssumption, Aimed
  <2>1. CASE \/ nsPc = "tellPods" /\ k = Pods(nsW)
             \/ nsPc = "tellPolicies" /\ k = Pols(nsW)
    <3>1. nsPc \in Telling /\ home[nsW] \in Namespaces /\ k[2] = nsW
      BY <2>1 DEF Telling, WatchInv, Book, Pods, Pols
    <3>2. "ns" \notin told[k]
      BY <2>0, <2>1 DEF WatchInv, Book, Tokens, Telling, Retired
    <3>3. Launched(k)
      BY <2>0, <2>1, <3>1 DEF Launched
    <3> QED BY <2>0, <3>2, <3>3 DEF WatchInv, Tokens, Receivers, Senders
  <2>2. CASE \/ mainPc = "pods" /\ k = Pods(walkW)
             \/ mainPc = "policies" /\ k = Pols(walkW)
    <3>1. home[walkW] \in Namespaces /\ k[2] = walkW
      BY <2>0, <2>2 DEF WatchInv, Tokens, Pods, Pols
    <3>2. "main" \notin told[k]
      BY <2>2 DEF WatchInv, Tokens
    <3>3. Launched(k)
      BY <2>0, <2>2, <3>1 DEF WatchInv, Apart, Starting, Launched
    <3> QED BY <2>0, <3>2, <3>3 DEF WatchInv, Tokens, Receivers, Senders
  <2> QED BY <2>1, <2>2 DEF AboutToTell
<1> QED BY <1>1, WatchInvHolds, PTL

-----------------------------------------------------------------------------
(* The order of the start.                                                 *)

Late == {"startMonitor", "run", "up", "stopResolver", "stopMonitor",
         "stopTrireme", "exited"}

(* Before Run nothing of the resolver's controllers is there.              *)
Idle == mainPc = "new" => /\ ~nsServing /\ nsPc = "idle" /\ running = {}
                          /\ \A w \in Watchers : home[w] = None

(* What holds of the stages of main, and of the arguments past LoadConfig. *)
Ordered ==
  /\ stage \in Late => updater /\ trireme \in {"on", "off"}
  /\ stage = "startTrireme" => updater
  /\ monitor = "on" \/ mainPc # "new" => stage \in Late
  /\ \A r \in Readers : asks[r] # "idle" => stage \in Late
  /\ stage \notin {"load", "refused", "panic", "enforcer"} =>
       validateConfig(config) /\ ~config.enforceArg /\ ~config.enforce
  /\ stage \in Late \cup {"make", "register", "startTrireme"} =>
       options.auth = config.auth
  /\ betaPolicies = config.beta

ProcInv == ProcTypeOK /\ WatchInv /\ Idle /\ Ordered

(* Only Run wakes the resolver. *)
LEMMA IdleStep ==
  WatchInv /\ Idle /\ (WatchStep \/ UNCHANGED watchVars) => Idle'
<1> SUFFICES ASSUME WatchInv, Idle, WatchStep \/ UNCHANGED watchVars, mainPc' = "new"
             PROVE  Idle'
  BY DEF Idle
<1> DEFINE Asleep == /\ mainPc = "new" /\ ~nsServing /\ nsPc = "idle" /\ running = {}
                     /\ \A w \in Watchers : home[w] = None
<1>1. mainPc = "new"
  BY DEF WatchStep, Others, NamespaceController, addNamespace, deleteNamespace,
     updateNamespace, Take, CreateController, activateNamespaceWatcher, TellPods,
     TellPolicies, dropWatcher, ChangeNamespace, RunController, HandlerAsks,
     MonitorAsks, Ask, Looks, isNamespaceActive, getNamespaceWatcher, Look, Run,
     Stop, StopSteps, SendStopAll, WalkTo, StopPods, StopPolicies, WalkEnds,
     MapRace, mainVars, watchVars
<1>2. Asleep
  BY <1>1 DEF Idle
<1>3. CASE \/ \E n \in Namespaces : ChangeNamespace(n)
           \/ \E k \in Controllers : HandlerAsks(k)
           \/ \E r \in Readers : MonitorAsks(r) \/ Looks(r)
  BY <1>2, <1>3 DEF Idle, ChangeNamespace, HandlerAsks, MonitorAsks, Ask, Looks,
     isNamespaceActive, getNamespaceWatcher, Look, mapVars, ctlVars, loopVars, mainVars
<1>4. \A k \in Controllers : ~RunController(k)
  BY <1>2, ControllerTypes DEF RunController, Launched
<1>5. ~NamespaceController
  BY <1>2 DEF NamespaceController, addNamespace, deleteNamespace, updateNamespace,
     Take, CreateController, activateNamespaceWatcher, TellPods, TellPolicies, dropWatcher
<1>6. ~(Run \/ Stop \/ StopSteps \/ MapRace)
  BY <1>1 DEF Run, Stop, StopSteps, SendStopAll, WalkTo, StopPods, StopPolicies,
     WalkEnds, MapRace
<1>7. CASE UNCHANGED watchVars
  BY <1>2, <1>7 DEF Idle, watchVars, mapVars, ctlVars, loopVars, mainVars
<1> QED BY <1>3, <1>4, <1>5, <1>6, <1>7, ControllerTypes DEF WatchStep, Others

(* What other goroutines leave alone. *)
LEMMA OthersFrame == Others => UNCHANGED <<mainPc, betaPolicies>>
BY DEF Others, NamespaceController, addNamespace, deleteNamespace, updateNamespace,
   Take, CreateController, activateNamespaceWatcher, TellPods, TellPolicies,
   dropWatcher, ChangeNamespace, RunController, HandlerAsks, Ask, Looks,
   isNamespaceActive, getNamespaceWatcher, Look, Send, mainVars

(* Of the other goroutines, only a handler starts to ask. *)
LEMMA AsksFrame ==
  ASSUME TypeOK, Others, NEW r \in Readers, asks[r] = "idle", asks'[r] # "idle"
  PROVE  r \in serving
<1>1. ASSUME NEW q \in Readers, Looks(q) PROVE FALSE
  BY <1>1 DEF Looks, isNamespaceActive, getNamespaceWatcher, Look, TypeOK
<1>2. ASSUME NEW k \in Controllers, HandlerAsks(k) PROVE r = k /\ k \in serving
  BY <1>2, ControllerTypes DEF HandlerAsks, Ask, TypeOK
<1>3. ASSUME \/ \E n \in Namespaces : ChangeNamespace(n)
             \/ \E k \in Controllers : RunController(k)
             \/ NamespaceController
      PROVE  FALSE
  BY <1>3 DEF ChangeNamespace, RunController, NamespaceController, addNamespace,
     deleteNamespace, updateNamespace, Take, CreateController,
     activateNamespaceWatcher, TellPods, TellPolicies, dropWatcher, Send, readVars
<1> QED BY <1>1, <1>2, <1>3 DEF Others

(* The stages of main, and the types of what main changes.                 *)
StageTypes ==
  /\ stage \in {"load", "client", "collector", "credentials", "make", "register",
                "startTrireme", "startMonitor", "run", "up", "stopResolver",
                "stopMonitor", "stopTrireme"} \cup Ends
  /\ config \in Arguments
  /\ options \in [auth: {"none", "PSK", "PKI"},
                  collector: {"none", "default", "influx"}]
  /\ updater \in BOOLEAN
  /\ trireme \in {"none", "made", "on", "off"}
  /\ monitor \in {"none", "made", "on", "off"}

StartSteps == StartUp \/ StopMonitor \/ StopTrireme
Driven     == RunResolver \/ SignalReceived \/ StopResolver

(* The steps of the process: those of main alone, those of main with the   *)
(* resolver, and those that leave main where it is.                        *)
LEMMA ProcCases ==
  ASSUME [Next]_vars
  PROVE  \/ StartSteps /\ UNCHANGED watchVars /\ Running
         \/ Driven /\ Running
         \/ /\ UNCHANGED procVars
            /\ UNCHANGED watchVars \/ Others
               \/ (monitor = "on" /\ \E m \in Monitors : MonitorAsks(m))
BY DEF Next, Main, StartSteps, Driven, MonitorEvent, Step, Done, vars

LEMMA StageTypesStep == StageTypes /\ [Next]_vars => StageTypes'
<1> SUFFICES ASSUME StageTypes, [Next]_vars PROVE StageTypes'
  OBVIOUS
<1>1. CASE UNCHANGED procVars
  BY <1>1 DEF StageTypes, procVars
<1>2. CASE LoadConfig
  <2>1. config' \in Arguments
    BY <1>2 DEF LoadConfig, StageTypes, Arguments, kubeconfigPath
  <2> QED BY <1>2, <2>1 DEF LoadConfig, StageTypes, Ends
<1>3. CASE NewCollector \/ Credentials
  <2>1. options' \in [auth: {"none", "PSK", "PKI"},
                      collector: {"none", "default", "influx"}]
    BY <1>3 DEF NewCollector, Credentials, StageTypes, Arguments
  <2> QED BY <1>3, <2>1 DEF NewCollector, Credentials, StageTypes, Ends
<1>4. CASE \/ NewKubernetesPolicy \/ NewTriremeWithOptions \/ SetPolicyUpdater
           \/ StartTrireme \/ StartMonitor \/ StopMonitor \/ StopTrireme
  BY <1>4 DEF NewKubernetesPolicy, NewTriremeWithOptions, SetPolicyUpdater,
     StartTrireme, StartMonitor, StopMonitor, StopTrireme, Switch, Fatal, StageTypes, Ends
<1>5. CASE Driven
  BY <1>5 DEF Driven, RunResolver, SignalReceived, StopResolver, Switch, StageTypes, Ends
<1> QED BY <1>1, <1>2, <1>3, <1>4, <1>5, ProcCases DEF StartSteps, StartUp

(* Every step keeps Ordered. *)
LEMMA OrderedStep ==
  StageTypes /\ WatchInv /\ Idle /\ Ordered /\ [Next]_vars => Ordered'
<1> SUFFICES ASSUME StageTypes, WatchInv, Idle, Ordered, [Next]_vars PROVE Ordered'
  OBVIOUS
<1>1. CASE StartSteps /\ UNCHANGED watchVars
  <2>0. UNCHANGED <<mainPc, asks, betaPolicies>>
    BY <1>1 DEF watchVars, mainVars, readVars
  <2>1. CASE LoadConfig
    <3>1. /\ UNCHANGED <<options, updater, trireme, monitor>> /\ stage = "load"
          /\ stage' \in {"enforcer", "client", "refused"}
          /\ stage' = "client" =>
               ~config'.enforceArg /\ ~config'.enforce /\ validateConfig(config')
          /\ config'.beta = config.beta
      BY <2>1 DEF LoadConfig, validateConfig, StageTypes, Arguments
    <3> QED BY <2>0, <3>1 DEF Ordered, Late
  <2>2. CASE Credentials \/ NewCollector
    <3>1. config' = config /\ UNCHANGED <<updater, trireme, monitor>>
      BY <2>2 DEF Credentials, NewCollector
    <3>2. \/ stage = "collector" /\ stage' = "credentials"
          \/ stage = "credentials" /\ stage' \in {"refused", "panic"}
          \/ /\ stage = "credentials" /\ stage' = "make"
             /\ options'.auth = config.auth
      BY <2>2 DEF Credentials, NewCollector, StageTypes
    <3> QED BY <2>0, <3>1, <3>2 DEF Ordered, Late
  <2>3. CASE NewKubernetesPolicy \/ NewTriremeWithOptions \/ SetPolicyUpdater
    BY <2>0, <2>3 DEF NewKubernetesPolicy, NewTriremeWithOptions, SetPolicyUpdater,
       Fatal, Ordered, Late
  <2>4. CASE StartTrireme \/ StartMonitor \/ StopMonitor \/ StopTrireme
    BY <2>0, <2>4 DEF StartTrireme, StartMonitor, StopMonitor, StopTrireme, Switch,
       Ordered, Late
  <2> QED BY <1>1, <2>1, <2>2, <2>3, <2>4 DEF StartSteps, StartUp
<1>2. CASE Driven
  <2>1. UNCHANGED <<config, options, updater, trireme, monitor>>
    BY <1>2 DEF Driven, RunResolver, SignalReceived, StopResolver, Switch
  <2>2. stage \in Late \ {"exited"} /\ stage' \in Late
    BY <1>2 DEF Driven, RunResolver, SignalReceived, StopResolver, Switch, Late
  <2>3. UNCHANGED betaPolicies
    BY <1>2 DEF Driven, RunResolver, SignalReceived, StopResolver, Run, Stop,
       StopSteps, SendStopAll, WalkTo, StopPods, StopPolicies, WalkEnds, MapRace, Send
  <2> QED BY <2>1, <2>2, <2>3 DEF Ordered, Late
<1>3. CASE UNCHANGED procVars /\ UNCHANGED watchVars
  BY <1>3 DEF procVars, watchVars, mainVars, readVars, Ordered
<1>4. CASE /\ UNCHANGED procVars
           /\ Others \/ (monitor = "on" /\ \E m \in Monitors : MonitorAsks(m))
  <2>1. UNCHANGED <<mainPc, betaPolicies>>
    BY <1>4, OthersFrame DEF MonitorAsks, Ask, mainVars
  <2>2. ASSUME NEW r \in Readers, asks[r] = "idle", asks'[r] # "idle"
        PROVE  stage \in Late
    <3>1. CASE \E m \in Monitors : monitor = "on"
      BY <3>1 DEF Ordered
    <3>2. CASE Others
      <4>1. r \in serving
        BY <2>2, <3>2, AsksFrame DEF WatchInv
      <4> QED BY <4>1 DEF Ordered, Idle, WatchInv, Serving
    <3> QED BY <1>4, <3>1, <3>2
  <2> QED BY <1>4, <2>1, <2>2 DEF procVars, Ordered
<1> QED BY <1>1, <1>2, <1>3, <1>4, ProcCases

LEMMA ProcInvHolds == Spec => []ProcInv
<1>1. ProcTypeOK <=> TypeOK /\ StageTypes
  BY DEF ProcTypeOK, StageTypes
<1>2. Init => ProcInv
  <2> SUFFICES ASSUME Init PROVE ProcInv
    OBVIOUS
  <2>1. WatchInv /\ TypeOK
    BY WatchInvInit DEF Init, WatchInv
  <2>2. StageTypes
    BY ProcessAssumption DEF Init, StageTypes, NoOptions
  <2>3. Idle /\ Ordered
    BY DEF Init, WatchInit, Idle, Ordered, Late
  <2> QED BY <1>1, <2>1, <2>2, <2>3 DEF ProcInv
<1>3. ProcInv /\ [Next]_vars => ProcInv'
  <2> SUFFICES ASSUME ProcInv, [Next]_vars PROVE ProcInv'
    OBVIOUS
  <2>1. StageTypes /\ TypeOK /\ WatchInv /\ Idle /\ Ordered
    BY <1>1 DEF ProcInv
  <2>2. WatchInv' /\ StageTypes' /\ Ordered'
    BY <2>1, WatchInvStep, StageTypesStep, OrderedStep
  <2>3. Idle'
    BY <2>1, WatchSteps, IdleStep
  <2> QED BY <2>2, <2>3 DEF ProcInv, ProcTypeOK, StageTypes, WatchInv
<1> QED BY <1>2, <1>3, PTL DEF Spec

(* The process keeps its types. *)
THEOREM ProcTypeCorrect == Spec => []ProcTypeOK
<1>1. ProcInv => ProcTypeOK
  BY DEF ProcInv
<1> QED BY <1>1, ProcInvHolds, PTL

(* Whatever the arguments: what runs is what they ask for, and nothing     *)
(* runs when they lack something (config.go:140).                          *)
THEOREM StartsAsConfigured == Spec => []StartedAsConfigured
<1>1. ProcInv => StartedAsConfigured
  BY DEF ProcInv, Ordered, StartedAsConfigured, validateConfig, Late
<1> QED BY <1>1, ProcInvHolds, PTL

(* No goroutine resolves a policy before the updater is registered and     *)
(* Trireme started (main.go:142).                                          *)
THEOREM EventsFindUpdater == Spec => []ReadyForEvents
<1>1. ProcInv => ReadyForEvents
  BY DEF ProcInv, Ordered, ReadyForEvents
<1> QED BY <1>1, ProcInvHolds, PTL

-----------------------------------------------------------------------------
(* The cache keeps its promise.                                            *)

(* Under the mapping, the cache has no watcher that was told to stop, and  *)
(* the one it has for a namespace is the one that was put there.           *)
LEMMA CacheFacts ==
  ASSUME TypeOK, Aimed, Book
  PROVE  /\ None \notin Watchers /\ None \notin Namespaces
         /\ \A n \in Namespaces : InCache[n] \in (Watchers \ Retired) \cup {None}
         /\ \A n \in Namespaces : InCache[n] # None =>
              InCache[n] = activation[n] /\ home[InCache[n]] = n
         /\ ~Locked => \A n \in Namespaces : InCache[n] = activation[n]
         /\ DOMAIN InCache = Namespaces
<1>1. None \notin Watchers /\ None \notin Namespaces /\ Retired \subseteq Watchers
  BY WatchAssumption DEF WatchAssumption, Retired
<1>2. \A n \in Namespaces :
        InCache[n] = IF activation[n] \in Retired THEN None ELSE activation[n]
  BY DEF InCache
<1>3. DOMAIN InCache = Namespaces
  BY DEF InCache
<1> QED BY <1>1, <1>2, <1>3 DEF TypeOK, Book, Locked

(* What the promise is about.                                              *)
Promised == <<InCache, Retired, target, found>>

(* A handler that put a watcher into the map registers it. *)
LEMMA RegisterRefines ==
  ASSUME TypeOK, Aimed, Book, activateNamespaceWatcher, Running, Running'
  PROVE  \E n \in Namespaces, w \in Watchers : Registry!Register(n, w)
<1> DEFINE n == home[nsW]
<1>1. /\ nsW \in Watchers /\ n \in Namespaces /\ activation[n] = None
      /\ nsW \notin Retired
  BY DEF activateNamespaceWatcher, Aimed, Book, Starting
<1>2. /\ activation' = [activation EXCEPT ![n] = nsW] /\ Retired' = Retired
      /\ UNCHANGED <<target, found>>
  BY DEF activateNamespaceWatcher, Retired, loopVars, readVars
<1>3. InCache[n] = None /\ \A m \in Namespaces : InCache[m] # nsW
  BY <1>1, CacheFacts
<1>4. InCache' = [InCache EXCEPT ![n] = nsW]
  BY <1>1, <1>2 DEF InCache, TypeOK
<1>5. Running' = Running
  OBVIOUS
<1>6. Registry!Register(n, nsW)
  BY <1>1, <1>2, <1>3, <1>4, <1>5 DEF Registry!Register
<1> QED BY <1>1, <1>6

(* The first token of a deactivation takes the watcher away. *)
LEMMA RetireRefines ==
  ASSUME TypeOK, Aimed, Serving, Book, TellPods, Running, Running'
  PROVE  \E n \in Namespaces : Registry!Retire(n)
<1> DEFINE n == home[nsW]
<1>1. /\ nsW \in Watchers /\ n \in Namespaces /\ activation[n] = nsW
      /\ nsW \notin Retired
  BY DEF TellPods, Aimed, Book, Telling
<1>2. activation' = activation /\ UNCHANGED <<target, found>>
  BY DEF TellPods, Send, readVars
<1>3. Retired' = Retired \cup {nsW}
  BY RetiredStep DEF Tells, TellPods
<1>4. InCache[n] = nsW /\ nsW # None
  BY <1>1, CacheFacts DEF InCache
<1>5. \A m \in Namespaces : activation[m] = nsW => m = n
  BY <1>1, CacheFacts DEF Book
<1>6. InCache' = [InCache EXCEPT ![n] = None]
  BY <1>1, <1>2, <1>3, <1>5 DEF InCache, TypeOK
<1>7. Running' = Running
  OBVIOUS
<1>8. Registry!Retire(n)
  BY <1>2, <1>3, <1>4, <1>6, <1>7 DEF Registry!Retire
<1> QED BY <1>1, <1>8

(* The other tokens, and the end of a deactivation, change nothing that    *)
(* was promised.                                                           *)
LEMMA HiddenSteps ==
  ASSUME TypeOK, Aimed, Serving, Book,
         \/ Handler \/ CreateController \/ TellPolicies \/ dropWatcher
         \/ StopPods \/ StopPolicies \/ SendStopAll \/ WalkEnds \/ MapRace
         \/ (\E n \in Namespaces : ChangeNamespace(n) \/ WalkTo(n))
         \/ (\E k \in Controllers : RunController(k))
         \/ Run \/ Stop \/ UNCHANGED watchVars
  PROVE  UNCHANGED Promised
<1>1. CASE Handler
  <2>1. UNCHANGED <<activation, loopVars>>
    BY <1>1, HandlerCases
  <2>2. UNCHANGED <<target, found>>
    BY <1>1 DEF Handler, addNamespace, deleteNamespace, updateNamespace, Take, readVars
  <2> QED BY <2>1, <2>2 DEF Promised, InCache, Retired, loopVars
<1>2. CASE TellPolicies \/ StopPods \/ StopPolicies
  <2>1. UNCHANGED <<activation, target, found>>
    BY <1>2 DEF TellPolicies, StopPods, StopPolicies, Send, readVars
  <2>2. Retired' = Retired
    BY <1>2, RetiredStep DEF Tells, TellPolicies, StopPods, StopPolicies, ctlVars
  <2> QED BY <2>1, <2>2 DEF Promised, InCache
<1>3. CASE dropWatcher
  <2>1. /\ nsW \in Watchers /\ activation[home[nsW]] = nsW /\ nsW \in Retired
        /\ Retired' = Retired /\ UNCHANGED <<target, found>>
        /\ activation' = [activation EXCEPT ![home[nsW]] = None]
    BY <1>3 DEF dropWatcher, Aimed, Book, Telling, Retired, loopVars, readVars
  <2>2. None \notin Retired
    BY CacheFacts DEF Retired
  <2>3. InCache' = InCache
    BY <2>1, <2>2 DEF InCache, TypeOK
  <2> QED BY <2>1, <2>3 DEF Promised
<1>4. CASE \/ CreateController \/ SendStopAll \/ WalkEnds \/ MapRace
           \/ (\E n \in Namespaces : ChangeNamespace(n) \/ WalkTo(n))
           \/ (\E k \in Controllers : RunController(k))
           \/ Run \/ Stop \/ UNCHANGED watchVars
  <2>1. UNCHANGED <<activation, told, target, found>>
    BY <1>4 DEF CreateController, SendStopAll, WalkEnds, MapRace, ChangeNamespace,
       WalkTo, RunController, Run, Stop, watchVars, mapVars, loopVars, readVars
  <2> QED BY <2>1 DEF Promised, InCache, Retired
<1> QED BY <1>1, <1>2, <1>3, <1>4

(* A goroutine that begins to look a namespace up asks. *)
LEMMA AskRefines ==
  ASSUME TypeOK, Aimed, NEW r \in Readers, NEW n \in Namespaces, Ask(r, n),
         Running, Running'
  PROVE  Registry!Ask(r, n)
<1>1. target[r] = None
  BY DEF Ask, Aimed, Asked, TypeOK
<1>2. UNCHANGED <<activation, told, found>> /\ target' = [target EXCEPT ![r] = n]
  BY DEF Ask, mapVars, loopVars
<1>3. Running' = Running
  OBVIOUS
<1> QED BY <1>1, <1>2, <1>3 DEF Registry!Ask, InCache, Retired

(* A lookup under the lock answers with what is promised. *)
LEMMA AnswerRefines ==
  ASSUME TypeOK, Aimed, Book, NEW r \in Readers, Looks(r), Running, Running'
  PROVE  Registry!Answer(r)
<1>1. PICK next \in {"idle", "getWatcher"} : Look(r, next)
  BY DEF Looks, isNamespaceActive, getNamespaceWatcher
<1>2. target[r] \in Namespaces /\ target[r] # None
  BY CacheFacts DEF Looks, isNamespaceActive, getNamespaceWatcher, Aimed, Asked
<1>3. found' = InCache[target[r]]
  BY <1>1, <1>2, CacheFacts DEF Look
<1>4. /\ UNCHANGED <<activation, told>>
      /\ target' = [target EXCEPT ![r] = None] \/ target' = target
  BY <1>1 DEF Look, mapVars, loopVars
<1>5. Running' = Running
  OBVIOUS
<1> QED BY <1>2, <1>3, <1>4, <1>5 DEF Registry!Answer, InCache, Retired

(* Every step of the process is one of the promise, or changes nothing it  *)
(* speaks of.                                                              *)
LEMMA RegistryStep ==
  ASSUME WatchInv, [Next]_vars
  PROVE  Registry!Next \/ UNCHANGED Registry!rvars
<1>0. TypeOK /\ Aimed /\ Serving /\ Book
  BY DEF WatchInv
<1>1. ~Running => UNCHANGED vars
  BY DEF Next, Step, Done
<1>2. CASE UNCHANGED Promised
  <2>1. CASE Running /\ ~Running'
    <3>1. Running = TRUE /\ Running' = FALSE
      BY <2>1
    <3> QED BY <1>2, <3>1 DEF Registry!Next, Registry!End, Promised
  <2>2. Running' => Running
    BY <1>1 DEF vars, procVars, watchVars, mainVars, Running, Alive
  <2>3. CASE Running <=> Running'
    <3>1. Running' = Running
      BY <2>3
    <3> QED BY <1>2, <3>1 DEF Registry!rvars, Promised
  <2> QED BY <2>1, <2>2, <2>3
<1>3. CASE /\ UNCHANGED procVars /\ Running
           /\ Others \/ \E m \in Monitors : MonitorAsks(m)
  <2>1. Running'
    BY <1>3, OthersFrame DEF MonitorAsks, Ask, mainVars, procVars, Running, Alive
  <2>2. ASSUME NEW r \in Readers, NEW n \in Namespaces, Ask(r, n) PROVE Registry!Next
    BY <1>0, <1>3, <2>1, <2>2, AskRefines DEF Registry!Next
  <2>3. ASSUME NEW k \in Controllers, HandlerAsks(k) PROVE Registry!Next
    <3>1. k \in Readers /\ home[k[2]] \in Namespaces
      BY <1>0, <2>3, ControllerTypes DEF HandlerAsks, Serving
    <3> QED BY <2>2, <2>3, <3>1 DEF HandlerAsks
  <2>4. ASSUME NEW m \in Monitors, MonitorAsks(m) PROVE Registry!Next
    BY <2>2, <2>4, ControllerTypes DEF MonitorAsks
  <2>5. ASSUME NEW r \in Readers, Looks(r) PROVE Registry!Next
    BY <1>0, <1>3, <2>1, <2>5, AnswerRefines DEF Registry!Next
  <2>6. CASE activateNamespaceWatcher
    BY <1>0, <1>3, <2>1, <2>6, RegisterRefines DEF Registry!Next
  <2>7. CASE TellPods
    BY <1>0, <1>3, <2>1, <2>7, RetireRefines DEF Registry!Next
  <2>8. CASE \/ Handler \/ CreateController \/ TellPolicies \/ dropWatcher
             \/ (\E n \in Namespaces : ChangeNamespace(n))
             \/ (\E k \in Controllers : RunController(k))
    BY <1>0, <1>2, <2>8, HiddenSteps
  <2> QED BY <1>3, <2>3, <2>4, <2>5, <2>6, <2>7, <2>8
          DEF Others, NamespaceController, Handler
<1>4. CASE (StartSteps /\ UNCHANGED watchVars) \/ Driven \/ UNCHANGED watchVars
  <2>1. \/ Run \/ Stop \/ StopSteps \/ MapRace \/ UNCHANGED watchVars
    BY <1>4 DEF Driven, RunResolver, SignalReceived, StopResolver
  <2>2. UNCHANGED Promised
    BY <1>0, <2>1, HiddenSteps DEF StopSteps
  <2> QED BY <1>2, <2>2
<1>5. ~Running => UNCHANGED watchVars
  BY <1>1 DEF vars
<1> QED BY <1>3, <1>4, <1>5, ProcCases

(* The lock, the channels and Stop hide behind a map that changes at once: *)
(* whoever asks the cache for the watcher of a namespace is told, while    *)
(* the process runs, of the one that is there, and of none that was told   *)
(* to stop (cache.go:62-91).                                               *)
THEOREM CacheImplementsRegistry == Spec => ImplementsRegistry
<1>1. Init => Registry!Init
  <2> SUFFICES ASSUME Init PROVE Registry!Init
    OBVIOUS
  <2>1. Retired = {} /\ Running = TRUE
    BY ControllerTypes DEF Init, WatchInit, Retired, Running, Alive, Ends
  <2>2. InCache = [n \in Namespaces |-> None]
    BY <2>1 DEF Init, WatchInit, InCache
  <2> QED BY <2>1, <2>2 DEF Init, WatchInit, Registry!Init
<1>2. WatchInv /\ [Next]_vars => [Registry!Next]_(Registry!rvars)
  BY RegistryStep
<1> QED BY <1>1, <1>2, WatchInvHolds, PTL DEF Spec, ImplementsRegistry, Registry!Spec

=============================================================================
