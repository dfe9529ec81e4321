---------------------------- MODULE NamespaceWatch ----------------------------
(***************************************************************************)
(* The watchers of all namespaces: the namespace controller that activates *)
(* and deactivates them (resolver/policy.go), the cache lock under which   *)
(* it does so (resolver/cache.go), the stop tokens it hands to a watcher's *)
(* two controllers over unbuffered channels while it holds that lock       *)
(* (resolver/namespace.go), and Stop, which walks the map without the lock.*)
(*                                                                         *)
(* Other goroutines look namespaces up under the lock: Trireme's monitors, *)
(* and the handlers that the controllers run (Readers).                    *)
(*                                                                         *)
(* A controller of the library (external) is a loop that runs handlers,    *)
(* and Helpers more goroutines that wait on its stop channel.  A token     *)
(* goes to one that waits, and ends that one only.                         *)
(*                                                                         *)
(* A definition named D_Something is the form D would have with one fault  *)
(* in the code.  Nothing uses it; put in D's place, it makes the run named *)
(* in PROJECT.json fail.                                                   *)
(***************************************************************************)
EXTENDS Naturals, Sequences, FiniteSets

CONSTANTS
  Namespaces,
  KubeSystem,    \* the namespace kube-system
  Watchers,      \* one per activation of a namespace
  Monitors,      \* Trireme's goroutines inside ResolvePolicy
  Helpers,       \* the number of helpers of a controller
  None,
  MaxNsChanges,  \* bound: changes of namespaces at the API server
  MaxLookups     \* bound: goroutines that look a namespace up at a time

Controllers == {"pod", "pol"} \X Watchers
Readers     == Monitors \cup Controllers
NsObj       == {"absent", "off", "on"}   \* "on": the DefaultDeny annotation

ASSUME WatchAssumption ==
  /\ Helpers \in Nat /\ MaxNsChanges \in Nat /\ MaxLookups \in Nat
  /\ None \notin Namespaces \cup Watchers
  /\ Monitors \cap Controllers = {}

VARIABLES
  betaPolicies,  \* the resolver's flag
  nsQ, nsStore,  \* per namespace: pending deltas, and the informer's store
  activation,    \* namespaceActivation: a watcher per namespace, or None
  home,          \* home[w]: the namespace of watcher w; None before it is made
  nsPc, nsW,     \* the namespace controller's handler and its watcher
  nsServing, nsHelpers,   \* the namespace controller's loops
  running,       \* controllers whose Run was scheduled
  serving,       \* controllers whose handler loop has got no token
  helpers,       \* helpers[k]: those of controller k that still wait
  told,          \* told[k]: who sent controller k a token, "ns" or "main"
  asks, target,  \* the readers' positions, and the namespaces they ask for
  found,         \* the watcher the last lookup found, or None
  mainPc,        \* Run and Stop, in the main goroutine
  due, visited, walkW,    \* Stop's walk over the map
  nsChanges

nsVars     == <<nsQ, nsStore, nsChanges>>
mapVars    == <<activation, home>>
ctlVars    == <<nsPc, nsW>>
loopVars   == <<running, serving, helpers, told>>
readVars   == <<asks, target, found>>
mainVars   == <<mainPc, nsServing, nsHelpers, visited, walkW>>
watchVars  == <<betaPolicies, nsVars, mapVars, ctlVars, loopVars, readVars,
                mainVars, due>>

Pods(w) == <<"pod", w>>
Pols(w) == <<"pol", w>>

(* "fatal": the Go runtime ended the process.                              *)
Alive == mainPc # "fatal"

(* Only deactivateNamespaceWatcher holds the cache lock for longer than    *)
(* one access.                                                             *)
Telling == {"tellPods", "tellPolicies", "drop"}
Locked_Early == nsPc \in {"drop"}
Locked == nsPc \in Telling

Wanted(n, v) ==
  IF betaPolicies THEN v = "on" /\ n # KubeSystem ELSE v # "absent"

TypeOK ==
  /\ betaPolicies \in BOOLEAN
  /\ nsQ \in [Namespaces -> Seq(NsObj)] /\ nsStore \in [Namespaces -> NsObj]
  /\ activation \in [Namespaces -> Watchers \cup {None}]
  /\ home \in [Watchers -> Namespaces \cup {None}]
  /\ nsPc \in {"idle", "startPods", "startPolicies", "activate"} \cup Telling
  /\ nsW \in Watchers \cup {None}
  /\ nsServing \in BOOLEAN /\ nsHelpers \in 0..Helpers
  /\ running \subseteq Controllers /\ serving \subseteq Controllers
  /\ helpers \in [Controllers -> 0..Helpers]
  /\ told \in [Controllers -> SUBSET {"ns", "main"}]
  /\ asks \in [Readers -> {"idle", "isActive", "getWatcher"}]
  /\ target \in [Readers -> Namespaces \cup {None}]
  /\ found \in Watchers \cup {None}
  /\ mainPc \in {"new", "wait", "stopAll", "walk", "pods", "policies",
                 "stopped", "fatal"}
  /\ due \subseteq Namespaces /\ visited \subseteq Namespaces
  /\ walkW \in Watchers \cup {None}
  /\ nsChanges \in 0..MaxNsChanges

WatchInit ==
  /\ betaPolicies \in BOOLEAN
  /\ nsStore = [n \in Namespaces |-> "absent"]
  /\ nsQ \in [Namespaces -> {<<"off">>, <<"on">>}]
  /\ activation = [n \in Namespaces |-> None]
  /\ home = [w \in Watchers |-> None]
  /\ nsPc = "idle" /\ nsW = None
  /\ nsServing = FALSE /\ nsHelpers = 0
  /\ running = {} /\ serving = {}
  /\ helpers = [k \in Controllers |-> 0]
  /\ told = [k \in Controllers |-> {}]
  /\ asks = [r \in Readers |-> "idle"]
  /\ target = [r \in Readers |-> None]
  /\ found = None
  /\ mainPc = "new" /\ due = {} /\ visited = {} /\ walkW = None
  /\ nsChanges = 0

-----------------------------------------------------------------------------
(* The API server. *)

Current(n) == IF nsQ[n] = <<>> THEN nsStore[n] ELSE nsQ[n][Len(nsQ[n])]

ChangeNamespace(n) ==
  /\ nsChanges < MaxNsChanges
  /\ nsChanges' = nsChanges + 1
  /\ \E v \in NsObj \ {Current(n)} : nsQ' = [nsQ EXCEPT ![n] = Append(@, v)]
  /\ UNCHANGED <<betaPolicies, nsStore, mapVars, ctlVars, loopVars, readVars,
                 mainVars, due>>

-----------------------------------------------------------------------------
(* Controllers and their channels.                                         *)

(* The controller is made, and "go controller.Run(stop)" was reached.       *)
Launched(k) ==
  /\ home[k[2]] # None
  /\ k[2] = nsW => /\ nsPc # "startPods"
                   /\ k[1] = "pol" => nsPc # "startPolicies"

(* Its goroutine is scheduled at some later time.                          *)
RunController(k) ==
  /\ Launched(k) /\ k \notin running
  /\ running' = running \cup {k}
  /\ serving' = serving \cup {k}
  /\ helpers' = [helpers EXCEPT ![k] = Helpers]
  /\ UNCHANGED <<betaPolicies, nsVars, mapVars, ctlVars, told, readVars,
                 mainVars, due>>

(* A token is received: by the loop, unless a handler runs, or by a helper.*)
Send(k, who) ==
  /\ told' = [told EXCEPT ![k] = @ \cup {who}]
  /\ \/ /\ k \in serving /\ asks[k] = "idle"
        /\ serving' = serving \ {k}
        /\ UNCHANGED helpers
     \/ /\ helpers[k] > 0
        /\ helpers' = [helpers EXCEPT ![k] = @ - 1]
        /\ UNCHANGED serving
  /\ UNCHANGED <<betaPolicies, nsVars, running, home, readVars>>

-----------------------------------------------------------------------------
(* Handlers of the namespace controller.                                   *)

Take(n) ==
  /\ nsServing /\ nsPc = "idle" /\ nsQ[n] # <<>>
  /\ nsStore' = [nsStore EXCEPT ![n] = Head(nsQ[n])]
  /\ nsQ' = [nsQ EXCEPT ![n] = Tail(@)]
  /\ UNCHANGED <<betaPolicies, activation, loopVars, readVars, mainVars, due,
                 nsChanges>>

activateNamespace(n) ==
  /\ nsPc' = "startPods"
  /\ \E w \in Watchers : /\ home[w] = None
                         /\ w = (CHOOSE v \in Watchers : home[v] = None)
                         /\ nsW' = w
                         /\ home' = [home EXCEPT ![w] = n]

(* The lock is taken and the watcher found: its controllers are told next. *)
deactivateNamespace(n) ==
  /\ nsPc' = "tellPods" /\ nsW' = activation[n]
  /\ UNCHANGED home

addNamespace(n) ==
  /\ Take(n)
  /\ nsStore[n] = "absent" /\ Head(nsQ[n]) # "absent"
  /\ IF activation[n] = None /\ Wanted(n, Head(nsQ[n]))
     THEN activateNamespace(n) ELSE UNCHANGED <<ctlVars, home>>

deleteNamespace(n) ==
  /\ Take(n)
  /\ Head(nsQ[n]) = "absent"
  /\ IF activation[n] # None THEN deactivateNamespace(n)
     ELSE UNCHANGED <<ctlVars, home>>

updateNamespace(n) ==
  LET v == Head(nsQ[n]) IN
  /\ Take(n)
  /\ nsStore[n] # "absent" /\ v # "absent"
  /\ CASE betaPolicies /\ Wanted(n, v) /\ activation[n] = None
            -> activateNamespace(n)
       [] betaPolicies /\ ~Wanted(n, v) /\ activation[n] # None
            -> deactivateNamespace(n)
       [] OTHER -> UNCHANGED <<ctlVars, home>>

(* The pod controller is created and started, then that of the policies,   *)
(* then the watcher is put into the cache.                                 *)
CreateController ==
  /\ nsPc \in {"startPods", "startPolicies"}
  /\ nsPc' = IF nsPc = "startPods" THEN "startPolicies" ELSE "activate"
  /\ UNCHANGED <<betaPolicies, nsVars, mapVars, nsW, loopVars, readVars,
                 mainVars, due>>

activateNamespaceWatcher ==
  /\ nsPc = "activate"
  /\ activation' = [activation EXCEPT ![home[nsW]] = nsW]
  /\ nsPc' = "idle" /\ nsW' = None
  /\ UNCHANGED <<betaPolicies, nsVars, home, loopVars, readVars, mainVars, due>>

(* stopWatchingNamespace, called under the lock.                           *)
TellPods ==
  /\ nsPc = "tellPods" /\ Send(Pods(nsW), "ns")
  /\ nsPc' = "tellPolicies"
  /\ UNCHANGED <<activation, nsW, mainVars, due>>

TellPolicies ==
  /\ nsPc = "tellPolicies" /\ Send(Pols(nsW), "ns")
  /\ nsPc' = "drop"
  /\ UNCHANGED <<activation, nsW, mainVars, due>>

dropWatcher_StaysLocked ==
  /\ nsPc = "drop"
  /\ activation' = [activation EXCEPT ![home[nsW]] = None]
  /\ due' = due \ {home[nsW]}
  /\ UNCHANGED <<betaPolicies, nsVars, home, ctlVars, loopVars, readVars, mainVars>>
dropWatcher_Keeps ==
  /\ nsPc = "drop"
  /\ nsPc' = "idle" /\ nsW' = None
  /\ UNCHANGED <<betaPolicies, nsVars, home, loopVars, readVars, mainVars, activation, due>>
dropWatcher ==
  /\ nsPc = "drop"
  /\ activation' = [activation EXCEPT ![home[nsW]] = None]
  /\ due' = due \ {home[nsW]}
  /\ nsPc' = "idle" /\ nsW' = None
  /\ UNCHANGED <<betaPolicies, nsVars, home, loopVars, readVars, mainVars>>

-----------------------------------------------------------------------------
(* Readers: resolvePodPolicy's two accesses to the cache.                  *)

Ask(r, n) ==
  /\ asks[r] = "idle"
  /\ Cardinality({q \in Readers : asks[q] # "idle"}) < MaxLookups
  /\ asks' = [asks EXCEPT ![r] = "isActive"]
  /\ target' = [target EXCEPT ![r] = n]
  /\ UNCHANGED <<betaPolicies, nsVars, mapVars, ctlVars, loopVars, found,
                 mainVars, due>>

MonitorAsks(r) == r \in Monitors /\ \E n \in Namespaces : Ask(r, n)

(* A controller runs a handler for its namespace.                          *)
HandlerAsks(k) == k \in serving /\ Ask(k, home[k[2]])

(* Each lookup is one access under the lock.                               *)
Look(r, next) ==
  /\ ~Locked
  /\ found' = activation[target[r]]
  /\ asks' = [asks EXCEPT ![r] = next]
  /\ target' = IF next = "idle" THEN [target EXCEPT ![r] = None] ELSE target
  /\ UNCHANGED <<betaPolicies, nsVars, mapVars, ctlVars, loopVars, mainVars, due>>

isNamespaceActive(r) ==
  /\ asks[r] = "isActive"
  /\ Look(r, IF activation[target[r]] = None THEN "idle" ELSE "getWatcher")

getNamespaceWatcher(r) == asks[r] = "getWatcher" /\ Look(r, "idle")

-----------------------------------------------------------------------------
(* Run and Stop, in the main goroutine.                                    *)

Run ==
  /\ mainPc = "new"
  /\ mainPc' = "wait"
  /\ nsServing' = TRUE /\ nsHelpers' = Helpers
  /\ UNCHANGED <<betaPolicies, nsVars, mapVars, ctlVars, loopVars, readVars,
                 visited, walkW, due>>

(* The stop signal arrived, and Stop is called.                            *)
Stop ==
  /\ mainPc = "wait"
  /\ mainPc' = "stopAll"
  /\ UNCHANGED <<betaPolicies, nsVars, mapVars, ctlVars, loopVars, readVars,
                 nsServing, nsHelpers, visited, walkW, due>>

(* One token for the namespace controller; then the walk begins.           *)
SendStopAll ==
  /\ mainPc = "stopAll"
  /\ \/ /\ nsServing /\ nsPc = "idle"
        /\ nsServing' = FALSE
        /\ UNCHANGED nsHelpers
     \/ /\ nsHelpers > 0
        /\ nsHelpers' = nsHelpers - 1
        /\ UNCHANGED nsServing
  /\ mainPc' = "walk"
  /\ due' = {n \in Namespaces : activation[n] # None}
  /\ UNCHANGED <<betaPolicies, nsVars, mapVars, ctlVars, loopVars, readVars,
                 visited, walkW>>

(* A range over a map reaches every entry that stays, and may or may not   *)
(* reach one that comes meanwhile.                                         *)
WalkTo(n) ==
  /\ mainPc = "walk" /\ n \notin visited /\ activation[n] # None
  /\ visited' = visited \cup {n}
  /\ walkW' = activation[n]
  /\ mainPc' = "pods"
  /\ UNCHANGED <<betaPolicies, nsVars, mapVars, ctlVars, loopVars, readVars,
                 nsServing, nsHelpers, due>>

StopPods ==
  /\ mainPc = "pods" /\ Send(Pods(walkW), "main")
  /\ mainPc' = "policies"
  /\ UNCHANGED <<activation, ctlVars, nsServing, nsHelpers, visited, walkW, due>>

StopPolicies_PodsAgain ==
  /\ mainPc = "policies" /\ Send(Pods(walkW), "main")
  /\ mainPc' = "walk"
  /\ UNCHANGED <<activation, ctlVars, nsServing, nsHelpers, visited, walkW, due>>
StopPolicies ==
  /\ mainPc = "policies" /\ Send(Pols(walkW), "main")
  /\ mainPc' = "walk"
  /\ UNCHANGED <<activation, ctlVars, nsServing, nsHelpers, visited, walkW, due>>

WalkEnds ==
  /\ mainPc = "walk" /\ due \subseteq visited
  /\ mainPc' = "stopped"
  /\ UNCHANGED <<betaPolicies, nsVars, mapVars, ctlVars, loopVars, readVars,
                 nsServing, nsHelpers, visited, walkW, due>>

(* The walk meets a write of the map: the runtime may notice it (a         *)
(* "concurrent map iteration and map write") and end the process.          *)
MapRace ==
  /\ mainPc = "walk" /\ nsPc \in {"activate", "drop"}
  /\ mainPc' = "fatal"
  /\ UNCHANGED <<betaPolicies, nsVars, mapVars, ctlVars, loopVars, readVars,
                 nsServing, nsHelpers, visited, walkW, due>>

-----------------------------------------------------------------------------

NamespaceController ==
  \/ \E n \in Namespaces :
       addNamespace(n) \/ deleteNamespace(n) \/ updateNamespace(n)
  \/ CreateController \/ activateNamespaceWatcher
  \/ TellPods \/ TellPolicies \/ dropWatcher

Looks(r) == isNamespaceActive(r) \/ getNamespaceWatcher(r)

StopSteps ==
  \/ SendStopAll \/ (\E n \in Namespaces : WalkTo(n))
  \/ StopPods \/ StopPolicies \/ WalkEnds

Others ==
  \/ \E n \in Namespaces : ChangeNamespace(n)
  \/ \E k \in Controllers : RunController(k) \/ HandlerAsks(k)
  \/ NamespaceController
  \/ \E r \in Readers : Looks(r)

(* The cache as its promise sees it: a watcher has left the map once its   *)
(* first controller is told to stop.  The lock hides the steps that follow.*)
Retired == {w \in Watchers : "ns" \in told[Pods(w)]}
InCache == [n \in Namespaces |->
             IF activation[n] \in Retired THEN None ELSE activation[n]]

=============================================================================
