------------------------------- MODULE Process -------------------------------
(***************************************************************************)
(* The process from its arguments to its exit (main.go, config/config.go,  *)
(* auth/pki.go, collector/collector.go), composed with NamespaceWatch: the *)
(* main goroutine starts Trireme, its monitor and the namespace controller *)
(* and stops them after a signal.                                          *)
(*                                                                         *)
(* An argument is what flag, environment and default leave of it (viper,   *)
(* external); strings are reduced to what the code asks of them.           *)
(*                                                                         *)
(* A definition named D_Something is the form D would have with one fault  *)
(* in the code.  Nothing uses it; put in D's place, it makes the run named *)
(* in PROJECT.json fail.                                                   *)
(***************************************************************************)
EXTENDS NamespaceWatch

CONSTANT Inputs   \* bound: the arguments the process may be started with

Arguments ==
  [enforceArg: BOOLEAN,      \* the first argument is "enforce"
   enforce: BOOLEAN,         \* --Enforce
   node: {"", "name"},       \* --KubeNodeName
   auth: {"PSK", "PKI", "other"}, psk: {"", "secret"},
   nets: {"valid", "invalid"},         \* --TriremeNetworks
   kubeconfig: {"", "path", "home"},   \* --KubeconfigPath
   inCluster: BOOLEAN,       \* KUBERNETES_PORT is set
   collector: BOOLEAN,       \* --CollectorEndpoint is given
   beta: BOOLEAN]            \* --BetaNetPolicies

ASSUME ProcessAssumption == Inputs \subseteq Arguments

VARIABLES
  stage,      \* what the main goroutine does next
  config,     \* the arguments, as LoadConfig left them
  options,    \* what Trireme is made with: credentials and event collector
  updater,    \* policyUpdater is set
  trireme, monitor   \* "none", "made", "on", "off"

procVars == <<stage, config, options, updater, trireme, monitor>>
vars     == <<procVars, watchVars>>

NoOptions == [auth |-> "none", collector |-> "none"]

(* Ends of the process other than NamespaceWatch's "fatal".                *)
Ends == {"refused", "panic", "enforcer", "exited"}
Running == stage \notin Ends /\ Alive

ProcTypeOK ==
  /\ TypeOK
  /\ stage \in {"load", "client", "collector", "credentials", "make", "register",
                "startTrireme", "startMonitor", "run", "up", "stopResolver",
                "stopMonitor", "stopTrireme"} \cup Ends
  /\ config \in Arguments
  /\ options \in [auth: {"none", "PSK", "PKI"},
                  collector: {"none", "default", "influx"}]
  /\ updater \in BOOLEAN
  /\ trireme \in {"none", "made", "on", "off"}
  /\ monitor \in {"none", "made", "on", "off"}

Init ==
  /\ WatchInit
  /\ config \in Inputs
  /\ betaPolicies = config.beta
  /\ stage = "load" /\ options = NoOptions /\ updater = FALSE
  /\ trireme = "none" /\ monitor = "none"

-----------------------------------------------------------------------------
(* LoadConfig. *)

validateConfig_NoNode(c) ==
  /\ c.auth \in {"PSK", "PKI"}
  /\ ~(c.auth = "PSK" /\ c.psk = "")
  /\ c.nets = "valid"
validateConfig(c) ==
  /\ ~(~c.enforce /\ c.node = "")
  /\ c.auth \in {"PSK", "PKI"}
  /\ ~(c.auth = "PSK" /\ c.psk = "")
  /\ c.nets = "valid"

(* In a cluster the path is dropped; elsewhere there is always one.        *)
kubeconfigPath(c) ==
  IF c.inCluster THEN "" ELSE IF c.kubeconfig = "" THEN "home" ELSE c.kubeconfig

LoadConfig ==
  /\ stage = "load"
  /\ IF config.enforceArg
     THEN stage' = "enforcer" /\ UNCHANGED config
     ELSE IF validateConfig(config)
     THEN /\ config' = [config EXCEPT !.kubeconfig = kubeconfigPath(config)]
          /\ stage' = IF config.enforce THEN "enforcer" ELSE "client"
     ELSE stage' = "refused" /\ UNCHANGED config
  /\ UNCHANGED <<options, updater, trireme, monitor>>

-----------------------------------------------------------------------------
(* The start, one component after the other.  A failure ends the process.  *)

Fatal(s) == stage = s /\ stage' = "refused"

NewKubernetesPolicy ==
  /\ \/ stage = "client" /\ stage' = "collector"
     \/ Fatal("client")
  /\ UNCHANGED <<config, options, updater, trireme, monitor>>

(* Without a connection to the database the default collector is used.     *)
NewCollector_NoDefault ==
  /\ stage = "collector"
  /\ stage' = "credentials"
  /\ \E c \in IF config.collector THEN {"influx", "nil"} ELSE {"default"} :
       options' = [options EXCEPT !.collector = c]
  /\ UNCHANGED <<config, updater, trireme, monitor>>
NewCollector ==
  /\ stage = "collector"
  /\ stage' = "credentials"
  /\ \E c \in {"default"} \cup (IF config.collector THEN {"influx"} ELSE {}) :
       options' = [options EXCEPT !.collector = c]
  /\ UNCHANGED <<config, updater, trireme, monitor>>

(* LoadPKI panics when it has no client, and fails with any later step.    *)
Credentials ==
  /\ stage = "credentials"
  /\ \/ /\ config.auth \in {"PSK", "PKI"}
        /\ stage' = "make"
        /\ options' = [options EXCEPT !.auth = config.auth]
     \/ /\ config.auth = "PKI"
        /\ stage' \in {"refused", "panic"}
        /\ UNCHANGED options
  /\ UNCHANGED <<config, updater, trireme, monitor>>

NewTriremeWithOptions_NoUpdater ==
  /\ \/ /\ stage = "make" /\ stage' = "startTrireme"
        /\ trireme' = "made" /\ monitor' = "made"
     \/ Fatal("make") /\ UNCHANGED <<trireme, monitor>>
  /\ UNCHANGED <<config, options, updater>>
NewTriremeWithOptions ==
  /\ \/ /\ stage = "make" /\ stage' = "register"
        /\ trireme' = "made" /\ monitor' = "made"
     \/ Fatal("make") /\ UNCHANGED <<trireme, monitor>>
  /\ UNCHANGED <<config, options, updater>>

SetPolicyUpdater ==
  /\ stage = "register" /\ stage' = "startTrireme"
  /\ updater' = TRUE
  /\ UNCHANGED <<config, options, trireme, monitor>>

Switch(s, next) ==
  /\ stage = s /\ stage' = next
  /\ UNCHANGED <<config, options, updater>>

StartTrireme ==
  Switch("startTrireme", "startMonitor") /\ trireme' = "on" /\ UNCHANGED monitor
StartMonitor ==
  Switch("startMonitor", "run") /\ monitor' = "on" /\ UNCHANGED trireme
StopMonitor ==
  Switch("stopMonitor", "stopTrireme") /\ monitor' = "off" /\ UNCHANGED trireme
StopTrireme ==
  Switch("stopTrireme", "exited") /\ trireme' = "off" /\ UNCHANGED monitor

StartUp ==
  \/ LoadConfig \/ NewKubernetesPolicy \/ NewCollector \/ Credentials
  \/ NewTriremeWithOptions \/ SetPolicyUpdater \/ StartTrireme \/ StartMonitor

(* Run and Stop of the resolver.                                           *)
RunResolver ==
  /\ Switch("run", "up") /\ UNCHANGED <<trireme, monitor>>
  /\ Run
SignalReceived ==
  /\ Switch("up", "stopResolver") /\ UNCHANGED <<trireme, monitor>>
  /\ Stop
StopResolver ==
  /\ stage = "stopResolver"
  /\ StopSteps \/ MapRace
  /\ stage' = IF mainPc' = "stopped" THEN "stopMonitor" ELSE stage
  /\ UNCHANGED <<config, options, updater, trireme, monitor>>

Main ==
  \/ (StartUp \/ StopMonitor \/ StopTrireme) /\ UNCHANGED watchVars
  \/ RunResolver \/ StopResolver

(* The monitor calls ResolvePolicy while it is on.                         *)
MonitorEvent ==
  /\ monitor = "on"
  /\ \E m \in Monitors : MonitorAsks(m)
  /\ UNCHANGED procVars

Done == ~Running /\ UNCHANGED vars

(* A step of another goroutine.                                            *)
Step(A) == Running /\ A /\ UNCHANGED procVars

Next ==
  \/ Running /\ \/ Main \/ SignalReceived \/ MonitorEvent
  \/ Step(Others)
  \/ Done

(* Goroutines that can take a step do so while the process runs: main, the *)
(* namespace controller, the controllers' start, lookups under way.  The   *)
(* signal need not come, nor a change or an event.                         *)
Spec ==
  /\ Init /\ [][Next]_vars
  /\ WF_vars(Running /\ Main)
  /\ WF_vars(Step(NamespaceController))
  /\ WF_vars(Step(\E k \in Controllers : RunController(k)))
  /\ \A r \in Readers : WF_vars(Step(Looks(r)))

-----------------------------------------------------------------------------
(* Properties. *)

(* What runs was asked for: nothing of the resolver starts unless the      *)
(* arguments name the node, the networks and usable credentials, and the   *)
(* resolver follows the flag (validateConfig, main).                       *)
StartedAsConfigured ==
  mainPc # "new" =>
    /\ config.node # "" /\ config.nets = "valid" /\ ~config.enforceArg
    /\ options.auth = config.auth /\ (config.auth = "PSK" => config.psk # "")
    /\ betaPolicies = config.beta

(* A goroutine that resolves a policy finds the updater registered and     *)
(* Trireme started (policy.go:216, main.go:142): no event is lost because  *)
(* it came too early.                                                      *)
ReadyForEvents ==
  \A r \in Readers : asks[r] # "idle" => updater /\ trireme \in {"on", "off"}

(* A controller of a watcher never gets more tokens than it has goroutines *)
(* to receive them: one from the namespace controller, one from Stop       *)
(* (namespace.go:39).                                                      *)
OneTokenEach ==
  \A k \in running :
    (Helpers - helpers[k]) + (IF k \in serving THEN 0 ELSE 1)
      = (IF "ns" \in told[k] THEN 1 ELSE 0) + (IF "main" \in told[k] THEN 1 ELSE 0)

(* A stop token is sent only where a goroutine can receive it at once, or  *)
(* will once it is scheduled: a controller whose loop runs a handler that  *)
(* waits for the lock still has a helper, although Stop and the namespace  *)
(* controller may tell it both (namespace.go:39-41, policy.go:283-289).    *)
AboutToTell(k) ==
  \/ nsPc = "tellPods" /\ k = Pods(nsW)
  \/ nsPc = "tellPolicies" /\ k = Pols(nsW)
  \/ mainPc = "pods" /\ k = Pods(walkW)
  \/ mainPc = "policies" /\ k = Pols(walkW)
SendsReceived ==
  \A k \in Controllers : AboutToTell(k) =>
    \/ k \in running /\ helpers[k] > 0
    \/ k \in serving /\ asks[k] = "idle"
    \/ k \notin running /\ Launched(k)

(* The cache lock is free again in the end: a goroutine that looks a       *)
(* namespace up gets its answer as long as the process runs (cache.go:82). *)
LookupsAnswered ==
  \A r \in Readers : asks[r] # "idle" ~> asks[r] = "idle" \/ ~Running

(* Once the signal came, the process ends (main.go:159): no step of Stop   *)
(* waits for ever.                                                         *)
SignalEndsProcess == stage = "stopResolver" ~> ~Running

(* The cache keeps its promise to whoever asks it for a watcher, whatever  *)
(* the lock, the channels and Stop do meanwhile (cache.go:62-91).          *)
Registry ==
  INSTANCE WatcherRegistry WITH
    registered <- InCache, retired <- Retired, asked <- target,
    answer <- found, up <- Running
ImplementsRegistry == Registry!Spec

(* "Stop Stops all the channels" (policy.go:283): at the moment Stop       *)
(* returns, the controllers of every watcher in the cache were told.       *)
StopTellsAll ==
  [][ mainPc = "walk" /\ mainPc' = "stopped" =>
        \A n \in Namespaces : activation[n] # None =>
          \A k \in {Pods(activation[n]), Pols(activation[n])} : "main" \in told[k]
    ]_vars

=============================================================================
