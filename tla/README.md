# TLA+ models of trireme-kubernetes

Trireme-Kubernetes runs on every node of a Kubernetes cluster. For each pod on
its node it turns the NetworkPolicies that select the pod into a Trireme policy,
and replaces that policy when pods, policies or namespaces change. Whether a pod
ends up with the right policy depends on the order in which several goroutines
run, on how rules are translated, and on what the process goes through from its
arguments to its exit. The models here are about those three things.
Paths are relative to `src/`; `policy.go`, `cache.go`, `namespace.go` and
`selector.go` are in `resolver/`, `client.go` and `handler.go` in `kubernetes/`.

## Inventory

| Part | State | Operations | Hard behaviour |
| --- | --- | --- | --- |
| Policy resolver (`policy.go`) | flags, cache, policy updater | `ResolvePolicy` (called by Trireme), `updatePodPolicy`, handlers of namespace, pod and policy events, activation, `Run`, `Stop` | handlers of different controllers and the monitor interleave at every API call; results of resolutions overwrite each other; errors are logged and never retried |
| Resolver cache (`cache.go`) | pod to container map, namespace to watcher map, one lock | add, find and delete a pod; activate, deactivate and find a watcher | check-then-act across critical sections; the lock is held while stop tokens are sent |
| Namespace watcher (`namespace.go`) | two informer stores and stop channels | `getPolicyList`, `stopWatchingNamespace` | one token on an unbuffered channel that several goroutines wait for, sent by two others |
| Rule translation (`selector.go`) | none | rule lists to tag selectors and ACLs | nil against empty at three levels; one rule's error fails all |
| API client (`client.go`) | connection, node name | read a pod, list local pods and namespaces, rules of a pod | each call may fail and sees a different moment |
| Event dispatch (`handler.go`) | informers | creates a controller whose handler calls a function of the resolver | handlers of a controller run one at a time, stores run ahead of handlers; after a broken watch, relists and tombstones |
| Annotation (`annotation.go`, `constant.go`) | none | data types of the beta annotation | |
| Process (`main.go`) | what has been started | start, wait for a signal, stop | every failure ends the process; stop against running handlers |
| Configuration (`config/config.go`) | the arguments | `LoadConfig`, `validateConfig` | two ways past validation |
| PKI (`auth/pki.go`), collector (`collector/collector.go`) | read once at start | obtain credentials; choose a collector | errors, panics and a fallback |
| Node name, version | | | |

Calls: the namespace controller calls `addNamespace`, `updateNamespace` and
`deleteNamespace`, which start and stop a pod and a policy controller per active
namespace; these call the pod and policy handlers, which resolve pods and call
Trireme's `UpdatePolicy`. Trireme's Docker monitor calls `ResolvePolicy` in a
goroutine of its own for each started container. All of them share the cache and
Trireme; nothing else orders them. `main` makes the resolver and Trireme, registers
Trireme with the resolver, starts them, and stops them after a signal, while all
the others go on.

What makes each part correct: the *resolver* leaves every running pod of an
active namespace with the policy for the API server's present state, never gives
a container another pod's policy, and finishes every handler; the *activation*
follows the namespace object, with at most one watcher per namespace; the *rule
translation* accepts what the rules allow and nothing else, and lets no rule take
away what another allows; the *cache* answers every lookup with the watcher that is
there at that moment; the *watchers* receive the tokens sent to them; a *controller*
tells its functions the last state of every object; the *process* runs only what its
arguments ask for, and ends once it is told to. `PROJECT.json` lists the parts, and under `hazards` the
places where this code can go wrong in ways tests hardly reach.

## Modules

| Module | What it is |
| --- | --- |
| `PolicyResolution` | resolver, cache, watcher and dispatch, for one namespace on one node |
| `MCPolicyResolution` | its small instances for TLC, and the bounds that the configurations name |
| `PolicyResolutionProofs` | type correctness, proved |
| `PolicyResolutionSafety` | three safety invariants, proved |
| `PolicyResolutionFreshness` | that no stale policy goes unexplained, proved |
| `PolicyResolutionProgress` | that no handler turns back, proved |
| `PolicyRules` | rule translation beside a reference definition |
| `MCPolicyRules` | the enumerated rule lists |
| `PolicyRulesProofs` | its five invariants, proved |
| `NamespaceWatch` | the watchers of all namespaces: activation, the cache lock, stop channels, `Stop` |
| `WatcherRegistry` | abstract specification: the cache as a map that changes at once |
| `Process` | `main` and its components, composed with `NamespaceWatch`; the specification and properties of both |
| `MCProcess` | small sets of arguments |
| `ProcessProofs` | its invariants, the account of the tokens and the refinement of `WatcherRegistry`, proved |
| `ResourceController` | one informer and its three functions |
| `MCResourceController` | its small instance |
| `ResourceControllerProofs` | its invariants, proved |

`PolicyResolution` and `NamespaceWatch` model the same activation at two grains. The
first follows a pod's policy through one namespace, and there the stop of a watcher
is one step with an open outcome; the second follows the lock and the channels of
several namespaces, and there resolutions are reduced to their lookups. Each leaves
out what the other's properties are about.

### PolicyResolution and the code

*Goroutines.* `nsPc` is the position of the namespace controller, `pc[t]` and
`job[t]` the position and the locals of the others: `<<"pod", w>>` and
`<<"pol", w>>` are the controllers of watcher `w`, `<<"mon", c>>` is Trireme's
goroutine inside `ResolvePolicy` for container `c`. A controller takes an event
only when its last handler returned, as client-go's single processing loop does.

*Steps.* Each action runs from one API call or cache access to the next, in the
order of `resolvePodPolicy`: `contextIDByPodName`, `getPod`, `isNamespaceActive`,
`getNamespaceWatcher`, `getPolicyList`, `IngressPodRules`, `EgressPodRules`,
`UpdatePolicy`. `PodReadFails`, `LocalPodsFails` and `UpdatePolicyFails` are the
error returns, and `Fail` ends the handler together with the loop it stands in
(`policy.go:396`). Activation is split at the two controllers it starts and at the
cache entry it makes last (`policy.go:247`, `:255`, `:259`).

*Informers.* `podQ`, `polQ` and `nsQ` hold the deltas that were not handled yet,
per object; `podStore`, `polStore` and `nsStore` are the informers' stores, which
a delta enters just before its handler is called. Deltas of different objects may
be handled in any order, which is more than the library's queue allows. When a
namespace is deactivated each informer gets one stop token, which may end its feed
or another of its loops: the set `fed[w]` may keep any part of what it had.

*API server.* `api`, `pols`, `ns` change on their own, within bounds. A pod has an
address state (none, its own, the host's) and a label set; a selector is the set
of label sets it matches; a policy body is one value. A generated policy is the
set of (policy, body) pairs that went into it, which is what staleness needs; what
such pairs turn into is the subject of `PolicyRules`. The store's list starts with
as many zero policies as the store has (`namespace.go:58`); they match every pod
and carry no rules, so they add no pair.

*Trireme* (external) is modelled by the calls the code makes: the policy returned
by `ResolvePolicy` is enforced when the container is still there, `UpdatePolicy`
replaces the policy of an existing PU and fails for others.

*History.* `missed[p]` records how an update of pod `p` was lost since `p` was
last read by a resolution; `lost`, `repairs` and `late` in a job support it. No
guard reads them. The reasons: `resolveFailed` (a call failed), `aborted` (the
loop ended at another pod), `unmapped` (no cache entry), `selectorMoved` (only the
old selector matched), `overtaken` (a policy resolved earlier was written over one
resolved later), `preActivation` (resolved while the namespace was half active).
`StaleOnlyIfMissed` says that this list is complete: with everything handled, a
running pod of an active namespace has the wrong policy only for one of them.

### PolicyRules and the code

`ingress` and `egress` are the rules of the policies that select a pod and
`nsLabels` the namespaces; the action `resolve` is the end of `resolvePodPolicy`.
`generateIngressRulesList` and its helpers follow `selector.go`, with lists whose
order cannot be told from the result as sets. The egress functions of the source
repeat the ingress ones with other types, so they share definitions. Tag selectors
do not carry a protocol; the reference leaves it out for connections with pods and
keeps it for ACLs. What a Trireme clause accepts (`Holds`) is external, and so is which
selectors `LabelSelectorAsSelector` refuses (`Parses`): `podRulesFail` and
`namespaceRulesFail` are the error returns that this leads to (`selector.go:117`, `:410`,
and `:174`, `:456` for egress), each of which fails the whole list. `resolve` has a second
outcome, in which the call of `AllNamespaces` failed and its error was dropped.

### NamespaceWatch and the code

*Controllers* (external). `controller.Run(stop)` of client-go runs a loop that calls
the handlers, and more goroutines that wait on the same channel: one that closes
the queue, and the reflector's. A value sent on the channel, instead of a close, goes
to one of those that wait. `serving` says that a controller's loop has got no token,
`helpers` counts the others that still wait. The loop waits only between handlers,
so a token sent by a handler's own goroutine, or while a handler waits for the lock,
needs a helper.

*The lock.* Only `deactivateNamespaceWatcher` holds it for longer than one access;
`nsPc` in `Telling` is that section (`cache.go:76` to `:83`). A lookup is a step that is
enabled while the lock is free. `Stop` does not take the lock: `WalkTo`, `StopPods` and
`StopPolicies` interleave with everything.

*The walk.* Go leaves open whether a `range` over a map reaches an entry that comes
during the walk, and skips one that is removed before it is reached: `due` holds
those it has to reach. A write during the walk may also end the process (`MapRace`).

*Activation.* `go controller.Run` is a step of its own (`RunController`), at any time after
the statement, even after the watcher was told to stop.

### Process and the code

`stage` is what `main` does next; each stage is a call, and each error of it ends the
process (`refused`, or `panic` in `LoadPKI`). An argument is reduced to what the code
asks of it. `SignalReceived` may happen once everything is started; a signal that comes
before `signal.Notify` (`main.go:153`) ends the process by Go's default and is left out.
In a cluster (`KUBERNETES_PORT` is set) a configured path is dropped, though
`config.go:63` promises flags first.

### ResourceController and the code

An object has a history of states; what an event, the store and the resolver know
of it are places in that history, and `told` is the place that the informer has heard of.
While the watch is open, `WatchEvent` puts the changes into the queue one by one; those
it has not delivered when the watch breaks are lost. The rest of the informer is
`DeltaFIFO` of client-go `^5.0.0` (`glide.yaml:19`), as far as it decides what the
functions are called with:

- the queue is locked while the deltas of one object are handled (`busy`), so neither a list
  nor an event comes in between;
- two deletions in a row become one (`PutDeletion`);
- `List` puts each listed object into the queue, unless a deletion is what is queued for
  it last; for an object that is no longer listed it puts a tombstone, but it looks for such
  objects in the store only.

The last point has two consequences. An object that is queued but not stored, and gone at
the list, is added and never deleted; one whose deletion is queued, and that is there again
at the list, is deleted and not added until something happens to it. The history variable
`overlooked` holds the objects whose last list was left out in this way; without it
`NothingForgotten` is false after one change, one broken watch and one relist. `addFunc`,
`updateFunc` and `deleteFunc` are the closures of `handler.go`; the five kinds of
controllers have the same three.
For a tombstone the assertion `deletedApiStruct.(*api.Pod)` panics, and with it the
process.

A definition named `D_Something` is `D` with one fault in it. Nothing uses these;
each shows that a run would notice that fault (`mutants` in `PROJECT.json`).

## Runs

Runs that pass:

| Run | What it shows |
| --- | --- |
| `Restart` | one pod with two containers, two changes, three label sets, GA policies: types, and no unexplained stale policy in any order of activation, start, replacement and changes |
| `TwoPods` | two pods and containers, one change: the same for the loops over pods, `PolicyReachesOwnPod`, and `HandlersAdvance`: each step of a handler ends it, finishes one of its pods or goes on to a later call for the same pod |
| `Namespaces` | beta policies, two watchers: the namespace created, deleted, created again, its annotation set, removed or left: `WatcherAccounted` and `ActivationFollowsNamespace` |
| `Kinds` | infra, application and untagged containers, an address assigned late, bodies that fail to translate, one failed call; `EventuallyQuiescent`: every handler ends and every delta is handled |
| `Rules` | the translation, see below |
| `Process` | one namespace, two watchers one after the other, all stages of the process: `StartedAsConfigured`, `ReadyForEvents`, `SendsReceived` (a stop token is sent only where a goroutine can receive it, or will once it is scheduled), `LookupsAnswered` (no goroutine waits for ever for the lock), `SignalEndsProcess` (no send of `Stop` blocks for ever) |
| `Watchers` | two namespaces, one of them kube-system, both kinds of policies: `OneTokenEach` (each token ends one goroutine, also when two come), and `ImplementsRegistry` |
| `Controller` | two objects, a watch that breaks twice, one failing handler: `PanicsForUnseenOnly`, `NothingForgotten` (with an open watch that has told everything and an empty queue the resolver has dealt with the last state of an object, unless its last handler failed or a list overlooked it), `DealtWithInTheEnd` (and it gets there) |

Runs that end in a counterexample, each against a line of the repository:

| Run | Line | What the code does |
| --- | --- | --- |
| `SelectorMove` | `policy.go:439` "Reresolve all affected pods" | pods of the old selector are left |
| `LostMapping` | `policy.go:126` "Keep the mapping in cache" | a late delete event removes the new pod's mapping |
| `NothingSet` | `selector.go:319` "Ports also not set: Allow All!" | the pod's whole policy fails to be generated |
| `StopTells` | `policy.go:283` "Stop Stops all the channels" | a watcher activated during the walk of `Stop` is not told |

`Rules` checks, for both flags in all settings, that translation widens the rules
only through peers without pod selector (`WidenedOnlyByNamespacePeers`), that
rules, peers and directions add up (`RulesAddUp`), that outside the cluster
exactly the listed ports are open (`OutsideByPortsOnly`), and which rules make the
policy fail (`FailsForBadRulesOnly`): those without peers that have no ports or an
unknown protocol, and those with peers and ports that have a malformed selector; no
other rule fails it, and a malformed selector in a rule that is skipped does not.

What `RulesAddUp` excepts is worth knowing: a rule with peers and without ports is
skipped (`selector.go:331`, although `:79` says that then "no need for specific
traffic matching"), and so is one with an empty list of peers. With GA policies no
rule at all means that everything is allowed (`selector.go:305`), also for a pod
that a policy without rules selects. `WidenedOnlyByNamespacePeers` excepts a peer
without pod selector, as the code turns it into a selector with the current
namespace and the ports as its only clauses, which every pod of that namespace
matches (`selector.go:128`; the comment at `:423` does not want that).

`StaleOnlyIfMissed` likewise excepts what the code is known to lose, among it the
other pods of a loop that ends at its first error (`aborted`, `policy.go:398`).

### Bounds

Constants `MaxChanges`, `MaxNsChanges`, `MaxFaults`, `MaxBreaks`, `MaxFailures` and
`MaxLookups` count changes at the API server, failed calls, broken watches, failing
handlers and lookups under way; `InitialPods`, `InitialPols` and `InitialNs` are what the
process may find when it starts. Two changes are enough for every hazard between
two handlers (change during a resolution, delete and create, create and update);
activation needs one watcher per activation, of which two changes of the namespace
allow two (`WatchersSuffice`). Some configurations also name a state constraint:

- `PairsOnly`: at most two goroutines are busy at a time, as every lost update is
  between two; used where a second watcher multiplies the states.
  `PairsAfterRestart` asks for it only once a second container is started.
- `NoStops`, `OneStart`: containers do not stop, or start one at a time; `Restart`
  has stops, and `Kinds` has no constraint.
- `ActivatedFirst`: containers start after activation; `Restart` has the other order.
- `RunningFirst`: pods and policies change while the containers run, so that the
  changes of the namespace are what meets the start in `Namespaces`; `Restart` has
  the other orders. In `SelectorMove`, and `RecreatedFirst` in `LostMapping`, it directs
  the search of the counterexample.

Pods and containers are interchangeable in `TwoPods` and `Restart` (`PodSymmetry`;
`Kind` is the same for all of them, and neither run checks liveness). Deadlock is
checked in `Process`, `Watchers` and `StopTells`, where the end of the process is a step
(`Done`); elsewhere it is not: the environment may stop changing, and then
everything ends.

`Process` has two helpers per controller, as client-go has. With one, `SendsReceived` is
false: the token of `Stop` takes the only helper, and then the namespace controller
holds the lock and sends to a loop whose handler waits for that lock. The namespace may change
twice, so that a watcher goes while `Stop` walks and another comes; one lookup
at a time is enough for a lookup that meets the lock or keeps a loop from
receiving. Arguments differ from the usual ones in one or two places (`Few`).
`Watchers` has one helper, the least that can receive what a busy loop does not, and
no monitor: the lookups come from the handlers; one change beside the first
state of each namespace is enough to remove a watcher while `Stop` walks to the other.
`Controller` lets the watch break twice, so that a tombstone may be queued before or
after another relist.

`PolicyRules` enumerates rule lists with at most two rules, two peers and two
ports per rule: the translation treats rules, peers and ports one by one, so a
pair of each shows any interference.

### Fairness

`Fairness` is weak fairness of the namespace controller, of each controller and of
each monitor goroutine: Go's scheduler runs every runnable goroutine, API calls
return or fail, and the cache lock is held only briefly. Nothing is assumed of the
environment: changes and container starts need not happen. Here a stop is one step;
that its sends are received is what `Process` checks.

`Process` assumes weak fairness of `main`, of the namespace controller, of the start of
controllers that were launched (`RunController`), and of each goroutine whose lookup is
under way: weak fairness is enough, since the lock, once free, is not taken again
by the one controller that takes it while nothing new happens. The
signal need not come, and neither need changes of namespaces, new events of a controller
or calls of the monitor.

`ResourceController` assumes weak fairness of the informer, which connects again after
a broken watch (client-go's reflector runs in `wait.Until`), delivers the events of an
open one, and handles what is queued. Watches need not break, objects need not change.

## Refinement

`ImplementsRegistry` says that `Process` implements `WatcherRegistry`: a map from
namespaces to watchers that changes at once, and goroutines that ask it and are
answered with what is there at that moment. The mapping hides the lock and the
channels. A watcher enters the abstract map when it is put into the cache, and leaves
it when its first controller is told to stop (`Retired`), several steps before it
leaves the concrete map; between these two the lock is held, so no lookup
sees the difference. Were the lock released or taken later, a goroutine would be
given a watcher that is being stopped. The tokens of `Stop` retire nothing: after
`Stop` the cache still has its watchers.

## Proofs

All theorems hold for every value of the constants that satisfies the assumptions of
the modules (`ConstantsAssumption`, `WatchAssumption`, `ProcessAssumption`,
`ControllerAssumption`); these are evaluated in the runs.

- `TypeCorrect` (`Spec => []TypeOK`): by the invariant `TypeInv`, which adds
  `LocalsSet` to `TypeOK`. `TypeOK` alone is not inductive: `getPod` reads
  `api[job[t].pod]`, which is an object only if the job names a pod.
- `WatchersAccounted` (`[]WatcherAccounted`): `WatcherInv` adds what is true while
  an activation is under way, such as that no watcher is active then and that the
  watcher being built was unused.
- `ActivationFollows` (`[]ActivationFollowsNamespace`): `ActivationInv` relates the
  last pending namespace delta, or the store if there is none, to the namespace
  object, and the store to the activation state. It rests on `WatcherInv` and on
  lemmas on sequences.
- `OwnPodPolicy` (`[]PolicyReachesOwnPod`): `OwnPodInv` adds that a container named
  in the cache or in a job was started, since `ctxPod` changes only when a
  container starts, and what the locals of a monitor goroutine are.
- `StaleExplained` (`[]StaleOnlyIfMissed`): three invariants, each checked by TLC first.
  `InformerInv`: the stores of the current watcher and the deltas still queued for it
  lead to the API server's state, and nothing reaches a watcher before it is started.
  `ContainerInv`: a pod's container is one of its own, a PU that is up is that of its pod's
  container, and a monitor works on its own container while the PU is being created.
  `FreshInv`: each running pod that the resolver follows and that has no recorded loss is
  accounted for: its PU failed, a delta is pending for which a handler will resolve it,
  some goroutine is resolving it late enough or is going to, or its policy is the one
  for the present state already. Each action either leaves that
  account standing or puts another in its place, which is where the steps of two handlers meet.
  When nothing is left to do only the last is possible.
- `HandlersFinish` (`Spec => HandlersAdvance`): `LoopInv` says what the list of pods of a
  handler is at each position, and `NextMoves` that every step moves each goroutine in
  one of the ways that `Moves` lists.
- `ProcTypeCorrect`, `StartsAsConfigured`, `EventsFindUpdater`, `EachTokenReceived`: by the
  invariant `ProcInv`. Its part `WatchInv` says which watcher each position of the
  namespace controller and of the walk speaks of (`Aimed`), that only controllers of a
  watcher that was made run (`Serving`), which watcher is being started, is in the map, or
  is being told to stop (`Book`), and that tokens and goroutines add up, no sender
  having told the same controller before (`Tokens`). `Ordered` says
  what each stage of `main` has behind it, and `Idle` that nothing of the resolver moves
  before its stage.
- `SendersMeetReceivers` (`[]SendsReceived`): by `WatchInv`, whose part `Apart`
  keeps `Stop` from a watcher whose controllers are still being launched, and
  `Tokens`, by which one token came before at most. It assumes `Helpers >= 2`.
- `CacheImplementsRegistry` (`Spec => ImplementsRegistry`): `RegistryStep` goes through the
  actions and maps each to an abstract step or a stutter; it needs from `ProcInv`
  that a watcher about to be registered was never told, that it is in no other
  place of the map, and that the one being told is the one in the map.
- `PolicyTypeCorrect`, `FailureExplained`, `OutsideExact`, `WideningExplained`, `RulesNeverCancel`:
  by the invariant `Generated`, that the policy is either not there yet or what the
  translation makes of the rules, with lemmas on what one clause, one selector and
  one list accept. They hold for all labels, selectors, rules and namespaces, where the
  run has a few.
- `PanicExplained` (`[]PanicsForUnseenOnly`): by `UnseenInv`. Deltas speak of places in
  the history, and an object with a tombstone in its queue is in `unseen` (`Queued`), as is a
  known object that is gone while no watch is open; while the watch is open, the queue
  of an object that was not overlooked leads to what was told of it (`Recorded`), or both are
  deletions (`Same`).
- `NothingLost` (`[]NothingForgotten`): by `HandledInv` what the resolver was told last of
  an object is what the store holds, unless that handler failed; by `Recorded` that is the
  object's last state when everything was told, its queue is empty and no list overlooked it.

Each invariant is proved to hold initially and to be kept by every action, one
lemma per action or group of actions.

Model-checked only: `EventuallyQuiescent`, `LookupsAnswered`, `SignalEndsProcess` and
`DealtWithInTheEnd`, as liveness is out of the proof system's reach. What they rest on
is proved: `HandlersAdvance` for the first, `SendsReceived` for the next two,
`NothingForgotten` for the last.

## Not modelled

- Other nodes, other namespaces and namespace labels in the resolver's model: the
  resolver keeps namespaces apart by key. That namespace labels may change after a
  resolution is listed as a hazard.
- Ports without number or protocol, and named ports: what happens depends on the
  API server's defaults and on libraries that are not in the repository.
- The other goroutines of client-go, as far as they do not receive stop tokens, and
  what a controller whose loop is stopped but whose reflector goes on keeps in its
  queue. `PolicyResolution` lets a stopped informer keep any part of its feed.
- A signal before `signal.Notify`; a second signal.
- The errors that `Start` of Trireme and of its monitor may return, which the code
  ignores.
- The calls inside `LoadPKI`, made in a fixed order before anything else runs.
- The node name (`utils.go`), an expression whose only limit is a constant of a library
  outside the repository; version and deployment files; logging.
- Node and service controllers, the node annotations and other accessors of
  `client.go`, which have no caller in the repository.

## Plan

Done: `PolicyResolution`, `PolicyRules`, `NamespaceWatch` with `WatcherRegistry` and `Process`,
`ResourceController`, with their runs and proofs. Left:

1. Several namespaces with changing labels in `PolicyResolution`, for the namespaces that
   a selector matched when a pod was resolved (`selector.go:415`).
2. Broken watches of `ResourceController` as the source of events in `PolicyResolution`.
