-------------------------- MODULE ResourceController --------------------------
(***************************************************************************)
(* A controller of kubernetes/handler.go: the library's informer, which    *)
(* lists the objects of one kind, watches them, and lists them again after *)
(* its watch breaks (external), and the three functions it calls, which    *)
(* assert the type of what they are given, pass it to the resolver's       *)
(* handler and log its error.  There is no resync: nothing is told twice.  *)
(*                                                                         *)
(* A definition named D_Something is the form D would have with one fault  *)
(* in the code.  Nothing uses it; put in D's place, it makes the run named *)
(* in PROJECT.json fail.                                                   *)
(***************************************************************************)
EXTENDS Naturals, Sequences, FiniteSets

CONSTANTS
  Objects,
  States,      \* what an object can be like, absent included
  Absent,
  MaxChanges,  \* bound: changes of an object at the API server
  MaxBreaks,   \* bound: watches that break
  MaxFailures  \* bound: handlers that return an error

ASSUME ControllerAssumption ==
  /\ Absent \in States
  /\ MaxChanges \in Nat /\ MaxBreaks \in Nat /\ MaxFailures \in Nat

(* A delta: the place in the object's history it speaks of, and whether    *)
(* its object is wrapped in a DeletedFinalStateUnknown.                    *)
Delta == [at: Nat, unknown: BOOLEAN]

VARIABLES
  history,    \* history[o]: the states object o has had
  watching,   \* the watch is open
  told,       \* told[o]: the place up to which the list and the watch told of o
  queue,      \* queue[o]: the deltas still to be handled
  busy,       \* the object whose deltas are being handled, under the queue's lock
  store,      \* store[o]: the place in o's history the store is at
  handled,    \* handled[o]: the one the resolver has dealt with last
  failed,     \* the objects whose last handler returned an error
  running,    \* no function panicked
  breaks, failures,
  \* History, which no guard reads:
  unseen,     \* the known objects that were gone while no watch was open
  overlooked  \* the objects whose last list was not put into the queue

libVars == <<history, watching, told, breaks, unseen, overlooked>>
vars == <<libVars, queue, busy, store, handled, failed, running, failures>>

State(o, i) == IF i = 0 THEN Absent ELSE history[o][i]
Latest(o)   == Len(history[o])

TypeOK ==
  /\ history \in [Objects -> Seq(States)]
  /\ queue \in [Objects -> Seq(Delta)]
  /\ told \in [Objects -> Nat]
  /\ store \in [Objects -> Nat] /\ handled \in [Objects -> Nat]
  /\ busy \subseteq Objects /\ failed \subseteq Objects
  /\ unseen \subseteq Objects /\ overlooked \subseteq Objects
  /\ watching \in BOOLEAN /\ running \in BOOLEAN
  /\ breaks \in 0..MaxBreaks /\ failures \in 0..MaxFailures

Init ==
  /\ history \in [Objects -> {<<v>> : v \in States}]
  /\ watching = FALSE /\ told = [o \in Objects |-> 0]
  /\ queue = [o \in Objects |-> <<>>] /\ busy = {}
  /\ store = [o \in Objects |-> 0] /\ handled = [o \in Objects |-> 0]
  /\ failed = {} /\ unseen = {} /\ overlooked = {} /\ running = TRUE
  /\ breaks = 0 /\ failures = 0

-----------------------------------------------------------------------------
(* The API server and the informer (external). *)

(* What the informer will have stored once its queue is empty.             *)
Newest(o) == queue[o][Len(queue[o])].at
Known(o)  == State(o, IF queue[o] = <<>> THEN store[o] ELSE Newest(o))

(* A known object is gone, and there is no watch that will tell.           *)
Unseen(o) == ~watching /\ State(o, Latest(o)) = Absent /\ Known(o) # Absent

Change(o) ==
  /\ Latest(o) <= MaxChanges
  /\ \E v \in States :
       /\ {v, State(o, Latest(o))} # {Absent}
       /\ history' = [history EXCEPT ![o] = Append(@, v)]
  /\ UNCHANGED <<watching, told, queue, busy, store, handled, failed, running,
                 breaks, failures, overlooked>>
  /\ unseen' = unseen \cup {p \in Objects : Unseen(p)'}

(* Events that were not delivered yet are lost with the watch.             *)
BreakWatch ==
  /\ watching /\ breaks < MaxBreaks
  /\ breaks' = breaks + 1 /\ watching' = FALSE
  /\ UNCHANGED <<history, told, queue, busy, store, handled, failed, running,
                 failures, overlooked>>
  /\ unseen' = unseen \cup {p \in Objects : Unseen(p)'}

(* DeltaFIFO: two deletions in a row become one, without a wrapper if one  *)
(* of them has none; there is none for what is neither stored nor queued.  *)
Put(o, i) == Append(queue[o], [at |-> i, unknown |-> FALSE])
Doomed(o) == queue[o] # <<>> /\ State(o, Newest(o)) = Absent
PutDeletion(o, i, wrapped) ==
  LET deletion == [at |-> i, unknown |-> wrapped] IN
  IF Doomed(o)
  THEN IF queue[o][Len(queue[o])].unknown
       THEN [queue[o] EXCEPT ![Len(queue[o])] = deletion] ELSE queue[o]
  ELSE IF queue[o] = <<>> /\ State(o, store[o]) = Absent THEN queue[o]
  ELSE Append(queue[o], deletion)

(* What the watch says waits while the queue is locked.                    *)
WatchEvent(o) ==
  /\ watching /\ busy = {} /\ told[o] < Latest(o)
  /\ told' = [told EXCEPT ![o] = @ + 1]
  /\ queue' = [queue EXCEPT ![o] = IF State(o, told'[o]) = Absent
                                   THEN PutDeletion(o, told'[o], FALSE)
                                   ELSE Put(o, told'[o])]
  /\ overlooked' = overlooked \ {o}
  /\ UNCHANGED <<history, watching, busy, store, handled, failed, running,
                 breaks, failures, unseen>>

(* DeltaFIFO.Replace: an object in the list is put into the queue, unless  *)
(* a deletion is what was queued for it last.  One that is no longer in    *)
(* the list is looked for in the store only, and its last known state,     *)
(* wrapped, put into the queue.                                            *)
List(o) ==
  IF State(o, Latest(o)) # Absent
  THEN IF Doomed(o) THEN queue[o] ELSE Put(o, Latest(o))
  ELSE IF State(o, store[o]) # Absent THEN PutDeletion(o, Latest(o), TRUE)
  ELSE queue[o]
Overlooks(o) ==
  IF State(o, Latest(o)) # Absent THEN Doomed(o)
  ELSE State(o, store[o]) = Absent /\ queue[o] # <<>> /\ ~Doomed(o)

ListAndWatch ==
  /\ ~watching /\ busy = {}
  /\ watching' = TRUE
  /\ told' = [o \in Objects |-> Latest(o)]
  /\ queue' = [o \in Objects |-> List(o)]
  /\ overlooked' = {o \in Objects : Overlooks(o)}
  /\ UNCHANGED <<history, busy, store, handled, failed, running, breaks,
                 failures, unseen>>

(* The queue stays locked until all deltas of the object are handled.      *)
Pop(o) ==
  /\ queue[o] # <<>> /\ busy \subseteq {o}
  /\ queue' = [queue EXCEPT ![o] = Tail(@)]
  /\ busy' = IF Len(queue[o]) = 1 THEN {} ELSE {o}
  /\ store' = [store EXCEPT ![o] = Head(queue[o]).at]
  /\ UNCHANGED libVars

-----------------------------------------------------------------------------
(* The three functions. *)

(* The resolver's handler succeeds, or its error is logged.                *)
Handle(o) ==
  /\ UNCHANGED running
  /\ \/ /\ handled' = [handled EXCEPT ![o] = store'[o]]
        /\ failed' = failed \ {o}
        /\ UNCHANGED failures
     \/ /\ failures < MaxFailures
        /\ failures' = failures + 1
        /\ failed' = failed \cup {o}
        /\ UNCHANGED handled

addFunc(o) ==
  /\ Pop(o)
  /\ State(o, store[o]) = Absent /\ State(o, store'[o]) # Absent
  /\ Handle(o)

updateFunc_Dropped(o) ==
  /\ Pop(o)
  /\ State(o, store[o]) # Absent /\ State(o, store'[o]) # Absent
  /\ UNCHANGED <<running, handled, failed, failures>>
updateFunc(o) ==
  /\ Pop(o)
  /\ State(o, store[o]) # Absent /\ State(o, store'[o]) # Absent
  /\ Handle(o)

(* The assertion fails for a wrapped object, and the program panics.       *)
deleteFunc_AssertsWrapper(o) ==
  /\ Pop(o)
  /\ State(o, store'[o]) = Absent
  /\ IF ~Head(queue[o]).unknown
     THEN running' = FALSE /\ UNCHANGED <<handled, failed, failures>>
     ELSE Handle(o)
deleteFunc(o) ==
  /\ Pop(o)
  /\ State(o, store'[o]) = Absent
  /\ IF Head(queue[o]).unknown
     THEN running' = FALSE /\ UNCHANGED <<handled, failed, failures>>
     ELSE Handle(o)

-----------------------------------------------------------------------------

Informer ==
  \/ ListAndWatch
  \/ \E o \in Objects : WatchEvent(o) \/ addFunc(o) \/ updateFunc(o) \/ deleteFunc(o)

Next ==
  /\ running
  /\ Informer \/ BreakWatch \/ \E o \in Objects : Change(o)

(* The reflector connects again, and the loop handles what is queued.      *)
Spec == Init /\ [][Next]_vars /\ WF_vars(running /\ Informer)

-----------------------------------------------------------------------------
(* Properties. *)

(* A controller ends the process only after an object it had heard of was  *)
(* gone while its watch was broken (handler.go:40, 63, 85, 106, 127).      *)
PanicsForUnseenOnly == ~running => unseen # {}

(* The resolver has dealt with the last state of an object.                *)
DealtWith(o) ==
  \/ handled[o] = Latest(o)
  \/ State(o, handled[o]) = Absent /\ State(o, Latest(o)) = Absent

(* While a watch is open, has told everything and nothing is queued for an *)
(* object, the resolver has dealt with the object's last state, however    *)
(* often the watch broke before, with two exceptions: the last handler for *)
(* it returned an error; or its last list came while deltas of it were     *)
(* queued, which made the library leave it out, and nothing happened to it *)
(* since (handler.go:25: the resync period is 0, nothing is told again).   *)
NothingForgotten ==
  running /\ watching =>
    \A o \in Objects \ (failed \cup overlooked) :
      told[o] = Latest(o) /\ queue[o] = <<>> => DealtWith(o)

(* And that is where a controller gets to when the API server is quiet.    *)
DealtWithInTheEnd ==
  <>[](running => \A o \in Objects \ (failed \cup overlooked) : DealtWith(o))

=============================================================================
