--------------------------- MODULE WatcherRegistry ---------------------------
(***************************************************************************)
(* What the resolver's cache promises about the watchers of namespaces     *)
(* (namespaceActivation in resolver/cache.go), without lock and channels:  *)
(* a map that changes at once.  A watcher is in it for at most one period, *)
(* and a goroutine that asks for a namespace is told, while the process    *)
(* runs, of the watcher that is there at that moment: of no watcher that   *)
(* was told to stop already.                                               *)
(***************************************************************************)
CONSTANTS Namespaces, Watchers, Readers, None

VARIABLES
  registered,  \* registered[n]: the watcher of namespace n, or None
  retired,     \* the watchers that were told to stop
  asked,       \* asked[r]: the namespace goroutine r asks for, or None
  answer,      \* what the last answer was
  up           \* the process runs

rvars == <<registered, retired, asked, answer, up>>

Init ==
  /\ registered = [n \in Namespaces |-> None]
  /\ retired = {}
  /\ asked = [r \in Readers |-> None]
  /\ answer = None
  /\ up = TRUE

Register(n, w) ==
  /\ up /\ registered[n] = None
  /\ w \notin retired /\ \A m \in Namespaces : registered[m] # w
  /\ registered' = [registered EXCEPT ![n] = w]
  /\ UNCHANGED <<retired, asked, answer, up>>

Retire(n) ==
  /\ up /\ registered[n] # None
  /\ retired' = retired \cup {registered[n]}
  /\ registered' = [registered EXCEPT ![n] = None]
  /\ UNCHANGED <<asked, answer, up>>

Ask(r, n) ==
  /\ up /\ asked[r] = None
  /\ asked' = [asked EXCEPT ![r] = n]
  /\ UNCHANGED <<registered, retired, answer, up>>

(* A goroutine that found a watcher may ask for the same namespace again.  *)
Answer(r) ==
  /\ up /\ asked[r] # None
  /\ answer' = registered[asked[r]]
  /\ \/ asked' = [asked EXCEPT ![r] = None]
     \/ asked' = asked
  /\ UNCHANGED <<registered, retired, up>>

End == up /\ up' = FALSE /\ UNCHANGED <<registered, retired, asked, answer>>

Next ==
  \/ \E n \in Namespaces : Retire(n) \/ \E w \in Watchers : Register(n, w)
  \/ \E r \in Readers : Answer(r) \/ \E n \in Namespaces : Ask(r, n)
  \/ End

Spec == Init /\ [][Next]_rvars

=============================================================================
