----------------------- MODULE ResourceControllerProofs -----------------------
(***************************************************************************)
(* When a controller of ResourceController can panic, for any number of    *)
(* objects, changes and broken watches.                                    *)
(***************************************************************************)
EXTENDS ResourceController, SequenceTheorems, TLAPS

(* The place the store will be at once the queue is empty.                 *)
End(q, s) == IF q = <<>> THEN s ELSE q[Len(q)].at

(* What an object with history h was like at place i. *)
At(h, i) == IF i = 0 THEN Absent ELSE h[i]

(* Two places say the same of an object: they are one, or it is absent.    *)
Same(h, i, j) == i = j \/ (At(h, i) = Absent /\ At(h, j) = Absent)

(* What the queue q of object o may hold, when its history is h.           *)
Queued(o, q, h) ==
  /\ q \in Seq(Delta)
  /\ \A i \in 1..Len(q) : q[i].at \in 1..Len(h) /\ (q[i].unknown => o \in unseen)

(* Deltas, store and what was told speak of places in the history; while   *)
(* the watch is open, the queue leads to what was told, unless that was    *)
(* overlooked; and what no watch will tell of is recorded in unseen.       *)
Recorded(o) ==
  /\ store[o] <= Len(history[o]) /\ told[o] <= Len(history[o])
  /\ Queued(o, queue[o], history[o])
  /\ watching /\ o \notin overlooked =>
       Same(history[o], End(queue[o], store[o]), told[o])
  /\ Unseen(o) => o \in unseen

UnseenInv ==
  /\ TypeOK
  /\ \A o \in Objects : Recorded(o)
  /\ PanicsForUnseenOnly

-----------------------------------------------------------------------------
(* A delta is added at the end, and taken from the front.                  *)
LEMMA PutEnd ==
  ASSUME NEW q \in Seq(Delta), NEW e \in Delta, NEW s
  PROVE  /\ Append(q, e) \in Seq(Delta) /\ Len(Append(q, e)) = Len(q) + 1
         /\ End(Append(q, e), s) = e.at
         /\ \A i \in 1..Len(Append(q, e)) :
              Append(q, e)[i] = IF i = Len(q) + 1 THEN e ELSE q[i]
<1>1. Append(q, e) \in Seq(Delta) /\ Len(Append(q, e)) = Len(q) + 1
  OBVIOUS
<1>2. \A i \in 1..Len(Append(q, e)) :
        Append(q, e)[i] = IF i = Len(q) + 1 THEN e ELSE q[i]
  OBVIOUS
<1>3. Append(q, e) # <<>> /\ Len(q) + 1 \in 1..Len(Append(q, e))
  BY <1>1
<1> QED BY <1>1, <1>2, <1>3 DEF End

LEMMA PopEnd ==
  ASSUME NEW q \in Seq(Delta), q # <<>>, NEW s
  PROVE  /\ Head(q) = q[1] /\ Head(q) \in Delta /\ 1 \in 1..Len(q)
         /\ Tail(q) \in Seq(Delta)
         /\ End(Tail(q), Head(q).at) = End(q, s)
         /\ \A i \in 1..Len(Tail(q)) : i + 1 \in 1..Len(q) /\ Tail(q)[i] = q[i + 1]
<1>1. /\ Head(q) = q[1] /\ Head(q) \in Delta /\ 1 \in 1..Len(q) /\ Len(q) \in Nat
      /\ Tail(q) \in Seq(Delta) /\ Len(Tail(q)) = Len(q) - 1
  OBVIOUS
<1>2. \A i \in 1..Len(Tail(q)) : i + 1 \in 1..Len(q) /\ Tail(q)[i] = q[i + 1]
  OBVIOUS
<1>3. CASE Len(q) = 1
  <2>0. \A t \in Seq(Delta) : t # <<>> => Len(t) \in Nat \ {0}
    BY EmptySeq
  <2>2. Len(Tail(q)) = 0 /\ Tail(q) \in Seq(Delta)
    BY <1>1, <1>3
  <2>1. Tail(q) = <<>>
    <3>1. Tail(q) # <<>> => Len(Tail(q)) # 0
      BY <2>0, <2>2
    <3> QED BY <2>2, <3>1, Zenon
  <2> QED BY <1>1, <1>2, <1>3, <2>1 DEF End
<1>4. CASE Len(q) # 1
  <2>1. Tail(q) # <<>> /\ Len(Tail(q)) \in 1..Len(Tail(q))
    BY <1>1, <1>4, EmptySeq
  <2> QED BY <1>1, <1>2, <2>1 DEF End
<1> QED BY <1>1, <1>3, <1>4

(* A deletion may take the place of the last delta instead. *)
LEMMA ReplaceEnd ==
  ASSUME NEW q \in Seq(Delta), q # <<>>, NEW e \in Delta, NEW s
  PROVE  LET r == [q EXCEPT ![Len(q)] = e] IN
         /\ r \in Seq(Delta) /\ Len(r) = Len(q)
         /\ End(r, s) = e.at
         /\ \A i \in 1..Len(r) : r[i] = IF i = Len(q) THEN e ELSE q[i]
<1> DEFINE r == [q EXCEPT ![Len(q)] = e]
<1>1. Len(q) \in Nat \ {0} /\ Len(q) \in 1..Len(q)
  BY EmptySeq
<1>2. r \in Seq(Delta) /\ Len(r) = Len(q)
  BY <1>1
<1>3. \A i \in 1..Len(r) : r[i] = IF i = Len(q) THEN e ELSE q[i]
  BY <1>1, <1>2
<1>4. r # <<>>
  BY <1>1, <1>2, EmptySeq
<1> QED BY <1>1, <1>2, <1>3, <1>4 DEF End

(* The end of the queue is a place in the history. *)
LEMMA EndPlaced ==
  ASSUME TypeOK, NEW o \in Objects, Recorded(o)
  PROVE  /\ Len(history[o]) \in Nat /\ End(queue[o], store[o]) \in 0..Len(history[o])
         /\ Known(o) = At(history[o], End(queue[o], store[o]))
         /\ queue[o] \in Seq(Delta)
         /\ Doomed(o) <=> queue[o] # <<>> /\ Known(o) = Absent
<1>1. queue[o] \in Seq(Delta) /\ store[o] \in Nat /\ Len(history[o]) \in Nat
  BY DEF TypeOK
<1>2. CASE queue[o] = <<>>
  BY <1>1, <1>2 DEF Recorded, End, Known, Doomed, State, At
<1>3. CASE queue[o] # <<>>
  <2>1. Len(queue[o]) \in 1..Len(queue[o])
    BY <1>1, <1>3
  <2> QED BY <1>1, <1>3, <2>1 DEF Recorded, Queued, End, Known, Newest, Doomed, State, At
<1> QED BY <1>1, <1>2, <1>3

(* What becomes of a queue when a delta comes, and to where it leads then. *)
LEMMA QueueGrows ==
  ASSUME TypeOK, NEW o \in Objects, Recorded(o), NEW d \in Delta,
         d.at \in 1..Len(history[o]), d.unknown => o \in unseen,
         NEW q, \/ q = Append(queue[o], d)
                \/ queue[o] # <<>> /\ q = [queue[o] EXCEPT ![Len(queue[o])] = d]
  PROVE  Queued(o, q, history[o]) /\ End(q, store[o]) = d.at
<1>1. queue[o] \in Seq(Delta) /\ Len(queue[o]) \in Nat
  BY DEF TypeOK
<1>2. /\ q \in Seq(Delta) /\ End(q, store[o]) = d.at
      /\ \A i \in 1..Len(q) : q[i] = d \/ (i \in 1..Len(queue[o]) /\ q[i] = queue[o][i])
  <2>1. CASE q = Append(queue[o], d)
    BY <1>1, <2>1, PutEnd
  <2>2. CASE queue[o] # <<>> /\ q = [queue[o] EXCEPT ![Len(queue[o])] = d]
    BY <1>1, <2>2, ReplaceEnd
  <2> QED BY <2>1, <2>2
<1> QED BY <1>2 DEF Recorded, Queued

(* A deletion is put into the queue, or is in it, or there is nothing to   *)
(* delete.                                                                 *)
LEMMA DeletionQueued ==
  ASSUME TypeOK, NEW o \in Objects, Recorded(o), NEW i \in 1..Len(history[o]),
         At(history[o], i) = Absent, NEW wrapped \in BOOLEAN,
         wrapped /\ Known(o) # Absent => o \in unseen
  PROVE  /\ Queued(o, PutDeletion(o, i, wrapped), history[o])
         /\ At(history[o], End(PutDeletion(o, i, wrapped), store[o])) = Absent
<1> DEFINE q == PutDeletion(o, i, wrapped)
           d == [at |-> i, unknown |-> wrapped]
<1> SUFFICES Queued(o, q, history[o]) /\ At(history[o], End(q, store[o])) = Absent
  OBVIOUS
<1>1. /\ Len(history[o]) \in Nat /\ queue[o] \in Seq(Delta) /\ Len(queue[o]) \in Nat
      /\ Known(o) = At(history[o], End(queue[o], store[o]))
      /\ Doomed(o) <=> queue[o] # <<>> /\ Known(o) = Absent
  BY EndPlaced
<1>2. d \in Delta /\ d.at = i /\ d.unknown = wrapped
  BY <1>1 DEF Delta
<1>3. CASE q = queue[o] /\ Known(o) = Absent
  BY <1>1, <1>3 DEF Recorded
<1>4. CASE /\ Doomed(o) /\ queue[o][Len(queue[o])].unknown
           /\ q = [queue[o] EXCEPT ![Len(queue[o])] = d]
  <2>1. queue[o] # <<>> /\ Len(queue[o]) \in 1..Len(queue[o])
    BY <1>1, <1>4, EmptySeq
  <2>2. o \in unseen
    BY <1>4, <2>1 DEF Recorded, Queued
  <2> HIDE DEF q, d
  <2> QED BY <1>2, <1>4, <2>1, <2>2, QueueGrows
<1>5. CASE q = Append(queue[o], d) /\ Known(o) # Absent
  <2> HIDE DEF q, d
  <2> QED BY <1>2, <1>5, QueueGrows
<1>6. queue[o] = <<>> => Known(o) = State(o, store[o])
  BY DEF Known
<1>7. \/ q = queue[o] /\ Known(o) = Absent
      \/ /\ Doomed(o) /\ queue[o][Len(queue[o])].unknown
         /\ q = [queue[o] EXCEPT ![Len(queue[o])] = d]
      \/ q = Append(queue[o], d) /\ Known(o) # Absent
  BY <1>1, <1>6 DEF PutDeletion
<1> QED BY <1>3, <1>4, <1>5, <1>7

(* A change keeps what the history was before it. *)
LEMMA ChangeFrame ==
  ASSUME NEW h \in Seq(States), NEW v \in States
  PROVE  /\ Append(h, v) \in Seq(States)
         /\ Len(h) \in Nat /\ Len(Append(h, v)) = Len(h) + 1
         /\ At(Append(h, v), Len(h) + 1) = v
         /\ \A i \in 0..Len(h) : At(Append(h, v), i) = At(h, i)
<1>1. /\ Append(h, v) \in Seq(States)
      /\ Len(Append(h, v)) = Len(h) + 1 /\ Len(h) \in Nat
      /\ Append(h, v)[Len(h) + 1] = v
  OBVIOUS
<1>2. ASSUME NEW i \in 0..Len(h) PROVE At(Append(h, v), i) = At(h, i)
  <2>1. CASE i = 0
    BY <2>1 DEF At
  <2>2. CASE i # 0
    <3>1. i \in 1..Len(h)
      BY <1>1, <2>2
    <3> QED BY <2>2, <3>1 DEF At
  <2> QED BY <2>1, <2>2
<1> QED BY <1>1, <1>2 DEF At

-----------------------------------------------------------------------------

LEMMA ChangeStep ==
  ASSUME UnseenInv, NEW o \in Objects, Change(o)
  PROVE  UnseenInv'
<1>0. TypeOK /\ \A p \in Objects : Recorded(p)
  BY DEF UnseenInv
<1>1. PICK v \in States : history' = [history EXCEPT ![o] = Append(history[o], v)]
  BY DEF Change
<1>2. /\ UNCHANGED <<watching, told, queue, busy, store, handled, failed, running,
                     breaks, failures, overlooked>>
      /\ unseen' = unseen \cup {p \in Objects : Unseen(p)'}
  BY DEF Change
<1>3. history' \in [Objects -> Seq(States)]
  BY <1>0, <1>1, ChangeFrame DEF TypeOK
<1>4. TypeOK'
  BY <1>0, <1>2, <1>3 DEF TypeOK
<1>5. ASSUME NEW p \in Objects PROVE Recorded(p)'
  <2>1. /\ Len(history[p]) \in Nat /\ Len(history'[p]) \in Nat
        /\ Len(history[p]) <= Len(history'[p])
        /\ \A i \in 0..Len(history[p]) : At(history'[p], i) = At(history[p], i)
    <3>1. CASE p = o
      <4>1. history[o] \in Seq(States) /\ history'[o] = Append(history[o], v)
        BY <1>0, <1>1 DEF TypeOK
      <4> QED BY <3>1, <4>1, ChangeFrame
    <3>2. CASE p # o
      BY <1>0, <1>1, <3>2 DEF TypeOK
    <3> QED BY <3>1, <3>2
  <2>2. End(queue[p], store[p]) \in 0..Len(history[p]) /\ told[p] \in 0..Len(history[p])
    BY <1>0, <2>1, EndPlaced DEF TypeOK, Recorded
  <2>3. Same(history[p], End(queue[p], store[p]), told[p])
          => Same(history'[p], End(queue[p], store[p]), told[p])
    BY <2>1, <2>2 DEF Same
  <2>4. Queued(p, queue[p], history[p])
    BY <1>0 DEF Recorded
  <2>5. Queued(p, queue[p], history[p])'
    BY <1>2, <2>1, <2>4 DEF Queued
  <2>6. Unseen(p)' => p \in unseen'
    BY <1>2
  <2>7. store[p] <= Len(history'[p]) /\ told[p] <= Len(history'[p])
    BY <1>0, <2>1 DEF Recorded, TypeOK
  <2> QED BY <1>0, <1>2, <2>3, <2>5, <2>6, <2>7 DEF Recorded
<1>6. PanicsForUnseenOnly'
  BY <1>2 DEF UnseenInv, PanicsForUnseenOnly
<1> QED BY <1>4, <1>5, <1>6 DEF UnseenInv

LEMMA BreakStep ==
  ASSUME UnseenInv, BreakWatch
  PROVE  UnseenInv'
<1>1. /\ watching' = FALSE /\ breaks' \in 0..MaxBreaks
      /\ UNCHANGED <<history, told, queue, busy, store, handled, failed, running,
                     failures, overlooked>>
      /\ unseen' = unseen \cup {p \in Objects : Unseen(p)'}
  BY ControllerAssumption DEF BreakWatch, UnseenInv, TypeOK, ControllerAssumption
<1>2. TypeOK'
  BY <1>1 DEF UnseenInv, TypeOK
<1>3. ASSUME NEW p \in Objects PROVE Recorded(p)'
  <2>1. Unseen(p)' => p \in unseen'
    BY <1>1
  <2>2. Queued(p, queue[p], history[p])'
    BY <1>1 DEF UnseenInv, Recorded, Queued
  <2> QED BY <1>1, <2>1, <2>2 DEF UnseenInv, Recorded
<1>4. PanicsForUnseenOnly'
  BY <1>1 DEF UnseenInv, PanicsForUnseenOnly
<1> QED BY <1>2, <1>3, <1>4 DEF UnseenInv

LEMMA WatchEventStep ==
  ASSUME UnseenInv, NEW o \in Objects, WatchEvent(o)
  PROVE  UnseenInv'
<1>0. TypeOK /\ \A p \in Objects : Recorded(p)
  BY DEF UnseenInv
<1> DEFINE h == history[o]
           i == told[o] + 1
           q == IF State(o, i) = Absent THEN PutDeletion(o, i, FALSE) ELSE Put(o, i)
<1>1. /\ watching /\ told[o] < Len(h) /\ told' = [told EXCEPT ![o] = i]
      /\ queue' = [queue EXCEPT ![o] = q] /\ overlooked' = overlooked \ {o}
      /\ UNCHANGED <<history, watching, busy, store, handled, failed, running,
                     breaks, failures, unseen>>
  <2>1. told'[o] = i /\ told' = [told EXCEPT ![o] = i]
    BY <1>0 DEF WatchEvent, TypeOK
  <2> QED BY <2>1 DEF WatchEvent, Latest
<1>2. i \in 1..Len(h) /\ Len(h) \in Nat /\ State(o, i) = At(h, i)
  BY <1>0, <1>1 DEF TypeOK, State, At
<1>3. Queued(o, q, h) /\ Same(h, End(q, store[o]), i)
  <2>1. CASE State(o, i) = Absent
    <3>1. Queued(o, PutDeletion(o, i, FALSE), h)
          /\ At(h, End(PutDeletion(o, i, FALSE), store[o])) = Absent
      BY <1>0, <1>2, <2>1, DeletionQueued
    <3> QED BY <1>2, <2>1, <3>1 DEF Same
  <2>2. CASE State(o, i) # Absent
    <3> DEFINE d == [at |-> i, unknown |-> FALSE]
    <3>1. d \in Delta /\ d.at = i /\ ~d.unknown /\ Put(o, i) = Append(queue[o], d)
      BY <1>2 DEF Delta, Put
    <3>2. Queued(o, Put(o, i), h) /\ End(Put(o, i), store[o]) = i
      <4> HIDE DEF d, i
      <4> QED BY <1>0, <1>2, <3>1, QueueGrows
    <3> QED BY <2>2, <3>2 DEF Same
  <2> QED BY <2>1, <2>2
<1>4. /\ queue' \in [Objects -> Seq(Delta)] /\ queue'[o] = q /\ told'[o] = i
      /\ told' \in [Objects -> Nat]
      /\ \A p \in Objects \ {o} : queue'[p] = queue[p] /\ told'[p] = told[p]
  <2>1. q \in Seq(Delta)
    BY <1>3 DEF Queued
  <2>2. queue \in [Objects -> Seq(Delta)] /\ told \in [Objects -> Nat] /\ i \in Nat
    BY <1>0 DEF TypeOK
  <2> HIDE DEF q, i
  <2> QED BY <1>1, <2>1, <2>2
<1>5. TypeOK'
  BY <1>0, <1>1, <1>4 DEF TypeOK
<1>6. ASSUME NEW p \in Objects PROVE Recorded(p)'
  <2>1. CASE p = o
    <3>1. Queued(o, queue[o], history[o])'
      BY <1>1, <1>3, <1>4 DEF Queued
    <3>2. store[o] <= Len(h) /\ i <= Len(h)
      BY <1>0, <1>2 DEF Recorded
    <3> HIDE DEF q, i
    <3> QED BY <1>1, <1>3, <1>4, <2>1, <3>1, <3>2 DEF Recorded, Unseen
  <2>2. CASE p # o
    <3>1. queue'[p] = queue[p] /\ told'[p] = told[p]
      BY <1>4, <2>2
    <3>2. Queued(p, queue[p], history[p])'
      BY <1>0, <1>1, <3>1 DEF Recorded, Queued
    <3> QED BY <1>0, <1>1, <2>2, <3>1, <3>2 DEF Recorded, Unseen
  <2> QED BY <2>1, <2>2
<1>7. PanicsForUnseenOnly'
  BY <1>1 DEF UnseenInv, PanicsForUnseenOnly
<1> QED BY <1>5, <1>6, <1>7 DEF UnseenInv

(* The list leads every queue to the latest state, or overlooks the object. *)
LEMMA ListLeads ==
  ASSUME TypeOK, NEW o \in Objects, Recorded(o), ~watching
  PROVE  /\ Queued(o, List(o), history[o])
         /\ ~Overlooks(o) =>
              Same(history[o], End(List(o), store[o]), Len(history[o]))
<1> DEFINE h == history[o]
<1>1. /\ Len(h) \in Nat /\ End(queue[o], store[o]) \in 0..Len(h)
      /\ Known(o) = At(h, End(queue[o], store[o]))
      /\ Doomed(o) <=> queue[o] # <<>> /\ Known(o) = Absent
      /\ Latest(o) = Len(h) /\ State(o, Latest(o)) = At(h, Len(h))
      /\ Queued(o, queue[o], h)
  BY EndPlaced DEF Latest, State, At, Recorded
<1>2. CASE At(h, Len(h)) # Absent
  <2>1. CASE Doomed(o)
    BY <1>1, <1>2, <2>1 DEF List, Overlooks
  <2>2. CASE ~Doomed(o)
    <3> DEFINE d == [at |-> Len(h), unknown |-> FALSE]
    <3>1. Len(h) # 0
      BY <1>2 DEF At
    <3>2. d \in Delta /\ d.at = Len(h) /\ ~d.unknown /\ List(o) = Append(queue[o], d)
      BY <1>1, <1>2, <2>2 DEF Delta, List, Put
    <3>3. Queued(o, List(o), h) /\ End(List(o), store[o]) = Len(h)
      <4> HIDE DEF d
      <4>1. d.at \in 1..Len(h)
        BY <1>1, <3>1, <3>2
      <4> QED BY <3>2, <4>1, QueueGrows
    <3> QED BY <3>3 DEF Same
  <2> QED BY <2>1, <2>2
<1>3. CASE At(h, Len(h)) = Absent /\ State(o, store[o]) # Absent
  <2>1. List(o) = PutDeletion(o, Len(h), TRUE)
    BY <1>1, <1>3 DEF List
  <2>2. Known(o) # Absent => o \in unseen
    BY <1>1, <1>3 DEF Recorded, Unseen
  <2>3. Len(h) # 0
    <3>1. store[o] \in Nat /\ store[o] <= Len(h) /\ store[o] # 0
      BY <1>3 DEF TypeOK, Recorded, State
    <3> QED BY <1>1, <3>1
  <2>4. /\ Queued(o, List(o), h)
        /\ At(h, End(List(o), store[o])) = Absent
    <3>1. Len(h) \in 1..Len(h) /\ TRUE \in BOOLEAN
      BY <1>1, <2>3
    <3> QED BY <1>3, <2>1, <2>2, <3>1, DeletionQueued
  <2> QED BY <1>3, <2>4 DEF Same
<1>4. CASE At(h, Len(h)) = Absent /\ State(o, store[o]) = Absent
  <2>1. List(o) = queue[o]
    BY <1>1, <1>4 DEF List
  <2>2. ~Overlooks(o) => Known(o) = Absent
    BY <1>1, <1>4 DEF Overlooks, Known
  <2> QED BY <1>1, <1>4, <2>1, <2>2 DEF Same
<1> QED BY <1>2, <1>3, <1>4

LEMMA ListStep ==
  ASSUME UnseenInv, ListAndWatch
  PROVE  UnseenInv'
<1>0. TypeOK /\ \A p \in Objects : Recorded(p)
  BY DEF UnseenInv
<1>1. /\ ~watching /\ watching' = TRUE
      /\ queue' = [o \in Objects |-> List(o)] /\ told' = [o \in Objects |-> Latest(o)]
      /\ overlooked' = {o \in Objects : Overlooks(o)}
      /\ UNCHANGED <<history, busy, store, handled, failed, running, breaks,
                     failures, unseen>>
  BY DEF ListAndWatch
<1>2. ASSUME NEW o \in Objects
      PROVE  queue'[o] \in Seq(Delta) /\ told'[o] \in Nat /\ Recorded(o)'
  <2>1. /\ Queued(o, List(o), history[o])
        /\ ~Overlooks(o) => Same(history[o], End(List(o), store[o]), Len(history[o]))
    BY <1>0, <1>1, ListLeads
  <2>2. /\ queue'[o] = List(o) /\ told'[o] = Len(history[o])
        /\ o \notin overlooked' => ~Overlooks(o)
    BY <1>1 DEF Latest
  <2>3. Queued(o, queue[o], history[o])'
    BY <1>1, <2>1, <2>2 DEF Queued
  <2>4. Len(history[o]) \in Nat /\ List(o) \in Seq(Delta)
    BY <1>0, <2>1 DEF TypeOK, Queued
  <2>5. store[o] <= Len(history[o]) /\ Len(history[o]) <= Len(history[o])
    BY <1>0, <2>4 DEF Recorded
  <2> QED BY <1>1, <2>1, <2>2, <2>3, <2>4, <2>5 DEF Recorded, Unseen
<1>3. TypeOK'
  BY <1>0, <1>1, <1>2 DEF TypeOK
<1> QED BY <1>1, <1>2, <1>3 DEF UnseenInv, PanicsForUnseenOnly

(* The three functions. *)
LEMMA FuncStep ==
  ASSUME UnseenInv, NEW o \in Objects, addFunc(o) \/ updateFunc(o) \/ deleteFunc(o)
  PROVE  UnseenInv'
<1>0. TypeOK /\ \A p \in Objects : Recorded(p)
  BY DEF UnseenInv
<1>1. /\ queue[o] # <<>> /\ queue' = [queue EXCEPT ![o] = Tail(queue[o])]
      /\ store' = [store EXCEPT ![o] = Head(queue[o]).at]
      /\ busy' \subseteq Objects
      /\ UNCHANGED <<history, watching, told, breaks, unseen, overlooked>>
  BY DEF addFunc, updateFunc, deleteFunc, Pop, libVars
<1>2. queue[o] \in Seq(Delta) /\ store[o] \in Nat /\ Len(history[o]) \in Nat
  BY <1>0 DEF TypeOK
<1>3. /\ Head(queue[o]) = queue[o][1] /\ Head(queue[o]) \in Delta
      /\ 1 \in 1..Len(queue[o]) /\ Tail(queue[o]) \in Seq(Delta)
      /\ End(Tail(queue[o]), Head(queue[o]).at) = End(queue[o], store[o])
      /\ \A i \in 1..Len(Tail(queue[o])) :
           i + 1 \in 1..Len(queue[o]) /\ Tail(queue[o])[i] = queue[o][i + 1]
  BY <1>1, <1>2, PopEnd
<1>4. /\ queue'[o] = Tail(queue[o]) /\ store'[o] = Head(queue[o]).at
      /\ \A p \in Objects \ {o} : queue'[p] = queue[p] /\ store'[p] = store[p]
      /\ queue' \in [Objects -> Seq(Delta)] /\ store' \in [Objects -> Nat]
  BY <1>0, <1>1, <1>3 DEF TypeOK, Delta
<1>5. \/ Handle(o)
      \/ /\ Head(queue[o]).unknown /\ running' = FALSE
         /\ UNCHANGED <<handled, failed, failures>>
  BY DEF addFunc, updateFunc, deleteFunc
<1>6. TypeOK'
  <2>1. CASE Handle(o)
    <3>1. failures' \in 0..MaxFailures
      BY <1>0, <2>1, ControllerAssumption DEF Handle, TypeOK, ControllerAssumption
    <3>2. /\ handled' \in [Objects -> Nat] /\ failed' \subseteq Objects
          /\ running' = running
      BY <1>0, <1>4, <2>1 DEF Handle, TypeOK
    <3> QED BY <1>0, <1>1, <1>4, <3>1, <3>2 DEF TypeOK
  <2>2. CASE running' = FALSE /\ UNCHANGED <<handled, failed, failures>>
    BY <1>0, <1>1, <1>4, <2>2 DEF TypeOK
  <2> QED BY <1>5, <2>1, <2>2
<1>7. ASSUME NEW p \in Objects PROVE Recorded(p)'
  <2>1. CASE p # o
    <3>1. queue'[p] = queue[p] /\ store'[p] = store[p]
      BY <1>4, <2>1
    <3>2. Queued(p, queue[p], history[p])'
      BY <1>0, <1>1, <3>1 DEF Recorded, Queued
    <3>3. Unseen(p)' <=> Unseen(p)
      BY <1>1, <3>1 DEF Unseen, Known, Newest, State, Latest
    <3> QED BY <1>0, <1>1, <3>1, <3>2, <3>3 DEF Recorded
  <2>2. CASE p = o
    <3>1. \A i \in 1..Len(queue[o]) : /\ queue[o][i].at \in 1..Len(history[o])
                                      /\ queue[o][i].unknown => o \in unseen
      BY <1>0 DEF Recorded, Queued
    <3>2. Queued(o, queue[o], history[o])'
      BY <1>1, <1>3, <1>4, <3>1 DEF Queued
    <3>3. store'[o] \in 1..Len(history[o])
      BY <1>3, <1>4, <3>1
    <3>4. End(queue'[o], store'[o]) = End(queue[o], store[o])
      BY <1>3, <1>4
    <3>5. Known(o)' = At(history[o], End(queue'[o], store'[o]))
      BY <1>1 DEF Known, Newest, End, State, At
    <3>6. Known(o) = At(history[o], End(queue[o], store[o]))
      BY <1>0, EndPlaced
    <3>7. Unseen(o)' <=> Unseen(o)
      BY <1>1, <3>4, <3>5, <3>6 DEF Unseen, State, Latest
    <3>8. store'[o] <= Len(history[o]) /\ told[o] <= Len(history[o])
      BY <1>0, <1>2, <3>3 DEF Recorded
    <3> QED BY <1>0, <1>1, <2>2, <3>2, <3>4, <3>7, <3>8 DEF Recorded
  <2> QED BY <2>1, <2>2
<1>8. PanicsForUnseenOnly'
  <2>1. CASE Handle(o)
    BY <1>1, <2>1 DEF Handle, UnseenInv, PanicsForUnseenOnly
  <2>2. CASE Head(queue[o]).unknown
    BY <1>0, <1>1, <1>3, <2>2 DEF Recorded, Queued, PanicsForUnseenOnly
  <2> QED BY <1>5, <2>1, <2>2
<1> QED BY <1>6, <1>7, <1>8 DEF UnseenInv

LEMMA UnseenInvHolds == Spec => []UnseenInv
<1>1. Init => UnseenInv
  <2> SUFFICES ASSUME Init PROVE UnseenInv
    OBVIOUS
  <2>1. \A v \in States : <<v>> \in Seq(States)
    OBVIOUS
  <2>2. TypeOK
    <3>1. history \in [Objects -> Seq(States)]
      BY <2>1 DEF Init
    <3>2. 0 \in 0..MaxBreaks /\ 0 \in 0..MaxFailures
      BY ControllerAssumption DEF ControllerAssumption
    <3>3. /\ queue \in [Objects -> Seq(Delta)]
          /\ store \in [Objects -> Nat] /\ handled \in [Objects -> Nat]
      BY DEF Init
    <3>4. /\ busy \subseteq Objects /\ failed \subseteq Objects
          /\ unseen \subseteq Objects /\ overlooked \subseteq Objects
          /\ told \in [Objects -> Nat]
      BY DEF Init
    <3>5. watching \in BOOLEAN /\ running \in BOOLEAN
      BY DEF Init
    <3>6. breaks \in 0..MaxBreaks /\ failures \in 0..MaxFailures
      BY <3>2 DEF Init
    <3> QED BY <3>1, <3>3, <3>4, <3>5, <3>6 DEF TypeOK
  <2>3. \A o \in Objects : /\ Len(history[o]) = 1 /\ queue[o] = <<>>
                          /\ store[o] = 0 /\ told[o] = 0
    BY DEF Init
  <2>4. ASSUME NEW o \in Objects PROVE Recorded(o)
    <3>1. Queued(o, <<>>, history[o])
      BY DEF Queued
    <3>2. Known(o) = Absent
      BY <2>3 DEF Known, State
    <3> QED BY <2>3, <3>1, <3>2 DEF Init, Recorded, Unseen
  <2> QED BY <2>2, <2>4 DEF Init, UnseenInv, PanicsForUnseenOnly
<1>2. UnseenInv /\ [Next]_vars => UnseenInv'
  <2> SUFFICES ASSUME UnseenInv, [Next]_vars PROVE UnseenInv'
    OBVIOUS
  <2>1. CASE UNCHANGED vars
    <3>1. TypeOK' /\ PanicsForUnseenOnly'
      BY <2>1 DEF vars, libVars, UnseenInv, TypeOK, PanicsForUnseenOnly
    <3>2. ASSUME NEW o \in Objects PROVE Recorded(o)'
      BY <2>1 DEF vars, libVars, UnseenInv, Recorded, Queued, Unseen, Known, Newest,
         State, Latest
    <3> QED BY <3>1, <3>2 DEF UnseenInv
  <2> QED BY <2>1, ChangeStep, BreakStep, WatchEventStep, ListStep, FuncStep
          DEF Next, Informer
<1> QED BY <1>1, <1>2, PTL DEF Spec

(* A controller keeps its types.                                           *)
THEOREM ControllerTypeCorrect == Spec => []TypeOK
<1>1. UnseenInv => TypeOK
  BY DEF UnseenInv
<1> QED BY <1>1, UnseenInvHolds, PTL

(* A controller ends the process only after an object it had heard of was  *)
(* gone while its watch was broken (handler.go:40, 63, 85).                *)
THEOREM PanicExplained == Spec => []PanicsForUnseenOnly
<1>1. UnseenInv => PanicsForUnseenOnly
  BY DEF UnseenInv
<1> QED BY <1>1, UnseenInvHolds, PTL

-----------------------------------------------------------------------------
(* The resolver is where the store is, unless its last handler failed. *)
HandledInv == running => \A o \in Objects \ failed : handled[o] = store[o]

LEMMA HandledStep == TypeOK /\ HandledInv /\ [Next]_vars => HandledInv'
<1> SUFFICES ASSUME TypeOK, HandledInv, [Next]_vars PROVE HandledInv'
  OBVIOUS
<1>1. CASE UNCHANGED <<store, handled, failed, running>>
  BY <1>1 DEF HandledInv
<1>2. ASSUME NEW o \in Objects, addFunc(o) \/ updateFunc(o) \/ deleteFunc(o), running
      PROVE  HandledInv'
  <2>1. /\ \A p \in Objects \ {o} : store'[p] = store[p]
        /\ \/ Handle(o)
           \/ running' = FALSE
    BY <1>2 DEF addFunc, updateFunc, deleteFunc, Pop, TypeOK
  <2>2. CASE Handle(o)
    <3>1. CASE /\ handled' = [handled EXCEPT ![o] = store'[o]]
               /\ failed' = failed \ {o}
      BY <1>2, <2>1, <3>1 DEF HandledInv, TypeOK
    <3>2. CASE failed' = failed \cup {o} /\ UNCHANGED handled
      BY <1>2, <2>1, <3>2 DEF HandledInv, TypeOK
    <3> QED BY <2>2, <3>1, <3>2 DEF Handle
  <2> QED BY <2>1, <2>2 DEF HandledInv
<1>3. CASE \/ ListAndWatch \/ BreakWatch \/ UNCHANGED vars
           \/ \E o \in Objects : Change(o) \/ WatchEvent(o)
  BY <1>1, <1>3 DEF ListAndWatch, BreakWatch, Change, WatchEvent, vars
<1> QED BY <1>2, <1>3 DEF Next, Informer

(* While a watch is open, has told everything and nothing is queued for an *)
(* object, the resolver has dealt with its last state, unless its last     *)
(* handler failed or its last list was left out, however often the watch   *)
(* broke before (handler.go:25).                                           *)
THEOREM NothingLost == Spec => []NothingForgotten
<1>1. Init => HandledInv
  BY DEF Init, HandledInv
<1>2. UnseenInv /\ HandledInv => NothingForgotten
  <2> SUFFICES ASSUME UnseenInv, HandledInv, running, watching,
                      NEW o \in Objects \ (failed \cup overlooked),
                      told[o] = Latest(o), queue[o] = <<>>
               PROVE  DealtWith(o)
    BY DEF NothingForgotten
  <2>1. handled[o] = store[o]
    BY DEF HandledInv
  <2>2. Same(history[o], store[o], told[o])
    BY DEF UnseenInv, Recorded, End
  <2> QED BY <2>1, <2>2 DEF Same, At, DealtWith, State, Latest
<1>3. UnseenInv => TypeOK
  BY DEF UnseenInv
<1> QED BY <1>1, <1>2, <1>3, HandledStep, UnseenInvHolds, PTL DEF Spec

=============================================================================
