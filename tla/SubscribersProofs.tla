------------------------- MODULE SubscribersProofs --------------------------
(***************************************************************************)
(* Theorems about Subscribers, for every set of goroutines and every bound. *)
(***************************************************************************)
EXTENDS Subscribers, TLAPS

\* What is known of an ID before its subscriber is registered.
Fresh(id) ==
    /\ heard[id] = <<>>
    /\ id \notin subs /\ id \notin fns
    /\ until[id] = Never

\* The last snapshot that a subscriber has heard of, or need not hear of.
LastHeard(id) == since[id] + Len(heard[id])

Types ==
    /\ next \in 0..MaxSubs
    /\ subs \subseteq IDs
    /\ op \in [Threads -> [kind : {"none", "insert", "delete"}, id : 0..MaxSubs]]
    /\ snap \in 0..MaxSnaps
    /\ pc \in {"idle", "stored", "copying", "calling"}
    /\ fns \subseteq IDs
    /\ heard \in [IDs -> Seq(Nat)]
    /\ since \in [IDs -> Nat]
    /\ until \in [IDs -> Nat]

\* run holds the lock while it copies, and has something to notify of unless idle.
RunInv ==
    /\ pc = "copying" => reading
    /\ pc # "idle" => snap >= 1
    /\ fns # {} => pc = "calling"

Inserts(t, id) == op[t].kind = "insert" /\ op[t].id = id

\* An ID that nobody has taken yet, or that waits for the lock, is fresh, and
\* waits on one goroutine only.
FreshInv ==
    /\ \A id \in IDs : id > next => Fresh(id)
    /\ \A t \in Threads : op[t].kind = "insert" => op[t].id \in IDs
    /\ \A t \in Threads, id \in IDs :
        Inserts(t, id) => id <= next /\ Fresh(id) /\ \A u \in Threads : Inserts(u, id) => u = t

\* How far a subscriber has come at each point of storeAndNotify.
Progress(id) ==
    /\ \A i \in 1..Len(heard[id]) : heard[id][i] = since[id] + i
    /\ LastHeard(id) <= until[id]
    /\ id \in subs =>
        /\ until[id] = Never
        /\ LastHeard(id) = IF pc = "idle" \/ (pc = "calling" /\ id \notin fns)
                           THEN snap ELSE snap - 1
    /\ id \in fns => LastHeard(id) = snap - 1 /\ until[id] >= snap

HeardInv == \A id \in IDs : Progress(id)

IInv == Types /\ RunInv /\ FreshInv /\ HeardInv

-----------------------------------------------------------------------------
LEMMA InitIInv == Init => IInv
  BY SubscribersAssumption DEF Init, IInv, Types, RunInv, FreshInv, HeardInv, Progress, Fresh, Inserts, LastHeard,
     Never, IDs, Idle, Threads

\* What a call that a goroutine can make does to the numbers and to the IDs
\* that wait, when fresh IDs stay fresh.
LEMMA TakesFreshID ==
  ASSUME IInv, NEW t \in Threads, NEW call \in Calls \cup {Idle},
         op' = [op EXCEPT ![t] = call], next' = Numbered(call),
         \A id \in IDs : Fresh(id) => Fresh(id)'
  PROVE  /\ next' \in 0..MaxSubs
         /\ op' \in [Threads -> [kind : {"none", "insert", "delete"}, id : 0..MaxSubs]]
         /\ FreshInv'
<1> USE SubscribersAssumption
<1>1. /\ call \in [kind : {"none", "insert", "delete"}, id : 0..MaxSubs]
      /\ call.kind = "insert" => call.id = next + 1 /\ call.id \in IDs
  BY DEF Calls, Returned, Idle, IInv, Types, IDs
<1>2. next' \in 0..MaxSubs /\ next' >= next
  BY <1>1 DEF Numbered, IInv, Types, IDs
<1>3. op' \in [Threads -> [kind : {"none", "insert", "delete"}, id : 0..MaxSubs]]
  BY <1>1 DEF IInv, Types
<1>4. \A id \in IDs : id > next' => Fresh(id)'
  BY <1>2 DEF IInv, Types, FreshInv, IDs
<1>5. op'[t] = call /\ \A v \in Threads : v # t => op'[v] = op[v]
  BY DEF IInv, Types
<1>6. \A u \in Threads : op'[u].kind = "insert" => op'[u].id \in IDs
  BY <1>1, <1>5 DEF IInv, FreshInv
<1>7. ASSUME NEW u \in Threads, NEW id \in IDs, Inserts(u, id)'
      PROVE  id <= next' /\ Fresh(id)' /\ \A v \in Threads : Inserts(v, id)' => v = u
  <2>1. next \in Nat /\ id \in Nat
    BY DEF IInv, Types, IDs
  <2>2. CASE u = t
    <3>1. id = next + 1 /\ next' = next + 1
      BY <1>1, <1>5, <1>7, <2>2 DEF Inserts, Numbered
    <3>2. Fresh(id)
      BY <3>1, <2>1 DEF IInv, FreshInv
    <3>3. \A v \in Threads : ~Inserts(v, id)
      BY <3>1, <2>1 DEF IInv, FreshInv
    <3>4. \A v \in Threads : v # t => ~Inserts(v, id)'
      BY <3>3, <1>5 DEF Inserts
    <3>. QED BY <3>1, <3>2, <3>4, <2>1, <2>2
  <2>3. CASE u # t
    <3>1. Inserts(u, id)
      BY <1>5, <1>7, <2>3 DEF Inserts
    <3>2. id <= next /\ Fresh(id) /\ \A v \in Threads : Inserts(v, id) => v = u
      BY <3>1 DEF IInv, FreshInv
    <3>3. ~Inserts(t, id)'
      BY <1>1, <1>5, <2>1, <3>2 DEF Inserts
    <3>4. \A v \in Threads : Inserts(v, id)' => v = u
      BY <3>2, <3>3, <1>5 DEF Inserts
    <3>. QED BY <3>2, <3>4, <1>2, <2>1
  <2>. QED BY <2>2, <2>3
<1>. QED BY <1>2, <1>3, <1>4, <1>6, <1>7 DEF FreshInv

LEMMA BeginIInv ==
  ASSUME IInv, NEW t \in Threads, NEW call \in Calls, Begin(t, call)
  PROVE  IInv'
<1>1. \A id \in IDs : Fresh(id) => Fresh(id)'
  BY DEF Begin, Fresh, run, Never
<1>2. next' \in 0..MaxSubs /\ op' \in [Threads -> [kind : {"none", "insert", "delete"}, id : 0..MaxSubs]] /\ FreshInv'
  BY <1>1, TakesFreshID DEF Begin
<1>. QED BY <1>2 DEF Begin, run, IInv, Types, RunInv, HeardInv, Progress, LastHeard, Never

\* Whoever leaves the lock is idle again and the other goroutines wait as before.
LEMMA InsertIInv ==
  ASSUME IInv, NEW t \in Threads, Insert(t)
  PROVE  IInv'
<1> USE SubscribersAssumption
<1> DEFINE id == op[t].id
<1>1. id \in IDs /\ id <= next /\ Fresh(id)
  BY DEF Insert, IInv, FreshInv, Inserts
<1>2. Types'
  BY <1>1 DEF Insert, IInv, Types, RunInv, run, Idle
<1>3. RunInv'
  BY DEF Insert, IInv, RunInv, run
<1>4. op'[t].kind # "insert" /\ \A v \in Threads : v # t => op'[v] = op[v]
  BY DEF Insert, IInv, Types, Idle
<1>5. \A x \in IDs : x # id /\ Fresh(x) => Fresh(x)'
  BY <1>1 DEF Insert, Fresh, run, Never
<1>6. FreshInv'
  <2>1. \A x \in IDs : x > next' => Fresh(x)'
    BY <1>1, <1>5 DEF Insert, IInv, FreshInv, Types, IDs
  <2>2. \A v \in Threads : v # t => ~Inserts(v, id)
    BY <1>1 DEF IInv, FreshInv, Insert, Inserts
  <2>3. ~Inserts(t, id)' /\ \A v \in Threads, x \in IDs : Inserts(v, x)' => v # t /\ Inserts(v, x) /\ x # id
    BY <2>2, <1>4 DEF Inserts
  <2>4. next' = next
    BY DEF Insert
  <2>5. \A v \in Threads : op'[v].kind = "insert" => op'[v].id \in IDs
    BY <1>4 DEF IInv, FreshInv
  <2>. QED BY <2>1, <2>3, <2>4, <2>5, <1>5 DEF IInv, FreshInv
<1>7. HeardInv'
  <2> SUFFICES ASSUME NEW x \in IDs PROVE Progress(x)'
    BY DEF HeardInv
  <2>1. CASE x = id
    <3>1. since'[x] = (IF pc = "stored" THEN snap - 1 ELSE snap) /\ x \notin fns' /\ heard'[x] = <<>>
      BY <1>1, <2>1 DEF Insert, run, Fresh, IInv, Types
    <3>2. until'[x] = Never /\ pc' = pc /\ pc # "copying" /\ snap' = snap
      BY <1>1, <2>1 DEF Insert, run, Fresh, IInv, RunInv
    <3>. QED BY <3>1, <3>2 DEF Progress, LastHeard, Never, IInv, Types, RunInv
  <2>2. CASE x # id
    BY <2>2, <1>1 DEF IInv, HeardInv, Progress, LastHeard, Insert, run, Types, Never
  <2>. QED BY <2>1, <2>2
<1>. QED BY <1>2, <1>3, <1>6, <1>7 DEF IInv

LEMMA DeleteIInv ==
  ASSUME IInv, NEW t \in Threads, Delete(t)
  PROVE  IInv'
<1> USE SubscribersAssumption
<1> DEFINE id == op[t].id
<1>1. Types'
  <2>1. until' \in [IDs -> Nat]
    <3>1. until' = [until EXCEPT ![id] = IF id \in subs THEN snap ELSE until[id]]
      BY DEF Delete
    <3>2. until \in [IDs -> Nat] /\ snap \in Nat /\ subs \subseteq IDs
      BY DEF IInv, Types
    <3>. HIDE DEF id
    <3>3. CASE id \in subs
      BY <3>1, <3>2, <3>3
    <3>4. CASE id \notin subs
      BY <3>1, <3>2, <3>4
    <3>. QED BY <3>3, <3>4
  <2>2. op' \in [Threads -> [kind : {"none", "insert", "delete"}, id : 0..MaxSubs]]
    BY DEF Delete, IInv, Types, Idle
  <2>. QED BY <2>1, <2>2 DEF Delete, IInv, Types, run
<1>2. RunInv'
  BY DEF Delete, IInv, RunInv, run
<1>3. op'[t].kind # "insert" /\ \A v \in Threads : v # t => op'[v] = op[v]
  BY DEF Delete, IInv, Types, Idle
<1>4. \A x \in IDs : Fresh(x) => Fresh(x)'
  BY DEF Delete, Fresh, run, Never, IInv, Types
<1>5. FreshInv'
  <2>1. \A v \in Threads, x \in IDs : Inserts(v, x)' => Inserts(v, x)
    BY <1>3 DEF Inserts
  <2>2. \A v \in Threads : op'[v].kind = "insert" => op'[v].id \in IDs
    BY <1>3 DEF IInv, FreshInv
  <2>3. next' = next
    BY DEF Delete
  <2>. QED BY <2>1, <2>2, <2>3, <1>4 DEF IInv, FreshInv
<1>6. HeardInv'
  <2> SUFFICES ASSUME NEW x \in IDs PROVE Progress(x)'
    BY DEF HeardInv
  <2>1. Progress(x)
    BY DEF IInv, HeardInv
  <2>2. CASE x = id /\ x \in subs
    <3>1. until'[x] = snap /\ x \notin subs'
      BY <2>2 DEF Delete, IInv, Types
    <3>. QED BY <3>1, <2>1, <2>2 DEF Progress, LastHeard, Delete, run, IInv, Types
  <2>3. CASE ~(x = id /\ x \in subs)
    <3>1. until'[x] = until[x] /\ (x \in subs' <=> x \in subs)
      BY <2>3 DEF Delete, IInv, Types
    <3>. QED BY <3>1, <2>1 DEF Progress, LastHeard, Delete, run, Never
  <2>. QED BY <2>2, <2>3
<1>. QED BY <1>1, <1>2, <1>5, <1>6 DEF IInv

LEMMA CallIInv ==
  ASSUME IInv, NEW id \in IDs, NEW call \in Calls \cup {Idle}, Call(id, call)
  PROVE  IInv'
<1> USE SubscribersAssumption
<1>1. id \in fns /\ Progress(id)
  BY DEF Call, IInv, HeardInv
<1>2. heard' = [heard EXCEPT ![id] = Append(heard[id], snap)] /\ fns' = fns \ {id}
  BY DEF Call
<1>3. \A x \in IDs : Fresh(x) => Fresh(x)'
  BY <1>1, <1>2 DEF Fresh, Call, Never, IInv, Types
<1>4. next' \in 0..MaxSubs /\ op' \in [Threads -> [kind : {"none", "insert", "delete"}, id : 0..MaxSubs]] /\ FreshInv'
  BY <1>3, TakesFreshID DEF Call, Threads
<1>5. Types'
  BY <1>2, <1>4 DEF Call, IInv, Types
<1>6. RunInv'
  BY DEF Call, IInv, RunInv
<1>7. HeardInv'
  <2> SUFFICES ASSUME NEW x \in IDs PROVE Progress(x)'
    BY DEF HeardInv
  <2>1. CASE x = id
    <3>1. /\ heard[x] \in Seq(Nat) /\ heard'[x] = Append(heard[x], snap)
          /\ snap \in Nat /\ since[x] \in Nat /\ until[x] \in Nat
      BY <1>2, <2>1 DEF IInv, Types
    <3>2. Len(heard'[x]) = Len(heard[x]) + 1 /\ heard'[x][Len(heard[x]) + 1] = snap
          /\ Len(heard[x]) \in Nat /\ \A i \in 1..Len(heard[x]) : heard'[x][i] = heard[x][i]
      BY <3>1
    <3>3. since' = since /\ until' = until /\ snap' = snap /\ subs' = subs /\ pc' = "calling" /\ x \notin fns'
      BY <1>2, <2>1 DEF Call
    <3>4. LastHeard(x)' = snap /\ snap <= until[x]
      <4>1. since[x] + Len(heard[x]) = snap - 1 /\ until[x] >= snap
        BY <1>1, <2>1 DEF Progress, LastHeard
      <4>2. LastHeard(x)' = since[x] + Len(heard'[x])
        BY <3>3 DEF LastHeard
      <4>. QED BY <4>1, <4>2, <3>1, <3>2
    <3>5. \A i \in 1..Len(heard'[x]) : heard'[x][i] = since[x] + i
      <4>1. \A i \in 1..Len(heard[x]) : heard[x][i] = since[x] + i
        BY <1>1, <2>1 DEF Progress
      <4>2. since[x] + Len(heard[x]) + 1 = snap
        BY <1>1, <2>1, <3>1, <3>2 DEF Progress, LastHeard
      <4>3. Len(heard'[x]) = Len(heard[x]) + 1 /\ Len(heard[x]) \in Nat
        BY <3>2
      <4>4. \A i \in 1..Len(heard'[x]) : i \in 1..Len(heard[x]) \/ i = Len(heard[x]) + 1
        BY <4>3
      <4>5. heard'[x][Len(heard[x]) + 1] = since[x] + (Len(heard[x]) + 1)
        BY <4>2, <3>1, <3>2
      <4>. QED BY <4>1, <4>4, <4>5, <3>2
    <3>. QED BY <3>3, <3>4, <3>5, <1>1, <2>1 DEF Progress, Never
  <2>2. CASE x # id
    BY <2>2, <1>2 DEF IInv, HeardInv, Progress, LastHeard, Call, Types, Never
  <2>. QED BY <2>1, <2>2
<1>. QED BY <1>4, <1>5, <1>6, <1>7 DEF IInv

LEMMA StepIInv == IInv /\ [Next]_subscribersVars => IInv'
<1> SUFFICES ASSUME IInv, [Next]_subscribersVars PROVE IInv'
  OBVIOUS
<1> USE SubscribersAssumption
<1>1. CASE StoreSnapshot
  <2>1. /\ pc = "idle" /\ pc' = "stored" /\ snap' = snap + 1 /\ snap' \in 1..MaxSnaps
        /\ UNCHANGED <<next, subs, op, fns, heard, since, until>>
    BY <1>1 DEF StoreSnapshot, IInv, Types
  <2>2. Types' /\ FreshInv'
    BY <2>1 DEF IInv, Types, FreshInv, Fresh, Inserts
  <2>3. RunInv'
    BY <2>1 DEF IInv, Types, RunInv
  <2>4. fns = {}
    BY <2>1 DEF IInv, RunInv
  <2>5. ASSUME NEW id \in IDs PROVE Progress(id)'
    <3>1. LastHeard(id)' = LastHeard(id)
      BY <2>1 DEF LastHeard
    <3>2. id \in subs => LastHeard(id) = snap' - 1
      BY <2>1 DEF IInv, Types, HeardInv, Progress
    <3>. QED BY <2>1, <2>4, <3>1, <3>2 DEF IInv, HeardInv, Progress
  <2>. QED BY <2>2, <2>3, <2>5 DEF IInv, HeardInv
<1>2. CASE RLock
  BY <1>2 DEF RLock, IInv, Types, RunInv, FreshInv, HeardInv, Progress, LastHeard, Fresh, Inserts, Never
<1>3. CASE Copy
  BY <1>3 DEF Copy, IInv, Types, RunInv, FreshInv, HeardInv, Progress, LastHeard, Fresh, Inserts, Never
<1>4. CASE CallbackReturns
  BY <1>4 DEF CallbackReturns, IInv, Types, RunInv, FreshInv, HeardInv, Progress, LastHeard, Fresh, Inserts, Never
<1>9. CASE NotifyReturns
  BY <1>9 DEF NotifyReturns, IInv, Types, RunInv, FreshInv, HeardInv, Progress, LastHeard, Fresh, Inserts, Never
<1>5. ASSUME NEW id \in IDs, NEW call \in Calls \cup {Idle}, Call(id, call) PROVE IInv'
  BY <1>5, CallIInv
<1>6. ASSUME NEW t \in Callers, NEW call \in Calls, Begin(t, call) PROVE IInv'
  BY <1>6, BeginIInv DEF Threads
<1>7. ASSUME NEW t \in Threads, Locking(t) PROVE IInv'
  BY <1>7, InsertIInv, DeleteIInv DEF Locking
<1>8. CASE UNCHANGED subscribersVars
  BY <1>8 DEF subscribersVars, run, IInv, Types, RunInv, FreshInv, HeardInv, Progress, LastHeard, Fresh, Inserts, Never
<1>. QED BY <1>1, <1>2, <1>3, <1>4, <1>5, <1>6, <1>7, <1>8, <1>9 DEF Next, Notifying

LEMMA IInvImpliesNoUpdateMissed == IInv => NoUpdateMissed
<1> SUFFICES ASSUME IInv, NEW id \in IDs
             PROVE  /\ \A i \in DOMAIN heard[id] : heard[id][i] = since[id] + i /\ heard[id][i] <= until[id]
                    /\ id \in subs /\ pc = "idle" => Len(heard[id]) = snap - since[id]
  BY DEF NoUpdateMissed
<1>1. heard[id] \in Seq(Nat) /\ since[id] \in Nat /\ until[id] \in Nat /\ snap \in Nat /\ Progress(id)
  BY SubscribersAssumption DEF IInv, Types, HeardInv
<1>2. DOMAIN heard[id] = 1..Len(heard[id]) /\ Len(heard[id]) \in Nat
  BY <1>1
<1>3. since[id] + Len(heard[id]) <= until[id]
  BY <1>1 DEF Progress, LastHeard
<1>4. \A i \in DOMAIN heard[id] : heard[id][i] = since[id] + i
  BY <1>1, <1>2 DEF Progress
<1>5. id \in subs /\ pc = "idle" => since[id] + Len(heard[id]) = snap
  BY <1>1 DEF Progress, LastHeard
<1>. QED BY <1>1, <1>2, <1>3, <1>4, <1>5

\* A subscriber is called with every snapshot of its time, once and in order,
\* however Subscribe, Unsubscribe and Notify interleave on any number of
\* goroutines (subscriber.go:45-66).
THEOREM NothingIsMissed == Spec => []NoUpdateMissed
<1>1. Spec => []IInv
  BY InitIInv, StepIInv, PTL DEF Spec
<1>. QED BY <1>1, IInvImpliesNoUpdateMissed, PTL
=============================================================================
