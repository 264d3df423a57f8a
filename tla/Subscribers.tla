---------------------------- MODULE Subscribers -----------------------------
(***************************************************************************)
(* The subscribers of a service (src/runtime/subscriber.go) and the run    *)
(* goroutine that stores each snapshot and notifies them                   *)
(* (storeAndNotify). Subscribe and Unsubscribe are called by any goroutine *)
(* and by the callbacks themselves. A snapshot is its number.              *)
(***************************************************************************)
EXTENDS Naturals, Sequences

CONSTANTS
    Callers,  \* goroutines other than run
    Run,      \* the run goroutine
    MaxSubs,  \* bound: calls of Subscribe
    MaxSnaps  \* bound: snapshots

ASSUME SubscribersAssumption ==
    /\ Run \notin Callers
    /\ MaxSubs \in Nat /\ MaxSnaps \in Nat

VARIABLES
    next,     \* ss.next
    subs,     \* ss.subs: the IDs registered
    reading,  \* run holds ss.mu for reading
    op,       \* what each goroutine is about to lock ss.mu for
    snap,     \* s.snap
    pc,       \* run: "idle", "stored", "copying" or "calling"
    fns,      \* the subscribers that Notify has still to call
    inCall,   \* the subscriber whose callback runs, 0 for none
    heard,    \* history: the snapshots each subscriber was called with
    since,    \* history: the last snapshot copied for before it was registered
    until     \* history: the last one stored when it was removed

run == <<snap, pc, fns, inCall, heard>>
subscribersVars == <<next, subs, reading, op, run, since, until>>

Threads == Callers \cup {Run}
IDs == 1..MaxSubs
Idle == [kind |-> "none", id |-> 0]
Never == MaxSnaps + 1

Init ==
    /\ next = 0
    /\ subs = {}
    /\ reading = FALSE
    /\ op = [t \in Threads |-> Idle]
    /\ snap = 0
    /\ pc = "idle"
    /\ fns = {}
    /\ inCall = 0
    /\ heard = [id \in IDs |-> <<>>]
    /\ since = [id \in IDs |-> 0]
    /\ until = [id \in IDs |-> Never]

-----------------------------------------------------------------------------
(* Subscribe and Unsubscribe.                                              *)

\* The IDs whose UnsubscribeFn a goroutine can have.
Returned == {id \in 1..next : \A t \in Threads : op[t] # [kind |-> "insert", id |-> id]}

\* What a goroutine may call; it can unsubscribe again what is unsubscribed.
Calls == [kind : {"delete"}, id : Returned] \cup [kind : {"insert"}, id : {next + 1} \cap IDs]

\* Add takes its ID before it has the lock.
Numbered(call) == IF call.kind = "insert" THEN call.id ELSE next

Begin(t, call) ==
    /\ op[t] = Idle
    /\ op' = [op EXCEPT ![t] = call]
    /\ next' = Numbered(call)
    /\ UNCHANGED <<subs, reading, run, since, until>>

\* Lock, insert and Unlock: a snapshot already copied for is not heard of.
Insert(t) ==
    /\ op[t].kind = "insert"
    /\ ~reading
    /\ subs' = subs \cup {op[t].id}
    /\ since' = [since EXCEPT ![op[t].id] = IF pc = "stored" THEN snap - 1 ELSE snap]
    /\ op' = [op EXCEPT ![t] = Idle]
    /\ UNCHANGED <<next, reading, run, until>>

\* The UnsubscribeFn: Lock, delete and Unlock.
Delete(t) ==
    /\ op[t].kind = "delete"
    /\ ~reading
    /\ subs' = subs \ {op[t].id}
    /\ until' = [until EXCEPT ![op[t].id] = IF op[t].id \in subs THEN snap ELSE @]
    /\ op' = [op EXCEPT ![t] = Idle]
    /\ UNCHANGED <<next, reading, run, since>>

-----------------------------------------------------------------------------
(* storeAndNotify, on the run goroutine.                                   *)

\* storeSnapshot.
StoreSnapshot ==
    /\ pc = "idle"
    /\ snap < MaxSnaps
    /\ snap' = snap + 1
    /\ pc' = "stored"
    /\ UNCHANGED <<next, subs, reading, op, fns, inCall, heard, since, until>>

RLock ==
    /\ pc = "stored"
    /\ reading' = TRUE
    /\ pc' = "copying"
    /\ UNCHANGED <<next, subs, op, snap, fns, inCall, heard, since, until>>

\* Mutant: RUnlock is deferred to the end of Notify.
CopyUnderLock ==
    /\ pc = "copying"
    /\ fns' = subs
    /\ pc' = "calling"
    /\ UNCHANGED <<next, subs, reading, op, snap, inCall, heard, since, until>>

\* The copy, and RUnlock.
Copy ==
    /\ pc = "copying"
    /\ fns' = subs
    /\ reading' = FALSE
    /\ pc' = "calling"
    /\ UNCHANGED <<next, subs, op, snap, inCall, heard, since, until>>

\* Mutant: the loop ranges over the map itself.
CallLive(id, call) ==
    /\ pc = "calling" /\ inCall = 0
    /\ id \in subs /\ snap \notin {heard[id][i] : i \in DOMAIN heard[id]}
    /\ fns' = (fns \ {id}) \cap subs
    /\ inCall' = id
    /\ heard' = [heard EXCEPT ![id] = Append(@, snap)]
    /\ op' = [op EXCEPT ![Run] = call]
    /\ next' = Numbered(call)
    /\ UNCHANGED <<subs, reading, snap, pc, since, until>>

\* A callback begins; it makes one call of its own at most. The order is that
\* of a map.
Call(id, call) ==
    /\ pc = "calling" /\ inCall = 0
    /\ id \in fns
    /\ fns' = fns \ {id}
    /\ inCall' = id
    /\ heard' = [heard EXCEPT ![id] = Append(@, snap)]
    /\ op' = [op EXCEPT ![Run] = call]
    /\ next' = Numbered(call)
    /\ UNCHANGED <<subs, reading, snap, pc, since, until>>

CallbackReturns ==
    /\ inCall # 0 /\ op[Run] = Idle
    /\ inCall' = 0
    /\ UNCHANGED <<next, subs, reading, op, snap, pc, fns, heard, since, until>>

NotifyReturns ==
    /\ pc = "calling" /\ inCall = 0
    /\ fns = {}
    /\ pc' = "idle"
    /\ reading' = FALSE
    /\ UNCHANGED <<next, subs, op, snap, fns, inCall, heard, since, until>>

-----------------------------------------------------------------------------
Notifying ==
    \/ RLock \/ Copy
    \/ \E id \in IDs, call \in Calls \cup {Idle} : Call(id, call)
    \/ CallbackReturns \/ NotifyReturns

Locking(t) == Insert(t) \/ Delete(t)

Next ==
    \/ StoreSnapshot
    \/ Notifying
    \/ \E t \in Callers, call \in Calls : Begin(t, call)
    \/ \E t \in Threads : Locking(t)

\* Callbacks return, as SubscriberFn asks of them; a RWMutex does not starve
\* those who wait for it.
Spec ==
    /\ Init
    /\ [][Next]_subscribersVars
    /\ WF_subscribersVars(Notifying)
    /\ \A t \in Threads : SF_subscribersVars(Locking(t))

-----------------------------------------------------------------------------
(* Properties.                                                             *)

\* A subscriber is called with every snapshot stored after it was registered,
\* once and in order, the first being the next one to be copied for ("a
\* subscriber added during notification will not be called for this particular
\* snap"), and when it is removed in the middle of a notification it may still
\* hear of that snapshot but of no later one ("may still be called once").
NoUpdateMissed ==
    \A id \in IDs :
        /\ \A i \in DOMAIN heard[id] : heard[id][i] = since[id] + i /\ heard[id][i] <= until[id]
        /\ id \in subs /\ pc = "idle" => Len(heard[id]) = snap - since[id]

\* A callback that unsubscribes itself or others, or subscribes, does not
\* deadlock with the Notify that called it, nor with other goroutines.
EveryCallReturns ==
    /\ pc # "idle" ~> pc = "idle"
    /\ \A t \in Threads : op[t] # Idle ~> op[t] = Idle
=============================================================================
