-------------------------- MODULE SchedulerProofs ---------------------------
(***************************************************************************)
(* Theorems about Scheduler, for every set of timers, every owner, buffer  *)
(* and number of starts.                                                   *)
(***************************************************************************)
EXTENDS Scheduler, FiniteSetTheorems, TLAPS

\* The bound on the calls of Start leaves room for those still to come.
RoomInv == started + Cardinality(toStart) <= MaxStarts

Registered(g) == g <= started /\ entries[timerOf[g]] = g

\* The map holds entries under their own IDs, and only what has been started is
\* cancelled.
MapInv ==
    /\ \A t \in Timer : entries[t] # 0 => entries[t] <= started /\ timerOf[entries[t]] = t
    /\ \A g \in cancelled : g <= started

\* What was started is registered or cancelled; a timer that is cancelled and
\* still with the clock is about to be stopped.
FlagInv ==
    \A g \in Entry :
        /\ cb[g] # "unset" => g \in cancelled \/ Registered(g)
        /\ cb[g] = "pending" /\ g \in cancelled => g = victim

\* The entries of the calls of Start to come.
UnusedInv == \A g \in Entry : g > started => cb[g] = "unset"

\* What is in the channel was sent by a callback.
FireInv == \A i \in DOMAIN outCh : cb[outCh[i]] = "sent"

\* What run has still to cancel and to start makes up the difference between the
\* registered timers and those of the active states.
WorkInv ==
    /\ pc \in {"enter", "apply"} => \A t \in Timer :
        Owner[t] \in active <=> (entries[t] # 0 /\ t \notin toStop) \/ t \in toStart
    /\ pc = "teardown" => \A t \in Timer : entries[t] # 0 => t \in toStop
    /\ pc = "exited" => victim = 0 /\ \A t \in Timer : entries[t] = 0

IInv == TypeOK /\ RoomInv /\ MapInv /\ FlagInv /\ UnusedInv /\ FireInv /\ WorkInv /\ TimersMatchActive

-----------------------------------------------------------------------------
LEMMA TimersFinite == \A T \in SUBSET Timer : IsFiniteSet(T) /\ Cardinality(T) \in Nat
  BY SchedulerAssumption, FS_Subset, FS_CardinalityType DEF SchedulerAssumption

LEMMA TimersOfType == \A S : TimersOf(S) \subseteq Timer
  BY DEF TimersOf

LEMMA InitIInv == Init => IInv
<1> SUFFICES ASSUME Init PROVE IInv
  OBVIOUS
<1> USE SchedulerAssumption DEF SchedulerAssumption
<1>1. TypeOK
  BY TimersOfType DEF Init, TypeOK, Entry
<1>2. RoomInv
  BY TimersFinite, TimersOfType DEF Init, RoomInv, started
<1>3. MapInv /\ FlagInv /\ UnusedInv /\ FireInv
  BY DEF Init, MapInv, FlagInv, UnusedInv, FireInv, Registered, started, Entry
<1>4. WorkInv /\ TimersMatchActive
  BY DEF Init, WorkInv, TimersMatchActive, TimersOf
<1>. QED BY <1>1, <1>2, <1>3, <1>4 DEF IInv

\* run takes the first event of the channel.
LEMMA TailFires ==
  ASSUME FireInv, outCh \in Seq(Entry), outCh # <<>>, outCh' = Tail(outCh), cb' = cb
  PROVE  FireInv'
  BY DEF FireInv

\* A macrostep of the machine.
LEMMA ExitAndEnterIInv ==
  ASSUME IInv, pc = "select", NEW X \in SUBSET active, NEW Y \in SUBSET State, ExitAndEnter(X, Y),
         outCh' \in Seq(Entry), Len(outCh') <= TimerBuffer, FireInv'
  PROVE  IInv'
<1> USE SchedulerAssumption DEF SchedulerAssumption
<1>1. TypeOK'
  BY TimersOfType DEF ExitAndEnter, IInv, TypeOK
<1>2. RoomInv'
  BY DEF ExitAndEnter, RoomInv, started
<1>3. MapInv' /\ FlagInv' /\ UnusedInv'
  BY DEF ExitAndEnter, IInv, MapInv, FlagInv, UnusedInv, Registered, started
<1>4. WorkInv' /\ TimersMatchActive'
  BY DEF ExitAndEnter, IInv, WorkInv, TimersMatchActive, TimersOf, TypeOK
<1>. QED BY <1>1, <1>2, <1>3, <1>4 DEF IInv

\* A timer leaves the map, by an exit, the teardown or a new start.
LEMMA UnregisterIInv ==
  ASSUME IInv, NEW t \in Timer, victim = 0, Unregister(t), pc # "select", pc # "exited",
         UNCHANGED <<timerOf, cb, outCh, active, pc, toStart>>,
         \/ toStop' = toStop \ {t} /\ t \in toStop
         \/ toStop' = toStop /\ toStop = {} /\ t \in toStart
  PROVE  IInv'
<1> USE SchedulerAssumption DEF SchedulerAssumption
<1>1. entries[t] \in 0..MaxStarts /\ (entries[t] # 0 => entries[t] \in Entry)
  BY DEF IInv, TypeOK, Entry
<1>2. TypeOK'
  BY <1>1 DEF Unregister, IInv, TypeOK
<1>3. RoomInv'
  BY DEF IInv, RoomInv, started
<1>4. entries'[t] = 0 /\ \A u \in Timer : u # t => entries'[u] = entries[u]
  BY DEF Unregister, IInv, TypeOK
<1>5. MapInv'
  BY <1>4 DEF Unregister, IInv, MapInv, started
<1>6. FlagInv'
  <2> SUFFICES ASSUME NEW g \in Entry
               PROVE  /\ cb[g] # "unset" => g \in cancelled' \/ Registered(g)'
                      /\ cb[g] = "pending" /\ g \in cancelled' => g = victim'
    BY DEF FlagInv
  <2>1. g # 0 /\ g \in 1..MaxStarts
    BY DEF Entry
  <2>2. cb[g] = "pending" => g \notin cancelled
    BY <2>1 DEF IInv, FlagInv
  <2>3. ASSUME cb[g] # "unset" PROVE g \in cancelled' \/ Registered(g)'
    <3>1. CASE g \in cancelled
      BY <3>1 DEF Unregister
    <3>2. CASE g \notin cancelled
      <4>1. g <= started /\ entries[timerOf[g]] = g
        BY <3>2, <2>3 DEF IInv, FlagInv, Registered
      <4>2. timerOf[g] \in Timer
        BY <4>1, <2>1 DEF IInv, TypeOK, started
      <4>. QED BY <4>1, <4>2, <2>1, <1>4 DEF Unregister, Registered, started
    <3>. QED BY <3>1, <3>2
  <2>. QED BY <2>1, <2>2, <2>3 DEF Unregister
<1>7. WorkInv' /\ TimersMatchActive' /\ UnusedInv' /\ FireInv'
  BY <1>4 DEF IInv, WorkInv, TimersMatchActive, TypeOK, UnusedInv, FireInv, started
<1>. QED BY <1>2, <1>3, <1>5, <1>6, <1>7 DEF IInv

LEMMA StartIInv ==
  ASSUME IInv, NEW t \in Timer, Start(t)
  PROVE  IInv'
<1> USE SchedulerAssumption DEF SchedulerAssumption
<1> DEFINE n == started + 1
<1>1. Cardinality(toStart) \in Nat /\ Cardinality(toStart \ {t}) = Cardinality(toStart) - 1
  BY TimersFinite, FS_RemoveElement DEF Start, IInv, TypeOK
<1>2. started \in Nat /\ Cardinality(toStart) >= 1
  <2>1. (toStart \ {t}) \in SUBSET Timer
    BY DEF IInv, TypeOK
  <2>2. Cardinality(toStart \ {t}) \in Nat
    BY <2>1, TimersFinite
  <2>. QED BY <1>1, <2>2 DEF IInv, TypeOK, started
<1>3. n \in Entry
  BY <1>1, <1>2 DEF IInv, RoomInv, Entry
<1>4. /\ timerOf' \in Seq(Timer) /\ Len(timerOf') = n
      /\ timerOf'[n] = t /\ \A g \in 1..started : timerOf'[g] = timerOf[g]
  BY DEF Start, IInv, TypeOK, started
<1>5. entries'[t] = n /\ \A u \in Timer : u # t => entries'[u] = entries[u]
  BY DEF Start, IInv, TypeOK
<1>6. cb'[n] = "pending" /\ \A g \in Entry : g # n => cb'[g] = cb[g]
  BY <1>3 DEF Start, IInv, TypeOK
<1>7. TypeOK'
  <2>1. n \in 0..MaxStarts /\ n <= MaxStarts
    BY <1>3 DEF Entry
  <2>2. entries' \in [Timer -> 0..MaxStarts]
    BY <2>1 DEF Start, IInv, TypeOK
  <2>3. cb' \in [Entry -> {"unset", "pending", "stopped", "called", "skipped", "checked", "sent", "dropped"}]
    BY <1>3 DEF Start, IInv, TypeOK
  <2>. QED BY <2>1, <2>2, <2>3, <1>4 DEF Start, IInv, TypeOK
<1>8. RoomInv'
  BY <1>1, <1>2, <1>4 DEF Start, IInv, RoomInv, started
<1>9. MapInv'
  <2>1. \A u \in Timer : entries[u] \in Nat
    BY DEF IInv, TypeOK
  <2>2. \A g \in cancelled' : g <= n
    BY <1>2 DEF Start, IInv, MapInv, TypeOK, Entry
  <2>3. \A u \in Timer : entries'[u] # 0 => entries'[u] <= n /\ timerOf'[entries'[u]] = u
    BY <2>1, <1>2, <1>4, <1>5 DEF IInv, MapInv, started
  <2>. QED BY <2>2, <2>3, <1>4 DEF MapInv, started
<1>10. FlagInv'
  <2> SUFFICES ASSUME NEW g \in Entry
               PROVE  /\ cb'[g] # "unset" => g \in cancelled \/ Registered(g)'
                      /\ cb'[g] = "pending" /\ g \in cancelled => g = victim
    BY DEF FlagInv, Start
  <2>1. CASE g = n
    <3>1. g \notin cancelled
      BY <2>1, <1>2 DEF IInv, MapInv
    <3>. QED BY <3>1, <2>1, <1>4, <1>5 DEF Registered, started
  <2>2. CASE g # n
    <3>1. cb[g] # "unset" /\ g \notin cancelled => g \in 1..started /\ entries[timerOf[g]] = g /\ timerOf[g] \in Timer
      BY <1>2 DEF IInv, FlagInv, Registered, Entry, TypeOK, started
    <3>2. entries[t] = 0 /\ g # 0
      BY DEF Start, Entry
    <3>3. cb[g] # "unset" /\ g \notin cancelled => Registered(g)'
      BY <3>1, <3>2, <1>2, <1>4, <1>5 DEF Registered, started
    <3>. QED BY <3>3, <2>2, <1>6 DEF IInv, FlagInv
  <2>. QED BY <2>1, <2>2
<1>11. WorkInv' /\ TimersMatchActive'
  BY <1>2, <1>5 DEF Start, IInv, WorkInv, TimersMatchActive
<1>12. FireInv'
  <2>1. cb[n] = "unset"
    BY <1>2, <1>3 DEF IInv, UnusedInv
  <2>. QED BY <1>6, <2>1 DEF Start, IInv, FireInv, TypeOK
<1>13. UnusedInv'
  BY <1>2, <1>4, <1>6 DEF IInv, UnusedInv, started, Entry
<1>. QED BY <1>7, <1>8, <1>9, <1>10, <1>11, <1>12, <1>13 DEF IInv

\* The rest of run: StopTimer, the ends of a step and of the teardown.
LEMMA StopTimerIInv == ASSUME IInv, StopTimer PROVE IInv'
<1> USE SchedulerAssumption DEF SchedulerAssumption
<1>1. victim \in Entry /\ \A g \in Entry : cb'[g] = (IF g = victim /\ cb[g] = "pending" THEN "stopped" ELSE cb[g])
  BY DEF StopTimer, IInv, TypeOK, Entry
<1>2. TypeOK'
  BY <1>1 DEF StopTimer, IInv, TypeOK
<1>3. FlagInv'
  BY <1>1 DEF StopTimer, IInv, FlagInv, Registered, started
<1>4. FireInv'
  BY <1>1 DEF StopTimer, IInv, FireInv, TypeOK
<1>5. UnusedInv'
  BY <1>1 DEF StopTimer, IInv, UnusedInv, started
<1>. QED BY <1>2, <1>3, <1>4, <1>5 DEF StopTimer, IInv, RoomInv, MapInv, WorkInv, TimersMatchActive, started

LEMMA EndsIInv == ASSUME IInv, EndStep \/ BeginCancelAll \/ EndCancelAll PROVE IInv'
<1> USE SchedulerAssumption DEF SchedulerAssumption
<1>1. TypeOK'
  BY DEF EndStep, BeginCancelAll, EndCancelAll, IInv, TypeOK
<1>2. RoomInv'
  <2>1. timerOf' = timerOf /\ (toStart' = toStart \/ toStart' = {})
    BY DEF EndStep, BeginCancelAll, EndCancelAll
  <2>2. Cardinality({}) = 0
    BY FS_EmptySet
  <2>3. started <= MaxStarts /\ started \in Nat
    BY DEF IInv, TypeOK, started
  <2>4. RoomInv
    BY DEF IInv
  <2>5. CASE toStart' = toStart
    BY <2>1, <2>4, <2>5 DEF RoomInv, started
  <2>6. CASE toStart' = {}
    BY <2>1, <2>2, <2>3, <2>6 DEF RoomInv, started
  <2>. QED BY <2>1, <2>5, <2>6
<1>3. MapInv' /\ FlagInv' /\ UnusedInv' /\ FireInv'
  BY DEF EndStep, BeginCancelAll, EndCancelAll, IInv, MapInv, FlagInv, UnusedInv, FireInv, Registered, started
<1>4. WorkInv' /\ TimersMatchActive'
  BY DEF EndStep, BeginCancelAll, EndCancelAll, IInv, WorkInv, TimersMatchActive
<1>. QED BY <1>1, <1>2, <1>3, <1>4 DEF IInv

\* The clock and the callbacks.
LEMMA ClockIInv == ASSUME IInv, NEW g \in Entry, Expire(g) \/ CheckFlag(g) \/ SendFire(g) PROVE IInv'
<1> USE SchedulerAssumption DEF SchedulerAssumption
<1>1. TypeOK'
  <2>1. cb' \in [Entry -> {"unset", "pending", "stopped", "called", "skipped", "checked", "sent", "dropped"}]
    BY DEF Expire, CheckFlag, SendFire, Callback, IInv, TypeOK
  <2>2. outCh' \in Seq(Entry) /\ Len(outCh') <= TimerBuffer
    <3>1. outCh' = outCh \/ (Len(outCh) < TimerBuffer /\ outCh' = Append(outCh, g))
      BY DEF Expire, CheckFlag, SendFire
    <3>2. outCh \in Seq(Entry) /\ Len(outCh) \in Nat /\ Len(outCh) <= TimerBuffer
      BY DEF IInv, TypeOK
    <3>. QED BY <3>1, <3>2
  <2>. QED BY <2>1, <2>2 DEF Expire, CheckFlag, SendFire, Callback, IInv, TypeOK
<1>2. \A h \in Entry : /\ cb'[h] # "unset" => cb[h] # "unset"
                       /\ cb'[h] = "pending" => cb[h] = "pending"
  BY DEF Expire, CheckFlag, SendFire, Callback, IInv, TypeOK
<1>3. UNCHANGED <<entries, timerOf, cancelled, active, pc, toStop, toStart, victim>>
  BY DEF Expire, CheckFlag, SendFire, Callback
<1>4. FireInv'
  <2>1. \A h \in Entry : cb[h] = "sent" => cb'[h] = "sent"
    BY DEF Expire, CheckFlag, SendFire, Callback, IInv, TypeOK
  <2>2. CASE outCh' = outCh
    BY <2>1, <2>2 DEF IInv, FireInv, TypeOK
  <2>3. CASE outCh' = Append(outCh, g) /\ cb'[g] = "sent"
    BY <2>1, <2>3 DEF IInv, FireInv, TypeOK
  <2>. QED BY <2>2, <2>3 DEF Expire, CheckFlag, SendFire, Callback, IInv, TypeOK
<1>5. UnusedInv'
  <2>1. \A h \in Entry : cb[h] = "unset" => cb'[h] = "unset"
    BY DEF Expire, CheckFlag, SendFire, Callback, IInv, TypeOK
  <2>. QED BY <1>3, <2>1 DEF IInv, UnusedInv, started
<1>. QED BY <1>1, <1>2, <1>3, <1>4, <1>5 DEF IInv, RoomInv, MapInv, FlagInv, Registered, WorkInv, TimersMatchActive, started

LEMMA StepIInv == IInv /\ [Next]_schedVars => IInv'
<1> SUFFICES ASSUME IInv, [Next]_schedVars PROVE IInv'
  OBVIOUS
<1>1. CASE Transition
  <2>1. FireInv'
    BY <1>1 DEF Transition, ExitAndEnter, IInv, FireInv
  <2>. QED BY <1>1, <2>1, ExitAndEnterIInv DEF Transition, IInv, TypeOK
<1>2. CASE FireTransition
  <2>1. outCh' \in Seq(Entry) /\ Len(outCh') <= TimerBuffer
    BY <1>2, SchedulerAssumption DEF FireTransition, IInv, TypeOK, SchedulerAssumption
  <2>2. FireInv'
    BY <1>2, TailFires DEF FireTransition, ExitAndEnter, IInv, TypeOK
  <2>. QED BY <2>1, <2>2, <1>2, ExitAndEnterIInv DEF FireTransition
<1>3. CASE DropFire
  <2>1. outCh' \in Seq(Entry) /\ Len(outCh') <= TimerBuffer
    BY <1>3, SchedulerAssumption DEF DropFire, IInv, TypeOK, SchedulerAssumption
  <2>2. FireInv'
    BY <1>3, TailFires DEF DropFire, IInv, TypeOK
  <2>. QED BY <2>1, <2>2, <1>3 DEF DropFire, IInv, TypeOK, RoomInv, MapInv, FlagInv, UnusedInv, Registered, WorkInv, TimersMatchActive, started
<1>4. CASE StopTimer
  BY <1>4, StopTimerIInv
<1>5. ASSUME NEW t \in Timer, Cancel(t) PROVE IInv'
  BY <1>5, UnregisterIInv DEF Cancel
<1>6. ASSUME NEW t \in Timer, CancelInStart(t) PROVE IInv'
  BY <1>6, UnregisterIInv DEF CancelInStart
<1>7. ASSUME NEW t \in Timer, Start(t) PROVE IInv'
  BY <1>7, StartIInv
<1>8. CASE EndStep \/ BeginCancelAll \/ EndCancelAll
  BY <1>8, EndsIInv
<1>9. CASE ClockNext
  BY <1>9, ClockIInv DEF ClockNext
<1>10. CASE UNCHANGED schedVars
  BY <1>10 DEF schedVars, IInv, TypeOK, RoomInv, MapInv, FlagInv, UnusedInv, FireInv, Registered, WorkInv, TimersMatchActive, started
<1>. QED BY <1>1, <1>2, <1>3, <1>4, <1>5, <1>6, <1>7, <1>8, <1>9, <1>10 DEF Next, RunNext, CancelNext

LEMMA Invariant == Spec => []IInv
  BY InitIInv, StepIInv, PTL DEF Spec

LEMMA IInvImplies ==
  IInv => /\ TypeOK /\ TimersMatchActive /\ NoOrphanTimer
          /\ QuietAfterTeardown /\ FireIsLiveOrCancelled
<1> SUFFICES ASSUME IInv PROVE NoOrphanTimer /\ QuietAfterTeardown /\ FireIsLiveOrCancelled
  BY DEF IInv
<1>1. NoOrphanTimer
  BY DEF NoOrphanTimer, IInv, FlagInv, Registered
<1>2. QuietAfterTeardown
  <2> SUFFICES ASSUME pc = "exited", NEW g \in Entry
               PROVE  cb[g] # "pending" /\ (cb[g] = "called" => g \in cancelled)
    BY DEF QuietAfterTeardown
  <2>1. g # 0 /\ victim = 0 /\ \A t \in Timer : entries[t] = 0
    BY DEF IInv, WorkInv, Entry
  <2>2. ~Registered(g)
    BY <2>1 DEF Registered, IInv, TypeOK, Entry, started
  <2>. QED BY <2>1, <2>2 DEF IInv, FlagInv
<1>3. FireIsLiveOrCancelled
  <2> SUFFICES ASSUME pc = "select", NEW i \in DOMAIN outCh, outCh[i] \notin cancelled
               PROVE  Owner[timerOf[outCh[i]]] \in active /\ entries[timerOf[outCh[i]]] = outCh[i]
    BY DEF FireIsLiveOrCancelled
  <2> DEFINE g == outCh[i]
  <2>1. g \in Entry /\ cb[g] = "sent"
    BY DEF IInv, TypeOK, FireInv
  <2>2. Registered(g)
    BY <2>1 DEF IInv, FlagInv
  <2>3. g # 0 /\ timerOf[g] \in Timer
    BY <2>1, <2>2 DEF Registered, IInv, TypeOK, Entry, started
  <2>. QED BY <2>2, <2>3 DEF Registered, IInv, TimersMatchActive
<1>. QED BY <1>1, <1>2, <1>3

\* The types of Scheduler (scheduler.go:19-36).
THEOREM TypeCorrect == Spec => []TypeOK
  BY Invariant, IInvImplies, PTL

\* Whenever run selects, exactly the timers of the active states are registered,
\* whatever was exited, entered, or entered again without an exit
\* (service.go:449-500, scheduler.go:48-82).
THEOREM TimersFollowStates == Spec => []TimersMatchActive
  BY Invariant, IInvImplies, PTL

\* No timer escapes its ID, nor a callback that has not read its flag
\* (scheduler.go:51-55, 80-96).
THEOREM NoTimerIsOrphaned == Spec => []NoOrphanTimer
  BY Invariant, IInvImplies, PTL

\* A fired timer in the channel has been cancelled or is the one registered of
\* an active state (scheduler.go:64-96, service.go:324-328).
THEOREM FiresAreLiveOrCancelled == Spec => []FireIsLiveOrCancelled
  BY Invariant, IInvImplies, PTL

\* Once CancelAll is over the clock holds no timer, and no callback passes its
\* flag any more: only one that had passed it before can still send
\* (scheduler.go:64-70, 98-109).
THEOREM TeardownIsQuiet ==
  Spec => /\ []QuietAfterTeardown
          /\ [][pc = "exited" => \A g \in Entry : cb'[g] = "checked" => cb[g] = "checked"]_schedVars
<1> DEFINE NonePasses == pc = "exited" => \A g \in Entry : cb'[g] = "checked" => cb[g] = "checked"
<1>1. TypeOK /\ QuietAfterTeardown /\ [Next]_schedVars => [NonePasses]_schedVars
  <2> SUFFICES ASSUME TypeOK, QuietAfterTeardown, Next, pc = "exited",
                      NEW g \in Entry, cb'[g] = "checked"
               PROVE  cb[g] = "checked"
    OBVIOUS
  <2>1. CASE StopTimer
    BY <2>1 DEF StopTimer, TypeOK
  <2>2. ASSUME NEW h \in Entry, Expire(h) \/ CheckFlag(h) \/ SendFire(h)
        PROVE  cb[g] = "checked"
    BY <2>2 DEF Expire, CheckFlag, SendFire, Callback, TypeOK, QuietAfterTeardown
  <2>. QED BY <2>1, <2>2 DEF Next, RunNext, ClockNext, CancelNext, Transition, FireTransition, DropFire,
              Cancel, CancelInStart, Start, EndStep, BeginCancelAll, EndCancelAll
<1>. QED BY <1>1, Invariant, IInvImplies, PTL DEF Spec
=============================================================================
