----------------------------- MODULE Scheduler ------------------------------
(***************************************************************************)
(* The timers of one service: runtime.Scheduler (src/runtime/scheduler.go) *)
(* with its two clients, the run goroutine that starts and cancels timers  *)
(* as states are entered and exited, and the clock, whose callbacks run on *)
(* goroutines of their own.                                                *)
(*                                                                         *)
(* Every call of Start makes a new timerEntry; entries are numbered in the *)
(* order of the calls. The map is used by the run goroutine alone, so a    *)
(* step reads and writes it together with the first effect that a callback *)
(* can see: the cancelled flag, Stop, or AfterFunc.                        *)
(***************************************************************************)
EXTENDS Naturals, Sequences, FiniteSets

CONSTANTS
    State,        \* states of the machine
    Timer,        \* timer IDs
    Owner,        \* the state whose After declares a timer
    TimerBuffer,  \* schedulerBufSize (64)
    MaxStarts     \* bound: calls of Start

ASSUME SchedulerAssumption ==
    /\ IsFiniteSet(Timer)
    /\ Owner \in [Timer -> State]
    /\ TimerBuffer \in Nat \ {0}
    /\ MaxStarts \in Nat

Entry == 1..MaxStarts

VARIABLES
    entries,    \* s.entries: the entry registered for each timer, 0 if none
    timerOf,    \* the timer of each entry, in the order of the calls of Start
    cancelled,  \* entries whose cancelled flag is set
    cb,         \* the clock's timer and callback of each entry
    outCh,      \* s.outCh, each TimedFire with the entry that sent it
    active,     \* active states
    pc,         \* where the run goroutine stands
    toStop,     \* timers it has yet to cancel
    toStart,    \* timers it has yet to start
    victim      \* entry it has marked and is about to Stop, 0 if none

schedVars == <<entries, timerOf, cancelled, cb, outCh, active, pc, toStop, toStart, victim>>

started == Len(timerOf)

TimersOf(S) == {t \in Timer : Owner[t] \in S}

Init ==
    /\ entries = [t \in Timer |-> 0]
    /\ timerOf = <<>>
    /\ cancelled = {}
    /\ cb = [g \in Entry |-> "unset"]
    /\ outCh = <<>>
    /\ \E S \in SUBSET State :
        /\ Cardinality(TimersOf(S)) <= MaxStarts
        /\ active = S
        /\ toStart = TimersOf(S)
    /\ pc = "enter"
    /\ toStop = {}
    /\ victim = 0

-----------------------------------------------------------------------------
(* The run goroutine: a macrostep exits the states X, cancelling their     *)
(* timers, and then enters the states Y, starting theirs.                  *)

\* Mutant: a state that was already active gets no new timers.
StartNewOnly(X, Y) ==
    /\ started + Cardinality(TimersOf(Y)) <= MaxStarts
    /\ active' = (active \ X) \cup Y
    /\ toStop' = TimersOf(X)
    /\ toStart' = TimersOf(Y \ active)
    /\ pc' = "apply"
    /\ UNCHANGED <<entries, timerOf, cancelled, cb, victim>>

ExitAndEnter(X, Y) ==
    /\ started + Cardinality(TimersOf(Y)) <= MaxStarts
    /\ active' = (active \ X) \cup Y
    /\ toStop' = TimersOf(X)
    /\ toStart' = TimersOf(Y)
    /\ pc' = "apply"
    /\ UNCHANGED <<entries, timerOf, cancelled, cb, victim>>

\* An event from the mailbox, an internal event or an always transition.
Transition ==
    /\ pc = "select"
    /\ \E X \in SUBSET active, Y \in SUBSET State :
        /\ X \cup Y # {}
        /\ ExitAndEnter(X, Y)
    /\ UNCHANGED outCh

\* case tf := <-s.scheduler.C(), when an active state has a transition for
\* the event and its guard passes.
FireTransition ==
    /\ pc = "select"
    /\ outCh # <<>>
    /\ Owner[timerOf[Head(outCh)]] \in active
    /\ outCh' = Tail(outCh)
    /\ \E X \in SUBSET active, Y \in SUBSET State : ExitAndEnter(X, Y)

\* ... when the state is not active, or the guard does not pass.
DropFire ==
    /\ pc = "select"
    /\ outCh # <<>>
    /\ outCh' = Tail(outCh)
    /\ UNCHANGED <<entries, timerOf, cancelled, cb, active, pc, toStop, toStart, victim>>

\* Mutant: cancel stops the timer and sets no flag.
UnregisterUnmarked(t) ==
    /\ entries' = [entries EXCEPT ![t] = 0]
    /\ victim' = entries[t]
    /\ UNCHANGED cancelled

\* cancel: the entry leaves the map and its flag is set, if there is one.
Unregister(t) ==
    /\ entries' = [entries EXCEPT ![t] = 0]
    /\ victim' = entries[t]
    /\ cancelled' = IF entries[t] = 0 THEN cancelled ELSE cancelled \cup {entries[t]}

Cancel(t) ==
    /\ pc \in {"apply", "teardown"}
    /\ victim = 0
    /\ t \in toStop
    /\ Unregister(t)
    /\ toStop' = toStop \ {t}
    /\ UNCHANGED <<timerOf, cb, outCh, active, pc, toStart>>

\* ... entry.timer.Stop(), which comes too late once the callback is called.
StopTimer ==
    /\ victim # 0
    /\ cb' = [cb EXCEPT ![victim] = IF @ = "pending" THEN "stopped" ELSE @]
    /\ victim' = 0
    /\ UNCHANGED <<entries, timerOf, cancelled, outCh, active, pc, toStop, toStart>>

\* Start cancels the timer registered under the same ID first.
CancelInStart(t) ==
    /\ pc \in {"enter", "apply"}
    /\ toStop = {} /\ victim = 0
    /\ t \in toStart
    /\ entries[t] # 0
    /\ Unregister(t)
    /\ UNCHANGED <<timerOf, cb, outCh, active, pc, toStop, toStart>>

\* Mutant: Start does not look for a timer under the same ID.
StartOverExisting(t) ==
    /\ pc \in {"enter", "apply"}
    /\ toStop = {} /\ victim = 0
    /\ t \in toStart
    /\ entries' = [entries EXCEPT ![t] = started + 1]
    /\ timerOf' = Append(timerOf, t)
    /\ cb' = [cb EXCEPT ![started + 1] = "pending"]
    /\ toStart' = toStart \ {t}
    /\ UNCHANGED <<cancelled, outCh, active, pc, toStop, victim>>

Start(t) ==
    /\ pc \in {"enter", "apply"}
    /\ toStop = {} /\ victim = 0
    /\ t \in toStart
    /\ entries[t] = 0
    /\ entries' = [entries EXCEPT ![t] = started + 1]
    /\ timerOf' = Append(timerOf, t)
    /\ cb' = [cb EXCEPT ![started + 1] = "pending"]
    /\ toStart' = toStart \ {t}
    /\ UNCHANGED <<cancelled, outCh, active, pc, toStop, victim>>

EndStep ==
    /\ pc \in {"enter", "apply"}
    /\ toStop = {} /\ toStart = {} /\ victim = 0
    /\ pc' = "select"
    /\ UNCHANGED <<entries, timerOf, cancelled, cb, outCh, active, toStop, toStart, victim>>

\* Mutant: only the timers of the active states are cancelled.
CancelActiveOnly ==
    /\ pc \in {"select", "apply"}
    /\ victim = 0
    /\ pc' = "teardown"
    /\ toStop' = TimersOf(active)
    /\ toStart' = {}
    /\ UNCHANGED <<entries, timerOf, cancelled, cb, outCh, active, victim>>

\* The deferred CancelAll of run, after Stop or a panic in the step.
BeginCancelAll ==
    /\ pc \in {"select", "apply"}
    /\ victim = 0
    /\ pc' = "teardown"
    /\ toStop' = {t \in Timer : entries[t] # 0}
    /\ toStart' = {}
    /\ UNCHANGED <<entries, timerOf, cancelled, cb, outCh, active, victim>>

EndCancelAll ==
    /\ pc = "teardown"
    /\ toStop = {} /\ victim = 0
    /\ pc' = "exited"
    /\ UNCHANGED <<entries, timerOf, cancelled, cb, outCh, active, toStop, toStart, victim>>

-----------------------------------------------------------------------------
(* The clock and the callback given to AfterFunc.                          *)

Callback(g, from, to) ==
    /\ cb[g] = from
    /\ cb' = [cb EXCEPT ![g] = to]
    /\ UNCHANGED <<entries, timerOf, cancelled, active, pc, toStop, toStart, victim>>

\* The delay is over: the clock calls the function on a new goroutine.
Expire(g) == Callback(g, "pending", "called") /\ UNCHANGED outCh

\* Mutant: the callback gives up when run is inside a step.
GiveUpInStep(g) ==
    /\ Callback(g, "called", IF g \in cancelled \/ pc = "apply" THEN "skipped" ELSE "checked")
    /\ UNCHANGED outCh

\* if entry.cancelled.Load() { return }
CheckFlag(g) ==
    /\ Callback(g, "called", IF g \in cancelled THEN "skipped" ELSE "checked")
    /\ UNCHANGED outCh

\* Mutant: a channel without a limit.
SendFireUnbounded(g) == Callback(g, "checked", "sent") /\ outCh' = Append(outCh, g)

\* select with default: the event is dropped when the channel is full.
SendFire(g) ==
    /\ Callback(g, "checked", IF Len(outCh) < TimerBuffer THEN "sent" ELSE "dropped")
    /\ outCh' = IF Len(outCh) < TimerBuffer THEN Append(outCh, g) ELSE outCh

-----------------------------------------------------------------------------

CancelNext == StopTimer \/ \E t \in Timer : Cancel(t) \/ CancelInStart(t)

RunNext ==
    \/ Transition \/ FireTransition \/ DropFire
    \/ CancelNext
    \/ \E t \in Timer : Start(t)
    \/ EndStep \/ BeginCancelAll \/ EndCancelAll

ClockNext == \E g \in Entry : Expire(g) \/ CheckFlag(g) \/ SendFire(g)

Next == RunNext \/ ClockNext

Spec == Init /\ [][Next]_schedVars

(***************************************************************************)
(* Fairness: the steps of the run goroutine and of each callback are taken *)
(* (WF); a delay ends (WF); and the select of run, which chooses at random *)
(* between its ready cases, does not ignore a fired timer for ever (SF).   *)
(***************************************************************************)
TakeFire == FireTransition \/ DropFire

Fairness ==
    /\ WF_schedVars(CancelNext \/ EndStep \/ EndCancelAll)
    /\ \A t \in Timer : WF_schedVars(Start(t))
    /\ SF_schedVars(TakeFire)
    /\ \A g \in Entry : WF_schedVars(Expire(g)) /\ WF_schedVars(CheckFlag(g) \/ SendFire(g))

FairSpec == Spec /\ Fairness

-----------------------------------------------------------------------------
(* Properties.                                                             *)

TypeOK ==
    /\ entries \in [Timer -> 0..MaxStarts]
    /\ timerOf \in Seq(Timer) /\ Len(timerOf) <= MaxStarts
    /\ cancelled \subseteq Entry
    /\ cb \in [Entry -> {"unset", "pending", "stopped", "called", "skipped",
                         "checked", "sent", "dropped"}]
    /\ outCh \in Seq(Entry) /\ Len(outCh) <= TimerBuffer
    /\ active \subseteq State
    /\ pc \in {"enter", "select", "apply", "teardown", "exited"}
    /\ toStop \subseteq Timer /\ toStart \subseteq Timer
    /\ victim \in 0..MaxStarts

\* Whenever run is back at its select, the registered timers are those of the
\* active states: exits cancelled theirs and entries started theirs, re-entries
\* and entries of states that were still active included.
TimersMatchActive ==
    pc = "select" => \A t \in Timer : entries[t] # 0 <=> Owner[t] \in active

\* A timer the clock still holds can be found by Cancel: it is the one
\* registered under its ID, or the one being stopped at this moment. No timer
\* is orphaned by a restart under the same ID, and one that Stop misses because
\* its callback is called already has its flag set.
NoOrphanTimer ==
    \A g \in Entry :
        LET registered == g <= started /\ entries[timerOf[g]] = g
        IN  /\ cb[g] = "pending" => g = victim \/ registered
            /\ cb[g] = "called" => g \in cancelled \/ registered

\* After the teardown the clock holds no timer, and a callback that has not
\* looked at its flag yet will find it set. One that has may still send, to a
\* channel that nobody reads.
QuietAfterTeardown ==
    pc = "exited" => \A g \in Entry :
        cb[g] # "pending" /\ (cb[g] = "called" => g \in cancelled)

\* An event in the channel is of a timer that has been cancelled, or its state is
\* active and the timer is the one registered: what run drops when the state has
\* been left, and what it may take for a later start of the same timer, has its
\* flag set.
FireIsLiveOrCancelled ==
    pc = "select" => \A i \in DOMAIN outCh :
        LET g == outCh[i]
        IN  g \notin cancelled => Owner[timerOf[g]] \in active /\ entries[timerOf[g]] = g

\* "When a state is exited, its timers are cancelled by ID - preventing stale
\* after-events from reaching the interpreter": run never finds the event of a
\* cancelled timer while the state is active.
NoStaleFire ==
    pc = "select" => \A i \in DOMAIN outCh :
        outCh[i] \in cancelled => Owner[timerOf[outCh[i]]] \notin active

\* A timer that was started is cancelled, or run gets its event, or the
\* channel was full, or the service has ended.
TimerReachesRun ==
    \A g \in Entry :
        cb[g] = "pending" ~>
            \/ g \in cancelled \/ cb[g] = "dropped" \/ pc = "exited"
            \/ cb[g] = "sent" /\ \A i \in DOMAIN outCh : outCh[i] # g
=============================================================================
