------------------------------ MODULE Harness -------------------------------
(***************************************************************************)
(* testkit.Harness (src/testkit/harness.go): a second interpreter, with no *)
(* goroutines, channels or real time. Send and Tick run to the end before  *)
(* they return; here each is split into the steps of its loops, so that    *)
(* they can be compared with those of Interpreter. Time is kept as what is *)
(* left of each delay.                                                     *)
(***************************************************************************)
EXTENDS Microstep, Integers

CONSTANTS
    Machines,    \* the machines under test
    FlushLimit,  \* maxIter of flush (1000)
    MaxTick,     \* bound: how far one Tick goes
    MaxLeaves    \* bound: calls are made while there are at most so many leaves

ASSUME HarnessAssumption ==
    /\ FlushLimit \in Nat \ {0}
    /\ MaxTick \in Nat /\ MaxLeaves \in Nat
    /\ \A m \in Machines : Runnable(m) /\ \A s \in StateIDs(m) : m.delay[s] \in Nat \ {0}

VARIABLES
    machine,   \* h.machine
    leaves,    \* h.leaves
    internal,  \* h.internal
    pc,        \* "ready", "collect" (in advance), "flush" or "panicked"
    iter,      \* iterations of flush
    rounds,    \* history: transitions of stepAlways in a row
    entered,   \* entries less exits of each state, so far
    invokes,   \* h.invokes: the invocations of each state not cancelled
    last,      \* exitOrder and entryOrder of the last applyTransitions
    pending,   \* h.scheduler.pending, without the cancelled timers: [id, left]
    batch      \* what is left of the events that advance has returned

harnessVars == <<machine, leaves, internal, pc, iter, rounds, entered, invokes, last, pending, batch>>

-----------------------------------------------------------------------------
(* Life of a state.                                                        *)

\* doEntry: what its entry actions raise; its InvokeFns are called there and
\* then, and what they send before they return goes to the same queue.
RaisedOnEntry(s) ==
    machine.onEntry[s] \o IF s \in machine.invokes THEN machine.sends[s] ELSE <<>>

\* raiseDoneEvents.
RaisedWhenDone(ls, entry) == DoneEvents(machine, ls, entry)

\* Mutant: an exit does not cancel the timer of the state.
AfterStepKeep(ts, exit, entry) ==
    ts \o LET fresh == Filter(entry, LAMBDA s : machine.after[s] # None)
          IN  [i \in DOMAIN fresh |-> [id |-> fresh[i], left |-> machine.delay[fresh[i]]]]

\* stopStateTimers for the states of exit, then startStateTimers for those of
\* entry: start cancels the timer that has the same ID.
AfterStep(ts, exit, entry) ==
    LET gone  == ToSet(exit) \cup ToSet(entry)
        fresh == Filter(entry, LAMBDA s : machine.after[s] # None)
    IN  Filter(ts, LAMBDA t : t.id \notin gone)
            \o [i \in DOMAIN fresh |-> [id |-> fresh[i], left |-> machine.delay[fresh[i]]]]

\* The invocations after exits that cancel theirs and entries that start theirs.
Invoked(exit, entry) ==
    [s \in DOMAIN invokes |->
        (IF Contains(exit, s) THEN 0 ELSE invokes[s])
            + IF s \in machine.invokes THEN Has(entry, s) ELSE 0]

\* applyTransitions; queue is what is left of the internal queue.
ApplyTransitions(enabled, queue) ==
    \E s \in {Macrostep(machine, leaves, enabled)} :
        /\ leaves' = s.leaves
        /\ last' = [exit |-> s.exit, entry |-> s.entry]
        /\ entered' = [x \in DOMAIN entered |-> entered[x] - Has(s.exit, x) + Has(s.entry, x)]
        /\ invokes' = Invoked(s.exit, s.entry)
        /\ pending' = AfterStep(pending, s.exit, s.entry)
        /\ internal' = queue
                        \o ForEach(s.exit, LAMBDA x : machine.onExit[x])
                        \o ForEach(s.entry, RaisedOnEntry)
                        \o s.raises
                        \o RaisedWhenDone(s.leaves, s.entry)

\* step: an event nothing handles is dropped.
Step(ev, holds, queue) ==
    \E enabled \in {Pending(machine, leaves, ev, holds)} :
        \/ /\ enabled = <<>>
           /\ internal' = queue
           /\ UNCHANGED <<leaves, entered, invokes, last, pending>>
        \/ /\ enabled # <<>>
           /\ ApplyTransitions(enabled, queue)

-----------------------------------------------------------------------------
(* NewHarness.                                                             *)

Init ==
    /\ machine \in Machines
    /\ leaves = InitialLeaves(machine)
    /\ last = [exit  |-> <<>>,
               entry |-> Distinct(ForEach(leaves, LAMBDA l : EntryPath(machine, None, l)))]
    /\ entered = [s \in StateIDs(machine) |-> Has(last.entry, s)]
    /\ invokes = [s \in StateIDs(machine) |->
                    IF s \in machine.invokes THEN Has(last.entry, s) ELSE 0]
    /\ pending = AfterStep(<<>>, <<>>, last.entry)
    /\ internal = ForEach(last.entry, RaisedOnEntry) \o RaisedWhenDone(leaves, last.entry)
    /\ pc = "flush"
    /\ iter = 0 /\ rounds = 0
    /\ batch = <<>>

-----------------------------------------------------------------------------
(* flush.                                                                  *)

FlushInternal(holds) ==
    /\ pc = "flush"
    /\ iter < FlushLimit
    /\ internal # <<>>
    /\ Step(Head(internal), holds, Tail(internal))
    /\ iter' = iter + 1
    /\ rounds' = 0
    /\ UNCHANGED <<machine, pc, batch>>

\* Mutant: Always transitions come before the internal queue.
FlushAlwaysFirst(holds) ==
    /\ pc = "flush"
    /\ iter < FlushLimit
    /\ \E enabled \in {Pending(machine, leaves, AlwaysEvent, holds)} :
        /\ enabled # <<>>
        /\ ApplyTransitions(<<enabled[1]>>, internal)
    /\ iter' = iter + 1
    /\ rounds' = rounds + 1
    /\ UNCHANGED <<machine, pc, batch>>

\* stepAlways: the first leaf with an enabled transition, and no other.
FlushAlways(holds) ==
    /\ pc = "flush"
    /\ iter < FlushLimit
    /\ internal = <<>>
    /\ \E enabled \in {Pending(machine, leaves, AlwaysEvent, holds)} :
        /\ enabled # <<>>
        /\ ApplyTransitions(<<enabled[1]>>, <<>>)
    /\ iter' = iter + 1
    /\ rounds' = rounds + 1
    /\ UNCHANGED <<machine, pc, batch>>

FlushReturns(holds) ==
    /\ pc = "flush"
    /\ iter < FlushLimit
    /\ internal = <<>>
    /\ Pending(machine, leaves, AlwaysEvent, holds) = <<>>
    /\ pc' = "ready"
    /\ iter' = 0 /\ rounds' = 0
    /\ UNCHANGED <<machine, leaves, internal, entered, invokes, last, pending, batch>>

\* Mutant: the limit starts again.
FlushGoesOn ==
    /\ pc = "flush"
    /\ iter = FlushLimit
    /\ iter' = 0
    /\ UNCHANGED <<machine, leaves, internal, pc, rounds, entered, invokes, last, pending, batch>>

FlushPanics ==
    /\ pc = "flush"
    /\ iter = FlushLimit
    /\ pc' = "panicked"
    /\ UNCHANGED <<machine, leaves, internal, iter, rounds, entered, invokes, last, pending, batch>>

-----------------------------------------------------------------------------
(* Send and Tick.                                                          *)

Returned == pc = "ready" /\ batch = <<>>

UserEvents ==
    {machine.transitions[k].on : k \in DOMAIN machine.transitions}
        \ ({AlwaysEvent} \cup {DoneEvent(s) : s \in StateIDs(machine)}
                         \cup {machine.after[s] : s \in StateIDs(machine)})

Send(ev, holds) ==
    /\ Returned /\ Len(leaves) <= MaxLeaves
    /\ Step(ev, holds, internal)
    /\ pc' = "flush"
    /\ UNCHANGED <<machine, iter, rounds, batch>>

Tick(d) ==
    /\ Returned /\ Len(leaves) <= MaxLeaves
    /\ pending' = [i \in DOMAIN pending |-> [pending[i] EXCEPT !.left = @ - d]]
    /\ pc' = "collect"
    /\ UNCHANGED <<machine, leaves, internal, iter, rounds, entered, invokes, last, batch>>

Due == {i \in DOMAIN pending : pending[i].left <= 0}

\* Mutant: a Tick fires one timer at most.
CollectOne ==
    /\ pc = "collect"
    /\ Due # {}
    /\ LET i == Min(Due)
       IN  /\ batch' = Append(batch, pending[i].id)
           /\ pending' = RemoveAt(pending, i)
    /\ pc' = "ready"
    /\ UNCHANGED <<machine, leaves, internal, iter, rounds, entered, invokes, last>>

\* The loop of advance: the timers that are due, in the order of their times.
\* sort.Slice keeps the order of equal times for up to twelve timers.
Collect ==
    /\ pc = "collect"
    /\ \E i \in Due :
        /\ \A j \in Due : pending[i].left < pending[j].left \/ (pending[i].left = pending[j].left /\ i <= j)
        /\ batch' = Append(batch, pending[i].id)
        /\ pending' = RemoveAt(pending, i)
    /\ UNCHANGED <<machine, leaves, internal, pc, iter, rounds, entered, invokes, last>>

AdvanceReturns ==
    /\ pc = "collect"
    /\ Due = {}
    /\ pc' = "ready"
    /\ UNCHANGED <<machine, leaves, internal, iter, rounds, entered, invokes, last, pending, batch>>

\* The loop of Tick: the event is handed over although an earlier one of the
\* batch may have exited the state and cancelled the timer.
Deliver(holds) ==
    /\ pc = "ready"
    /\ batch # <<>>
    /\ Step(machine.after[Head(batch)], holds, internal)
    /\ batch' = Tail(batch)
    /\ pc' = "flush"
    /\ UNCHANGED <<machine, iter, rounds>>

-----------------------------------------------------------------------------
Guarded == {k \in DOMAIN machine.transitions : machine.transitions[k].guarded}

CallNext ==
    \/ \E holds \in SUBSET Guarded :
        FlushInternal(holds) \/ FlushAlways(holds) \/ FlushReturns(holds) \/ Deliver(holds)
    \/ FlushPanics
    \/ Collect \/ AdvanceReturns

Next ==
    \/ CallNext
    \/ \E ev \in UserEvents, holds \in SUBSET Guarded : Send(ev, holds)
    \/ \E d \in 1..MaxTick : Tick(d)

Spec == Init /\ [][Next]_harnessVars

\* A call runs on its caller's goroutine until it returns.
FairSpec == Spec /\ WF_harnessVars(CallNext)

-----------------------------------------------------------------------------
(* Properties.                                                             *)

configuration == ToSet(ConfigurationOf(machine, leaves))

\* No Always is that of a parallel state or of a state around one: stepAlways
\* would move the leaf of one region out of it and leave the others behind.
AlwaysInside(m) ==
    \A k \in DOMAIN m.transitions : m.transitions[k].on = AlwaysEvent =>
        \A q \in AndStates(m) : ~Within(m, q, m.transitions[k].from)

\* Between two calls what was entered, invoked and timed is what is active:
\* each timer belongs to an active state, is the only one of that state, and is
\* not overdue, whatever the timers that the last Tick fired have started.
ActiveAndOnTime ==
    Returned =>
        /\ \A s \in StateIDs(machine) :
            LET active == IF s \in configuration THEN 1 ELSE 0
            IN  /\ entered[s] = active
                /\ invokes[s] = IF s \in machine.invokes THEN active ELSE 0
        /\ \A i \in DOMAIN pending :
            /\ pending[i].id \in configuration
            /\ pending[i].left \in 1..machine.delay[pending[i].id]
            /\ \A j \in DOMAIN pending : pending[j].id = pending[i].id => j = i

Live == INSTANCE Interpreter WITH
    MaxAlwaysIter <- FlushLimit,
    TimerBuffer   <- 64,
    MaxLeaves     <- 64,
    pc            <- CASE pc = "flush" -> "loop" [] pc = "panicked" -> "loop" [] OTHER -> "select",
    iter          <- rounds,
    timers        <- {pending[i].id : i \in DOMAIN pending},
    outCh         <- batch,
    snapshot      <- Snap(machine, leaves)

\* Two regions can take an Always: the harness takes the first one alone.
SeveralAlways ==
    \E holds \in SUBSET Guarded : Len(Pending(machine, leaves, AlwaysEvent, holds)) > 1

\* An InvokeFn sends before it returns: the harness queues the event at once,
\* the runtime puts it in the mailbox.
SendsOnEntry == \E s \in ToSet(last.entry) \cap machine.invokes : machine.sends[s] # <<>>

\* "The harness uses the same LCCA-based exit/entry algorithm as the runtime":
\* whatever a test sees step by step, a live service can do with the same
\* events and with timers that fire in the same order, apart from the two cases
\* above.
AgreesWithRuntime ==
    /\ SendsOnEntry \/ Live!Init
    /\ [][\/ Live!Next \/ UNCHANGED Live!interpVars
          \/ pc = "flush" /\ internal = <<>> /\ SeveralAlways
          \/ SendsOnEntry']_harnessVars

\* Every Send and Tick completes, or panics on an endless chain.
EveryCallEnds == ~Returned ~> (Returned \/ pc = "panicked")
=============================================================================
