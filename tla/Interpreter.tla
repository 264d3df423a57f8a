---------------------------- MODULE Interpreter -----------------------------
(***************************************************************************)
(* The interpreter of a service (src/runtime/service.go): what Start and   *)
(* the run goroutine do to the active leaves, the internal queue, the      *)
(* timers and invocations of states and the snapshot. Each action is one   *)
(* pass of the loop of run, or one round of tryAlways. The mailbox and the *)
(* goroutines around it are those of Service; how a timer races its        *)
(* cancellation is in Scheduler.                                           *)
(***************************************************************************)
EXTENDS Microstep, Integers

CONSTANTS
    Machines,       \* the machines to run
    MaxAlwaysIter,  \* maxAlwaysIter (1000)
    TimerBuffer,    \* schedulerBufSize (64)
    MaxLeaves       \* bound: events are taken while there are at most so many leaves

ASSUME InterpreterAssumption ==
    /\ MaxAlwaysIter \in Nat \ {0}
    /\ TimerBuffer \in Nat \ {0}
    /\ MaxLeaves \in Nat
    /\ \A m \in Machines : Runnable(m)

VARIABLES
    machine,   \* s.machine
    leaves,    \* s.leaves
    internal,  \* s.internal
    pc,        \* "loop": at the top of run's for; "select"; "exited"
    iter,      \* rounds tryAlways has done in its present call
    entered,   \* entries less exits of each state, so far
    timers,    \* states whose timer is running
    outCh,     \* states whose timer has fired, in the scheduler's channel
    invokes,   \* s.invokes: the invocations of each state not cancelled
    last,      \* exitOrder and entryOrder of the last applyTransitions
    snapshot   \* s.snap: its Leaves, ActiveStates and Final

lifecycle == <<entered, timers, invokes, last>>
interpVars == <<machine, leaves, internal, pc, iter, outCh, snapshot, lifecycle>>

-----------------------------------------------------------------------------
(* Start.                                                                  *)

Init ==
    /\ machine \in Machines
    /\ leaves = InitialLeaves(machine)
    /\ last = [exit  |-> <<>>,
               entry |-> Distinct(ForEach(leaves, LAMBDA l : EntryPath(machine, None, l)))]
    /\ internal = ForEach(last.entry, LAMBDA s : machine.onEntry[s])
                    \o DoneEvents(machine, leaves, last.entry)
    /\ entered = [s \in StateIDs(machine) |-> Has(last.entry, s)]
    /\ timers = {s \in ToSet(last.entry) : machine.after[s] # None}
    /\ invokes = [s \in StateIDs(machine) |->
                    IF s \in machine.invokes THEN Has(last.entry, s) ELSE 0]
    /\ pc = "loop"
    /\ iter = 0
    /\ outCh = <<>>
    /\ snapshot = Snap(machine, leaves)

-----------------------------------------------------------------------------
(* One step of run.                                                        *)

\* Mutant: the timers and invocations of the states exited keep running.
ExitQuietly(exit, entry) ==
    /\ last' = [exit |-> exit, entry |-> entry]
    /\ entered' = [s \in DOMAIN entered |-> entered[s] - Has(exit, s) + Has(entry, s)]
    /\ timers' = timers \cup {s \in ToSet(entry) : machine.after[s] # None}
    /\ invokes' = [s \in DOMAIN invokes |->
                    invokes[s] + IF s \in machine.invokes THEN Has(entry, s) ELSE 0]

\* doExit, stopStateTimers and stopStateInvokes for the states of exit, then
\* doEntry, startStateTimers and doInvokeEntry for those of entry.
ExitThenEnter(exit, entry) ==
    /\ last' = [exit |-> exit, entry |-> entry]
    /\ entered' = [s \in DOMAIN entered |-> entered[s] - Has(exit, s) + Has(entry, s)]
    /\ timers' = (timers \ ToSet(exit)) \cup {s \in ToSet(entry) : machine.after[s] # None}
    /\ invokes' = [s \in DOMAIN invokes |->
                    (IF Contains(exit, s) THEN 0 ELSE invokes[s])
                        + IF s \in machine.invokes THEN Has(entry, s) ELSE 0]

\* applyTransitions; queue is what is left of the internal queue.
ApplyTransitions(pending, queue) ==
    \E s \in {Macrostep(machine, leaves, pending)} :
        /\ leaves' = s.leaves
        /\ ExitThenEnter(s.exit, s.entry)
        /\ internal' = queue
                        \o ForEach(s.exit, LAMBDA x : machine.onExit[x])
                        \o ForEach(s.entry, LAMBDA x : machine.onEntry[x])
                        \o s.raises
                        \o DoneEvents(machine, s.leaves, s.entry)
        /\ snapshot' = Snap(machine, s.leaves)

\* step: an event nothing handles is dropped.
Step(ev, holds, queue) ==
    \E pending \in {Pending(machine, leaves, ev, holds)} :
        \/ /\ pending = <<>>
           /\ internal' = queue
           /\ UNCHANGED <<leaves, snapshot, lifecycle>>
        \/ /\ pending # <<>>
           /\ ApplyTransitions(pending, queue)

\* The deferred function of run.
Exit ==
    /\ pc' = "exited"
    /\ timers' = {}
    /\ invokes' = [s \in DOMAIN invokes |-> 0]
    /\ UNCHANGED <<leaves, internal, iter, entered, last, outCh, snapshot>>

\* Priority 1: internal events.
StepInternal(holds) ==
    /\ pc = "loop"
    /\ internal # <<>>
    /\ Step(Head(internal), holds, Tail(internal))
    /\ iter' = 0
    /\ UNCHANGED <<machine, pc, outCh>>

\* Priority 2: a round of tryAlways. When it finds nothing, run goes on to select.
TryAlways(holds) ==
    /\ pc = "loop"
    /\ internal = <<>>
    /\ iter < MaxAlwaysIter
    /\ \E pending \in {Pending(machine, leaves, AlwaysEvent, holds)} :
        \/ /\ pending = <<>>
           /\ pc' = "select"
           /\ iter' = 0
           /\ UNCHANGED <<leaves, internal, snapshot, lifecycle>>
        \/ /\ pending # <<>>
           /\ ApplyTransitions(pending, <<>>)
           /\ iter' = iter + 1
           /\ UNCHANGED pc
    /\ UNCHANGED <<machine, outCh>>

\* Mutant: tryAlways tries again without end.
AlwaysLoopRestarts ==
    /\ pc = "loop"
    /\ internal = <<>>
    /\ iter = MaxAlwaysIter
    /\ iter' = 0
    /\ UNCHANGED <<machine, leaves, internal, pc, outCh, snapshot, lifecycle>>

\* tryAlways panics; run recovers.
AlwaysLoopPanics ==
    /\ pc = "loop"
    /\ internal = <<>>
    /\ iter = MaxAlwaysIter
    /\ Exit
    /\ UNCHANGED machine

-----------------------------------------------------------------------------
(* Priority 3: select.                                                     *)

\* What callers send: the events of On. A type no state handles is dropped, and
\* callers are taken not to send the types reserved for done and timer events.
UserEvents ==
    {machine.transitions[k].on : k \in DOMAIN machine.transitions}
        \ ({AlwaysEvent} \cup {DoneEvent(s) : s \in StateIDs(machine)}
                         \cup {machine.after[s] : s \in StateIDs(machine)})

Receive(ev, holds) ==
    /\ pc = "select"
    /\ Len(leaves) <= MaxLeaves
    /\ Step(ev, holds, internal)
    /\ pc' = "loop"
    /\ UNCHANGED <<machine, iter, outCh>>

ReceiveTimer(holds) ==
    /\ pc = "select"
    /\ Len(leaves) <= MaxLeaves
    /\ outCh # <<>>
    /\ Step(machine.after[Head(outCh)], holds, internal)
    /\ outCh' = Tail(outCh)
    /\ pc' = "loop"
    /\ UNCHANGED <<machine, iter>>

\* The run context is cancelled.
Cancelled ==
    /\ pc = "select"
    /\ Exit
    /\ UNCHANGED machine

\* The callback of the timer of s, on the clock's goroutine.
TimerFires(s) ==
    /\ s \in timers
    /\ timers' = timers \ {s}
    /\ outCh' = IF Len(outCh) < TimerBuffer THEN Append(outCh, s) ELSE outCh
    /\ UNCHANGED <<machine, leaves, internal, pc, iter, entered, invokes, last, snapshot>>

-----------------------------------------------------------------------------
Guarded == {k \in DOMAIN machine.transitions : machine.transitions[k].guarded}

RunSteps ==
    \/ \E holds \in SUBSET Guarded : StepInternal(holds) \/ TryAlways(holds)
    \/ AlwaysLoopPanics

Next ==
    \/ RunSteps
    \/ \E holds \in SUBSET Guarded :
        \/ \E ev \in UserEvents : Receive(ev, holds)
        \/ ReceiveTimer(holds)
    \/ Cancelled
    \/ \E s \in StateIDs(machine) : TimerFires(s)

Spec == Init /\ [][Next]_interpVars

\* The run goroutine does not wait between two events.
FairSpec == Spec /\ WF_interpVars(RunSteps)

-----------------------------------------------------------------------------
(* Properties.                                                             *)

configuration == ToSet(ConfigurationOf(machine, leaves))

Chart == INSTANCE Statechart WITH config <- configuration

\* Every variable has its type: the leaves are atomic states, and the
\* scheduler's channel holds no more than it can.
TypeOK ==
    LET S == StateIDs(machine)
    IN  /\ Runnable(machine)
        /\ leaves # <<>>
        /\ \A i \in DOMAIN leaves : leaves[i] \in S /\ ~IsCompound(machine, leaves[i])
        /\ internal \in Seq(STRING \cup {DoneEvent(s) : s \in S})
        /\ pc \in {"loop", "select", "exited"}
        /\ iter \in 0..MaxAlwaysIter
        /\ entered \in [S -> Int] /\ invokes \in [S -> Nat]
        /\ timers \subseteq S
        /\ last \in [exit : Seq(S), entry : Seq(S)]
        /\ outCh \in Seq(S) /\ Len(outCh) <= TimerBuffer
        /\ snapshot = Snap(machine, leaves)

\* What the leaves stand for is a configuration of the statechart: one branch
\* through every OR state and all regions of every parallel state, however
\* applyTransitions has replaced leaves one by one.
LegalConfiguration == Chart!Legal(machine, configuration)

\* The states whose entry actions have run and whose exit actions have not, the
\* running invocations and the running timers are those of the active states:
\* the exit and entry sets of applyTransitions agree with the leaves it
\* computes. Nothing runs after the interpreter has exited.
LifecycleFollowsConfiguration ==
    LET active(s) == IF s \in configuration THEN 1 ELSE 0
    IN  /\ \A s \in StateIDs(machine) :
            /\ entered[s] = active(s)
            /\ invokes[s] = IF pc # "exited" /\ s \in machine.invokes THEN active(s) ELSE 0
        /\ timers \subseteq configuration
        /\ pc = "exited" => timers = {}

\* No state is exited before a state below it, nor entered before a state above
\* it, whichever transitions the exit and entry paths come from; and a compound
\* state that the step leaves and comes back to is not exited at all, so that
\* its timers and invocations go on ("shared ancestors are never re-entered").
ExitsAndEntriesInOrder ==
    /\ \A i, j \in DOMAIN last.exit :
        i < j => ~IsDescendantOf(machine, last.exit[j], last.exit[i])
    /\ \A i, j \in DOMAIN last.entry :
        i < j => ~IsDescendantOf(machine, last.entry[i], last.entry[j])
    /\ \A s \in ToSet(last.exit) \cap ToSet(last.entry) : ~IsCompound(machine, s)

\* Every step of run is a microstep of the statechart or leaves its
\* configuration as it is.
ImplementsStatechart == Chart!Spec

\* s has completed: builder.go's "all active leaves within the state are final".
Completed(s) ==
    /\ s \in configuration
    /\ \A i \in DOMAIN leaves : IsDescendantOf(machine, leaves[i], s) => leaves[i] \in machine.final

\* A step raises the done event of s only when s has completed, and does raise
\* it in the step that completes s.
DoneIffCompleted(s) ==
    LET count(q) == Cardinality({i \in DOMAIN q : q[i] = DoneEvent(s)})
    IN  /\ count(internal') > count(internal) => Completed(s)'
        /\ Completed(s)' /\ ~Completed(s) => count(internal') > 0

\* OnDone fires when a state completes and only then, for every state that has
\* no parallel state below it.
DoneTellsTruth ==
    [][\A s \in StateIDs(machine) :
        IsCompound(machine, s) /\ (\A q \in machine.parallel : ~IsDescendantOf(machine, q, s))
            => DoneIffCompleted(s)]_interpVars

\* A macrostep ends: after each event run comes back to select, or it exits on
\* the panic that tryAlways promises for an endless chain of Always.
MacrostepEnds == pc = "loop" ~> pc # "loop"

\* builder.go: every region of a parallel state is active until a transition
\* exits it, and then none is.
RegionsTogether ==
    \A q \in machine.parallel :
        LET regions == ToSet(Children(machine, q))
        IN  regions \cap configuration \in {{}, regions}

=============================================================================
