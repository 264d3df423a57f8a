# A verification development for statecraft

statecraft (`src/`) is a Go library for statecharts. A machine is built with `model`, compiled
once into an immutable `model.Machine`, and run by any number of `runtime.Service`s, each an
event loop on a goroutine of its own. `actor` names and supervises services, `persist` saves and
restores them, `testkit` runs a machine without goroutines or real time. This directory holds
TLA+ models of that code, TLC runs that check them on small instances, and TLAPS proofs for every
value of the constants.

    tlc -config MCService.cfg MCService            # one run; PROJECT.json lists them all
    tlapm ServiceProofs.tla                        # the proofs of one module

## 1. The system

| Component | Source | State it keeps | Operations | What is hard |
|---|---|---|---|---|
| Builder, options | `model/builder.go`, `action.go`, `guard.go`, `invoke.go`, `types.go` | a tree of `stateConfig`, built by one goroutine | State, Parallel, On, OnDone, After, Always, Initial, ... | options that overwrite one another |
| compile | `model/compile.go` | none | checks a definition and builds the `Machine` | what it accepts is what the interpreter must cope with |
| Machine | `model/machine.go` | immutable tree, definition order | transition resolution with bubbling; LCCA, entry and exit paths, leaf targets, configurations | trees that mix OR and AND states |
| Service | `runtime/service.go` | status, mailbox, `done`, run context, recorded panic | Start, Restore, Send, TrySend, Stop, Done, Err, Subscribe | callers, timers, invocations, panics and Stop interleave with the run goroutine |
| Interpreter | `runtime/service.go` | active leaves, internal queue, context, invocations, snapshot | step, tryAlways, applyTransitions, done events | parallel regions, chains of raised events, endless loops |
| Scheduler | `runtime/scheduler.go` | one entry per timer ID, channel of fired timers | Start, Cancel, CancelAll, the callback | a callback on a foreign goroutine races its cancellation; the channel is bounded |
| Subscribers | `runtime/subscriber.go` | a set of callbacks | Add, unsubscribe, Notify | callbacks added or removed during Notify |
| Actor, System | `actor/ref.go`, `actor/system.go` | registry; current service, stop and done channels, count of restarts | Spawn, Send, Stop, supervision | restart against Stop against Spawn |
| Persistence | `persist/persist.go` | a JSON checkpoint | Save, Restore | a snapshot taken between two links of a chain; what a checkpoint does not hold |
| Harness, MockClock | `testkit/` | a second interpreter, synchronous; a clock | Send, Tick, Advance, ... | whether it does what the runtime does |
| Core | `core/` | none | events, errors, `Clock` interface | - |
| Diagrams, facade, examples, benchmarks | `viz/`, `cmd/`, `statecraft.go`, `examples/`, `bench/` | none | text output, re-exports, demonstrations | - |

How they interact. Callers, invocations and timer callbacks each write to a channel that only the
run goroutine reads; the snapshot is an atomic value that only it writes; `status`, `done` and the
run context carry the shutdown. Start runs the entry actions and the InvokeFns of the initial
states on the *caller's* goroutine, before run exists. Subscribers, actions, guards and InvokeFns
are called on the run goroutine. A supervisor watches `done` and `Err` of one service after
another and swaps the pointer of the Ref.

What makes each component correct, and where it is stated:

* Service: events are handled once and in order, Stop leaves nothing running, every call returns,
  Err tells the truth (`Service`, with the contract in `EventQueue`).
* Interpreter and Machine: the list of leaves is always a configuration, what has been entered and
  started is what is active, exits and entries come in the right order, each step is a step of the
  statechart, every macrostep ends (`Interpreter`, with the contract in `Statechart`).
* Builder and compile: Build accepts the definitions its comments ask for, and what it
  accepts is what the interpreter relies on without asking (`Build`).
* Scheduler: the registered timers are those of the active states, none is forgotten, an event that
  is not of one of them is of a cancelled timer, none survives the teardown (`Scheduler`).
* Subscribers: everyone hears of every snapshot of its time, in order, and a callback may subscribe
  and unsubscribe (`Subscribers`).
* Actor: one service per Ref and one actor per name at a time, restarts within the limit, nothing
  left behind when a Stop returns (`Actor`).
* Persistence: whenever the checkpoint was taken, what is restored is consistent, and a service
  that was at rest resumes where it was (`Persist`).
* Harness: what a test sees is what a live service can do (`Harness`).

## 2. Modules

| Module | What it is |
|---|---|
| `EventQueue` | abstract: what a service promises about accepted events |
| `Service` | life of one service: Start, run, callers, invocations, panics, Stop, teardown |
| `Scheduler` | timers of one service, run goroutine and clock callbacks |
| `Subscribers` | Subscribe and unsubscribe against storeAndNotify |
| `Machine` | a compiled machine and its navigation functions |
| `Microstep` | what one event does to the leaves: the functions that `runtime` and `testkit` both have |
| `Statechart` | abstract: the microstep semantics on sets of active states |
| `Interpreter` | leaves, internal queue, Always, done events, lifecycles, snapshot; uses `Microstep` |
| `Persist` | extends `Interpreter`: Save, crash, Restore, later releases of the machine |
| `Harness` | the synchronous interpreter of tests; uses `Microstep`, compared with `Interpreter` |
| `Build` | the calls of the builder, and compile, which makes a machine of `Machine` |
| `Actor` | Spawn, registry, supervision, the two Stops, Send through a Ref |
| `MachineLibrary` | machines to check with: fixtures of the tests, examples, combinations |
| `MC...` | instances for TLC |
| `ServiceProofs`, `SchedulerProofs`, `SubscribersProofs`, `ActorProofs`, `BuildProofs`, `HarnessProofs` | theorems about the module each is named for |
| `InterpreterProofs` | theorems about `Interpreter` and `Persist` |
| `MicrostepProofs` | lemmas about the operators of `Machine` and `Microstep` |

### How state and actions correspond to the code

**Service.** `loop` is the program counter of the goroutine that executes Start and then run:
`enter`, `invokes` (the InvokeFn loop of Start), `invoke` (inside an InvokeFn), `select`, `step`
(anything before the first select or between two), then one value per statement of run's deferred
function. `status`, `mailbox`, `done`, `panicErr` are the fields; `ctxDone` is the run context. `call[c]` says between
which two instructions of Send or TrySend client `c` stands: the status test and the select are
separate steps, because run and Stop get in between. `stop[p]` is the same for Stop. What an event
does to the statechart is left open: at `step` run may start or cancel invocations and timers, or
panic. `late` and `handled` are history variables. A client that is an invocation calls `send` on
a goroutine of its own, or, if it is in `SyncInvokes`, before the InvokeFn returns.
`mailboxSize` is the capacity the service was started with, any of `MailboxSizes`; when it is 0 the
channel has no buffer and `SendHandedOver` is its rendezvous.

**Scheduler.** Each call of Scheduler.Start is an entry with a number; `entries` is the map,
`cancelled` the flags, `cb[g]` the clock's timer and then the callback of entry `g`
(`pending`, `called`, `checked`, `sent`, ...). A transition of the machine is any set of exits
followed by any set of entries, as `applyTransitions` does them. `CheckFlag` and `SendFire` are
separate, and so are setting the flag and stopping the timer. The mutex guards a map that only the
run goroutine touches, so a map operation is merged with the first effect after it.

**Subscribers.** `op[t]` is the lock that goroutine `t` waits for: Add has taken its ID by then,
which is a step of its own. `pc` divides storeAndNotify into the store, RLock, the copy (`fns`) and
the calls; while a callback runs (`inCall`) the run goroutine may itself begin an `op`, and the
callback cannot return before that is done. `heard` is what each subscriber was called with;
`since` and `until` delimit its time: a subscriber registered between the store and the copy hears
of that snapshot, one registered after the copy of the next, and one that is removed while its
snapshot is being notified may still be called. Callbacks make at most one call each.

**Machine, Microstep, Interpreter.** A machine is a record (see the head of `Machine`). `leaves`,
`internal`, `snapshot` and `invokes` are the fields of Service; `entered` counts the entries less
the exits of each state; `last` records the exit and entry order of the last transition. An action
is one pass of the loop of run or one round of tryAlways, complete with exits, actions, entries,
done events and the snapshot. Guards read a context that is abstracted to `holds`, the guarded
transitions whose guard passes in this step: guards can change from step to step, but not within
one. Entry, exit and transition actions keep only the events they raise. The functions of
applyTransitions and raiseDoneEvents that the harness repeats line for line are in `Microstep`.

**Persist.** `Save` may happen in any state of the interpreter, between two links of a chain too;
`disk` is the last checkpoint, and the user context in it is abstracted to `entered`, what entry and
exit actions would have written there. `Crash` loses everything else. `RestoreAs` is Restore for
the same machine or for a later release of it: it checks the leaves (an unknown or compound one is
refused), starts timers and invocations, runs no entry action and raises nothing. `resumed` is the
checkpoint until the next event is taken, a history variable.

**Harness.** `pc` is `ready` between calls and between the events of a Tick, `collect` in the loop
of advance, `flush` in that of flush, or `panicked`. `pending` is the synchronous scheduler, with
what is left of each delay instead of the time; `batch` are the fired timers that Tick has still to
deliver. `AgreesWithRuntime` maps this state to that of `Interpreter` and says that every step is
one of its steps, or none, but for two differences that are named: flush takes the Always of one
region at a time where the runtime takes them all (`SeveralAlways`), and an InvokeFn that sends
before it returns is heard at once, not through the mailbox (`SendsOnEntry`).

**Build.** `cfg` is the machineConfig, a list of states with their parents; `open` are the configure
callbacks on the stack, so that every nesting of State, Parallel, On, Always, After, ... is a
behaviour. compile is a list of checks in their order, of which the first that fails gives the
error, and then the machine as a record of `Machine`. An action is abstracted to one per transition.

**Actor.** A call of Spawn is a Ref; `args[r]` are its name and its strategy. `svcs[r]` are the
services the Ref has had, of which only the phase and the recorded panic are kept: `Service` shows
that a stopped or panicked service ends. `sup[r]` is the program counter of supervise, `spawn[r]`
of Spawn, `sysStop` of the function given to `once`. Send is split into the load of the pointer,
the status test and the answer.

## 3. Runs

Passing runs.

| Run | Instance | What it shows |
|---|---|---|
| `service` | 1 sender, 2 stoppers, 1 asynchronous invocation, mailbox of 0, 1 or 2 | `TypeOK`, `ReleasedWhenStopReturns`, `ErrTellsWhy`, `RefusedAfterDone`, and `ImplementsQueue`: refinement of `EventQueue`; `EveryCallReturns`, `AcceptedIsHandled` |
| `scheduler` | 2 states, 3 timers, 3 starts, channel of 1 | `TypeOK`, `TimersMatchActive`, `NoOrphanTimer`, `QuietAfterTeardown`, `FireIsLiveOrCancelled`; `TimerReachesRun` |
| `interpreter` | 10 machines (fixtures of the tests, examples, combinations of features), and every machine over 5 states with 1 transition or 4 with 2 that keeps regions together | `TypeOK`, `LegalConfiguration`, `LifecycleFollowsConfiguration`, `ExitsAndEntriesInOrder`, `DoneTellsTruth`, and `ImplementsStatechart`: refinement of `Statechart` |
| `persist` | 6 machines, saved at any moment; one of them under 2 later releases | `RestoredConsistent`, `ResumesWhereItRested`; `MacrostepEnds`, crashes and restores included |
| `harness` | 10 machines with timers, Always, raised events; Ticks of up to 3 | `ActiveAndOnTime`, `AgreesWithRuntime` (refinement but for two named cases); `EveryCallEnds` |
| `subscribers` | 1 goroutine and the callbacks, 3 subscribers, 3 snapshots | `NoUpdateMissed`; `EveryCallReturns` (no callback deadlocks) |
| `build` | every definition with up to 3 states and 1 other call, in any order and nesting | `BuildIsSound`, `ErrorsAreTrue` |
| `actor` | 2 calls of Spawn for 1 or 2 names, one actor that restarts and one that does not, 2 panics each, 1 closer, 1 sender | `TypeOK`, `NothingLeftBehind`, `OneServiceAtATime`, `RestartsWithinLimit`, `OneActorPerName`, `RefusedForAReason`; `EveryStopReturns`, `PanicIsRepaired` |

Runs that end in a violation. Each states what a document or a comment of the repository says and
shows a behaviour of the code that disagrees; PROJECT.json quotes the lines.

| Run | Statement | What happens |
|---|---|---|
| `scheduler_stale` | `NoStaleFire` | the event of a cancelled timer is taken for that of the timer started since |
| `interpreter_torn` | `RegionsTogether` | a region that handles the same event as its parallel state stays behind |
| `actor_stop_all` | `SystemStopStopsAll` | an actor registered after Stop of the System copied the handles runs on |
| `build_after_guard` | `GuardsKept` | `After(d, target, When(g), Do(a))` compiles to a transition without a guard |

The limits of the passing run of the interpreter follow from these. `MCInterpreter` keeps
the transitions that neither enter a region from outside, nor leave a parallel state from one
region alone, nor restart a parallel state from within, and drops conflicts between a region and
what contains it. Within that class the interpreter does implement the statechart; outside it,
`interpreter_torn` shows how it does not. The machines of the run `harness` have, besides, no Always of a
parallel state or of a state around one (`AlwaysInside`): stepAlways (harness.go:306-318) applies the
first enabled Always for the leaf that offers it alone. When the transition is that of the parallel
state, that leaf goes to the target while the other regions stay active without their parallel state,
or take the same transition once more in the next round and enter the target twice.

Other things a reader of the documents may not expect, all of them behaviours of the code that the
models have or whose exclusion is a bound:

* An InvokeFn that sends before it returns fills the mailbox that only its own goroutine drains;
  the send then blocks for ever, and so does Stop. `SyncInvokes` models it; the run keeps it empty.
* A Send that passed its status test before Stop may be accepted after the service is done
  (`SendAccepted` does not look at `done`); `RefusedAfterDone` is about calls that begin later.
* Only a callback that has not tested its flag is silenced by Cancel. An event that is sent later, or is
  in the channel already, moves the machine if the state has been entered again by the time run takes
  it: `scheduler_stale`. `FireIsLiveOrCancelled` says what does hold: no other event is ever stale.
* Leaving a parallel state leaves its target in `leaves` once per region, and the duplicates
  multiply with the next parallel state. `LegalConfiguration` is about the set of leaves.
* A self-transition of a parallel state enters shared ancestors again without leaving them. One of an
  atomic region restarts that region alone, where SCXML would restart the parallel state around it;
  `Statechart` does as the code does.
* A compound state around a parallel one is done with its first region; `DoneTellsTruth` is about
  the compound states with no parallel state below.
* The limit of tryAlways is per call, so a cycle of Always that raises an event escapes it:
  `MacrostepEnds` is checked on machines without such a cycle.
* Every link of a chain of raised events publishes a snapshot. A checkpoint taken there loses the
  rest of the chain, done events included: `RestoredConsistent` holds all the same, and
  `ResumesWhereItRested` is about services that were at rest.
* Restore accepts leaves that are not a configuration of the machine, such as those of a release
  that has since added a region. The releases of `MCPersist` remove or refine states.
* Build accepts a parallel state with no children, which contradicts the comment and the error at
  compile.go:96-99 ("must have at least 2 regions"): the check stands inside the test that there are
  children. `BuildIsSound` says which definitions are accepted against the comment, those that are
  acceptable but for the states in `Childless`.
* Initial may name a state inside a region, and a service then starts in part of a configuration.
  Build accepts it; `BuildIsSound` asks for a legal start only of the other machines.
* The number that Tick returns counts only the timer events that changed something.
* Between a panic and the store of the new service Send through a Ref is refused;
  `RefusedForAReason` says that nothing else but a Stop refuses it.
* A name stays taken after its actor has stopped.

### Bounds

* Two stoppers race each other, and so do Stop of two Refs and of their System; an event of the sender and one of
  the invocation race for a mailbox of one slot, and lie in order in one of two.
* `TimerBuffer = 1`: a channel of fired timers that is full after one.
* `MaxStarts = 3` lets a timer be started and started again while another one is alive.
* `MaxAlwaysIter = 4` in place of 1000, `FlushLimit = 8` likewise: every machine here either settles
  in fewer rounds or never.
* `MaxLeaves = 4` (3 in `persist`): events are taken while there are no more leaves than that,
  because the duplicate leaves of a parallel state that is entered again multiply without end.
* `MaxTick = 3`: one Tick can pass every delay there is, so that timers are due together.
* `MaxSubs = 3`, `MaxSnaps = 3`: a subscriber removed and another added between two others, over
  consecutive snapshots.
* `MaxStates = 3`, `MaxDetails = 1`: a parallel state with two regions, a duplicate, a reference
  backwards, forwards, into a region, to itself or to nothing, next to any one other call.
* `MaxPanics = 2`: enough to exceed RestartN with a limit of one. The second actor of `actor` does not
  restart: two that do add nothing but interleavings, as the services of one Ref never touch the other's.
  The six safety properties of the run are proved for any number of actors and any strategies.
* `scheduler_stale` leaves out the restart of a timer whose state was not exited, so that what it shows
  is an exit and a new entry.

The proofs of section 4 have none of these bounds: they hold for every value of the constants.

* Every MC configuration sets CHECK_DEADLOCK FALSE: a stopped service, system or interpreter takes
  no more steps, a crashed process without a checkpoint is not restarted, Build is the last call,
  and bounded clients fall silent.

### Fairness

Goroutines that can run do so in the end (WF on their steps): that is Go's scheduler. This goes for
run, the stoppers, the supervisors, and the caller's goroutine inside a call of the harness. A
`select` with several ready cases chooses at random, so a case that is ready again and again is
chosen (SF on the cases of run's select and of supervise's stop case); a channel serves blocked
senders in order (SF on a pending send); a RWMutex does not starve those who wait for it (SF on the
lock of `Subscribers`). Timers expire (WF). Actions, guards, subscribers and InvokeFns are assumed
to return. Nobody has to call Send, Stop, Spawn, Subscribe, Save or Tick, and nothing has to crash:
no fairness there.

## 4. Proofs

All are proved for every value of the constants that meets the named assumptions. A hypothesis beyond
them stands in the theorem's statement and is explained with it.

`ServiceProofs` (`ServiceAssumption`: sizes are naturals, the timer buffer is not empty, senders
and invocations are different goroutines):

* `TypeCorrect`: `Spec => []TypeOK`;
* `StopReleases`: `Spec => []ReleasedWhenStopReturns`;
* `ErrIsTruthful`: `Spec => []ErrTellsWhy`;
* `LateCallsRefused`: `Spec => RefusedAfterDone`, an action property;
* `ServiceImplementsQueue`: `Spec => ImplementsQueue`, the refinement of `EventQueue`.

The safety properties are not inductive. `IInv` adds to the types three parts: `TeardownInv`, what
is finished at each point of the deferred function; `StopInv`, that at most one stopper has got
through the compare-and-swap and not yet cancelled, that nobody has returned before `done`, and
that the goroutine tears down only for a reason; `CallInv`, that a call past its status test began
before `done` was closed. `StepIInv` has one step per action. The refinement needs three facts
about sequences (`TakeFromConcat`, `AppendToConcat`, `AppendIsNew`), because the abstract queue is
`handled \o mailbox`; `SendWrites`, `TakeReads`, `QuietSteps` and `OpenSteps` say what each kind of
step does to it, and `StepQueue` combines them.

`SchedulerProofs` (`SchedulerAssumption`: finitely many timers, each with an owner): `TypeCorrect`;
`TimersFollowStates` (`TimersMatchActive`); `NoTimerIsOrphaned` (`NoOrphanTimer`); `TeardownIsQuiet`
(`QuietAfterTeardown`, and that after the teardown no callback passes its flag any more: one that is
past it may still send, to a channel that nobody reads); `FiresAreLiveOrCancelled`
(`FireIsLiveOrCancelled`). `IInv` adds to `TimersMatchActive`, which is about the select only, `WorkInv`:
in the middle of a transition what is still to be cancelled and started makes up the difference between
the map and the active states. `MapInv` keeps entries under their own IDs; `FlagInv` says that an entry
whose flag is not set is registered, whatever its callback has done; `UnusedInv` and `FireInv` that what is in
the channel was sent by a callback of an entry that was started. `RoomInv` keeps the bound on the calls of Start.

`SubscribersProofs` (`SubscribersAssumption`): `NothingIsMissed` (`NoUpdateMissed`), for any number
of goroutines, subscribers and snapshots. `IInv` is `Types`; `RunInv`, what run is doing; `FreshInv`,
that an ID waits for the lock on one goroutine only and has no history before; and `HeardInv`, how
far each subscriber has come at each point of storeAndNotify.

`ActorProofs` (`ActorAssumption`): `TypeCorrect`; `StopLeavesNothing` (`NothingLeftBehind`);
`OneAtATime` (`OneServiceAtATime`); `LimitHolds` (`RestartsWithinLimit`); `NamesAreUnique`
(`OneActorPerName`); `RefusalsHaveReasons` (`RefusedForAReason`, an action property). `IInv` has,
for each Ref, `CountInv`, which ties the number of services, the pointer and the restarts to the
points of Spawn and supervise, and `ServicesInv`, that a service which was replaced, or is about to
be, is done and has panicked, and that none goes down without a reason; then `NameInv`, who holds a
name; `StopInv`, whom Stop of the System has waited for; and `SendInv`, that a send under way has a
service. `Local` reduces most steps to the Ref they belong to, and `Frame` says what the others keep.

`MicrostepProofs` has what the modules below rest on: what the functions of `Machine` and
`Microstep` return for every machine. `WellFormed` (`Machine`) says that a machine is a forest whose
references exist, and `Runnable` (`Microstep`) that it has the fields the interpreter reads;
`BuildProofs` shows that what compile accepts is `WellFormed`. The navigation functions are recursive,
and their values are established without an induction rule: a set of naturals that is not empty has a
least element (`LeastNat`), so a recursive function that failed for some depth or length would fail
for a least one. On top of this:

* paths: `ChainShape`, `EntryPathIs`, `ExitPathIs`, `LeafTargetsAre`: what is on them and in which order;
* resolution: `ResolveIs`, that the first enabled transition of the innermost state wins, and
  `PendingIs`, one for each leaf that has any;
* a macrostep: `MacrostepExits`, `MacrostepEntries`, `MacrostepLeaves`: what is exited, entered and left
  in `leaves`, each state once, inner before outer on the way out and outer before inner on the way
  in, after the de-duplication and the sort of applyTransitions;
* configurations: `Whole(m, L)` says of leaves `L` that any two lie in two regions of one parallel
  state and that no region is missing, and `WholeIsLegal` that they and the states around them are then
  a configuration of the statechart. A macrostep of a machine that keeps its regions takes whole leaves
  to whole leaves (`StaysWhole`), and does to them what its transitions, taken on sets of states, do
  (`EventMoves`);
* done events: `StepCompletes`, when a macrostep completes a compound state, and how often an event
  is in what it raises (`CountAppended`, `CountTail`).

`InterpreterProofs`:

* `TypeCorrect`: `Spec => []TypeOK`, from `InterpreterAssumption`;
* `ConfigurationsAreLegal` (`LegalConfiguration`), `LifecycleIsFollowed`
  (`LifecycleFollowsConfiguration`), `OrderIsKept` (`ExitsAndEntriesInOrder`), from `RegionsInv`:
  types, whole leaves, and entries, invocations and timers that are those of the active states. The
  legality of the configuration alone is not inductive, because the code replaces leaves one by one,
  with duplicates, and never looks at the configuration;
* `ImplementsChart`: `Spec => ImplementsStatechart`, the refinement of `Statechart`: the initial
  leaves are its initial configuration, each round is a microstep of it, every other step a stutter;
* `DoneIsTold`: `Spec => DoneTellsTruth`, an action property.

All but the first are about machines with `KeepsRegions` (`Machine`): no transition enters a region
from outside, leaves a parallel state from one region alone, or restarts it from within, and no event
is handled both in a region and around it. The code does not check this, and without it the theorems
are false: that is what `interpreter_torn` shows. `DoneIsTold` also asks for `DoneIsReserved`
(`Microstep`): different states have different done events (the names are concatenated, which the
provers do not reason about), and actions do not raise them, as `core/event.go:6` asks. TLC evaluates
both for the machines of `MCInterpreter`.

About `Persist`, for every line of releases (`Lineage`): all keep their regions, and a
leaf that two releases share lies in the same states, with the same regions where these are parallel.
Restore itself asks only that leaves are leaves, and could not do with less than that: a release that
adds a region is restored to part of a configuration. TLC evaluates `Lineage` for the releases of
`MCPersist`.

* `RestoredIsConsistent` (`RestoredConsistent`) and `ResumesAtRest` (`ResumesWhereItRested`), from
  `PersistInv`: `RegionsInv` while the service is up, `Sound(disk)`, that a checkpoint is of whole
  leaves of its machine with the entries and invocations of their configuration, and `AtRest`, that
  a service that waits in its select has nothing queued and, if no guard can change, no Always to take.

`HarnessProofs` (`HarnessAssumption`: machines are runnable and delays positive): `NothingOverdue`
(`ActiveAndOnTime`), for machines with `KeepsRegions` and `AlwaysInside` (`Harness`: no Always of a
parallel state or of a state around one); TLC evaluates both for the machines of `MCHarness`, and
section 3 says what happens without the second. `HarnessInv` has whole leaves, entries and
invocations that are those of the active states, and of the timers that each belongs to an active
state, is the only one of it and has at most its delay left; that none is overdue holds only outside the
loop of advance, where Tick has taken its time from all of them and not collected those that are
due. `AfterStepIs` says what stopStateTimers and startStateTimers leave behind, and `FirstFires` that the
one transition stepAlways takes moves its leaf as an event would; the rest follows from the lemmas
about one event that also serve the interpreter (`FiredPaths`, `LeavesLeft`, `PathsMatchLeaves`).

`HarnessAgrees` (`AgreesWithRuntime`) needs none of these hypotheses on the machine. It is the
refinement step by step: `Spec /\ []Fits => AgreesWithRuntime`, where `Fits` says that there are at
most 64 leaves and 64 events of timers to deliver. The second is the channel of the service's
scheduler, which drops what comes beyond it while the harness keeps a slice; the first is the bound
that `Interpreter` puts on its leaves. The operators of `Machine` and `Microstep` that `Interpreter`
brings with it are shown to be those of `Harness` (`LiveMachine`, `LiveMacrostep`, `LiveSteps`);
`ApplyIsLive` then compares the two applyTransitions, with `TimersKeep` for the timers, of which
`AgreeInv` says that no state has two. That needs `MacrostepEntries`: a step, of however many
regions, enters no state twice. There is a lemma for each kind of step (`FlushIsLive`, `CallIsLive`,
`CollectIsLive`, `OthersAreStutters`) and `NextIsLive` puts them together.

`BuildProofs` (`BuildAssumption`: IDs are not empty and one is unused; the events of On, done events,
the events of timers and that of Always differ): `BuildAcceptsTheSound` (`BuildIsSound`) and
`ErrorsTellTruth` (`ErrorsAreTrue`), for any number of states and calls. `Typed` is the invariant: the
types of the definition, that a state comes after its parent, and that what was built is what compile
makes of this definition. `Only(q, E)` says of a list of checks that each result is in `E`;
`ChecksOnly` says for any `E` what the definition must then be like, where the recursion of compileTree
is resolved because children come after their parents (`SubtreeUnfolds`, `TreeOnly`). With `E` the
results that have a reason in the definition it gives `ErrorsTellTruth`; with `E` the result "nil" it
gives `AcceptedIs`, and `CompiledIsWellFormed` shows of the machine then made that it is `WellFormed`:
the hypothesis of everything in `MicrostepProofs` is a theorem about compile. `StartsLegal` follows
from the same lemmas as `ConfigurationsAreLegal`.

Only model-checked: all liveness, as the prover has neither liveness under fairness nor ENABLED.

## 5. Not modelled

* The user context and the values of events: guards are arbitrary choices, actions keep the events
  they raise. Several `After` of one state are one timer in `Interpreter`; `Scheduler` has several.
* A panic in an entry action during Start (it is raised on the caller's goroutine or on that of
  supervise, and nothing recovers it).
* Actions that call Stop of their own service, Ref or System: they wait for themselves.
* Callers that send events with the reserved types of done and timer events.
* The JSON encoding of checkpoints, and checkpoints that are not JSON.
* MockClock: to `Scheduler` it is one more clock whose callbacks may come after their timer was
  stopped.
* The harness's assertions and its record of steps; the inspection API of `Machine`: they only read.
* Diagrams, facade, examples and benchmarks: text generation, re-exports and demonstrations.

## 6. Plan

1. `Runtime`: a composition of `Service`, `Scheduler` and `Interpreter` for one machine, and an
   abstract timer contract that `Scheduler` implements.
2. `Actor`: a Start that panics, and a service that stops its own Ref.
