------------------------------- MODULE Build --------------------------------
(***************************************************************************)
(* The builder of machines and its compiler (src/model/builder.go,         *)
(* src/model/compile.go): the calls that fill a machineConfig, in any      *)
(* order the nesting of their callbacks allows, and compile, which turns   *)
(* it into a machine of Machine or refuses it.                             *)
(* An action is abstracted to its number among those of a transition;      *)
(* Entry, Exit and Invoke, which compile copies, are left out.             *)
(***************************************************************************)
EXTENDS Machine

CONSTANTS
    Names,      \* the IDs of states in the order they are first used
    Unknown,    \* an ID that no state has
    Event,      \* the event of On
    Options,    \* the options of a transition: sequences of "When" and "Do"
    MaxStates,  \* bound: calls of State and Parallel
    MaxDetails  \* bound: calls inside callbacks, apart from those

AfterEvent(s) == "statecraft.after." \o s \o ".after[0]"  \* afterEventType

ASSUME BuildAssumption ==
    /\ None \notin ToSet(Names) /\ Unknown \notin ToSet(Names) \cup {None}
    /\ Event # AlwaysEvent
    /\ \A s \in ToSet(Names) \cup {None} : DoneEvent(s) \notin {Event, AlwaysEvent}
    /\ \A s \in ToSet(Names) : AfterEvent(s) \notin {Event, AlwaysEvent, DoneEvent(s)}
    /\ MaxStates \in Nat /\ MaxDetails \in Nat

VARIABLES
    cfg,     \* b.cfg; its states in the order of their calls, each with its parent
    open,    \* the states whose configure callbacks run, outermost first
    details, \* calls inside callbacks so far, apart from State and Parallel
    result   \* what Build has returned: [err, machine]

buildVars == <<cfg, open, details, result>>

Unbuilt == [err |-> "pending"]

Init ==
    /\ \E id \in {"machine", None} : cfg = [id |-> id, initial |-> None, states |-> <<>>]
    /\ open = <<>>
    /\ details = 0
    /\ result = Unbuilt

-----------------------------------------------------------------------------
(* Builder and StateBuilder.                                               *)

Used == {cfg.states[i].id : i \in DOMAIN cfg.states}

\* A name used before, the next one, or none at all.
Fresh ==
    Used \cup {None} \cup
        {Names[i] : i \in {k \in DOMAIN Names : \A j \in 1..(k-1) : Names[j] \in Used} }

References == ToSet(Names) \cup {Unknown, None}

\* The state of the innermost callback.
Here == Last(open)
InCallback == open # <<>>

\* A call of the Builder. Bound: the initial state is declared once.
Initial(s) ==
    /\ result = Unbuilt
    /\ ~InCallback
    /\ cfg.initial = None
    /\ cfg' = [cfg EXCEPT !.initial = s]
    /\ UNCHANGED <<open, details, result>>

\* State and Parallel, of the Builder and of a StateBuilder.
State(s, parallel) ==
    /\ result = Unbuilt
    /\ Len(cfg.states) < MaxStates
    /\ cfg' = [cfg EXCEPT !.states = Append(@,
                [id |-> s, parent |-> IF InCallback THEN Here ELSE 0, parallel |-> parallel, final |-> FALSE,
                 initialChild |-> None, transitions |-> <<>>, after |-> <<>>, always |-> <<>>])]
    /\ open' = Append(open, Len(cfg.states) + 1)
    /\ UNCHANGED <<details, result>>

CallbackReturns ==
    /\ result = Unbuilt
    /\ InCallback
    /\ open' = Front(open)
    /\ UNCHANGED <<cfg, details, result>>

\* A call of the StateBuilder of the innermost callback.
Detail ==
    /\ result = Unbuilt
    /\ InCallback
    /\ details < MaxDetails
    /\ details' = details + 1
    /\ UNCHANGED <<open, result>>

InitialChild(s) ==
    /\ Detail
    /\ cfg' = [cfg EXCEPT !.states[Here].initialChild = s]

Final ==
    /\ Detail
    /\ cfg' = [cfg EXCEPT !.states[Here].final = TRUE]

\* The options one after the other on the same transitionConfig.
Applied(opts) ==
    [guarded |-> Contains(opts, "When"), actions |-> Len(SelectSeq(opts, LAMBDA o : o = "Do")), opts |-> opts]

\* Each option on a transitionConfig of its own, whose guard replaces that of
\* the options before and whose actions are appended to theirs.
AppliedApart(opts) ==
    [Applied(opts) EXCEPT !.guarded = opts # <<>> /\ Last(opts) = "When"]

\* On; OnDone is On with the done event of the state.
On(event, target, opts) ==
    /\ Detail
    /\ cfg' = [cfg EXCEPT !.states[Here].transitions = Append(@,
                [event |-> event, target |-> target, how |-> Applied(opts)])]

Always(target, opts) ==
    /\ Detail
    /\ cfg' = [cfg EXCEPT !.states[Here].always = Append(@,
                [event |-> AlwaysEvent, target |-> target, how |-> Applied(opts)])]

\* Bound: one for each state, as in Machine.
After(delay, target, opts) ==
    /\ Detail
    /\ cfg.states[Here].after = <<>>
    /\ cfg' = [cfg EXCEPT !.states[Here].after = Append(@,
                [delay |-> delay, target |-> target, how |-> AppliedApart(opts)])]

-----------------------------------------------------------------------------
(* compile: the errors in the order of its checks, "nil" for a check       *)
(* passed. The first that is not "nil" is returned.                        *)

Known(c) == {c.states[i].id : i \in DOMAIN c.states}

ChildrenOf(c, i) == Filter([k \in DOMAIN c.states |-> k], LAMBDA k : c.states[k].parent = i)

Check(ok, err) == <<IF ok THEN "nil" ELSE err>>

\* collectStateIDs.
IDChecks(c) ==
    FlattenSeq([i \in DOMAIN c.states |->
        Check(c.states[i].id # None, "ErrInvalidMachine")
            \o Check(\A j \in 1..(i-1) : c.states[j].id # c.states[i].id, "ErrDuplicateState")])

\* Mutant: a target must have been declared before.
TargetChecksSoFar(c, i, target) ==
    Check(target # None /\ \E j \in 1..i : target = c.states[j].id,
          IF target = None THEN "ErrInvalidMachine" ELSE "ErrUnknownTarget")

TargetChecks(c, i, target) ==
    Check(target # None /\ target \in Known(c),
          IF target = None THEN "ErrInvalidMachine" ELSE "ErrUnknownTarget")

\* compileNode.
NodeChecks(c, i) ==
    LET s == c.states[i]
    IN  FlattenSeq([k \in DOMAIN s.transitions |-> TargetChecks(c, i, s.transitions[k].target)])
        \o FlattenSeq([k \in DOMAIN s.after |->
                Check(s.after[k].delay > 0, "ErrInvalidMachine") \o TargetChecks(c, i, s.after[k].target)])
        \o FlattenSeq([k \in DOMAIN s.always |->
                TargetChecks(c, i, s.always[k].target)
                    \o Check(s.always[k].target # s.id \/ s.always[k].how.guarded, "ErrInvalidMachine")])

\* Mutant: the initial child may be any state.
InitialChecksKnown(c, i) ==
    LET s    == c.states[i]
        kids == ChildrenOf(c, i)
    IN  IF kids = <<>> THEN <<>>
        ELSE IF s.parallel THEN Check(Len(kids) >= 2 /\ s.initialChild = None, "ErrInvalidMachine")
        ELSE Check(s.initialChild = None \/ s.initialChild \in Known(c), "ErrInvalidMachine")

\* What compileTree asks once the children of a state are compiled.
InitialChecks(c, i) ==
    LET s    == c.states[i]
        kids == ChildrenOf(c, i)
    IN  IF kids = <<>> THEN <<>>
        ELSE IF s.parallel THEN Check(Len(kids) >= 2 /\ s.initialChild = None, "ErrInvalidMachine")
        ELSE Check(\/ s.initialChild = None
                   \/ \E k \in ToSet(kids) : c.states[k].id = s.initialChild, "ErrInvalidMachine")

\* compileTree below and with each state.
SubtreeChecks(c) ==
    LET tree[i \in DOMAIN c.states] ==
            NodeChecks(c, i)
                \o FlattenSeq([k \in DOMAIN ChildrenOf(c, i) |-> tree[ChildrenOf(c, i)[k]]])
                \o InitialChecks(c, i)
    IN  tree

\* compileTree for the top level, 0.
TreeChecks(c) ==
    LET tree == SubtreeChecks(c)
    IN  FlattenSeq([k \in DOMAIN ChildrenOf(c, 0) |-> tree[ChildrenOf(c, 0)[k]]])

Checks(c) ==
    Check(c.id # None, "ErrInvalidMachine")
        \o Check(c.states # <<>>, "ErrInvalidMachine")
        \o Check(c.initial # None, "ErrNoInitialState")
        \o IDChecks(c)
        \o Check(c.initial \in Known(c), "ErrUnknownState")
        \o TreeChecks(c)

\* The compiled states: those of Machine's record.
Compiled(c) ==
    LET order   == [i \in DOMAIN c.states |-> c.states[i].id]
        at(s)   == CHOOSE i \in DOMAIN order : order[i] = s
        from(i, t) == [from |-> order[i], on |-> t.event, to |-> t.target, guarded |-> t.how.guarded,
                       raises |-> <<>>, how |-> t.how]
        timed(i, t) == from(i, [event |-> AfterEvent(order[i]), target |-> t.target, how |-> t.how])
        all(i)  == LET s == c.states[i]
                   IN  [k \in DOMAIN s.transitions |-> from(i, s.transitions[k])]
                        \o [k \in DOMAIN s.after |-> timed(i, s.after[k])]
                        \o [k \in DOMAIN s.always |-> from(i, s.always[k])]
        first(s) == LET kids == ChildrenOf(c, at(s))
                    IN  IF kids = <<>> \/ c.states[at(s)].parallel THEN None
                        ELSE IF c.states[at(s)].initialChild # None THEN c.states[at(s)].initialChild
                        ELSE order[Head(kids)]
    IN  [order       |-> order,
         parent      |-> [s \in ToSet(order) |->
                            LET p == c.states[at(s)].parent IN IF p = 0 THEN None ELSE order[p]],
         initial     |-> [s \in ToSet(order) |-> first(s)],
         start       |-> c.initial,
         parallel    |-> {s \in ToSet(order) : c.states[at(s)].parallel},
         final       |-> {s \in ToSet(order) : c.states[at(s)].final},
         transitions |-> FlattenSeq([i \in DOMAIN c.states |-> all(i)])]

Compile(c) ==
    LET checks == Checks(c)
        failed == {k \in DOMAIN checks : checks[k] # "nil"}
    IN  IF failed # {} THEN [err |-> checks[Min(failed)]] ELSE [err |-> "nil", machine |-> Compiled(c)]

\* Build; MustBuild panics where Build returns an error.
Build ==
    /\ result = Unbuilt
    /\ ~InCallback
    /\ result' = Compile(cfg)
    /\ UNCHANGED <<cfg, open, details>>

-----------------------------------------------------------------------------
Next ==
    \/ \E s \in References : Initial(s) \/ InitialChild(s)
    \/ \E s \in Fresh, parallel \in BOOLEAN : State(s, parallel)
    \/ CallbackReturns
    \/ Final
    \/ \E target \in References, opts \in Options :
        \/ InCallback /\ \E event \in {Event, DoneEvent(cfg.states[Here].id)} : On(event, target, opts)
        \/ Always(target, opts)
        \/ \E delay \in 0..1 : After(delay, target, opts)
    \/ Build

Spec == Init /\ [][Next]_buildVars

-----------------------------------------------------------------------------
(* Properties.                                                             *)

\* What the comments and the errors of builder.go and compile.go ask of a
\* definition, of the parallel states in E nothing about their regions.
AcceptableExcept(E) ==
    LET S    == DOMAIN cfg.states
        kids(i) == {k \in S : cfg.states[k].parent = i}
        outgoing(i) == ToSet(cfg.states[i].transitions) \cup ToSet(cfg.states[i].always) \cup ToSet(cfg.states[i].after)
    IN  /\ None \notin {cfg.id} \cup Used
        /\ cfg.initial \in Used
        /\ Cardinality(Used) = Len(cfg.states)
        /\ \A i \in S :
            /\ \A t \in outgoing(i) : t.target \in Used
            /\ \A t \in ToSet(cfg.states[i].after) : t.delay > 0
            /\ \A t \in ToSet(cfg.states[i].always) : t.target = cfg.states[i].id => t.how.guarded
            /\ cfg.states[i].parallel /\ i \notin E =>
                Cardinality(kids(i)) >= 2 /\ cfg.states[i].initialChild = None
            /\ ~cfg.states[i].parallel /\ kids(i) # {} =>
                cfg.states[i].initialChild \in {None} \cup {cfg.states[k].id : k \in kids(i)}

\* "Parallel states must have >= 2 regions": compileTree asks it, and that they
\* name no initial child, only of those that have a child.
Childless ==
    {i \in DOMAIN cfg.states :
        cfg.states[i].parallel /\ \A k \in DOMAIN cfg.states : cfg.states[k].parent # i}

\* Its configuration once started.
started == ToSet(ConfigurationOf(result.machine, InitialLeaves(result.machine)))

Chart == INSTANCE Statechart WITH machine <- result.machine, config <- started

\* Build accepts the definitions that the comments call acceptable and, against
\* them, those that only lack the regions of childless parallel states; it does
\* so in whatever order and nesting they were written. What it accepts is what
\* the interpreter relies on without asking: references that exist, a legal
\* configuration to start in unless the initial state is inside a region, and
\* the guards of On and Always.
BuildIsSound ==
    result # Unbuilt =>
        /\ result.err = "nil" <=> AcceptableExcept(Childless)
        /\ result.err = "nil" =>
            /\ WellFormed(result.machine)
            /\ Ancestors(result.machine, result.machine.start) \cap result.machine.parallel = {}
                => Chart!Legal(result.machine, started)
            /\ \A k \in DOMAIN result.machine.transitions :
                LET t == result.machine.transitions[k]
                IN  t.on \in {Event, AlwaysEvent, DoneEvent(t.from)} => t.guarded = Contains(t.how.opts, "When")

\* The error names what is wrong, whatever else is: an unknown target is one no
\* state has, declared before or after ("validates the machine").
ErrorsAreTrue ==
    LET targets == UNION {{t.target : t \in ToSet(cfg.states[i].transitions) \cup ToSet(cfg.states[i].always)
                                                \cup ToSet(cfg.states[i].after)} : i \in DOMAIN cfg.states}
    IN  result # Unbuilt =>
        /\ result.err = "ErrNoInitialState" => cfg.initial = None
        /\ result.err = "ErrDuplicateState" => Cardinality(Used) < Len(cfg.states)
        /\ result.err = "ErrUnknownState" => cfg.initial \notin Used
        /\ result.err = "ErrUnknownTarget" => \E t \in targets : t # None /\ t \notin Used

\* "When attaches a guard predicate to the transition. The transition is only
\* selected when the guard returns true", of After too.
GuardsKept ==
    result # Unbuilt /\ result.err = "nil" =>
        \A k \in DOMAIN result.machine.transitions :
            LET t == result.machine.transitions[k]
            IN  t.guarded = Contains(t.how.opts, "When")
=============================================================================
