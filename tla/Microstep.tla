----------------------------- MODULE Microstep ------------------------------
(***************************************************************************)
(* What one event does to the leaves of a machine, without the state of    *)
(* whoever runs it: the functions that runtime.Service and testkit.Harness *)
(* both have, line for line (applyTransitions, raiseDoneEvents,            *)
(* compoundIsDone). Interpreter and Harness add the state and the order in *)
(* which they are called.                                                  *)
(***************************************************************************)
EXTENDS Machine

\* A well-formed machine with what its states and transitions raise and time.
Runnable(m) ==
    /\ WellFormed(m)
    /\ m.onEntry \in [StateIDs(m) -> Seq(STRING)] /\ m.onExit \in [StateIDs(m) -> Seq(STRING)]
    /\ \A k \in DOMAIN m.transitions : m.transitions[k].raises \in Seq(STRING)

\* 1 if s is among the states of seq, else 0.
Has(seq, s) == IF Contains(seq, s) THEN 1 ELSE 0

\* The concatenation of Op(x) for the elements of seq in order.
ForEach(seq, Op(_)) == FlattenSeq([i \in DOMAIN seq |-> Op(seq[i])])

\* The same for the first occurrences alone, as every "seen" map of the code does.
ForEachOnce(seq, Op(_)) ==
    FlattenSeq([i \in DOMAIN seq |->
        IF \E j \in 1..(i-1) : seq[j] = seq[i] THEN <<>> ELSE Op(seq[i])])

Distinct(seq) == ForEachOnce(seq, LAMBDA x : <<x>>)

\* Mutant: the exit paths one after the other.
PathByPath(m, seq) == Distinct(seq)

\* seen, then sort.SliceStable by depth, deepest first.
DeepestFirst(m, seq) ==
    LET D == Max({Depth(m, x) : x \in StateIDs(m)}) + 1
    IN  FlattenSeq([i \in 1..D |->
            ForEachOnce(seq, LAMBDA x : IF Depth(m, x) = D - i THEN <<x>> ELSE <<>>)])

-----------------------------------------------------------------------------
(* Done events and the snapshot.                                           *)

\* Mutant: one finished region finishes a parallel state.
CompoundIsDoneAny(m, ls, s) ==
    \E i \in DOMAIN ls : IsDescendantOf(m, ls[i], s) /\ ls[i] \in m.final

CompoundIsDone(m, ls, s) ==
    LET finalIn(r) == \E i \in DOMAIN ls : r \in ToSet(Chain(m, ls[i])) /\ ls[i] \in m.final
        first == SelectInSeq(ls, LAMBDA l : IsDescendantOf(m, l, s))
    IN  IF s \in m.parallel
        THEN \A r \in ToSet(Children(m, s)) : finalIn(r)
        ELSE first # 0 /\ ls[first] \in m.final

\* Each ancestor of an entered state is looked at once, inner ones first.
DoneEvents(m, ls, entry) ==
    ForEachOnce(ForEach(entry, LAMBDA s : Tail(Chain(m, s))),
                LAMBDA s : IF CompoundIsDone(m, ls, s) THEN <<DoneEvent(s)>> ELSE <<>>)

\* Each state has a done event of its own, and no action raises one.
DoneIsReserved(m) ==
    \A s \in StateIDs(m) :
        /\ \A r \in StateIDs(m) : DoneEvent(r) = DoneEvent(s) => r = s
        /\ \A r \in StateIDs(m) : DoneEvent(s) \notin ToSet(m.onEntry[r]) \cup ToSet(m.onExit[r])
        /\ \A k \in DOMAIN m.transitions : DoneEvent(s) \notin ToSet(m.transitions[k].raises)

Snap(m, ls) ==
    [leaves |-> ls, states |-> ConfigurationOf(m, ls), final |-> ToSet(ls) \subseteq m.final]

-----------------------------------------------------------------------------
(* Transitions.                                                            *)

\* The transitions ev enables: those that the leaves resolve it to, each leaf
\* considered once, in the order of s.leaves.
Pending(m, ls, ev, holds) ==
    ForEachOnce(ls, LAMBDA l :
        LET k == ResolveTransition(m, l, ev, holds)
        IN  IF k = 0 THEN <<>> ELSE <<[source |-> l, trans |-> m.transitions[k]]>>)

\* What the transitions of pending do: the states to exit and to enter, the
\* events their actions raise and the leaves that result.
Macrostep(m, ls, pending) ==
    LET targets(p) == LeafTargets(m, p.trans.to)
        lcca(p)    == LCCA(m, p.source, Head(targets(p)))
        exits      == ForEach(pending, LAMBDA p : ExitPath(m, p.source, lcca(p)))
        entries    == ForEach(pending, LAMBDA p :
                        ForEach(targets(p), LAMBDA t : EntryPath(m, lcca(p), t)))
        replace(l) == LET i == SelectInSeq(pending, LAMBDA p : p.source = l)
                      IN  IF i = 0 THEN <<l>> ELSE targets(pending[i])
    IN  [exit   |-> DeepestFirst(m, exits),
         entry  |-> Distinct(entries),
         raises |-> ForEach(pending, LAMBDA p : p.trans.raises),
         leaves |-> ForEach(ls, replace)]
=============================================================================
