------------------------------ MODULE Machine -------------------------------
(***************************************************************************)
(* A compiled statechart and the pure functions the interpreter asks it    *)
(* for (src/model/machine.go). A machine is a record:                      *)
(*   order        state IDs in definition order, a parent before its own   *)
(*   parent       the parent of each state, None at the top level          *)
(*   initial      the initial child of each compound OR state, else None   *)
(*   start        the initial state of the machine                         *)
(*   parallel     the parallel (AND) states                                *)
(*   final        the states marked Final                                  *)
(*   transitions  every On, OnDone, After and Always, in definition order: *)
(*                [from, on, to, guarded, raises]                          *)
(*   onEntry      the events that a state's entry actions raise            *)
(*   onExit       the events that a state's exit actions raise             *)
(*   after        the event type of a state's timer, else None             *)
(*   invokes      the states with an Invoke                                *)
(*   delay        how long a state's timer runs                            *)
(*   sends        the events that a state's InvokeFn sends before it       *)
(*                returns                                                  *)
(* The last two matter to Harness alone.                                   *)
(* Guards and the context they read are abstracted to the set of guarded   *)
(* transitions whose guard holds; a machine has one After at most per      *)
(* state, and Log and Assign actions leave no trace.                       *)
(***************************************************************************)
EXTENDS Naturals, Sequences, FiniteSets, SequencesExt

None == ""            \* the empty core.StateID
AlwaysEvent == "statecraft.always"  \* core.EventTypeAlways; an Always has no other event

\* SelectSeq, by a definition that proofs can expand.
Filter(seq, Test(_)) ==
    FlattenSeq([i \in DOMAIN seq |-> IF Test(seq[i]) THEN <<seq[i]>> ELSE <<>>])

StateIDs(m) == ToSet(m.order)
Children(m, s) == Filter(m.order, LAMBDA c : m.parent[c] = s)
IsCompound(m, s) == \E c \in StateIDs(m) : m.parent[c] = s

\* s and its ancestors, innermost first.
Chain(m, s) ==
    LET up[x \in StateIDs(m)] ==
            IF m.parent[x] = None THEN <<x>> ELSE <<x>> \o up[m.parent[x]]
    IN  up[s]

Depth(m, s) == Len(Chain(m, s)) - 1
Ancestors(m, s) == ToSet(Tail(Chain(m, s)))
IsDescendantOf(m, s, anc) == anc \in Ancestors(m, s)

DoneEvent(s) == "done.state." \o s

\* What compile accepts: IDs that are distinct and not empty, in an order in
\* which the parent of a state comes before it; a parallel state has two regions or more, a compound
\* OR state has one of its children as initial child, and no Always without a
\* guard targets its own state. (compile asks nothing of a parallel state that
\* has no child, so it is an atomic state.)
WellFormed(m) ==
    /\ m.order \in Seq(StateIDs(m)) /\ m.transitions \in Seq(ToSet(m.transitions))
    /\ None \notin StateIDs(m)
    /\ \A i \in DOMAIN m.order :
        /\ \A j \in 1..(i-1) : m.order[j] # m.order[i]
        /\ m.parent[m.order[i]] \in {None} \cup {m.order[j] : j \in 1..(i-1)}
    /\ m.start \in StateIDs(m) /\ m.parallel \subseteq StateIDs(m)
    /\ \A s \in StateIDs(m) :
        LET kids == ToSet(Children(m, s))
        IN  /\ s \in m.parallel /\ kids # {} => Cardinality(kids) >= 2
            /\ IF s \in m.parallel \/ kids = {} THEN m.initial[s] = None ELSE m.initial[s] \in kids
    /\ \A k \in DOMAIN m.transitions :
        LET t == m.transitions[k]
        IN  /\ {t.from, t.to} \subseteq StateIDs(m)
            /\ t.on = AlwaysEvent /\ ~t.guarded => t.to # t.from

-----------------------------------------------------------------------------
(* Navigation.                                                             *)

\* The single leaf below s, through the first region of a parallel state.
LeafTarget(m, s) ==
    LET down[x \in StateIDs(m)] ==
            IF ~IsCompound(m, x) THEN x
            ELSE IF x \in m.parallel THEN down[Head(Children(m, x))]
            ELSE down[m.initial[x]]
    IN  down[s]

\* Mutant: the first region stands for all.
LeafTargetsFirst(m, s) == <<LeafTarget(m, s)>>

\* Mutant: the initial child may itself be compound.
LeafTargetsShallow(m, s) ==
    IF ~IsCompound(m, s) THEN <<s>>
    ELSE IF s \in m.parallel THEN Children(m, s) ELSE <<m.initial[s]>>

\* All initial leaves below s, one for each region of a parallel state.
LeafTargets(m, s) ==
    LET down[x \in StateIDs(m)] ==
            IF ~IsCompound(m, x) THEN <<x>>
            ELSE IF x \in m.parallel
                 THEN LET kids == Children(m, x)
                      IN  FlattenSeq([i \in DOMAIN kids |-> down[kids[i]]])
                 ELSE down[m.initial[x]]
    IN  down[s]

InitialLeaves(m) == LeafTargets(m, m.start)

\* Mutant: the outermost one.
LCCAOutermost(m, s1, s2) ==
    LET up == Tail(Chain(m, s2))
        i  == SelectLastInSeq(up, LAMBDA a : a \in Ancestors(m, s1))
    IN  IF i = 0 THEN None ELSE up[i]

\* The deepest proper ancestor of both, None if there is none.
LCCA(m, s1, s2) ==
    LET up == Tail(Chain(m, s2))
        i  == SelectInSeq(up, LAMBDA a : a \in Ancestors(m, s1))
    IN  IF i = 0 THEN None ELSE up[i]

\* From leaf outwards, lcca excluded.
ExitPath(m, leaf, lcca) ==
    LET up == Chain(m, leaf)
        i  == SelectInSeq(up, LAMBDA a : a = lcca)
    IN  IF i = 0 THEN up ELSE SubSeq(up, 1, i - 1)

\* From below lcca down to the leaf of target.
EntryPath(m, lcca, target) == Reverse(ExitPath(m, LeafTarget(m, target), lcca))

\* Every active state, in definition order.
ConfigurationOf(m, leaves) ==
    Filter(m.order, LAMBDA s : \E i \in DOMAIN leaves : s \in ToSet(Chain(m, leaves[i])))

-----------------------------------------------------------------------------
(* Transition resolution: the innermost state with an enabled transition,  *)
(* and its first one in definition order. 0 when there is none.            *)

Enabled(m, s, ev, holds) ==
    {k \in DOMAIN m.transitions :
        /\ m.transitions[k].from = s
        /\ m.transitions[k].on = ev
        /\ m.transitions[k].guarded => k \in holds}

\* Mutant: the outermost handler wins.
ResolveOutermost(m, leaf, ev, holds) ==
    LET up == Chain(m, leaf)
        i  == SelectLastInSeq(up, LAMBDA s : Enabled(m, s, ev, holds) # {})
    IN  IF i = 0 THEN 0 ELSE Min(Enabled(m, up[i], ev, holds))

ResolveTransition(m, leaf, ev, holds) ==
    LET up == Chain(m, leaf)
        i  == SelectInSeq(up, LAMBDA s : Enabled(m, s, ev, holds) # {})
    IN  IF i = 0 THEN 0 ELSE Min(Enabled(m, up[i], ev, holds))

ResolveAlways(m, leaf, holds) == ResolveTransition(m, leaf, AlwaysEvent, holds)

-----------------------------------------------------------------------------
(* The machines whose regions keep together: the code accepts others, and  *)
(* then replaces the leaf of one region alone.                             *)

Within(m, s, q) == q \in ToSet(Chain(m, s))

AndStates(m) == {q \in m.parallel : IsCompound(m, q)}

\* A transition stays in one region of q; or it neither leaves a region of q
\* nor leads into one, nor from q itself or a state inside it back into q.
RegionsKept(m, t) ==
    \A q \in AndStates(m) :
        \/ \E r \in StateIDs(m) : m.parent[r] = q /\ Within(m, t.from, r) /\ Within(m, t.to, r)
        \/ /\ ~IsDescendantOf(m, t.from, q) /\ ~IsDescendantOf(m, t.to, q)
           /\ Within(m, q, t.from) => \A l \in ToSet(LeafTargets(m, t.to)) : ~Within(m, l, q)

\* An event is handled both inside a region of q and by q or around it.
Conflict(m, t, u) ==
    /\ t.on = u.on
    /\ \E q \in AndStates(m) : IsDescendantOf(m, t.from, q) /\ Within(m, q, u.from)

KeepsRegions(m) ==
    /\ Ancestors(m, m.start) \cap AndStates(m) = {}
    /\ \A k \in DOMAIN m.transitions : RegionsKept(m, m.transitions[k])
    /\ \A j, k \in DOMAIN m.transitions : ~Conflict(m, m.transitions[j], m.transitions[k])
=============================================================================
