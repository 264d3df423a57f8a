----------------------------- MODULE Statechart -----------------------------
(***************************************************************************)
(* The semantics the interpreter refers to as SCXML, without leaves, paths *)
(* or order: a configuration is the set of active states, and an event     *)
(* moves it by one microstep, which exits what lies below the domain of    *)
(* each enabled transition and enters the target, every region of the      *)
(* parallel states on the way and the initial children below it.           *)
(***************************************************************************)
EXTENDS Machine

VARIABLES
    machine,  \* the machine that runs
    config    \* its active states

SelfAndAncestors(m, s) == {s} \cup Ancestors(m, s)

\* One top-level state, one child of each active OR state, all regions of each
\* active parallel state, and no state without its parent.
Legal(m, C) ==
    /\ Cardinality({s \in C : m.parent[s] = None}) = 1
    /\ \A s \in C :
        LET kids == {c \in StateIDs(m) : m.parent[c] = s}
        IN  /\ m.parent[s] # None => m.parent[s] \in C
            /\ IF s \in m.parallel THEN kids \subseteq C
               ELSE kids # {} => Cardinality(kids \cap C) = 1

\* The deepest OR state around leaf that contains the target or is the target.
Domain(m, leaf, target) ==
    LET D == {d \in Ancestors(m, leaf) \ m.parallel : d \in SelfAndAncestors(m, target)}
    IN  IF D = {} THEN None ELSE CHOOSE d \in D : \A e \in D : Depth(m, e) <= Depth(m, d)

Below(m, d) == {s \in StateIDs(m) : d = None \/ d \in Ancestors(m, s)}

\* s is entered when its parent is: it leads to the target, or is a region, or
\* is the initial child of a state that does not lead to the target.
Follows(m, target, s) ==
    LET p == m.parent[s]
    IN  \/ s \in SelfAndAncestors(m, target)
        \/ p \in m.parallel
        \/ p # None /\ p \notin Ancestors(m, target) /\ s = m.initial[p]

EntrySet(m, d, target) ==
    {s \in Below(m, d) :
        \A x \in SelfAndAncestors(m, s) \cap Below(m, d) : Follows(m, target, x)}

InitialConfig(m) == EntrySet(m, None, m.start)

\* The transitions an event enables, for each active atomic state the first one
\* of the innermost state around it that has one.
Fires(m, C, ev, holds) ==
    {f \in [leaf : {s \in C : ~IsCompound(m, s)}, k : DOMAIN m.transitions] :
        \E s \in SelfAndAncestors(m, f.leaf) :
            /\ f.k \in Enabled(m, s, ev, holds)
            /\ \A j \in Enabled(m, s, ev, holds) : f.k <= j
            /\ \A r \in SelfAndAncestors(m, f.leaf) :
                Depth(m, r) > Depth(m, s) => Enabled(m, r, ev, holds) = {}}

\* What an event makes of a configuration. A transition that takes an atomic state
\* to itself re-enters that state and leaves the others alone, also when it is a
\* region, where SCXML would start the parallel state around it again.
Microstep(m, C, ev, holds) ==
    LET F == {f \in Fires(m, C, ev, holds) : m.transitions[f.k].to # f.leaf}
        d(f) == Domain(m, f.leaf, m.transitions[f.k].to)
    IN  (C \ UNION {Below(m, d(f)) : f \in F})
            \cup UNION {EntrySet(m, d(f), m.transitions[f.k].to) : f \in F}

EventTypes(m) == {m.transitions[k].on : k \in DOMAIN m.transitions}
Guarded(m) == {k \in DOMAIN m.transitions : m.transitions[k].guarded}

Init ==
    /\ WellFormed(machine)
    /\ config = InitialConfig(machine)

Next ==
    /\ \E ev \in EventTypes(machine), holds \in SUBSET Guarded(machine) :
        config' = Microstep(machine, config, ev, holds)
    /\ UNCHANGED machine

Spec == Init /\ [][Next]_<<machine, config>>
=============================================================================
