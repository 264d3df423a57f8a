---------------------------- MODULE MCInterpreter ----------------------------
(***************************************************************************)
(* All machines over small trees whose regions keep together, for          *)
(* Interpreter.                                                            *)
(***************************************************************************)
EXTENDS Interpreter, MachineLibrary

Name == <<"a", "b", "c", "d", "e">>

\* Every forest over the first n names in definition order: the parent of a
\* state is its predecessor, one of its predecessor's ancestors, or none.
Forests(n) ==
    {t \in [1..n -> 0..(n-1)] :
        \A i \in 1..n : t[i] < i /\ \A k \in (t[i]+1)..(i-1) : t[k] >= t[i]}

\* One transition for each event of evs; the last state is final, and the
\* states of par, each with two children or more, are parallel.
SmallMachine(n, evs, t, par, ends) ==
    Build([i \in 1..n |-> <<Name[i], IF t[i] = 0 THEN None ELSE Name[t[i]]>>],
          {Name[i] : i \in par}, {Name[n]},
          [k \in DOMAIN evs |-> On(Name[ends[k][1]], evs[k], Name[ends[k][2]])])

SmallMachines(n, evs) ==
    UNION {{SmallMachine(n, evs, t, par, ends) :
                par \in SUBSET {i \in 1..n : Cardinality({k \in 1..n : t[k] = i}) >= 2},
                ends \in [DOMAIN evs -> (1..n) \X (1..n)]} : t \in Forests(n)}

Small == {m \in SmallMachines(5, <<"E">>) \cup SmallMachines(4, <<"E", "E">>) : KeepsRegions(m)}

LibraryAndSmall == Library \cup Small

ASSUME LibraryKeepsRegions == \A m \in Library : KeepsRegions(m) /\ DoneIsReserved(m)

TornOnly == {Torn}
=============================================================================
