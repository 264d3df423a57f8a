------------------------- MODULE InterpreterProofs --------------------------
(***************************************************************************)
(* Proofs about Interpreter: its types on every machine, and on machines   *)
(* that keep their regions what is active, what runs, the order of exits   *)
(* and entries, the refinement of Statechart, and when done events come.   *)
(* Then about Persist: what a checkpoint of an interpreter holds and what  *)
(* a service that resumes from it does, for every line of releases with    *)
(* which checkpoints keep their meaning.                                   *)
(***************************************************************************)
EXTENDS Persist, MicrostepProofs

-----------------------------------------------------------------------------
(* Types.                                                                  *)

\* The events an interpreter may find in its internal queue.
Internal(m) == STRING \cup {DoneEvent(s) : s \in StateIDs(m)}

LEMMA ConcatTypes ==
  ASSUME NEW S, NEW a \in Seq(S), NEW b \in Seq(S)
  PROVE  a \o b \in Seq(S)
  OBVIOUS

LEMMA WiderSeq ==
  ASSUME NEW S, NEW T, S \subseteq T, NEW a \in Seq(S)
  PROVE  a \in Seq(T)
  OBVIOUS

LEMMA MacrostepTypes ==
  ASSUME NEW m, Runnable(m), NEW ls \in Seq(StateIDs(m)), ls # <<>>,
         \A l \in ToSet(ls) : ~IsCompound(m, l), NEW ev, NEW holds
  PROVE  LET s == Macrostep(m, ls, Pending(m, ls, ev, holds))
         IN  /\ s.leaves \in Seq(StateIDs(m)) /\ s.leaves # <<>>
             /\ \A l \in ToSet(s.leaves) : ~IsCompound(m, l)
             /\ s.exit \in Seq(StateIDs(m)) /\ s.entry \in Seq(StateIDs(m))
             /\ s.raises \in Seq(STRING)
<1>. DEFINE S == StateIDs(m)
            pend == Pending(m, ls, ev, holds)
            s == Macrostep(m, ls, pend)
<1>1. /\ WellFormed(m) /\ pend \in Seq(Firings(m))
      /\ \A p, u \in ToSet(pend) : p.source = u.source => p = u
  BY PendingTypes DEF Runnable
<1>. HIDE DEF pend
<1>2. /\ s.leaves \in Seq(S)
      /\ \A x : x \in ToSet(s.leaves) <=>
            \E l \in ToSet(ls) :
                \/ (\A p \in ToSet(pend) : p.source # l) /\ x = l
                \/ \E p \in ToSet(pend) : p.source = l /\ x \in ToSet(Targets(m, p))
  BY <1>1, MacrostepLeaves
<1>3. s.exit \in Seq(S) /\ s.entry \in Seq(S)
  BY <1>1, MacrostepExits, MacrostepEntries
<1>4. s.raises \in Seq(STRING)
  <2>. DEFINE f == [p \in Firings(m) |-> p.trans.raises]
  <2>1. \A p \in Firings(m) : p.trans.raises \in Seq(STRING)
    <3>1. \A t \in ToSet(m.transitions) : \E k \in DOMAIN m.transitions : t = m.transitions[k]
      BY DEF ToSet
    <3>. QED BY <3>1 DEF Firings, Runnable
  <2>2. f \in [Firings(m) -> Seq(STRING)]
    BY <2>1
  <2>3. MapOf(pend, f) \in Seq(STRING)
    <3>. HIDE DEF f
    <3>. QED BY <1>1, <2>2, MapElements
  <2>4. [i \in DOMAIN pend |-> f[pend[i]]] = [i \in DOMAIN pend |-> pend[i].trans.raises]
    <3>1. \A i \in DOMAIN pend : pend[i] \in Firings(m)
      BY <1>1
    <3>. QED BY <3>1
  <2>5. s.raises = ForEach(pend, LAMBDA p : p.trans.raises)
    BY DEF Macrostep
  <2>. HIDE DEF f, s
  <2>. QED BY <2>3, <2>4, <2>5 DEF MapOf, ForEach
<1>5. \A p \in ToSet(pend) : /\ Targets(m, p) \in Seq(S) /\ Targets(m, p) # <<>>
                             /\ Head(Targets(m, p)) \in ToSet(Targets(m, p))
                             /\ \A h \in ToSet(Targets(m, p)) : ~IsCompound(m, h)
  <2>. TAKE p \in ToSet(pend)
  <2>1. p \in Firings(m)
    BY <1>1 DEF ToSet
  <2>2. p.trans.to \in S /\ Targets(m, p) \in Seq(S) /\ Targets(m, p) # <<>>
        /\ Head(Targets(m, p)) \in ToSet(Targets(m, p))
    BY <1>1, <2>1, DomIs
  <2>3. \A h \in ToSet(LeafTargets(m, p.trans.to)) : ~IsCompound(m, h)
    BY <1>1, <2>2, LeafTargetsAre
  <2>. QED BY <2>2, <2>3 DEF Targets
<1>. HIDE DEF s
<1>6. s.leaves # <<>>
  <2>1. PICK l : l \in ToSet(ls)
    BY NotEmpty
  <2>2. CASE \A p \in ToSet(pend) : p.source # l
    BY <1>2, <2>1, <2>2, NotEmpty
  <2>3. ASSUME NEW p \in ToSet(pend), p.source = l PROVE s.leaves # <<>>
    <3>1. Head(Targets(m, p)) \in ToSet(s.leaves)
      BY <1>2, <1>5, <2>1, <2>3
    <3>. QED BY <1>2, <3>1, NotEmpty
  <2>. QED BY <2>2, <2>3
<1>7. \A l \in ToSet(s.leaves) : ~IsCompound(m, l)
  BY <1>2, <1>5
<1>. QED BY <1>2, <1>3, <1>4, <1>6, <1>7 DEF s, pend

\* TypeOK, in the form in which the lemmas about sequences take and give it.
Typed ==
  /\ Runnable(machine)
  /\ leaves \in Seq(StateIDs(machine)) /\ leaves # <<>>
  /\ \A l \in ToSet(leaves) : ~IsCompound(machine, l)
  /\ internal \in Seq(Internal(machine))
  /\ pc \in {"loop", "select", "exited"}
  /\ iter \in 0..MaxAlwaysIter
  /\ entered \in [StateIDs(machine) -> Int] /\ invokes \in [StateIDs(machine) -> Nat]
  /\ timers \subseteq StateIDs(machine)
  /\ last \in [exit : Seq(StateIDs(machine)), entry : Seq(StateIDs(machine))]
  /\ outCh \in Seq(StateIDs(machine)) /\ Len(outCh) <= TimerBuffer
  /\ snapshot = Snap(machine, leaves)

LEMMA TypedIs == Typed => TypeOK
<1>. SUFFICES ASSUME Typed PROVE TypeOK
  OBVIOUS
<1>1. \A i \in DOMAIN leaves : leaves[i] \in StateIDs(machine) /\ ~IsCompound(machine, leaves[i])
  BY DEF Typed, ToSet
<1>. QED BY <1>1 DEF Typed, TypeOK, Internal

LEMMA RaisedTypes ==
  ASSUME NEW m, NEW a \in Seq(Internal(m)), NEW b \in Seq(STRING), NEW c \in Seq(STRING),
         NEW d \in Seq(STRING), NEW e \in Seq({DoneEvent(s) : s \in StateIDs(m)})
  PROVE  a \o b \o c \o d \o e \in Seq(Internal(m))
<1>1. STRING \subseteq Internal(m) /\ {DoneEvent(s) : s \in StateIDs(m)} \subseteq Internal(m)
  BY DEF Internal
<1>2. /\ b \in Seq(Internal(m)) /\ c \in Seq(Internal(m))
      /\ d \in Seq(Internal(m)) /\ e \in Seq(Internal(m))
  BY <1>1, WiderSeq
<1>3. a \o b \in Seq(Internal(m))
  BY <1>2, ConcatTypes
<1>4. (a \o b) \o c \in Seq(Internal(m))
  BY <1>2, <1>3, ConcatTypes
<1>5. ((a \o b) \o c) \o d \in Seq(Internal(m))
  BY <1>2, <1>4, ConcatTypes
<1>. QED BY <1>2, <1>5, ConcatTypes

LEMMA InitTypes == Init => Typed
<1>. SUFFICES ASSUME Init PROVE Typed
  OBVIOUS
<1>. DEFINE S == StateIDs(machine)
<1>1. Runnable(machine) /\ WellFormed(machine) /\ machine.start \in S
  BY InterpreterAssumption DEF Init, Runnable, WellFormed
<1>2. /\ leaves \in Seq(S) /\ leaves # <<>>
      /\ \A l \in ToSet(leaves) : ~IsCompound(machine, l)
  BY <1>1, LeafTargetsAre DEF Init, InitialLeaves
<1>3. last.entry = StartEntries(machine, leaves)
  BY DEF Init, StartEntries
<1>4. last.entry \in Seq(S)
  BY <1>1, <1>2, <1>3, InitialEntries
<1>5. last \in [exit : Seq(S), entry : Seq(S)]
  <2>. DEFINE e == StartEntries(machine, leaves)
  <2>1. last = [exit |-> <<>>, entry |-> e]
    BY DEF Init, StartEntries
  <2>2. e \in Seq(S) /\ <<>> \in Seq(S)
    BY <1>3, <1>4
  <2>. HIDE DEF e
  <2>. QED BY <2>1, <2>2
<1>6. ForEach(last.entry, LAMBDA s : machine.onEntry[s]) \in Seq(STRING)
  <2>1. machine.onEntry \in [S -> Seq(STRING)]
    BY <1>1 DEF Runnable
  <2>2. MapOf(last.entry, machine.onEntry) \in Seq(STRING)
    BY <1>4, <2>1, MapElements
  <2>. QED BY <2>2 DEF MapOf, ForEach
<1>7. DoneEvents(machine, leaves, last.entry) \in Seq({DoneEvent(s) : s \in S})
  BY <1>1, <1>4, DoneEventsTypes
<1>8. internal \in Seq(Internal(machine))
  <2>1. internal = ForEach(last.entry, LAMBDA s : machine.onEntry[s])
                    \o DoneEvents(machine, leaves, last.entry)
    BY DEF Init
  <2>2. STRING \subseteq Internal(machine) /\ {DoneEvent(s) : s \in S} \subseteq Internal(machine)
    BY DEF Internal
  <2>3. /\ ForEach(last.entry, LAMBDA s : machine.onEntry[s]) \in Seq(Internal(machine))
        /\ DoneEvents(machine, leaves, last.entry) \in Seq(Internal(machine))
    BY <1>6, <1>7, <2>2, WiderSeq
  <2>. QED BY <2>1, <2>3, ConcatTypes
<1>9. \A s : Has(last.entry, s) \in {0, 1}
  BY <1>4, HasIs
<1>10. entered \in [S -> Int] /\ invokes \in [S -> Nat]
  <2>1. entered = [s \in S |-> Has(last.entry, s)]
    BY DEF Init
  <2>2. invokes = [s \in S |-> IF s \in machine.invokes THEN Has(last.entry, s) ELSE 0]
    BY DEF Init
  <2>. QED BY <1>9, <2>1, <2>2
<1>11. timers \subseteq S
  <2>1. ToSet(last.entry) \subseteq S
    BY <1>4 DEF ToSet
  <2>. QED BY <2>1 DEF Init
<1>12. outCh \in Seq(S) /\ Len(outCh) <= TimerBuffer /\ iter \in 0..MaxAlwaysIter
  BY InterpreterAssumption DEF Init
<1>13. pc = "loop" /\ snapshot = Snap(machine, leaves)
  BY DEF Init
<1>. QED BY <1>1, <1>2, <1>5, <1>8, <1>10, <1>11, <1>12, <1>13 DEF Typed

\* What applyTransitions leaves behind has its types, whatever the event.
LEMMA ApplyTypes ==
  ASSUME Typed, NEW ev, NEW holds, NEW queue \in Seq(Internal(machine)),
         ApplyTransitions(Pending(machine, leaves, ev, holds), queue)
  PROVE  /\ leaves' \in Seq(StateIDs(machine)) /\ leaves' # <<>>
         /\ \A l \in ToSet(leaves') : ~IsCompound(machine, l)
         /\ internal' \in Seq(Internal(machine))
         /\ entered' \in [StateIDs(machine) -> Int] /\ invokes' \in [StateIDs(machine) -> Nat]
         /\ timers' \subseteq StateIDs(machine)
         /\ last' \in [exit : Seq(StateIDs(machine)), entry : Seq(StateIDs(machine))]
         /\ snapshot' = Snap(machine, leaves')
<1>. DEFINE S == StateIDs(machine)
            pend == Pending(machine, leaves, ev, holds)
            s == Macrostep(machine, leaves, pend)
<1>1. Runnable(machine) /\ WellFormed(machine)
  BY DEF Typed, Runnable
<1>2. /\ s.leaves \in Seq(S) /\ s.leaves # <<>>
      /\ \A l \in ToSet(s.leaves) : ~IsCompound(machine, l)
      /\ s.exit \in Seq(S) /\ s.entry \in Seq(S)
      /\ s.raises \in Seq(STRING)
  BY MacrostepTypes DEF Typed
<1>. HIDE DEF pend
<1>3. /\ leaves' = s.leaves
      /\ ExitThenEnter(s.exit, s.entry)
      /\ internal' = queue
                        \o ForEach(s.exit, LAMBDA x : machine.onExit[x])
                        \o ForEach(s.entry, LAMBDA x : machine.onEntry[x])
                        \o s.raises
                        \o DoneEvents(machine, s.leaves, s.entry)
      /\ snapshot' = Snap(machine, s.leaves)
  BY DEF ApplyTransitions, pend
<1>. HIDE DEF s
<1>4. internal' \in Seq(Internal(machine))
  <2>1. /\ ForEach(s.exit, LAMBDA x : machine.onExit[x]) \in Seq(STRING)
        /\ ForEach(s.entry, LAMBDA x : machine.onEntry[x]) \in Seq(STRING)
    <3>1. machine.onExit \in [S -> Seq(STRING)] /\ machine.onEntry \in [S -> Seq(STRING)]
      BY <1>1 DEF Runnable
    <3>2. /\ MapOf(s.exit, machine.onExit) \in Seq(STRING)
          /\ MapOf(s.entry, machine.onEntry) \in Seq(STRING)
      BY <1>2, <3>1, MapElements
    <3>. QED BY <3>2 DEF MapOf, ForEach
  <2>2. DoneEvents(machine, s.leaves, s.entry) \in Seq({DoneEvent(x) : x \in S})
    BY <1>1, <1>2, DoneEventsTypes
  <2>. QED BY <1>2, <1>3, <2>1, <2>2, RaisedTypes
<1>5. \A x : Has(s.exit, x) \in {0, 1} /\ Has(s.entry, x) \in {0, 1}
  BY <1>2, HasIs
<1>6. entered' \in [S -> Int]
  <2>1. entered' = [x \in DOMAIN entered |-> entered[x] - Has(s.exit, x) + Has(s.entry, x)]
    BY <1>3 DEF ExitThenEnter
  <2>2. entered \in [S -> Int]
    BY DEF Typed
  <2>3. \A x \in S : entered[x] - Has(s.exit, x) + Has(s.entry, x) \in Int
    <3>. TAKE x \in S
    <3>. QED BY <1>5, <2>2
  <2>. QED BY <2>1, <2>2, <2>3
<1>7. invokes' \in [S -> Nat]
  <2>. DEFINE n(x) == (IF Contains(s.exit, x) THEN 0 ELSE invokes[x])
                        + IF x \in machine.invokes THEN Has(s.entry, x) ELSE 0
  <2>1. invokes' = [x \in DOMAIN invokes |-> n(x)]
    BY <1>3 DEF ExitThenEnter
  <2>2. invokes \in [S -> Nat]
    BY DEF Typed
  <2>3. \A x \in S : n(x) \in Nat
    <3>. TAKE x \in S
    <3>. QED BY <1>5, <2>2
  <2>. HIDE DEF n
  <2>. QED BY <2>1, <2>2, <2>3
<1>8. timers' \subseteq S
  <2>1. ToSet(s.entry) \subseteq S
    BY <1>2 DEF ToSet
  <2>. QED BY <1>3, <2>1 DEF ExitThenEnter, Typed
<1>9. last' \in [exit : Seq(S), entry : Seq(S)]
  BY <1>2, <1>3 DEF ExitThenEnter
<1>. QED BY <1>2, <1>3, <1>4, <1>6, <1>7, <1>8, <1>9

LEMMA StepTypes ==
  ASSUME Typed, NEW ev, NEW holds, NEW queue \in Seq(Internal(machine)), Step(ev, holds, queue),
         machine' = machine, pc' \in {"loop", "select", "exited"}, iter' \in 0..MaxAlwaysIter,
         outCh' \in Seq(StateIDs(machine)), Len(outCh') <= TimerBuffer
  PROVE  Typed'
<1>1. CASE ApplyTransitions(Pending(machine, leaves, ev, holds), queue)
  BY <1>1, ApplyTypes DEF Typed
<1>2. CASE internal' = queue /\ UNCHANGED <<leaves, snapshot, lifecycle>>
  BY <1>2 DEF Typed, lifecycle
<1>. QED BY <1>1, <1>2 DEF Step

LEMMA ExitTypes == ASSUME Typed, Exit, UNCHANGED machine PROVE Typed'
  BY DEF Typed, Exit

LEMMA TypesKept == Typed /\ [Next]_interpVars => Typed'
<1>. SUFFICES ASSUME Typed, [Next]_interpVars PROVE Typed'
  OBVIOUS
<1>1. ASSUME NEW holds, StepInternal(holds) PROVE Typed'
  <2>1. Tail(internal) \in Seq(Internal(machine))
    <3>1. internal \in Seq(Internal(machine)) /\ internal # <<>>
      BY <1>1 DEF Typed, StepInternal
    <3>. QED BY <3>1
  <2>2. 0 \in 0..MaxAlwaysIter
    BY InterpreterAssumption
  <2>. QED BY <1>1, <2>1, <2>2, StepTypes DEF StepInternal, Typed
<1>2. ASSUME NEW holds, TryAlways(holds) PROVE Typed'
  <2>1. iter + 1 \in 0..MaxAlwaysIter /\ 0 \in 0..MaxAlwaysIter
    BY <1>2, InterpreterAssumption DEF Typed, TryAlways
  <2>2. CASE ApplyTransitions(Pending(machine, leaves, AlwaysEvent, holds), <<>>)
                /\ iter' = iter + 1 /\ UNCHANGED pc
    <3>1. <<>> \in Seq(Internal(machine))
      OBVIOUS
    <3>2. /\ leaves' \in Seq(StateIDs(machine)) /\ leaves' # <<>>
          /\ \A l \in ToSet(leaves') : ~IsCompound(machine, l)
          /\ internal' \in Seq(Internal(machine))
          /\ entered' \in [StateIDs(machine) -> Int] /\ invokes' \in [StateIDs(machine) -> Nat]
          /\ timers' \subseteq StateIDs(machine)
          /\ last' \in [exit : Seq(StateIDs(machine)), entry : Seq(StateIDs(machine))]
          /\ snapshot' = Snap(machine, leaves')
      BY <2>2, <3>1, ApplyTypes
    <3>. QED BY <1>2, <2>1, <2>2, <3>2 DEF TryAlways, Typed
  <2>3. CASE pc' = "select" /\ iter' = 0 /\ UNCHANGED <<leaves, internal, snapshot, lifecycle>>
    BY <1>2, <2>1, <2>3 DEF TryAlways, Typed, lifecycle
  <2>. QED BY <1>2, <2>2, <2>3 DEF TryAlways
<1>3. CASE AlwaysLoopPanics
  BY <1>3, ExitTypes DEF AlwaysLoopPanics
<1>4. ASSUME NEW holds, NEW ev, Receive(ev, holds) PROVE Typed'
  BY <1>4, StepTypes DEF Receive, Typed
<1>5. ASSUME NEW holds, ReceiveTimer(holds) PROVE Typed'
  <2>1. Tail(outCh) \in Seq(StateIDs(machine)) /\ Len(Tail(outCh)) <= TimerBuffer
    <3>1. outCh \in Seq(StateIDs(machine)) /\ outCh # <<>> /\ Len(outCh) <= TimerBuffer
      BY <1>5 DEF Typed, ReceiveTimer
    <3>. QED BY <3>1, InterpreterAssumption
  <2>. QED BY <1>5, <2>1, StepTypes DEF ReceiveTimer, Typed
<1>6. CASE Cancelled
  BY <1>6, ExitTypes DEF Cancelled
<1>7. ASSUME NEW s \in StateIDs(machine), TimerFires(s) PROVE Typed'
  <2>1. outCh' \in Seq(StateIDs(machine)) /\ Len(outCh') <= TimerBuffer
    <3>1. outCh \in Seq(StateIDs(machine)) /\ Len(outCh) <= TimerBuffer
      BY DEF Typed
    <3>. QED BY <1>7, <3>1, InterpreterAssumption DEF TimerFires
  <2>. QED BY <1>7, <2>1 DEF TimerFires, Typed
<1>8. CASE UNCHANGED interpVars
  BY <1>8 DEF interpVars, lifecycle, Typed
<1>. QED BY <1>1, <1>2, <1>3, <1>4, <1>5, <1>6, <1>7, <1>8 DEF Next, RunSteps

\* service.go: whatever the machine and the order of its events, the leaves are
\* atomic states, at least one, and the snapshot is that of the leaves.
THEOREM TypeCorrect == Spec => []TypeOK
<1>1. Spec => []Typed
  BY InitTypes, TypesKept, PTL DEF Spec
<1>. QED BY <1>1, TypedIs, PTL

-----------------------------------------------------------------------------
(* Machines that keep their regions: configurations, life cycles and order. *)

active == Active(machine, ToSet(leaves))

\* The entered states, the invocations and the timers are those of C; stopped
\* says that the interpreter has exited.
RunsFor(C, stopped) ==
  /\ \A s \in StateIDs(machine) :
        /\ entered[s] = IF s \in C THEN 1 ELSE 0
        /\ invokes[s] = IF ~stopped /\ s \in machine.invokes /\ s \in C THEN 1 ELSE 0
  /\ timers \subseteq C
  /\ stopped => timers = {}

\* The inductive invariant: the leaves are whole, which no formula about the
\* configuration alone says, what runs is what is active, and the last exits
\* and entries were in order.
RegionsInv ==
  /\ Typed
  /\ KeepsRegions(machine)
  /\ Whole(machine, ToSet(leaves))
  /\ RunsFor(active, pc = "exited")
  /\ ExitsAndEntriesInOrder

LEMMA ConfigurationIsActive ==
  ASSUME Typed
  PROVE  configuration = active
<1>1. WellFormed(machine) /\ leaves \in Seq(StateIDs(machine))
  BY DEF Typed, Runnable
<1>. QED BY <1>1, ConfigurationIs DEF configuration, active, Active

LEMMA InitRegions ==
  ASSUME \A m \in Machines : KeepsRegions(m), Init
  PROVE  RegionsInv
<1>. DEFINE S == StateIDs(machine)
<1>1. Typed
  BY InitTypes
<1>2. /\ WellFormed(machine) /\ KeepsRegions(machine) /\ leaves = InitialLeaves(machine)
      /\ leaves \in Seq(S) /\ \A l \in ToSet(leaves) : ~IsCompound(machine, l)
  BY <1>1 DEF Typed, Runnable, Init
<1>3. Whole(machine, ToSet(leaves))
  BY <1>2, InitiallyWhole DEF KeepsRegions
<1>4. last.entry = StartEntries(machine, leaves) /\ last.exit = <<>>
  BY DEF Init, StartEntries
<1>5. /\ last.entry \in Seq(S)
      /\ \A x : x \in ToSet(last.entry) <=> \E l \in ToSet(leaves) : Within(machine, l, x)
      /\ \A a, b \in 1..Len(last.entry) : a < b => ~Within(machine, last.entry[a], last.entry[b])
  <2>. DEFINE e == StartEntries(machine, leaves)
  <2>1. /\ e \in Seq(S)
        /\ \A x : x \in ToSet(e) <=> \E l \in ToSet(leaves) : Within(machine, l, x)
        /\ \A a, b \in 1..Len(e) : a < b => ~Within(machine, e[a], e[b])
    BY <1>2, InitialEntries
  <2>2. last.entry = e
    BY <1>4
  <2>. HIDE DEF e
  <2>. QED BY <2>1, <2>2
<1>6. ToSet(last.entry) = active
  <2>1. ToSet(last.entry) \subseteq S
    BY <1>5 DEF ToSet
  <2>2. active = {s \in S : \E l \in ToSet(leaves) : Within(machine, l, s)}
    BY DEF active, Active
  <2>. QED BY <1>5, <2>1, <2>2
<1>7. \A s : Has(last.entry, s) = IF s \in active THEN 1 ELSE 0
  BY <1>5, <1>6, HasIs
<1>8. RunsFor(active, pc = "exited")
  <2>1. /\ entered = [s \in S |-> Has(last.entry, s)]
        /\ timers = {s \in ToSet(last.entry) : machine.after[s] # None}
        /\ invokes = [s \in S |-> IF s \in machine.invokes THEN Has(last.entry, s) ELSE 0]
        /\ pc # "exited"
    BY DEF Init
  <2>. QED BY <1>6, <1>7, <2>1 DEF RunsFor
<1>9. ExitsAndEntriesInOrder
  <2>1. \A i, j \in DOMAIN last.entry : i < j => ~IsDescendantOf(machine, last.entry[i], last.entry[j])
    <3>1. \A i \in 1..Len(last.entry) : last.entry[i] \in S
      BY <1>5
    <3>2. \A s, q \in S : IsDescendantOf(machine, s, q) => Within(machine, s, q)
      BY <1>2, WithinIsTree
    <3>3. DOMAIN last.entry = 1..Len(last.entry)
      BY <1>5
    <3>. QED BY <1>5, <3>1, <3>2, <3>3
  <2>2. DOMAIN last.exit = {} /\ ToSet(last.exit) = {}
    BY <1>4, ToSetSmall
  <2>. QED BY <2>1, <2>2 DEF ExitsAndEntriesInOrder
<1>. QED BY <1>1, <1>2, <1>3, <1>8, <1>9 DEF RegionsInv

\* What applyTransitions leaves behind, whatever the event.
LEMMA ApplyRegions ==
  ASSUME RegionsInv, pc # "exited", NEW ev, NEW holds, NEW queue, machine' = machine,
         ApplyTransitions(Pending(machine, leaves, ev, holds), queue)
  PROVE  /\ Whole(machine, ToSet(leaves)')
         /\ RunsFor(active, FALSE)'
         /\ ExitsAndEntriesInOrder'
<1>. DEFINE S == StateIDs(machine)
            L == ToSet(leaves)
            D == Moved(machine, leaves, ev, holds)
            t == MovedBy(machine, leaves, ev, holds)
            s == Macrostep(machine, leaves, Pending(machine, leaves, ev, holds))
            C == Active(machine, L)
            N == Active(machine, Replaced(machine, L, D, t))
            X == Exited(machine, D, t)
            E == Entered(machine, D, t)
<1>1. /\ WellFormed(machine) /\ KeepsRegions(machine) /\ leaves \in Seq(S) /\ Whole(machine, L)
      /\ entered \in [S -> Int] /\ invokes \in [S -> Nat]
  BY DEF RegionsInv, Typed, Runnable
<1>2. Fired(machine, L, D, t)
  BY <1>1, EventFires
<1>3. /\ s.exit \in Seq(S) /\ s.entry \in Seq(S)
      /\ ToSet(s.exit) = X /\ ToSet(s.entry) = E
      /\ \A i, j \in 1..Len(s.exit) : i < j => ~IsDescendantOf(machine, s.exit[j], s.exit[i])
      /\ \A i, j \in 1..Len(s.entry) : i < j => ~IsDescendantOf(machine, s.entry[i], s.entry[j])
  BY <1>1, MacrostepPaths
<1>4. ToSet(s.leaves) = Replaced(machine, L, D, t)
  BY <1>1, LeavesAfter
<1>5. leaves' = s.leaves /\ ExitThenEnter(s.exit, s.entry)
  BY DEF ApplyTransitions
<1>6. /\ X \subseteq C /\ E \subseteq N
      /\ N \ C \subseteq E /\ C \ N \subseteq X
      /\ C \cap N \cap X \subseteq E /\ C \cap E \subseteq X
  BY <1>1, <1>2, PathsMatchLeaves
<1>7. \A x \in X \cap E : ~IsCompound(machine, x)
  BY <1>1, <1>2, ReentersAtoms
<1>8. Whole(machine, Replaced(machine, L, D, t))
  BY <1>1, <1>2, StaysWhole
<1>9. active = C /\ active' = N
  BY <1>4, <1>5 DEF active
<1>10. \A x \in S : /\ entered[x] = IF x \in C THEN 1 ELSE 0
                    /\ invokes[x] = IF x \in machine.invokes /\ x \in C THEN 1 ELSE 0
  BY <1>9 DEF RegionsInv, RunsFor
<1>11. timers \subseteq C
  BY <1>9 DEF RegionsInv, RunsFor
<1>. HIDE DEF s, X, E, C, N
<1>12. \A x : /\ Has(s.exit, x) = (IF x \in X THEN 1 ELSE 0)
              /\ Has(s.entry, x) = (IF x \in E THEN 1 ELSE 0)
              /\ Contains(s.exit, x) <=> x \in X
  BY <1>3, HasIs
<1>13. ASSUME NEW x \in S PROVE entered'[x] = IF x \in N THEN 1 ELSE 0
  <2>1. entered'[x] = entered[x] - Has(s.exit, x) + Has(s.entry, x)
    BY <1>1, <1>5 DEF ExitThenEnter
  <2>. QED BY <1>6, <1>10, <1>12, <2>1
<1>14. ASSUME NEW x \in S PROVE invokes'[x] = IF x \in machine.invokes /\ x \in N THEN 1 ELSE 0
  <2>1. invokes'[x] = (IF Contains(s.exit, x) THEN 0 ELSE invokes[x])
                        + (IF x \in machine.invokes THEN Has(s.entry, x) ELSE 0)
    BY <1>1, <1>5 DEF ExitThenEnter
  <2>. QED BY <1>6, <1>10, <1>12, <2>1
<1>15. timers' \subseteq N
  <2>1. timers' = (timers \ X) \cup {x \in E : machine.after[x] # None}
    BY <1>3, <1>5 DEF ExitThenEnter
  <2>. QED BY <1>6, <1>11, <2>1
<1>16. RunsFor(active, FALSE)'
  BY <1>9, <1>13, <1>14, <1>15 DEF RunsFor
<1>17. ExitsAndEntriesInOrder'
  <2>1. last'.exit = s.exit /\ last'.entry = s.entry
    BY <1>5 DEF ExitThenEnter
  <2>2. DOMAIN s.exit = 1..Len(s.exit) /\ DOMAIN s.entry = 1..Len(s.entry)
    BY <1>3
  <2>. QED BY <1>3, <1>7, <2>1, <2>2 DEF ExitsAndEntriesInOrder
<1>. QED BY <1>4, <1>5, <1>8, <1>16, <1>17

LEMMA StepRegions ==
  ASSUME RegionsInv, pc # "exited", pc' # "exited", Typed', NEW ev, NEW holds, NEW queue,
         machine' = machine, Step(ev, holds, queue)
  PROVE  RegionsInv'
<1>1. CASE ApplyTransitions(Pending(machine, leaves, ev, holds), queue)
  <2>1. /\ Whole(machine, ToSet(leaves)')
        /\ RunsFor(active, FALSE)'
        /\ ExitsAndEntriesInOrder'
    BY <1>1, ApplyRegions
  <2>2. RunsFor(active, pc = "exited")'
    BY <2>1 DEF RunsFor
  <2>. QED BY <2>1, <2>2 DEF RegionsInv
<1>2. CASE UNCHANGED <<leaves, snapshot, lifecycle>>
  BY <1>2 DEF lifecycle, RegionsInv, RunsFor, active, ExitsAndEntriesInOrder
<1>. QED BY <1>1, <1>2 DEF Step

LEMMA ExitRegions ==
  ASSUME RegionsInv, Typed', Exit, machine' = machine
  PROVE  RegionsInv'
<1>1. \A s \in StateIDs(machine) : invokes'[s] = 0
  BY DEF Exit, RegionsInv, Typed
<1>. QED BY <1>1 DEF Exit, RegionsInv, RunsFor, active, ExitsAndEntriesInOrder

LEMMA RegionsStay == RegionsInv /\ [Next]_interpVars => RegionsInv'
<1>. SUFFICES ASSUME RegionsInv, [Next]_interpVars PROVE RegionsInv'
  OBVIOUS
<1>1. Typed'
  BY TypesKept DEF RegionsInv
<1>2. ASSUME NEW holds, StepInternal(holds) PROVE RegionsInv'
  BY <1>1, <1>2, StepRegions DEF StepInternal
<1>3. ASSUME NEW holds, TryAlways(holds) PROVE RegionsInv'
  <2>1. CASE ApplyTransitions(Pending(machine, leaves, AlwaysEvent, holds), <<>>) /\ UNCHANGED pc
    <3>1. pc # "exited" /\ pc' # "exited" /\ machine' = machine
      BY <1>3, <2>1 DEF TryAlways
    <3>2. /\ Whole(machine, ToSet(leaves)')
          /\ RunsFor(active, FALSE)'
          /\ ExitsAndEntriesInOrder'
      BY <2>1, <3>1, ApplyRegions
    <3>3. RunsFor(active, pc = "exited")'
      BY <3>1, <3>2 DEF RunsFor
    <3>. QED BY <1>1, <3>1, <3>2, <3>3 DEF RegionsInv
  <2>2. CASE pc' = "select" /\ UNCHANGED <<leaves, internal, snapshot, lifecycle>>
    BY <1>1, <1>3, <2>2 DEF TryAlways, lifecycle, RegionsInv, RunsFor, active, ExitsAndEntriesInOrder
  <2>. QED BY <1>3, <2>1, <2>2 DEF TryAlways
<1>4. CASE AlwaysLoopPanics
  BY <1>1, <1>4, ExitRegions DEF AlwaysLoopPanics
<1>5. ASSUME NEW holds, NEW ev, Receive(ev, holds) PROVE RegionsInv'
  BY <1>1, <1>5, StepRegions DEF Receive
<1>6. ASSUME NEW holds, ReceiveTimer(holds) PROVE RegionsInv'
  BY <1>1, <1>6, StepRegions DEF ReceiveTimer
<1>7. CASE Cancelled
  BY <1>1, <1>7, ExitRegions DEF Cancelled
<1>8. ASSUME NEW s \in StateIDs(machine), TimerFires(s) PROVE RegionsInv'
  BY <1>1, <1>8 DEF TimerFires, RegionsInv, RunsFor, active, ExitsAndEntriesInOrder
<1>9. CASE UNCHANGED interpVars
  BY <1>1, <1>9 DEF interpVars, lifecycle, RegionsInv, RunsFor, active, ExitsAndEntriesInOrder
<1>. QED BY <1>2, <1>3, <1>4, <1>5, <1>6, <1>7, <1>8, <1>9 DEF Next, RunSteps

LEMMA RegionsInvariant ==
  ASSUME \A m \in Machines : KeepsRegions(m)
  PROVE  Spec => []RegionsInv
<1>1. Init => RegionsInv
  BY InitRegions
<1>. QED BY <1>1, RegionsStay, PTL DEF Spec

LEMMA RegionsAreLegal ==
  ASSUME RegionsInv
  PROVE  LegalConfiguration
<1>1. WellFormed(machine) /\ Whole(machine, ToSet(leaves))
  BY DEF RegionsInv, Typed, Runnable
<1>2. configuration = Active(machine, ToSet(leaves))
  BY ConfigurationIsActive DEF RegionsInv, active
<1>3. /\ Cardinality({s \in configuration : machine.parent[s] = None}) = 1
      /\ \A s \in configuration :
          /\ machine.parent[s] # None => machine.parent[s] \in configuration
          /\ s \in machine.parallel =>
                  {c \in StateIDs(machine) : machine.parent[c] = s} \subseteq configuration
          /\ s \notin machine.parallel /\ {c \in StateIDs(machine) : machine.parent[c] = s} # {} =>
                  Cardinality({c \in StateIDs(machine) : machine.parent[c] = s} \cap configuration) = 1
  BY <1>1, <1>2, WholeIsLegal
<1>4. /\ \A T : Chart!Cardinality(T) = Cardinality(T)
      /\ Chart!StateIDs(machine) = StateIDs(machine) /\ Chart!None = None
  BY DEF Chart!Cardinality, Cardinality, Chart!StateIDs, Chart!ToSet, StateIDs, ToSet, Chart!None, None
<1>. HIDE DEF configuration
<1>. QED BY <1>3, <1>4 DEF LegalConfiguration, Chart!Legal

LEMMA RegionsAreFollowed ==
  ASSUME RegionsInv
  PROVE  LifecycleFollowsConfiguration
<1>1. configuration = active
  BY ConfigurationIsActive DEF RegionsInv
<1>. QED BY <1>1 DEF RegionsInv, RunsFor, LifecycleFollowsConfiguration

\* service.go, applyTransitions: replacing the leaves one by one keeps one branch
\* through every OR state and all regions of every parallel state.
THEOREM ConfigurationsAreLegal ==
  ASSUME \A m \in Machines : KeepsRegions(m)
  PROVE  Spec => []LegalConfiguration
BY RegionsAreLegal, RegionsInvariant, PTL

\* service.go: the entry and exit actions, invocations and timers that run are
\* those of the active states, and none after the interpreter has exited.
THEOREM LifecycleIsFollowed ==
  ASSUME \A m \in Machines : KeepsRegions(m)
  PROVE  Spec => []LifecycleFollowsConfiguration
BY RegionsAreFollowed, RegionsInvariant, PTL

\* service.go: exits inner states first and entries outer states first, across
\* all the transitions of an event, and no compound state left and entered again.
THEOREM OrderIsKept ==
  ASSUME \A m \in Machines : KeepsRegions(m)
  PROVE  Spec => []ExitsAndEntriesInOrder
<1>1. RegionsInv => ExitsAndEntriesInOrder
  BY DEF RegionsInv
<1>. QED BY <1>1, RegionsInvariant, PTL

-----------------------------------------------------------------------------
(* The refinement of Statechart. Its instance has operators of Machine of  *)
(* its own, which are the same.                                            *)

LEMMA ChartNames ==
  ASSUME NEW m
  PROVE  /\ Chart!StateIDs(m) = StateIDs(m) /\ Chart!None = None
         /\ \A s : /\ Chart!Ancestors(m, s) = Ancestors(m, s)
                   /\ Chart!Depth(m, s) = Depth(m, s)
                   /\ Chart!IsCompound(m, s) = IsCompound(m, s)
                   /\ Chart!Children(m, s) = Children(m, s)
         /\ \A s, ev, holds : Chart!Enabled(m, s, ev, holds) = Enabled(m, s, ev, holds)
<1>1. Chart!StateIDs(m) = StateIDs(m) /\ Chart!None = None
  BY DEF Chart!StateIDs, Chart!ToSet, StateIDs, ToSet, Chart!None, None
<1>2. ASSUME NEW s PROVE Chart!Chain(m, s) = Chain(m, s)
  BY DEF Chart!StateIDs, Chart!ToSet, StateIDs, ToSet, Chart!None, None, Chart!Chain, Chain
<1>3. ASSUME NEW s PROVE Chart!Ancestors(m, s) = Ancestors(m, s) /\ Chart!Depth(m, s) = Depth(m, s)
  BY <1>2 DEF Chart!Ancestors, Ancestors, Chart!Depth, Depth, Chart!ToSet, ToSet
<1>4. ASSUME NEW s PROVE Chart!IsCompound(m, s) = IsCompound(m, s)
  BY <1>1 DEF Chart!IsCompound, IsCompound
<1>5. ASSUME NEW s PROVE Chart!FlattenSeq(s) = FlattenSeq(s)
  BY DEF Chart!FlattenSeq, FlattenSeq
<1>6. ASSUME NEW s PROVE Chart!Children(m, s) = Children(m, s)
  BY <1>5 DEF Chart!Children, Children, Chart!Filter, Filter
<1>7. ASSUME NEW s, NEW ev, NEW holds PROVE Chart!Enabled(m, s, ev, holds) = Enabled(m, s, ev, holds)
  BY <1>1 DEF Chart!Enabled, Enabled
<1>. QED BY <1>1, <1>3, <1>4, <1>6, <1>7

LEMMA ChartWellFormed ==
  ASSUME NEW m, WellFormed(m)
  PROVE  Chart!WellFormed(m)
<1>1. \A x : Chart!ToSet(x) = ToSet(x)
  BY DEF Chart!ToSet, ToSet
<1>2. \A T : Chart!Cardinality(T) = Cardinality(T)
  BY DEF Chart!Cardinality, Cardinality
<1>3. \A s : Chart!Children(m, s) = Children(m, s)
  BY ChartNames
<1>4. Chart!StateIDs(m) = StateIDs(m) /\ Chart!None = None /\ Chart!AlwaysEvent = AlwaysEvent
  BY ChartNames DEF Chart!AlwaysEvent, AlwaysEvent
<1>5. /\ m.order \in Seq(Chart!StateIDs(m)) /\ m.transitions \in Seq(Chart!ToSet(m.transitions))
      /\ Chart!None \notin Chart!StateIDs(m)
      /\ m.start \in Chart!StateIDs(m) /\ m.parallel \subseteq Chart!StateIDs(m)
  BY <1>1, <1>4 DEF WellFormed
<1>6. \A i \in DOMAIN m.order :
        /\ \A j \in 1..(i-1) : m.order[j] # m.order[i]
        /\ m.parent[m.order[i]] \in {Chart!None} \cup {m.order[j] : j \in 1..(i-1)}
  BY <1>4 DEF WellFormed
<1>7. ASSUME NEW s \in Chart!StateIDs(m)
      PROVE  LET kids == Chart!ToSet(Chart!Children(m, s))
             IN  /\ s \in m.parallel /\ kids # {} => Chart!Cardinality(kids) >= 2
                 /\ IF s \in m.parallel \/ kids = {} THEN m.initial[s] = Chart!None
                    ELSE m.initial[s] \in kids
  BY <1>1, <1>2, <1>3, <1>4, <1>7 DEF WellFormed
<1>8. \A k \in DOMAIN m.transitions :
        LET t == m.transitions[k]
        IN  /\ {t.from, t.to} \subseteq Chart!StateIDs(m)
            /\ t.on = Chart!AlwaysEvent /\ ~t.guarded => t.to # t.from
  BY <1>4 DEF WellFormed
<1>. QED BY <1>5, <1>6, <1>7, <1>8 DEF Chart!WellFormed

\* The paths and sets of Statechart, by those of Machine.
LEMMA ChartPaths ==
  ASSUME NEW m, WellFormed(m), NEW s \in StateIDs(m)
  PROVE  /\ \A x : x \in Chart!SelfAndAncestors(m, s) <=> Within(m, s, x)
         /\ \A x : x \in Ancestors(m, s) <=> Within(m, s, x) /\ x # s
         /\ \A x : Within(m, s, x) => x \in StateIDs(m)
         /\ \A d : d = None \/ d \in StateIDs(m) => (s \in Chart!Below(m, d) <=> Inside(m, s, d))
<1>1. \A x : Within(m, s, x) => x \in StateIDs(m)
  BY WithinUnfolds
<1>2. ASSUME NEW x PROVE x \in Ancestors(m, s) <=> Within(m, s, x) /\ x # s
  <2>1. CASE x \in StateIDs(m)
    BY <2>1, WithinIsTree DEF IsDescendantOf
  <2>2. CASE x \notin StateIDs(m)
    <3>1. IsDescendantOf(m, s, x) => m.parent[s] # None /\ Within(m, m.parent[s], x)
      BY WithinUnfolds
    <3>2. m.parent[s] # None => m.parent[s] \in StateIDs(m)
      BY OrderedTree
    <3>3. IsDescendantOf(m, s, x) => x \in StateIDs(m)
      BY <3>1, <3>2, WithinUnfolds
    <3>. QED BY <1>1, <2>2, <3>3 DEF IsDescendantOf
  <2>. QED BY <2>1, <2>2
<1>3. Within(m, s, s) /\ None \notin StateIDs(m)
  BY WithinIsTree, OrderedTree
<1>4. ASSUME NEW x PROVE x \in Chart!SelfAndAncestors(m, s) <=> Within(m, s, x)
  BY <1>2, <1>3, ChartNames DEF Chart!SelfAndAncestors
<1>5. ASSUME NEW d, d = None \/ d \in StateIDs(m)
      PROVE  s \in Chart!Below(m, d) <=> Inside(m, s, d)
  BY <1>2, <1>3, <1>5, ChartNames DEF Chart!Below, Inside
<1>. QED BY <1>1, <1>2, <1>4, <1>5

\* What is entered below d.
LEMMA ChartEntrySet ==
  ASSUME NEW m, WellFormed(m), NEW to \in StateIDs(m),
         NEW d, d = None \/ (d \in StateIDs(m) /\ Within(m, to, d) /\ d \notin m.parallel),
         \A q \in AndStates(m) : IsDescendantOf(m, to, q) => ~Inside(m, q, d)
  PROVE  Chart!EntrySet(m, d, to) =
            {s \in StateIDs(m) : Inside(m, s, d) /\ \E h \in ToSet(LeafTargets(m, to)) : Within(m, h, s)}
<1>. DEFINE S == StateIDs(m)
            Enters(s) == \E h \in ToSet(LeafTargets(m, to)) : Within(m, h, s)
<1>1. \A x \in S : Chart!Follows(m, to, x) <=> Leads(m, to, x)
  <2>1. \A x : x \in Chart!SelfAndAncestors(m, to) <=> Within(m, to, x)
    BY ChartPaths
  <2>. QED BY <2>1, ChartNames DEF Chart!Follows, Leads, IsDescendantOf
<1>2. \A s \in S : /\ s \in Chart!Below(m, d) <=> Inside(m, s, d)
                   /\ \A x : x \in Chart!SelfAndAncestors(m, s) <=> Within(m, s, x)
                   /\ \A x : Within(m, s, x) => x \in S
  BY ChartPaths
<1>3. Chart!Below(m, d) \subseteq S
  BY ChartNames DEF Chart!Below
<1>4. \A s \in S : Inside(m, s, d) =>
        ((\A x \in S : Within(m, s, x) /\ Inside(m, x, d) => Leads(m, to, x)) <=> Enters(s))
  BY EntryTree
<1>. HIDE DEF Enters
<1>5. ASSUME NEW s \in S, Inside(m, s, d)
      PROVE  (\A x \in Chart!SelfAndAncestors(m, s) \cap Chart!Below(m, d) : Chart!Follows(m, to, x))
                <=> Enters(s)
  <2>1. ASSUME NEW x PROVE x \in Chart!SelfAndAncestors(m, s) \cap Chart!Below(m, d)
                              <=> x \in S /\ Within(m, s, x) /\ Inside(m, x, d)
    BY <1>2, <1>3
  <2>. QED BY <1>1, <1>4, <1>5, <2>1
<1>6. \A s : s \in Chart!EntrySet(m, d, to) <=> s \in S /\ Inside(m, s, d) /\ Enters(s)
  BY <1>2, <1>3, <1>5 DEF Chart!EntrySet
<1>. QED BY <1>6 DEF Enters

\* The domain of a transition that moves its leaf.
LEMMA ChartDomain ==
  ASSUME NEW m, WellFormed(m), NEW L, Whole(m, L), NEW D, NEW t, Fired(m, L, D, t), NEW l \in D,
         t[l].to # l
  PROVE  IsBase(m, l, t[l].to, Chart!Domain(m, l, t[l].to))
<1>. DEFINE S == StateIDs(m)
            to == t[l].to
            A == {a \in S : Within(m, l, a) /\ a # l /\ Within(m, to, a)}
            B == {d \in Chart!Ancestors(m, l) \ m.parallel : d \in Chart!SelfAndAncestors(m, to)}
            Lowest(x) == \A e \in B : Chart!Depth(m, e) <= Chart!Depth(m, x)
            c == Chart!Domain(m, l, to)
<1>1. l \in S /\ to \in S /\ None \notin S
  BY Mover, OrderedTree
<1>2. B = A \ m.parallel
  <2>1. ASSUME NEW x PROVE x \in B <=> x \in A \ m.parallel
    BY <1>1, ChartPaths, ChartNames
  <2>. QED BY <2>1
<1>3. c = IF B = {} THEN None ELSE CHOOSE x \in B : Lowest(x)
  BY ChartNames DEF Chart!Domain
<1>4. A # {} => \E d \in A : \A a \in A : Within(m, d, a)
  <2>1. ASSUME NEW a \in A PROVE a \in S /\ Len(Chain(m, a)) \in Nat
    BY ChainShape
  <2>2. ASSUME NEW a \in A, NEW e \in A PROVE Within(m, a, e) \/ Within(m, e, a)
    BY <1>1, <2>2, WithinIsTree
  <2>3. Len(Chain(m, l)) \in Nat
    BY <1>1, ChainShape
  <2>. SUFFICES ASSUME A # {} PROVE \E d \in A : \A a \in A : Within(m, d, a)
    OBVIOUS
  <2>. DEFINE N == {Len(Chain(m, l)) - Len(Chain(m, a)) : a \in A}
  <2>4. \A a \in A : Len(Chain(m, l)) - Len(Chain(m, a)) \in Nat
    <3>1. ASSUME NEW a \in A PROVE Len(Chain(m, a)) < Len(Chain(m, l))
      BY <1>1, WithinIsTree
    <3>2. ASSUME NEW a \in A PROVE Len(Chain(m, a)) \in Nat
      BY <2>1
    <3>. HIDE DEF A
    <3>. QED BY <2>3, <3>1, <3>2
  <2>5. PICK n \in N : \A k \in N : n <= k
    <3>1. N \subseteq Nat /\ N # {}
      BY <2>4
    <3>. HIDE DEF N
    <3>. QED BY <3>1, LeastNat
  <2>6. PICK d \in A : n = Len(Chain(m, l)) - Len(Chain(m, d))
    BY <2>5
  <2>7. ASSUME NEW a \in A PROVE Within(m, d, a)
    <3>1. Len(Chain(m, l)) - Len(Chain(m, d)) <= Len(Chain(m, l)) - Len(Chain(m, a))
      BY <2>5, <2>6
    <3>2. /\ Len(Chain(m, l)) \in Nat /\ Len(Chain(m, d)) \in Nat /\ Len(Chain(m, a)) \in Nat
      BY <2>1, <2>3
    <3>3. Len(Chain(m, a)) <= Len(Chain(m, d))
      BY <3>1, <3>2
    <3>4. Within(m, a, d) /\ a # d => Len(Chain(m, d)) < Len(Chain(m, a))
      BY <2>1, WithinIsTree
    <3>5. Within(m, d, d)
      BY <2>1, WithinIsTree
    <3>. QED BY <2>2, <3>2, <3>3, <3>4, <3>5
  <2>. QED BY <2>7
<1>5. CASE A = {}
  BY <1>2, <1>3, <1>5 DEF IsBase
<1>6. CASE A # {}
  <2>1. PICK d \in A : \A a \in A : Within(m, d, a)
    BY <1>4, <1>6
  <2>2. IsBase(m, l, to, d)
    BY <1>6, <2>1 DEF IsBase
  <2>3. d \notin m.parallel /\ d \in S
    BY <1>1, <2>2, BaseIsOr
  <2>4. d \in B
    BY <1>2, <2>1, <2>3
  <2>5. ASSUME NEW a \in B PROVE /\ a \in S /\ Within(m, d, a) /\ Depth(m, a) \in Int
                                 /\ a # d => Depth(m, a) < Depth(m, d)
    <3>1. a \in S /\ Within(m, d, a)
      BY <1>2, <2>1
    <3>2. Len(Chain(m, a)) \in Nat /\ Len(Chain(m, d)) \in Nat
      BY <2>3, <3>1, ChainShape
    <3>3. a # d => Len(Chain(m, a)) < Len(Chain(m, d))
      BY <2>3, <3>1, WithinIsTree
    <3>. QED BY <3>1, <3>2, <3>3 DEF Depth
  <2>6. Lowest(d) /\ \A x \in B : Lowest(x) => x = d
    <3>1. \A x : Chart!Depth(m, x) = Depth(m, x)
      BY ChartNames
    <3>. QED BY <2>4, <2>5, <3>1
  <2>8. c = CHOOSE x \in B : Lowest(x)
    BY <1>3, <2>4
  <2>. HIDE DEF Lowest, B, c
  <2>9. c = d
    BY <2>4, <2>6, <2>8
  <2>. QED BY <2>2, <2>9 DEF c
<1>. QED BY <1>5, <1>6

\* The transitions that fire are those that the leaves resolve the event to.
LEMMA ChartFires ==
  ASSUME NEW m, WellFormed(m), NEW ls \in Seq(StateIDs(m)), Whole(m, ToSet(ls)), NEW ev, NEW holds
  PROVE  LET D == Moved(m, ls, ev, holds)
             F == Chart!Fires(m, Active(m, ToSet(ls)), ev, holds)
         IN  /\ \A l \in D : [leaf |-> l, k |-> ResolveTransition(m, l, ev, holds)] \in F
             /\ \A f \in F : f.leaf \in D /\ f.k = ResolveTransition(m, f.leaf, ev, holds)
<1>. DEFINE S == StateIDs(m)
            L == ToSet(ls)
            C == Active(m, L)
            D == Moved(m, ls, ev, holds)
            F == Chart!Fires(m, C, ev, holds)
            On(s) == Enabled(m, s, ev, holds)
            k(l) == ResolveTransition(m, l, ev, holds)
<1>1. L \subseteq S /\ \A l \in L : ~IsCompound(m, l)
  BY DEF Whole
<1>2. {s \in C : ~Chart!IsCompound(m, s)} = L
  <2>1. ASSUME NEW s \in C, ~IsCompound(m, s) PROVE s \in L
    <3>1. s \in S /\ \E l \in L : Within(m, l, s)
      BY DEF Active
    <3>2. PICK l \in L : Within(m, l, s)
      BY <3>1
    <3>. QED BY <1>1, <2>1, <3>1, <3>2, WithinAndParent
  <2>2. ASSUME NEW l \in L PROVE l \in C
    BY <1>1, WithinIsTree DEF Active
  <2>. QED BY <1>1, <2>1, <2>2, ChartNames
<1>3. DOMAIN m.transitions \subseteq Nat \ {0}
  <2>1. m.transitions \in Seq(ToSet(m.transitions))
    BY DEF WellFormed
  <2>. QED BY <2>1
<1>4. ASSUME NEW s PROVE /\ On(s) \subseteq DOMAIN m.transitions
                         /\ On(s) # {} => Min(On(s)) \in On(s) /\ \A j \in On(s) : Min(On(s)) <= j
  <2>1. On(s) \subseteq DOMAIN m.transitions
    BY DEF Enabled
  <2>2. On(s) \subseteq Nat
    BY <1>3, <2>1
  <2>. HIDE DEF On
  <2>. QED BY <2>1, <2>2, MinIsLeast
<1>5. ASSUME NEW l \in S
      PROVE  /\ \A x : x \in Chart!SelfAndAncestors(m, l) <=> Within(m, l, x)
             /\ \A x : Within(m, l, x) => x \in S
  BY ChartPaths
<1>6. ASSUME NEW r \in S, NEW s \in S, Within(m, r, s) \/ Within(m, s, r)
      PROVE  Depth(m, r) > Depth(m, s) <=> Within(m, r, s) /\ r # s
  <2>1. Len(Chain(m, r)) \in Nat /\ Len(Chain(m, s)) \in Nat
    BY ChainShape
  <2>2. /\ Within(m, r, s) /\ r # s => Len(Chain(m, s)) < Len(Chain(m, r))
        /\ Within(m, s, r) /\ s # r => Len(Chain(m, r)) < Len(Chain(m, s))
    BY WithinIsTree
  <2>. QED BY <1>6, <2>1, <2>2 DEF Depth
<1>7. ASSUME NEW l \in S, NEW s, NEW r, Within(m, l, s), Within(m, l, r)
      PROVE  /\ s \in S /\ r \in S
             /\ Depth(m, r) > Depth(m, s) <=> Within(m, r, s) /\ r # s
             /\ Within(m, r, s) \/ Within(m, s, r)
  <2>1. s \in S /\ r \in S
    BY <1>5, <1>7
  <2>2. Within(m, r, s) \/ Within(m, s, r)
    BY <1>7, <2>1, WithinIsTree
  <2>. QED BY <1>6, <2>1, <2>2
<1>8. ASSUME NEW l \in L, NEW i, i \in DOMAIN m.transitions
      PROVE  [leaf |-> l, k |-> i] \in F
                <=> \E s \in S : /\ Within(m, l, s)
                                 /\ i \in On(s) /\ \A j \in On(s) : i <= j
                                 /\ \A r \in S : Within(m, l, r) /\ Within(m, r, s) /\ r # s => On(r) = {}
  <2>. DEFINE f == [leaf |-> l, k |-> i]
  <2>1. l \in S /\ f \in [leaf : L, k : DOMAIN m.transitions] /\ f.leaf = l /\ f.k = i
    BY <1>1, <1>8
  <2>2. f \in F <=> \E s \in Chart!SelfAndAncestors(m, l) :
                        /\ i \in On(s) /\ \A j \in On(s) : i <= j
                        /\ \A r \in Chart!SelfAndAncestors(m, l) : Depth(m, r) > Depth(m, s) => On(r) = {}
    <3>. HIDE DEF f, C
    <3>. QED BY <1>2, <2>1, ChartNames DEF Chart!Fires
  <2>. HIDE DEF f, On, F
  <2>3. ASSUME f \in F
        PROVE  \E s \in S : /\ Within(m, l, s)
                            /\ i \in On(s) /\ \A j \in On(s) : i <= j
                            /\ \A r \in S : Within(m, l, r) /\ Within(m, r, s) /\ r # s => On(r) = {}
    <3>1. PICK s \in Chart!SelfAndAncestors(m, l) :
                    /\ i \in On(s) /\ \A j \in On(s) : i <= j
                    /\ \A r \in Chart!SelfAndAncestors(m, l) : Depth(m, r) > Depth(m, s) => On(r) = {}
      BY <2>2, <2>3
    <3>2. Within(m, l, s) /\ s \in S
      BY <1>5, <2>1
    <3>. QED BY <1>5, <1>7, <2>1, <3>1, <3>2
  <2>4. ASSUME NEW s \in S, Within(m, l, s), i \in On(s), \A j \in On(s) : i <= j,
               \A r \in S : Within(m, l, r) /\ Within(m, r, s) /\ r # s => On(r) = {}
        PROVE  f \in F
    <3>1. s \in Chart!SelfAndAncestors(m, l)
      BY <1>5, <2>1, <2>4
    <3>2. ASSUME NEW r \in Chart!SelfAndAncestors(m, l), Depth(m, r) > Depth(m, s) PROVE On(r) = {}
      <4>1. Within(m, l, r) /\ r \in S
        BY <1>5, <2>1
      <4>. QED BY <1>7, <2>1, <2>4, <3>2, <4>1
    <3>. QED BY <2>2, <2>4, <3>1, <3>2
  <2>. QED BY <2>3, <2>4 DEF f
<1>. HIDE DEF F
<1>9. ASSUME NEW l \in D PROVE [leaf |-> l, k |-> k(l)] \in F
  <2>1. l \in L /\ l \in S /\ k(l) # 0
    BY <1>1 DEF Moved
  <2>2. /\ k(l) \in DOMAIN m.transitions /\ m.transitions[k(l)].from \in S
        /\ Within(m, l, m.transitions[k(l)].from)
        /\ k(l) = Min(On(m.transitions[k(l)].from)) /\ On(m.transitions[k(l)].from) # {}
        /\ \A s \in S : Within(m, l, s) /\ Within(m, s, m.transitions[k(l)].from) /\ On(s) # {} =>
                s = m.transitions[k(l)].from
    BY <2>1, ResolveIs
  <2>. HIDE DEF k, On
  <2>. QED BY <1>4, <1>8, <2>1, <2>2
<1>10. ASSUME NEW f \in F PROVE f.leaf \in D /\ f.k = k(f.leaf)
  <2>1. f \in [leaf : L, k : DOMAIN m.transitions]
    <3>. HIDE DEF C
    <3>. QED BY <1>2 DEF F, Chart!Fires
  <2>2. PICK l \in L, i \in DOMAIN m.transitions : f = [leaf |-> l, k |-> i]
    BY <2>1
  <2>3. PICK s \in S : /\ Within(m, l, s)
                       /\ i \in On(s) /\ \A j \in On(s) : i <= j
                       /\ \A r \in S : Within(m, l, r) /\ Within(m, r, s) /\ r # s => On(r) = {}
    BY <1>8, <2>2
  <2>. DEFINE g == m.transitions[k(l)].from
  <2>4. /\ k(l) # 0 /\ g \in S /\ Within(m, l, g) /\ k(l) = Min(On(g)) /\ On(g) # {}
        /\ \A r \in S : Within(m, l, r) /\ Within(m, r, g) /\ On(r) # {} => r = g
    <3>1. l \in S
      BY <1>1, <2>2
    <3>. QED BY <2>3, <3>1, ResolveIs
  <2>. HIDE DEF g, On, k
  <2>5. s = g
    <3>1. Within(m, s, g) \/ Within(m, g, s)
      BY <1>1, <2>2, <2>3, <2>4, WithinIsTree
    <3>. QED BY <2>3, <2>4, <3>1
  <2>6. i = k(l)
    <3>1. On(s) \subseteq Nat
      BY <1>3, <1>4
    <3>2. Min(On(s)) \in On(s) /\ \A j \in On(s) : Min(On(s)) <= j
      BY <1>4, <2>3
    <3>. QED BY <2>3, <2>4, <2>5, <3>1, <3>2
  <2>7. f.leaf = l /\ f.k = i
    BY <2>2
  <2>8. l \in D
    BY <2>2, <2>4 DEF Moved, k
  <2>. QED BY <2>6, <2>7, <2>8
<1>. QED BY <1>9, <1>10 DEF F

\* What one transition of an event leaves and enters.
LEMMA ChartMove ==
  ASSUME NEW m, WellFormed(m), NEW L, Whole(m, L), NEW D, NEW t, Fired(m, L, D, t), NEW l \in D,
         t[l].to # l, NEW s \in StateIDs(m)
  PROVE  LET d == Chart!Domain(m, l, t[l].to)
         IN  /\ s \in Chart!Below(m, d) <=> Inside(m, s, d)
             /\ s \in Chart!EntrySet(m, d, t[l].to) <=>
                    Inside(m, s, d) /\ \E h \in ToSet(LeafTargets(m, t[l].to)) : Within(m, h, s)
<1>. DEFINE d == Chart!Domain(m, l, t[l].to)
<1>1. IsBase(m, l, t[l].to, d)
  BY ChartDomain
<1>. HIDE DEF d
<1>2. t[l].to \in StateIDs(m)
  BY Mover
<1>3. d = None \/ (d \in StateIDs(m) /\ Within(m, t[l].to, d) /\ d \notin m.parallel)
  <2>1. d = None \/ (d \in StateIDs(m) /\ Within(m, t[l].to, d))
    BY <1>1 DEF IsBase
  <2>. QED BY <1>1, <2>1, BaseIsOr
<1>4. \A q \in AndStates(m) : IsDescendantOf(m, t[l].to, q) => ~Inside(m, q, d)
  BY <1>1, BaseKeepsRegions
<1>5. Chart!EntrySet(m, d, t[l].to) =
        {x \in StateIDs(m) : Inside(m, x, d) /\ \E h \in ToSet(LeafTargets(m, t[l].to)) : Within(m, h, x)}
  BY <1>2, <1>3, <1>4, ChartEntrySet
<1>6. s \in Chart!Below(m, d) <=> Inside(m, s, d)
  BY <1>3, ChartPaths
<1>. QED BY <1>5, <1>6 DEF d

\* What an event makes of the configuration is what the statechart says.
LEMMA ChartMicrostep ==
  ASSUME NEW m, WellFormed(m), KeepsRegions(m), NEW ls \in Seq(StateIDs(m)), Whole(m, ToSet(ls)),
         NEW ev, NEW holds
  PROVE  Active(m, Replaced(m, ToSet(ls), Moved(m, ls, ev, holds), MovedBy(m, ls, ev, holds)))
            = Chart!Microstep(m, Active(m, ToSet(ls)), ev, holds)
<1>. DEFINE S == StateIDs(m)
            L == ToSet(ls)
            C == Active(m, L)
            D == Moved(m, ls, ev, holds)
            t == MovedBy(m, ls, ev, holds)
            F == {f \in Chart!Fires(m, C, ev, holds) : m.transitions[f.k].to # f.leaf}
            d(f) == Chart!Domain(m, f.leaf, m.transitions[f.k].to)
            b == [l \in D |-> Chart!Domain(m, l, t[l].to)]
            M == Chart!Microstep(m, C, ev, holds)
            N == Active(m, Replaced(m, L, D, t))
<1>1. Fired(m, L, D, t)
  BY EventFires
<1>2. \A x : x \in M <=> \/ x \in C /\ \A f \in F : x \notin Chart!Below(m, d(f))
                         \/ \E f \in F : x \in Chart!EntrySet(m, d(f), m.transitions[f.k].to)
  <2>. HIDE DEF C
  <2>. QED BY DEF Chart!Microstep
<1>3. \A l \in D : t[l] = m.transitions[ResolveTransition(m, l, ev, holds)]
  BY DEF MovedBy
<1>4. ASSUME NEW f \in F
      PROVE  /\ f.leaf \in D /\ t[f.leaf] = m.transitions[f.k] /\ t[f.leaf].to # f.leaf
             /\ d(f) = b[f.leaf]
  <2>1. f.leaf \in D /\ f.k = ResolveTransition(m, f.leaf, ev, holds)
    BY ChartFires
  <2>. HIDE DEF D, t, C
  <2>. QED BY <1>3, <2>1
<1>5. ASSUME NEW l \in D, t[l].to # l
      PROVE  \E f \in F : f.leaf = l /\ m.transitions[f.k] = t[l] /\ d(f) = b[l]
  <2>. DEFINE f == [leaf |-> l, k |-> ResolveTransition(m, l, ev, holds)]
  <2>1. f \in Chart!Fires(m, C, ev, holds)
    BY ChartFires
  <2>. HIDE DEF D, t, C
  <2>2. f \in F /\ f.leaf = l /\ m.transitions[f.k] = t[l] /\ d(f) = b[l]
    BY <1>3, <1>5, <2>1
  <2>. QED BY <2>2
<1>6. ASSUME NEW l \in D, t[l].to # l, NEW s \in S
      PROVE  /\ s \in Chart!Below(m, b[l]) <=> Inside(m, s, b[l])
             /\ s \in Chart!EntrySet(m, b[l], t[l].to) <=>
                    Inside(m, s, b[l]) /\ \E h \in ToSet(LeafTargets(m, t[l].to)) : Within(m, h, s)
  <2>1. b[l] = Chart!Domain(m, l, t[l].to)
    OBVIOUS
  <2>. HIDE DEF b, D, t, L
  <2>. QED BY <1>1, <1>6, <2>1, ChartMove DEF L
<1>7. \A l \in D : t[l].to # l => IsBase(m, l, t[l].to, b[l])
  <2>1. ASSUME NEW l \in D, t[l].to # l PROVE IsBase(m, l, t[l].to, b[l])
    <3>1. b[l] = Chart!Domain(m, l, t[l].to)
      OBVIOUS
    <3>. HIDE DEF b, D, t, L
    <3>. QED BY <1>1, <2>1, <3>1, ChartDomain DEF L
  <2>. QED BY <2>1
<1>. HIDE DEF b, D, t, L, F, d, M
<1>8. ASSUME NEW s \in S PROVE s \in N <=> s \in M
  <2>. DEFINE Enters(l) == \E h \in ToSet(LeafTargets(m, t[l].to)) : Within(m, h, s)
  <2>1. s \in N <=> \/ s \in C /\ \A l \in D : t[l].to # l => ~Inside(m, s, b[l])
                    \/ \E l \in D : t[l].to # l /\ Inside(m, s, b[l]) /\ Enters(l)
    BY <1>1, <1>7, EventMoves DEF L
  <2>2. \A l \in D : t[l].to # l => /\ s \in Chart!Below(m, b[l]) <=> Inside(m, s, b[l])
                                    /\ s \in Chart!EntrySet(m, b[l], t[l].to) <=>
                                            Inside(m, s, b[l]) /\ Enters(l)
    BY <1>6
  <2>. HIDE DEF Enters, C, N
  <2>. QED BY <1>2, <1>4, <1>5, <2>1, <2>2
<1>9. N \subseteq S /\ M \subseteq S
  <2>1. C \subseteq S /\ N \subseteq S
    BY DEF Active
  <2>2. ASSUME NEW x \in M PROVE x \in S
    <3>. SUFFICES ASSUME NEW f \in F, x \in Chart!EntrySet(m, d(f), m.transitions[f.k].to) PROVE x \in S
      BY <1>2, <2>1
    <3>. QED BY ChartNames DEF Chart!EntrySet, Chart!Below
  <2>. QED BY <2>1, <2>2
<1>. HIDE DEF N
<1>10. N = M
  BY <1>8, <1>9
<1>. QED BY <1>10 DEF N, M, C, L, D, t

LEMMA StartsAsChart ==
  ASSUME \A m \in Machines : KeepsRegions(m), Init
  PROVE  Chart!Init
<1>. DEFINE S == StateIDs(machine)
<1>1. RegionsInv
  BY InitRegions
<1>2. WellFormed(machine) /\ KeepsRegions(machine) /\ machine.start \in S
  BY <1>1 DEF RegionsInv, Typed, Runnable, WellFormed
<1>3. configuration = Active(machine, ToSet(LeafTargets(machine, machine.start)))
  BY <1>1, ConfigurationIsActive DEF RegionsInv, active, Init, InitialLeaves
<1>4. \A q \in AndStates(machine) : IsDescendantOf(machine, machine.start, q) => ~Inside(machine, q, None)
  BY <1>2 DEF KeepsRegions, IsDescendantOf
<1>5. Chart!EntrySet(machine, None, machine.start) =
        {s \in S : Inside(machine, s, None) /\
            \E h \in ToSet(LeafTargets(machine, machine.start)) : Within(machine, h, s)}
  BY <1>2, <1>4, ChartEntrySet
<1>6. configuration = Chart!InitialConfig(machine)
  <2>1. \A s : Inside(machine, s, None)
    BY DEF Inside
  <2>2. Chart!InitialConfig(machine) = Chart!EntrySet(machine, None, machine.start)
    BY ChartNames DEF Chart!InitialConfig
  <2>. QED BY <1>3, <1>5, <2>1, <2>2 DEF Active
<1>. QED BY <1>2, <1>6, ChartWellFormed DEF Chart!Init

LEMMA StepsAsChart ==
  ASSUME RegionsInv, RegionsInv', NEW ev, NEW holds \in SUBSET Guarded, NEW queue,
         machine' = machine, Step(ev, holds, queue)
  PROVE  [Chart!Next]_<<machine, configuration>>
<1>. DEFINE pend == Pending(machine, leaves, ev, holds)
            D == Moved(machine, leaves, ev, holds)
            t == MovedBy(machine, leaves, ev, holds)
<1>1. /\ WellFormed(machine) /\ KeepsRegions(machine) /\ leaves \in Seq(StateIDs(machine))
      /\ Whole(machine, ToSet(leaves))
  BY DEF RegionsInv, Typed, Runnable
<1>2. configuration = Active(machine, ToSet(leaves)) /\ configuration' = Active(machine, ToSet(leaves'))
  <2>1. configuration = active
    BY ConfigurationIsActive DEF RegionsInv
  <2>2. configuration' = active'
    <3>1. WellFormed(machine') /\ leaves' \in Seq(StateIDs(machine'))
      BY DEF RegionsInv, Typed, Runnable
    <3>2. configuration' = ToSet(ConfigurationOf(machine', leaves')) /\ active' = Active(machine', ToSet(leaves'))
      BY DEF configuration, active
    <3>. QED BY <3>1, <3>2, ConfigurationIs DEF Active
  <2>. QED BY <2>1, <2>2 DEF active
<1>3. CASE leaves' = leaves
  BY <1>2, <1>3
<1>4. CASE pend # <<>> /\ ApplyTransitions(pend, queue)
  <2>1. leaves' = Macrostep(machine, leaves, pend).leaves
    BY <1>4 DEF ApplyTransitions
  <2>2. ToSet(leaves') = Replaced(machine, ToSet(leaves), D, t)
    BY <1>1, <2>1, LeavesAfter
  <2>3. configuration' = Chart!Microstep(machine, configuration, ev, holds)
    BY <1>1, <1>2, <2>2, ChartMicrostep
  <2>4. \E l \in D : TRUE
    <3>1. pend \in Seq(Firings(machine)) /\ \A p \in ToSet(pend) : p.source \in D
      BY <1>1, PendingTypes
    <3>2. PICK p : p \in ToSet(pend)
      BY <1>4, <3>1, NotEmpty
    <3>. QED BY <3>1, <3>2
  <2>5. ev \in Chart!EventTypes(machine)
    <3>1. PICK l \in D : l \in StateIDs(machine) /\ ResolveTransition(machine, l, ev, holds) # 0
      <4>1. ToSet(leaves) \subseteq StateIDs(machine)
        BY <1>1 DEF ToSet
      <4>. QED BY <2>4, <4>1 DEF Moved
    <3>2. \E k \in DOMAIN machine.transitions : machine.transitions[k].on = ev
      BY <1>1, <3>1, ResolveIs
    <3>. QED BY <3>2 DEF Chart!EventTypes
  <2>6. holds \in SUBSET Chart!Guarded(machine)
    BY DEF Guarded, Chart!Guarded
  <2>. QED BY <2>3, <2>5, <2>6 DEF Chart!Next
<1>. QED BY <1>3, <1>4 DEF Step

LEMMA ChartStep == RegionsInv /\ RegionsInv' /\ [Next]_interpVars => [Chart!Next]_<<machine, configuration>>
<1>. SUFFICES ASSUME RegionsInv, RegionsInv', [Next]_interpVars
              PROVE  [Chart!Next]_<<machine, configuration>>
  OBVIOUS
<1>0. machine' = machine /\ leaves' = leaves => [Chart!Next]_<<machine, configuration>>
  BY DEF configuration
<1>1. ASSUME NEW holds \in SUBSET Guarded, StepInternal(holds)
      PROVE  [Chart!Next]_<<machine, configuration>>
  BY <1>1, StepsAsChart DEF StepInternal
<1>2. ASSUME NEW holds \in SUBSET Guarded, TryAlways(holds)
      PROVE  [Chart!Next]_<<machine, configuration>>
  <2>1. CASE Pending(machine, leaves, AlwaysEvent, holds) = <<>> /\ leaves' = leaves
    BY <1>0, <1>2, <2>1 DEF TryAlways
  <2>2. CASE /\ Pending(machine, leaves, AlwaysEvent, holds) # <<>>
             /\ ApplyTransitions(Pending(machine, leaves, AlwaysEvent, holds), <<>>)
    <3>1. Step(AlwaysEvent, holds, <<>>)
      BY <2>2 DEF Step
    <3>. QED BY <1>2, <3>1, StepsAsChart DEF TryAlways
  <2>. QED BY <1>2, <2>1, <2>2 DEF TryAlways
<1>3. CASE AlwaysLoopPanics
  BY <1>0, <1>3 DEF AlwaysLoopPanics, Exit
<1>4. ASSUME NEW holds \in SUBSET Guarded, NEW ev, Receive(ev, holds)
      PROVE  [Chart!Next]_<<machine, configuration>>
  BY <1>4, StepsAsChart DEF Receive
<1>5. ASSUME NEW holds \in SUBSET Guarded, ReceiveTimer(holds)
      PROVE  [Chart!Next]_<<machine, configuration>>
  BY <1>5, StepsAsChart DEF ReceiveTimer
<1>6. CASE Cancelled
  BY <1>0, <1>6 DEF Cancelled, Exit
<1>7. ASSUME NEW s, TimerFires(s) PROVE [Chart!Next]_<<machine, configuration>>
  BY <1>0, <1>7 DEF TimerFires
<1>8. CASE UNCHANGED interpVars
  BY <1>0, <1>8 DEF interpVars
<1>. HIDE DEF configuration
<1>. QED BY <1>1, <1>2, <1>3, <1>4, <1>5, <1>6, <1>7, <1>8 DEF Next, RunSteps

\* service.go, step and applyTransitions: for machines that keep their regions,
\* resolving transitions leaf by leaf and replacing leaves one by one does what
\* the statechart says of the whole configuration.
THEOREM ImplementsChart ==
  ASSUME \A m \in Machines : KeepsRegions(m)
  PROVE  Spec => ImplementsStatechart
<1>1. Init => Chart!Init
  BY StartsAsChart
<1>2. Spec => []RegionsInv
  BY RegionsInvariant
<1>. QED BY <1>1, <1>2, ChartStep, PTL DEF Spec, ImplementsStatechart, Chart!Spec

\* What the actions of exits, entries and transitions raise.
ExitRaises(m, exit) == ForEach(exit, LAMBDA x : m.onExit[x])
EntryRaises(m, entry) == ForEach(entry, LAMBDA x : m.onEntry[x])

LEMMA ActionsRaiseNoDone ==
  ASSUME NEW m, Runnable(m), DoneIsReserved(m), NEW s \in StateIDs(m),
         NEW pend \in Seq(Firings(m)), NEW ls,
         NEW exit \in Seq(StateIDs(m)), NEW entry \in Seq(StateIDs(m))
  PROVE  /\ ExitRaises(m, exit) \in Seq(STRING) /\ DoneEvent(s) \notin ToSet(ExitRaises(m, exit))
         /\ EntryRaises(m, entry) \in Seq(STRING) /\ DoneEvent(s) \notin ToSet(EntryRaises(m, entry))
         /\ Macrostep(m, ls, pend).raises \in Seq(STRING)
         /\ DoneEvent(s) \notin ToSet(Macrostep(m, ls, pend).raises)
<1>. DEFINE S == StateIDs(m)
            f == [p \in Firings(m) |-> p.trans.raises]
            e == DoneEvent(s)
<1>1. /\ m.onExit \in [S -> Seq(STRING)] /\ m.onEntry \in [S -> Seq(STRING)]
      /\ \A k \in DOMAIN m.transitions : m.transitions[k].raises \in Seq(STRING)
  BY DEF Runnable
<1>2. /\ \A r \in S : e \notin ToSet(m.onEntry[r]) /\ e \notin ToSet(m.onExit[r])
      /\ \A k \in DOMAIN m.transitions : e \notin ToSet(m.transitions[k].raises)
  BY DEF DoneIsReserved
<1>3. \A y \in ToSet(exit) \cup ToSet(entry) : y \in S
  BY DEF ToSet
<1>4. \A p \in Firings(m) : p.trans.raises \in Seq(STRING) /\ e \notin ToSet(p.trans.raises)
  <2>1. \A t \in ToSet(m.transitions) : \E k \in DOMAIN m.transitions : t = m.transitions[k]
    BY DEF ToSet
  <2>. QED BY <1>1, <1>2, <2>1 DEF Firings
<1>5. f \in [Firings(m) -> Seq(STRING)] /\ \A p \in Firings(m) : e \notin ToSet(f[p])
  BY <1>4
<1>6. /\ ExitRaises(m, exit) = MapOf(exit, m.onExit)
      /\ EntryRaises(m, entry) = MapOf(entry, m.onEntry)
  BY DEF ExitRaises, EntryRaises, ForEach, MapOf
<1>7. Macrostep(m, ls, pend).raises = MapOf(pend, f)
  <2>1. Macrostep(m, ls, pend).raises = ForEach(pend, LAMBDA p : p.trans.raises)
    BY DEF Macrostep
  <2>2. [i \in DOMAIN pend |-> f[pend[i]]] = [i \in DOMAIN pend |-> pend[i].trans.raises]
    <3>1. \A i \in DOMAIN pend : pend[i] \in Firings(m)
      OBVIOUS
    <3>. QED BY <3>1
  <2>. HIDE DEF f
  <2>. QED BY <2>1, <2>2 DEF MapOf, ForEach
<1>8. \A p \in ToSet(pend) : p \in Firings(m)
  BY DEF ToSet
<1>. HIDE DEF f, e
<1>9. MapOf(exit, m.onExit) \in Seq(STRING) /\ e \notin ToSet(MapOf(exit, m.onExit))
  BY <1>1, <1>2, <1>3, MapElements
<1>10. MapOf(entry, m.onEntry) \in Seq(STRING) /\ e \notin ToSet(MapOf(entry, m.onEntry))
  BY <1>1, <1>2, <1>3, MapElements
<1>11. MapOf(pend, f) \in Seq(STRING) /\ e \notin ToSet(MapOf(pend, f))
  BY <1>5, <1>8, MapElements
<1>. QED BY <1>6, <1>7, <1>9, <1>10, <1>11 DEF e

LEMMA CompletedIs ==
  ASSUME NEW m, WellFormed(m), NEW ls \in Seq(StateIDs(m)), NEW s \in StateIDs(m)
  PROVE  Complete(m, ToSet(ls), s) <=>
            /\ s \in ToSet(ConfigurationOf(m, ls))
            /\ \A i \in DOMAIN ls : IsDescendantOf(m, ls[i], s) => ls[i] \in m.final
<1>1. s \in Active(m, ToSet(ls)) <=> s \in ToSet(ConfigurationOf(m, ls))
  BY ConfigurationIs DEF Active
<1>2. (\A l \in ToSet(ls) : IsDescendantOf(m, l, s) => l \in m.final)
        <=> \A i \in DOMAIN ls : IsDescendantOf(m, ls[i], s) => ls[i] \in m.final
  BY DEF ToSet
<1>. QED BY <1>1, <1>2 DEF Complete

\* applyTransitions raises the done event of the states that it completes.
LEMMA ApplyTellsTruth ==
  ASSUME RegionsInv, DoneIsReserved(machine), machine' = machine, NEW ev, NEW holds,
         NEW queue \in Seq(Internal(machine)),
         ApplyTransitions(Pending(machine, leaves, ev, holds), queue),
         NEW s \in StateIDs(machine), IsCompound(machine, s), Simple(machine, s)
  PROVE  /\ Count(internal', DoneEvent(s)) > Count(queue, DoneEvent(s)) => Completed(s)'
         /\ Completed(s)' /\ ~Completed(s) => Count(internal', DoneEvent(s)) > 0
<1>. DEFINE S == StateIDs(machine)
            T == Internal(machine)
            L == ToSet(leaves)
            pend == Pending(machine, leaves, ev, holds)
            D == Moved(machine, leaves, ev, holds)
            t == MovedBy(machine, leaves, ev, holds)
            x == Macrostep(machine, leaves, pend)
            e == DoneEvent(s)
            done == DoneEvents(machine, x.leaves, x.entry)
            q1 == queue \o ExitRaises(machine, x.exit)
            q2 == q1 \o EntryRaises(machine, x.entry)
            q3 == q2 \o x.raises
<1>1. /\ Runnable(machine) /\ WellFormed(machine) /\ KeepsRegions(machine)
      /\ leaves \in Seq(S) /\ leaves # <<>> /\ Whole(machine, L)
      /\ \A l \in L : ~IsCompound(machine, l)
  BY DEF RegionsInv, Typed, Runnable
<1>2. Fired(machine, L, D, t) /\ Whole(machine, Replaced(machine, L, D, t))
  BY <1>1, EventFires, StaysWhole
<1>3. x.exit \in Seq(S) /\ x.entry \in Seq(S) /\ ToSet(x.entry) = Entered(machine, D, t)
  BY <1>1, MacrostepPaths
<1>4. x.leaves \in Seq(S) /\ ToSet(x.leaves) = Replaced(machine, L, D, t)
  BY <1>1, MacrostepTypes, LeavesAfter
<1>5. pend \in Seq(Firings(machine))
  BY <1>1, PendingTypes
<1>6. leaves' = x.leaves /\ internal' = q3 \o done
  BY DEF ApplyTransitions, ExitRaises, EntryRaises
<1>. HIDE DEF pend
<1>7. /\ ExitRaises(machine, x.exit) \in Seq(STRING) /\ e \notin ToSet(ExitRaises(machine, x.exit))
      /\ EntryRaises(machine, x.entry) \in Seq(STRING) /\ e \notin ToSet(EntryRaises(machine, x.entry))
      /\ x.raises \in Seq(STRING) /\ e \notin ToSet(x.raises)
  <2>1. ASSUME NEW exit \in Seq(S), NEW entry \in Seq(S)
        PROVE  /\ ExitRaises(machine, exit) \in Seq(STRING) /\ e \notin ToSet(ExitRaises(machine, exit))
               /\ EntryRaises(machine, entry) \in Seq(STRING) /\ e \notin ToSet(EntryRaises(machine, entry))
               /\ x.raises \in Seq(STRING) /\ e \notin ToSet(x.raises)
    BY <1>1, <1>5, ActionsRaiseNoDone
  <2>. HIDE DEF x, e
  <2>. QED BY <1>3, <2>1
<1>. HIDE DEF x
<1>8. done \in Seq({DoneEvent(r) : r \in S})
  BY <1>1, <1>3, DoneEventsTypes
<1>9. e \in ToSet(done) <=> CompoundIsDone(machine, x.leaves, s)
                                /\ \E y \in ToSet(x.entry) : IsDescendantOf(machine, y, s)
  <2>1. e \in ToSet(done) <=>
            \E r \in S : /\ e = DoneEvent(r) /\ CompoundIsDone(machine, x.leaves, r)
                         /\ \E y \in ToSet(x.entry) : IsDescendantOf(machine, y, r)
    BY <1>1, <1>3, DoneEventsAre
  <2>2. \A r \in S : DoneEvent(r) = DoneEvent(s) => r = s
    BY DEF DoneIsReserved
  <2>. HIDE DEF done
  <2>. QED BY <2>1, <2>2
<1>10. CompoundIsDone(machine, x.leaves, s) <=> Complete(machine, Replaced(machine, L, D, t), s)
  <2>1. Whole(machine, ToSet(x.leaves))
    BY <1>2, <1>4
  <2>. QED BY <1>1, <1>4, <2>1, CompoundIsDoneIs
<1>11. Completed(s) <=> Complete(machine, L, s)
  BY <1>1, CompletedIs DEF Completed, configuration
<1>12. Completed(s)' <=> Complete(machine, Replaced(machine, L, D, t), s)
  <2>1. Complete(machine, ToSet(x.leaves), s) <=>
            /\ s \in ToSet(ConfigurationOf(machine, x.leaves))
            /\ \A i \in DOMAIN x.leaves :
                    IsDescendantOf(machine, x.leaves[i], s) => x.leaves[i] \in machine.final
    BY <1>1, <1>4, CompletedIs
  <2>. QED BY <1>4, <1>6, <2>1 DEF Completed, configuration
<1>13. /\ q1 \in Seq(T) /\ q2 \in Seq(T) /\ q3 \in Seq(T) /\ done \in Seq(T)
       /\ Count(q3, e) = Count(queue, e)
  <2>1. STRING \subseteq T /\ {DoneEvent(r) : r \in S} \subseteq T
    BY DEF Internal
  <2>. HIDE DEF done, T, e
  <2>2. /\ ExitRaises(machine, x.exit) \in Seq(T) /\ EntryRaises(machine, x.entry) \in Seq(T)
        /\ x.raises \in Seq(T) /\ done \in Seq(T)
    BY <1>7, <1>8, <2>1, WiderSeq
  <2>3. queue \in Seq(T)
    BY DEF T
  <2>4. q1 \in Seq(T) /\ Count(q1, e) = Count(queue, e)
    BY <1>7, <2>2, <2>3, ConcatTypes, CountAppended
  <2>. HIDE DEF q1
  <2>5. q2 \in Seq(T) /\ Count(q2, e) = Count(q1, e)
    BY <1>7, <2>2, <2>4, ConcatTypes, CountAppended
  <2>. HIDE DEF q2
  <2>6. q3 \in Seq(T) /\ Count(q3, e) = Count(q2, e)
    BY <1>7, <2>2, <2>5, ConcatTypes, CountAppended
  <2>. QED BY <2>2, <2>4, <2>5, <2>6
<1>. HIDE DEF q1, q2, q3, done, e, T, L, D, t
<1>14. ASSUME ~Complete(machine, Replaced(machine, L, D, t), s) PROVE Count(internal', e) = Count(queue, e)
  <2>1. e \notin ToSet(done)
    BY <1>9, <1>10, <1>14
  <2>. QED BY <1>6, <1>13, <2>1, CountAppended
<1>15. Count(queue, e) \in Nat
  BY CountIs DEF T
<1>16. ASSUME Complete(machine, Replaced(machine, L, D, t), s), ~Complete(machine, L, s)
       PROVE  Count(internal', e) > 0
  <2>1. \E y \in Entered(machine, D, t) : IsDescendantOf(machine, y, s)
    BY <1>1, <1>2, <1>16, StepCompletes
  <2>2. e \in ToSet(done)
    BY <1>3, <1>9, <1>10, <1>16, <2>1
  <2>3. e \in ToSet(q3 \o done) /\ q3 \o done \in Seq(T)
    <3>1. PICK i \in 1..Len(done) : done[i] = e
      BY <1>13, <2>2 DEF ToSet
    <3>2. (q3 \o done)[Len(q3) + i] = e /\ Len(q3) + i \in DOMAIN (q3 \o done)
      BY <1>13, <3>1
    <3>. QED BY <1>13, <3>2 DEF ToSet
  <2>. QED BY <1>6, <2>3, CountIs
<1>. QED BY <1>11, <1>12, <1>14, <1>15, <1>16 DEF e

\* A step that leaves the leaves as they are completes nothing and raises nothing.
LEMMA QuietTellsTruth ==
  ASSUME machine' = machine, leaves' = leaves, NEW s,
         Count(internal', DoneEvent(s)) <= Count(internal, DoneEvent(s)),
         Count(internal', DoneEvent(s)) \in Nat, Count(internal, DoneEvent(s)) \in Nat
  PROVE  DoneIffCompleted(s)
<1>1. Completed(s)' <=> Completed(s)
  BY DEF Completed, configuration
<1>. QED BY <1>1 DEF DoneIffCompleted, Count

LEMMA StepTellsTruth ==
  ASSUME RegionsInv, Typed', DoneIsReserved(machine), machine' = machine, NEW ev, NEW holds,
         NEW queue \in Seq(Internal(machine)), Step(ev, holds, queue),
         NEW s \in StateIDs(machine), IsCompound(machine, s), Simple(machine, s),
         Count(queue, DoneEvent(s)) <= Count(internal, DoneEvent(s))
  PROVE  DoneIffCompleted(s)
<1>. DEFINE e == DoneEvent(s)
<1>1. /\ internal \in Seq(Internal(machine))
      /\ internal' \in Seq(Internal(machine))
  BY DEF RegionsInv, Typed, Internal
<1>2. /\ Count(internal, e) \in Nat
      /\ Count(internal', e) \in Nat
      /\ Count(queue, e) \in Nat
  BY <1>1, CountIs
<1>3. CASE ApplyTransitions(Pending(machine, leaves, ev, holds), queue)
  <2>1. /\ Count(internal', e) > Count(queue, e) => Completed(s)'
        /\ Completed(s)' /\ ~Completed(s) => Count(internal', e) > 0
    BY <1>3, ApplyTellsTruth
  <2>2. Count(internal', e) > Count(internal, e) => Count(internal', e) > Count(queue, e)
    <3>1. Count(queue, e) <= Count(internal, e)
      OBVIOUS
    <3>. HIDE DEF e
    <3>. QED BY <1>2, <3>1
  <2>. QED BY <2>1, <2>2 DEF DoneIffCompleted, Count
<1>4. CASE internal' = queue /\ UNCHANGED <<leaves, snapshot, lifecycle>>
  BY <1>2, <1>4, QuietTellsTruth
<1>. QED BY <1>3, <1>4 DEF Step

LEMMA NextTellsTruth ==
  ASSUME RegionsInv, DoneIsReserved(machine), [Next]_interpVars,
         NEW s \in StateIDs(machine), IsCompound(machine, s), Simple(machine, s)
  PROVE  DoneIffCompleted(s)
<1>. DEFINE e == DoneEvent(s)
<1>1. Typed'
  BY TypesKept DEF RegionsInv
<1>2. internal \in Seq(Internal(machine))
  BY DEF RegionsInv, Typed
<1>3. Count(internal, e) \in Nat
  BY <1>2, CountIs
<1>4. Count(internal, e) <= Count(internal, e)
  <2>. HIDE DEF e
  <2>. QED BY <1>3
<1>5. ASSUME UNCHANGED <<machine, leaves, internal>> PROVE DoneIffCompleted(s)
  BY <1>3, <1>4, <1>5, QuietTellsTruth
<1>6. ASSUME NEW holds, StepInternal(holds) PROVE DoneIffCompleted(s)
  <2>1. internal # <<>> /\ machine' = machine /\ Step(Head(internal), holds, Tail(internal))
    BY <1>6 DEF StepInternal
  <2>2. Tail(internal) \in Seq(Internal(machine))
    BY <1>2, <2>1
  <2>3. Count(Tail(internal), e) <= Count(internal, e)
    BY <1>2, <2>1, CountTail
  <2>. QED BY <1>1, <2>1, <2>2, <2>3, StepTellsTruth
<1>7. ASSUME NEW holds, TryAlways(holds) PROVE DoneIffCompleted(s)
  <2>1. machine' = machine /\ internal = <<>>
    BY <1>7 DEF TryAlways
  <2>2. CASE ApplyTransitions(Pending(machine, leaves, AlwaysEvent, holds), <<>>)
    <3>1. <<>> \in Seq(Internal(machine))
      OBVIOUS
    <3>2. /\ Count(internal', e) > Count(internal, e) => Completed(s)'
          /\ Completed(s)' /\ ~Completed(s) => Count(internal', e) > 0
      BY <2>1, <2>2, <3>1, ApplyTellsTruth
    <3>. QED BY <3>2 DEF DoneIffCompleted, Count
  <2>3. CASE UNCHANGED <<leaves, internal, snapshot, lifecycle>>
    BY <1>5, <2>1, <2>3
  <2>. QED BY <1>7, <2>2, <2>3 DEF TryAlways
<1>8. CASE AlwaysLoopPanics
  BY <1>5, <1>8 DEF AlwaysLoopPanics, Exit
<1>9. ASSUME NEW holds, NEW ev, Receive(ev, holds) PROVE DoneIffCompleted(s)
  BY <1>1, <1>2, <1>4, <1>9, StepTellsTruth DEF Receive
<1>10. ASSUME NEW holds, ReceiveTimer(holds) PROVE DoneIffCompleted(s)
  BY <1>1, <1>2, <1>4, <1>10, StepTellsTruth DEF ReceiveTimer
<1>11. CASE Cancelled
  BY <1>5, <1>11 DEF Cancelled, Exit
<1>12. ASSUME NEW r \in StateIDs(machine), TimerFires(r) PROVE DoneIffCompleted(s)
  BY <1>5, <1>12 DEF TimerFires
<1>13. CASE UNCHANGED interpVars
  BY <1>5, <1>13 DEF interpVars
<1>. QED BY <1>6, <1>7, <1>8, <1>9, <1>10, <1>11, <1>12, <1>13 DEF Next, RunSteps

\* service.go, raiseDoneEvents: a done event is raised only for a state that has
\* completed, and always by the event that completes it, if no parallel state
\* lies below it; the names of done events are reserved to the interpreter.
THEOREM DoneIsTold ==
  ASSUME \A m \in Machines : KeepsRegions(m) /\ DoneIsReserved(m)
  PROVE  Spec => DoneTellsTruth
<1>. DEFINE Truth == \A s \in StateIDs(machine) :
                        IsCompound(machine, s) /\ (\A q \in machine.parallel : ~IsDescendantOf(machine, q, s))
                            => DoneIffCompleted(s)
            Reserved == RegionsInv /\ DoneIsReserved(machine)
<1>1. Init => Reserved
  BY InitRegions DEF Init
<1>2. Reserved /\ [Next]_interpVars => Reserved'
  <2>. SUFFICES ASSUME Reserved, [Next]_interpVars PROVE Reserved'
    OBVIOUS
  <2>1. machine' = machine
    BY DEF Next, RunSteps, StepInternal, TryAlways, AlwaysLoopPanics, Receive, ReceiveTimer, Cancelled,
           TimerFires, interpVars
  <2>. QED BY <2>1, RegionsStay
<1>3. Reserved /\ [Next]_interpVars => Truth
  BY NextTellsTruth DEF Simple
<1>4. Truth => [Truth]_interpVars
  OBVIOUS
<1>. QED BY <1>1, <1>2, <1>3, PTL DEF Spec, DoneTellsTruth

-----------------------------------------------------------------------------
(* Checkpoints.                                                            *)

\* A machine without guarded Always has none to fire.
NoAlwaysWaits(m, ls) ==
  (\A k \in DOMAIN m.transitions : m.transitions[k].guarded => m.transitions[k].on # AlwaysEvent)
    => \A holds : Pending(m, ls, AlwaysEvent, holds) = <<>>

\* 1 for the states that L makes active and which belong to T, 0 for the others.
Counts(m, L, T) == [s \in StateIDs(m) |-> IF s \in T /\ s \in Active(m, L) THEN 1 ELSE 0]

\* The leaves of a checkpoint are whole, its context has seen the entries of the
\* active states, and if it was taken at rest, nothing waits to be done.
Sound(d) ==
  /\ WellFormed(d.machine)
  /\ d.leaves \in Seq(StateIDs(d.machine)) /\ Whole(d.machine, ToSet(d.leaves))
  /\ d.context = Counts(d.machine, ToSet(d.leaves), StateIDs(d.machine))
  /\ d.rest => /\ NoAlwaysWaits(d.machine, d.leaves)
               /\ d.invokes = Counts(d.machine, ToSet(d.leaves), d.machine.invokes)

\* Without guards on Always it does not matter which guards hold.
LEMMA NoneWaits ==
  ASSUME NEW m, WellFormed(m), NEW ls \in Seq(StateIDs(m)), NEW holds,
         Pending(m, ls, AlwaysEvent, holds) = <<>>
  PROVE  NoAlwaysWaits(m, ls)
<1>. DEFINE S == StateIDs(m)
<1>. SUFFICES ASSUME \A k \in DOMAIN m.transitions :
                        m.transitions[k].guarded => m.transitions[k].on # AlwaysEvent,
                     NEW other, Pending(m, ls, AlwaysEvent, other) # <<>>
              PROVE  FALSE
  BY DEF NoAlwaysWaits
<1>1. \A s : Enabled(m, s, AlwaysEvent, other) = Enabled(m, s, AlwaysEvent, holds)
  BY DEF Enabled
<1>2. PICK p : p \in ToSet(Pending(m, ls, AlwaysEvent, other))
  BY PendingIs, NotEmpty
<1>3. PICK l \in ToSet(ls) : ResolveTransition(m, l, AlwaysEvent, other) # 0
  BY <1>2, PendingIs
<1>4. l \in S
  BY <1>3 DEF ToSet
<1>5. PICK s \in S : Within(m, l, s) /\ Enabled(m, s, AlwaysEvent, other) # {}
  BY <1>3, <1>4, ResolveIs
<1>6. ResolveTransition(m, l, AlwaysEvent, holds) # 0
  <2>1. ResolveTransition(m, l, AlwaysEvent, holds) = 0 =>
            \A x \in S : Within(m, l, x) => Enabled(m, x, AlwaysEvent, holds) = {}
    BY <1>4, ResolveIs
  <2>. QED BY <1>1, <1>5, <2>1
<1>7. [source |-> l, trans |-> m.transitions[ResolveTransition(m, l, AlwaysEvent, holds)]]
            \in ToSet(Pending(m, ls, AlwaysEvent, holds))
  BY <1>3, <1>6, PendingIs
<1>8. ToSet(Pending(m, ls, AlwaysEvent, holds)) = {}
  BY ToSetSmall
<1>. QED BY <1>7, <1>8

\* Whole leaves that a release still has as leaves are whole for it, and stand
\* for the same states.
LEMMA ReleaseKeepsWhole ==
  ASSUME NEW m, WellFormed(m), NEW n, WellFormed(n), SameLeaves(m, n), NEW L, Whole(m, L),
         \A l \in L : l \in StateIDs(n) /\ ~IsCompound(n, l)
  PROVE  Whole(n, L) /\ Active(n, L) = Active(m, L)
<1>1. L \subseteq StateIDs(m) /\ L \subseteq StateIDs(n) /\ L # {}
      /\ \A l \in L : ~IsCompound(m, l) /\ ~IsCompound(n, l)
  BY DEF Whole
<1>2. ASSUME NEW k, WellFormed(k), NEW l \in StateIDs(k)
      PROVE  /\ \A x : Within(k, l, x) <=> x = l \/ x \in Ancestors(k, l)
             /\ \A x : Within(k, l, x) => x \in StateIDs(k)
  <2>1. Chain(k, l) \in Seq(StateIDs(k)) /\ Chain(k, l) # <<>>
    BY <1>2, ChainShape
  <2>2. \A x : Within(k, l, x) => x \in StateIDs(k)
    BY <2>1 DEF Within, ToSet
  <2>3. \A x \in StateIDs(k) : x \in Ancestors(k, l) <=> Within(k, l, x) /\ x # l
    BY <1>2, WithinIsTree DEF IsDescendantOf
  <2>4. Ancestors(k, l) \subseteq StateIDs(k)
    <3>1. Tail(Chain(k, l)) \in Seq(StateIDs(k))
      BY <2>1, HeadTailProperties
    <3>. QED BY <3>1 DEF Ancestors, ToSet
  <2>5. Within(k, l, l)
    BY <1>2, WithinIsTree
  <2>. QED BY <2>2, <2>3, <2>4, <2>5
<1>3. \A l \in L : \A x : Within(m, l, x) <=> Within(n, l, x)
  BY <1>1, <1>2 DEF SameLeaves
<1>4. Active(n, L) = Active(m, L)
  <2>1. \A l \in L : \A x : Within(m, l, x) => x \in StateIDs(m) /\ x \in StateIDs(n)
    BY <1>1, <1>2, <1>3
  <2>. QED BY <1>3, <2>1 DEF Active
<1>5. ASSUME NEW l \in L, NEW q, Within(m, l, q), q # l
      PROVE  /\ q \in StateIDs(m) /\ q \in StateIDs(n)
             /\ q \in AndStates(m) <=> q \in AndStates(n)
             /\ q \in AndStates(m) =>
                    \A r : r \in StateIDs(m) /\ m.parent[r] = q <=> r \in StateIDs(n) /\ n.parent[r] = q
  <2>1. q \in Ancestors(m, l) /\ q \in StateIDs(m) /\ q \in StateIDs(n)
    BY <1>1, <1>2, <1>3, <1>5
  <2>2. IsCompound(m, q) /\ IsCompound(n, q)
    BY <1>1, <1>3, <1>5, <2>1, WithinAndParent
  <2>3. /\ q \in m.parallel <=> q \in n.parallel
        /\ q \in m.parallel => ToSet(Children(m, q)) = ToSet(Children(n, q))
    BY <1>1, <2>1 DEF SameLeaves
  <2>4. /\ ToSet(Children(m, q)) = {c \in StateIDs(m) : m.parent[c] = q}
        /\ ToSet(Children(n, q)) = {c \in StateIDs(n) : n.parent[c] = q}
    BY ChildrenAre
  <2>. QED BY <2>1, <2>2, <2>3, <2>4 DEF AndStates
<1>6. ASSUME NEW l \in L, NEW h \in L, l # h PROVE Apart(n, l, h)
  <2>1. PICK q, r, u \in StateIDs(m) : ApartAt(m, q, r, u, l, h)
    BY <1>6 DEF Whole, Apart
  <2>2. Within(m, l, q) /\ q # l
    BY <1>1, <2>1, ApartShares
  <2>3. /\ q \in AndStates(n) /\ q \in StateIDs(n)
        /\ r \in StateIDs(n) /\ n.parent[r] = q /\ u \in StateIDs(n) /\ n.parent[u] = q
    BY <1>5, <2>1, <2>2 DEF ApartAt
  <2>4. ApartAt(n, q, r, u, l, h)
    BY <1>3, <2>1, <2>3 DEF ApartAt
  <2>. QED BY <2>3, <2>4 DEF Apart
<1>7. ASSUME NEW l \in L, NEW q \in AndStates(n), NEW r \in StateIDs(n), q \in StateIDs(n),
             Within(n, l, q), n.parent[r] = q
      PROVE  \E h \in L : Within(n, h, r)
  <2>1. q # l /\ Within(m, l, q)
    BY <1>1, <1>3, <1>7 DEF AndStates
  <2>2. q \in AndStates(m) /\ q \in StateIDs(m) /\ r \in StateIDs(m) /\ m.parent[r] = q
    BY <1>5, <1>7, <2>1
  <2>3. \E h \in L : Within(m, h, r)
    BY <2>1, <2>2 DEF Whole
  <2>. QED BY <1>3, <2>3
<1>. QED BY <1>1, <1>4, <1>6, <1>7 DEF Whole

-----------------------------------------------------------------------------
(* The inductive invariant.                                                *)

AtRest == pc = "select" => internal = <<>> /\ NoAlwaysWaits(machine, leaves)

Down ==
  /\ iter = 0 /\ outCh = <<>> /\ timers = {} /\ resumed = NoCheckpoint
  /\ last = [exit |-> <<>>, entry |-> <<>>]

\* A running service satisfies the invariant of the interpreter, and has nothing
\* to do when it rests; the checkpoint is sound and of the same line of releases;
\* and a service that has been at rest still is.
PersistInv(later) ==
  /\ <<machine, machine>> \in later
  /\ IF pc = "down" THEN Down ELSE RegionsInv /\ AtRest
  /\ disk # NoCheckpoint => <<disk.machine, machine>> \in later /\ Sound(disk)
  /\ resumed # NoCheckpoint /\ resumed.rest => NoAlwaysWaits(resumed.machine, resumed.leaves)
  /\ ResumesWhereItRested

LEMMA PersistStarts ==
  ASSUME NEW later, Lineage(later), PersistInit
  PROVE  PersistInv(later)
<1>1. <<machine, machine>> \in later
  BY DEF PersistInit, Init, Lineage
<1>2. RegionsInv
  <2>1. \A m \in Machines : KeepsRegions(m)
    BY DEF Lineage
  <2>. QED BY <2>1, InitRegions DEF PersistInit
<1>3. pc = "loop" /\ disk = NoCheckpoint /\ resumed = NoCheckpoint
  BY DEF PersistInit, Init
<1>. QED BY <1>1, <1>2, <1>3 DEF PersistInv, AtRest, ResumesWhereItRested

\* A step of the interpreter keeps its invariant, and that of a service at rest.
LEMMA StepKeepsRest ==
  ASSUME RegionsInv, AtRest, Next
  PROVE  RegionsInv' /\ AtRest' /\ pc' # "down" /\ machine' = machine
<1>1. RegionsInv'
  BY RegionsStay
<1>2. pc' # "down"
  BY <1>1 DEF RegionsInv, Typed
<1>3. WellFormed(machine) /\ leaves \in Seq(StateIDs(machine))
  BY DEF RegionsInv, Typed, Runnable
<1>4. ASSUME NEW holds, StepInternal(holds) PROVE AtRest' /\ machine' = machine
  BY <1>4 DEF StepInternal, AtRest
<1>5. ASSUME NEW holds, TryAlways(holds) PROVE AtRest' /\ machine' = machine
  <2>1. CASE UNCHANGED pc
    BY <1>5, <2>1 DEF TryAlways, AtRest
  <2>2. CASE /\ Pending(machine, leaves, AlwaysEvent, holds) = <<>>
             /\ UNCHANGED <<leaves, internal, snapshot, lifecycle>>
    <3>1. NoAlwaysWaits(machine, leaves)
      BY <1>3, <2>2, NoneWaits
    <3>2. machine' = machine /\ leaves' = leaves /\ internal' = <<>>
      BY <1>5, <2>2 DEF TryAlways
    <3>. QED BY <3>1, <3>2 DEF AtRest
  <2>. QED BY <1>5, <2>1, <2>2 DEF TryAlways
<1>6. ASSUME AlwaysLoopPanics PROVE AtRest' /\ machine' = machine
  BY <1>6 DEF AlwaysLoopPanics, Exit, AtRest
<1>7. ASSUME NEW holds, NEW ev, Receive(ev, holds) PROVE AtRest' /\ machine' = machine
  BY <1>7 DEF Receive, AtRest
<1>8. ASSUME NEW holds, ReceiveTimer(holds) PROVE AtRest' /\ machine' = machine
  BY <1>8 DEF ReceiveTimer, AtRest
<1>9. ASSUME Cancelled PROVE AtRest' /\ machine' = machine
  BY <1>9 DEF Cancelled, Exit, AtRest
<1>10. ASSUME NEW s, TimerFires(s) PROVE AtRest' /\ machine' = machine
  BY <1>10 DEF TimerFires, AtRest
<1>. QED BY <1>1, <1>2, <1>4, <1>5, <1>6, <1>7, <1>8, <1>9, <1>10 DEF Next, RunSteps

\* A service at rest that takes no event stays where it is.
LEMMA RestLasts ==
  ASSUME RegionsInv, ResumesWhereItRested, resumed # NoCheckpoint,
         resumed.rest => NoAlwaysWaits(resumed.machine, resumed.leaves),
         Running
  PROVE  ResumesWhereItRested'
<1>. SUFFICES ASSUME resumed.rest, resumed.machine = machine', pc' # "exited",
                     \A k \in DOMAIN machine'.transitions :
                        machine'.transitions[k].guarded => machine'.transitions[k].on # AlwaysEvent
              PROVE  UNCHANGED <<leaves, internal, entered, invokes>>
                        /\ leaves = resumed.leaves /\ internal = <<>>
                        /\ entered = resumed.context /\ invokes = resumed.invokes
  BY DEF ResumesWhereItRested, Running, Guarded
<1>1. machine' = machine
  BY DEF Running, RunSteps, StepInternal, TryAlways, AlwaysLoopPanics, Cancelled, TimerFires
<1>2. pc # "exited"
  BY DEF Running, RunSteps, StepInternal, TryAlways, AlwaysLoopPanics, Cancelled, TimerFires
<1>3. /\ leaves = resumed.leaves /\ internal = <<>>
      /\ entered = resumed.context /\ invokes = resumed.invokes
  BY <1>1, <1>2 DEF ResumesWhereItRested, Guarded
<1>4. \A holds : Pending(machine, leaves, AlwaysEvent, holds) = <<>>
  BY <1>1, <1>3 DEF NoAlwaysWaits
<1>5. ASSUME NEW holds, TryAlways(holds) PROVE UNCHANGED <<leaves, internal, entered, invokes>>
  BY <1>4, <1>5 DEF TryAlways, lifecycle
<1>6. \A holds : ~StepInternal(holds)
  BY <1>3 DEF StepInternal
<1>7. ~AlwaysLoopPanics /\ ~Cancelled
  BY DEF AlwaysLoopPanics, Cancelled, Exit
<1>8. ASSUME NEW s, TimerFires(s) PROVE UNCHANGED <<leaves, internal, entered, invokes>>
  BY <1>8 DEF TimerFires
<1>. QED BY <1>3, <1>5, <1>6, <1>7, <1>8 DEF Running, RunSteps

\* What Save writes is sound, whatever the interpreter is doing.
LEMMA SavesSound ==
  ASSUME RegionsInv, AtRest, Save
  PROVE  Sound(disk')
<1>. DEFINE S == StateIDs(machine)
<1>1. disk' = [machine |-> machine, leaves |-> snapshot.leaves, context |-> entered,
               invokes |-> invokes, rest |-> pc = "select"]
  BY DEF Save
<1>2. /\ WellFormed(machine) /\ snapshot.leaves = leaves /\ leaves \in Seq(S) /\ Whole(machine, ToSet(leaves))
      /\ entered \in [S -> Int] /\ invokes \in [S -> Nat]
  BY DEF RegionsInv, Typed, Runnable, Snap
<1>3. /\ \A s \in S : entered[s] = IF s \in Active(machine, ToSet(leaves)) THEN 1 ELSE 0
      /\ \A s \in S : pc # "exited" =>
            invokes[s] = IF s \in machine.invokes /\ s \in Active(machine, ToSet(leaves)) THEN 1 ELSE 0
  BY DEF RegionsInv, RunsFor, active
<1>4. entered = Counts(machine, ToSet(leaves), S)
  BY <1>2, <1>3 DEF Counts
<1>5. pc = "select" => NoAlwaysWaits(machine, leaves) /\ invokes = Counts(machine, ToSet(leaves), machine.invokes)
  BY <1>2, <1>3 DEF Counts, AtRest
<1>6. /\ disk'.machine = machine /\ disk'.leaves = leaves /\ disk'.context = entered
      /\ disk'.invokes = invokes /\ (disk'.rest <=> pc = "select")
  BY <1>1, <1>2
<1>. QED BY <1>2, <1>4, <1>5, <1>6 DEF Sound

\* Restore, of the same machine or a later release.
LEMMA RestoreKeeps ==
  ASSUME NEW later, Lineage(later), PersistInv(later), NEW m \in {machine} \cup Releases(machine), RestoreAs(m)
  PROVE  PersistInv(later)'
<1>. DEFINE S == StateIDs(m)
            d == disk.machine
            L == ToSet(disk.leaves)
            config == Configured(m)
<1>1. /\ pc = "down" /\ disk # NoCheckpoint /\ ValidLeaves(m, disk.leaves)
      /\ machine' = m /\ leaves' = disk.leaves
      /\ entered' = [s \in S |-> (IF s \in DOMAIN disk.context THEN disk.context[s] ELSE 0) + Has(<<>>, s)]
      /\ internal' = <<>> /\ timers' = {s \in config : m.after[s] # None}
      /\ invokes' = [s \in S |-> IF s \in config \cap m.invokes THEN 1 ELSE 0]
      /\ snapshot' = Snap(m, disk.leaves) /\ pc' = "loop" /\ resumed' = disk
      /\ UNCHANGED <<iter, outCh, last, disk>>
  BY DEF RestoreAs, Resume
<1>2. <<machine, machine>> \in later /\ <<d, machine>> \in later /\ Down /\ Sound(disk)
  BY <1>1 DEF PersistInv
<1>3. <<m, m>> \in later /\ <<d, m>> \in later
  <2>1. \A p \in later : \A n \in Releases(p[2]) : <<p[1], n>> \in later /\ <<n, n>> \in later
    BY DEF Lineage
  <2>. QED BY <1>2, <2>1
<1>4. Runnable(m) /\ KeepsRegions(m) /\ SameLeaves(d, m)
  <2>1. \A p \in later : Runnable(p[2]) /\ KeepsRegions(p[2]) /\ SameLeaves(p[1], p[2])
    BY DEF Lineage
  <2>2. <<d, m>>[1] = d /\ <<d, m>>[2] = m
    OBVIOUS
  <2>. QED BY <1>3, <2>1, <2>2
<1>5. /\ WellFormed(d) /\ WellFormed(m) /\ Whole(d, L)
      /\ disk.context = Counts(d, L, StateIDs(d))
      /\ disk.rest => NoAlwaysWaits(d, disk.leaves) /\ disk.invokes = Counts(d, L, d.invokes)
  BY <1>2, <1>4 DEF Sound, Runnable
<1>6. disk.leaves \in Seq(S) /\ disk.leaves # <<>> /\ \A l \in L : l \in S /\ ~IsCompound(m, l)
  <2>1. disk.leaves \in Seq(StateIDs(d))
    BY <1>2 DEF Sound
  <2>2. \A i \in DOMAIN disk.leaves : disk.leaves[i] \in S /\ ~IsCompound(m, disk.leaves[i])
    BY <1>1 DEF ValidLeaves
  <2>. QED BY <1>1, <2>1, <2>2 DEF ValidLeaves, ToSet
<1>7. Whole(m, L) /\ Active(m, L) = Active(d, L)
  BY <1>4, <1>5, <1>6, ReleaseKeepsWhole
<1>8. config = Active(m, L)
  BY <1>5, <1>6, ConfigurationIs DEF Configured, Active
<1>9. active' = Active(m, L)
  BY <1>1 DEF active
<1>. HIDE DEF L, config, d
<1>10. entered' = Counts(m, L, S)
  <2>1. \A s : Has(<<>>, s) = 0
    <3>1. <<>> \in Seq(S) /\ \A s : s \notin ToSet(<<>>)
      BY DEF ToSet
    <3>. QED BY <3>1, HasIs
  <2>2. \A s \in S : (IF s \in DOMAIN disk.context THEN disk.context[s] ELSE 0) =
                        IF s \in Active(m, L) THEN 1 ELSE 0
    <3>1. Active(d, L) \subseteq StateIDs(d)
      BY DEF Active
    <3>. QED BY <1>5, <1>7, <3>1 DEF Counts
  <2>. QED BY <1>1, <2>1, <2>2 DEF Counts
<1>11. invokes' = Counts(m, L, m.invokes)
  BY <1>1, <1>8 DEF Counts
<1>12. RegionsInv'
  <2>1. /\ leaves' \in Seq(S) /\ leaves' # <<>> /\ ToSet(leaves)' = L
        /\ \A l \in ToSet(leaves)' : ~IsCompound(m, l)
    BY <1>1, <1>6 DEF L
  <2>2. /\ internal' \in Seq(Internal(m)) /\ outCh' \in Seq(S) /\ Len(outCh') <= TimerBuffer
        /\ iter' \in 0..MaxAlwaysIter /\ last' \in [exit : Seq(S), entry : Seq(S)]
    BY <1>1, <1>2, InterpreterAssumption DEF Down
  <2>3. timers' \subseteq Active(m, L) /\ Active(m, L) \subseteq S
    BY <1>1, <1>8 DEF Active
  <2>4. entered' \in [S -> Int] /\ invokes' \in [S -> Nat]
    BY <1>10, <1>11 DEF Counts
  <2>5. Typed'
    BY <1>1, <1>4, <2>1, <2>2, <2>3, <2>4 DEF Typed
  <2>6. RunsFor(active, pc = "exited")'
    BY <1>1, <1>9, <1>10, <1>11, <2>3 DEF RunsFor, Counts
  <2>7. ExitsAndEntriesInOrder'
    <3>1. last'.exit = <<>> /\ last'.entry = <<>>
      BY <1>1, <1>2 DEF Down
    <3>2. DOMAIN <<>> = {} /\ ToSet(<<>>) = {}
      BY ToSetSmall
    <3>. QED BY <3>1, <3>2 DEF ExitsAndEntriesInOrder
  <2>. QED BY <1>1, <1>4, <1>7, <2>1, <2>5, <2>6, <2>7 DEF RegionsInv
<1>13. ResumesWhereItRested'
  <2>. SUFFICES ASSUME disk.rest, d = m
                PROVE  entered' = disk.context /\ invokes' = disk.invokes
    BY <1>1 DEF ResumesWhereItRested, d
  <2>. QED BY <1>5, <1>10, <1>11
<1>14. pc' # "down" /\ AtRest'
  BY <1>1 DEF AtRest
<1>15. disk'.machine = d /\ disk' = disk /\ resumed' = disk
  BY <1>1 DEF d
<1>. QED BY <1>1, <1>2, <1>3, <1>5, <1>12, <1>13, <1>14, <1>15 DEF PersistInv, d

LEMMA PersistKeeps ==
  ASSUME NEW later, Lineage(later), PersistInv(later), [PersistNext]_persistVars
  PROVE  PersistInv(later)'
<1>1. ASSUME pc # "down", Next, disk' = disk, ResumesWhereItRested',
             resumed' = resumed \/ resumed' = NoCheckpoint
      PROVE  PersistInv(later)'
  <2>1. RegionsInv' /\ AtRest' /\ pc' # "down" /\ machine' = machine
    BY <1>1, StepKeepsRest DEF PersistInv
  <2>. QED BY <1>1, <2>1 DEF PersistInv
<1>2. CASE Running
  <2>1. pc # "down"
    BY <1>2 DEF Running, RunSteps, StepInternal, TryAlways, AlwaysLoopPanics, Cancelled, TimerFires,
                PersistInv, Down
  <2>2. Next
    BY <1>2 DEF Running, Next
  <2>3. resumed = NoCheckpoint => ResumesWhereItRested'
    BY <1>2 DEF Running, ResumesWhereItRested
  <2>4. resumed # NoCheckpoint => ResumesWhereItRested'
    BY <1>2, <2>1, RestLasts DEF PersistInv
  <2>. QED BY <1>1, <1>2, <2>1, <2>2, <2>3, <2>4 DEF Running
<1>3. CASE Taking
  <2>1. pc # "down" /\ Next
    BY <1>3 DEF Taking, Receive, ReceiveTimer, Next
  <2>. QED BY <1>1, <1>3, <2>1 DEF Taking, ResumesWhereItRested
<1>4. CASE Save
  <2>1. pc # "down" /\ UNCHANGED <<interpVars, resumed>> /\ disk'.machine = machine
    BY <1>4 DEF Save
  <2>2. UNCHANGED <<machine, leaves, internal, pc, iter, outCh, snapshot, entered, timers, invokes, last>>
    BY <2>1 DEF interpVars, lifecycle
  <2>3. RegionsInv /\ AtRest
    BY <2>1 DEF PersistInv
  <2>4. Sound(disk')
    BY <1>4, <2>3, SavesSound
  <2>5. RegionsInv'
    BY <2>1, <2>3, RegionsStay
  <2>6. AtRest' /\ ResumesWhereItRested'
    BY <2>1, <2>2, <2>3 DEF PersistInv, AtRest, ResumesWhereItRested, Guarded
  <2>. QED BY <2>1, <2>2, <2>4, <2>5, <2>6 DEF PersistInv
<1>5. CASE Crash
  BY <1>5 DEF Crash, PersistInv, Down, ResumesWhereItRested
<1>6. ASSUME NEW m \in {machine} \cup Releases(machine), RestoreAs(m) PROVE PersistInv(later)'
  BY <1>6, RestoreKeeps
<1>7. CASE UNCHANGED persistVars
  <2>1. UNCHANGED <<interpVars, disk, resumed>>
    BY <1>7 DEF persistVars
  <2>2. UNCHANGED <<machine, leaves, internal, pc, iter, outCh, snapshot, entered, timers, invokes, last>>
    BY <2>1 DEF interpVars, lifecycle
  <2>3. pc # "down" => RegionsInv'
    BY <2>1, RegionsStay DEF PersistInv
  <2>4. (pc # "down" => AtRest') /\ ResumesWhereItRested' /\ (pc = "down" => Down')
    BY <2>1, <2>2 DEF PersistInv, AtRest, ResumesWhereItRested, Guarded, Down
  <2>. QED BY <2>1, <2>2, <2>3, <2>4 DEF PersistInv
<1>. QED BY <1>2, <1>3, <1>4, <1>5, <1>6, <1>7 DEF PersistNext

LEMMA PersistInvariant ==
  ASSUME NEW later, Lineage(later)
  PROVE  PersistSpec => []PersistInv(later)
<1>1. PersistInit => PersistInv(later)
  BY PersistStarts
<1>2. PersistInv(later) /\ [PersistNext]_persistVars => PersistInv(later)'
  BY PersistKeeps
<1>. QED BY <1>1, <1>2, PTL DEF PersistSpec

\* persist.go, Save and Restore: whenever the checkpoint was taken and whichever
\* release restores it, the service runs in a legal configuration, with the
\* context, the timers and the invocations of its active states.
THEOREM RestoredIsConsistent ==
  ASSUME NEW later, Lineage(later)
  PROVE  PersistSpec => []RestoredConsistent
<1>1. PersistInv(later) => RestoredConsistent
  BY RegionsAreLegal, RegionsAreFollowed DEF PersistInv, RestoredConsistent
<1>. QED BY <1>1, PersistInvariant, PTL

\* service.go, Restore: a service that was at rest when it was saved is at rest
\* in the same configuration when it resumes, until it takes an event.
THEOREM ResumesAtRest ==
  ASSUME NEW later, Lineage(later)
  PROVE  PersistSpec => []ResumesWhereItRested
<1>1. PersistInv(later) => ResumesWhereItRested
  BY DEF PersistInv
<1>. QED BY <1>1, PersistInvariant, PTL
=============================================================================
