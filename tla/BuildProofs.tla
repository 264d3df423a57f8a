----------------------------- MODULE BuildProofs ------------------------------
(***************************************************************************)
(* Proofs about Build: the errors of compile say what is wrong, and what   *)
(* it accepts is acceptable, well-formed and starts in a configuration.    *)
(***************************************************************************)
EXTENDS Build, MicrostepProofs

-----------------------------------------------------------------------------
(* What the calls of the builder leave behind.                             *)

IDs == ToSet(Names) \cup {None}

Ways == {Applied(o) : o \in Options}
Ordinary == [event : {Event} \cup {DoneEvent(s) : s \in IDs}, target : References, how : Ways]
Timed == [delay : 0..1, target : References, how : {AppliedApart(o) : o \in Options}]
Routing == [event : {AlwaysEvent}, target : References, how : Ways]

StateConfig ==
  [id : IDs, parent : Nat, parallel : BOOLEAN, final : BOOLEAN, initialChild : References,
   transitions : Seq(Ordinary), after : Seq(Timed), always : Seq(Routing)]

\* A definition: a state comes after its parent.
Config(c) ==
  /\ c \in [id : {"machine", None}, initial : References, states : Seq(StateConfig)]
  /\ \A i \in DOMAIN c.states : c.states[i].parent \in 0..(i-1)

\* What is built is what compile makes of the definition.
Typed ==
  /\ Config(cfg)
  /\ open \in Seq(DOMAIN cfg.states)
  /\ result = Unbuilt \/ result = Compile(cfg)

LEMMA UsedIDs ==
  ASSUME Config(cfg)
  PROVE  Used \subseteq IDs /\ Fresh \subseteq IDs
<1>1. \A i \in DOMAIN cfg.states : cfg.states[i].id \in IDs
  <2>1. cfg.states \in Seq(StateConfig)
    BY DEF Config
  <2>2. \A i \in DOMAIN cfg.states : cfg.states[i] \in StateConfig
    BY <2>1
  <2>. QED BY <2>2 DEF StateConfig
<1>2. \A i \in DOMAIN Names : Names[i] \in IDs
  BY DEF IDs, ToSet
<1>. QED BY <1>1, <1>2 DEF Used, Fresh, IDs

LEMMA LastAndFront ==
  ASSUME NEW S, NEW seq \in Seq(S), seq # <<>>
  PROVE  Last(seq) \in S /\ Front(seq) \in Seq(S)
<1>1. Len(seq) \in Nat /\ Len(seq) # 0 /\ \A i \in 1..Len(seq) : seq[i] \in S
  OBVIOUS
<1>2. Len(seq) \in 1..Len(seq)
  BY <1>1
<1>. QED BY <1>1, <1>2 DEF Last, Front

\* Inside a callback Here is a state.
LEMMA HereIs ==
  ASSUME Typed, InCallback
  PROVE  /\ Here \in DOMAIN cfg.states /\ Front(open) \in Seq(DOMAIN cfg.states)
         /\ cfg.states[Here] \in StateConfig /\ DOMAIN cfg.states = 1..Len(cfg.states)
<1>1. open \in Seq(DOMAIN cfg.states) /\ open # <<>> /\ cfg.states \in Seq(StateConfig)
  BY DEF Typed, InCallback, Config
<1>2. Here \in DOMAIN cfg.states /\ Front(open) \in Seq(DOMAIN cfg.states)
  BY <1>1, LastAndFront DEF Here
<1>. QED BY <1>1, <1>2

\* A call of a StateBuilder changes the state of the callback, not its parent.
LEMMA DetailKeepsTypes ==
  ASSUME Typed, Detail, NEW v \in StateConfig, v.parent = cfg.states[Here].parent,
         cfg' = [cfg EXCEPT !.states = [cfg.states EXCEPT ![Here] = v]]
  PROVE  Typed'
<1>1. InCallback /\ open' = open /\ result = Unbuilt /\ result' = Unbuilt
  BY DEF Detail
<1>2. Here \in DOMAIN cfg.states
  BY <1>1, HereIs
<1>3. /\ cfg \in [id : {"machine", None}, initial : References, states : Seq(StateConfig)]
      /\ \A i \in DOMAIN cfg.states : cfg.states[i].parent \in 0..(i-1)
      /\ open \in Seq(DOMAIN cfg.states)
  BY DEF Typed, Config
<1>. DEFINE new == [cfg.states EXCEPT ![Here] = v]
<1>4. new \in Seq(StateConfig) /\ DOMAIN new = DOMAIN cfg.states
  BY <1>2, <1>3
<1>5. \A i \in DOMAIN new : new[i].parent \in 0..(i-1)
  BY <1>2, <1>3
<1>. HIDE DEF new
<1>6. cfg' \in [id : {"machine", None}, initial : References, states : Seq(StateConfig)] /\ cfg'.states = new
  BY <1>3, <1>4 DEF new
<1>. QED BY <1>1, <1>3, <1>4, <1>5, <1>6 DEF Typed, Config

LEMMA InitTyped == Init => Typed
<1> SUFFICES ASSUME Init PROVE Typed
  OBVIOUS
<1>1. PICK id \in {"machine", None} : cfg = [id |-> id, initial |-> None, states |-> <<>>]
  BY DEF Init
<1>2. None \in References /\ <<>> \in Seq(StateConfig) /\ <<>> \in Seq(DOMAIN cfg.states)
  BY DEF References
<1>. QED BY <1>1, <1>2 DEF Init, Typed, Config

LEMMA StepTyped ==
  ASSUME Typed, [Next]_buildVars
  PROVE  Typed'
<1>1. ASSUME NEW s \in References, Initial(s) PROVE Typed'
  BY <1>1 DEF Initial, Typed, Config
<1>2. ASSUME NEW s \in Fresh, NEW parallel \in BOOLEAN, State(s, parallel) PROVE Typed'
  <2>. DEFINE p == IF InCallback THEN Here ELSE 0
              v == [id |-> s, parent |-> p, parallel |-> parallel, final |-> FALSE,
                    initialChild |-> None, transitions |-> <<>>, after |-> <<>>, always |-> <<>>]
              n == Len(cfg.states)
  <2>1. /\ cfg \in [id : {"machine", None}, initial : References, states : Seq(StateConfig)]
        /\ \A i \in DOMAIN cfg.states : cfg.states[i].parent \in 0..(i-1)
        /\ open \in Seq(DOMAIN cfg.states) /\ n \in Nat /\ DOMAIN cfg.states = 1..n
    BY DEF Typed, Config
  <2>2. p \in 0..n
    BY <2>1, HereIs
  <2>3. v \in StateConfig
    <3>1. s \in IDs
      BY UsedIDs DEF Typed
    <3>2. None \in References
      BY DEF References
    <3>. HIDE DEF p
    <3>. QED BY <2>1, <2>2, <3>1, <3>2 DEF StateConfig
  <2>4. /\ cfg' = [cfg EXCEPT !.states = Append(cfg.states, v)] /\ open' = Append(open, n + 1)
        /\ result = Unbuilt /\ result' = result
    BY <1>2 DEF State
  <2>5. v.parent = p
    OBVIOUS
  <2>. HIDE DEF v, p
  <2>6. /\ cfg' \in [id : {"machine", None}, initial : References, states : Seq(StateConfig)]
        /\ cfg'.states = Append(cfg.states, v)
    <3>1. Append(cfg.states, v) \in Seq(StateConfig)
      BY <2>1, <2>3
    <3>. DEFINE new == Append(cfg.states, v)
    <3>2. cfg' = [cfg EXCEPT !.states = new]
      BY <2>4
    <3>. HIDE DEF new
    <3>3. cfg' \in [id : {"machine", None}, initial : References, states : Seq(StateConfig)] /\ cfg'.states = new
      BY <2>1, <3>1, <3>2 DEF new
    <3>. QED BY <3>3 DEF new
  <2>7. DOMAIN cfg'.states = 1..(n+1)
    BY <2>1, <2>3, <2>6
  <2>8. ASSUME NEW i \in 1..(n+1) PROVE cfg'.states[i].parent \in 0..(i-1)
    <3>1. CASE i \in 1..n
      BY <2>1, <2>3, <2>6, <3>1
    <3>2. CASE i = n+1
      BY <2>1, <2>2, <2>3, <2>5, <2>6, <3>2
    <3>. QED BY <2>1, <3>1, <3>2
  <2>9. open' \in Seq(1..(n+1))
    <3>1. open \in Seq(1..(n+1)) /\ n+1 \in 1..(n+1)
      BY <2>1
    <3>. QED BY <2>4, <3>1
  <2>. QED BY <2>4, <2>6, <2>7, <2>8, <2>9 DEF Typed, Config
<1>3. ASSUME CallbackReturns PROVE Typed'
  BY <1>3, HereIs DEF CallbackReturns, Typed
<1>4. ASSUME NEW s \in References, InitialChild(s) PROVE Typed'
  <2>. DEFINE v == [cfg.states[Here] EXCEPT !.initialChild = s]
  <2>1. InCallback /\ Detail /\ cfg' = [cfg EXCEPT !.states = [cfg.states EXCEPT ![Here] = v]]
    BY <1>4 DEF InitialChild, Detail
  <2>2. v \in StateConfig /\ v.parent = cfg.states[Here].parent
    BY <2>1, HereIs DEF StateConfig
  <2>. QED BY <2>1, <2>2, DetailKeepsTypes
<1>5. ASSUME Final PROVE Typed'
  <2>. DEFINE v == [cfg.states[Here] EXCEPT !.final = TRUE]
  <2>1. InCallback /\ Detail /\ cfg' = [cfg EXCEPT !.states = [cfg.states EXCEPT ![Here] = v]]
    BY <1>5 DEF Final, Detail
  <2>2. v \in StateConfig /\ v.parent = cfg.states[Here].parent
    BY <2>1, HereIs DEF StateConfig
  <2>. QED BY <2>1, <2>2, DetailKeepsTypes
<1>6. ASSUME NEW target \in References, NEW opts \in Options, InCallback,
             NEW event \in {Event, DoneEvent(cfg.states[Here].id)}, On(event, target, opts)
      PROVE  Typed'
  <2>. DEFINE t == [event |-> event, target |-> target, how |-> Applied(opts)]
              v == [cfg.states[Here] EXCEPT !.transitions = Append(@, t)]
  <2>1. Detail /\ cfg' = [cfg EXCEPT !.states = [cfg.states EXCEPT ![Here] = v]]
    BY <1>6 DEF On
  <2>2. cfg.states[Here].id \in IDs
    BY <1>6, HereIs DEF StateConfig
  <2>3. t \in Ordinary
    BY <2>2 DEF Ordinary, Ways
  <2>. HIDE DEF t
  <2>4. v \in StateConfig /\ v.parent = cfg.states[Here].parent
    <3>1. cfg.states[Here] \in StateConfig
      BY <1>6, HereIs
    <3>2. Append(cfg.states[Here].transitions, t) \in Seq(Ordinary)
      BY <2>3, <3>1 DEF StateConfig
    <3>. QED BY <3>1, <3>2 DEF StateConfig
  <2>. QED BY <2>1, <2>4, DetailKeepsTypes
<1>7. ASSUME NEW target \in References, NEW opts \in Options, Always(target, opts) PROVE Typed'
  <2>. DEFINE t == [event |-> AlwaysEvent, target |-> target, how |-> Applied(opts)]
              v == [cfg.states[Here] EXCEPT !.always = Append(@, t)]
  <2>1. InCallback /\ Detail /\ cfg' = [cfg EXCEPT !.states = [cfg.states EXCEPT ![Here] = v]]
    BY <1>7 DEF Always, Detail
  <2>2. t \in Routing
    BY DEF Routing, Ways
  <2>. HIDE DEF t
  <2>3. v \in StateConfig /\ v.parent = cfg.states[Here].parent
    <3>1. cfg.states[Here] \in StateConfig
      BY <2>1, HereIs
    <3>2. Append(cfg.states[Here].always, t) \in Seq(Routing)
      BY <2>2, <3>1 DEF StateConfig
    <3>. QED BY <3>1, <3>2 DEF StateConfig
  <2>. QED BY <2>1, <2>3, DetailKeepsTypes
<1>8. ASSUME NEW target \in References, NEW opts \in Options, NEW delay \in 0..1, After(delay, target, opts)
      PROVE  Typed'
  <2>. DEFINE t == [delay |-> delay, target |-> target, how |-> AppliedApart(opts)]
              v == [cfg.states[Here] EXCEPT !.after = Append(@, t)]
  <2>1. InCallback /\ Detail /\ cfg' = [cfg EXCEPT !.states = [cfg.states EXCEPT ![Here] = v]]
    BY <1>8 DEF After, Detail
  <2>2. t \in Timed
    BY DEF Timed
  <2>. HIDE DEF t
  <2>3. v \in StateConfig /\ v.parent = cfg.states[Here].parent
    <3>1. cfg.states[Here] \in StateConfig
      BY <2>1, HereIs
    <3>2. Append(cfg.states[Here].after, t) \in Seq(Timed)
      BY <2>2, <3>1 DEF StateConfig
    <3>. QED BY <3>1, <3>2 DEF StateConfig
  <2>. QED BY <2>1, <2>3, DetailKeepsTypes
<1>9. ASSUME Build PROVE Typed'
  BY <1>9 DEF Build, Typed
<1>10. ASSUME UNCHANGED buildVars PROVE Typed'
  BY <1>10 DEF buildVars, Typed
<1>. QED BY <1>1, <1>2, <1>3, <1>4, <1>5, <1>6, <1>7, <1>8, <1>9, <1>10 DEF Next

LEMMA StaysTyped == Spec => []Typed
BY InitTyped, StepTyped, PTL DEF Spec

-----------------------------------------------------------------------------
(* The results of checks.                                                  *)

LEMMA ConcatElements ==
  ASSUME NEW S, NEW p \in Seq(S), NEW q \in Seq(S)
  PROVE  p \o q \in Seq(S) /\ ToSet(p \o q) = ToSet(p) \cup ToSet(q)
<1>1. /\ Len(p) \in Nat /\ Len(q) \in Nat /\ p \o q \in Seq(S) /\ Len(p \o q) = Len(p) + Len(q)
      /\ \A i \in 1..Len(p) : (p \o q)[i] = p[i]
      /\ \A i \in 1..Len(q) : (p \o q)[Len(p) + i] = q[i]
  OBVIOUS
<1>2. ASSUME NEW x \in ToSet(p \o q) PROVE x \in ToSet(p) \cup ToSet(q)
  <2>1. PICK i \in 1..(Len(p) + Len(q)) : x = (p \o q)[i]
    BY <1>1, <1>2 DEF ToSet
  <2>2. CASE i \in 1..Len(p)
    BY <1>1, <2>1, <2>2 DEF ToSet
  <2>3. CASE i \notin 1..Len(p)
    <3>1. i - Len(p) \in 1..Len(q) /\ i = Len(p) + (i - Len(p))
      BY <1>1, <2>1, <2>3
    <3>. QED BY <1>1, <2>1, <3>1 DEF ToSet
  <2>. QED BY <2>2, <2>3
<1>3. ASSUME NEW x \in ToSet(p) PROVE x \in ToSet(p \o q)
  <2>1. PICK i \in 1..Len(p) : x = p[i]
    BY <1>1, <1>3 DEF ToSet
  <2>2. i \in 1..Len(p \o q) /\ (p \o q)[i] = x
    BY <1>1, <2>1
  <2>. QED BY <1>1, <2>2 DEF ToSet
<1>4. ASSUME NEW x \in ToSet(q) PROVE x \in ToSet(p \o q)
  <2>1. PICK i \in 1..Len(q) : x = q[i]
    BY <1>1, <1>4 DEF ToSet
  <2>2. Len(p) + i \in 1..Len(p \o q) /\ (p \o q)[Len(p) + i] = x
    BY <1>1, <2>1
  <2>. QED BY <1>1, <2>2 DEF ToSet
<1>. QED BY <1>1, <1>2, <1>3, <1>4

Results ==
  {"nil", "ErrInvalidMachine", "ErrNoInitialState", "ErrDuplicateState", "ErrUnknownState", "ErrUnknownTarget"}

\* All the results in q are in E.
Only(q, E) == q \in Seq(Results) /\ ToSet(q) \subseteq E

LEMMA ConcatAssociates ==
  ASSUME NEW S, NEW p \in Seq(S), NEW q \in Seq(S), NEW r \in Seq(S)
  PROVE  p \o (q \o r) = p \o q \o r
OBVIOUS

LEMMA OnlyConcat ==
  ASSUME NEW p \in Seq(Results), NEW q \in Seq(Results), NEW E
  PROVE  p \o q \in Seq(Results) /\ (Only(p \o q, E) <=> Only(p, E) /\ Only(q, E))
<1>1. p \o q \in Seq(Results) /\ ToSet(p \o q) = ToSet(p) \cup ToSet(q)
  BY ConcatElements
<1>. QED BY <1>1 DEF Only

LEMMA OnlyConcats ==
  ASSUME NEW p \in Seq(Results), NEW q \in Seq(Results), NEW r \in Seq(Results), NEW E
  PROVE  p \o q \o r \in Seq(Results) /\ (Only(p \o q \o r, E) <=> Only(p, E) /\ Only(q, E) /\ Only(r, E))
<1>. DEFINE s == p \o q
<1>1. s \in Seq(Results) /\ (Only(s, E) <=> Only(p, E) /\ Only(q, E))
  BY OnlyConcat
<1>. HIDE DEF s
<1>2. s \o r \in Seq(Results) /\ (Only(s \o r, E) <=> Only(s, E) /\ Only(r, E))
  BY <1>1, OnlyConcat
<1>. QED BY <1>1, <1>2 DEF s

LEMMA OnlyFlatten ==
  ASSUME NEW n \in Nat, NEW ss \in [1..n -> Seq(Results)], NEW E
  PROVE  /\ FlattenSeq(ss) \in Seq(Results)
         /\ Only(FlattenSeq(ss), E) <=> \A i \in 1..n : Only(ss[i], E)
<1>1. \A i \in 1..n : ss[i] \in Seq(Results)
  OBVIOUS
<1>2. /\ FlattenSeq(ss) \in Seq(Results)
      /\ \A x : x \in ToSet(FlattenSeq(ss)) <=> \E i \in 1..n : x \in ToSet(ss[i])
  BY FlattenElements
<1>. QED BY <1>1, <1>2 DEF Only

\* The states declared in the callback of i.
Kids(c, i) == {k \in DOMAIN c.states : c.states[k].parent = i}

LEMMA ConfigIs ==
  ASSUME NEW c, Config(c)
  PROVE  /\ Len(c.states) \in Nat /\ DOMAIN c.states = 1..Len(c.states)
         /\ c.states \in Seq(StateConfig) /\ c.initial \in References /\ c.id \in {"machine", None}
         /\ \A i \in 1..Len(c.states) : c.states[i] \in StateConfig /\ c.states[i].parent \in 0..(i-1)
<1>1. c.states \in Seq(StateConfig) /\ c.initial \in References /\ c.id \in {"machine", None}
  BY DEF Config
<1>2. Len(c.states) \in Nat /\ DOMAIN c.states = 1..Len(c.states)
  BY <1>1
<1>3. \A i \in 1..Len(c.states) : c.states[i] \in StateConfig
  BY <1>1
<1>. QED BY <1>1, <1>2, <1>3 DEF Config

LEMMA KidsAre ==
  ASSUME NEW c, Config(c), NEW i
  PROVE  /\ ChildrenOf(c, i) \in Seq(1..Len(c.states))
         /\ ToSet(ChildrenOf(c, i)) = Kids(c, i)
         /\ \A a, b \in 1..Len(ChildrenOf(c, i)) : a < b => ChildrenOf(c, i)[a] < ChildrenOf(c, i)[b]
<1>. DEFINE n == Len(c.states)
            seq == [k \in 1..n |-> k]
            T == Kids(c, i)
            ss == [k \in DOMAIN seq |-> IF seq[k] \in T THEN <<seq[k]>> ELSE <<>>]
<1>1. n \in Nat /\ DOMAIN c.states = 1..n
  BY ConfigIs
<1>2. seq \in Seq(1..n) /\ DOMAIN seq = 1..n /\ Len(seq) = n /\ \A k \in 1..n : seq[k] = k
  BY <1>1
<1>3. ToSet(seq) = 1..n
  BY <1>2 DEF ToSet
<1>4. ChildrenOf(c, i) = FlattenSeq(ss)
  <2>. DEFINE given == [k \in DOMAIN c.states |-> k]
              tt == [k \in DOMAIN given |-> IF c.states[given[k]].parent = i THEN <<given[k]>> ELSE <<>>]
  <2>1. ChildrenOf(c, i) = FlattenSeq(tt)
    BY DEF ChildrenOf, Filter
  <2>2. given = seq
    BY <1>1
  <2>3. tt = ss
    <3>1. DOMAIN given = 1..n /\ \A k \in 1..n : given[k] = k
      BY <1>1
    <3>2. \A k \in 1..n : tt[k] = ss[k]
      <4>. HIDE DEF given, seq
      <4>1. \A k \in 1..n : tt[k] = IF c.states[k].parent = i THEN <<k>> ELSE <<>>
        BY <3>1
      <4>2. \A k \in 1..n : ss[k] = IF c.states[k].parent = i THEN <<k>> ELSE <<>>
        BY <1>1, <1>2 DEF Kids
      <4>. QED BY <4>1, <4>2
    <3>3. tt = [k \in 1..n |-> tt[k]]
      <4>. HIDE DEF given, seq
      <4>. QED BY <3>1
    <3>4. ss = [k \in 1..n |-> ss[k]]
      <4>. HIDE DEF seq
      <4>. QED BY <1>2
    <3>. HIDE DEF tt, ss
    <3>. QED BY <3>2, <3>3, <3>4
  <2>. HIDE DEF tt, ss
  <2>. QED BY <2>1, <2>3
<1>5. FlattenSeq(ss) \in Seq(1..n) /\ ToSet(FlattenSeq(ss)) = ToSet(seq) \cap T
  <2>. HIDE DEF T, seq
  <2>. QED BY ONLY <1>2, FilterElements, Zenon
<1>6. T \subseteq 1..n
  BY <1>1 DEF Kids
<1>7. \A a, b \in 1..Len(FlattenSeq(ss)) : a < b => FlattenSeq(ss)[a] < FlattenSeq(ss)[b]
  <2>0. DOMAIN ss = 1..n /\ \A k \in 1..n : ss[k] = IF k \in T THEN <<k>> ELSE <<>>
    BY <1>2
  <2>1. ss \in [1..n -> Seq(1..n)]
    <3>1. \A k \in 1..n : <<k>> \in Seq(1..n) /\ <<>> \in Seq(1..n)
      OBVIOUS
    <3>2. ss = [k \in 1..n |-> ss[k]]
      BY <1>2
    <3>. HIDE DEF ss, T
    <3>. QED BY <2>0, <3>1, <3>2
  <2>2. \A k \in 1..n : ss[k] = IF k \in T THEN <<k>> ELSE <<>>
    BY <2>0
  <2>. HIDE DEF ss
  <2>3. InOrder(FlattenSeq(ss), ss, n)
    BY <1>1, <2>1, FlattenOrder
  <2>4. ASSUME NEW a \in 1..Len(FlattenSeq(ss)), NEW b \in 1..Len(FlattenSeq(ss)), a < b
        PROVE  FlattenSeq(ss)[a] < FlattenSeq(ss)[b]
    <3>1. PICK k, j \in 1..n : \E o \in 1..Len(ss[k]), u \in 1..Len(ss[j]) :
                FlattenSeq(ss)[a] = ss[k][o] /\ FlattenSeq(ss)[b] = ss[j][u] /\ k <= j /\ (k = j => o < u)
      BY <2>3, <2>4 DEF InOrder
    <3>2. PICK o \in 1..Len(ss[k]), u \in 1..Len(ss[j]) :
                FlattenSeq(ss)[a] = ss[k][o] /\ FlattenSeq(ss)[b] = ss[j][u] /\ k <= j /\ (k = j => o < u)
      BY <3>1
    <3>3. k \in T /\ ss[k] = <<k>> /\ o = 1
      <4>1. Len(<<>>) = 0 /\ Len(<<k>>) = 1
        OBVIOUS
      <4>2. ss[k] = IF k \in T THEN <<k>> ELSE <<>>
        BY <2>2
      <4>. HIDE DEF T
      <4>3. Len(ss[k]) # 0
        BY <3>2
      <4>. QED BY <3>2, <4>1, <4>2, <4>3
    <3>4. j \in T /\ ss[j] = <<j>> /\ u = 1
      <4>1. Len(<<>>) = 0 /\ Len(<<j>>) = 1
        OBVIOUS
      <4>2. ss[j] = IF j \in T THEN <<j>> ELSE <<>>
        BY <2>2
      <4>. HIDE DEF T
      <4>3. Len(ss[j]) # 0
        BY <3>2
      <4>. QED BY <3>2, <4>1, <4>2, <4>3
    <3>. QED BY <1>1, <3>2, <3>3, <3>4
  <2>. QED BY <2>4
<1>. HIDE DEF ss, T, seq
<1>. QED BY <1>3, <1>4, <1>5, <1>6, <1>7 DEF T

\* The checks of one state, all of its own but those of its children.
LEMMA CheckOnly ==
  /\ \A e \in Results : <<e>> \in Seq(Results)
  /\ \A E : \A e \in Results : Only(<<e>>, E) <=> e \in E
<1>1. \A e \in Results : <<e>> \in Seq(Results)
  OBVIOUS
<1>. QED BY <1>1, ToSetSmall DEF Only

\* The reason a target is refused for is in E.
TargetIn(c, target, E) ==
  IF target = None THEN "ErrInvalidMachine" \in E
  ELSE target \in Known(c) \/ "ErrUnknownTarget" \in E

LEMMA TargetOnly ==
  ASSUME NEW c, NEW i, NEW target, NEW E, "nil" \in E
  PROVE  /\ TargetChecks(c, i, target) \in Seq(Results)
         /\ Only(TargetChecks(c, i, target), E) <=> TargetIn(c, target, E)
<1>. DEFINE err == IF target = None THEN "ErrInvalidMachine" ELSE "ErrUnknownTarget"
<1>1. err \in Results
  BY DEF Results
<1>2. TargetChecks(c, i, target) = IF target # None /\ target \in Known(c) THEN <<"nil">> ELSE <<err>>
  BY DEF TargetChecks, Check
<1>3. /\ TargetChecks(c, i, target) \in Seq(Results)
      /\ Only(TargetChecks(c, i, target), E) <=> (target # None /\ target \in Known(c)) \/ err \in E
  <2>. HIDE DEF err
  <2>1. "nil" \in Results
    BY DEF Results
  <2>. QED BY <1>1, <1>2, <2>1, CheckOnly
<1>. QED BY <1>3 DEF TargetIn

\* What compileNode asks of a state.
NodeIn(c, i, E) ==
  LET s == c.states[i]
  IN  /\ \A k \in DOMAIN s.transitions : TargetIn(c, s.transitions[k].target, E)
      /\ \A k \in DOMAIN s.after : /\ s.after[k].delay > 0 \/ "ErrInvalidMachine" \in E
                                   /\ TargetIn(c, s.after[k].target, E)
      /\ \A k \in DOMAIN s.always :
            /\ TargetIn(c, s.always[k].target, E)
            /\ s.always[k].target # s.id \/ s.always[k].how.guarded \/ "ErrInvalidMachine" \in E

LEMMA NodeOnly ==
  ASSUME NEW c, Config(c), NEW i \in 1..Len(c.states), NEW E, "nil" \in E
  PROVE  /\ NodeChecks(c, i) \in Seq(Results)
         /\ Only(NodeChecks(c, i), E) <=> NodeIn(c, i, E)
<1>. DEFINE s == c.states[i]
            t1 == [k \in DOMAIN s.transitions |-> TargetChecks(c, i, s.transitions[k].target)]
            t2 == [k \in DOMAIN s.after |->
                    Check(s.after[k].delay > 0, "ErrInvalidMachine") \o TargetChecks(c, i, s.after[k].target)]
            t3 == [k \in DOMAIN s.always |->
                    TargetChecks(c, i, s.always[k].target)
                        \o Check(s.always[k].target # s.id \/ s.always[k].how.guarded, "ErrInvalidMachine")]
            n1 == Len(s.transitions)
            n2 == Len(s.after)
            n3 == Len(s.always)
<1>1. /\ s.transitions \in Seq(Ordinary) /\ s.after \in Seq(Timed) /\ s.always \in Seq(Routing)
      /\ n1 \in Nat /\ n2 \in Nat /\ n3 \in Nat
      /\ DOMAIN s.transitions = 1..n1 /\ DOMAIN s.after = 1..n2 /\ DOMAIN s.always = 1..n3
  <2>1. s \in StateConfig
    BY ConfigIs
  <2>2. s.transitions \in Seq(Ordinary) /\ s.after \in Seq(Timed) /\ s.always \in Seq(Routing)
    <3>. HIDE DEF s
    <3>. QED BY <2>1 DEF StateConfig
  <2>. HIDE DEF s
  <2>. QED BY <2>2
<1>. HIDE DEF s
<1>2. NodeChecks(c, i) = FlattenSeq(t1) \o FlattenSeq(t2) \o FlattenSeq(t3)
  BY DEF NodeChecks, s
<1>3. \A k \in 1..n1 : t1[k] \in Seq(Results) /\ (Only(t1[k], E) <=> TargetIn(c, s.transitions[k].target, E))
  BY <1>1, TargetOnly
<1>4. ASSUME NEW k \in 1..n2
      PROVE  t2[k] \in Seq(Results) /\ (Only(t2[k], E) <=> /\ s.after[k].delay > 0 \/ "ErrInvalidMachine" \in E
                                                          /\ TargetIn(c, s.after[k].target, E))
  <2>. DEFINE a == Check(s.after[k].delay > 0, "ErrInvalidMachine")
              b == TargetChecks(c, i, s.after[k].target)
  <2>1. a = IF s.after[k].delay > 0 THEN <<"nil">> ELSE <<"ErrInvalidMachine">>
    BY DEF Check
  <2>2. a \in Seq(Results) /\ (Only(a, E) <=> s.after[k].delay > 0 \/ "ErrInvalidMachine" \in E)
    <3>. HIDE DEF a
    <3>. QED BY <2>1, CheckOnly DEF Results
  <2>3. b \in Seq(Results) /\ (Only(b, E) <=> TargetIn(c, s.after[k].target, E))
    BY TargetOnly
  <2>4. t2[k] = a \o b
    BY <1>1
  <2>. HIDE DEF a, b, t2
  <2>. QED BY <2>2, <2>3, <2>4, OnlyConcat
<1>5. ASSUME NEW k \in 1..n3
      PROVE  t3[k] \in Seq(Results) /\ (Only(t3[k], E) <=>
                /\ TargetIn(c, s.always[k].target, E)
                /\ s.always[k].target # s.id \/ s.always[k].how.guarded \/ "ErrInvalidMachine" \in E)
  <2>. DEFINE a == Check(s.always[k].target # s.id \/ s.always[k].how.guarded, "ErrInvalidMachine")
              b == TargetChecks(c, i, s.always[k].target)
  <2>1. a = IF s.always[k].target # s.id \/ s.always[k].how.guarded
            THEN <<"nil">> ELSE <<"ErrInvalidMachine">>
    BY DEF Check
  <2>2. /\ a \in Seq(Results)
        /\ Only(a, E) <=> s.always[k].target # s.id \/ s.always[k].how.guarded \/ "ErrInvalidMachine" \in E
    <3>. HIDE DEF a
    <3>. QED BY <2>1, CheckOnly DEF Results
  <2>3. b \in Seq(Results) /\ (Only(b, E) <=> TargetIn(c, s.always[k].target, E))
    BY TargetOnly
  <2>4. t3[k] = b \o a
    BY <1>1
  <2>. HIDE DEF a, b, t3
  <2>. QED BY <2>2, <2>3, <2>4, OnlyConcat
<1>6. DOMAIN t1 = 1..n1 /\ DOMAIN t2 = 1..n2 /\ DOMAIN t3 = 1..n3
  BY <1>1
<1>7. t1 = [k \in 1..n1 |-> t1[k]] /\ t2 = [k \in 1..n2 |-> t2[k]] /\ t3 = [k \in 1..n3 |-> t3[k]]
  BY <1>1
<1>. HIDE DEF t1, t2, t3, n1, n2, n3
<1>8. t1 \in [1..n1 -> Seq(Results)] /\ t2 \in [1..n2 -> Seq(Results)] /\ t3 \in [1..n3 -> Seq(Results)]
  BY <1>3, <1>4, <1>5, <1>7
<1>9. /\ FlattenSeq(t1) \in Seq(Results) /\ (Only(FlattenSeq(t1), E) <=> \A k \in 1..n1 : Only(t1[k], E))
      /\ FlattenSeq(t2) \in Seq(Results) /\ (Only(FlattenSeq(t2), E) <=> \A k \in 1..n2 : Only(t2[k], E))
      /\ FlattenSeq(t3) \in Seq(Results) /\ (Only(FlattenSeq(t3), E) <=> \A k \in 1..n3 : Only(t3[k], E))
  BY <1>1, <1>8, OnlyFlatten
<1>10. /\ NodeChecks(c, i) \in Seq(Results)
       /\ Only(NodeChecks(c, i), E) <=>
            Only(FlattenSeq(t1), E) /\ Only(FlattenSeq(t2), E) /\ Only(FlattenSeq(t3), E)
  <2>. DEFINE p == FlattenSeq(t1)
              q == FlattenSeq(t2)
              r == FlattenSeq(t3)
  <2>1. NodeChecks(c, i) = p \o q \o r /\ p \in Seq(Results) /\ q \in Seq(Results) /\ r \in Seq(Results)
    BY <1>2, <1>9
  <2>. HIDE DEF p, q, r
  <2>2. NodeChecks(c, i) \in Seq(Results) /\ (Only(NodeChecks(c, i), E) <=> Only(p, E) /\ Only(q, E) /\ Only(r, E))
    BY <2>1, OnlyConcats
  <2>. QED BY <2>2 DEF p, q, r
<1>. QED BY <1>1, <1>3, <1>4, <1>5, <1>9, <1>10 DEF NodeIn, s

\* What compileTree asks of a state once its children are compiled.
InitialOK(c, i) ==
  LET s == c.states[i]
  IN  \/ Kids(c, i) = {}
      \/ IF s.parallel THEN Cardinality(Kids(c, i)) # 1 /\ s.initialChild = None
         ELSE s.initialChild \in {None} \cup {c.states[k].id : k \in Kids(c, i)}

InitialIn(c, i, E) == InitialOK(c, i) \/ "ErrInvalidMachine" \in E

\* A state has as many children as ChildrenOf lists.
LEMMA SeveralKids ==
  ASSUME NEW c, Config(c), NEW i
  PROVE  /\ ChildrenOf(c, i) = <<>> <=> Kids(c, i) = {}
         /\ ChildrenOf(c, i) # <<>> => (Len(ChildrenOf(c, i)) >= 2 <=> Cardinality(Kids(c, i)) # 1)
         /\ IsFiniteSet(Kids(c, i))
<1>. DEFINE kids == ChildrenOf(c, i)
            K == Kids(c, i)
            n == Len(c.states)
<1>1. /\ kids \in Seq(1..n) /\ ToSet(kids) = K
      /\ \A a, b \in 1..Len(kids) : a < b => kids[a] < kids[b]
  BY KidsAre
<1>2. n \in Nat /\ K \subseteq 1..n
  BY ConfigIs DEF Kids
<1>3. IsFiniteSet(K)
  <2>1. IsFiniteSet(1..n)
    BY <1>2, FS_Interval
  <2>. HIDE DEF K
  <2>. QED BY <1>2, <2>1, FS_Subset
<1>. HIDE DEF kids, K
<1>4. /\ Len(kids) \in Nat /\ DOMAIN kids = 1..Len(kids) /\ (kids = <<>> <=> Len(kids) = 0)
      /\ \A k \in 1..Len(kids) : kids[k] \in 1..n
  BY <1>1
<1>5. K = {kids[k] : k \in 1..Len(kids)}
  BY <1>1, <1>4 DEF ToSet
<1>6. kids = <<>> <=> K = {}
  <2>1. ASSUME kids # <<>> PROVE K # {}
    <3>1. 1 \in 1..Len(kids)
      BY <1>4, <2>1
    <3>. QED BY <1>5, <3>1
  <2>2. ASSUME kids = <<>> PROVE K = {}
    BY <1>4, <1>5, <2>2
  <2>. QED BY <2>1, <2>2
<1>7. ASSUME kids # <<>>, Len(kids) < 2 PROVE Cardinality(K) = 1
  <2>1. 1..Len(kids) = {1}
    BY <1>4, <1>7
  <2>2. K = {kids[1]}
    BY <1>5, <2>1
  <2>. QED BY <2>2, FS_Singleton
<1>8. ASSUME Len(kids) >= 2 PROVE Cardinality(K) # 1
  <2>1. 1 \in 1..Len(kids) /\ 2 \in 1..Len(kids)
    BY <1>4, <1>8
  <2>2. kids[1] \in K /\ kids[2] \in K /\ kids[1] # kids[2]
    BY <1>1, <1>2, <1>4, <1>5, <2>1
  <2>3. ASSUME Cardinality(K) = 1 PROVE FALSE
    <3>1. PICK x : K = {x}
      BY <1>3, <2>3, FS_Singleton
    <3>. QED BY <2>2, <3>1
  <2>. QED BY <2>3
<1>. QED BY <1>3, <1>4, <1>6, <1>7, <1>8 DEF kids, K

LEMMA InitialOnly ==
  ASSUME NEW c, Config(c), NEW i \in 1..Len(c.states), NEW E, "nil" \in E
  PROVE  /\ InitialChecks(c, i) \in Seq(Results)
         /\ Only(InitialChecks(c, i), E) <=> InitialIn(c, i, E)
<1>. DEFINE s == c.states[i]
            kids == ChildrenOf(c, i)
            ok == IF s.parallel THEN Len(kids) >= 2 /\ s.initialChild = None
                  ELSE \/ s.initialChild = None
                       \/ \E k \in ToSet(kids) : c.states[k].id = s.initialChild
            e == IF ok THEN "nil" ELSE "ErrInvalidMachine"
<1>1. InitialChecks(c, i) = IF kids = <<>> THEN <<>> ELSE <<e>>
  BY DEF InitialChecks, Check
<1>2. e \in Results
  <2>. HIDE DEF ok
  <2>. QED BY DEF Results
<1>3. /\ kids = <<>> <=> Kids(c, i) = {}
      /\ kids # <<>> => (Len(kids) >= 2 <=> Cardinality(Kids(c, i)) # 1)
      /\ ToSet(kids) = Kids(c, i)
  BY SeveralKids, KidsAre
<1>4. kids # <<>> => (ok <=> InitialOK(c, i))
  <2>. HIDE DEF kids
  <2>. QED BY <1>3 DEF InitialOK
<1>5. e \in E <=> ok \/ "ErrInvalidMachine" \in E
  <2>. HIDE DEF ok
  <2>. QED OBVIOUS
<1>6. <<>> \in Seq(Results) /\ Only(<<>>, E)
  BY ToSetSmall DEF Only
<1>7. <<e>> \in Seq(Results) /\ (Only(<<e>>, E) <=> e \in E)
  <2>. HIDE DEF e
  <2>. QED BY <1>2, CheckOnly
<1>8. kids = <<>> => InitialOK(c, i)
  BY <1>3 DEF InitialOK
<1>. HIDE DEF kids, ok, e
<1>. QED BY <1>1, <1>4, <1>5, <1>6, <1>7, <1>8 DEF InitialIn

\* What collectStateIDs asks.
IDIn(c, i, E) ==
  /\ c.states[i].id # None \/ "ErrInvalidMachine" \in E
  /\ (\A j \in 1..(i-1) : c.states[j].id # c.states[i].id) \/ "ErrDuplicateState" \in E

LEMMA IDOnly ==
  ASSUME NEW c, Config(c), NEW E, "nil" \in E
  PROVE  /\ IDChecks(c) \in Seq(Results)
         /\ Only(IDChecks(c), E) <=> \A i \in 1..Len(c.states) : IDIn(c, i, E)
<1>. DEFINE n == Len(c.states)
            a(i) == Check(c.states[i].id # None, "ErrInvalidMachine")
            b(i) == Check(\A j \in 1..(i-1) : c.states[j].id # c.states[i].id, "ErrDuplicateState")
            ss == [i \in DOMAIN c.states |-> a(i) \o b(i)]
<1>1. n \in Nat /\ DOMAIN c.states = 1..n
  BY ConfigIs
<1>2. IDChecks(c) = FlattenSeq(ss)
  BY DEF IDChecks
<1>3. ASSUME NEW i \in 1..n PROVE ss[i] \in Seq(Results) /\ (Only(ss[i], E) <=> IDIn(c, i, E))
  <2>. DEFINE p == c.states[i].id # None
              q == \A j \in 1..(i-1) : c.states[j].id # c.states[i].id
              x == IF p THEN "nil" ELSE "ErrInvalidMachine"
              y == IF q THEN "nil" ELSE "ErrDuplicateState"
  <2>1. ss[i] = <<x>> \o <<y>>
    BY <1>1 DEF Check
  <2>2. x \in Results /\ y \in Results /\ (x \in E <=> p \/ "ErrInvalidMachine" \in E)
        /\ (y \in E <=> q \/ "ErrDuplicateState" \in E)
    <3>. HIDE DEF p, q
    <3>. QED BY DEF Results
  <2>3. IDIn(c, i, E) <=> (p \/ "ErrInvalidMachine" \in E) /\ (q \/ "ErrDuplicateState" \in E)
    BY DEF IDIn
  <2>. HIDE DEF x, y, p, q, ss
  <2>4. /\ <<x>> \in Seq(Results) /\ <<y>> \in Seq(Results)
        /\ Only(<<x>>, E) <=> x \in E
        /\ Only(<<y>>, E) <=> y \in E
    BY <2>2, CheckOnly
  <2>5. ss[i] \in Seq(Results) /\ (Only(ss[i], E) <=> Only(<<x>>, E) /\ Only(<<y>>, E))
    BY <2>1, <2>4, OnlyConcat
  <2>. QED BY <2>2, <2>3, <2>4, <2>5
<1>4. ss = [i \in 1..n |-> ss[i]]
  BY <1>1
<1>. HIDE DEF ss, n
<1>5. ss \in [1..n -> Seq(Results)]
  BY <1>3, <1>4
<1>6. FlattenSeq(ss) \in Seq(Results) /\ (Only(FlattenSeq(ss), E) <=> \A i \in 1..n : Only(ss[i], E))
  BY <1>1, <1>5, OnlyFlatten
<1>. QED BY <1>2, <1>3, <1>6 DEF n

\* SubtreeChecks is what its recursive definition says.
LEMMA SubtreeUnfolds ==
  ASSUME NEW c, Config(c)
  PROVE  \A i \in 1..Len(c.states) :
            SubtreeChecks(c)[i] =
                NodeChecks(c, i)
                    \o FlattenSeq([k \in DOMAIN ChildrenOf(c, i) |-> SubtreeChecks(c)[ChildrenOf(c, i)[k]]])
                    \o InitialChecks(c, i)
<1>. DEFINE N == Len(c.states)
            body(g, i) == NodeChecks(c, i)
                            \o FlattenSeq([k \in DOMAIN ChildrenOf(c, i) |-> g[ChildrenOf(c, i)[k]]])
                            \o InitialChecks(c, i)
            P(n) == \E g : \A i \in (N-n+1)..N : g[i] = body(g, i)
            U == {n \in 0..N : P(n)}
<1>1. N \in Nat /\ DOMAIN c.states = 1..N
  BY ConfigIs
<1>2. 0 \in U
  <2>1. \A i \in (N-0+1)..N : FALSE
    BY <1>1
  <2>2. P(0)
    <3>. HIDE DEF body
    <3>. QED BY <2>1
  <2>. HIDE DEF P
  <2>. QED BY <1>1, <2>2
\* body(g, i) looks at g for the children of i alone, which come after it.
<1>3. ASSUME NEW g, NEW h, NEW i \in 1..N, \A j \in (i+1)..N : g[j] = h[j]
      PROVE  body(g, i) = body(h, i)
  <2>1. \A k \in DOMAIN ChildrenOf(c, i) : ChildrenOf(c, i)[k] \in (i+1)..N
    <3>1. \A x \in ToSet(ChildrenOf(c, i)) : x \in (i+1)..N
      <4>1. ASSUME NEW x \in Kids(c, i) PROVE x \in (i+1)..N
        <5>1. x \in 1..N /\ c.states[x].parent = i /\ c.states[x].parent \in 0..(x-1)
          BY <1>1, ConfigIs DEF Kids
        <5>. QED BY <1>1, <5>1
      <4>. QED BY <4>1, KidsAre
    <3>. QED BY <3>1 DEF ToSet
  <2>2. [k \in DOMAIN ChildrenOf(c, i) |-> g[ChildrenOf(c, i)[k]]] = [k \in DOMAIN ChildrenOf(c, i) |-> h[ChildrenOf(c, i)[k]]]
    BY <1>3, <2>1
  <2>. QED BY <2>2
<1>4. ASSUME NEW n \in 0..(N-1), n \in U PROVE n+1 \in U
  <2>0. P(n)
    <3>. HIDE DEF P
    <3>. QED BY <1>4
  <2>. DEFINE k == N - n
  <2>1. k \in 1..N /\ N-(n+1)+1 = k /\ N-n+1 = k+1 /\ n+1 \in 0..N
    BY <1>1
  <2>2. PICK g : \A i \in (k+1)..N : g[i] = body(g, i)
    <3>. HIDE DEF body, k
    <3>. QED BY <2>0, <2>1
  <2>. HIDE DEF k
  <2>. DEFINE h == [i \in k..N |-> IF i = k THEN body(g, k) ELSE g[i]]
  <2>3. \A i \in (k+1)..N : i \in 1..N /\ i \in k..N /\ i # k
    BY <1>1, <2>1
  <2>4. \A i \in (k+1)..N : h[i] = g[i]
    <3>. HIDE DEF body
    <3>. QED BY <2>3
  <2>5. h[k] = body(g, k)
    <3>1. k \in k..N
      BY <1>1, <2>1
    <3>. HIDE DEF body
    <3>. QED BY <3>1
  <2>. HIDE DEF h, body
  <2>6. ASSUME NEW i \in k..N PROVE h[i] = body(h, i)
    <3>1. i \in 1..N /\ (i+1)..N \subseteq (k+1)..N /\ (i = k \/ i \in (k+1)..N)
      BY <1>1, <2>1
    <3>2. \A j \in (i+1)..N : g[j] = h[j]
      BY <2>4, <3>1
    <3>3. body(g, i) = body(h, i)
      BY <1>3, <3>1, <3>2
    <3>4. h[i] = body(g, i)
      BY <2>2, <2>4, <2>5, <3>1
    <3>. QED BY <3>3, <3>4
  <2>7. P(n+1)
    BY <2>1, <2>6
  <2>. HIDE DEF P
  <2>. QED BY <2>1, <2>7
<1>5. P(N)
  <2>1. N \in 0..N
    BY <1>1
  <2>2. N \in U
    <3>. HIDE DEF U
    <3>. QED BY <1>1, <1>2, <1>4, <2>1, InductionUpTo
  <2>. HIDE DEF P
  <2>. QED BY <2>2
<1>6. \E f : f = [i \in 1..N |-> body(f, i)]
  <2>1. PICK g : \A i \in 1..N : g[i] = body(g, i)
    <3>1. N-N+1 = 1
      BY <1>1
    <3>. HIDE DEF body
    <3>. QED BY <1>5, <3>1
  <2>. DEFINE h == [i \in 1..N |-> g[i]]
  <2>2. ASSUME NEW i \in 1..N PROVE h[i] = body(h, i)
    <3>1. \A j \in (i+1)..N : g[j] = h[j]
      <4>1. \A j \in (i+1)..N : j \in 1..N
        BY <1>1
      <4>. QED BY <4>1
    <3>2. h[i] = g[i]
      OBVIOUS
    <3>. HIDE DEF h, body
    <3>. QED BY <1>3, <2>1, <3>1, <3>2
  <2>3. h = [i \in 1..N |-> h[i]]
    OBVIOUS
  <2>4. h = [i \in 1..N |-> body(h, i)]
    <3>. HIDE DEF h, body
    <3>. QED BY <2>2, <2>3
  <2>. HIDE DEF h, body
  <2>. QED BY <2>4
<1>. DEFINE tree == CHOOSE f : f = [i \in 1..N |-> body(f, i)]
<1>7. tree = [i \in 1..N |-> body(tree, i)]
  <2>. HIDE DEF body
  <2>. QED BY <1>6
<1>8. SubtreeChecks(c) = tree
  BY <1>1 DEF SubtreeChecks
<1>9. \A i \in 1..N : SubtreeChecks(c)[i] = body(SubtreeChecks(c), i)
  <2>. HIDE DEF tree, body
  <2>. QED BY <1>7, <1>8
<1>. QED BY <1>9

\* What the children of i, or of the top level, contribute.
BelowChecks(c, i) == FlattenSeq([k \in DOMAIN ChildrenOf(c, i) |-> SubtreeChecks(c)[ChildrenOf(c, i)[k]]])

LEMMA BelowOnly ==
  ASSUME NEW c, Config(c), NEW i, NEW E,
         \A j \in Kids(c, i) : SubtreeChecks(c)[j] \in Seq(Results)
  PROVE  /\ BelowChecks(c, i) \in Seq(Results)
         /\ Only(BelowChecks(c, i), E) <=> \A j \in Kids(c, i) : Only(SubtreeChecks(c)[j], E)
<1>. DEFINE kids == ChildrenOf(c, i)
            tree == SubtreeChecks(c)
            n == Len(kids)
            ss == [k \in DOMAIN kids |-> tree[kids[k]]]
<1>1. kids \in Seq(1..Len(c.states)) /\ ToSet(kids) = Kids(c, i)
  BY KidsAre
<1>. HIDE DEF kids, tree
<1>2. n \in Nat /\ DOMAIN kids = 1..n
  BY <1>1
<1>3. /\ \A k \in 1..n : kids[k] \in Kids(c, i)
      /\ \A j \in Kids(c, i) : \E k \in 1..n : j = kids[k]
  BY <1>1, <1>2 DEF ToSet
<1>4. \A k \in 1..n : ss[k] = tree[kids[k]] /\ ss[k] \in Seq(Results)
  BY <1>2, <1>3 DEF tree
<1>5. ss = [k \in 1..n |-> ss[k]]
  BY <1>2
<1>6. BelowChecks(c, i) = FlattenSeq(ss)
  BY DEF BelowChecks, kids, tree
<1>. HIDE DEF ss, n
<1>7. ss \in [1..n -> Seq(Results)]
  BY <1>4, <1>5
<1>8. FlattenSeq(ss) \in Seq(Results) /\ (Only(FlattenSeq(ss), E) <=> \A k \in 1..n : Only(ss[k], E))
  BY <1>2, <1>7, OnlyFlatten
<1>9. (\A k \in 1..n : Only(ss[k], E)) <=> \A j \in Kids(c, i) : Only(tree[j], E)
  BY <1>3, <1>4
<1>. QED BY <1>6, <1>8, <1>9 DEF tree

LEMMA SubtreeTypes ==
  ASSUME NEW c, Config(c)
  PROVE  \A i \in 1..Len(c.states) : SubtreeChecks(c)[i] \in Seq(Results)
<1>. DEFINE N == Len(c.states)
            Good(i) == SubtreeChecks(c)[i] \in Seq(Results)
            T == {n \in 0..N : \A i \in (N-n+1)..N : Good(i)}
<1>1. N \in Nat /\ "nil" \in Results
  BY ConfigIs DEF Results
<1>2. 0 \in T
  <2>1. \A i \in (N-0+1)..N : FALSE
    BY <1>1
  <2>. HIDE DEF Good
  <2>. QED BY <1>1, <2>1
<1>3. ASSUME NEW n \in 0..(N-1), n \in T PROVE n+1 \in T
  <2>. DEFINE k == N - n
  <2>1. k \in 1..N /\ N-(n+1)+1 = k /\ N-n+1 = k+1 /\ n+1 \in 0..N
    BY <1>1
  <2>2. \A i \in (k+1)..N : Good(i)
    <3>. HIDE DEF Good, k
    <3>. QED BY <1>3, <2>1
  <2>. HIDE DEF k
  <2>3. \A j \in Kids(c, k) : j \in (k+1)..N
    <3>1. ASSUME NEW j \in Kids(c, k) PROVE j \in (k+1)..N
      <4>1. j \in 1..N /\ c.states[j].parent = k /\ c.states[j].parent \in 0..(j-1)
        BY ConfigIs DEF Kids
      <4>. QED BY <1>1, <2>1, <4>1
    <3>. QED BY <3>1
  <2>4. Good(k)
    <3>1. BelowChecks(c, k) \in Seq(Results)
      BY <2>2, <2>3, BelowOnly
    <3>2. NodeChecks(c, k) \in Seq(Results) /\ InitialChecks(c, k) \in Seq(Results)
      BY <1>1, <2>1, NodeOnly, InitialOnly
    <3>3. SubtreeChecks(c)[k] = NodeChecks(c, k) \o BelowChecks(c, k) \o InitialChecks(c, k)
      BY <2>1, SubtreeUnfolds DEF BelowChecks
    <3>. QED BY <3>1, <3>2, <3>3, OnlyConcats
  <2>5. \A i \in k..N : i = k \/ i \in (k+1)..N
    BY <1>1, <2>1
  <2>. HIDE DEF Good
  <2>. QED BY <2>1, <2>2, <2>4, <2>5
<1>4. N \in T
  <2>1. N \in 0..N
    BY <1>1
  <2>. HIDE DEF T
  <2>. QED BY <1>1, <1>2, <1>3, <2>1, InductionUpTo
<1>5. N-N+1 = 1
  BY <1>1
<1>. HIDE DEF Good
<1>6. \A i \in 1..N : Good(i)
  BY <1>4, <1>5
<1>. QED BY <1>6 DEF Good

LEMMA SubtreeOnly ==
  ASSUME NEW c, Config(c), NEW i \in 1..Len(c.states), NEW E, "nil" \in E
  PROVE  Only(SubtreeChecks(c)[i], E) <=>
            /\ NodeIn(c, i, E) /\ InitialIn(c, i, E)
            /\ \A j \in Kids(c, i) : Only(SubtreeChecks(c)[j], E)
<1>1. Kids(c, i) \subseteq 1..Len(c.states)
  BY ConfigIs DEF Kids
<1>2. /\ BelowChecks(c, i) \in Seq(Results)
      /\ Only(BelowChecks(c, i), E) <=> \A j \in Kids(c, i) : Only(SubtreeChecks(c)[j], E)
  BY <1>1, SubtreeTypes, BelowOnly
<1>3. /\ NodeChecks(c, i) \in Seq(Results) /\ InitialChecks(c, i) \in Seq(Results)
      /\ Only(NodeChecks(c, i), E) <=> NodeIn(c, i, E)
      /\ Only(InitialChecks(c, i), E) <=> InitialIn(c, i, E)
  BY NodeOnly, InitialOnly
<1>4. SubtreeChecks(c)[i] = NodeChecks(c, i) \o BelowChecks(c, i) \o InitialChecks(c, i)
  BY SubtreeUnfolds DEF BelowChecks
<1>5. Only(SubtreeChecks(c)[i], E) <=>
        Only(NodeChecks(c, i), E) /\ Only(BelowChecks(c, i), E) /\ Only(InitialChecks(c, i), E)
  BY <1>2, <1>3, <1>4, OnlyConcats
<1>. QED BY <1>2, <1>3, <1>5

\* compileTree looks at every state, each below its parent.
LEMMA TreeOnly ==
  ASSUME NEW c, Config(c), NEW E, "nil" \in E
  PROVE  /\ TreeChecks(c) \in Seq(Results)
         /\ Only(TreeChecks(c), E) <=>
                \A i \in 1..Len(c.states) : NodeIn(c, i, E) /\ InitialIn(c, i, E)
<1>. DEFINE N == Len(c.states)
            Good(i) == Only(SubtreeChecks(c)[i], E)
            Own(i) == NodeIn(c, i, E) /\ InitialIn(c, i, E)
<1>1. /\ N \in Nat /\ DOMAIN c.states = 1..N
      /\ \A i \in 1..N : c.states[i].parent \in 0..(i-1)
  BY ConfigIs
<1>2. TreeChecks(c) = BelowChecks(c, 0)
  BY DEF TreeChecks, BelowChecks
<1>3. \A i : Kids(c, i) \subseteq 1..N
  BY <1>1 DEF Kids
<1>4. TreeChecks(c) \in Seq(Results) /\ (Only(TreeChecks(c), E) <=> \A j \in Kids(c, 0) : Good(j))
  BY <1>2, <1>3, SubtreeTypes, BelowOnly
<1>5. \A i \in 1..N : Good(i) <=> Own(i) /\ \A j \in Kids(c, i) : Good(j)
  BY SubtreeOnly
<1>. HIDE DEF Good, Own
<1>6. ASSUME \A j \in Kids(c, 0) : Good(j) PROVE \A i \in 1..N : Own(i)
  <2>. DEFINE T == {n \in 0..N : \A i \in 1..n : Good(i)}
  <2>1. 0 \in T
    BY <1>1
  <2>2. ASSUME NEW n \in 0..(N-1), n \in T PROVE n+1 \in T
    <3>1. n+1 \in 1..N /\ n+1 \in 0..N /\ \A i \in 1..(n+1) : i = n+1 \/ i \in 1..n
      BY <1>1
    <3>2. Good(n+1)
      <4>. DEFINE p == c.states[n+1].parent
      <4>1. p \in 0..n /\ n+1 \in Kids(c, p)
        BY <1>1, <3>1 DEF Kids
      <4>. HIDE DEF p
      <4>2. CASE p = 0
        BY <1>6, <4>1, <4>2
      <4>3. CASE p # 0
        <5>1. p \in 1..n /\ p \in 1..N
          BY <1>1, <4>1, <4>3
        <5>2. Good(p)
          BY <2>2, <5>1
        <5>. QED BY <1>5, <4>1, <5>1, <5>2
      <4>. QED BY <4>2, <4>3
    <3>. QED BY <2>2, <3>1, <3>2
  <2>3. N \in T
    <3>1. N \in 0..N
      BY <1>1
    <3>. HIDE DEF T
    <3>. QED BY <1>1, <2>1, <2>2, <3>1, InductionUpTo
  <2>. QED BY <1>5, <2>3
<1>7. ASSUME \A i \in 1..N : Own(i) PROVE \A j \in Kids(c, 0) : Good(j)
  <2>. DEFINE T == {n \in 0..N : \A i \in (N-n+1)..N : Good(i)}
  <2>1. 0 \in T
    <3>1. \A i \in (N-0+1)..N : FALSE
      BY <1>1
    <3>. QED BY <1>1, <3>1
  <2>2. ASSUME NEW n \in 0..(N-1), n \in T PROVE n+1 \in T
    <3>. DEFINE k == N - n
    <3>1. k \in 1..N /\ N-(n+1)+1 = k /\ N-n+1 = k+1 /\ n+1 \in 0..N /\ \A i \in k..N : i = k \/ i \in (k+1)..N
      BY <1>1
    <3>2. \A i \in (k+1)..N : Good(i)
      <4>. HIDE DEF k
      <4>. QED BY <2>2, <3>1
    <3>. HIDE DEF k
    <3>3. ASSUME NEW j \in Kids(c, k) PROVE j \in (k+1)..N
      <4>1. j \in 1..N /\ c.states[j].parent = k
        BY <1>1 DEF Kids
      <4>2. k \in 0..(j-1)
        BY <1>1, <4>1
      <4>. QED BY <1>1, <3>1, <4>1, <4>2
    <3>4. Good(k)
      BY <1>5, <1>7, <3>1, <3>2, <3>3
    <3>. QED BY <3>1, <3>2, <3>4
  <2>3. N \in T
    <3>1. N \in 0..N
      BY <1>1
    <3>. HIDE DEF T
    <3>. QED BY <1>1, <2>1, <2>2, <3>1, InductionUpTo
  <2>4. N-N+1 = 1
    BY <1>1
  <2>5. \A i \in 1..N : Good(i)
    BY <2>3, <2>4
  <2>. QED BY <1>3, <2>5
<1>. QED BY <1>4, <1>6, <1>7 DEF Own

-----------------------------------------------------------------------------
(* What compile returns.                                                   *)

LEMMA ChecksOnly ==
  ASSUME NEW c, Config(c), NEW E, "nil" \in E
  PROVE  /\ Checks(c) \in Seq(Results)
         /\ Only(Checks(c), E) <=>
                /\ c.id # None \/ "ErrInvalidMachine" \in E
                /\ c.states # <<>> \/ "ErrInvalidMachine" \in E
                /\ c.initial # None \/ "ErrNoInitialState" \in E
                /\ \A i \in 1..Len(c.states) : IDIn(c, i, E)
                /\ c.initial \in Known(c) \/ "ErrUnknownState" \in E
                /\ \A i \in 1..Len(c.states) : NodeIn(c, i, E) /\ InitialIn(c, i, E)
<1>. DEFINE x1 == IF c.id # None THEN "nil" ELSE "ErrInvalidMachine"
            x2 == IF c.states # <<>> THEN "nil" ELSE "ErrInvalidMachine"
            x3 == IF c.initial # None THEN "nil" ELSE "ErrNoInitialState"
            x4 == IF c.initial \in Known(c) THEN "nil" ELSE "ErrUnknownState"
            p == <<x1>> \o <<x2>> \o <<x3>>
            q == IDChecks(c) \o <<x4>> \o TreeChecks(c)
<1>1. Checks(c) = <<x1>> \o <<x2>> \o <<x3>> \o IDChecks(c) \o <<x4>> \o TreeChecks(c)
  BY DEF Checks, Check
<1>2. /\ x1 \in Results /\ x2 \in Results /\ x3 \in Results /\ x4 \in Results
      /\ x1 \in E <=> c.id # None \/ "ErrInvalidMachine" \in E
      /\ x2 \in E <=> c.states # <<>> \/ "ErrInvalidMachine" \in E
      /\ x3 \in E <=> c.initial # None \/ "ErrNoInitialState" \in E
      /\ x4 \in E <=> c.initial \in Known(c) \/ "ErrUnknownState" \in E
  BY DEF Results
<1>. HIDE DEF x1, x2, x3, x4
<1>3. \A e \in Results : <<e>> \in Seq(Results) /\ (Only(<<e>>, E) <=> e \in E)
  BY CheckOnly
<1>4. p \in Seq(Results) /\ (Only(p, E) <=> x1 \in E /\ x2 \in E /\ x3 \in E)
  BY <1>2, <1>3, OnlyConcats
<1>5. /\ IDChecks(c) \in Seq(Results) /\ TreeChecks(c) \in Seq(Results)
      /\ Only(IDChecks(c), E) <=> \A i \in 1..Len(c.states) : IDIn(c, i, E)
      /\ Only(TreeChecks(c), E) <=> \A i \in 1..Len(c.states) : NodeIn(c, i, E) /\ InitialIn(c, i, E)
  BY IDOnly, TreeOnly
<1>6. q \in Seq(Results) /\ (Only(q, E) <=> Only(IDChecks(c), E) /\ x4 \in E /\ Only(TreeChecks(c), E))
  <2>. DEFINE y4 == <<x4>>
              ids == IDChecks(c)
              tree == TreeChecks(c)
  <2>1. y4 \in Seq(Results) /\ (Only(y4, E) <=> x4 \in E)
    BY <1>2, <1>3
  <2>2. ids \in Seq(Results) /\ tree \in Seq(Results)
    BY <1>5
  <2>. HIDE DEF y4, ids, tree
  <2>3. ids \o y4 \o tree \in Seq(Results) /\ (Only(ids \o y4 \o tree, E) <=> Only(ids, E) /\ Only(y4, E) /\ Only(tree, E))
    BY <2>1, <2>2, OnlyConcats
  <2>. QED BY <2>1, <2>3 DEF y4, ids, tree
<1>7. Checks(c) = p \o q
  <2>. DEFINE y1 == <<x1>>
              y2 == <<x2>>
              y3 == <<x3>>
              y4 == <<x4>>
              ids == IDChecks(c)
              tree == TreeChecks(c)
  <2>1. /\ y1 \in Seq(Results) /\ y2 \in Seq(Results) /\ y3 \in Seq(Results) /\ y4 \in Seq(Results)
        /\ ids \in Seq(Results) /\ tree \in Seq(Results)
    BY <1>2, <1>3, <1>5
  <2>2. Checks(c) = y1 \o y2 \o y3 \o ids \o y4 \o tree /\ p = y1 \o y2 \o y3 /\ q = ids \o y4 \o tree
    BY <1>1
  <2>. HIDE DEF y1, y2, y3, y4, ids, tree, p, q
  <2>3. p \in Seq(Results) /\ ids \o y4 \in Seq(Results)
    BY <1>4, <2>1, OnlyConcat
  <2>4. p \o (ids \o y4) = p \o ids \o y4
    <3>1. p \in Seq(Results) /\ ids \in Seq(Results) /\ y4 \in Seq(Results)
      BY <2>1, <2>3
    <3>. QED BY ONLY <3>1, ConcatAssociates
  <2>. DEFINE front == ids \o y4
  <2>5. front \in Seq(Results)
    BY <2>3
  <2>. HIDE DEF front
  <2>6. p \o (front \o tree) = (p \o front) \o tree
    <3>1. p \in Seq(Results) /\ front \in Seq(Results) /\ tree \in Seq(Results)
      BY <2>1, <2>3, <2>5
    <3>. QED BY ONLY <3>1, ConcatAssociates
  <2>. USE DEF front
  <2>. QED BY <2>2, <2>4, <2>6
<1>. HIDE DEF p, q
<1>8. Checks(c) \in Seq(Results) /\ (Only(Checks(c), E) <=> Only(p, E) /\ Only(q, E))
  BY <1>4, <1>6, <1>7, OnlyConcat
<1>. QED BY <1>2, <1>4, <1>5, <1>6, <1>8

\* The first check that fails gives the error.
LEMMA CompileIs ==
  ASSUME NEW c, Config(c)
  PROVE  /\ Only(Checks(c), {"nil"}) => Compile(c) = [err |-> "nil", machine |-> Compiled(c)]
         /\ ~Only(Checks(c), {"nil"}) =>
                \E e \in ToSet(Checks(c)) : e # "nil" /\ Compile(c) = [err |-> e]
<1>. DEFINE checks == Checks(c)
            failed == {k \in DOMAIN checks : checks[k] # "nil"}
<1>1. checks \in Seq(Results)
  BY ChecksOnly
<1>2. Compile(c) = IF failed # {} THEN [err |-> checks[Min(failed)]] ELSE [err |-> "nil", machine |-> Compiled(c)]
  BY DEF Compile
<1>. HIDE DEF checks
<1>3. Len(checks) \in Nat /\ DOMAIN checks = 1..Len(checks)
  BY <1>1
<1>4. Only(checks, {"nil"}) <=> failed = {}
  BY <1>1, <1>3 DEF Only, ToSet
<1>5. ASSUME failed # {} PROVE Min(failed) \in failed
  <2>1. failed \subseteq Nat
    BY <1>3
  <2>. HIDE DEF failed
  <2>. QED BY <1>5, <2>1, MinIsLeast
<1>6. ASSUME failed # {}
      PROVE  \E e \in ToSet(checks) : e # "nil" /\ Compile(c) = [err |-> e]
  <2>1. Min(failed) \in DOMAIN checks /\ checks[Min(failed)] # "nil"
    BY <1>5, <1>6
  <2>2. checks[Min(failed)] \in ToSet(checks)
    <3>. HIDE DEF failed
    <3>. QED BY <2>1 DEF ToSet
  <2>. HIDE DEF failed
  <2>. QED BY <1>2, <1>6, <2>1, <2>2
<1>. HIDE DEF failed
<1>. QED BY <1>2, <1>4, <1>6 DEF checks

\* IDs are distinct when there are as many as states.
LEMMA UsedCount ==
  ASSUME Config(cfg)
  PROVE  /\ Used = Known(cfg) /\ IsFiniteSet(Used) /\ Cardinality(Used) \in Nat /\ Len(cfg.states) \in Nat
         /\ Cardinality(Used) <= Len(cfg.states)
         /\ Cardinality(Used) = Len(cfg.states) <=>
                \A i \in 1..Len(cfg.states) : \A j \in 1..(i-1) : cfg.states[j].id # cfg.states[i].id
<1>. DEFINE n == Len(cfg.states)
            f == [i \in 1..n |-> cfg.states[i].id]
<1>1. n \in Nat /\ DOMAIN cfg.states = 1..n
  BY ConfigIs
<1>2. Used = {f[i] : i \in 1..n} /\ Used = Known(cfg)
  BY <1>1 DEF Used, Known
<1>3. f \in Surjection(1..n, Used)
  BY <1>2 DEF Surjection
<1>4. IsFiniteSet(1..n) /\ Cardinality(1..n) = n
  BY <1>1, FS_Interval
<1>5. f \in Injection(1..n, Used) <=> \A i, j \in 1..n : f[i] = f[j] => i = j
  <2>1. f \in [1..n -> Used]
    BY <1>2
  <2>. QED BY <2>1 DEF Injection, IsInjective
<1>6. (\A i, j \in 1..n : f[i] = f[j] => i = j) <=> \A i \in 1..n : \A j \in 1..(i-1) : cfg.states[j].id # cfg.states[i].id
  <2>1. ASSUME \A i, j \in 1..n : f[i] = f[j] => i = j, NEW i \in 1..n, NEW j \in 1..(i-1)
        PROVE  cfg.states[j].id # cfg.states[i].id
    <3>1. j \in 1..n /\ j # i
      BY <1>1
    <3>. QED BY <2>1, <3>1
  <2>2. ASSUME \A i \in 1..n : \A j \in 1..(i-1) : cfg.states[j].id # cfg.states[i].id,
               NEW i \in 1..n, NEW j \in 1..n, f[i] = f[j], i # j
        PROVE  FALSE
    <3>1. i \in 1..(j-1) \/ j \in 1..(i-1)
      BY <1>1, <2>2
    <3>. QED BY <2>2, <3>1
  <2>. QED BY <2>1, <2>2
<1>. HIDE DEF f, n
<1>7. /\ IsFiniteSet(Used) /\ Cardinality(Used) <= n
      /\ Cardinality(Used) = n <=> f \in Injection(1..n, Used)
  BY <1>3, <1>4, FS_Surjection
<1>8. Cardinality(Used) \in Nat
  BY <1>7, FS_CardinalityType
<1>. QED BY <1>1, <1>2, <1>5, <1>6, <1>7, <1>8 DEF n

-----------------------------------------------------------------------------
(* ErrorsAreTrue.                                                          *)

\* The errors whose reason the definition has.
TrueErrors(c) ==
  {"nil", "ErrInvalidMachine"}
    \cup {e \in {"ErrNoInitialState"} : c.initial = None}
    \cup {e \in {"ErrDuplicateState"} :
            \E i \in 1..Len(c.states) : \E j \in 1..(i-1) : c.states[j].id = c.states[i].id}
    \cup {e \in {"ErrUnknownState"} : c.initial \notin Known(c)}
    \cup {e \in {"ErrUnknownTarget"} :
            \E i \in DOMAIN c.states :
                \E t \in ToSet(c.states[i].transitions) \cup ToSet(c.states[i].always) \cup ToSet(c.states[i].after) :
                    t.target # None /\ t.target \notin Known(c)}

LEMMA ChecksAreTrue ==
  ASSUME NEW c, Config(c)
  PROVE  Only(Checks(c), TrueErrors(c))
<1>. DEFINE E == TrueErrors(c)
            n == Len(c.states)
            unknown == \E i \in DOMAIN c.states :
                         \E t \in ToSet(c.states[i].transitions) \cup ToSet(c.states[i].always) \cup ToSet(c.states[i].after) :
                           t.target # None /\ t.target \notin Known(c)
            twice == \E i \in 1..n : \E j \in 1..(i-1) : c.states[j].id = c.states[i].id
<1>1. /\ "nil" \in E /\ "ErrInvalidMachine" \in E
      /\ c.initial = None => "ErrNoInitialState" \in E
      /\ twice => "ErrDuplicateState" \in E
      /\ c.initial \notin Known(c) => "ErrUnknownState" \in E
      /\ unknown => "ErrUnknownTarget" \in E
  <2>. HIDE DEF unknown, twice
  <2>. QED BY DEF TrueErrors, unknown, twice
<1>2. ASSUME NEW i \in 1..n, NEW t \in ToSet(c.states[i].transitions) \cup ToSet(c.states[i].always) \cup ToSet(c.states[i].after)
      PROVE  TargetIn(c, t.target, E)
  <2>1. i \in DOMAIN c.states
    BY ConfigIs
  <2>2. t.target # None /\ t.target \notin Known(c) => unknown
    BY <2>1
  <2>. HIDE DEF E, unknown
  <2>. QED BY <1>1, <2>2 DEF TargetIn
<1>3. ASSUME NEW i \in 1..n PROVE NodeIn(c, i, E)
  <2>. DEFINE s == c.states[i]
  <2>1. ASSUME NEW k \in DOMAIN s.transitions PROVE TargetIn(c, s.transitions[k].target, E)
    <3>1. s.transitions[k] \in ToSet(s.transitions)
      BY DEF ToSet
    <3>. HIDE DEF E
    <3>. QED BY <1>2, <3>1
  <2>2. ASSUME NEW k \in DOMAIN s.after PROVE TargetIn(c, s.after[k].target, E)
    <3>1. s.after[k] \in ToSet(s.after)
      BY DEF ToSet
    <3>. HIDE DEF E
    <3>. QED BY <1>2, <3>1
  <2>3. ASSUME NEW k \in DOMAIN s.always PROVE TargetIn(c, s.always[k].target, E)
    <3>1. s.always[k] \in ToSet(s.always)
      BY DEF ToSet
    <3>. HIDE DEF E
    <3>. QED BY <1>2, <3>1
  <2>. HIDE DEF E
  <2>. QED BY <1>1, <2>1, <2>2, <2>3 DEF NodeIn
<1>4. ASSUME NEW i \in 1..n PROVE IDIn(c, i, E) /\ InitialIn(c, i, E)
  <2>1. (\A j \in 1..(i-1) : c.states[j].id # c.states[i].id) \/ twice
    OBVIOUS
  <2>. HIDE DEF E, twice
  <2>. QED BY <1>1, <2>1 DEF IDIn, InitialIn
<1>. HIDE DEF E, n
<1>5. /\ c.id # None \/ "ErrInvalidMachine" \in E
      /\ c.states # <<>> \/ "ErrInvalidMachine" \in E
      /\ c.initial # None \/ "ErrNoInitialState" \in E
      /\ c.initial \in Known(c) \/ "ErrUnknownState" \in E
  BY <1>1
<1>6. Only(Checks(c), E)
  BY <1>1, <1>3, <1>4, <1>5, ChecksOnly DEF n
<1>. QED BY <1>6 DEF E

LEMMA TypedErrorsAreTrue ==
  ASSUME Typed
  PROVE  ErrorsAreTrue
<1>. DEFINE targets == UNION {{t.target : t \in ToSet(cfg.states[i].transitions) \cup ToSet(cfg.states[i].always)
                                                  \cup ToSet(cfg.states[i].after)} : i \in DOMAIN cfg.states}
<1>1. CASE result = Unbuilt
  BY <1>1 DEF ErrorsAreTrue
<1>2. CASE result # Unbuilt
  <2>1. Config(cfg) /\ result = Compile(cfg)
    BY <1>2 DEF Typed
  <2>2. result.err \in TrueErrors(cfg)
    <3>1. CASE Only(Checks(cfg), {"nil"})
      <4>1. result.err = "nil"
        BY <2>1, <3>1, CompileIs
      <4>. QED BY <4>1 DEF TrueErrors
    <3>2. CASE ~Only(Checks(cfg), {"nil"})
      <4>1. PICK e \in ToSet(Checks(cfg)) : result = [err |-> e]
        BY <2>1, <3>2, CompileIs
      <4>2. e \in TrueErrors(cfg)
        BY <2>1, <4>1, ChecksAreTrue DEF Only
      <4>. QED BY <4>1, <4>2
    <3>. QED BY <3>1, <3>2
  <2>3. result.err = "ErrNoInitialState" => cfg.initial = None
    BY <2>2 DEF TrueErrors
  <2>4. result.err = "ErrDuplicateState" => Cardinality(Used) < Len(cfg.states)
    <3>1. ASSUME result.err = "ErrDuplicateState" PROVE \E i \in 1..Len(cfg.states) : \E j \in 1..(i-1) : cfg.states[j].id = cfg.states[i].id
      BY <2>2, <3>1 DEF TrueErrors
    <3>2. /\ Cardinality(Used) \in Nat /\ Len(cfg.states) \in Nat
          /\ Cardinality(Used) <= Len(cfg.states)
          /\ Cardinality(Used) = Len(cfg.states) <=>
                \A i \in 1..Len(cfg.states) : \A j \in 1..(i-1) : cfg.states[j].id # cfg.states[i].id
      BY <2>1, UsedCount
    <3>. QED BY <3>1, <3>2
  <2>5. result.err = "ErrUnknownState" => cfg.initial \notin Used
    BY <2>2 DEF TrueErrors, Used, Known
  <2>6. ASSUME result.err = "ErrUnknownTarget" PROVE \E t \in targets : t # None /\ t \notin Used
    <3>1. \E i \in DOMAIN cfg.states :
            \E t \in ToSet(cfg.states[i].transitions) \cup ToSet(cfg.states[i].always) \cup ToSet(cfg.states[i].after) :
                t.target # None /\ t.target \notin Known(cfg)
      BY <2>2, <2>6 DEF TrueErrors
    <3>2. PICK i \in DOMAIN cfg.states :
            \E t \in ToSet(cfg.states[i].transitions) \cup ToSet(cfg.states[i].always) \cup ToSet(cfg.states[i].after) :
                t.target # None /\ t.target \notin Known(cfg)
      BY <3>1
    <3>3. PICK t \in ToSet(cfg.states[i].transitions) \cup ToSet(cfg.states[i].always) \cup ToSet(cfg.states[i].after) :
            t.target # None /\ t.target \notin Known(cfg)
      BY <3>2
    <3>4. t.target \in targets
      OBVIOUS
    <3>. QED BY <3>3, <3>4 DEF Used, Known
  <2>. HIDE DEF targets
  <2>. QED BY <2>3, <2>4, <2>5, <2>6 DEF ErrorsAreTrue, targets
<1>. QED BY <1>1, <1>2

\* ErrorsAreTrue: the error of Build names what is wrong with the definition,
\* for every definition the calls of the builder can leave behind.
THEOREM ErrorsTellTruth == Spec => []ErrorsAreTrue
BY StaysTyped, TypedErrorsAreTrue, PTL

-----------------------------------------------------------------------------
(* What Build accepts.                                                     *)

Outgoing(c, i) == ToSet(c.states[i].transitions) \cup ToSet(c.states[i].always) \cup ToSet(c.states[i].after)

\* What the checks ask of one state.
AcceptedState(c, i) ==
  /\ c.states[i].id # None
  /\ \A j \in 1..(i-1) : c.states[j].id # c.states[i].id
  /\ \A t \in Outgoing(c, i) : t.target \in Known(c)
  /\ \A t \in ToSet(c.states[i].after) : t.delay > 0
  /\ \A t \in ToSet(c.states[i].always) : t.target = c.states[i].id => t.how.guarded
  /\ InitialOK(c, i)

Accepted(c) ==
  /\ c.id # None
  /\ c.initial \in Known(c)
  /\ \A i \in 1..Len(c.states) : AcceptedState(c, i)

\* What the elements of a sequence are, its positions show.
LEMMA InSequence ==
  ASSUME NEW seq
  PROVE  /\ \A k \in DOMAIN seq : seq[k] \in ToSet(seq)
         /\ \A x \in ToSet(seq) : \E k \in DOMAIN seq : x = seq[k]
BY DEF ToSet

LEMMA AcceptedIs ==
  ASSUME NEW c, Config(c)
  PROVE  Only(Checks(c), {"nil"}) <=> Accepted(c)
<1>. DEFINE E == {"nil"}
            n == Len(c.states)
<1>1. Only(Checks(c), E) <=>
         /\ c.id # None /\ c.states # <<>> /\ c.initial # None
         /\ \A i \in 1..n : IDIn(c, i, E)
         /\ c.initial \in Known(c)
         /\ \A i \in 1..n : NodeIn(c, i, E) /\ InitialIn(c, i, E)
  BY ChecksOnly
<1>2. n \in Nat /\ DOMAIN c.states = 1..n
  BY ConfigIs
<1>3. ASSUME NEW i \in 1..n, IDIn(c, i, E), NodeIn(c, i, E), InitialIn(c, i, E)
      PROVE  AcceptedState(c, i)
  <2>. DEFINE s == c.states[i]
  <2>1. \A k \in DOMAIN s.transitions : s.transitions[k].target \in Known(c)
    BY <1>3 DEF NodeIn, TargetIn
  <2>2. \A k \in DOMAIN s.after : s.after[k].target \in Known(c) /\ s.after[k].delay > 0
    BY <1>3 DEF NodeIn, TargetIn
  <2>3. \A k \in DOMAIN s.always : s.always[k].target \in Known(c) /\ (s.always[k].target = s.id => s.always[k].how.guarded)
    BY <1>3 DEF NodeIn, TargetIn
  <2>4. \A t \in ToSet(s.transitions) : t.target \in Known(c)
    BY <2>1, InSequence
  <2>5. \A t \in ToSet(s.after) : t.target \in Known(c) /\ t.delay > 0
    BY <2>2, InSequence
  <2>6. \A t \in ToSet(s.always) : t.target \in Known(c) /\ (t.target = s.id => t.how.guarded)
    BY <2>3, InSequence
  <2>7. s.id # None /\ (\A j \in 1..(i-1) : c.states[j].id # s.id) /\ InitialOK(c, i)
    BY <1>3 DEF IDIn, InitialIn
  <2>. QED BY <2>4, <2>5, <2>6, <2>7 DEF AcceptedState, Outgoing
<1>4. ASSUME NEW i \in 1..n, AcceptedState(c, i), None \notin Known(c)
      PROVE  IDIn(c, i, E) /\ NodeIn(c, i, E) /\ InitialIn(c, i, E)
  <2>. DEFINE s == c.states[i]
  <2>1. \A k \in DOMAIN s.transitions : s.transitions[k].target \in Known(c)
    BY <1>4, InSequence DEF AcceptedState, Outgoing
  <2>2. \A k \in DOMAIN s.after : s.after[k].target \in Known(c) /\ s.after[k].delay > 0
    BY <1>4, InSequence DEF AcceptedState, Outgoing
  <2>3. \A k \in DOMAIN s.always : s.always[k].target \in Known(c) /\ (s.always[k].target = s.id => s.always[k].how.guarded)
    BY <1>4, InSequence DEF AcceptedState, Outgoing
  <2>4. IDIn(c, i, E) /\ InitialIn(c, i, E)
    BY <1>4 DEF AcceptedState, IDIn, InitialIn
  <2>5. \A t \in Known(c) : TargetIn(c, t, E)
    BY <1>4 DEF TargetIn
  <2>6. NodeIn(c, i, E)
    BY <2>1, <2>2, <2>3, <2>5 DEF NodeIn
  <2>. QED BY <2>4, <2>6
<1>5. ASSUME Accepted(c) PROVE None \notin Known(c) /\ c.states # <<>> /\ c.initial # None
  <2>1. \A i \in 1..n : c.states[i].id # None
    BY <1>5 DEF Accepted, AcceptedState
  <2>2. None \notin Known(c)
    BY <1>2, <2>1 DEF Known
  <2>3. PICK i \in DOMAIN c.states : TRUE
    BY <1>5 DEF Accepted, Known
  <2>4. c.states # <<>>
    BY <1>2, <2>3
  <2>. QED BY <1>5, <2>2, <2>4 DEF Accepted
<1>6. ASSUME Only(Checks(c), E) PROVE Accepted(c)
  <2>. HIDE DEF E, n
  <2>. QED BY <1>1, <1>3, <1>6 DEF Accepted, n
<1>7. ASSUME Accepted(c) PROVE Only(Checks(c), E)
  <2>1. \A i \in 1..n : IDIn(c, i, E) /\ NodeIn(c, i, E) /\ InitialIn(c, i, E)
    BY <1>4, <1>5, <1>7 DEF Accepted
  <2>. HIDE DEF E, n
  <2>. QED BY <1>1, <1>5, <1>7, <2>1 DEF Accepted
<1>. QED BY <1>6, <1>7

LEMMA AcceptableIs ==
  ASSUME Config(cfg)
  PROVE  AcceptableExcept(Childless) <=> Accepted(cfg)
<1>. DEFINE n == Len(cfg.states)
            states == cfg.states
            kids(i) == {k \in DOMAIN states : states[k].parent = i}
            Ask(i) ==
              /\ \A t \in Outgoing(cfg, i) : t.target \in Used
              /\ \A t \in ToSet(states[i].after) : t.delay > 0
              /\ \A t \in ToSet(states[i].always) : t.target = states[i].id => t.how.guarded
              /\ states[i].parallel /\ i \notin Childless =>
                  Cardinality(kids(i)) >= 2 /\ states[i].initialChild = None
              /\ ~states[i].parallel /\ kids(i) # {} =>
                  states[i].initialChild \in {None} \cup {states[k].id : k \in kids(i)}
            distinct == \A i \in 1..n : \A j \in 1..(i-1) : states[j].id # states[i].id
<1>1. DOMAIN states = 1..n /\ Used = Known(cfg) /\ Known(cfg) = {states[i].id : i \in 1..n}
  BY ConfigIs, UsedCount DEF Known
<1>2. AcceptableExcept(Childless) <=>
        /\ None \notin {cfg.id} \cup Used
        /\ cfg.initial \in Used
        /\ Cardinality(Used) = n
        /\ \A i \in DOMAIN states : Ask(i)
  BY DEF AcceptableExcept, Outgoing
<1>3. Cardinality(Used) = n <=> distinct
  BY UsedCount
<1>4. ASSUME NEW i \in 1..n
      PROVE  Ask(i) <=> /\ \A t \in Outgoing(cfg, i) : t.target \in Known(cfg)
                        /\ \A t \in ToSet(states[i].after) : t.delay > 0
                        /\ \A t \in ToSet(states[i].always) : t.target = states[i].id => t.how.guarded
                        /\ InitialOK(cfg, i)
  <2>1. kids(i) = Kids(cfg, i) /\ Cardinality({}) = 0
    BY FS_EmptySet DEF Kids
  <2>2. InitialOK(cfg, i) <=>
          /\ states[i].parallel /\ i \notin Childless =>
              Cardinality(kids(i)) >= 2 /\ states[i].initialChild = None
          /\ ~states[i].parallel /\ kids(i) # {} =>
              states[i].initialChild \in {None} \cup {states[k].id : k \in kids(i)}
    <3>. DEFINE K == Kids(cfg, i)
                names(S) == {None} \cup {states[k].id : k \in S}
    <3>1. states[i].parallel \in BOOLEAN
      BY ConfigIs DEF StateConfig
    <3>2. InitialOK(cfg, i) <=>
            \/ K = {}
            \/ IF states[i].parallel THEN Cardinality(K) # 1 /\ states[i].initialChild = None
               ELSE states[i].initialChild \in names(K)
      BY DEF InitialOK
    <3>. HIDE DEF K, names
    <3>3. K # {} => (Cardinality(K) # 1 <=> Cardinality(K) >= 2)
      <4>1. IsFiniteSet(K)
        BY SeveralKids DEF K
      <4>2. Cardinality(K) \in Nat /\ (Cardinality(K) = 0 <=> K = {})
        BY <4>1, FS_CardinalityType, FS_EmptySet
      <4>. QED BY <4>2
    <3>4. states[i].parallel => (i \in Childless <=> K = {})
      BY <1>1 DEF Childless, K, Kids
    <3>6. InitialOK(cfg, i) <=>
            /\ states[i].parallel /\ i \notin Childless => Cardinality(K) >= 2 /\ states[i].initialChild = None
            /\ ~states[i].parallel /\ K # {} => states[i].initialChild \in names(K)
      BY <3>1, <3>2, <3>3, <3>4
    <3>5. kids(i) = K
      BY <2>1 DEF K
    <3>. HIDE DEF kids
    <3>. QED BY <3>5, <3>6 DEF names
  <2>. HIDE DEF kids
  <2>. QED BY <1>1, <2>2
<1>5. None \notin Used <=> \A i \in 1..n : states[i].id # None
  BY <1>1
<1>. HIDE DEF Ask
<1>6. AcceptableExcept(Childless) <=>
        /\ cfg.id # None /\ cfg.initial \in Known(cfg)
        /\ \A i \in 1..n : states[i].id # None
        /\ distinct
        /\ \A i \in 1..n : Ask(i)
  BY <1>1, <1>2, <1>3, <1>5
<1>7. ASSUME NEW i \in 1..n
      PROVE  AcceptedState(cfg, i) <=>
               /\ states[i].id # None /\ (\A j \in 1..(i-1) : states[j].id # states[i].id) /\ Ask(i)
  BY <1>4 DEF AcceptedState
<1>8. Accepted(cfg) <=> /\ cfg.id # None /\ cfg.initial \in Known(cfg)
                        /\ \A i \in 1..n : AcceptedState(cfg, i)
  BY DEF Accepted
<1>. QED BY <1>6, <1>7, <1>8

\* Build returns an error for the other definitions.
LEMMA NilIs ==
  ASSUME Typed, result # Unbuilt
  PROVE  /\ result.err = "nil" <=> Accepted(cfg)
         /\ result.err = "nil" => result.machine = Compiled(cfg)
         /\ Config(cfg)
<1>1. Config(cfg) /\ result = Compile(cfg)
  BY DEF Typed
<1>2. CASE Only(Checks(cfg), {"nil"})
  <2>1. result = [err |-> "nil", machine |-> Compiled(cfg)]
    BY <1>1, <1>2, CompileIs
  <2>2. result.err = "nil" /\ result.machine = Compiled(cfg)
    BY <2>1
  <2>. QED BY <1>1, <1>2, <2>2, AcceptedIs
<1>3. CASE ~Only(Checks(cfg), {"nil"})
  <2>1. PICK e \in ToSet(Checks(cfg)) : e # "nil" /\ result = [err |-> e]
    BY <1>1, <1>3, CompileIs
  <2>2. result.err # "nil"
    BY <2>1
  <2>. QED BY <1>1, <1>3, <2>2, AcceptedIs
<1>. QED BY <1>2, <1>3

-----------------------------------------------------------------------------
(* The machine made of what is accepted.                                   *)

\* The initial child that compileTree sets.
FirstOf(c, i) ==
  IF ChildrenOf(c, i) = <<>> \/ c.states[i].parallel THEN None
  ELSE IF c.states[i].initialChild # None THEN c.states[i].initialChild
  ELSE c.states[Head(ChildrenOf(c, i))].id

LEMMA CompiledTree ==
  ASSUME NEW c, Config(c), \A i \in 1..Len(c.states) : AcceptedState(c, i)
  PROVE  LET m == Compiled(c)
             n == Len(c.states)
         IN  /\ n \in Nat /\ DOMAIN m.order = 1..n /\ Len(m.order) = n
             /\ m.order \in Seq(StateIDs(m)) /\ StateIDs(m) = Known(c)
             /\ m.start = c.initial /\ m.parallel \subseteq StateIDs(m)
             /\ \A i, j \in 1..n : c.states[i].id = c.states[j].id => i = j
             /\ \A i \in 1..n :
                 /\ m.order[i] = c.states[i].id
                 /\ m.parent[m.order[i]] = IF c.states[i].parent = 0 THEN None ELSE c.states[c.states[i].parent].id
                 /\ m.initial[m.order[i]] = FirstOf(c, i)
                 /\ m.order[i] \in m.parallel <=> c.states[i].parallel
<1>. DEFINE m == Compiled(c)
            n == Len(c.states)
            id(i) == c.states[i].id
            order == [i \in DOMAIN c.states |-> c.states[i].id]
            at(s) == CHOOSE i \in DOMAIN order : order[i] = s
            first(s) == LET kids == ChildrenOf(c, at(s))
                        IN  IF kids = <<>> \/ c.states[at(s)].parallel THEN None
                            ELSE IF c.states[at(s)].initialChild # None THEN c.states[at(s)].initialChild
                            ELSE order[Head(kids)]
            parent(s) == LET p == c.states[at(s)].parent IN IF p = 0 THEN None ELSE order[p]
<1>1. n \in Nat /\ DOMAIN c.states = 1..n /\ c.states \in Seq(StateConfig)
  BY ConfigIs
<1>2. /\ m.order = order /\ m.start = c.initial
      /\ m.parent = [s \in ToSet(order) |-> parent(s)]
      /\ m.initial = [s \in ToSet(order) |-> first(s)]
      /\ m.parallel = {s \in ToSet(order) : c.states[at(s)].parallel}
  BY DEF Compiled
<1>. HIDE DEF m
<1>3. DOMAIN order = 1..n /\ \A i \in 1..n : order[i] = id(i)
  BY <1>1
<1>4. order \in Seq(ToSet(order)) /\ Len(order) = n
  <2>1. \A i \in 1..n : order[i] \in ToSet(order)
    BY <1>3, InSequence
  <2>2. order = [i \in 1..n |-> order[i]]
    BY <1>1
  <2>. HIDE DEF order
  <2>. QED BY <1>1, <2>1, <2>2
<1>5. ToSet(order) = Known(c)
  <2>1. Known(c) = {id(i) : i \in 1..n}
    BY <1>1 DEF Known
  <2>2. ToSet(order) = {order[i] : i \in 1..n}
    <3>. HIDE DEF order
    <3>. QED BY <1>3 DEF ToSet
  <2>. HIDE DEF order
  <2>. QED BY <1>3, <2>1, <2>2
<1>6. ASSUME NEW i \in 1..n, NEW j \in 1..n, id(i) = id(j) PROVE i = j
  <2>1. \A k \in 1..n : \A l \in 1..(k-1) : id(l) # id(k)
    BY DEF AcceptedState
  <2>2. i < j \/ j < i \/ i = j
    OBVIOUS
  <2>3. CASE i < j
    <3>1. i \in 1..(j-1)
      BY <1>1, <2>3
    <3>. QED BY <1>6, <2>1, <3>1
  <2>4. CASE j < i
    <3>1. j \in 1..(i-1)
      BY <1>1, <2>4
    <3>. QED BY <1>6, <2>1, <3>1
  <2>. QED BY <2>2, <2>3, <2>4
<1>. HIDE DEF order
<1>7. ASSUME NEW i \in 1..n PROVE at(order[i]) = i /\ order[i] \in ToSet(order)
  <2>1. \E j \in DOMAIN order : order[j] = order[i]
    BY <1>3
  <2>2. at(order[i]) \in DOMAIN order /\ order[at(order[i])] = order[i]
    BY <2>1
  <2>3. at(order[i]) \in 1..n /\ id(at(order[i])) = id(i)
    <3>. HIDE DEF at
    <3>. QED BY <1>3, <2>2
  <2>4. at(order[i]) = i
    <3>. HIDE DEF at, id
    <3>. QED BY <1>6, <2>3
  <2>. QED BY <1>3, <2>4, InSequence
<1>. HIDE DEF at
<1>8. ASSUME NEW i \in 1..n
      PROVE  /\ parent(order[i]) = IF c.states[i].parent = 0 THEN None ELSE id(c.states[i].parent)
             /\ first(order[i]) = FirstOf(c, i)
             /\ order[i] \in m.parallel <=> c.states[i].parallel
  <2>1. c.states[i].parent \in 0..(i-1)
    BY ConfigIs
  <2>2. c.states[i].parent # 0 => c.states[i].parent \in 1..n
    BY <1>1, <2>1
  <2>3. parent(order[i]) = IF c.states[i].parent = 0 THEN None ELSE id(c.states[i].parent)
    BY <1>3, <1>7, <2>2
  <2>4. ChildrenOf(c, i) # <<>> => Head(ChildrenOf(c, i)) \in 1..n
    <3>1. ChildrenOf(c, i) \in Seq(1..n)
      BY KidsAre
    <3>. DEFINE kids == ChildrenOf(c, i)
    <3>. HIDE DEF kids
    <3>. QED BY <3>1 DEF kids
  <2>5. ChildrenOf(c, i) # <<>> => order[Head(ChildrenOf(c, i))] = id(Head(ChildrenOf(c, i)))
    BY <1>3, <2>4
  <2>6. first(order[i]) = FirstOf(c, i)
    BY <1>7, <2>5 DEF FirstOf
  <2>7. order[i] \in m.parallel <=> c.states[i].parallel
    BY <1>2, <1>7
  <2>. QED BY <2>3, <2>6, <2>7
<1>9. StateIDs(m) = ToSet(order) /\ m.parallel \subseteq ToSet(order)
  BY <1>2 DEF StateIDs
<1>10. ASSUME NEW i \in 1..n
       PROVE  m.parent[order[i]] = parent(order[i]) /\ m.initial[order[i]] = first(order[i])
  <2>. HIDE DEF parent, first
  <2>. QED BY <1>2, <1>7
<1>. HIDE DEF parent, first
<1>11. ASSUME NEW i \in 1..n
       PROVE  /\ m.order[i] = c.states[i].id
              /\ m.parent[m.order[i]] = IF c.states[i].parent = 0 THEN None ELSE c.states[c.states[i].parent].id
              /\ m.initial[m.order[i]] = FirstOf(c, i)
              /\ m.order[i] \in m.parallel <=> c.states[i].parallel
  BY <1>2, <1>3, <1>8, <1>10
<1>12. /\ n \in Nat /\ DOMAIN m.order = 1..n /\ Len(m.order) = n
       /\ m.order \in Seq(StateIDs(m)) /\ StateIDs(m) = Known(c)
       /\ m.start = c.initial /\ m.parallel \subseteq StateIDs(m)
       /\ \A i, j \in 1..n : c.states[i].id = c.states[j].id => i = j
  BY <1>1, <1>2, <1>3, <1>4, <1>5, <1>6, <1>9
<1>. QED BY <1>11, <1>12 DEF m

LEMMA TwoOrMore ==
  ASSUME NEW S, IsFiniteSet(S), NEW a \in S, NEW b \in S, a # b
  PROVE  Cardinality(S) >= 2
<1>1. Cardinality(S) \in Nat
  BY FS_CardinalityType
<1>2. Cardinality(S) # 0
  BY FS_EmptySet
<1>3. Cardinality(S) # 1
  <2>1. ASSUME Cardinality(S) = 1 PROVE FALSE
    <3>1. PICK x : S = {x}
      BY <2>1, FS_Singleton
    <3>. QED BY <3>1
  <2>. QED BY <2>1
<1>. QED BY <1>1, <1>2, <1>3

\* A compiled transition of state i.
Made(c, i, on, t) ==
  [from |-> c.states[i].id, on |-> on, to |-> t.target, guarded |-> t.how.guarded, raises |-> <<>>, how |-> t.how]

FromOrdinary(c, i) == {Made(c, i, t.event, t) : t \in ToSet(c.states[i].transitions)}
FromTimed(c, i) == {Made(c, i, AfterEvent(c.states[i].id), t) : t \in ToSet(c.states[i].after)}
FromRouting(c, i) == {Made(c, i, t.event, t) : t \in ToSet(c.states[i].always)}
MadeOf(c, i) == FromOrdinary(c, i) \cup FromTimed(c, i) \cup FromRouting(c, i)
AllMade(c) == UNION {MadeOf(c, i) : i \in 1..Len(c.states)}

LEMMA CompiledTransitions ==
  ASSUME NEW c, Config(c)
  PROVE  LET seq == Compiled(c).transitions
         IN  /\ seq \in Seq(AllMade(c))
             /\ seq \in Seq(ToSet(seq))
             /\ \A k \in DOMAIN seq : \E i \in 1..Len(c.states) : seq[k] \in MadeOf(c, i)
<1>. DEFINE n == Len(c.states)
            S == AllMade(c)
            order == [i \in DOMAIN c.states |-> c.states[i].id]
            from(i, t) == [from |-> order[i], on |-> t.event, to |-> t.target, guarded |-> t.how.guarded,
                           raises |-> <<>>, how |-> t.how]
            timed(i, t) == from(i, [event |-> AfterEvent(order[i]), target |-> t.target, how |-> t.how])
            ord(i) == [k \in DOMAIN c.states[i].transitions |-> from(i, c.states[i].transitions[k])]
            tim(i) == [k \in DOMAIN c.states[i].after |-> timed(i, c.states[i].after[k])]
            rou(i) == [k \in DOMAIN c.states[i].always |-> from(i, c.states[i].always[k])]
            ss == [i \in DOMAIN c.states |-> ord(i) \o tim(i) \o rou(i)]
            seq == Compiled(c).transitions
<1>1. n \in Nat /\ DOMAIN c.states = 1..n /\ \A i \in 1..n : c.states[i] \in StateConfig
  BY ConfigIs
<1>2. seq = FlattenSeq(ss)
  BY DEF Compiled
<1>3. \A i \in 1..n : order[i] = c.states[i].id
  BY <1>1
<1>. HIDE DEF order, seq
<1>4. ASSUME NEW i \in 1..n
      PROVE  /\ c.states[i].transitions \in Seq(Ordinary) /\ c.states[i].after \in Seq(Timed)
             /\ c.states[i].always \in Seq(Routing)
  BY <1>1 DEF StateConfig
<1>5. ASSUME NEW i \in 1..n
      PROVE  MadeOf(c, i) \subseteq S
  BY DEF AllMade
<1>6. ASSUME NEW i \in 1..n PROVE ord(i) \in Seq(S) /\ tim(i) \in Seq(S) /\ rou(i) \in Seq(S)
  <2>1. \A k \in DOMAIN c.states[i].transitions : from(i, c.states[i].transitions[k]) \in S
    <3>1. ASSUME NEW k \in DOMAIN c.states[i].transitions PROVE from(i, c.states[i].transitions[k]) \in FromOrdinary(c, i)
      <4>1. c.states[i].transitions[k] \in ToSet(c.states[i].transitions)
        BY InSequence
      <4>. QED BY <1>3, <4>1 DEF FromOrdinary, Made
    <3>. HIDE DEF from, S
    <3>. QED BY <1>5, <3>1 DEF MadeOf
  <2>2. \A k \in DOMAIN c.states[i].after : timed(i, c.states[i].after[k]) \in S
    <3>1. ASSUME NEW k \in DOMAIN c.states[i].after PROVE timed(i, c.states[i].after[k]) \in FromTimed(c, i)
      <4>1. c.states[i].after[k] \in ToSet(c.states[i].after)
        BY InSequence
      <4>. QED BY <1>3, <4>1 DEF FromTimed, Made
    <3>. HIDE DEF timed, S
    <3>. QED BY <1>5, <3>1 DEF MadeOf
  <2>3. \A k \in DOMAIN c.states[i].always : from(i, c.states[i].always[k]) \in S
    <3>1. ASSUME NEW k \in DOMAIN c.states[i].always PROVE from(i, c.states[i].always[k]) \in FromRouting(c, i)
      <4>1. c.states[i].always[k] \in ToSet(c.states[i].always)
        BY InSequence
      <4>. QED BY <1>3, <4>1 DEF FromRouting, Made
    <3>. HIDE DEF from, S
    <3>. QED BY <1>5, <3>1 DEF MadeOf
  <2>. HIDE DEF from, timed, S
  <2>4. ord(i) \in Seq(S)
    BY <1>4, <2>1
  <2>5. tim(i) \in Seq(S)
    BY <1>4, <2>2
  <2>6. rou(i) \in Seq(S)
    BY <1>4, <2>3
  <2>. QED BY <2>4, <2>5, <2>6
<1>. HIDE DEF S, ord, tim, rou
<1>7. ASSUME NEW i \in 1..n PROVE ord(i) \o tim(i) \o rou(i) \in Seq(S)
  <2>1. ord(i) \o tim(i) \in Seq(S)
    BY <1>6
  <2>. QED BY <1>6, <2>1
<1>8. ss \in [1..n -> Seq(S)]
  BY <1>1, <1>7
<1>. HIDE DEF ss
<1>9. seq \in Seq(S)
  BY <1>1, <1>2, <1>8, FlattenElements
<1>10. seq \in Seq(ToSet(seq)) /\ \A k \in DOMAIN seq : seq[k] \in S
  <2>1. \A k \in DOMAIN seq : seq[k] \in ToSet(seq)
    BY InSequence
  <2>. QED BY <1>9, <2>1
<1>11. \A t \in S : \E i \in 1..n : t \in MadeOf(c, i)
  BY DEF S, AllMade
<1>. HIDE DEF n
<1>. QED BY <1>9, <1>10, <1>11 DEF S, seq, n

\* A done event, an After's event and that of Always are three.
LEMMA EventsDiffer ==
  ASSUME NEW s \in IDs, s # None
  PROVE  /\ AfterEvent(s) # AlwaysEvent /\ AfterEvent(s) # Event /\ AfterEvent(s) # DoneEvent(s)
         /\ Event # AlwaysEvent /\ DoneEvent(s) # AlwaysEvent
BY BuildAssumption DEF IDs

\* What compile accepts is a machine that the interpreter can run.
LEMMA CompiledIsWellFormed ==
  ASSUME NEW c, Config(c), Accepted(c)
  PROVE  WellFormed(Compiled(c))
<1>. DEFINE m == Compiled(c)
            n == Len(c.states)
            id(i) == c.states[i].id
<1>1. \A i \in 1..n : AcceptedState(c, i)
  BY DEF Accepted
<1>2. /\ n \in Nat /\ DOMAIN m.order = 1..n /\ Len(m.order) = n
      /\ m.order \in Seq(StateIDs(m)) /\ StateIDs(m) = Known(c)
      /\ m.start = c.initial /\ m.parallel \subseteq StateIDs(m)
      /\ \A i, j \in 1..n : id(i) = id(j) => i = j
      /\ \A i \in 1..n :
          /\ m.order[i] = id(i)
          /\ m.parent[m.order[i]] = IF c.states[i].parent = 0 THEN None ELSE c.states[c.states[i].parent].id
          /\ m.initial[m.order[i]] = FirstOf(c, i)
          /\ m.order[i] \in m.parallel <=> c.states[i].parallel
  BY <1>1, CompiledTree
<1>3. DOMAIN c.states = 1..n /\ \A i \in 1..n : c.states[i].parent \in 0..(i-1)
  BY ConfigIs
<1>4. m.transitions \in Seq(ToSet(m.transitions)) /\ \A k \in DOMAIN m.transitions : \E i \in 1..n : m.transitions[k] \in MadeOf(c, i)
  BY CompiledTransitions
<1>. HIDE DEF m
<1>5. None \notin StateIDs(m)
  BY <1>1, <1>2, <1>3 DEF Known, AcceptedState
<1>6. ASSUME NEW i \in 1..n
      PROVE  /\ \A j \in 1..(i-1) : m.order[j] # m.order[i]
             /\ m.parent[m.order[i]] \in {None} \cup {m.order[j] : j \in 1..(i-1)}
  <2>1. \A j \in 1..(i-1) : j \in 1..n /\ j # i
    BY <1>2
  <2>2. \A j \in 1..(i-1) : m.order[j] # m.order[i]
    BY <1>2, <2>1
  <2>3. c.states[i].parent # 0 => c.states[i].parent \in 1..(i-1)
    BY <1>3
  <2>4. c.states[i].parent # 0 => m.parent[m.order[i]] = m.order[c.states[i].parent]
    BY <1>2, <2>1, <2>3
  <2>. QED BY <1>2, <2>2, <2>3, <2>4
<1>7. m.start \in StateIDs(m)
  BY <1>2 DEF Accepted
<1>8. ASSUME NEW i \in 1..n
      PROVE  ToSet(Children(m, id(i))) = {id(k) : k \in Kids(c, i)}
  <2>1. ToSet(Children(m, id(i))) = {s \in StateIDs(m) : m.parent[s] = id(i)}
    BY <1>2, ChildrenInOrder
  <2>2. Known(c) = {id(k) : k \in 1..n}
    BY <1>3 DEF Known
  <2>3. id(i) # None
    BY <1>1 DEF AcceptedState
  <2>4. ASSUME NEW k \in 1..n PROVE m.parent[id(k)] = id(i) <=> k \in Kids(c, i)
    <3>1. m.parent[id(k)] = IF c.states[k].parent = 0 THEN None ELSE id(c.states[k].parent)
      BY <1>2
    <3>2. c.states[k].parent = 0 \/ c.states[k].parent \in 1..n
      BY <1>2, <1>3
    <3>3. k \in Kids(c, i) <=> c.states[k].parent = i
      BY <1>3 DEF Kids
    <3>4. i # 0
      BY <1>2
    <3>. HIDE DEF id, n
    <3>. QED BY <1>2, <2>3, <3>1, <3>2, <3>3, <3>4
  <2>5. Kids(c, i) \subseteq 1..n
    BY <1>3 DEF Kids
  <2>. HIDE DEF id, n
  <2>. QED BY <1>2, <2>1, <2>2, <2>4, <2>5
<1>9. ASSUME NEW s \in StateIDs(m), NEW kids, kids = ToSet(Children(m, s))
      PROVE  /\ s \in m.parallel /\ kids # {} => Cardinality(kids) >= 2
             /\ IF s \in m.parallel \/ kids = {} THEN m.initial[s] = None ELSE m.initial[s] \in kids
  <2>1. PICK i \in 1..n : s = id(i)
    BY <1>2, <1>3 DEF Known
  <2>. DEFINE K == Kids(c, i)
  <2>2. kids = {id(k) : k \in K}
    BY <1>8, <1>9, <2>1
  <2>3. /\ s \in m.parallel <=> c.states[i].parallel
        /\ m.initial[s] = FirstOf(c, i)
    BY <1>2, <2>1
  <2>4. InitialOK(c, i)
    BY <1>1 DEF AcceptedState
  <2>5. /\ ChildrenOf(c, i) = <<>> <=> K = {}
        /\ ToSet(ChildrenOf(c, i)) = K /\ ChildrenOf(c, i) \in Seq(1..n)
        /\ IsFiniteSet(K) /\ K \subseteq 1..n
    <3>1. ChildrenOf(c, i) = <<>> <=> K = {}
      BY SeveralKids
    <3>2. IsFiniteSet(K)
      BY SeveralKids
    <3>3. ToSet(ChildrenOf(c, i)) = K /\ ChildrenOf(c, i) \in Seq(1..n)
      BY KidsAre
    <3>4. K \subseteq 1..n
      BY <1>3 DEF Kids
    <3>. QED BY <3>1, <3>2, <3>3, <3>4
  <2>6. kids = {} <=> K = {}
    <3>. HIDE DEF K
    <3>. QED BY <2>2
  <2>7. ASSUME s \in m.parallel, kids # {} PROVE Cardinality(kids) >= 2
    <3>1. Cardinality(K) # 1
      BY <2>3, <2>4, <2>6, <2>7 DEF InitialOK
    <3>2. PICK a \in K : TRUE
      BY <2>6, <2>7
    <3>3. PICK b \in K : b # a
      <4>1. K # {a}
        <5>1. Cardinality({a}) = 1
          BY FS_Singleton
        <5>. HIDE DEF K
        <5>. QED BY <3>1, <5>1
      <4>. HIDE DEF K
      <4>. QED BY <3>2, <4>1
    <3>4. id(a) \in kids /\ id(b) \in kids /\ id(a) # id(b)
      <4>. HIDE DEF K, id
      <4>. QED BY <1>2, <2>2, <2>5, <3>2, <3>3
    <3>5. IsFiniteSet(kids)
      <4>. DEFINE f == [k \in K |-> id(k)]
      <4>1. f \in Surjection(K, kids)
        <5>1. f \in [K -> kids] /\ \A x \in kids : \E k \in K : f[k] = x
          <6>. HIDE DEF K, id
          <6>. QED BY <2>2
        <5>. HIDE DEF f, K
        <5>. QED BY <5>1 DEF Surjection
      <4>. HIDE DEF K, f
      <4>. QED BY <2>5, <4>1, FS_Surjection
    <3>. HIDE DEF id
    <3>. QED BY <3>4, <3>5, TwoOrMore
  <2>8. s \in m.parallel \/ kids = {} => m.initial[s] = None
    <3>. HIDE DEF K
    <3>. QED BY <2>3, <2>5, <2>6 DEF FirstOf
  <2>9. ASSUME s \notin m.parallel, kids # {} PROVE m.initial[s] \in kids
    <3>1. ChildrenOf(c, i) # <<>> /\ ~c.states[i].parallel /\ Kids(c, i) # {}
      BY <2>3, <2>5, <2>6, <2>9
    <3>2. CASE c.states[i].initialChild # None
      <4>1. m.initial[s] = c.states[i].initialChild
        BY <2>3, <3>1, <3>2 DEF FirstOf
      <4>2. c.states[i].initialChild \in {id(k) : k \in K}
        BY <2>4, <3>1, <3>2 DEF InitialOK
      <4>. QED BY <2>2, <4>1, <4>2
    <3>3. CASE c.states[i].initialChild = None
      <4>1. m.initial[s] = id(Head(ChildrenOf(c, i)))
        BY <2>3, <3>1, <3>3 DEF FirstOf
      <4>2. Head(ChildrenOf(c, i)) \in ToSet(ChildrenOf(c, i))
        <5>. DEFINE q == ChildrenOf(c, i)
        <5>1. 1 \in DOMAIN q /\ Head(q) = q[1]
          <6>1. q \in Seq(1..n) /\ q # <<>>
            BY <2>5, <3>1
          <6>. HIDE DEF q
          <6>. QED BY <6>1
        <5>. HIDE DEF q
        <5>2. Head(q) \in ToSet(q)
          BY <5>1, InSequence
        <5>. QED BY <5>2 DEF q
      <4>3. Head(ChildrenOf(c, i)) \in K
        BY <2>5, <4>2
      <4>. HIDE DEF K, id
      <4>. QED BY <2>2, <4>1, <4>3
    <3>. QED BY <3>2, <3>3
  <2>. QED BY <2>7, <2>8, <2>9
<1>10. ASSUME NEW k \in DOMAIN m.transitions, NEW t, t = m.transitions[k]
       PROVE  /\ {t.from, t.to} \subseteq StateIDs(m)
              /\ t.on = AlwaysEvent /\ ~t.guarded => t.to # t.from
  <2>1. PICK i \in 1..n : t \in MadeOf(c, i)
    BY <1>4, <1>10
  <2>2. AcceptedState(c, i) /\ id(i) \in Known(c) /\ id(i) # None /\ id(i) \in IDs
    <3>1. c.states[i] \in StateConfig
      BY ConfigIs
    <3>. QED BY <1>1, <1>3, <3>1 DEF AcceptedState, Known, StateConfig
  <2>3. /\ \A u \in Outgoing(c, i) : u.target \in Known(c)
        /\ \A u \in ToSet(c.states[i].always) : u.target = id(i) => u.how.guarded
    BY <2>2 DEF AcceptedState
  <2>4. /\ c.states[i].transitions \in Seq(Ordinary) /\ c.states[i].after \in Seq(Timed)
        /\ c.states[i].always \in Seq(Routing)
    <3>1. c.states[i] \in StateConfig
      BY ConfigIs
    <3>. QED BY <3>1 DEF StateConfig
  <2>5. CASE t \in FromOrdinary(c, i)
    <3>1. PICK u \in ToSet(c.states[i].transitions) : t = Made(c, i, u.event, u)
      BY <2>5 DEF FromOrdinary
    <3>2. t.from = id(i) /\ t.to = u.target /\ t.on = u.event
      BY <3>1 DEF Made
    <3>3. u \in Ordinary
      BY <2>4, <3>1, InSequence
    <3>4. u.event # AlwaysEvent
      BY <3>3, BuildAssumption DEF Ordinary, IDs
    <3>. QED BY <1>2, <2>2, <2>3, <3>1, <3>2, <3>4 DEF Outgoing
  <2>6. CASE t \in FromTimed(c, i)
    <3>1. PICK u \in ToSet(c.states[i].after) : t = Made(c, i, AfterEvent(id(i)), u)
      BY <2>6 DEF FromTimed
    <3>2. t.from = id(i) /\ t.to = u.target /\ t.on = AfterEvent(id(i))
      BY <3>1 DEF Made
    <3>3. t.on # AlwaysEvent
      BY <2>2, <3>2, EventsDiffer
    <3>. QED BY <1>2, <2>2, <2>3, <3>1, <3>2, <3>3 DEF Outgoing
  <2>7. CASE t \in FromRouting(c, i)
    <3>1. PICK u \in ToSet(c.states[i].always) : t = Made(c, i, u.event, u)
      BY <2>7 DEF FromRouting
    <3>2. t.from = id(i) /\ t.to = u.target /\ t.guarded = u.how.guarded
      BY <3>1 DEF Made
    <3>. QED BY <1>2, <2>2, <2>3, <3>1, <3>2 DEF Outgoing
  <2>. QED BY <2>1, <2>5, <2>6, <2>7 DEF MadeOf
<1>11. \A k \in DOMAIN m.transitions :
         LET t == m.transitions[k]
         IN  /\ {t.from, t.to} \subseteq StateIDs(m)
             /\ t.on = AlwaysEvent /\ ~t.guarded => t.to # t.from
  BY <1>10
<1>12. \A s \in StateIDs(m) :
         LET kids == ToSet(Children(m, s))
         IN  /\ s \in m.parallel /\ kids # {} => Cardinality(kids) >= 2
             /\ IF s \in m.parallel \/ kids = {} THEN m.initial[s] = None ELSE m.initial[s] \in kids
  BY <1>9
<1>13. \A i \in DOMAIN m.order :
         /\ \A j \in 1..(i-1) : m.order[j] # m.order[i]
         /\ m.parent[m.order[i]] \in {None} \cup {m.order[j] : j \in 1..(i-1)}
  BY <1>2, <1>6
<1>14. WellFormed(m)
  BY <1>2, <1>4, <1>5, <1>7, <1>11, <1>12, <1>13 DEF WellFormed
<1>. QED BY <1>14 DEF m

-----------------------------------------------------------------------------
(* BuildIsSound.                                                           *)

\* On and Always keep the guard of their options.
LEMMA AppliedGuards ==
  ASSUME NEW h \in Ways
  PROVE  h.guarded = Contains(h.opts, "When")
<1>1. PICK o \in Options : h = Applied(o)
  BY DEF Ways
<1>2. h.guarded = Contains(o, "When") /\ h.opts = o
  BY <1>1 DEF Applied
<1>. QED BY <1>2

LEMMA CompiledGuards ==
  ASSUME NEW c, Config(c), Accepted(c), NEW k \in DOMAIN Compiled(c).transitions,
         NEW t, t = Compiled(c).transitions[k], t.on \in {Event, AlwaysEvent, DoneEvent(t.from)}
  PROVE  t.guarded = Contains(t.how.opts, "When")
<1>1. PICK i \in 1..Len(c.states) : t \in MadeOf(c, i)
  BY CompiledTransitions
<1>2. c.states[i] \in StateConfig /\ c.states[i].id # None
  BY ConfigIs DEF Accepted, AcceptedState
<1>3. /\ c.states[i].transitions \in Seq(Ordinary) /\ c.states[i].always \in Seq(Routing)
      /\ c.states[i].id \in IDs
  BY <1>2 DEF StateConfig
<1>4. CASE t \in FromOrdinary(c, i)
  <2>1. PICK u \in ToSet(c.states[i].transitions) : t = Made(c, i, u.event, u)
    BY <1>4 DEF FromOrdinary
  <2>2. u \in Ordinary
    BY <1>3, <2>1, InSequence
  <2>3. u.how \in Ways /\ t.guarded = u.how.guarded /\ t.how = u.how
    BY <2>1, <2>2 DEF Ordinary, Made
  <2>. QED BY <2>3, AppliedGuards
<1>5. CASE t \in FromTimed(c, i)
  <2>1. PICK u \in ToSet(c.states[i].after) : t = Made(c, i, AfterEvent(c.states[i].id), u)
    BY <1>5 DEF FromTimed
  <2>2. t.on = AfterEvent(c.states[i].id) /\ t.from = c.states[i].id
    BY <2>1 DEF Made
  <2>. QED BY <1>2, <1>3, <2>2, EventsDiffer
<1>6. CASE t \in FromRouting(c, i)
  <2>1. PICK u \in ToSet(c.states[i].always) : t = Made(c, i, u.event, u)
    BY <1>6 DEF FromRouting
  <2>2. u \in Routing
    BY <1>3, <2>1, InSequence
  <2>3. u.how \in Ways /\ t.guarded = u.how.guarded /\ t.how = u.how
    BY <2>1, <2>2 DEF Routing, Made
  <2>. QED BY <2>3, AppliedGuards
<1>. QED BY <1>1, <1>4, <1>5, <1>6 DEF MadeOf

\* The states that are active once a machine has started, outside any region.
LEMMA StartsLegal ==
  ASSUME WellFormed(result.machine),
         Ancestors(result.machine, result.machine.start) \cap result.machine.parallel = {}
  PROVE  Chart!Legal(result.machine, started)
<1>. DEFINE m == result.machine
            L == ToSet(InitialLeaves(m))
<1>1. Ancestors(m, m.start) \cap AndStates(m) = {}
  BY DEF AndStates
<1>2. Whole(m, L)
  <2>. HIDE DEF m
  <2>1. WellFormed(m)
    BY DEF m
  <2>. QED BY <1>1, <2>1, InitiallyWhole
<1>3. InitialLeaves(m) \in Seq(StateIDs(m))
  <2>1. m.start \in StateIDs(m)
    BY DEF WellFormed
  <2>. HIDE DEF m
  <2>2. WellFormed(m)
    BY DEF m
  <2>. QED BY <2>1, <2>2, LeafTargetsAre DEF InitialLeaves
<1>4. started = Active(m, L)
  BY <1>3, ConfigurationIs DEF started, Active
<1>5. /\ Cardinality({s \in started : m.parent[s] = None}) = 1
      /\ \A s \in started :
          /\ m.parent[s] # None => m.parent[s] \in started
          /\ s \in m.parallel => {c \in StateIDs(m) : m.parent[c] = s} \subseteq started
          /\ s \notin m.parallel /\ {c \in StateIDs(m) : m.parent[c] = s} # {} =>
                  Cardinality({c \in StateIDs(m) : m.parent[c] = s} \cap started) = 1
  BY <1>2, <1>4, WholeIsLegal
<1>6. /\ \A T : Chart!Cardinality(T) = Cardinality(T)
      /\ Chart!StateIDs(m) = StateIDs(m) /\ Chart!None = None
  BY DEF Chart!Cardinality, Cardinality, Chart!StateIDs, Chart!ToSet, StateIDs, ToSet, Chart!None, None
<1>. HIDE DEF started
<1>. QED BY <1>5, <1>6 DEF Chart!Legal

LEMMA TypedIsSound ==
  ASSUME Typed
  PROVE  BuildIsSound
<1>1. CASE result = Unbuilt
  BY <1>1 DEF BuildIsSound
<1>2. CASE result # Unbuilt
  <2>1. /\ result.err = "nil" <=> Accepted(cfg)
        /\ result.err = "nil" => result.machine = Compiled(cfg)
        /\ Config(cfg)
    BY <1>2, NilIs
  <2>2. result.err = "nil" <=> AcceptableExcept(Childless)
    BY <2>1, AcceptableIs
  <2>3. ASSUME result.err = "nil"
        PROVE  /\ WellFormed(result.machine)
               /\ Ancestors(result.machine, result.machine.start) \cap result.machine.parallel = {}
                    => Chart!Legal(result.machine, started)
               /\ \A k \in DOMAIN result.machine.transitions :
                    LET t == result.machine.transitions[k]
                    IN  t.on \in {Event, AlwaysEvent, DoneEvent(t.from)} => t.guarded = Contains(t.how.opts, "When")
    <3>1. WellFormed(result.machine)
      BY <2>1, <2>3, CompiledIsWellFormed
    <3>2. Ancestors(result.machine, result.machine.start) \cap result.machine.parallel = {}
            => Chart!Legal(result.machine, started)
      BY <3>1, StartsLegal
    <3>3. ASSUME NEW k \in DOMAIN result.machine.transitions, NEW t, t = result.machine.transitions[k],
                 t.on \in {Event, AlwaysEvent, DoneEvent(t.from)}
          PROVE  t.guarded = Contains(t.how.opts, "When")
      BY <2>1, <2>3, <3>3, CompiledGuards
    <3>. QED BY <3>1, <3>2, <3>3
  <2>. QED BY <2>2, <2>3 DEF BuildIsSound
<1>. QED BY <1>1, <1>2

\* BuildIsSound: compile (compile.go) accepts the definitions that its comments
\* and those of builder.go call acceptable and, besides, those whose parallel
\* states have no child, whatever the number of states, their nesting and the
\* order of the calls; and what it accepts the interpreter can run.
THEOREM BuildAcceptsTheSound == Spec => []BuildIsSound
BY StaysTyped, TypedIsSound, PTL

=============================================================================
