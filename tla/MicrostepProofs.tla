-------------------------- MODULE MicrostepProofs ---------------------------
(***************************************************************************)
(* Proofs about the functions of Machine and Microstep for every machine:  *)
(* what the navigation of a statechart returns, which transitions an event *)
(* fires, what a macrostep exits and enters and in which order, and that a *)
(* machine that keeps its regions goes from one configuration to another.  *)
(***************************************************************************)
EXTENDS Microstep, FiniteSetTheorems, SequenceTheorems, WellFoundedInduction, TLAPS

-----------------------------------------------------------------------------
(* Induction. A recursive function is CHOOSE f : f = [x |-> ...]; that     *)
(* there is one is shown by induction over sets of naturals.               *)

\* Every set of naturals that is not empty has a least element: the intervals
\* 1..n below the others are well-founded.
LEMMA LeastNat ==
  ASSUME NEW T, T \subseteq Nat, T # {}
  PROVE  \E n \in T : \A k \in T : n <= k
<1> DEFINE R == StrictSubsetOrdering(Nat)
           I == {1..n : n \in T}
<1>1. I \subseteq FiniteSubsetsOf(Nat)
  BY FS_Interval DEF FiniteSubsetsOf
<1>2. I # {}
  OBVIOUS
<1>3. PICK X \in I : \A Y \in I : <<Y, X>> \notin R
  <2> HIDE DEF R, I
  <2>. QED BY <1>1, <1>2, FS_StrictSubsetOrderingWellFounded, WFMin DEF R
<1>4. PICK n \in T : X = 1..n
  OBVIOUS
<1>5. ASSUME NEW k \in T, k < n PROVE FALSE
  <2>1. 1..k \subseteq 1..n /\ 1..k # 1..n
    <3>1. n \in 1..n /\ n \notin 1..k
      BY <1>5
    <3>. QED BY <1>5, <3>1
  <2>2. <<1..k, X>> \in R
    BY <1>4, <2>1 DEF StrictSubsetOrdering
  <2>. QED BY <2>2, <1>3
<1>. QED BY <1>5

\* Induction, stated for a set.
LEMMA InductionUpTo ==
  ASSUME NEW N \in Nat, NEW T, 0 \in T, \A n \in 0..(N-1) : n \in T => n+1 \in T
  PROVE  \A n \in 0..N : n \in T
<1> DEFINE U == {n \in 0..N : n \notin T}
<1> SUFFICES ASSUME U # {} PROVE FALSE
  OBVIOUS
<1>1. PICK n \in U : \A k \in U : n <= k
  <2>1. U \subseteq Nat
    OBVIOUS
  <2> HIDE DEF U
  <2>. QED BY <2>1, LeastNat
<1>2. n # 0 /\ n - 1 \in 0..(N-1)
  OBVIOUS
<1>3. n - 1 \in T
  BY <1>1, <1>2
<1>. QED BY <1>2, <1>3

-----------------------------------------------------------------------------
(* FlattenSeq.                                                             *)

\* FlattenSeq is what its recursive definition says.
LEMMA FlattenUnfolds ==
  ASSUME NEW ss, Len(ss) \in Nat \ {0}
  PROVE  \E f : /\ \A i \in 1..Len(ss) : f[i] = IF i = 1 THEN ss[i] ELSE f[i-1] \o ss[i]
                /\ FlattenSeq(ss) = f[Len(ss)]
<1> DEFINE N == Len(ss)
           P(n) == \E g : \A i \in 1..n : g[i] = IF i = 1 THEN ss[i] ELSE g[i-1] \o ss[i]
           T == {n \in 0..N : P(n)}
<1>1. 0 \in T
  <2>1. P(0)
    OBVIOUS
  <2>. QED BY <2>1
<1>2. ASSUME NEW n \in 0..(N-1), n \in T PROVE n+1 \in T
  <2>1. PICK g : \A i \in 1..n : g[i] = IF i = 1 THEN ss[i] ELSE g[i-1] \o ss[i]
    BY <1>2
  <2> DEFINE h == [i \in 1..(n+1) |-> IF i <= n THEN g[i] ELSE IF i = 1 THEN ss[i] ELSE g[i-1] \o ss[i]]
  <2>2. ASSUME NEW i \in 1..(n+1) PROVE h[i] = IF i = 1 THEN ss[i] ELSE h[i-1] \o ss[i]
    <3>1. CASE i <= n
      BY <3>1, <2>1
    <3>2. CASE i = n + 1
      BY <3>2
    <3>. QED BY <3>1, <3>2
  <2>3. P(n+1)
    <3> HIDE DEF h
    <3>. QED BY <2>2
  <2>. QED BY <2>3
<1>3. P(N)
  <2>1. N \in T
    <3>1. N \in 0..N
      OBVIOUS
    <3> HIDE DEF T
    <3>. QED BY <1>1, <1>2, <3>1, InductionUpTo
  <2> HIDE DEF P
  <2>. QED BY <2>1 DEF T
<1> DEFINE F == CHOOSE f : f = [i \in 1..N |-> IF i = 1 THEN ss[i] ELSE f[i-1] \o ss[i]]
<1>4. \E f : f = [i \in 1..N |-> IF i = 1 THEN ss[i] ELSE f[i-1] \o ss[i]]
  <2>1. PICK g : \A i \in 1..N : g[i] = IF i = 1 THEN ss[i] ELSE g[i-1] \o ss[i]
    BY <1>3
  <2> DEFINE h == [i \in 1..N |-> g[i]]
  <2>2. \A i \in 1..N : h[i] = IF i = 1 THEN ss[i] ELSE h[i-1] \o ss[i]
    BY <2>1
  <2>3. h = [i \in 1..N |-> h[i]]
    OBVIOUS
  <2> HIDE DEF h
  <2>. QED BY <2>2, <2>3
<1>5. F = [i \in 1..N |-> IF i = 1 THEN ss[i] ELSE F[i-1] \o ss[i]]
  BY <1>4
<1>6. FlattenSeq(ss) = F[N]
  BY DEF FlattenSeq
<1>7. ASSUME NEW i \in 1..N PROVE F[i] = IF i = 1 THEN ss[i] ELSE F[i-1] \o ss[i]
  <2> DEFINE R == [j \in 1..N |-> IF j = 1 THEN ss[j] ELSE F[j-1] \o ss[j]]
  <2> HIDE DEF F
  <2>1. R[i] = IF i = 1 THEN ss[i] ELSE F[i-1] \o ss[i]
    OBVIOUS
  <2>2. F = R
    BY <1>5
  <2> HIDE DEF R
  <2>. QED BY <2>1, <2>2
<1>. QED
  <2> HIDE DEF F
  <2>. QED BY <1>6, <1>7

\* The elements of flat are those of the first n sequences of ss one after the
\* other: start[i] of them come before those of ss[i].
Layout(flat, ss, n, start) ==
  /\ \A i \in 1..n : start[i] \in Nat /\ start[i] + Len(ss[i]) <= Len(flat)
  /\ \A i \in 1..n : \A o \in 1..Len(ss[i]) : flat[start[i] + o] = ss[i][o]
  /\ \A i, j \in 1..n : i < j => start[i] + Len(ss[i]) <= start[j]
  /\ \A k \in 1..Len(flat) : \E i \in 1..n : \E o \in 1..Len(ss[i]) : k = start[i] + o

LEMMA LayoutConcat ==
  ASSUME NEW S, NEW n \in Nat, NEW ss, NEW flat \in Seq(S), NEW start,
         \A i \in 1..(n+1) : Len(ss[i]) \in Nat, ss[n+1] \in Seq(S),
         start[n+1] = Len(flat), Layout(flat, ss, n, start)
  PROVE  Layout(flat \o ss[n+1], ss, n+1, start)
<1> DEFINE next == flat \o ss[n+1]
           a == Len(flat)
           b == Len(ss[n+1])
<1>1. a \in Nat /\ b \in Nat
  OBVIOUS
<1>2. /\ Len(next) = a + b
      /\ \A p \in 1..a : next[p] = flat[p]
      /\ \A o \in 1..b : next[a + o] = ss[n+1][o]
  <2>1. /\ Len(next) = a + b
        /\ \A i \in 1..(a+b) : next[i] = IF i <= a THEN flat[i] ELSE ss[n+1][i - a]
    BY ConcatProperties
  <2> HIDE DEF next, a, b
  <2>. QED BY <2>1, <1>1
<1>3. start[n+1] = a
  OBVIOUS
<1>4. \A i \in 1..n : start[i] \in Nat /\ Len(ss[i]) \in Nat /\ start[i] + Len(ss[i]) <= a
  BY DEF Layout
<1>5. \A p \in 1..a : \E i \in 1..n : \E o \in 1..Len(ss[i]) : p = start[i] + o
  BY DEF Layout
<1>6. \A i \in 1..n : \A o \in 1..Len(ss[i]) : flat[start[i] + o] = ss[i][o]
  BY DEF Layout
<1>7. \A i, j \in 1..n : i < j => start[i] + Len(ss[i]) <= start[j]
  BY DEF Layout
<1>8. \A i \in 1..(n+1) : i \in 1..n \/ i = n+1
  OBVIOUS
<1>9. b = Len(ss[n+1])
  OBVIOUS
<1> HIDE DEF next, a, b
<1>10. ASSUME NEW i \in 1..(n+1) PROVE start[i] \in Nat /\ start[i] + Len(ss[i]) <= Len(next)
  BY <1>1, <1>2, <1>3, <1>4, <1>8, <1>9
<1>11. ASSUME NEW i \in 1..(n+1), NEW o \in 1..Len(ss[i]) PROVE next[start[i] + o] = ss[i][o]
  <2>1. CASE i \in 1..n
    <3>1. start[i] + o \in 1..a
      BY <1>1, <1>4, <2>1
    <3>. QED BY <2>1, <3>1, <1>2, <1>6
  <2>2. CASE i = n+1
    BY <2>2, <1>2, <1>3, <1>9
  <2>. QED BY <1>8, <2>1, <2>2
<1>12. ASSUME NEW i \in 1..(n+1), NEW j \in 1..(n+1), i < j PROVE start[i] + Len(ss[i]) <= start[j]
  <2>1. i \in 1..n
    BY <1>12
  <2>2. CASE j \in 1..n
    BY <2>1, <2>2, <1>12, <1>7
  <2>3. CASE j = n+1
    BY <2>1, <2>3, <1>3, <1>4
  <2>. QED BY <1>8, <2>2, <2>3
<1>13. ASSUME NEW p \in 1..Len(next) PROVE \E i \in 1..(n+1) : \E o \in 1..Len(ss[i]) : p = start[i] + o
  <2>1. CASE p \in 1..a
    <3>1. PICK i \in 1..n : \E o \in 1..Len(ss[i]) : p = start[i] + o
      BY <2>1, <1>5
    <3>2. i \in 1..(n+1)
      OBVIOUS
    <3>. QED BY <3>1, <3>2
  <2>2. CASE p \notin 1..a
    <3>1. p \in 1..(a + b)
      BY <1>2
    <3>2. p - a \in 1..b /\ p = a + (p - a)
      BY <3>1, <2>2, <1>1
    <3>3. n + 1 \in 1..(n+1)
      OBVIOUS
    <3>. QED BY <3>2, <3>3, <1>3, <1>9
  <2>. QED BY <2>1, <2>2
<1>14. Layout(next, ss, n+1, start)
  BY <1>10, <1>11, <1>12, <1>13 DEF Layout
<1>. QED BY <1>14 DEF next

\* What FlattenSeq returns.
LEMMA FlattenLayout ==
  ASSUME NEW S, NEW n \in Nat, NEW ss \in [1..n -> Seq(S)]
  PROVE  /\ FlattenSeq(ss) \in Seq(S)
         /\ \E start : Layout(FlattenSeq(ss), ss, n, start)
<1>1. Len(ss) = n
  OBVIOUS
<1>2. CASE n = 0
  <2>1. FlattenSeq(ss) = <<>>
    BY <1>1, <1>2 DEF FlattenSeq
  <2>2. Layout(<<>>, ss, n, <<>>)
    BY <1>1, <1>2 DEF Layout
  <2>. QED BY <2>1, <2>2
<1>3. CASE n # 0
  <2>1. PICK f : /\ \A i \in 1..n : f[i] = IF i = 1 THEN ss[i] ELSE f[i-1] \o ss[i]
                 /\ FlattenSeq(ss) = f[n]
    BY <1>1, <1>3, FlattenUnfolds
  <2> DEFINE start == [i \in 1..n |-> IF i = 1 THEN 0 ELSE Len(f[i-1])]
             flat(k) == IF k = 0 THEN <<>> ELSE f[k]
             T == {k \in 0..n : flat(k) \in Seq(S) /\ Layout(flat(k), ss, k, start)}
  <2>2. 0 \in T
    BY DEF Layout
  <2>3. ASSUME NEW k \in 0..(n-1), k \in T PROVE k+1 \in T
    <3>1. flat(k) \in Seq(S) /\ Layout(flat(k), ss, k, start)
      BY <2>3
    <3>2. k+1 \in 1..n /\ ss[k+1] \in Seq(S) /\ (\A i \in 1..(k+1) : Len(ss[i]) \in Nat) /\ k \in Nat
      OBVIOUS
    <3>3. start[k+1] = Len(flat(k)) /\ flat(k+1) = flat(k) \o ss[k+1]
      <4>1. CASE k = 0
        BY <2>1, <4>1, <3>2
      <4>2. CASE k # 0
        <5> DEFINE q == k+1
        <5>1. q \in 1..n /\ q # 1 /\ q-1 = k /\ q # 0
          BY <4>2
        <5> HIDE DEF q
        <5>2. f[q] = f[k] \o ss[q] /\ start[q] = Len(f[k])
          BY <5>1, <2>1
        <5>3. flat(q) = f[q] /\ flat(k) = f[k]
          BY <5>1, <4>2
        <5>4. start[q] = Len(flat(k)) /\ flat(q) = flat(k) \o ss[q]
          BY <5>2, <5>3
        <5>. QED BY <5>4 DEF q
      <4>. QED BY <4>1, <4>2
    <3> HIDE DEF start, flat, T
    <3>4. flat(k+1) \in Seq(S)
      BY <3>1, <3>2, <3>3, ConcatProperties
    <3>5. Layout(flat(k+1), ss, k+1, start)
      BY <3>1, <3>2, <3>3, LayoutConcat
    <3>6. k+1 \in 0..n
      OBVIOUS
    <3>. QED BY <3>4, <3>5, <3>6 DEF T
  <2>4. n \in T
    <3>1. n \in 0..n
      OBVIOUS
    <3> HIDE DEF T
    <3>. QED BY <2>2, <2>3, <3>1, InductionUpTo
  <2>5. flat(n) \in Seq(S) /\ Layout(flat(n), ss, n, start)
    <3> HIDE DEF start, flat
    <3>. QED BY <2>4 
  <2>6. flat(n) = FlattenSeq(ss)
    BY <2>1, <1>3
  <2> HIDE DEF start, flat
  <2>. QED BY <2>5, <2>6
<1>. QED BY <1>2, <1>3
-----------------------------------------------------------------------------
(* The tree of states.                                                     *)

\* What WellFormed says of order and parent.
LEMMA OrderedTree ==
  ASSUME NEW m, WellFormed(m)
  PROVE  /\ Len(m.order) \in Nat /\ DOMAIN m.order = 1..Len(m.order)
         /\ None \notin StateIDs(m)
         /\ \A i \in 1..Len(m.order) : m.order[i] \in StateIDs(m)
         /\ \A s \in StateIDs(m) : \E i \in 1..Len(m.order) : s = m.order[i]
         /\ \A i, j \in 1..Len(m.order) : m.order[i] = m.order[j] => i = j
         /\ \A i \in 1..Len(m.order) :
                m.parent[m.order[i]] # None => \E j \in 1..(i-1) : m.parent[m.order[i]] = m.order[j]
         /\ \A s \in StateIDs(m) : m.parent[s] # None => m.parent[s] \in StateIDs(m)
<1> DEFINE N == Len(m.order)
<1>1. m.order \in Seq(StateIDs(m)) /\ None \notin StateIDs(m)
  BY DEF WellFormed
<1>2. N \in Nat /\ DOMAIN m.order = 1..N
  BY <1>1
<1>3. /\ \A i \in 1..N : m.order[i] \in StateIDs(m)
      /\ \A s \in StateIDs(m) : \E i \in 1..N : s = m.order[i]
  BY <1>2 DEF StateIDs, ToSet
<1>4. \A i \in 1..N : /\ \A j \in 1..(i-1) : m.order[j] # m.order[i]
                      /\ m.parent[m.order[i]] \in {None} \cup {m.order[j] : j \in 1..(i-1)}
  BY <1>2 DEF WellFormed
<1>5. ASSUME NEW i \in 1..N, NEW j \in 1..N, m.order[i] = m.order[j] PROVE i = j
  <2>1. ~(i \in 1..(j-1)) /\ ~(j \in 1..(i-1))
    BY <1>4, <1>5
  <2>. QED BY <2>1, <1>2
<1>6. ASSUME NEW i \in 1..N, m.parent[m.order[i]] # None
      PROVE  \E j \in 1..(i-1) : m.parent[m.order[i]] = m.order[j]
  BY <1>4, <1>6
<1>7. ASSUME NEW s \in StateIDs(m), m.parent[s] # None PROVE m.parent[s] \in StateIDs(m)
  <2>1. PICK i \in 1..N : s = m.order[i]
    BY <1>3
  <2>2. PICK j \in 1..(i-1) : m.parent[m.order[i]] = m.order[j]
    BY <1>6, <1>7, <2>1
  <2>3. j \in 1..N
    BY <1>2
  <2>. QED BY <1>3, <2>1, <2>2, <2>3
<1>. QED BY <1>1, <1>2, <1>3, <1>5, <1>6, <1>7

\* Induction from the top level down.
LEMMA InductionDown ==
  ASSUME NEW m, WellFormed(m), NEW T,
         \A s \in StateIDs(m) : m.parent[s] = None \/ m.parent[s] \in T => s \in T
  PROVE  \A s \in StateIDs(m) : s \in T
<1> DEFINE N == Len(m.order)
           U == {n \in 0..N : \A i \in 1..n : m.order[i] \in T}
<1>1. N \in Nat
  BY OrderedTree
<1>2. 0 \in U
  BY <1>1
<1>3. ASSUME NEW n \in 0..(N-1), n \in U PROVE n+1 \in U
  <2>1. n + 1 \in 1..N
    BY <1>1
  <2>2. m.order[n+1] \in StateIDs(m)
    BY <2>1, OrderedTree
  <2>3. CASE m.parent[m.order[n+1]] = None
    <3>1. m.order[n+1] \in T
      BY <2>2, <2>3
    <3>. QED BY <1>3, <2>1, <3>1
  <2>4. CASE m.parent[m.order[n+1]] # None
    <3>1. PICK j \in 1..((n+1)-1) : m.parent[m.order[n+1]] = m.order[j]
      BY <2>1, <2>4, OrderedTree
    <3>2. j \in 1..n
      OBVIOUS
    <3>3. m.order[n+1] \in T
      BY <1>3, <2>2, <3>1, <3>2
    <3>. QED BY <1>3, <2>1, <3>3
  <2>. QED BY <2>3, <2>4
<1>4. N \in U
  <2>1. N \in 0..N
    BY <1>1
  <2> HIDE DEF U
  <2>. QED BY <1>1, <1>2, <1>3, <2>1, InductionUpTo
<1>. QED BY <1>4, OrderedTree

\* Induction from the leaves up.
LEMMA InductionUp ==
  ASSUME NEW m, WellFormed(m), NEW T,
         \A s \in StateIDs(m) : (\A c \in StateIDs(m) : m.parent[c] = s => c \in T) => s \in T
  PROVE  \A s \in StateIDs(m) : s \in T
<1> DEFINE N == Len(m.order)
           U == {n \in 0..N : \A i \in (N-n+1)..N : m.order[i] \in T}
<1>1. N \in Nat
  BY OrderedTree
<1>2. 0 \in U
  BY <1>1
<1>3. ASSUME NEW n \in 0..(N-1), n \in U PROVE n+1 \in U
  <2> DEFINE k == N - n
  <2>1. k \in 1..N /\ N-(n+1)+1 = k /\ n+1 \in 0..N
    BY <1>1
  <2>2. \A i \in (k+1)..N : m.order[i] \in T
    BY <1>3
  <2> HIDE DEF k
  <2>3. m.order[k] \in StateIDs(m)
    BY <2>1, OrderedTree
  <2>4. ASSUME NEW c \in StateIDs(m), m.parent[c] = m.order[k] PROVE c \in T
    <3>1. PICK i \in 1..N : c = m.order[i]
      BY OrderedTree
    <3>2. PICK j \in 1..(i-1) : m.order[k] = m.order[j]
      <4>1. m.parent[m.order[i]] # None
        BY <2>3, <2>4, <3>1, OrderedTree
      <4>. QED BY <4>1, <2>4, <3>1, OrderedTree
    <3>3. j \in 1..N
      BY <1>1
    <3>4. j = k
      BY <2>1, <3>2, <3>3, OrderedTree
    <3>5. i \in (k+1)..N
      BY <1>1, <3>4
    <3>. QED BY <2>2, <3>1, <3>5
  <2>5. m.order[k] \in T
    BY <2>3, <2>4
  <2>6. \A i \in k..N : i = k \/ i \in (k+1)..N
    BY <1>1, <2>1
  <2>7. \A i \in k..N : m.order[i] \in T
    BY <2>2, <2>5, <2>6
  <2>. QED BY <2>1, <2>7
<1>4. N \in U
  <2>1. N \in 0..N
    BY <1>1
  <2> HIDE DEF U
  <2>. QED BY <1>1, <1>2, <1>3, <2>1, InductionUpTo
<1>5. \A i \in 1..N : m.order[i] \in T
  BY <1>1, <1>4
<1>. QED BY <1>5, OrderedTree

-----------------------------------------------------------------------------
(* Chains of ancestors.                                                    *)

\* Chain is what its recursive definition says.
LEMMA ChainUnfolds ==
  ASSUME NEW m, WellFormed(m)
  PROVE  \A s \in StateIDs(m) :
            Chain(m, s) = IF m.parent[s] = None THEN <<s>> ELSE <<s>> \o Chain(m, m.parent[s])
<1> DEFINE N == Len(m.order)
           S == StateIDs(m)
           body(g, x) == IF m.parent[x] = None THEN <<x>> ELSE <<x>> \o g[m.parent[x]]
           P(n) == \E g : \A i \in 1..n : g[m.order[i]] = body(g, m.order[i])
           U == {n \in 0..N : P(n)}
<1>1. N \in Nat
  BY OrderedTree
<1>2. 0 \in U
  <2>1. P(0)
    OBVIOUS
  <2>. QED BY <1>1, <2>1
<1>3. ASSUME NEW n \in 0..(N-1), n \in U PROVE n+1 \in U
  <2>0. P(n)
    <3> HIDE DEF P
    <3>. QED BY <1>3
  <2>1. PICK g : \A i \in 1..n : g[m.order[i]] = body(g, m.order[i])
    BY <2>0
  <2> DEFINE last == m.order[n+1]
             h == [x \in {m.order[i] : i \in 1..(n+1)} |-> IF x = last THEN body(g, x) ELSE g[x]]
  <2>2. n+1 \in 1..N /\ n+1 \in 0..N
    BY <1>1
  <2>3. \A i \in 1..n : i \in 1..N /\ m.order[i] # last
    BY <1>1, <2>2, OrderedTree
  <2>4. \A i \in 1..n : h[m.order[i]] = g[m.order[i]]
    BY <2>3
  <2>5. ASSUME NEW i \in 1..(n+1) PROVE h[m.order[i]] = body(h, m.order[i])
    <3>1. i \in 1..N
      BY <1>1, <2>2
    <3>2. h[m.order[i]] = body(g, m.order[i])
      <4>1. CASE i = n+1
        BY <4>1
      <4>2. CASE i # n+1
        <5>1. i \in 1..n
          BY <4>2
        <5>. QED BY <5>1, <2>1, <2>4
      <4>. QED BY <4>1, <4>2
    <3>3. CASE m.parent[m.order[i]] = None
      <4> HIDE DEF h
      <4>. QED BY <3>2, <3>3
    <3>4. CASE m.parent[m.order[i]] # None
      <4>1. PICK j \in 1..(i-1) : m.parent[m.order[i]] = m.order[j]
        BY <3>1, <3>4, OrderedTree
      <4>2. j \in 1..n
        OBVIOUS
      <4> HIDE DEF h
      <4>3. h[m.parent[m.order[i]]] = g[m.parent[m.order[i]]]
        BY <2>4, <4>1, <4>2
      <4>. QED BY <3>2, <3>4, <4>3
    <3>. QED BY <3>3, <3>4
  <2>6. P(n+1)
    <3> HIDE DEF h
    <3>. QED BY <2>5
  <2> HIDE DEF P
  <2>. QED BY <2>2, <2>6
<1>4. P(N)
  <2>1. N \in 0..N
    BY <1>1
  <2>2. N \in U
    <3> HIDE DEF U
    <3>. QED BY <1>1, <1>2, <1>3, <2>1, InductionUpTo
  <2> HIDE DEF P
  <2>. QED BY <2>2
<1>5. \E f : f = [x \in S |-> body(f, x)]
  <2>1. PICK g : \A i \in 1..N : g[m.order[i]] = body(g, m.order[i])
    BY <1>4
  <2> DEFINE h == [x \in S |-> g[x]]
  <2>2. ASSUME NEW x \in S PROVE h[x] = body(h, x)
    <3>1. g[x] = body(g, x)
      <4>1. PICK i \in 1..N : x = m.order[i]
        BY OrderedTree
      <4> HIDE DEF body
      <4>. QED BY <2>1, <4>1
    <3>2. CASE m.parent[x] = None
      BY <3>1, <3>2
    <3>3. CASE m.parent[x] # None
      <4>1. m.parent[x] \in S
        BY <3>3, OrderedTree
      <4>. QED BY <3>1, <3>3, <4>1
    <3>. QED BY <3>2, <3>3
  <2>3. h = [x \in S |-> h[x]]
    OBVIOUS
  <2>4. h = [x \in S |-> body(h, x)]
    <3> HIDE DEF h, body
    <3>. QED BY <2>2, <2>3
  <2> HIDE DEF h
  <2>. QED BY <2>4
<1> DEFINE up == CHOOSE f : f = [x \in S |-> body(f, x)]
<1>6. up = [x \in S |-> body(up, x)]
  <2> HIDE DEF body
  <2>. QED BY <1>5
<1>7. \A s \in S : Chain(m, s) = up[s]
  BY DEF Chain
<1>8. \A s \in S : up[s] = body(up, s)
  <2> DEFINE R == [x \in S |-> body(up, x)]
  <2> HIDE DEF up, body
  <2>1. \A s \in S : R[s] = body(up, s)
    OBVIOUS
  <2>2. up = R
    BY <1>6
  <2> HIDE DEF R
  <2>. QED BY <2>1, <2>2
<1> HIDE DEF up
<1>. QED BY <1>7, <1>8, OrderedTree

\* A chain begins with the state, and goes on with the chain of its parent.
LEMMA ChainShape ==
  ASSUME NEW m, WellFormed(m), NEW s \in StateIDs(m)
  PROVE  /\ Chain(m, s) \in Seq(StateIDs(m)) /\ Chain(m, s) # <<>>
         /\ Len(Chain(m, s)) \in Nat \ {0} /\ DOMAIN Chain(m, s) = 1..Len(Chain(m, s))
         /\ Chain(m, s)[1] = s
         /\ m.parent[s] = None => Len(Chain(m, s)) = 1 /\ Tail(Chain(m, s)) = <<>>
         /\ m.parent[s] # None =>
                /\ m.parent[s] \in StateIDs(m)
                /\ Tail(Chain(m, s)) = Chain(m, m.parent[s])
                /\ Len(Chain(m, s)) = Len(Chain(m, m.parent[s])) + 1
                /\ \A i \in 1..Len(Chain(m, m.parent[s])) :
                        Chain(m, s)[i+1] = Chain(m, m.parent[s])[i]
<1> DEFINE S == StateIDs(m)
           T == {x \in S : Chain(m, x) \in Seq(S)}
<1>1. ASSUME NEW x \in S, m.parent[x] = None \/ m.parent[x] \in T PROVE x \in T
  <2>1. CASE m.parent[x] = None
    <3>1. Chain(m, x) = <<x>>
      BY <2>1, ChainUnfolds
    <3>2. <<x>> \in Seq(S)
      OBVIOUS
    <3>. QED BY <3>1, <3>2
  <2>2. CASE m.parent[x] # None
    <3>1. Chain(m, x) = <<x>> \o Chain(m, m.parent[x])
      BY <2>2, ChainUnfolds
    <3>2. Chain(m, m.parent[x]) \in Seq(S) /\ <<x>> \in Seq(S)
      BY <1>1, <2>2
    <3>3. Chain(m, x) \in Seq(S)
      BY <3>1, <3>2, ConcatProperties
    <3>. QED BY <3>3
  <2>. QED BY <2>1, <2>2
<1>2. \A x \in S : x \in T
  <2> HIDE DEF T
  <2>. QED BY <1>1, InductionDown
<1>3. Chain(m, s) \in Seq(S)
  BY <1>2
<1>4. CASE m.parent[s] = None
  <2>1. Chain(m, s) = <<s>>
    BY <1>4, ChainUnfolds
  <2>2. Len(<<s>>) = 1 /\ Tail(<<s>>) = <<>> /\ <<s>>[1] = s /\ <<s>> # <<>> /\ DOMAIN <<s>> = 1..1
    OBVIOUS
  <2>. QED BY <1>3, <1>4, <2>1, <2>2
<1>5. CASE m.parent[s] # None
  <2> DEFINE c == Chain(m, s)
             d == Chain(m, m.parent[s])
  <2>1. c = <<s>> \o d
    BY <1>5, ChainUnfolds
  <2>2. m.parent[s] \in S
    BY <1>5, OrderedTree
  <2>3. d \in Seq(S) /\ <<s>> \in Seq(S) /\ Len(<<s>>) = 1 /\ <<s>>[1] = s
    BY <1>2, <2>2
  <2>4. Len(d) \in Nat
    BY <2>3
  <2>5. /\ Len(c) = 1 + Len(d)
        /\ \A i \in 1..(1 + Len(d)) : c[i] = IF i <= 1 THEN <<s>>[i] ELSE d[i - 1]
    <3> HIDE DEF c, d
    <3>. QED BY <2>1, <2>3, ConcatProperties
  <2> HIDE DEF c, d
  <2>6. c[1] = s
    BY <2>3, <2>4, <2>5
  <2>7. ASSUME NEW i \in 1..Len(d) PROVE c[i+1] = d[i]
    <3>1. i+1 \in 1..(1 + Len(d)) /\ ~(i+1 <= 1) /\ (i+1) - 1 = i
      BY <2>4
    <3>. QED BY <2>5, <3>1
  <2>8. c \in Seq(S) /\ c # <<>>
    BY <1>3, <2>4, <2>5 DEF c
  <2>9. Tail(c) = d
    <3>1. /\ Tail(c) \in Seq(S) /\ Len(Tail(c)) = Len(c)-1
          /\ \A i \in 1..Len(Tail(c)) : Tail(c)[i] = c[i+1]
      BY <2>8, HeadTailProperties
    <3>2. Len(Tail(c)) = Len(d)
      BY <2>4, <2>5, <3>1
    <3>. QED BY <2>3, <2>7, <3>1, <3>2, SeqEqual
  <2>10. Len(c) \in Nat \ {0} /\ DOMAIN c = 1..Len(c)
    BY <2>4, <2>5, <2>8
  <2>. QED BY <1>3, <1>5, <2>2, <2>4, <2>5, <2>6, <2>7, <2>8, <2>9, <2>10 DEF c, d
<1>. QED BY <1>4, <1>5

\* The states on a chain: the state itself and those on the chain of its parent.
LEMMA WithinUnfolds ==
  ASSUME NEW m, WellFormed(m), NEW s \in StateIDs(m)
  PROVE  /\ \A q : Within(m, s, q) <=> q = s \/ (m.parent[s] # None /\ Within(m, m.parent[s], q))
         /\ \A q : IsDescendantOf(m, s, q) <=> m.parent[s] # None /\ Within(m, m.parent[s], q)
         /\ \A q : Within(m, s, q) => q \in StateIDs(m)
<1> DEFINE c == Chain(m, s)
<1>1. c \in Seq(StateIDs(m)) /\ Len(c) \in Nat \ {0} /\ DOMAIN c = 1..Len(c) /\ c[1] = s
  BY ChainShape
<1>2. \A q : Within(m, s, q) <=> \E i \in 1..Len(c) : c[i] = q
  <2> HIDE DEF c
  <2>. QED BY <1>1 DEF Within, ToSet, c
<1>3. ASSUME NEW q, Within(m, s, q) PROVE q \in StateIDs(m)
  <2> HIDE DEF c
  <2>. QED BY <1>1, <1>2, <1>3
<1>4. CASE m.parent[s] = None
  <2>1. Len(c) = 1 /\ Tail(c) = <<>>
    BY <1>4, ChainShape
  <2>2. \A q : Within(m, s, q) <=> q = s
    <3> HIDE DEF c
    <3>. QED BY <1>1, <1>2, <2>1
  <2>3. \A q : ~IsDescendantOf(m, s, q)
    BY <2>1 DEF IsDescendantOf, Ancestors, ToSet
  <2>. QED BY <1>3, <1>4, <2>2, <2>3
<1>5. CASE m.parent[s] # None
  <2> DEFINE d == Chain(m, m.parent[s])
  <2>1. /\ Tail(c) = d /\ Len(c) = Len(d) + 1
        /\ \A i \in 1..Len(d) : c[i+1] = d[i]
    <3>1. /\ Tail(Chain(m, s)) = Chain(m, m.parent[s])
          /\ Len(Chain(m, s)) = Len(Chain(m, m.parent[s])) + 1
          /\ \A i \in 1..Len(Chain(m, m.parent[s])) : Chain(m, s)[i+1] = Chain(m, m.parent[s])[i]
      <4>. HIDE DEF c, d
      <4>. QED BY <1>5, ChainShape
    <3>. QED BY <3>1
  <2>2. Len(d) \in Nat /\ DOMAIN d = 1..Len(d)
    BY <1>5, ChainShape
  <2>3. \A q : Within(m, m.parent[s], q) <=> \E i \in 1..Len(d) : d[i] = q
    <3> HIDE DEF d
    <3>. QED BY <2>2 DEF Within, ToSet, d
  <2>4. \A q : IsDescendantOf(m, s, q) <=> Within(m, m.parent[s], q)
    BY <2>1 DEF IsDescendantOf, Ancestors, Within
  <2> HIDE DEF c, d
  <2>5. \A i \in 1..Len(c) : i = 1 \/ (i - 1 \in 1..Len(d) /\ (i-1) + 1 = i)
    BY <2>1, <2>2
  <2>6. \A i \in 1..Len(d) : i + 1 \in 1..Len(c)
    BY <2>1, <2>2
  <2>7. 1 \in 1..Len(c)
    BY <1>1
  <2>8. ASSUME NEW q PROVE Within(m, s, q) <=> q = s \/ Within(m, m.parent[s], q)
    <3>1. ASSUME Within(m, s, q) PROVE q = s \/ Within(m, m.parent[s], q)
      <4>1. PICK i \in 1..Len(c) : c[i] = q
        BY <1>2, <3>1
      <4>2. CASE i = 1
        BY <1>1, <4>1, <4>2
      <4>3. CASE i # 1
        <5>1. i - 1 \in 1..Len(d) /\ c[i] = d[i-1]
          BY <2>1, <2>5, <4>3
        <5>. QED BY <2>3, <4>1, <5>1
      <4>. QED BY <4>2, <4>3
    <3>2. ASSUME Within(m, m.parent[s], q) PROVE Within(m, s, q)
      BY <1>2, <2>1, <2>3, <2>6, <3>2
    <3>3. Within(m, s, s)
      BY <1>1, <1>2, <2>7
    <3>. QED BY <3>1, <3>2, <3>3
  <2>. QED BY <1>3, <1>5, <2>4, <2>8
<1>. QED BY <1>4, <1>5

\* Within is a partial order in which the states above a state are a chain.
LEMMA WithinIsTree ==
  ASSUME NEW m, WellFormed(m)
  PROVE  /\ \A s \in StateIDs(m) : Within(m, s, s)
         /\ \A s, p, q \in StateIDs(m) : Within(m, s, p) /\ Within(m, p, q) => Within(m, s, q)
         /\ \A s, p, q \in StateIDs(m) :
                Within(m, s, p) /\ Within(m, s, q) => Within(m, p, q) \/ Within(m, q, p)
         /\ \A s, q \in StateIDs(m) : Within(m, s, q) /\ Within(m, q, s) => s = q
         /\ \A s, q \in StateIDs(m) : IsDescendantOf(m, s, q) <=> Within(m, s, q) /\ s # q
         /\ \A s, q \in StateIDs(m) :
                Within(m, s, q) /\ s # q => Len(Chain(m, q)) < Len(Chain(m, s))
<1> DEFINE S == StateIDs(m)
<1>1. \A s \in S : Within(m, s, s)
  BY WithinUnfolds
<1>2. ASSUME NEW p \in S, NEW q \in S, Within(m, p, q)
      PROVE  \A s \in S : Within(m, s, p) => Within(m, s, q)
  <2> DEFINE T == {s \in S : Within(m, s, p) => Within(m, s, q)}
  <2>1. ASSUME NEW s \in S, m.parent[s] = None \/ m.parent[s] \in T PROVE s \in T
    <3>1. CASE s = p
      BY <1>2, <3>1
    <3>2. CASE s # p
      BY <2>1, <3>2, WithinUnfolds
    <3>. QED BY <3>1, <3>2
  <2>2. \A s \in S : s \in T
    <3> HIDE DEF T
    <3>. QED BY <2>1, InductionDown
  <2>. QED BY <2>2
<1>3. ASSUME NEW p \in S, NEW q \in S
      PROVE  \A s \in S : Within(m, s, p) /\ Within(m, s, q) => Within(m, p, q) \/ Within(m, q, p)
  <2> DEFINE T == {s \in S : Within(m, s, p) /\ Within(m, s, q) => Within(m, p, q) \/ Within(m, q, p)}
  <2>1. ASSUME NEW s \in S, m.parent[s] = None \/ m.parent[s] \in T PROVE s \in T
    BY <2>1, WithinUnfolds
  <2>2. \A s \in S : s \in T
    <3> HIDE DEF T
    <3>. QED BY <2>1, InductionDown
  <2>. QED BY <2>2
<1>4. ASSUME NEW q \in S
      PROVE  \A s \in S : Within(m, s, q) /\ s # q => Len(Chain(m, q)) < Len(Chain(m, s))
  <2> DEFINE T == {s \in S : Within(m, s, q) /\ s # q => Len(Chain(m, q)) < Len(Chain(m, s))}
  <2>1. ASSUME NEW s \in S, m.parent[s] = None \/ m.parent[s] \in T PROVE s \in T
    <3> SUFFICES ASSUME Within(m, s, q), s # q PROVE Len(Chain(m, q)) < Len(Chain(m, s))
      OBVIOUS
    <3>1. m.parent[s] # None /\ Within(m, m.parent[s], q)
      BY WithinUnfolds
    <3>2. m.parent[s] \in S /\ Len(Chain(m, s)) = Len(Chain(m, m.parent[s])) + 1
      BY <3>1, ChainShape
    <3>3. Len(Chain(m, q)) \in Nat /\ Len(Chain(m, m.parent[s])) \in Nat
      BY <3>2, ChainShape
    <3>4. m.parent[s] = q \/ Len(Chain(m, q)) < Len(Chain(m, m.parent[s]))
      BY <2>1, <3>1
    <3>. QED BY <3>2, <3>3, <3>4
  <2>2. \A s \in S : s \in T
    <3> HIDE DEF T
    <3>. QED BY <2>1, InductionDown
  <2>. QED BY <2>2
<1>5. ASSUME NEW s \in S, NEW q \in S, Within(m, s, q), Within(m, q, s) PROVE s = q
  <2> SUFFICES ASSUME s # q PROVE FALSE
    OBVIOUS
  <2>1. Len(Chain(m, q)) < Len(Chain(m, s)) /\ Len(Chain(m, s)) < Len(Chain(m, q))
    BY <1>4, <1>5
  <2>2. Len(Chain(m, q)) \in Nat /\ Len(Chain(m, s)) \in Nat
    BY ChainShape
  <2>. QED BY <2>1, <2>2
<1>6. ASSUME NEW s \in S, NEW q \in S PROVE IsDescendantOf(m, s, q) <=> Within(m, s, q) /\ s # q
  <2>1. ASSUME m.parent[s] # None, Within(m, m.parent[s], s) PROVE FALSE
    <3>1. m.parent[s] \in S /\ Len(Chain(m, s)) = Len(Chain(m, m.parent[s])) + 1
      BY <2>1, ChainShape
    <3>2. Len(Chain(m, s)) \in Nat /\ Len(Chain(m, m.parent[s])) \in Nat
      BY <3>1, ChainShape
    <3>3. m.parent[s] = s \/ Len(Chain(m, s)) < Len(Chain(m, m.parent[s]))
      BY <1>4, <2>1, <3>1
    <3>. QED BY <3>1, <3>2, <3>3
  <2>. QED BY <2>1, WithinUnfolds
<1>. QED BY <1>1, <1>2, <1>3, <1>4, <1>5, <1>6

-----------------------------------------------------------------------------
(* Sequences of sequences, and the first element that passes a test.       *)

\* The elements of FlattenSeq(ss) are those of the sequences of ss.
LEMMA FlattenElements ==
  ASSUME NEW S, NEW n \in Nat, NEW ss \in [1..n -> Seq(S)]
  PROVE  /\ FlattenSeq(ss) \in Seq(S)
         /\ \A x : x \in ToSet(FlattenSeq(ss)) <=> \E i \in 1..n : x \in ToSet(ss[i])
<1> DEFINE flat == FlattenSeq(ss)
<1>1. flat \in Seq(S)
  BY FlattenLayout
<1>2. PICK start : Layout(flat, ss, n, start)
  BY FlattenLayout
<1>3. \A x : x \in ToSet(flat) <=> \E k \in 1..Len(flat) : x = flat[k]
  <2> HIDE DEF flat
  <2>. QED BY <1>1 DEF ToSet
<1>4. \A i \in 1..n : ss[i] \in Seq(S)
  OBVIOUS
<1>5. \A i \in 1..n : Len(ss[i]) \in Nat /\ \A x : x \in ToSet(ss[i]) <=> \E o \in 1..Len(ss[i]) : x = ss[i][o]
  BY <1>4 DEF ToSet
<1>6. Len(flat) \in Nat
  BY <1>1
<1> HIDE DEF flat
<1>7. ASSUME NEW x, x \in ToSet(flat) PROVE \E i \in 1..n : x \in ToSet(ss[i])
  <2>1. PICK k \in 1..Len(flat) : x = flat[k]
    BY <1>3, <1>7
  <2>2. PICK i \in 1..n : \E o \in 1..Len(ss[i]) : k = start[i] + o
    BY <1>2 DEF Layout
  <2>3. PICK o \in 1..Len(ss[i]) : k = start[i] + o
    BY <2>2
  <2>4. flat[k] = ss[i][o]
    BY <1>2, <2>3 DEF Layout
  <2>. QED BY <1>5, <2>1, <2>4
<1>8. ASSUME NEW i \in 1..n, NEW x, x \in ToSet(ss[i]) PROVE x \in ToSet(flat)
  <2>1. PICK o \in 1..Len(ss[i]) : x = ss[i][o]
    BY <1>5, <1>8
  <2>2. flat[start[i] + o] = ss[i][o]
    BY <1>2 DEF Layout
  <2>3. start[i] \in Nat /\ start[i] + Len(ss[i]) <= Len(flat)
    BY <1>2 DEF Layout
  <2>4. start[i] + o \in 1..Len(flat)
    BY <1>5, <1>6, <2>3
  <2>. QED BY <1>3, <2>1, <2>2, <2>4
<1>. QED BY <1>1, <1>7, <1>8 DEF flat

LEMMA MinIsLeast ==
  ASSUME NEW I, I \subseteq Nat, I # {}
  PROVE  Min(I) \in I /\ \A k \in I : Min(I) <= k
<1>1. \E n \in I : \A k \in I : n <= k
  BY LeastNat
<1>. QED BY <1>1 DEF Min

\* An element of a sequence occurs in it a first time.
LEMMA FirstOccurrence ==
  ASSUME NEW T, NEW seq \in Seq(T), NEW x \in ToSet(seq)
  PROVE  \E j \in 1..Len(seq) : seq[j] = x /\ \A k \in 1..(j-1) : seq[k] # x
<1> DEFINE I == {j \in 1..Len(seq) : seq[j] = x}
<1>1. I # {} /\ I \subseteq Nat
  BY DEF ToSet
<1>2. PICK j \in I : \A k \in I : j <= k
  <2> HIDE DEF I
  <2>. QED BY <1>1, LeastNat
<1>3. Len(seq) \in Nat
  OBVIOUS
<1>4. \A k \in 1..(j-1) : k \in 1..Len(seq) /\ ~(j <= k)
  BY <1>3
<1>. QED BY <1>2, <1>4

\* ForEachOnce, of a function.
OnceOf(seq, f) ==
  FlattenSeq([i \in DOMAIN seq |->
    IF \E j \in 1..(i-1) : seq[j] = seq[i] THEN <<>> ELSE f[seq[i]]])

LEMMA OnceElements ==
  ASSUME NEW T, NEW S, NEW seq \in Seq(T), NEW f \in [T -> Seq(S)]
  PROVE  /\ OnceOf(seq, f) \in Seq(S)
         /\ \A x : x \in ToSet(OnceOf(seq, f)) <=> \E y \in ToSet(seq) : x \in ToSet(f[y])
<1> DEFINE n == Len(seq)
           ss == [i \in DOMAIN seq |->
                    IF \E j \in 1..(i-1) : seq[j] = seq[i] THEN <<>> ELSE f[seq[i]]]
<1>1. n \in Nat /\ DOMAIN seq = 1..n /\ \A i \in 1..n : seq[i] \in T
  OBVIOUS
<1>2. ss \in [1..n -> Seq(S)]
  <2>1. <<>> \in Seq(S)
    OBVIOUS
  <2>. QED BY <1>1, <2>1
<1>3. /\ FlattenSeq(ss) \in Seq(S)
      /\ \A x : x \in ToSet(FlattenSeq(ss)) <=> \E i \in 1..n : x \in ToSet(ss[i])
  <2> HIDE DEF ss, n
  <2>. QED BY <1>1, <1>2, FlattenElements
<1>4. \A i \in 1..n : ss[i] = IF \E j \in 1..(i-1) : seq[j] = seq[i] THEN <<>> ELSE f[seq[i]]
  BY <1>1
<1>5. ASSUME NEW x, NEW i \in 1..n, x \in ToSet(ss[i]) PROVE \E y \in ToSet(seq) : x \in ToSet(f[y])
  <2>1. ss[i] # <<>>
    <3>1. x \notin ToSet(<<>>)
      BY DEF ToSet
    <3>. QED BY <1>5, <3>1
  <2> HIDE DEF ss
  <2>2. ss[i] = f[seq[i]]
    BY <2>1, <1>4
  <2>3. seq[i] \in ToSet(seq)
    BY <1>1 DEF ToSet
  <2>. QED BY <1>5, <2>2, <2>3
<1>6. ASSUME NEW x, NEW y \in ToSet(seq), x \in ToSet(f[y]) PROVE \E i \in 1..n : x \in ToSet(ss[i])
  <2>1. PICK i \in 1..n : seq[i] = y /\ \A k \in 1..(i-1) : seq[k] # y
    BY FirstOccurrence
  <2> HIDE DEF ss, n
  <2>2. ss[i] = f[seq[i]]
    BY <1>4, <2>1
  <2>. QED BY <1>6, <2>1, <2>2
<1>7. OnceOf(seq, f) = FlattenSeq(ss)
  BY DEF OnceOf
<1> HIDE DEF ss, n
<1>. QED BY <1>3, <1>5, <1>6, <1>7

\* Has and Contains.
LEMMA HasIs ==
  ASSUME NEW S, NEW seq \in Seq(S), NEW s
  PROVE  /\ Contains(seq, s) <=> s \in ToSet(seq)
         /\ Has(seq, s) = IF s \in ToSet(seq) THEN 1 ELSE 0
<1>1. Contains(seq, s) <=> s \in ToSet(seq)
  BY DEF Contains, ToSet
<1>. QED BY <1>1 DEF Has

-----------------------------------------------------------------------------
(* Children and the leaves below a state.                                  *)

LEMMA ToSetSmall ==
  ToSet(<<>>) = {} /\ \A x : ToSet(<<x>>) = {x}
BY DEF ToSet

\* The elements of Filter(seq, .), when T is the set of those that pass.
LEMMA FilterElements ==
  ASSUME NEW S, NEW seq \in Seq(S), NEW T
  PROVE  LET flat == FlattenSeq([i \in DOMAIN seq |-> IF seq[i] \in T THEN <<seq[i]>> ELSE <<>>])
         IN  flat \in Seq(S) /\ ToSet(flat) = ToSet(seq) \cap T
<1> DEFINE n == Len(seq)
           ss == [i \in DOMAIN seq |-> IF seq[i] \in T THEN <<seq[i]>> ELSE <<>>]
<1>1. n \in Nat /\ DOMAIN seq = 1..n /\ \A i \in 1..n : seq[i] \in S
  OBVIOUS
<1>2. ss \in [1..n -> Seq(S)]
  <2>1. \A c \in S : <<c>> \in Seq(S)
    OBVIOUS
  <2>2. <<>> \in Seq(S)
    OBVIOUS
  <2>. QED BY <1>1, <2>1, <2>2
<1>3. \A i \in 1..n : ss[i] = IF seq[i] \in T THEN <<seq[i]>> ELSE <<>>
  BY <1>1
<1>4. /\ FlattenSeq(ss) \in Seq(S)
      /\ \A x : x \in ToSet(FlattenSeq(ss)) <=> \E i \in 1..n : x \in ToSet(ss[i])
  <2> HIDE DEF ss, n
  <2>. QED BY <1>1, <1>2, FlattenElements
<1>5. \A x : x \in ToSet(seq) <=> \E i \in 1..n : x = seq[i]
  BY <1>1 DEF ToSet
<1> HIDE DEF ss, n
<1>6. \A i \in 1..n : ToSet(ss[i]) = IF seq[i] \in T THEN {seq[i]} ELSE {}
  BY <1>3, ToSetSmall
<1>7. ASSUME NEW x \in ToSet(FlattenSeq(ss)) PROVE x \in ToSet(seq) \cap T
  <2>1. PICK i \in 1..n : x \in ToSet(ss[i])
    BY <1>4
  <2>2. seq[i] \in T /\ x = seq[i]
    BY <1>6, <2>1
  <2>. QED BY <1>5, <2>2
<1>8. ASSUME NEW x \in ToSet(seq) \cap T PROVE x \in ToSet(FlattenSeq(ss))
  <2>1. PICK i \in 1..n : x = seq[i]
    BY <1>5
  <2>2. x \in ToSet(ss[i])
    BY <1>6, <2>1
  <2>. QED BY <1>4, <2>2
<1>9. ToSet(FlattenSeq(ss)) = ToSet(seq) \cap T
  BY <1>7, <1>8
<1>. QED BY <1>4, <1>9 DEF ss

LEMMA ChildrenInOrder ==
  ASSUME NEW m, m.order \in Seq(StateIDs(m)), NEW s
  PROVE  /\ Children(m, s) \in Seq(StateIDs(m))
         /\ ToSet(Children(m, s)) = {c \in StateIDs(m) : m.parent[c] = s}
<1> DEFINE T == {c \in StateIDs(m) : m.parent[c] = s}
           ss == [i \in DOMAIN m.order |-> IF m.order[i] \in T THEN <<m.order[i]>> ELSE <<>>]
<1>1. m.order \in Seq(StateIDs(m)) /\ ToSet(m.order) = StateIDs(m)
  BY DEF StateIDs
<1>2. \A i \in DOMAIN m.order : m.order[i] \in T <=> m.parent[m.order[i]] = s
  BY <1>1
<1>3. ss = [i \in DOMAIN m.order |-> IF m.parent[m.order[i]] = s THEN <<m.order[i]>> ELSE <<>>]
  <2> HIDE DEF T
  <2>. QED BY <1>2
<1>4. Children(m, s) = FlattenSeq(ss)
  <2> HIDE DEF ss
  <2>. QED BY <1>3 DEF Children, Filter
<1>5. FlattenSeq(ss) \in Seq(StateIDs(m)) /\ ToSet(FlattenSeq(ss)) = ToSet(m.order) \cap T
  <2> HIDE DEF T
  <2>. QED BY ONLY <1>1, FilterElements, Zenon
<1> HIDE DEF ss
<1>. QED BY <1>1, <1>4, <1>5

LEMMA ChildrenAre ==
  ASSUME NEW m, WellFormed(m), NEW s
  PROVE  /\ Children(m, s) \in Seq(StateIDs(m))
         /\ ToSet(Children(m, s)) = {c \in StateIDs(m) : m.parent[c] = s}
<1>1. m.order \in Seq(StateIDs(m))
  BY DEF WellFormed
<1>. QED BY <1>1, ChildrenInOrder

\* The active states: those that a leaf is within.
LEMMA ConfigurationIs ==
  ASSUME NEW m, WellFormed(m), NEW ls \in Seq(StateIDs(m))
  PROVE  /\ ConfigurationOf(m, ls) \in Seq(StateIDs(m))
         /\ ToSet(ConfigurationOf(m, ls)) = {s \in StateIDs(m) : \E l \in ToSet(ls) : Within(m, l, s)}
<1> DEFINE T == {s \in StateIDs(m) : \E l \in ToSet(ls) : Within(m, l, s)}
           active(s) == \E i \in DOMAIN ls : s \in ToSet(Chain(m, ls[i]))
           ss == [i \in DOMAIN m.order |-> IF m.order[i] \in T THEN <<m.order[i]>> ELSE <<>>]
<1>1. m.order \in Seq(StateIDs(m)) /\ ToSet(m.order) = StateIDs(m)
  <2>1. m.order \in Seq(StateIDs(m))
    BY DEF WellFormed
  <2>. QED BY <2>1 DEF StateIDs
<1>2. \A i \in DOMAIN m.order : m.order[i] \in T <=> active(m.order[i])
  BY <1>1 DEF ToSet, Within
<1>3. ss = [i \in DOMAIN m.order |-> IF active(m.order[i]) THEN <<m.order[i]>> ELSE <<>>]
  <2> HIDE DEF T, active
  <2>. QED BY <1>2
<1>4. ConfigurationOf(m, ls) = FlattenSeq(ss)
  <2> HIDE DEF ss
  <2>. QED BY <1>3 DEF ConfigurationOf, Filter
<1>5. FlattenSeq(ss) \in Seq(StateIDs(m)) /\ ToSet(FlattenSeq(ss)) = ToSet(m.order) \cap T
  <2> HIDE DEF T
  <2>. QED BY ONLY <1>1, FilterElements, Zenon
<1> HIDE DEF ss
<1>. QED BY <1>1, <1>4, <1>5

\* A child comes later in the order than its parent.
LEMMA ChildrenLater ==
  ASSUME NEW m, WellFormed(m), NEW i \in 1..Len(m.order), NEW c \in StateIDs(m),
         m.parent[c] = m.order[i]
  PROVE  \E j \in (i+1)..Len(m.order) : c = m.order[j]
<1> DEFINE N == Len(m.order)
<1>0. N \in Nat
  BY OrderedTree
<1>1. PICK j \in 1..N : c = m.order[j]
  BY OrderedTree
<1>2. m.parent[m.order[j]] # None
  BY <1>1, OrderedTree
<1>3. PICK k \in 1..(j-1) : m.parent[m.order[j]] = m.order[k]
  BY <1>2, OrderedTree
<1>4. k \in 1..N /\ k < j
  BY <1>0
<1>5. k = i
  BY <1>1, <1>3, <1>4, OrderedTree
<1>6. j \in (i+1)..N
  BY <1>0, <1>4, <1>5
<1>. QED BY <1>1, <1>6

FirstChild(m, s) ==
  Head(Children(m, s)) \in StateIDs(m) /\ m.parent[Head(Children(m, s))] = s

\* A compound state has a first child, and an OR state an initial one.
LEMMA CompoundHasChildren ==
  ASSUME NEW m, WellFormed(m), NEW s \in StateIDs(m), IsCompound(m, s)
  PROVE  /\ Children(m, s) # <<>> /\ FirstChild(m, s)
         /\ s \notin m.parallel => m.initial[s] \in StateIDs(m) /\ m.parent[m.initial[s]] = s
<1>1. /\ Children(m, s) \in Seq(StateIDs(m))
      /\ ToSet(Children(m, s)) = {c \in StateIDs(m) : m.parent[c] = s}
  BY ChildrenAre
<1>2. ToSet(Children(m, s)) # {}
  BY <1>1 DEF IsCompound
<1>3. Children(m, s) # <<>>
  BY <1>2, ToSetSmall
<1>4. Head(Children(m, s)) \in ToSet(Children(m, s))
  BY <1>1, <1>3 DEF ToSet
<1>5. s \notin m.parallel => m.initial[s] \in ToSet(Children(m, s))
  BY <1>2 DEF WellFormed
<1>. QED BY <1>1, <1>3, <1>4, <1>5 DEF FirstChild

\* LeafTarget is what its recursive definition says.
LEMMA LeafTargetUnfolds ==
  ASSUME NEW m, WellFormed(m)
  PROVE  \A s \in StateIDs(m) :
            LeafTarget(m, s) = IF ~IsCompound(m, s) THEN s
            ELSE IF s \in m.parallel THEN LeafTarget(m, Head(Children(m, s)))
            ELSE LeafTarget(m, m.initial[s])
<1> DEFINE N == Len(m.order)
           S == StateIDs(m)
           body(g, x) == IF ~IsCompound(m, x) THEN x
                         ELSE IF x \in m.parallel THEN g[Head(Children(m, x))]
                         ELSE g[m.initial[x]]
           P(n) == \E g : \A i \in (N-n+1)..N : g[m.order[i]] = body(g, m.order[i])
           U == {n \in 0..N : P(n)}
<1>1. N \in Nat
  BY OrderedTree
<1>2. 0 \in U
  <2>1. P(0)
    BY <1>1
  <2>. QED BY <1>1, <2>1
\* body(g, x) looks at g for the children of x alone.
<1>3. ASSUME NEW g, NEW h, NEW x \in S, \A c \in S : m.parent[c] = x => g[c] = h[c]
      PROVE  body(g, x) = body(h, x)
  <2>1. CASE ~IsCompound(m, x)
    BY <2>1
  <2>2. CASE IsCompound(m, x)
    <3>1. FirstChild(m, x) /\ (x \notin m.parallel => m.initial[x] \in S /\ m.parent[m.initial[x]] = x)
      BY <2>2, CompoundHasChildren
    <3>. QED BY <1>3, <2>2, <3>1 DEF FirstChild
  <2>. QED BY <2>1, <2>2
<1>4. ASSUME NEW n \in 0..(N-1), n \in U PROVE n+1 \in U
  <2>0. P(n)
    <3> HIDE DEF P
    <3>. QED BY <1>4
  <2> DEFINE k == N - n
             from == m.order[k]
  <2>1. k \in 1..N /\ N-(n+1)+1 = k /\ N-n+1 = k+1 /\ n+1 \in 0..N
    BY <1>1
  <2>2. PICK g : \A i \in (k+1)..N : g[m.order[i]] = body(g, m.order[i])
    <3> HIDE DEF body, k
    <3>. QED BY <2>0, <2>1
  <2> DEFINE h == [x \in {m.order[i] : i \in k..N} |-> IF x = from THEN body(g, x) ELSE g[x]]
  <2> HIDE DEF k
  <2>3. \A i \in (k+1)..N : i \in 1..N /\ i \in k..N /\ i # k
    BY <1>1, <2>1
  <2>4. \A i \in (k+1)..N : m.order[i] # from
    BY <2>1, <2>3, OrderedTree
  <2>5. \A i \in (k+1)..N : h[m.order[i]] = g[m.order[i]]
    <3> HIDE DEF body
    <3>. QED BY <2>3, <2>4
  <2>6. k \in k..N
    BY <1>1, <2>1
  <2>7. h[from] = body(g, from)
    <3> HIDE DEF body
    <3>. QED BY <2>6
  <2> HIDE DEF h, body
  <2>8. \A i \in k..N : i = k \/ i \in (k+1)..N
    BY <1>1, <2>1
  <2>9. ASSUME NEW i \in k..N PROVE h[m.order[i]] = body(h, m.order[i])
    <3>1. i \in 1..N /\ (i+1)..N \subseteq (k+1)..N
      BY <1>1, <2>1
    <3>2. m.order[i] \in S
      BY <3>1, OrderedTree
    <3>3. \A c \in S : m.parent[c] = m.order[i] => g[c] = h[c]
      <4>1. ASSUME NEW c \in S, m.parent[c] = m.order[i] PROVE g[c] = h[c]
        <5>1. PICK j \in (i+1)..N : c = m.order[j]
          BY <3>1, <4>1, ChildrenLater
        <5>. QED BY <2>5, <3>1, <5>1
      <4>. QED BY <4>1
    <3>4. body(g, m.order[i]) = body(h, m.order[i])
      BY <1>3, <3>2, <3>3
    <3>5. h[m.order[i]] = body(g, m.order[i])
      BY <2>2, <2>5, <2>7, <2>8
    <3>. QED BY <3>4, <3>5
  <2>10. P(n+1)
    BY <2>1, <2>9
  <2> HIDE DEF P
  <2>. QED BY <2>1, <2>10
<1>5. P(N)
  <2>1. N \in 0..N
    BY <1>1
  <2>2. N \in U
    <3> HIDE DEF U
    <3>. QED BY <1>1, <1>2, <1>4, <2>1, InductionUpTo
  <2> HIDE DEF P
  <2>. QED BY <2>2
<1>6. \E f : f = [x \in S |-> body(f, x)]
  <2>0. N-N+1 = 1
    BY <1>1
  <2>1. PICK g : \A i \in 1..N : g[m.order[i]] = body(g, m.order[i])
    <3> HIDE DEF body
    <3>. QED BY <1>5, <2>0
  <2> DEFINE h == [x \in S |-> g[x]]
  <2>2. ASSUME NEW x \in S PROVE h[x] = body(h, x)
    <3> HIDE DEF body
    <3>1. g[x] = body(g, x)
      <4>1. PICK i \in 1..N : x = m.order[i]
        BY OrderedTree
      <4>. QED BY <2>1, <4>1
    <3>2. body(g, x) = body(h, x)
      <4>1. \A c \in S : g[c] = h[c]
        OBVIOUS
      <4> HIDE DEF h
      <4>. QED BY <1>3, <4>1
    <3>3. h[x] = g[x]
      OBVIOUS
    <3> HIDE DEF h
    <3>. QED BY <3>1, <3>2, <3>3
  <2>3. h = [x \in S |-> h[x]]
    OBVIOUS
  <2>4. h = [x \in S |-> body(h, x)]
    <3> HIDE DEF h, body
    <3>. QED BY <2>2, <2>3
  <2> HIDE DEF h
  <2>. QED BY <2>4
<1> DEFINE down == CHOOSE f : f = [x \in S |-> body(f, x)]
<1>7. down = [x \in S |-> body(down, x)]
  <2> HIDE DEF body
  <2>. QED BY <1>6
<1>8. \A s \in S : LeafTarget(m, s) = down[s]
  BY DEF LeafTarget
<1>9. \A s \in S : down[s] = body(down, s)
  <2> DEFINE R == [x \in S |-> body(down, x)]
  <2> HIDE DEF down, body
  <2>1. \A s \in S : R[s] = body(down, s)
    OBVIOUS
  <2>2. down = R
    BY <1>7
  <2> HIDE DEF R
  <2>. QED BY <2>1, <2>2
<1> HIDE DEF down
<1>10. ASSUME NEW s \in S, IsCompound(m, s)
       PROVE  FirstChild(m, s) /\ (s \notin m.parallel => m.initial[s] \in S /\ m.parent[m.initial[s]] = s)
  BY <1>10, CompoundHasChildren
<1>. QED BY <1>8, <1>9, <1>10 DEF FirstChild

\* LeafTargets is what its recursive definition says.
LEMMA LeafTargetsUnfolds ==
  ASSUME NEW m, WellFormed(m)
  PROVE  \A s \in StateIDs(m) :
            LeafTargets(m, s) = IF ~IsCompound(m, s) THEN <<s>>
            ELSE IF s \in m.parallel
                 THEN FlattenSeq([i \in DOMAIN Children(m, s) |-> LeafTargets(m, Children(m, s)[i])])
                 ELSE LeafTargets(m, m.initial[s])
<1> DEFINE N == Len(m.order)
           S == StateIDs(m)
           body(g, x) == IF ~IsCompound(m, x) THEN <<x>>
                         ELSE IF x \in m.parallel
                              THEN LET kids == Children(m, x)
                                   IN  FlattenSeq([i \in DOMAIN kids |-> g[kids[i]]])
                              ELSE g[m.initial[x]]
           P(n) == \E g : \A i \in (N-n+1)..N : g[m.order[i]] = body(g, m.order[i])
           U == {n \in 0..N : P(n)}
<1>1. N \in Nat
  BY OrderedTree
<1>2. 0 \in U
  <2>1. P(0)
    BY <1>1
  <2>. QED BY <1>1, <2>1
\* body(g, x) looks at g for the children of x alone.
<1>3. ASSUME NEW g, NEW h, NEW x \in S, \A c \in S : m.parent[c] = x => g[c] = h[c]
      PROVE  body(g, x) = body(h, x)
  <2>1. CASE ~IsCompound(m, x)
    BY <2>1
  <2>2. CASE IsCompound(m, x) /\ x \in m.parallel
    <3>1. \A i \in DOMAIN Children(m, x) : g[Children(m, x)[i]] = h[Children(m, x)[i]]
      <4>1. \A c \in ToSet(Children(m, x)) : c \in S /\ m.parent[c] = x
        BY ChildrenAre
      <4>. QED BY <1>3, <4>1 DEF ToSet
    <3>2. [i \in DOMAIN Children(m, x) |-> g[Children(m, x)[i]]] = [i \in DOMAIN Children(m, x) |-> h[Children(m, x)[i]]]
      BY <3>1
    <3>. QED BY <2>2, <3>2
  <2>3. CASE IsCompound(m, x) /\ x \notin m.parallel
    <3>1. m.initial[x] \in S /\ m.parent[m.initial[x]] = x
      BY <2>3, CompoundHasChildren
    <3>. QED BY <1>3, <2>3, <3>1
  <2>. QED BY <2>1, <2>2, <2>3
<1>4. ASSUME NEW n \in 0..(N-1), n \in U PROVE n+1 \in U
  <2>0. P(n)
    <3> HIDE DEF P
    <3>. QED BY <1>4
  <2> DEFINE k == N - n
             from == m.order[k]
  <2>1. k \in 1..N /\ N-(n+1)+1 = k /\ N-n+1 = k+1 /\ n+1 \in 0..N
    BY <1>1
  <2>2. PICK g : \A i \in (k+1)..N : g[m.order[i]] = body(g, m.order[i])
    <3> HIDE DEF body, k
    <3>. QED BY <2>0, <2>1
  <2> DEFINE h == [x \in {m.order[i] : i \in k..N} |-> IF x = from THEN body(g, x) ELSE g[x]]
  <2> HIDE DEF k
  <2>3. \A i \in (k+1)..N : i \in 1..N /\ i \in k..N /\ i # k
    BY <1>1, <2>1
  <2>4. \A i \in (k+1)..N : m.order[i] # from
    BY <2>1, <2>3, OrderedTree
  <2>5. \A i \in (k+1)..N : h[m.order[i]] = g[m.order[i]]
    <3> HIDE DEF body
    <3>. QED BY <2>3, <2>4
  <2>6. k \in k..N
    BY <1>1, <2>1
  <2>7. h[from] = body(g, from)
    <3> HIDE DEF body
    <3>. QED BY <2>6
  <2> HIDE DEF h, body
  <2>8. \A i \in k..N : i = k \/ i \in (k+1)..N
    BY <1>1, <2>1
  <2>9. ASSUME NEW i \in k..N PROVE h[m.order[i]] = body(h, m.order[i])
    <3>1. i \in 1..N /\ (i+1)..N \subseteq (k+1)..N
      BY <1>1, <2>1
    <3>2. m.order[i] \in S
      BY <3>1, OrderedTree
    <3>3. \A c \in S : m.parent[c] = m.order[i] => g[c] = h[c]
      <4>1. ASSUME NEW c \in S, m.parent[c] = m.order[i] PROVE g[c] = h[c]
        <5>1. PICK j \in (i+1)..N : c = m.order[j]
          BY <3>1, <4>1, ChildrenLater
        <5>. QED BY <2>5, <3>1, <5>1
      <4>. QED BY <4>1
    <3>4. body(g, m.order[i]) = body(h, m.order[i])
      BY <1>3, <3>2, <3>3
    <3>5. h[m.order[i]] = body(g, m.order[i])
      BY <2>2, <2>5, <2>7, <2>8
    <3>. QED BY <3>4, <3>5
  <2>10. P(n+1)
    BY <2>1, <2>9
  <2> HIDE DEF P
  <2>. QED BY <2>1, <2>10
<1>5. P(N)
  <2>1. N \in 0..N
    BY <1>1
  <2>2. N \in U
    <3> HIDE DEF U
    <3>. QED BY <1>1, <1>2, <1>4, <2>1, InductionUpTo
  <2> HIDE DEF P
  <2>. QED BY <2>2
<1>6. \E f : f = [x \in S |-> body(f, x)]
  <2>0. N-N+1 = 1
    BY <1>1
  <2>1. PICK g : \A i \in 1..N : g[m.order[i]] = body(g, m.order[i])
    <3> HIDE DEF body
    <3>. QED BY <1>5, <2>0
  <2> DEFINE h == [x \in S |-> g[x]]
  <2>2. ASSUME NEW x \in S PROVE h[x] = body(h, x)
    <3> HIDE DEF body
    <3>1. g[x] = body(g, x)
      <4>1. PICK i \in 1..N : x = m.order[i]
        BY OrderedTree
      <4>. QED BY <2>1, <4>1
    <3>2. body(g, x) = body(h, x)
      <4>1. \A c \in S : g[c] = h[c]
        OBVIOUS
      <4> HIDE DEF h
      <4>. QED BY <1>3, <4>1
    <3>3. h[x] = g[x]
      OBVIOUS
    <3> HIDE DEF h
    <3>. QED BY <3>1, <3>2, <3>3
  <2>3. h = [x \in S |-> h[x]]
    OBVIOUS
  <2>4. h = [x \in S |-> body(h, x)]
    <3> HIDE DEF h, body
    <3>. QED BY <2>2, <2>3
  <2> HIDE DEF h
  <2>. QED BY <2>4
<1> DEFINE down == CHOOSE f : f = [x \in S |-> body(f, x)]
<1>7. down = [x \in S |-> body(down, x)]
  <2> HIDE DEF body
  <2>. QED BY <1>6
<1>8. \A s \in S : LeafTargets(m, s) = down[s]
  BY DEF LeafTargets
<1>9. \A s \in S : down[s] = body(down, s)
  <2> DEFINE R == [x \in S |-> body(down, x)]
  <2> HIDE DEF down, body
  <2>1. \A s \in S : R[s] = body(down, s)
    OBVIOUS
  <2>2. down = R
    BY <1>7
  <2> HIDE DEF R
  <2>. QED BY <2>1, <2>2
<1> HIDE DEF down
<1>10. ASSUME NEW s \in S PROVE LeafTargets(m, s) = body(down, s) /\ down[s] = LeafTargets(m, s)
  BY <1>8, <1>9
<1>11. ASSUME NEW s \in S, ~IsCompound(m, s) PROVE LeafTargets(m, s) = <<s>>
  BY <1>10, <1>11
<1>12. ASSUME NEW s \in S, IsCompound(m, s), s \notin m.parallel
       PROVE  LeafTargets(m, s) = LeafTargets(m, m.initial[s])
  <2>1. m.initial[s] \in S
    BY <1>12, CompoundHasChildren
  <2>. QED BY <1>10, <1>12, <2>1
<1>13. ASSUME NEW s \in S, IsCompound(m, s), s \in m.parallel
       PROVE  LeafTargets(m, s) = FlattenSeq([i \in DOMAIN Children(m, s) |-> LeafTargets(m, Children(m, s)[i])])
  <2>1. \A i \in DOMAIN Children(m, s) : down[Children(m, s)[i]] = LeafTargets(m, Children(m, s)[i])
    <3>1. \A c \in ToSet(Children(m, s)) : c \in S
      BY ChildrenAre
    <3>. QED BY <1>10, <3>1 DEF ToSet
  <2>2. [i \in DOMAIN Children(m, s) |-> down[Children(m, s)[i]]] = [i \in DOMAIN Children(m, s) |-> LeafTargets(m, Children(m, s)[i])]
    BY <2>1
  <2>. QED BY <1>10, <1>13, <2>2
<1>. QED BY <1>11, <1>12, <1>13

\* The leaves below a state, as sets.
LEMMA LeafTargetsAre ==
  ASSUME NEW m, WellFormed(m)
  PROVE  /\ \A s \in StateIDs(m) :
                /\ LeafTargets(m, s) \in Seq(StateIDs(m)) /\ LeafTargets(m, s) # <<>>
                /\ \A l \in ToSet(LeafTargets(m, s)) :
                        l \in StateIDs(m) /\ ~IsCompound(m, l) /\ Within(m, l, s)
         /\ \A s \in StateIDs(m) : ~IsCompound(m, s) => ToSet(LeafTargets(m, s)) = {s}
         /\ \A s \in StateIDs(m) : IsCompound(m, s) /\ s \in m.parallel =>
                ToSet(LeafTargets(m, s)) =
                    UNION {ToSet(LeafTargets(m, c)) : c \in {x \in StateIDs(m) : m.parent[x] = s}}
         /\ \A s \in StateIDs(m) : IsCompound(m, s) /\ s \notin m.parallel =>
                /\ m.initial[s] \in StateIDs(m) /\ m.parent[m.initial[s]] = s
                /\ LeafTargets(m, s) = LeafTargets(m, m.initial[s])
<1> DEFINE S == StateIDs(m)
           T == {s \in S : LeafTargets(m, s) \in Seq(S) /\ LeafTargets(m, s) # <<>>}
           V == {s \in S : \A l \in ToSet(LeafTargets(m, s)) :
                                l \in S /\ ~IsCompound(m, l) /\ Within(m, l, s)}
<1>1. ASSUME NEW s \in S, IsCompound(m, s), s \in m.parallel,
             \A c \in S : m.parent[c] = s => LeafTargets(m, c) \in Seq(S)
      PROVE  /\ LeafTargets(m, s) \in Seq(S)
             /\ \A l : l \in ToSet(LeafTargets(m, s)) <=>
                        \E c \in S : m.parent[c] = s /\ l \in ToSet(LeafTargets(m, c))
  <2> DEFINE kids == Children(m, s)
             n == Len(kids)
             ss == [i \in DOMAIN kids |-> LeafTargets(m, kids[i])]
  <2>1. kids \in Seq(S) /\ n \in Nat /\ DOMAIN kids = 1..n
    BY ChildrenAre
  <2>2. ToSet(kids) = {c \in S : m.parent[c] = s}
    BY ChildrenAre
  <2>3. \A c : c \in ToSet(kids) <=> \E i \in 1..n : c = kids[i]
    <3> HIDE DEF kids, n
    <3>. QED BY <2>1 DEF ToSet
  <2>4. LeafTargets(m, s) = FlattenSeq(ss)
    BY <1>1, LeafTargetsUnfolds
  <2> HIDE DEF kids, n
  <2>5. \A i \in 1..n : ss[i] = LeafTargets(m, kids[i]) /\ kids[i] \in S /\ m.parent[kids[i]] = s
    BY <2>1, <2>2, <2>3
  <2>6. ss \in [1..n -> Seq(S)]
    BY <2>1, <2>5, <1>1
  <2> HIDE DEF ss
  <2>7. /\ FlattenSeq(ss) \in Seq(S)
        /\ \A x : x \in ToSet(FlattenSeq(ss)) <=> \E i \in 1..n : x \in ToSet(ss[i])
    BY <2>1, <2>6, FlattenElements
  <2>8. \A c \in S : m.parent[c] = s => \E i \in 1..n : c = kids[i]
    BY <2>2, <2>3
  <2>9. ASSUME NEW l PROVE (\E i \in 1..n : l \in ToSet(ss[i])) <=>
                           \E c \in S : m.parent[c] = s /\ l \in ToSet(LeafTargets(m, c))
    BY <2>5, <2>8
  <2>. QED BY <2>4, <2>7, <2>9
<1>0. ASSUME NEW s \in S, IsCompound(m, s), s \notin m.parallel
       PROVE  /\ m.initial[s] \in S /\ m.parent[m.initial[s]] = s
              /\ LeafTargets(m, s) = LeafTargets(m, m.initial[s])
  <2>1. m.initial[s] \in S /\ m.parent[m.initial[s]] = s
    BY <1>0, CompoundHasChildren
  <2>2. LeafTargets(m, s) = LeafTargets(m, m.initial[s])
    BY <1>0, LeafTargetsUnfolds
  <2>. QED BY <2>1, <2>2
<1>2. ASSUME NEW s \in S, \A c \in S : m.parent[c] = s => c \in T PROVE s \in T
  <2>1. CASE ~IsCompound(m, s)
    <3>1. LeafTargets(m, s) = <<s>>
      BY <2>1, LeafTargetsUnfolds
    <3>2. <<s>> \in Seq(S) /\ <<s>> # <<>>
      OBVIOUS
    <3>. QED BY <3>1, <3>2
  <2>2. CASE IsCompound(m, s) /\ s \in m.parallel
    <3>1. LeafTargets(m, s) \in Seq(S)
      BY <1>1, <1>2, <2>2
    <3>2. PICK c \in S : m.parent[c] = s
      BY <2>2 DEF IsCompound
    <3>3. LeafTargets(m, c) \in Seq(S) /\ LeafTargets(m, c) # <<>>
      BY <1>2, <3>2
    <3>4. PICK l : l \in ToSet(LeafTargets(m, c))
      <4>1. 1 \in DOMAIN LeafTargets(m, c)
        BY <3>3
      <4>. QED BY <4>1 DEF ToSet
    <3>5. l \in ToSet(LeafTargets(m, s))
      BY <1>1, <1>2, <2>2, <3>2, <3>4
    <3>6. LeafTargets(m, s) # <<>>
      BY <3>5, ToSetSmall
    <3>. QED BY <3>1, <3>6
  <2>3. CASE IsCompound(m, s) /\ s \notin m.parallel
    BY <1>2, <1>0, <2>3
  <2>. QED BY <2>1, <2>2, <2>3
<1>3. \A s \in S : s \in T
  <2> HIDE DEF T
  <2>. QED BY <1>2, InductionUp
<1>4. ASSUME NEW s \in S, ~IsCompound(m, s) PROVE ToSet(LeafTargets(m, s)) = {s}
  <2>1. LeafTargets(m, s) = <<s>>
    BY <1>4, LeafTargetsUnfolds
  <2>. QED BY <2>1, ToSetSmall
<1>5. ASSUME NEW s \in S, NEW c \in S, m.parent[c] = s, NEW l \in S, Within(m, l, c) PROVE Within(m, l, s)
  <2>1. Within(m, c, s)
    <3>1. Within(m, s, s)
      BY WithinIsTree
    <3>2. m.parent[c] # None
      BY <1>5, OrderedTree
    <3>. QED BY <1>5, <3>1, <3>2, WithinUnfolds
  <2>. QED BY <2>1, <1>5, WithinIsTree
<1>6. ASSUME NEW s \in S, \A c \in S : m.parent[c] = s => c \in V PROVE s \in V
  <2>1. CASE ~IsCompound(m, s)
    BY <2>1, <1>4, WithinIsTree
  <2>2. CASE IsCompound(m, s) /\ s \in m.parallel
    <3>1. \A l : l \in ToSet(LeafTargets(m, s)) <=>
                        \E c \in S : m.parent[c] = s /\ l \in ToSet(LeafTargets(m, c))
      BY <1>1, <1>3, <2>2
    <3>. QED BY <1>5, <1>6, <3>1
  <2>3. CASE IsCompound(m, s) /\ s \notin m.parallel
    BY <1>5, <1>6, <1>0, <2>3
  <2>. QED BY <2>1, <2>2, <2>3
<1>7. \A s \in S : s \in V
  <2> HIDE DEF V
  <2>. QED BY <1>6, InductionUp
<1>8. ASSUME NEW s \in S, IsCompound(m, s), s \in m.parallel
      PROVE  ToSet(LeafTargets(m, s)) =
                    UNION {ToSet(LeafTargets(m, c)) : c \in {x \in StateIDs(m) : m.parent[x] = s}}
  <2>1. \A l : l \in ToSet(LeafTargets(m, s)) <=>
                        \E c \in S : m.parent[c] = s /\ l \in ToSet(LeafTargets(m, c))
    BY <1>1, <1>3, <1>8
  <2>. QED BY <2>1
<1>9. ASSUME NEW s \in S PROVE LeafTargets(m, s) \in Seq(S) /\ LeafTargets(m, s) # <<>>
  BY <1>3
<1>10. ASSUME NEW s \in S, NEW l \in ToSet(LeafTargets(m, s)) PROVE l \in S /\ ~IsCompound(m, l) /\ Within(m, l, s)
  BY <1>7
<1>. QED BY <1>0, <1>4, <1>8, <1>9, <1>10

-----------------------------------------------------------------------------
(* States apart from each other.                                           *)

\* How Within and parent relate.
LEMMA WithinAndParent ==
  ASSUME NEW m, WellFormed(m)
  PROVE  /\ \A s, c \in StateIDs(m) : m.parent[c] = s => Within(m, c, s) /\ c # s
         /\ \A s, c, x \in StateIDs(m) : m.parent[c] = s /\ Within(m, c, x) => x = c \/ Within(m, s, x)
         /\ \A x, s \in StateIDs(m) : Within(m, x, s) /\ x # s =>
                /\ IsCompound(m, s)
                /\ \E c \in StateIDs(m) : m.parent[c] = s /\ Within(m, x, c)
         /\ \A x, s, c, d \in StateIDs(m) :
                m.parent[c] = s /\ m.parent[d] = s /\ Within(m, x, c) /\ Within(m, x, d) => c = d
<1> DEFINE S == StateIDs(m)
<1>1. ASSUME NEW s \in S, NEW c \in S, m.parent[c] = s
      PROVE  /\ Within(m, c, s) /\ c # s
             /\ \A x \in S : Within(m, c, x) => x = c \/ Within(m, s, x)
  <2>1. m.parent[c] # None
    BY <1>1, OrderedTree
  <2>2. IsDescendantOf(m, c, s)
    BY <1>1, <2>1, WithinUnfolds, WithinIsTree
  <2>. QED BY <1>1, <2>1, <2>2, WithinUnfolds, WithinIsTree
<1>2. ASSUME NEW s \in S
      PROVE  \A x \in S : Within(m, x, s) /\ x # s =>
                \E c \in StateIDs(m) : m.parent[c] = s /\ Within(m, x, c)
  <2> DEFINE T == {x \in S : Within(m, x, s) /\ x # s =>
                                \E c \in StateIDs(m) : m.parent[c] = s /\ Within(m, x, c)}
  <2>1. ASSUME NEW x \in S, m.parent[x] = None \/ m.parent[x] \in T PROVE x \in T
    <3> SUFFICES ASSUME Within(m, x, s), x # s PROVE \E c \in S : m.parent[c] = s /\ Within(m, x, c)
      OBVIOUS
    <3>1. m.parent[x] # None /\ Within(m, m.parent[x], s)
      BY WithinUnfolds
    <3>2. m.parent[x] \in S
      BY <3>1, OrderedTree
    <3>3. CASE m.parent[x] = s
      BY <3>3, WithinIsTree
    <3>4. CASE m.parent[x] # s
      <4>1. PICK c \in S : m.parent[c] = s /\ Within(m, m.parent[x], c)
        BY <2>1, <3>1, <3>4
      <4>. QED BY <3>1, <4>1, WithinUnfolds
    <3>. QED BY <3>3, <3>4
  <2>2. \A x \in S : x \in T
    <3> HIDE DEF T
    <3>. QED BY <2>1, InductionDown
  <2>. QED BY <2>2
<1>3. ASSUME NEW x \in S, NEW s \in S, NEW c \in S, NEW d \in S, m.parent[c] = s, m.parent[d] = s,
             Within(m, x, c), Within(m, x, d)
      PROVE  c = d
  <2>1. ASSUME NEW a \in S, NEW b \in S, m.parent[a] = s, m.parent[b] = s, Within(m, a, b), a # b PROVE FALSE
    <3>1. Within(m, s, b)
      BY <1>1, <2>1
    <3>2. Within(m, b, s) /\ b # s
      BY <1>1, <2>1
    <3>. QED BY <3>1, <3>2, WithinIsTree
  <2>2. Within(m, c, d) \/ Within(m, d, c)
    BY <1>3, WithinIsTree
  <2>. QED BY <1>3, <2>1, <2>2
<1>4. \A x, s \in S : Within(m, x, s) /\ x # s => IsCompound(m, s)
  BY <1>2 DEF IsCompound
<1>. QED BY <1>1, <1>2, <1>3, <1>4

\* A state is within one child of a state at most.
LEMMA OneBranch ==
  ASSUME NEW m, WellFormed(m), NEW c \in StateIDs(m), NEW d \in StateIDs(m), m.parent[c] = m.parent[d],
         m.parent[c] \in StateIDs(m), NEW x \in StateIDs(m), Within(m, x, c), Within(m, x, d)
  PROVE  c = d
BY WithinAndParent

\* l and h are in two regions of the parallel state q, named r and u.
ApartAt(m, q, r, u, l, h) ==
  /\ q \in AndStates(m) /\ {q, r, u} \subseteq StateIDs(m)
  /\ m.parent[r] = q /\ m.parent[u] = q /\ r # u
  /\ Within(m, l, r) /\ Within(m, h, u)

Apart(m, l, h) == \E q, r, u \in StateIDs(m) : ApartAt(m, q, r, u, l, h)

\* What is above both is above the parallel state or that state.
LEMMA ApartShares ==
  ASSUME NEW m, WellFormed(m), NEW q, NEW r, NEW u, NEW l \in StateIDs(m), NEW h \in StateIDs(m),
         ApartAt(m, q, r, u, l, h)
  PROVE  /\ l # h /\ q # l /\ Within(m, l, q) /\ Within(m, h, q) /\ ApartAt(m, q, u, r, h, l)
         /\ \A x \in StateIDs(m) : Within(m, l, x) => Within(m, q, x) \/ Within(m, x, r)
         /\ \A x \in StateIDs(m) : Within(m, l, x) /\ Within(m, h, x) => Within(m, q, x)
<1> DEFINE S == StateIDs(m)
<1>1. q \in S /\ r \in S /\ u \in S /\ m.parent[r] = q /\ m.parent[u] = q /\ r # u
      /\ Within(m, l, r) /\ Within(m, h, u) /\ q \in AndStates(m)
  BY DEF ApartAt
<1>2. Within(m, r, q) /\ r # q /\ Within(m, u, q) /\ u # q
  BY <1>1, WithinAndParent
<1>3. Within(m, l, q) /\ Within(m, h, q)
  BY <1>1, <1>2, WithinIsTree
<1>4. q # l
  BY <1>1, <1>2, WithinIsTree
<1>5. ASSUME NEW a \in S, NEW b \in S, NEW y \in S, m.parent[b] = q, Within(m, a, b), Within(m, a, y)
      PROVE  Within(m, q, y) \/ Within(m, y, b)
  <2>1. Within(m, y, b) \/ Within(m, b, y)
    BY <1>5, WithinIsTree
  <2>2. Within(m, b, y) => y = b \/ Within(m, q, y)
    BY <1>1, <1>5, WithinAndParent
  <2>3. Within(m, b, b)
    BY WithinIsTree
  <2>. QED BY <2>1, <2>2, <2>3
<1>6. ASSUME NEW x \in S, Within(m, l, x), Within(m, h, x) PROVE Within(m, q, x)
  <2> SUFFICES ASSUME ~Within(m, q, x) PROVE FALSE
    OBVIOUS
  <2>1. Within(m, x, r) /\ Within(m, x, u)
    BY <1>1, <1>5, <1>6
  <2>. QED BY <1>1, <2>1, OneBranch
<1>7. l # h
  BY <1>1, OneBranch
<1>8. ApartAt(m, q, u, r, h, l)
  BY <1>1 DEF ApartAt
<1>9. \A x \in S : Within(m, l, x) => Within(m, q, x) \/ Within(m, x, r)
  BY <1>1, <1>5
<1>. QED BY <1>3, <1>4, <1>6, <1>7, <1>8, <1>9

\* Two initial leaves below s are apart inside s, and the regions of a parallel
\* state that has such a leaf all have one.
LEMMA LeafTargetsWhole ==
  ASSUME NEW m, WellFormed(m)
  PROVE  \A s \in StateIDs(m) :
            /\ \A l, h \in ToSet(LeafTargets(m, s)) :
                    l # h => \E q, r, u \in StateIDs(m) : ApartAt(m, q, r, u, l, h) /\ Within(m, q, s)
            /\ \A l \in ToSet(LeafTargets(m, s)), q \in AndStates(m), r \in StateIDs(m) :
                    q \in StateIDs(m) /\ Within(m, l, q) /\ Within(m, q, s) /\ m.parent[r] = q =>
                        \E h \in ToSet(LeafTargets(m, s)) : Within(m, h, r)
<1> DEFINE S == StateIDs(m)
           L(s) == ToSet(LeafTargets(m, s))
           PairsApart(s) == \A l, h \in L(s) :
                l # h => \E q, r, u \in S : ApartAt(m, q, r, u, l, h) /\ Within(m, q, s)
           Regions(s) == \A l \in L(s), q \in AndStates(m), r \in S :
                q \in S /\ Within(m, l, q) /\ Within(m, q, s) /\ m.parent[r] = q =>
                    \E h \in L(s) : Within(m, h, r)
           T == {s \in S : PairsApart(s) /\ Regions(s)}
<1>1. \A s \in S : \A l \in L(s) : l \in S /\ ~IsCompound(m, l) /\ Within(m, l, s)
  BY LeafTargetsAre
<1>2. \A s \in S : L(s) # {}
  <2> TAKE s \in S
  <2>1. LeafTargets(m, s) \in Seq(S) /\ LeafTargets(m, s) # <<>>
    BY LeafTargetsAre
  <2>2. 1 \in DOMAIN LeafTargets(m, s)
    BY <2>1
  <2>. QED BY <2>2 DEF ToSet
<1>3. \A q \in AndStates(m) : IsCompound(m, q) /\ q \in m.parallel
  BY DEF AndStates
<1>4. ASSUME NEW s \in S, \A c \in S : m.parent[c] = s => c \in T PROVE s \in T
  <2>1. CASE ~IsCompound(m, s)
    <3>1. L(s) = {s}
      BY <2>1, LeafTargetsAre
    <3>2. PairsApart(s)
      BY <3>1
    <3>3. ASSUME NEW q \in AndStates(m), q \in S, Within(m, s, q), Within(m, q, s) PROVE FALSE
      BY <2>1, <3>3, <1>3, WithinIsTree
    <3>4. Regions(s)
      <4> HIDE DEF L
      <4>. QED BY <3>1, <3>3
    <3> HIDE DEF PairsApart, Regions
    <3>. QED BY <3>2, <3>4
  <2>2. CASE IsCompound(m, s) /\ s \notin m.parallel
    <3> DEFINE c == m.initial[s]
    <3>1. c \in S /\ m.parent[c] = s /\ L(s) = L(c)
      BY <2>2, LeafTargetsAre
    <3>2. PairsApart(c) /\ Regions(c)
      BY <1>4, <3>1
    <3> HIDE DEF c, L
    <3>3. Within(m, c, s)
      BY <3>1, WithinAndParent
    <3>4. \A q \in S : Within(m, q, c) => Within(m, q, s)
      BY <3>1, <3>3, WithinIsTree
    <3>5. PairsApart(s)
      BY <3>1, <3>2, <3>4
    <3>6. ASSUME NEW l \in L(s), NEW q \in AndStates(m), NEW r \in S, q \in S, Within(m, l, q),
                 Within(m, q, s), m.parent[r] = q
          PROVE  \E h \in L(s) : Within(m, h, r)
      <4>1. q # s
        BY <1>3, <2>2
      <4>2. PICK d \in S : m.parent[d] = s /\ Within(m, q, d)
        BY <3>6, <4>1, WithinAndParent
      <4>3. l \in S /\ Within(m, l, c)
        BY <1>1, <3>1
      <4>4. Within(m, l, d)
        BY <3>6, <4>2, <4>3, WithinIsTree
      <4>5. d = c
        BY <3>1, <4>2, <4>3, <4>4, OneBranch
      <4>. QED BY <3>1, <3>2, <3>6, <4>2, <4>5
    <3>7. Regions(s)
      BY <3>6
    <3> HIDE DEF PairsApart, Regions
    <3>. QED BY <3>5, <3>7
  <2>3. CASE IsCompound(m, s) /\ s \in m.parallel
    <3>1. \A l : l \in L(s) <=> \E c \in S : m.parent[c] = s /\ l \in L(c)
      <4>1. ToSet(LeafTargets(m, s)) =
                    UNION {ToSet(LeafTargets(m, c)) : c \in {x \in StateIDs(m) : m.parent[x] = s}}
        BY <2>3, LeafTargetsAre
      <4>. QED BY <4>1
    <3>2. \A c \in S : m.parent[c] = s => PairsApart(c) /\ Regions(c)
      BY <1>4
    <3> HIDE DEF L
    <3>3. \A c \in S : m.parent[c] = s => Within(m, c, s)
      BY WithinAndParent
    <3>4. \A c, q \in S : m.parent[c] = s /\ Within(m, q, c) => Within(m, q, s)
      BY <3>3, WithinIsTree
    <3>5. ASSUME NEW l \in L(s), NEW h \in L(s), l # h
          PROVE  \E q, r, u \in S : ApartAt(m, q, r, u, l, h) /\ Within(m, q, s)
      <4>1. PICK r \in S : m.parent[r] = s /\ l \in L(r)
        BY <3>1
      <4>2. PICK u \in S : m.parent[u] = s /\ h \in L(u)
        BY <3>1
      <4>3. CASE r = u
        <5>1. PICK q, r1, u1 \in S : ApartAt(m, q, r1, u1, l, h) /\ Within(m, q, r)
          BY <3>2, <3>5, <4>1, <4>2, <4>3
        <5>. QED BY <5>1, <3>4, <4>1
      <4>4. CASE r # u
        <5>1. ApartAt(m, s, r, u, l, h)
          BY <1>1, <2>3, <4>1, <4>2, <4>4 DEF ApartAt, AndStates
        <5>2. Within(m, s, s)
          BY WithinIsTree
        <5>. QED BY <5>1, <5>2
      <4>. QED BY <4>3, <4>4
    <3>6. ASSUME NEW l \in L(s), NEW q \in AndStates(m), NEW r \in S, q \in S, Within(m, l, q),
                 Within(m, q, s), m.parent[r] = q
          PROVE  \E h \in L(s) : Within(m, h, r)
      <4>1. CASE q = s
        <5>1. PICK h : h \in L(r)
          BY <1>2
        <5>. QED BY <1>1, <3>1, <3>6, <4>1, <5>1
      <4>2. CASE q # s
        <5>1. PICK d \in S : m.parent[d] = s /\ Within(m, q, d)
          BY <3>6, <4>2, WithinAndParent
        <5>2. PICK c \in S : m.parent[c] = s /\ l \in L(c)
          BY <3>1
        <5>3. l \in S /\ Within(m, l, c)
          BY <1>1, <5>2
        <5>4. Within(m, l, d)
          BY <3>6, <5>1, <5>3, WithinIsTree
        <5>5. d = c
          BY <5>1, <5>2, <5>3, <5>4, OneBranch
        <5>6. PICK h \in L(c) : Within(m, h, r)
          BY <3>2, <3>6, <5>1, <5>2, <5>5
        <5>. QED BY <3>1, <5>2, <5>6
      <4>. QED BY <4>1, <4>2
    <3>7. PairsApart(s) /\ Regions(s)
      BY <3>5, <3>6
    <3> HIDE DEF PairsApart, Regions
    <3>. QED BY <3>7
  <2>. QED BY <2>1, <2>2, <2>3
<1>5. \A s \in S : s \in T
  <2> HIDE DEF T
  <2>. QED BY <1>4, InductionUp
<1>6. \A s \in S : PairsApart(s) /\ Regions(s)
  <2> HIDE DEF PairsApart, Regions
  <2>. QED BY <1>5
<1>. QED BY <1>6

-----------------------------------------------------------------------------
(* Chains in order, the deepest common ancestor and the paths below it.    *)

\* Of two states of a chain the one further on is the outer one.
LEMMA ChainOrder ==
  ASSUME NEW m, WellFormed(m)
  PROVE  \A s \in StateIDs(m) : \A i, j \in 1..Len(Chain(m, s)) :
            i <= j <=> Within(m, Chain(m, s)[i], Chain(m, s)[j])
<1> DEFINE S == StateIDs(m)
           P(s) == \A i, j \in 1..Len(Chain(m, s)) :
                        i <= j <=> Within(m, Chain(m, s)[i], Chain(m, s)[j])
           T == {s \in S : P(s)}
<1>1. ASSUME NEW s \in S, m.parent[s] = None \/ m.parent[s] \in T PROVE P(s)
  <2>1. CASE m.parent[s] = None
    <3>1. Len(Chain(m, s)) = 1 /\ Chain(m, s)[1] = s
      BY <2>1, ChainShape
    <3>2. Within(m, s, s)
      BY WithinIsTree
    <3>. QED BY <3>1, <3>2
  <2>2. CASE m.parent[s] # None
    <3> DEFINE p == m.parent[s]
               c == Chain(m, s)
               d == Chain(m, p)
               a == Len(d)
    <3>1. p \in S /\ P(p)
      BY <1>1, <2>2
    <3>2. Len(c) = Len(d) + 1 /\ c[1] = s /\ \A i \in 1..Len(d) : c[i+1] = d[i]
      BY <2>2, ChainShape
    <3>3. a \in Nat /\ c \in Seq(S) /\ d \in Seq(S)
      BY <3>1, ChainShape
    <3>4. \A i \in 1..Len(c) : Within(m, s, c[i])
      <4> HIDE DEF c, d
      <4>. QED BY <3>3 DEF Within, ToSet, c
    <3>5. \A i \in 1..a : Within(m, p, d[i]) /\ d[i] \in S
      <4> HIDE DEF c, d
      <4>. QED BY <3>3 DEF Within, ToSet, d
    <3>6. Within(m, s, p) /\ s # p
      BY <3>1, WithinAndParent
    <3>7. \A i, j \in 1..a : i <= j <=> Within(m, d[i], d[j])
      <4> HIDE DEF a
      <4>. QED BY <3>1 DEF a
    <3> HIDE DEF p, c, d, a
    <3>8. Len(c) = a + 1 /\ (\A i \in 1..a : c[i+1] = d[i])
      BY <3>2 DEF a
    <3>9. \A i \in 1..(a+1) : i = 1 \/ (i - 1 \in 1..a /\ (i - 1) + 1 = i)
      BY <3>3
    <3>10. \A i \in 1..(a+1) : i # 1 => i - 1 \in 1..a /\ c[i] = d[i-1]
      BY <3>8, <3>9
    <3>11. ASSUME NEW i \in 1..(a+1), NEW j \in 1..(a+1) PROVE i <= j <=> Within(m, c[i], c[j])
      <4>1. CASE i = 1
        BY <3>2, <3>4, <3>8, <4>1, <3>3
      <4>2. CASE i # 1 /\ j = 1
        <5>1. Within(m, p, c[i]) /\ c[i] \in S
          BY <3>5, <3>10, <4>2
        <5>2. ~Within(m, c[i], s)
          BY <3>1, <3>6, <5>1, WithinIsTree
        <5>. QED BY <3>2, <3>3, <4>2, <5>2
      <4>3. CASE i # 1 /\ j # 1
        <5>1. i - 1 <= j - 1 <=> Within(m, d[i-1], d[j-1])
          BY <3>7, <3>10, <4>3
        <5>2. i <= j <=> i - 1 <= j - 1
          BY <3>3
        <5>. QED BY <3>10, <4>3, <5>1, <5>2
      <4>. QED BY <4>1, <4>2, <4>3
    <3>. QED BY <3>8, <3>11 DEF c
  <2>. QED BY <2>1, <2>2
<1>2. \A s \in S : s \in T
  <2>1. \A s \in S : m.parent[s] = None \/ m.parent[s] \in T => s \in T
    <3> HIDE DEF P
    <3>. QED BY <1>1
  <2> HIDE DEF T
  <2>. QED BY <2>1, InductionDown
<1>3. \A s \in S : P(s)
  <2> HIDE DEF P
  <2>. QED BY <1>2
<1>. QED BY <1>3

\* The states inside d; all of them for None.
Inside(m, x, d) == d # None => Within(m, x, d) /\ x # d

\* ExitPath is the beginning of the chain, up to lcca.
LEMMA ExitPathIs ==
  ASSUME NEW m, WellFormed(m), NEW l \in StateIDs(m), NEW d, d = None \/ Within(m, l, d)
  PROVE  /\ ExitPath(m, l, d) \in Seq(StateIDs(m))
         /\ ToSet(ExitPath(m, l, d)) = {x \in StateIDs(m) : Within(m, l, x) /\ Inside(m, x, d)}
         /\ \A i, j \in 1..Len(ExitPath(m, l, d)) :
                i <= j <=> Within(m, ExitPath(m, l, d)[i], ExitPath(m, l, d)[j])
<1> DEFINE S == StateIDs(m)
           up == Chain(m, l)
           n == Len(up)
           I == {i \in 1..n : up[i] = d}
           e == ExitPath(m, l, d)
           k == IF I = {} THEN n ELSE Min(I) - 1
<1>1. up \in Seq(S) /\ n \in Nat /\ DOMAIN up = 1..n
  BY ChainShape
<1>2. \A i, j \in 1..n : i <= j <=> Within(m, up[i], up[j])
  <2> HIDE DEF up, n
  <2>. QED BY ChainOrder DEF up, n
<1>3. \A x : Within(m, l, x) <=> \E i \in 1..n : x = up[i]
  <2> HIDE DEF up, n
  <2>. QED BY <1>1 DEF Within, ToSet, up
<1>4. e = IF I = {} THEN up ELSE SubSeq(up, 1, k)
  <2> DEFINE i == IF I # {} THEN Min(I) ELSE 0
  <2>1. e = IF i = 0 THEN up ELSE SubSeq(up, 1, i - 1)
    BY DEF ExitPath, SelectInSeq
  <2>2. I # {} => Min(I) \in Nat /\ Min(I) # 0
    <3>1. \A x \in I : x \in Nat /\ x # 0
      OBVIOUS
    <3> HIDE DEF I
    <3>. QED BY <3>1, MinIsLeast
  <2> HIDE DEF I, e, up
  <2>. QED BY <2>1, <2>2
<1>5. \A i \in 1..n : up[i] \in S
  <2> HIDE DEF up, n
  <2>. QED BY <1>1 DEF n
<1>6. I \subseteq Nat
  OBVIOUS
<1>7. e \in Seq(S) /\ Len(e) = k /\ k \in 0..n /\ \A i \in 1..k : e[i] = up[i]
  <2>1. CASE I = {}
    <3>1. e = up /\ k = n
      BY <1>4, <2>1
    <3> HIDE DEF e, k, up
    <3>. QED BY <1>1, <3>1
  <2>2. CASE I # {}
    <3>1. Min(I) \in I
      <4> HIDE DEF I
      <4>. QED BY <1>6, <2>2, MinIsLeast
    <3>2. Min(I) \in 1..n
      <4> HIDE DEF n, up
      <4>. QED BY <3>1
    <3>3. k = Min(I) - 1 /\ e = SubSeq(up, 1, k)
      BY <1>4, <2>2
    <3> HIDE DEF e, k, up, n, I
    <3>4. k \in 0..n
      BY <1>1, <3>2, <3>3
    <3>5. \A i \in 1..k : up[i] \in S
      BY <1>1, <1>5, <3>4
    <3>6. /\ SubSeq(up, 1, k) \in Seq(S)
          /\ Len(SubSeq(up, 1, k)) = IF 1 <= k THEN k-1+1 ELSE 0
          /\ \A i \in 1..k-1+1 : SubSeq(up, 1, k)[i] = up[1+i-1]
      BY <3>4, <3>5, SubSeqProperties
    <3>7. Len(e) = k
      BY <3>3, <3>4, <3>6
    <3>8. \A i \in 1..k : e[i] = up[i]
      <4>1. \A i \in 1..k : i \in 1..k-1+1 /\ 1+i-1 = i
        BY <3>4
      <4>. QED BY <3>3, <3>6, <4>1
    <3>. QED BY <3>3, <3>4, <3>6, <3>7, <3>8
  <2>. QED BY <2>1, <2>2
\* k is where the chain reaches d.
<1>8. \A i \in 1..n : i <= k <=> Inside(m, up[i], d)
  <2>1. CASE I = {}
    <3>1. d = None
      BY <1>3, <2>1
    <3>. QED BY <2>1, <3>1, <1>1 DEF Inside
  <2>2. CASE I # {}
    <3>1. Min(I) \in I
      <4> HIDE DEF I
      <4>. QED BY <1>6, <2>2, MinIsLeast
    <3>2. Min(I) \in 1..n /\ up[Min(I)] = d
      <4> HIDE DEF n, up
      <4>. QED BY <3>1
    <3>3. k = Min(I) - 1
      BY <2>2
    <3>4. d # None
      BY <1>5, <3>2, OrderedTree
    <3> DEFINE b == Min(I)
    <3> HIDE DEF up, n, I, k, b
    <3>5. b \in 1..n /\ up[b] = d /\ k = b - 1
      BY <3>2, <3>3 DEF b
    <3>6. ASSUME NEW i \in 1..n PROVE i <= k <=> Inside(m, up[i], d)
      <4>1. i <= b <=> Within(m, up[i], d)
        BY <1>2, <3>5
      <4>2. i = b <=> up[i] = d
        <5>1. ASSUME up[i] = d PROVE i = b
          <6>1. Within(m, up[b], up[i]) /\ Within(m, up[i], up[b])
            BY <1>5, <3>5, <5>1, WithinIsTree
          <6>2. i <= b /\ b <= i
            BY <1>2, <3>5, <6>1
          <6>. QED BY <1>1, <3>5, <6>2
        <5>. QED BY <5>1, <3>5
      <4>3. i <= k <=> i <= b /\ i # b
        BY <1>1, <3>5
      <4>. QED BY <3>4, <4>1, <4>2, <4>3 DEF Inside
    <3>. QED BY <3>6
  <2>. QED BY <2>1, <2>2
<1>9. \A x : x \in ToSet(e) <=> \E i \in 1..k : x = up[i]
  <2> HIDE DEF e, k, up, n
  <2>. QED BY <1>7 DEF ToSet
<1> HIDE DEF e, k, up, n
<1>10. \A i \in 1..k : i \in 1..n
  BY <1>1, <1>7
<1>11. \A i \in 1..n : i <= k <=> i \in 1..k
  BY <1>1, <1>7
<1>12. \A x : x \in ToSet(e) <=> x \in S /\ Within(m, l, x) /\ Inside(m, x, d)
  <2>1. ASSUME NEW x, x \in ToSet(e) PROVE x \in S /\ Within(m, l, x) /\ Inside(m, x, d)
    BY <2>1, <1>3, <1>5, <1>8, <1>9, <1>10, <1>11
  <2>2. ASSUME NEW x \in S, Within(m, l, x), Inside(m, x, d) PROVE x \in ToSet(e)
    <3>1. PICK i \in 1..n : x = up[i]
      BY <1>3, <2>2
    <3>2. i \in 1..k
      BY <1>8, <1>11, <2>2, <3>1
    <3>. QED BY <1>9, <3>1, <3>2
  <2>. QED BY <2>1, <2>2
<1>13. \A i, j \in 1..Len(e) : i <= j <=> Within(m, e[i], e[j])
  BY <1>2, <1>7, <1>10
<1>14. ToSet(e) = {x \in S : Within(m, l, x) /\ Inside(m, x, d)}
  BY <1>12
<1>. QED BY <1>7, <1>13, <1>14 DEF e

\* EntryPath of an atomic state is ExitPath from its other end.
LEMMA EntryPathIs ==
  ASSUME NEW m, WellFormed(m), NEW l \in StateIDs(m), ~IsCompound(m, l), NEW d, d = None \/ Within(m, l, d)
  PROVE  /\ EntryPath(m, d, l) \in Seq(StateIDs(m))
         /\ ToSet(EntryPath(m, d, l)) = {x \in StateIDs(m) : Within(m, l, x) /\ Inside(m, x, d)}
         /\ \A i, j \in 1..Len(EntryPath(m, d, l)) :
                i <= j <=> Within(m, EntryPath(m, d, l)[j], EntryPath(m, d, l)[i])
<1> DEFINE S == StateIDs(m)
           p == ExitPath(m, l, d)
           e == EntryPath(m, d, l)
           n == Len(p)
<1>1. p \in Seq(S) /\ n \in Nat
  BY ExitPathIs
<1>2. ToSet(p) = {x \in S : Within(m, l, x) /\ Inside(m, x, d)}
  BY ExitPathIs
<1>3. \A i, j \in 1..n : i <= j <=> Within(m, p[i], p[j])
  BY ExitPathIs
<1>4. e = [i \in 1..n |-> p[n - i + 1]]
  <2>1. LeafTarget(m, l) = l
    BY LeafTargetUnfolds
  <2>. QED BY <2>1 DEF EntryPath, Reverse
<1> HIDE DEF e, p, n
<1>5. \A i \in 1..n : n - i + 1 \in 1..n /\ n - (n - i + 1) + 1 = i
  BY <1>1
<1>6. \A i \in 1..n : p[i] \in S
  BY <1>1 DEF n
<1>7. e \in Seq(S) /\ Len(e) = n /\ DOMAIN e = 1..n /\ \A i \in 1..n : e[i] = p[n - i + 1]
  BY <1>1, <1>4, <1>5, <1>6
<1>8. DOMAIN p = 1..n
  BY <1>1 DEF n
<1>9. ToSet(e) = ToSet(p)
  BY <1>5, <1>7, <1>8 DEF ToSet
<1>10. ASSUME NEW i \in 1..n, NEW j \in 1..n PROVE i <= j <=> Within(m, e[j], e[i])
  <2>1. i <= j <=> n - j + 1 <= n - i + 1
    BY <1>1
  <2>2. n - i + 1 \in 1..n /\ n - j + 1 \in 1..n
    BY <1>5
  <2>3. n - j + 1 <= n - i + 1 <=> Within(m, p[n - j + 1], p[n - i + 1])
    BY <1>3, <2>2
  <2>. QED BY <1>7, <2>1, <2>3
<1>. QED BY <1>2, <1>7, <1>9, <1>10 DEF e

\* LCCA is the deepest of the states that are strictly above both, if any.
LEMMA LCCAIs ==
  ASSUME NEW m, WellFormed(m), NEW s1 \in StateIDs(m), NEW s2 \in StateIDs(m)
  PROVE  LET A == {a \in StateIDs(m) : IsDescendantOf(m, s1, a) /\ IsDescendantOf(m, s2, a)}
         IN  IF A = {} THEN LCCA(m, s1, s2) = None
             ELSE LCCA(m, s1, s2) \in A /\ \A a \in A : Within(m, LCCA(m, s1, s2), a)
<1> DEFINE S == StateIDs(m)
           A == {a \in S : IsDescendantOf(m, s1, a) /\ IsDescendantOf(m, s2, a)}
           c == Chain(m, s2)
           up == Tail(c)
           n == Len(up)
           I == {i \in 1..n : up[i] \in Ancestors(m, s1)}
           k == IF I # {} THEN Min(I) ELSE 0
<1>1. LCCA(m, s1, s2) = IF k = 0 THEN None ELSE up[k]
  BY DEF LCCA, SelectInSeq
<1>2. c \in Seq(S) /\ c # <<>>
  BY ChainShape
<1>3. /\ up \in Seq(S) /\ n \in Nat /\ n + 1 = Len(c)
      /\ \A i \in 1..n : up[i] = c[i+1]
  <2> HIDE DEF c
  <2>. QED BY <1>2, HeadTailProperties
<1>4. \A i, j \in 1..Len(c) : i <= j <=> Within(m, c[i], c[j])
  BY ChainOrder
<1>5. \A a \in S : IsDescendantOf(m, s2, a) <=> \E i \in 1..n : a = up[i]
  <2>1. ToSet(up) = Ancestors(m, s2)
    BY DEF Ancestors
  <2> HIDE DEF up
  <2>. QED BY <1>3, <2>1 DEF IsDescendantOf, ToSet
<1>6. \A i \in 1..n : up[i] \in S
  <2> HIDE DEF up
  <2>. QED BY <1>3 DEF n
<1>7. \A i \in 1..n : i \in I <=> IsDescendantOf(m, s1, up[i])
  BY DEF IsDescendantOf
<1>8. I \subseteq 1..n /\ \A i \in I : i \in Nat /\ i # 0
  OBVIOUS
<1> HIDE DEF c, up, n, I
<1>9. \A i \in I : up[i] \in A
  BY <1>5, <1>6, <1>7, <1>8
<1>10. \A a \in A : \E i \in I : a = up[i]
  BY <1>5, <1>7
<1>11. CASE I = {}
  <2>1. A = {}
    BY <1>10, <1>11
  <2>2. LCCA(m, s1, s2) = None
    BY <1>1, <1>11
  <2>. QED BY <2>1, <2>2
<1>12. CASE I # {}
  <2>1. k \in I /\ \A i \in I : k <= i
    <3>1. I \subseteq Nat
      BY <1>8
    <3>. QED BY <1>12, <3>1, MinIsLeast
  <2>2. LCCA(m, s1, s2) = up[k]
    BY <1>1, <1>8, <2>1
  <2> HIDE DEF k
  <2>3. ASSUME NEW i \in I PROVE Within(m, up[k], up[i])
    <3>1. k \in 1..n /\ i \in 1..n /\ k <= i
      BY <1>8, <2>1
    <3>2. k + 1 \in 1..Len(c) /\ i + 1 \in 1..Len(c) /\ k + 1 <= i + 1
      BY <1>3, <3>1
    <3>. QED BY <1>3, <1>4, <3>1, <3>2
  <2>4. up[k] \in A
    BY <1>9, <2>1
  <2>5. \A a \in A : Within(m, up[k], a)
    BY <1>10, <2>3
  <2> HIDE DEF A
  <2>6. A # {}
    BY <2>4
  <2>. QED BY <2>2, <2>4, <2>5, <2>6 DEF A
<1>. QED BY <1>11, <1>12

\* ResolveTransition finds the first transition of the innermost state that has
\* an enabled one.
LEMMA ResolveIs ==
  ASSUME NEW m, WellFormed(m), NEW l \in StateIDs(m), NEW ev, NEW holds
  PROVE  LET k == ResolveTransition(m, l, ev, holds)
         IN  \/ /\ k = 0
                /\ \A s \in StateIDs(m) : Within(m, l, s) => Enabled(m, s, ev, holds) = {}
             \/ /\ k \in DOMAIN m.transitions /\ k # 0
                /\ m.transitions[k].from \in StateIDs(m) /\ m.transitions[k].to \in StateIDs(m)
                /\ Within(m, l, m.transitions[k].from)
                /\ m.transitions[k].on = ev
                /\ k = Min(Enabled(m, m.transitions[k].from, ev, holds))
                /\ Enabled(m, m.transitions[k].from, ev, holds) # {}
                /\ \A s \in StateIDs(m) :
                        Within(m, l, s) /\ Within(m, s, m.transitions[k].from)
                            /\ Enabled(m, s, ev, holds) # {} => s = m.transitions[k].from
<1> DEFINE S == StateIDs(m)
           E(s) == Enabled(m, s, ev, holds)
           up == Chain(m, l)
           n == Len(up)
           I == {i \in 1..n : E(up[i]) # {}}
           j == IF I # {} THEN Min(I) ELSE 0
           k == ResolveTransition(m, l, ev, holds)
           t == m.transitions[k]
<1>1. k = IF j = 0 THEN 0 ELSE Min(E(up[j]))
  BY DEF ResolveTransition, SelectInSeq
<1>2. up \in Seq(S) /\ n \in Nat /\ DOMAIN up = 1..n
  BY ChainShape
<1>3. \A a, b \in 1..n : a <= b <=> Within(m, up[a], up[b])
  BY ChainOrder
<1>4. \A x : Within(m, l, x) <=> \E i \in 1..n : x = up[i]
  <2> HIDE DEF up, n
  <2>. QED BY <1>2 DEF Within, ToSet, up
<1>5. \A i \in 1..n : up[i] \in S
  <2> HIDE DEF up
  <2>. QED BY <1>2
<1>6. I \subseteq 1..n /\ (\A i \in I : i \in Nat /\ i # 0) /\ \A i \in 1..n : i \in I <=> E(up[i]) # {}
  OBVIOUS
<1>7. \A s : E(s) \subseteq DOMAIN m.transitions /\ \A x \in E(s) : m.transitions[x].from = s /\ m.transitions[x].on = ev
  BY DEF Enabled
<1>8. DOMAIN m.transitions \subseteq Nat \ {0}
  BY DEF WellFormed
<1>9. \A x \in DOMAIN m.transitions : {m.transitions[x].from, m.transitions[x].to} \subseteq S
  BY DEF WellFormed
<1> HIDE DEF E, up, n, I
<1>10. CASE I = {}
  <2>1. k = 0
    BY <1>1, <1>10
  <2>2. \A s \in S : Within(m, l, s) => E(s) = {}
    BY <1>4, <1>6, <1>10
  <2> HIDE DEF k
  <2>. QED BY <2>1, <2>2 DEF E, k
<1>11. CASE I # {}
  <2>1. j \in I /\ \A i \in I : j <= i
    <3>1. I \subseteq Nat
      BY <1>6
    <3>. QED BY <1>11, <3>1, MinIsLeast
  <2>2. k = Min(E(up[j]))
    BY <1>1, <1>6, <2>1
  <2> HIDE DEF j, k
  <2> DEFINE f == up[j]
  <2>3. E(f) # {} /\ f \in S /\ Within(m, l, f) /\ j \in 1..n
    BY <1>4, <1>5, <1>6, <2>1
  <2>4. k \in E(f)
    <3>1. E(f) \subseteq Nat
      BY <1>7, <1>8
    <3> HIDE DEF f
    <3>2. Min(E(f)) \in E(f)
      BY <2>3, <3>1, MinIsLeast
    <3>. QED BY <2>2, <3>2 DEF f
  <2> HIDE DEF f
  <2>5. t.from = f /\ k \in DOMAIN m.transitions /\ k # 0 /\ t.from \in S /\ t.to \in S /\ t.on = ev
    BY <1>7, <1>8, <1>9, <2>4
  <2>6. ASSUME NEW s \in S, Within(m, l, s), Within(m, s, f), E(s) # {} PROVE s = f
    <3>1. PICK i \in 1..n : s = up[i]
      BY <1>4, <2>6
    <3>2. i \in I /\ j <= i
      BY <1>6, <2>1, <2>6, <3>1
    <3>3. Within(m, f, s)
      BY <1>3, <2>3, <3>1, <3>2 DEF f
    <3>. QED BY <2>3, <2>6, <3>3, WithinIsTree
  <2>7. k = Min(E(f))
    BY <2>2 DEF f
  <2>8. \A s \in S : Within(m, l, s) /\ Within(m, s, t.from) /\ E(s) # {} => s = t.from
    BY <2>5, <2>6
  <2>9. E(t.from) # {} /\ k = Min(E(t.from)) /\ Within(m, l, t.from)
    BY <2>3, <2>5, <2>7
  <2>. QED BY <2>5, <2>8, <2>9 DEF E, k
<1>. QED BY <1>10, <1>11

-----------------------------------------------------------------------------
(* The order of what FlattenSeq, Distinct and DeepestFirst return.         *)

\* Two elements of flat in the order of ss, and of their sequence if they are
\* of the same one.
InOrder(flat, ss, n) ==
  \A a, b \in 1..Len(flat) : a < b =>
    \E i, j \in 1..n : \E o \in 1..Len(ss[i]), u \in 1..Len(ss[j]) :
        flat[a] = ss[i][o] /\ flat[b] = ss[j][u] /\ i <= j /\ (i = j => o < u)

LEMMA FlattenOrder ==
  ASSUME NEW S, NEW n \in Nat, NEW ss \in [1..n -> Seq(S)]
  PROVE  InOrder(FlattenSeq(ss), ss, n)
<1> DEFINE flat == FlattenSeq(ss)
<1>1. flat \in Seq(S)
  BY FlattenLayout
<1>2. PICK start : Layout(flat, ss, n, start)
  BY FlattenLayout
<1>3. \A i \in 1..n : Len(ss[i]) \in Nat /\ start[i] \in Nat
  <2>1. \A i \in 1..n : ss[i] \in Seq(S)
    OBVIOUS
  <2>. QED BY <1>2, <2>1 DEF Layout
<1> HIDE DEF flat
<1>4. ASSUME NEW a \in 1..Len(flat), NEW b \in 1..Len(flat), a < b
      PROVE  \E i, j \in 1..n : \E o \in 1..Len(ss[i]), u \in 1..Len(ss[j]) :
                flat[a] = ss[i][o] /\ flat[b] = ss[j][u] /\ i <= j /\ (i = j => o < u)
  <2>1. PICK i \in 1..n : \E o \in 1..Len(ss[i]) : a = start[i] + o
    BY <1>2 DEF Layout
  <2>2. PICK o \in 1..Len(ss[i]) : a = start[i] + o
    BY <2>1
  <2>3. PICK j \in 1..n : \E u \in 1..Len(ss[j]) : b = start[j] + u
    BY <1>2 DEF Layout
  <2>4. PICK u \in 1..Len(ss[j]) : b = start[j] + u
    BY <2>3
  <2>5. flat[a] = ss[i][o] /\ flat[b] = ss[j][u]
    BY <1>2, <2>2, <2>4 DEF Layout
  <2>6. j < i => start[j] + Len(ss[j]) <= start[i]
    BY <1>2 DEF Layout
  <2>7. i <= j
    <3>1. ASSUME j < i PROVE FALSE
      <4>1. start[j] + u <= start[i]
        BY <1>3, <2>6, <3>1
      <4>. QED BY <1>3, <1>4, <2>2, <2>4, <4>1
    <3>. QED BY <3>1
  <2>8. i = j => o < u
    BY <1>3, <1>4, <2>2, <2>4
  <2>. QED BY <2>5, <2>7, <2>8
<1>. QED BY <1>4 DEF flat, InOrder

\* Distinct keeps the first occurrences.
LEMMA DistinctIs ==
  ASSUME NEW S, NEW seq \in Seq(S)
  PROVE  /\ Distinct(seq) \in Seq(S) /\ ToSet(Distinct(seq)) = ToSet(seq)
         /\ \A a, b \in 1..Len(Distinct(seq)) : a < b =>
                \E i \in 1..Len(seq) : /\ seq[i] = Distinct(seq)[a]
                                       /\ \A k \in 1..i : seq[k] # Distinct(seq)[b]
<1> DEFINE n == Len(seq)
           seen(i) == \E j \in 1..(i-1) : seq[j] = seq[i]
           ss == [i \in DOMAIN seq |-> IF seen(i) THEN <<>> ELSE <<seq[i]>>]
           f == [x \in S |-> <<x>>]
<1>1. n \in Nat /\ DOMAIN seq = 1..n /\ \A i \in 1..n : seq[i] \in S
  OBVIOUS
<1>2. Distinct(seq) = FlattenSeq(ss)
  BY DEF Distinct, ForEachOnce
<1>3. FlattenSeq(ss) = OnceOf(seq, f)
  <2>1. \A i \in DOMAIN seq : f[seq[i]] = <<seq[i]>>
    BY <1>1
  <2>2. ss = [i \in DOMAIN seq |-> IF \E j \in 1..(i-1) : seq[j] = seq[i] THEN <<>> ELSE f[seq[i]]]
    <3> HIDE DEF f
    <3>. QED BY <2>1
  <2> HIDE DEF ss, f
  <2>. QED BY <2>2 DEF OnceOf
<1>4. f \in [S -> Seq(S)]
  <2>1. \A x \in S : <<x>> \in Seq(S)
    OBVIOUS
  <2>. QED BY <2>1
<1>5. OnceOf(seq, f) \in Seq(S) /\ \A x : x \in ToSet(OnceOf(seq, f)) <=> \E y \in ToSet(seq) : x \in ToSet(f[y])
  <2> HIDE DEF f
  <2>. QED BY <1>4, OnceElements
<1>6. \A y \in ToSet(seq) : y \in S /\ f[y] = <<y>>
  BY <1>1 DEF ToSet
<1>7. Distinct(seq) \in Seq(S) /\ ToSet(Distinct(seq)) = ToSet(seq)
  <2> HIDE DEF ss, f
  <2>0. \A y \in ToSet(seq) : ToSet(f[y]) = {y}
    BY <1>6, ToSetSmall
  <2>1. \A x \in ToSet(seq) : x \in ToSet(f[x])
    BY <2>0
  <2>2. ASSUME NEW x, x \in ToSet(OnceOf(seq, f)) PROVE x \in ToSet(seq)
    <3>1. PICK y \in ToSet(seq) : x \in ToSet(f[y])
      BY <1>5, <2>2
    <3>. QED BY <2>0, <3>1
  <2>3. \A x : x \in ToSet(seq) => x \in ToSet(OnceOf(seq, f))
    BY <1>5, <2>1
  <2>. QED BY <1>2, <1>3, <1>5, <2>2, <2>3
<1>8. ss \in [1..n -> Seq(S)]
  <2> HIDE DEF f, n
  <2>1. \A x \in S : <<x>> \in Seq(S)
    OBVIOUS
  <2>2. <<>> \in Seq(S)
    OBVIOUS
  <2> HIDE DEF seen
  <2>. QED BY <1>1, <2>1, <2>2
<1>9. \A i \in 1..n : ss[i] = IF seen(i) THEN <<>> ELSE <<seq[i]>>
  <2> HIDE DEF seen, n
  <2>. QED BY <1>1
<1>10. ASSUME NEW a \in 1..Len(Distinct(seq)), NEW b \in 1..Len(Distinct(seq)), a < b
       PROVE  \E i \in 1..n : seq[i] = Distinct(seq)[a] /\ \A k \in 1..i : seq[k] # Distinct(seq)[b]
  <2>0. n \in Nat
    BY <1>1
  <2> HIDE DEF ss, n, seen, f
  <2>1. InOrder(Distinct(seq), ss, n)
    BY <1>2, <2>0, <1>8, FlattenOrder
  <2>2. PICK i \in 1..n, j \in 1..n : \E o \in 1..Len(ss[i]), u \in 1..Len(ss[j]) :
                /\ Distinct(seq)[a] = ss[i][o] /\ Distinct(seq)[b] = ss[j][u]
                /\ i <= j /\ (i = j => o < u)
    BY <1>10, <2>1 DEF InOrder
  <2>3. PICK o \in 1..Len(ss[i]), u \in 1..Len(ss[j]) :
                /\ Distinct(seq)[a] = ss[i][o] /\ Distinct(seq)[b] = ss[j][u]
                /\ i <= j /\ (i = j => o < u)
    BY <2>2
  <2>4. \A x : Len(<<x>>) = 1 /\ <<x>>[1] = x
    OBVIOUS
  <2>5. ASSUME NEW x \in 1..n, NEW y \in 1..Len(ss[x]) PROVE ~seen(x) /\ ss[x] = <<seq[x]>> /\ y = 1
    <3>1. CASE seen(x)
      <4>1. ss[x] = <<>>
        BY <1>9, <3>1
      <4>2. Len(<<>>) = 0
        OBVIOUS
      <4>. QED BY <4>1, <4>2
    <3>2. CASE ~seen(x)
      <4>1. ss[x] = <<seq[x]>>
        BY <1>9, <3>2
      <4>2. Len(ss[x]) = 1
        BY <2>4, <4>1
      <4>. QED BY <3>2, <4>1, <4>2
    <3>. QED BY <3>1, <3>2
  <2>6. ~seen(j) /\ ss[i] = <<seq[i]>> /\ ss[j] = <<seq[j]>> /\ o = 1 /\ u = 1
    BY <2>5
  <2>7. i < j
    BY <2>0, <2>3, <2>6
  <2>8. Distinct(seq)[a] = seq[i] /\ Distinct(seq)[b] = seq[j]
    BY <2>3, <2>4, <2>6
  <2>9. \A k \in 1..i : k \in 1..(j-1)
    BY <2>0, <2>7
  <2>. QED BY <2>6, <2>8, <2>9 DEF seen
<1>. QED BY <1>7, <1>10

\* Each element of seq is one of a path of Paths, and the path's elements
\* before it come before it.
Prefixed(seq, Paths) ==
  \A i \in 1..Len(seq) : \E p \in Paths : \E o \in 1..Len(p) :
    /\ seq[i] = p[o]
    /\ \A u \in 1..o : \E k \in 1..i : seq[k] = p[u]

LEMMA PathsArePrefixed ==
  ASSUME NEW S, NEW Paths, NEW p \in Paths, p \in Seq(S)
  PROVE  Prefixed(p, Paths)
<1>1. ASSUME NEW i \in 1..Len(p)
      PROVE  p[i] = p[i] /\ \A u \in 1..i : \E k \in 1..i : p[k] = p[u]
  OBVIOUS
<1>. QED BY <1>1 DEF Prefixed

LEMMA FlattenPrefixed ==
  ASSUME NEW S, NEW n \in Nat, NEW ss \in [1..n -> Seq(S)], NEW Paths,
         \A i \in 1..n : Prefixed(ss[i], Paths)
  PROVE  Prefixed(FlattenSeq(ss), Paths)
<1> DEFINE flat == FlattenSeq(ss)
<1>1. flat \in Seq(S)
  BY FlattenLayout
<1>2. PICK start : Layout(flat, ss, n, start)
  BY FlattenLayout
<1>3. \A i \in 1..n : Len(ss[i]) \in Nat /\ start[i] \in Nat
  <2>1. \A i \in 1..n : ss[i] \in Seq(S)
    OBVIOUS
  <2>. QED BY <1>2, <2>1 DEF Layout
<1> HIDE DEF flat
<1>4. ASSUME NEW a \in 1..Len(flat)
      PROVE  \E p \in Paths : \E o \in 1..Len(p) :
                flat[a] = p[o] /\ \A u \in 1..o : \E k \in 1..a : flat[k] = p[u]
  <2>1. PICK i \in 1..n : \E e \in 1..Len(ss[i]) : a = start[i] + e
    BY <1>2 DEF Layout
  <2>2. PICK e \in 1..Len(ss[i]) : a = start[i] + e
    BY <2>1
  <2>3. PICK p \in Paths : \E o \in 1..Len(p) :
                ss[i][e] = p[o] /\ \A u \in 1..o : \E k \in 1..e : ss[i][k] = p[u]
    BY DEF Prefixed
  <2>4. PICK o \in 1..Len(p) : ss[i][e] = p[o] /\ \A u \in 1..o : \E k \in 1..e : ss[i][k] = p[u]
    BY <2>3
  <2>5. \A k \in 1..e : flat[start[i] + k] = ss[i][k]
    <3>1. \A k \in 1..e : k \in 1..Len(ss[i])
      BY <1>3
    <3>. QED BY <1>2, <3>1 DEF Layout
  <2>6. flat[a] = p[o]
    <3>1. e \in 1..e
      BY <1>3
    <3>. QED BY <2>2, <2>4, <2>5, <3>1
  <2>7. ASSUME NEW u \in 1..o PROVE \E k \in 1..a : flat[k] = p[u]
    <3>1. PICK k \in 1..e : ss[i][k] = p[u]
      BY <2>4
    <3>2. start[i] + k \in 1..a
      BY <1>3, <2>2
    <3>. QED BY <2>5, <3>1, <3>2
  <2>. QED BY <2>6, <2>7
<1>. QED BY <1>4 DEF Prefixed, flat

LEMMA MaxIsGreatest ==
  ASSUME NEW I, I \subseteq Nat, I # {}, NEW n \in Nat, \A k \in I : k <= n
  PROVE  Max(I) \in I /\ \A k \in I : k <= Max(I)
<1> DEFINE J == {n - k : k \in I}
<1>0. \A k \in I : k \in Nat /\ n - k \in Nat /\ n - k \in J
  <2> TAKE k \in I
  <2>1. k \in Nat /\ k <= n
    OBVIOUS
  <2>2. n - k \in Nat
    BY <2>1
  <2>. QED BY <2>1, <2>2
<1>1. J \subseteq Nat /\ J # {} /\ \A k \in I : k \in Nat /\ n - k \in J
  BY <1>0
<1>2. PICK j \in J : \A x \in J : j <= x
  <2> HIDE DEF J
  <2>. QED BY <1>1, LeastNat
<1>3. PICK i \in I : j = n - i
  OBVIOUS
<1>4. \A k \in I : i >= k
  <2> HIDE DEF J
  <2>. QED BY <1>1, <1>2, <1>3
<1>. QED BY <1>4 DEF Max

\* The depths of the states, which DeepestFirst goes through from D - 1 to 0.
LEMMA DepthBound ==
  ASSUME NEW m, WellFormed(m)
  PROVE  LET D == Max({Depth(m, x) : x \in StateIDs(m)}) + 1
         IN  D \in Nat /\ \A x \in StateIDs(m) : Depth(m, x) \in 0..(D-1)
<1> DEFINE S == StateIDs(m)
           N == Len(m.order)
           T == {s \in S : \A i \in 1..N : m.order[i] = s => Len(Chain(m, s)) <= i}
           I == {Depth(m, x) : x \in S}
<1>1. N \in Nat
  BY OrderedTree
<1>2. ASSUME NEW s \in S, m.parent[s] = None \/ m.parent[s] \in T PROVE s \in T
  <2> SUFFICES ASSUME NEW i \in 1..N, m.order[i] = s PROVE Len(Chain(m, s)) <= i
    OBVIOUS
  <2>1. CASE m.parent[s] = None
    <3>1. Len(Chain(m, s)) = 1
      BY <2>1, ChainShape
    <3>. QED BY <1>1, <3>1
  <2>2. CASE m.parent[s] # None
    <3>1. PICK j \in 1..(i-1) : m.parent[m.order[i]] = m.order[j]
      BY <2>2, OrderedTree
    <3>2. j \in 1..N /\ m.order[j] = m.parent[s] /\ j < i
      BY <1>1, <3>1
    <3>3. m.parent[s] \in S /\ Len(Chain(m, s)) = Len(Chain(m, m.parent[s])) + 1
      BY <2>2, ChainShape
    <3>4. Len(Chain(m, m.parent[s])) \in Nat
      BY <3>3, ChainShape
    <3>5. Len(Chain(m, m.parent[s])) <= j
      BY <1>2, <2>2, <3>2
    <3>. QED BY <1>1, <3>2, <3>3, <3>4, <3>5
  <2>. QED BY <2>1, <2>2
<1>3. \A s \in S : s \in T
  <2> HIDE DEF T
  <2>. QED BY <1>2, InductionDown
<1>4. ASSUME NEW s \in S PROVE Depth(m, s) \in Nat /\ Depth(m, s) <= N
  <2>1. Len(Chain(m, s)) \in Nat \ {0}
    BY ChainShape
  <2>2. PICK i \in 1..N : s = m.order[i]
    BY OrderedTree
  <2>3. Len(Chain(m, s)) <= i
    BY <1>3, <2>2
  <2>. QED BY <1>1, <2>1, <2>3 DEF Depth
<1>5. I \subseteq Nat /\ I # {} /\ \A k \in I : k <= N
  <2>1. m.start \in S
    BY DEF WellFormed
  <2>. QED BY <1>4, <2>1
<1> DEFINE d == Max(I)
<1>6. d \in I /\ \A k \in I : k <= d
  <2> HIDE DEF I
  <2>. QED BY <1>1, <1>5, MaxIsGreatest
<1> HIDE DEF d
<1>7. d \in Nat
  BY <1>5, <1>6
<1>8. d + 1 \in Nat /\ \A x \in S : Depth(m, x) \in 0..((d+1)-1)
  BY <1>4, <1>6, <1>7
<1>. QED BY <1>8 DEF d

\* DeepestFirst keeps the states of seq, and puts deeper ones first.
LEMMA DeepestFirstIs ==
  ASSUME NEW m, WellFormed(m), NEW seq \in Seq(StateIDs(m))
  PROVE  /\ DeepestFirst(m, seq) \in Seq(StateIDs(m))
         /\ ToSet(DeepestFirst(m, seq)) = ToSet(seq)
         /\ \A a, b \in 1..Len(DeepestFirst(m, seq)) :
                a < b => Depth(m, DeepestFirst(m, seq)[b]) <= Depth(m, DeepestFirst(m, seq)[a])
<1> DEFINE S == StateIDs(m)
           D == Max({Depth(m, x) : x \in S}) + 1
           level(i) == FlattenSeq([k \in DOMAIN seq |->
                        IF \E j \in 1..(k-1) : seq[j] = seq[k] THEN <<>>
                        ELSE IF Depth(m, seq[k]) = D - i THEN <<seq[k]>> ELSE <<>>])
           ss == [i \in 1..D |-> level(i)]
           e == DeepestFirst(m, seq)
<1>1. D \in Nat /\ \A x \in S : Depth(m, x) \in 0..(D-1)
  BY DepthBound
<1>2. e = FlattenSeq(ss)
  BY DEF DeepestFirst, ForEachOnce
<1> HIDE DEF e
<1>3. ASSUME NEW i \in 1..D
      PROVE  /\ level(i) \in Seq(S)
             /\ \A x : x \in ToSet(level(i)) <=> x \in ToSet(seq) /\ Depth(m, x) = D - i
  <2> HIDE DEF D
  <2> DEFINE f == [x \in S |-> IF Depth(m, x) = D - i THEN <<x>> ELSE <<>>]
  <2>1. f \in [S -> Seq(S)]
    <3>1. \A x \in S : <<x>> \in Seq(S)
      OBVIOUS
    <3>2. <<>> \in Seq(S)
      OBVIOUS
    <3>. QED BY <3>1, <3>2
  <2>2. OnceOf(seq, f) \in Seq(S) /\ \A x : x \in ToSet(OnceOf(seq, f)) <=> \E y \in ToSet(seq) : x \in ToSet(f[y])
    <3> HIDE DEF f
    <3>. QED BY <2>1, OnceElements
  <2>3. \A k \in DOMAIN seq : f[seq[k]] = IF Depth(m, seq[k]) = D - i THEN <<seq[k]>> ELSE <<>>
    OBVIOUS
  <2>4. [k \in DOMAIN seq |-> IF \E j \in 1..(k-1) : seq[j] = seq[k] THEN <<>> ELSE f[seq[k]]] =
                    [k \in DOMAIN seq |->
                        IF \E j \in 1..(k-1) : seq[j] = seq[k] THEN <<>>
                        ELSE IF Depth(m, seq[k]) = D - i THEN <<seq[k]>> ELSE <<>>]
    <3> HIDE DEF f
    <3>. QED BY <2>3
  <2>5. level(i) = OnceOf(seq, f)
    <3> HIDE DEF f
    <3>. QED BY <2>4 DEF OnceOf
  <2>6. \A y \in ToSet(seq) : f[y] = IF Depth(m, y) = D - i THEN <<y>> ELSE <<>>
    BY DEF ToSet
  <2> HIDE DEF f, level
  <2>7. \A y \in ToSet(seq) : ToSet(f[y]) = IF Depth(m, y) = D - i THEN {y} ELSE {}
    BY <2>6, ToSetSmall
  <2>8. ASSUME NEW x, x \in ToSet(level(i)) PROVE x \in ToSet(seq) /\ Depth(m, x) = D - i
    <3>1. PICK y \in ToSet(seq) : x \in ToSet(f[y])
      BY <2>2, <2>5, <2>8
    <3>. QED BY <2>7, <3>1
  <2>9. ASSUME NEW x \in ToSet(seq), Depth(m, x) = D - i PROVE x \in ToSet(level(i))
    <3>1. x \in ToSet(f[x])
      BY <2>7, <2>9
    <3>. QED BY <2>2, <2>5, <3>1
  <2>. QED BY <2>2, <2>5, <2>8, <2>9
<1> HIDE DEF level, D
<1>4. ss \in [1..D -> Seq(S)] /\ \A i \in 1..D : ss[i] = level(i)
  BY <1>3
<1> HIDE DEF ss
<1>5. e \in Seq(S) /\ \A x : x \in ToSet(e) <=> \E i \in 1..D : x \in ToSet(ss[i])
  BY <1>1, <1>2, <1>4, FlattenElements
<1>6. \A x \in ToSet(seq) : x \in S
  BY DEF ToSet
<1>7. ToSet(e) = ToSet(seq)
  <2>1. ASSUME NEW x \in ToSet(e) PROVE x \in ToSet(seq)
    BY <1>3, <1>4, <1>5
  <2>2. ASSUME NEW x \in ToSet(seq) PROVE x \in ToSet(e)
    <3> DEFINE i == D - Depth(m, x)
    <3>1. Depth(m, x) \in 0..(D-1)
      BY <1>1, <1>6
    <3>2. i \in 1..D /\ Depth(m, x) = D - i
      BY <1>1, <3>1
    <3> HIDE DEF i
    <3>3. x \in ToSet(ss[i])
      BY <1>3, <1>4, <3>2
    <3>. QED BY <1>5, <3>2, <3>3
  <2>. QED BY <2>1, <2>2
<1>8. InOrder(e, ss, D)
  BY <1>1, <1>2, <1>4, FlattenOrder
<1>9. \A i \in 1..D : \A o \in 1..Len(ss[i]) : Depth(m, ss[i][o]) = D - i
  <2> TAKE i \in 1..D
  <2> TAKE o \in 1..Len(ss[i])
  <2>1. ss[i] \in Seq(S)
    BY <1>4
  <2>2. ss[i][o] \in ToSet(ss[i])
    BY <2>1 DEF ToSet
  <2>. QED BY <1>3, <1>4, <2>2
<1>10. ASSUME NEW a \in 1..Len(e), NEW b \in 1..Len(e), a < b PROVE Depth(m, e[b]) <= Depth(m, e[a])
  <2>1. PICK i \in 1..D, j \in 1..D : \E o \in 1..Len(ss[i]), u \in 1..Len(ss[j]) :
                e[a] = ss[i][o] /\ e[b] = ss[j][u] /\ i <= j /\ (i = j => o < u)
    BY <1>8, <1>10, Zenon DEF InOrder
  <2>2. Depth(m, e[a]) = D - i /\ Depth(m, e[b]) = D - j
    BY <1>9, <2>1
  <2>. QED BY <1>1, <2>1, <2>2
<1>. QED BY <1>5, <1>7, <1>10 DEF e

-----------------------------------------------------------------------------
(* Pending and Macrostep.                                                  *)

\* ForEach, of a function.
MapOf(seq, f) == FlattenSeq([i \in DOMAIN seq |-> f[seq[i]]])

LEMMA MapElements ==
  ASSUME NEW T, NEW S, NEW seq \in Seq(T), NEW f \in [T -> Seq(S)]
  PROVE  /\ MapOf(seq, f) \in Seq(S)
         /\ \A x : x \in ToSet(MapOf(seq, f)) <=> \E y \in ToSet(seq) : x \in ToSet(f[y])
         /\ \A Paths : (\A y \in ToSet(seq) : Prefixed(f[y], Paths)) => Prefixed(MapOf(seq, f), Paths)
<1> DEFINE n == Len(seq)
           ss == [i \in DOMAIN seq |-> f[seq[i]]]
<1>1. n \in Nat /\ DOMAIN seq = 1..n /\ \A i \in 1..n : seq[i] \in T
  OBVIOUS
<1>2. ss \in [1..n -> Seq(S)] /\ \A i \in 1..n : ss[i] = f[seq[i]]
  BY <1>1
<1>3. MapOf(seq, f) = FlattenSeq(ss)
  BY DEF MapOf
<1>4. \A y : y \in ToSet(seq) <=> \E i \in 1..n : y = seq[i]
  BY <1>1 DEF ToSet
<1> HIDE DEF ss, n
<1>5. FlattenSeq(ss) \in Seq(S) /\ \A x : x \in ToSet(FlattenSeq(ss)) <=> \E i \in 1..n : x \in ToSet(ss[i])
  BY <1>1, <1>2, FlattenElements
<1>6. ASSUME NEW x PROVE x \in ToSet(MapOf(seq, f)) <=> \E y \in ToSet(seq) : x \in ToSet(f[y])
  <2>1. ASSUME x \in ToSet(MapOf(seq, f)) PROVE \E y \in ToSet(seq) : x \in ToSet(f[y])
    <3>1. PICK i \in 1..n : x \in ToSet(ss[i])
      BY <1>3, <1>5, <2>1
    <3>. QED BY <1>2, <1>4, <3>1
  <2>2. ASSUME NEW y \in ToSet(seq), x \in ToSet(f[y]) PROVE x \in ToSet(MapOf(seq, f))
    <3>1. PICK i \in 1..n : y = seq[i]
      BY <1>4
    <3>. QED BY <1>2, <1>3, <1>5, <2>2, <3>1
  <2>. QED BY <2>1, <2>2
<1>7. ASSUME NEW Paths, \A y \in ToSet(seq) : Prefixed(f[y], Paths) PROVE Prefixed(MapOf(seq, f), Paths)
  <2>1. \A i \in 1..n : Prefixed(ss[i], Paths)
    BY <1>2, <1>4, <1>7
  <2>. QED BY <1>1, <1>2, <1>3, <2>1, FlattenPrefixed
<1>. QED BY <1>3, <1>5, <1>6, <1>7

\* Pending holds each leaf that has a transition, with that transition.
LEMMA PendingIs ==
  ASSUME NEW m, WellFormed(m), NEW ls \in Seq(StateIDs(m)), NEW ev, NEW holds
  PROVE  /\ Pending(m, ls, ev, holds) \in Seq([source : StateIDs(m), trans : ToSet(m.transitions)])
         /\ \A p : p \in ToSet(Pending(m, ls, ev, holds)) <=>
                \E l \in ToSet(ls) :
                    /\ ResolveTransition(m, l, ev, holds) # 0
                    /\ p = [source |-> l, trans |-> m.transitions[ResolveTransition(m, l, ev, holds)]]
<1> DEFINE S == StateIDs(m)
           R == [source : S, trans : ToSet(m.transitions)]
           k(l) == ResolveTransition(m, l, ev, holds)
           r(l) == [source |-> l, trans |-> m.transitions[k(l)]]
           f == [l \in S |-> IF k(l) = 0 THEN <<>> ELSE <<r(l)>>]
<1>1. \A l \in S : k(l) # 0 => r(l) \in R
  <2> TAKE l \in S
  <2> HAVE k(l) # 0
  <2>1. k(l) \in DOMAIN m.transitions
    BY ResolveIs
  <2> HIDE DEF k
  <2>2. m.transitions[k(l)] \in ToSet(m.transitions)
    BY <2>1 DEF ToSet
  <2>. QED BY <2>2
<1> HIDE DEF k, r, R
<1>2. f \in [S -> Seq(R)]
  <2>1. \A x \in R : <<x>> \in Seq(R)
    OBVIOUS
  <2>2. <<>> \in Seq(R)
    OBVIOUS
  <2>. QED BY <1>1, <2>1, <2>2
<1>3. \A i \in DOMAIN ls : f[ls[i]] = IF k(ls[i]) = 0 THEN <<>> ELSE <<r(ls[i])>>
  OBVIOUS
<1>4. \A l \in ToSet(ls) : f[l] = IF k(l) = 0 THEN <<>> ELSE <<r(l)>>
  BY DEF ToSet
<1> HIDE DEF f
<1>5. Pending(m, ls, ev, holds) = OnceOf(ls, f)
  <2>1. [i \in DOMAIN ls |-> IF \E j \in 1..(i-1) : ls[j] = ls[i] THEN <<>> ELSE f[ls[i]]] =
        [i \in DOMAIN ls |-> IF \E j \in 1..(i-1) : ls[j] = ls[i] THEN <<>>
                                ELSE IF k(ls[i]) = 0 THEN <<>> ELSE <<r(ls[i])>>]
    BY <1>3
  <2>. QED BY <2>1 DEF OnceOf, Pending, ForEachOnce, k, r
<1>6. OnceOf(ls, f) \in Seq(R) /\ \A x : x \in ToSet(OnceOf(ls, f)) <=> \E y \in ToSet(ls) : x \in ToSet(f[y])
  BY <1>2, OnceElements
<1>7. \A l \in ToSet(ls) : ToSet(f[l]) = IF k(l) = 0 THEN {} ELSE {r(l)}
  BY <1>4, ToSetSmall
<1>8. ASSUME NEW p
      PROVE  p \in ToSet(Pending(m, ls, ev, holds)) <=> \E l \in ToSet(ls) : k(l) # 0 /\ p = r(l)
  <2>1. ASSUME p \in ToSet(Pending(m, ls, ev, holds)) PROVE \E l \in ToSet(ls) : k(l) # 0 /\ p = r(l)
    <3>1. PICK l \in ToSet(ls) : p \in ToSet(f[l])
      BY <1>5, <1>6, <2>1
    <3>. QED BY <1>7, <3>1
  <2>2. ASSUME NEW l \in ToSet(ls), k(l) # 0, p = r(l) PROVE p \in ToSet(Pending(m, ls, ev, holds))
    <3>1. p \in ToSet(f[l])
      BY <1>7, <2>2
    <3>. QED BY <1>5, <1>6, <3>1
  <2>. QED BY <2>1, <2>2
<1>9. Pending(m, ls, ev, holds) \in Seq(R)
  BY <1>5, <1>6
<1>. QED BY <1>8, <1>9 DEF R, k, r

\* Paths of any kind are sequences of states.
LEMMA PathTypes ==
  ASSUME NEW m, WellFormed(m), NEW l \in StateIDs(m), NEW d
  PROVE  /\ ExitPath(m, l, d) \in Seq(StateIDs(m))
         /\ ~IsCompound(m, l) => EntryPath(m, d, l) \in Seq(StateIDs(m))
<1> DEFINE S == StateIDs(m)
           up == Chain(m, l)
           n == Len(up)
           p == ExitPath(m, l, d)
<1>1. p \in Seq(S)
  <2>1. CASE Within(m, l, d)
    BY <2>1, ExitPathIs
  <2>2. CASE ~Within(m, l, d)
    <3>1. up \in Seq(S)
      BY ChainShape
    <3>2. {i \in 1..n : up[i] = d} = {}
      <4> HIDE DEF up
      <4>. QED BY <2>2, <3>1 DEF Within, ToSet, up
    <3>3. p = up
      BY <3>2 DEF ExitPath, SelectInSeq
    <3>. QED BY <3>1, <3>3
  <2>. QED BY <2>1, <2>2
<1>2. ASSUME ~IsCompound(m, l) PROVE EntryPath(m, d, l) \in Seq(S)
  <2>1. LeafTarget(m, l) = l
    BY <1>2, LeafTargetUnfolds
  <2>2. EntryPath(m, d, l) = [i \in 1..Len(p) |-> p[(Len(p) - i) + 1]]
    BY <2>1 DEF EntryPath, Reverse
  <2> HIDE DEF p
  <2>3. Len(p) \in Nat /\ \A i \in 1..Len(p) : p[i] \in S
    BY <1>1
  <2>4. \A i \in 1..Len(p) : (Len(p) - i) + 1 \in 1..Len(p)
    BY <2>3
  <2>5. \A i \in 1..Len(p) : p[(Len(p) - i) + 1] \in S
    BY <2>3, <2>4
  <2>. QED BY <2>2, <2>3, <2>5
<1>. QED BY <1>1, <1>2

Targets(m, p) == LeafTargets(m, p.trans.to)
Dom(m, p) == LCCA(m, p.source, Head(Targets(m, p)))
Firings(m) == [source : StateIDs(m), trans : ToSet(m.transitions)]

\* The domain of a transition is None or above its source and first target.
LEMMA DomIs ==
  ASSUME NEW m, WellFormed(m), NEW p \in Firings(m)
  PROVE  /\ p.source \in StateIDs(m) /\ p.trans.from \in StateIDs(m) /\ p.trans.to \in StateIDs(m)
         /\ Targets(m, p) \in Seq(StateIDs(m)) /\ Targets(m, p) # <<>>
         /\ Head(Targets(m, p)) \in ToSet(Targets(m, p))
         /\ Dom(m, p) = None \/
                /\ Dom(m, p) \in StateIDs(m)
                /\ IsDescendantOf(m, p.source, Dom(m, p))
                /\ IsDescendantOf(m, Head(Targets(m, p)), Dom(m, p))
         /\ \A a \in StateIDs(m) :
                IsDescendantOf(m, p.source, a) /\ IsDescendantOf(m, Head(Targets(m, p)), a) =>
                    Dom(m, p) # None /\ Within(m, Dom(m, p), a)
<1> DEFINE S == StateIDs(m)
           h == Head(Targets(m, p))
           d == Dom(m, p)
           A == {a \in S : IsDescendantOf(m, p.source, a) /\ IsDescendantOf(m, h, a)}
<1>1. p.source \in S /\ p.trans \in ToSet(m.transitions)
  BY DEF Firings
<1>2. p.trans.from \in S /\ p.trans.to \in S
  <2>1. PICK k \in DOMAIN m.transitions : p.trans = m.transitions[k]
    BY <1>1 DEF ToSet
  <2>. QED BY <2>1 DEF WellFormed
<1>3. Targets(m, p) \in Seq(S) /\ Targets(m, p) # <<>>
  BY <1>2, LeafTargetsAre DEF Targets
<1>4. h \in ToSet(Targets(m, p)) /\ h \in S
  BY <1>3 DEF ToSet
<1>5. IF A = {} THEN d = None ELSE d \in A /\ \A a \in A : Within(m, d, a)
  <2>1. d = LCCA(m, p.source, h)
    BY DEF Dom
  <2> HIDE DEF d, h
  <2>. QED BY <1>1, <1>4, <2>1, LCCAIs
<1> HIDE DEF h, d
<1>6. d = None \/ (d \in S /\ IsDescendantOf(m, p.source, d) /\ IsDescendantOf(m, h, d))
  BY <1>5
<1>7. ASSUME NEW a \in S, IsDescendantOf(m, p.source, a), IsDescendantOf(m, h, a) PROVE d # None /\ Within(m, d, a)
  <2>1. a \in A
    BY <1>7
  <2>2. d \in A /\ Within(m, d, a)
    BY <1>5, <2>1
  <2>3. d \in S
    BY <2>2
  <2>4. d # None
    BY <2>3, OrderedTree
  <2>. QED BY <2>2, <2>4
<1>. QED BY <1>1, <1>2, <1>3, <1>4, <1>6, <1>7 DEF h, d

\* What Macrostep leaves active: the leaves without a transition, and the
\* targets of those with one.
LEMMA MacrostepLeaves ==
  ASSUME NEW m, WellFormed(m), NEW ls \in Seq(StateIDs(m)), NEW pend \in Seq(Firings(m)),
         \A p, u \in ToSet(pend) : p.source = u.source => p = u
  PROVE  /\ Macrostep(m, ls, pend).leaves \in Seq(StateIDs(m))
         /\ \A x : x \in ToSet(Macrostep(m, ls, pend).leaves) <=>
                \E l \in ToSet(ls) :
                    \/ (\A p \in ToSet(pend) : p.source # l) /\ x = l
                    \/ \E p \in ToSet(pend) : p.source = l /\ x \in ToSet(Targets(m, p))
<1> DEFINE S == StateIDs(m)
           n == Len(pend)
           I(l) == {i \in 1..n : pend[i].source = l}
           k(l) == IF I(l) # {} THEN Min(I(l)) ELSE 0
           r(l) == IF k(l) = 0 THEN <<l>> ELSE LeafTargets(m, pend[k(l)].trans.to)
           g == [l \in S |-> r(l)]
<1>1. Macrostep(m, ls, pend).leaves = FlattenSeq([i \in DOMAIN ls |-> r(ls[i])])
  BY DEF Macrostep, ForEach, SelectInSeq
<1>2. n \in Nat /\ \A i \in 1..n : pend[i] \in Firings(m)
  OBVIOUS
<1>3. \A p : p \in ToSet(pend) <=> \E i \in 1..n : p = pend[i]
  <2>1. DOMAIN pend = 1..n
    OBVIOUS
  <2>. QED BY <2>1 DEF ToSet
<1> HIDE DEF n
<1>4. ASSUME NEW l \in S
      PROVE  \/ (\A p \in ToSet(pend) : p.source # l) /\ r(l) = <<l>>
             \/ \E p \in ToSet(pend) : p.source = l /\ r(l) = Targets(m, p)
  <2>1. CASE I(l) = {}
    BY <1>3, <2>1
  <2>2. CASE I(l) # {}
    <3>1. I(l) \subseteq Nat \ {0}
      BY <1>2
    <3>2. k(l) \in I(l)
      <4> HIDE DEF I
      <4>1. I(l) \subseteq Nat
        BY <3>1
      <4>. QED BY <2>2, <4>1, MinIsLeast
    <3>3. k(l) # 0 /\ k(l) \in 1..n
      <4> HIDE DEF k
      <4>. QED BY <3>1, <3>2
    <3>4. pend[k(l)].source = l
      <4> HIDE DEF k
      <4>. QED BY <3>2
    <3> HIDE DEF k
    <3>. QED BY <1>3, <3>3, <3>4 DEF Targets
  <2>. QED BY <2>1, <2>2
<1> HIDE DEF r
<1>5. ASSUME NEW l \in S PROVE r(l) \in Seq(S)
  <2>1. <<l>> \in Seq(S)
    OBVIOUS
  <2>2. \A p \in ToSet(pend) : Targets(m, p) \in Seq(S)
    BY <1>2, <1>3, DomIs
  <2>. QED BY <1>4, <2>1, <2>2
<1>6. g \in [S -> Seq(S)]
  BY <1>5
<1>7. [i \in DOMAIN ls |-> r(ls[i])] = [i \in DOMAIN ls |-> g[ls[i]]]
  OBVIOUS
<1>8. Macrostep(m, ls, pend).leaves = MapOf(ls, g)
  <2> HIDE DEF g
  <2>. QED BY <1>1, <1>7 DEF MapOf
<1>9. \A l \in ToSet(ls) : g[l] = r(l) /\ l \in S
  BY DEF ToSet
<1> HIDE DEF g
<1>10. MapOf(ls, g) \in Seq(S) /\ \A x : x \in ToSet(MapOf(ls, g)) <=> \E y \in ToSet(ls) : x \in ToSet(g[y])
  BY <1>6, MapElements
<1>11. ASSUME NEW x, x \in ToSet(MapOf(ls, g))
       PROVE  \E l \in ToSet(ls) :
                    \/ (\A p \in ToSet(pend) : p.source # l) /\ x = l
                    \/ \E p \in ToSet(pend) : p.source = l /\ x \in ToSet(Targets(m, p))
  <2>1. PICK l \in ToSet(ls) : x \in ToSet(r(l))
    BY <1>9, <1>10, <1>11
  <2>2. l \in S
    BY <1>9
  <2>. QED BY <1>4, <2>1, <2>2, ToSetSmall
<1>12. ASSUME NEW x, NEW l \in ToSet(ls),
                    \/ (\A p \in ToSet(pend) : p.source # l) /\ x = l
                    \/ \E p \in ToSet(pend) : p.source = l /\ x \in ToSet(Targets(m, p))
       PROVE  x \in ToSet(MapOf(ls, g))
  <2>1. l \in S
    BY <1>9
  <2>2. x \in ToSet(r(l))
    BY <1>4, <1>12, <2>1, ToSetSmall
  <2>. QED BY <1>9, <1>10, <2>2
<1>. QED BY <1>8, <1>10, <1>11, <1>12

\* Entry paths one after the other: a state of Distinct(seq) comes after the
\* states above it on a path of its own.
LEMMA EntryOrder ==
  ASSUME NEW m, WellFormed(m), NEW seq \in Seq(StateIDs(m)), NEW Ends,
         \A e \in Ends : /\ e[2] \in StateIDs(m) /\ ~IsCompound(m, e[2])
                         /\ e[1] = None \/ Within(m, e[2], e[1]),
         Prefixed(seq, {EntryPath(m, e[1], e[2]) : e \in Ends})
  PROVE  \A a, b \in 1..Len(Distinct(seq)) : a < b =>
            \E e \in Ends :
                /\ Within(m, e[2], Distinct(seq)[a]) /\ Inside(m, Distinct(seq)[a], e[1])
                /\ ~(Within(m, Distinct(seq)[a], Distinct(seq)[b]) /\ Inside(m, Distinct(seq)[b], e[1]))
<1> DEFINE S == StateIDs(m)
           dd == Distinct(seq)
           Paths == {EntryPath(m, e[1], e[2]) : e \in Ends}
<1>1. dd \in Seq(S) /\ \A a, b \in 1..Len(dd) : a < b =>
                \E i \in 1..Len(seq) : seq[i] = dd[a] /\ \A k \in 1..i : seq[k] # dd[b]
  BY DistinctIs
<1> HIDE DEF dd
<1>2. ASSUME NEW a \in 1..Len(dd), NEW b \in 1..Len(dd), a < b
      PROVE  \E e \in Ends :
                /\ Within(m, e[2], dd[a]) /\ Inside(m, dd[a], e[1])
                /\ ~(Within(m, dd[a], dd[b]) /\ Inside(m, dd[b], e[1]))
  <2>1. PICK i \in 1..Len(seq) : seq[i] = dd[a] /\ \A k \in 1..i : seq[k] # dd[b]
    BY <1>1, <1>2
  <2>2. PICK p \in Paths : \E o \in 1..Len(p) :
            seq[i] = p[o] /\ \A u \in 1..o : \E k \in 1..i : seq[k] = p[u]
    <3> HIDE DEF Paths
    <3>1. Prefixed(seq, Paths)
      BY DEF Paths
    <3>. QED BY <3>1 DEF Prefixed
  <2>3. PICK o \in 1..Len(p) : seq[i] = p[o] /\ \A u \in 1..o : \E k \in 1..i : seq[k] = p[u]
    BY <2>2
  <2>4. PICK e \in Ends : p = EntryPath(m, e[1], e[2])
    OBVIOUS
  <2>5. e[2] \in S /\ ~IsCompound(m, e[2]) /\ (e[1] = None \/ Within(m, e[2], e[1]))
    OBVIOUS
  <2>6. /\ p \in Seq(S) /\ ToSet(p) = {x \in S : Within(m, e[2], x) /\ Inside(m, x, e[1])}
        /\ \A x, y \in 1..Len(p) : x <= y <=> Within(m, p[y], p[x])
    BY <2>4, <2>5, EntryPathIs
  <2>7. Len(p) \in Nat /\ DOMAIN p = 1..Len(p)
    BY <2>6
  <2>8. \A x : x \in ToSet(p) <=> \E u \in 1..Len(p) : x = p[u]
    BY <2>7 DEF ToSet
  <2>9. dd[a] \in ToSet(p)
    BY <2>1, <2>3, <2>8
  <2>10. ASSUME Within(m, dd[a], dd[b]), Inside(m, dd[b], e[1]) PROVE FALSE
    <3>1. dd[a] \in S /\ dd[b] \in S
      BY <1>1
    <3>2. Within(m, e[2], dd[b])
      BY <2>5, <2>6, <2>9, <2>10, <3>1, WithinIsTree
    <3>3. PICK u \in 1..Len(p) : dd[b] = p[u]
      BY <2>6, <2>8, <2>10, <3>1, <3>2
    <3>4. u <= o
      BY <2>1, <2>3, <2>6, <2>10, <3>3
    <3>5. u \in 1..o
      BY <2>7, <3>4
    <3>. QED BY <2>1, <2>3, <3>3, <3>5
  <2>. QED BY <2>6, <2>9, <2>10
<1>. QED BY <1>2 DEF dd

\* What Macrostep exits.
LEMMA MacrostepExits ==
  ASSUME NEW m, WellFormed(m), NEW ls, NEW pend \in Seq(Firings(m))
  PROVE  /\ Macrostep(m, ls, pend).exit \in Seq(StateIDs(m))
         /\ \A x : x \in ToSet(Macrostep(m, ls, pend).exit) <=>
                \E p \in ToSet(pend) : Within(m, p.source, x) /\ Inside(m, x, Dom(m, p))
         /\ \A a, b \in 1..Len(Macrostep(m, ls, pend).exit) : a < b =>
                Depth(m, Macrostep(m, ls, pend).exit[b]) <= Depth(m, Macrostep(m, ls, pend).exit[a])
<1> DEFINE S == StateIDs(m)
           f == [p \in Firings(m) |-> ExitPath(m, p.source, Dom(m, p))]
           exits == MapOf(pend, f)
           X == Macrostep(m, ls, pend).exit
<1>1. \A p \in ToSet(pend) : p \in Firings(m)
  BY DEF ToSet
<1>2. ASSUME NEW p \in Firings(m)
      PROVE  /\ p.source \in S /\ ExitPath(m, p.source, Dom(m, p)) \in Seq(S)
             /\ ToSet(ExitPath(m, p.source, Dom(m, p))) =
                    {x \in S : Within(m, p.source, x) /\ Inside(m, x, Dom(m, p))}
  <2>1. p.source \in S
    BY DomIs
  <2>2. Dom(m, p) = None \/ Within(m, p.source, Dom(m, p))
    BY DomIs, WithinIsTree
  <2>. QED BY <2>1, <2>2, ExitPathIs
<1>3. f \in [Firings(m) -> Seq(S)]
  BY <1>2
<1>4. X = DeepestFirst(m, exits)
  <2>1. [i \in DOMAIN pend |-> ExitPath(m, pend[i].source, Dom(m, pend[i]))] = [i \in DOMAIN pend |-> f[pend[i]]]
    OBVIOUS
  <2>2. X = DeepestFirst(m, FlattenSeq([i \in DOMAIN pend |-> ExitPath(m, pend[i].source, Dom(m, pend[i]))]))
    BY DEF Macrostep, ForEach, Dom, Targets
  <2> HIDE DEF f, X
  <2>. QED BY <2>1, <2>2 DEF MapOf
<1>5. \A p \in ToSet(pend) : ToSet(f[p]) = {x \in S : Within(m, p.source, x) /\ Inside(m, x, Dom(m, p))}
  BY <1>1, <1>2
<1> HIDE DEF f, X
<1>6. exits \in Seq(S) /\ \A x : x \in ToSet(exits) <=> \E p \in ToSet(pend) : x \in ToSet(f[p])
  BY <1>3, MapElements
<1> HIDE DEF exits
<1>7. /\ X \in Seq(S) /\ ToSet(X) = ToSet(exits)
      /\ \A a, b \in 1..Len(X) : a < b => Depth(m, X[b]) <= Depth(m, X[a])
  BY <1>4, <1>6, DeepestFirstIs
<1>8. ASSUME NEW x PROVE x \in ToSet(X) <=> \E p \in ToSet(pend) : Within(m, p.source, x) /\ Inside(m, x, Dom(m, p))
  <2>1. ASSUME x \in ToSet(X) PROVE \E p \in ToSet(pend) : Within(m, p.source, x) /\ Inside(m, x, Dom(m, p))
    BY <1>5, <1>6, <1>7, <2>1
  <2>2. ASSUME NEW p \in ToSet(pend), Within(m, p.source, x), Inside(m, x, Dom(m, p)) PROVE x \in ToSet(X)
    <3>1. x \in S
      BY <1>1, <1>2, <2>2, WithinUnfolds
    <3>. QED BY <1>5, <1>6, <1>7, <2>2, <3>1
  <2>. QED BY <2>1, <2>2
<1>. QED BY <1>7, <1>8 DEF X

\* What Macrostep enters, and in which order when every path begins below the
\* domain of its transition.
LEMMA MacrostepEntries ==
  ASSUME NEW m, WellFormed(m), NEW ls, NEW pend \in Seq(Firings(m))
  PROVE  /\ Macrostep(m, ls, pend).entry \in Seq(StateIDs(m))
         /\ \A a, b \in 1..Len(Macrostep(m, ls, pend).entry) :
                a < b => Macrostep(m, ls, pend).entry[a] # Macrostep(m, ls, pend).entry[b]
         /\ (\A p \in ToSet(pend) : \A h \in ToSet(Targets(m, p)) :
                Dom(m, p) = None \/ Within(m, h, Dom(m, p))) =>
            /\ \A x : x \in ToSet(Macrostep(m, ls, pend).entry) <=>
                \E p \in ToSet(pend) : \E h \in ToSet(Targets(m, p)) :
                    Within(m, h, x) /\ Inside(m, x, Dom(m, p))
            /\ \A a, b \in 1..Len(Macrostep(m, ls, pend).entry) : a < b =>
                \E p \in ToSet(pend) : \E h \in ToSet(Targets(m, p)) :
                    LET x == Macrostep(m, ls, pend).entry[a]
                        y == Macrostep(m, ls, pend).entry[b]
                    IN  /\ Within(m, h, x) /\ Inside(m, x, Dom(m, p))
                        /\ ~(Within(m, x, y) /\ Inside(m, y, Dom(m, p)))
<1> DEFINE S == StateIDs(m)
           A == {s \in S : ~IsCompound(m, s)}
           g(p) == [h \in A |-> EntryPath(m, Dom(m, p), h)]
           f == [p \in Firings(m) |-> MapOf(Targets(m, p), g(p))]
           entries == MapOf(pend, f)
           X == Macrostep(m, ls, pend).entry
<1>1. \A p \in ToSet(pend) : p \in Firings(m)
  BY DEF ToSet
<1>2. ASSUME NEW p \in Firings(m)
      PROVE  /\ Targets(m, p) \in Seq(A) /\ g(p) \in [A -> Seq(S)]
             /\ \A h \in ToSet(Targets(m, p)) : h \in A
             /\ [i \in DOMAIN Targets(m, p) |-> g(p)[Targets(m, p)[i]]] =
                [i \in DOMAIN Targets(m, p) |-> EntryPath(m, Dom(m, p), Targets(m, p)[i])]
  <2>1. Targets(m, p) \in Seq(S)
    BY DomIs
  <2>2. \A h \in ToSet(Targets(m, p)) : h \in A
    BY DomIs, LeafTargetsAre DEF Targets
  <2>3. \A i \in DOMAIN Targets(m, p) : Targets(m, p)[i] \in A
    <3> HIDE DEF A
    <3>. QED BY <2>2 DEF ToSet
  <2> HIDE DEF A
  <2>4. Targets(m, p) \in Seq(A)
    BY <2>1, <2>3
  <2>5. \A h \in A : EntryPath(m, Dom(m, p), h) \in Seq(S)
    BY PathTypes DEF A
  <2>6. g(p) \in [A -> Seq(S)]
    BY <2>5
  <2>7. \A i \in DOMAIN Targets(m, p) : g(p)[Targets(m, p)[i]] = EntryPath(m, Dom(m, p), Targets(m, p)[i])
    BY <2>3
  <2> HIDE DEF g
  <2>8. [i \in DOMAIN Targets(m, p) |-> g(p)[Targets(m, p)[i]]] =
                [i \in DOMAIN Targets(m, p) |-> EntryPath(m, Dom(m, p), Targets(m, p)[i])]
    BY <2>7
  <2>. QED BY <2>2, <2>4, <2>6, <2>8
<1>3. ASSUME NEW p \in Firings(m)
      PROVE  /\ f[p] \in Seq(S)
             /\ f[p] = FlattenSeq([i \in DOMAIN Targets(m, p) |-> EntryPath(m, Dom(m, p), Targets(m, p)[i])])
             /\ \A x : x \in ToSet(f[p]) <=>
                    \E h \in ToSet(Targets(m, p)) : x \in ToSet(EntryPath(m, Dom(m, p), h))
             /\ \A Q : (\A h \in ToSet(Targets(m, p)) : Prefixed(EntryPath(m, Dom(m, p), h), Q)) =>
                            Prefixed(f[p], Q)
  <2>1. f[p] = MapOf(Targets(m, p), g(p))
    OBVIOUS
  <2> HIDE DEF f, A
  <2>2. \A h \in ToSet(Targets(m, p)) : g(p)[h] = EntryPath(m, Dom(m, p), h)
    BY <1>2
  <2>3. Targets(m, p) \in Seq(A) /\ g(p) \in [A -> Seq(S)]
    BY <1>2
  <2>4. f[p] = FlattenSeq([i \in DOMAIN Targets(m, p) |-> EntryPath(m, Dom(m, p), Targets(m, p)[i])])
    <3> HIDE DEF g
    <3>. QED BY <1>2, <2>1 DEF MapOf
  <2> HIDE DEF g
  <2> DEFINE ts == Targets(m, p)
             fp == f[p]
             gp == g(p)
  <2>5. /\ fp \in Seq(S)
        /\ \A x : x \in ToSet(fp) <=> \E h \in ToSet(ts) : x \in ToSet(gp[h])
        /\ \A Q : (\A h \in ToSet(ts) : Prefixed(gp[h], Q)) => Prefixed(fp, Q)
    <3>1. fp = MapOf(ts, gp) /\ ts \in Seq(A) /\ gp \in [A -> Seq(S)]
      BY <2>1, <2>3
    <3> HIDE DEF ts, gp, fp
    <3>2. /\ MapOf(ts, gp) \in Seq(S)
          /\ \A x : x \in ToSet(MapOf(ts, gp)) <=> \E h \in ToSet(ts) : x \in ToSet(gp[h])
          /\ \A Q : (\A h \in ToSet(ts) : Prefixed(gp[h], Q)) => Prefixed(MapOf(ts, gp), Q)
      BY <3>1, MapElements
    <3>. QED BY <3>1, <3>2
  <2>6. \A x : (\E h \in ToSet(Targets(m, p)) : x \in ToSet(g(p)[h])) <=>
                    \E h \in ToSet(Targets(m, p)) : x \in ToSet(EntryPath(m, Dom(m, p), h))
    BY <2>2
  <2>7. ASSUME NEW Q, \A h \in ToSet(Targets(m, p)) : Prefixed(EntryPath(m, Dom(m, p), h), Q)
        PROVE  Prefixed(f[p], Q)
    BY <2>2, <2>5, <2>7
  <2>. QED BY <2>4, <2>5, <2>6, <2>7
<1>4. f \in [Firings(m) -> Seq(S)]
  <2>1. f = [p \in Firings(m) |-> f[p]]
    OBVIOUS
  <2> HIDE DEF f
  <2>. QED BY <1>3, <2>1
<1>5. X = Distinct(entries)
  <2>1. \A i \in DOMAIN pend : f[pend[i]] =
            FlattenSeq([j \in DOMAIN Targets(m, pend[i]) |-> EntryPath(m, Dom(m, pend[i]), Targets(m, pend[i])[j])])
    <3> HIDE DEF f
    <3>. QED BY <1>1, <1>3 DEF ToSet
  <2> HIDE DEF f
  <2>2. [i \in DOMAIN pend |-> f[pend[i]]] =
        [i \in DOMAIN pend |->
            FlattenSeq([j \in DOMAIN Targets(m, pend[i]) |-> EntryPath(m, Dom(m, pend[i]), Targets(m, pend[i])[j])])]
    BY <2>1
  <2>3. X = Distinct(FlattenSeq([i \in DOMAIN pend |->
            FlattenSeq([j \in DOMAIN Targets(m, pend[i]) |-> EntryPath(m, Dom(m, pend[i]), Targets(m, pend[i])[j])])]))
    BY DEF Macrostep, ForEach, Dom, Targets
  <2> HIDE DEF X
  <2>. QED BY <2>2, <2>3 DEF MapOf
<1> HIDE DEF f, g, A, X
<1>6. /\ entries \in Seq(S)
      /\ \A x : x \in ToSet(entries) <=> \E p \in ToSet(pend) : x \in ToSet(f[p])
      /\ \A Q : (\A p \in ToSet(pend) : Prefixed(f[p], Q)) => Prefixed(entries, Q)
  BY <1>4, MapElements
<1> HIDE DEF entries
<1>7. /\ X \in Seq(S) /\ ToSet(X) = ToSet(entries)
      /\ \A a, b \in 1..Len(X) : a < b => X[a] # X[b]
  <2>1. /\ X \in Seq(S) /\ ToSet(X) = ToSet(entries)
        /\ \A a, b \in 1..Len(X) : a < b =>
                \E i \in 1..Len(entries) : /\ entries[i] = X[a]
                                           /\ \A k \in 1..i : entries[k] # X[b]
    BY <1>5, <1>6, DistinctIs
  <2>2. ASSUME NEW a \in 1..Len(X), NEW b \in 1..Len(X), a < b PROVE X[a] # X[b]
    <3>1. PICK i \in 1..Len(entries) : entries[i] = X[a] /\ \A k \in 1..i : entries[k] # X[b]
      BY <2>1, <2>2
    <3>2. i \in 1..i
      BY <1>6
    <3>. QED BY <3>1, <3>2
  <2>. QED BY <2>1, <2>2
<1> SUFFICES ASSUME \A p \in ToSet(pend) : \A h \in ToSet(Targets(m, p)) :
                        Dom(m, p) = None \/ Within(m, h, Dom(m, p))
             PROVE  /\ \A x : x \in ToSet(X) <=>
                        \E p \in ToSet(pend) : \E h \in ToSet(Targets(m, p)) :
                            Within(m, h, x) /\ Inside(m, x, Dom(m, p))
                    /\ \A a, b \in 1..Len(X) : a < b =>
                        \E p \in ToSet(pend) : \E h \in ToSet(Targets(m, p)) :
                            /\ Within(m, h, X[a]) /\ Inside(m, X[a], Dom(m, p))
                            /\ ~(Within(m, X[a], X[b]) /\ Inside(m, X[b], Dom(m, p)))
  BY <1>7 DEF X
<1>8. ASSUME NEW p \in ToSet(pend), NEW h \in ToSet(Targets(m, p))
      PROVE  /\ h \in S /\ ~IsCompound(m, h)
             /\ EntryPath(m, Dom(m, p), h) \in Seq(S)
             /\ ToSet(EntryPath(m, Dom(m, p), h)) = {x \in S : Within(m, h, x) /\ Inside(m, x, Dom(m, p))}
  <2>1. h \in S /\ ~IsCompound(m, h)
    BY <1>1, <1>2 DEF A
  <2>. QED BY <2>1, EntryPathIs
<1>9. ASSUME NEW x
      PROVE  x \in ToSet(X) <=> \E p \in ToSet(pend) : \E h \in ToSet(Targets(m, p)) :
                            Within(m, h, x) /\ Inside(m, x, Dom(m, p))
  <2>1. ASSUME x \in ToSet(X)
        PROVE  \E p \in ToSet(pend) : \E h \in ToSet(Targets(m, p)) : Within(m, h, x) /\ Inside(m, x, Dom(m, p))
    <3>1. PICK p \in ToSet(pend) : x \in ToSet(f[p])
      BY <1>6, <1>7, <2>1
    <3>2. PICK h \in ToSet(Targets(m, p)) : x \in ToSet(EntryPath(m, Dom(m, p), h))
      BY <1>1, <1>3, <3>1
    <3>. QED BY <1>8, <3>2
  <2>2. ASSUME NEW p \in ToSet(pend), NEW h \in ToSet(Targets(m, p)), Within(m, h, x), Inside(m, x, Dom(m, p))
        PROVE  x \in ToSet(X)
    <3>1. x \in S
      BY <1>8, <2>2, WithinUnfolds
    <3>2. x \in ToSet(EntryPath(m, Dom(m, p), h))
      BY <1>8, <2>2, <3>1
    <3>3. x \in ToSet(f[p])
      BY <1>1, <1>3, <3>2
    <3>. QED BY <1>6, <1>7, <3>3
  <2>. QED BY <2>1, <2>2
<1> DEFINE Tips == {<<Dom(m, p), h>> : p \in ToSet(pend), h \in S}
           Real == {e \in Tips : \E p \in ToSet(pend) : e[1] = Dom(m, p) /\ e[2] \in ToSet(Targets(m, p))}
           Tracks == {EntryPath(m, e[1], e[2]) : e \in Real}
<1>10. \A p \in ToSet(pend) : \A h \in ToSet(Targets(m, p)) : EntryPath(m, Dom(m, p), h) \in Tracks
  <2> TAKE p \in ToSet(pend)
  <2> TAKE h \in ToSet(Targets(m, p))
  <2> DEFINE e == <<Dom(m, p), h>>
  <2>1. e[1] = Dom(m, p) /\ e[2] = h
    OBVIOUS
  <2>2. e \in Real
    BY <1>8
  <2> HIDE DEF e, Real
  <2>. QED BY <2>1, <2>2
<1>11. Prefixed(entries, Tracks)
  <2> HIDE DEF Tracks
  <2>1. \A p \in ToSet(pend) : \A h \in ToSet(Targets(m, p)) : Prefixed(EntryPath(m, Dom(m, p), h), Tracks)
    BY <1>8, <1>10, PathsArePrefixed
  <2>2. \A p \in ToSet(pend) : Prefixed(f[p], Tracks)
    BY <1>1, <1>3, <2>1
  <2>. QED BY <1>6, <2>2
<1>12. \A e \in Real : \E p \in ToSet(pend) : e[1] = Dom(m, p) /\ e[2] \in ToSet(Targets(m, p))
  OBVIOUS
<1> HIDE DEF Real
<1>13. \A e \in Real : /\ e[2] \in StateIDs(m) /\ ~IsCompound(m, e[2])
                       /\ e[1] = None \/ Within(m, e[2], e[1])
  BY <1>8, <1>12
<1>14. ASSUME NEW a \in 1..Len(X), NEW b \in 1..Len(X), a < b
       PROVE  \E p \in ToSet(pend) : \E h \in ToSet(Targets(m, p)) :
                            /\ Within(m, h, X[a]) /\ Inside(m, X[a], Dom(m, p))
                            /\ ~(Within(m, X[a], X[b]) /\ Inside(m, X[b], Dom(m, p)))
  <2>1. PICK e \in Real :
                /\ Within(m, e[2], X[a]) /\ Inside(m, X[a], e[1])
                /\ ~(Within(m, X[a], X[b]) /\ Inside(m, X[b], e[1]))
    BY <1>5, <1>6, <1>11, <1>13, <1>14, EntryOrder
  <2>. QED BY <1>12, <2>1
<1>. QED BY <1>9, <1>14

\* What Start enters.
StartEntries(m, ls) == Distinct(ForEach(ls, LAMBDA l : EntryPath(m, None, l)))

\* Every active state, outer ones first.
LEMMA InitialEntries ==
  ASSUME NEW m, WellFormed(m), NEW ls \in Seq(StateIDs(m)), \A l \in ToSet(ls) : ~IsCompound(m, l)
  PROVE  LET X == StartEntries(m, ls)
         IN  /\ X \in Seq(StateIDs(m))
             /\ \A x : x \in ToSet(X) <=> \E l \in ToSet(ls) : Within(m, l, x)
             /\ \A a, b \in 1..Len(X) : a < b => ~Within(m, X[a], X[b])
<1> DEFINE S == StateIDs(m)
           A == {s \in S : ~IsCompound(m, s)}
           f == [l \in A |-> EntryPath(m, None, l)]
           seq == MapOf(ls, f)
           X == Distinct(ForEach(ls, LAMBDA l : EntryPath(m, None, l)))
           Ends == {<<None, l>> : l \in ToSet(ls)}
           Tracks == {EntryPath(m, e[1], e[2]) : e \in Ends}
<1>1. \A l \in A : l \in S /\ EntryPath(m, None, l) \in Seq(S) /\ ToSet(EntryPath(m, None, l)) = {x \in S : Within(m, l, x)}
  BY EntryPathIs DEF Inside
<1>2. \A l \in ToSet(ls) : l \in A
  BY DEF ToSet
<1>3. \A i \in DOMAIN ls : ls[i] \in A
  <2> HIDE DEF A
  <2>. QED BY <1>2 DEF ToSet
<1> HIDE DEF A
<1>4. ls \in Seq(A)
  BY <1>3
<1>5. f \in [A -> Seq(S)] /\ (\A l \in A : f[l] = EntryPath(m, None, l))
  BY <1>1
<1>6. X = Distinct(seq)
  <2>1. [i \in DOMAIN ls |-> f[ls[i]]] = [i \in DOMAIN ls |-> EntryPath(m, None, ls[i])]
    BY <1>3
  <2> HIDE DEF f
  <2>. QED BY <2>1 DEF MapOf, ForEach
<1> HIDE DEF f, X
<1>7. /\ seq \in Seq(S)
      /\ \A x : x \in ToSet(seq) <=> \E l \in ToSet(ls) : x \in ToSet(f[l])
      /\ \A Q : (\A l \in ToSet(ls) : Prefixed(f[l], Q)) => Prefixed(seq, Q)
  BY <1>4, <1>5, MapElements
<1> HIDE DEF seq
<1>8. X \in Seq(S) /\ ToSet(X) = ToSet(seq)
  BY <1>6, <1>7, DistinctIs
<1>9. ASSUME NEW x PROVE x \in ToSet(X) <=> \E l \in ToSet(ls) : Within(m, l, x)
  <2>1. ASSUME x \in ToSet(X) PROVE \E l \in ToSet(ls) : Within(m, l, x)
    <3>1. PICK l \in ToSet(ls) : x \in ToSet(f[l])
      BY <1>7, <1>8, <2>1
    <3>. QED BY <1>1, <1>2, <1>5, <3>1
  <2>2. ASSUME NEW l \in ToSet(ls), Within(m, l, x) PROVE x \in ToSet(X)
    <3>1. x \in S
      BY <1>1, <1>2, <2>2, WithinUnfolds
    <3>2. x \in ToSet(f[l])
      BY <1>1, <1>2, <1>5, <2>2, <3>1
    <3>. QED BY <1>7, <1>8, <3>2
  <2>. QED BY <2>1, <2>2
<1>10. \A e \in Ends : e[1] = None /\ e[2] \in ToSet(ls)
  OBVIOUS
<1>11. \A l \in ToSet(ls) : EntryPath(m, None, l) \in Tracks
  <2> TAKE l \in ToSet(ls)
  <2> DEFINE e == <<None, l>>
  <2>1. e \in Ends /\ e[1] = None /\ e[2] = l
    OBVIOUS
  <2> HIDE DEF Ends, e
  <2>. QED BY <2>1
<1>12. Prefixed(seq, Tracks)
  <2> HIDE DEF Tracks
  <2>1. \A l \in ToSet(ls) : Prefixed(EntryPath(m, None, l), Tracks)
    BY <1>1, <1>2, <1>11, PathsArePrefixed
  <2>. QED BY <1>2, <1>5, <1>7, <2>1
<1>13. ASSUME NEW a \in 1..Len(X), NEW b \in 1..Len(X), a < b PROVE ~Within(m, X[a], X[b])
  <2> HIDE DEF Ends
  <2>1. \A e \in Ends : /\ e[2] \in StateIDs(m) /\ ~IsCompound(m, e[2])
                        /\ e[1] = None \/ Within(m, e[2], e[1])
    BY <1>2, <1>10 DEF A
  <2>2. PICK e \in Ends :
                /\ Within(m, e[2], X[a]) /\ Inside(m, X[a], e[1])
                /\ ~(Within(m, X[a], X[b]) /\ Inside(m, X[b], e[1]))
    BY <1>6, <1>7, <1>12, <1>13, <2>1, EntryOrder
  <2>. QED BY <1>10, <2>2 DEF Inside
<1>14. X = StartEntries(m, ls)
  BY DEF X, StartEntries
<1>. QED BY <1>8, <1>9, <1>13, <1>14

-----------------------------------------------------------------------------
(* Done events.                                                            *)

LEMMA DoneEventsTypes ==
  ASSUME NEW m, WellFormed(m), NEW ls, NEW entry \in Seq(StateIDs(m))
  PROVE  DoneEvents(m, ls, entry) \in Seq({DoneEvent(s) : s \in StateIDs(m)})
<1> DEFINE S == StateIDs(m)
           E == {DoneEvent(s) : s \in S}
           up == [s \in S |-> Tail(Chain(m, s))]
           f == [s \in S |-> IF CompoundIsDone(m, ls, s) THEN <<DoneEvent(s)>> ELSE <<>>]
           above == ForEach(entry, LAMBDA s : Tail(Chain(m, s)))
<1>1. up \in [S -> Seq(S)] /\ \A s \in S : up[s] = Tail(Chain(m, s))
  <2>1. \A s \in S : Tail(Chain(m, s)) \in Seq(S)
    <3> TAKE s \in S
    <3>1. Chain(m, s) \in Seq(S) /\ Chain(m, s) # <<>>
      BY ChainShape
    <3>. QED BY <3>1, HeadTailProperties
  <2>. QED BY <2>1
<1>2. above = MapOf(entry, up)
  <2>1. [i \in DOMAIN entry |-> up[entry[i]]] = [i \in DOMAIN entry |-> Tail(Chain(m, entry[i]))]
    OBVIOUS
  <2> HIDE DEF up
  <2>. QED BY <2>1 DEF MapOf, ForEach
<1>3. above \in Seq(S)
  <2> HIDE DEF up, above
  <2>. QED BY <1>1, <1>2, MapElements
<1>4. f \in [S -> Seq(E)]
  <2>1. \A s \in S : <<DoneEvent(s)>> \in Seq(E)
    OBVIOUS
  <2>2. <<>> \in Seq(E)
    OBVIOUS
  <2> HIDE DEF E
  <2>. QED BY <2>1, <2>2
<1>5. DoneEvents(m, ls, entry) = OnceOf(above, f)
  <2>1. DoneEvents(m, ls, entry) = FlattenSeq([i \in DOMAIN above |->
            IF \E j \in 1..(i-1) : above[j] = above[i] THEN <<>>
            ELSE IF CompoundIsDone(m, ls, above[i]) THEN <<DoneEvent(above[i])>> ELSE <<>>])
    BY DEF DoneEvents, ForEachOnce
  <2> HIDE DEF above
  <2>2. \A i \in DOMAIN above : f[above[i]] =
            IF CompoundIsDone(m, ls, above[i]) THEN <<DoneEvent(above[i])>> ELSE <<>>
    BY <1>3
  <2> HIDE DEF f
  <2>3. [i \in DOMAIN above |-> IF \E j \in 1..(i-1) : above[j] = above[i] THEN <<>> ELSE f[above[i]]] =
        [i \in DOMAIN above |->
            IF \E j \in 1..(i-1) : above[j] = above[i] THEN <<>>
            ELSE IF CompoundIsDone(m, ls, above[i]) THEN <<DoneEvent(above[i])>> ELSE <<>>]
    BY <2>2
  <2>. QED BY <2>1, <2>3 DEF OnceOf
<1>6. OnceOf(above, f) \in Seq(E)
  <2> HIDE DEF above, f, E
  <2>. QED BY <1>3, <1>4, OnceElements
<1>. QED BY <1>5, <1>6

\* A sequence is empty when it has no element.
LEMMA NotEmpty ==
  ASSUME NEW S, NEW a \in Seq(S)
  PROVE  a # <<>> <=> \E x : x \in ToSet(a)
<1>1. ASSUME a # <<>> PROVE a[1] \in ToSet(a)
  BY <1>1 DEF ToSet
<1>2. ASSUME NEW x \in ToSet(a) PROVE a # <<>>
  BY <1>2 DEF ToSet
<1>. QED BY <1>1, <1>2

-----------------------------------------------------------------------------
(* Leaves that stand for a configuration.                                  *)

Active(m, L) == {s \in StateIDs(m) : \E l \in L : Within(m, l, s)}

\* Atomic states, two of which always lie in two regions of one parallel state,
\* and one at least in every region of a parallel state that holds any.
Whole(m, L) ==
  /\ L \subseteq StateIDs(m) /\ L # {}
  /\ \A l \in L : ~IsCompound(m, l)
  /\ \A l, h \in L : l # h => Apart(m, l, h)
  /\ \A l \in L : \A q \in AndStates(m) : \A r \in StateIDs(m) :
        q \in StateIDs(m) /\ Within(m, l, q) /\ m.parent[r] = q => \E h \in L : Within(m, h, r)

\* Every state lies in one top-level state.
LEMMA Root ==
  ASSUME NEW m, WellFormed(m)
  PROVE  \A s \in StateIDs(m) : \E r \in StateIDs(m) :
            m.parent[r] = None /\ Within(m, s, r) /\ \A x \in StateIDs(m) : Within(m, s, x) => Within(m, x, r)
<1>. DEFINE S == StateIDs(m)
            T == {s \in S : \E r \in S : /\ m.parent[r] = None /\ Within(m, s, r)
                                         /\ \A x \in S : Within(m, s, x) => Within(m, x, r)}
<1>1. \A s \in S : Within(m, s, s)
  BY WithinIsTree
<1>2. \A s \in S : \A x : Within(m, s, x) <=> x = s \/ (m.parent[s] # None /\ Within(m, m.parent[s], x))
  BY WithinUnfolds
<1>3. ASSUME NEW s \in S, m.parent[s] = None \/ m.parent[s] \in T PROVE s \in T
  <2>1. CASE m.parent[s] = None
    BY <1>1, <1>2, <2>1
  <2>2. CASE m.parent[s] # None
    <3>1. PICK r \in S : /\ m.parent[r] = None /\ Within(m, m.parent[s], r)
                         /\ \A x \in S : Within(m, m.parent[s], x) => Within(m, x, r)
      BY <1>3, <2>2
    <3>2. Within(m, s, r) /\ \A x \in S : Within(m, s, x) => Within(m, x, r)
      BY <1>2, <2>2, <3>1
    <3>. QED BY <3>1, <3>2
  <2>. QED BY <2>1, <2>2
<1>. HIDE DEF T
<1>4. \A s \in S : s \in T
  BY <1>3, InductionDown
<1>. QED BY <1>4 DEF T

\* They have one top-level state, every active state has an active parent, and
\* every active compound state has one active child, or all if it is parallel.
LEMMA WholeIsLegal ==
  ASSUME NEW m, WellFormed(m), NEW L, Whole(m, L)
  PROVE  LET C == Active(m, L)
         IN  /\ Cardinality({s \in C : m.parent[s] = None}) = 1
             /\ \A s \in C :
                /\ m.parent[s] # None => m.parent[s] \in C
                /\ s \in m.parallel => {c \in StateIDs(m) : m.parent[c] = s} \subseteq C
                /\ s \notin m.parallel /\ {c \in StateIDs(m) : m.parent[c] = s} # {} =>
                        Cardinality({c \in StateIDs(m) : m.parent[c] = s} \cap C) = 1
<1>. DEFINE S == StateIDs(m)
            C == Active(m, L)
            Kids(s) == {c \in S : m.parent[c] = s}
<1>1. L \subseteq S /\ \A l \in L : ~IsCompound(m, l)
  BY DEF Whole
<1>2. \A x : x \in C <=> x \in S /\ \E l \in L : Within(m, l, x)
  BY DEF Active
<1>3. \A s, p, q \in S : Within(m, s, p) /\ Within(m, p, q) => Within(m, s, q)
  BY WithinIsTree
<1>4. \A s, p, q \in S : Within(m, s, p) /\ Within(m, s, q) => Within(m, p, q) \/ Within(m, q, p)
  BY WithinIsTree
<1>5. \A s \in S : \A x : Within(m, s, x) <=> x = s \/ (m.parent[s] # None /\ Within(m, m.parent[s], x))
  BY WithinUnfolds
<1>6. \A s \in S : m.parent[s] # None => m.parent[s] \in S
  BY OrderedTree
<1>7. Cardinality({s \in C : m.parent[s] = None}) = 1
  <2>1. PICK l \in L : TRUE
    BY DEF Whole
  <2>2. PICK r \in S : m.parent[r] = None /\ Within(m, l, r)
    BY <1>1, <2>1, Root
  <2>3. ASSUME NEW x \in C, m.parent[x] = None PROVE x = r
    <3>1. PICK h \in L : Within(m, h, x)
      BY <1>2
    <3>2. CASE h = l
      BY <1>1, <1>2, <1>4, <1>5, <2>2, <2>3, <3>1, <3>2
    <3>3. CASE h # l
      <4>1. PICK q, p, u \in S : ApartAt(m, q, p, u, l, h)
        BY <3>3 DEF Whole, Apart
      <4>2. Within(m, l, q) /\ Within(m, h, q)
        BY <1>1, <4>1, ApartShares
      <4>3. Within(m, q, r) /\ Within(m, q, x)
        BY <1>1, <1>2, <1>4, <1>5, <2>2, <2>3, <3>1, <4>2
      <4>. QED BY <1>2, <1>4, <1>5, <2>2, <2>3, <4>3
    <3>. QED BY <3>2, <3>3
  <2>4. {s \in C : m.parent[s] = None} = {r}
    BY <1>2, <2>1, <2>2, <2>3
  <2>. QED BY <2>4, FS_Singleton
<1>8. ASSUME NEW s \in C, m.parent[s] # None PROVE m.parent[s] \in C
  <2>1. PICK l \in L : Within(m, l, s)
    BY <1>2
  <2>2. m.parent[s] \in S /\ Within(m, s, m.parent[s])
    <3>1. Within(m, m.parent[s], m.parent[s])
      BY <1>2, <1>6, <1>8, WithinIsTree
    <3>. QED BY <1>2, <1>5, <1>6, <1>8, <3>1
  <2>. QED BY <1>1, <1>2, <1>3, <2>1, <2>2
<1>9. ASSUME NEW s \in C, s \in m.parallel PROVE Kids(s) \subseteq C
  <2>1. PICK l \in L : Within(m, l, s)
    BY <1>2
  <2>2. ASSUME NEW r \in Kids(s) PROVE r \in C
    <3>1. s \in AndStates(m)
      BY <1>9, <2>2 DEF AndStates, IsCompound
    <3>2. \E h \in L : Within(m, h, r)
      BY <1>2, <2>1, <2>2, <3>1 DEF Whole
    <3>. QED BY <1>2, <2>2, <3>2
  <2>. QED BY <2>2
<1>10. ASSUME NEW s \in C, s \notin m.parallel, Kids(s) # {}
       PROVE  Cardinality(Kids(s) \cap C) = 1
  <2>1. PICK l \in L : Within(m, l, s)
    BY <1>2
  <2>2. IsCompound(m, s)
    BY <1>10 DEF IsCompound
  <2>3. PICK c \in S : m.parent[c] = s /\ Within(m, l, c)
    BY <1>1, <1>2, <2>1, <2>2, WithinAndParent
  <2>4. ASSUME NEW d \in Kids(s) \cap C PROVE d = c
    <3>1. PICK h \in L : Within(m, h, d)
      BY <1>2
    <3>2. SUFFICES ASSUME d # c PROVE FALSE
      OBVIOUS
    <3>3. h # l
      BY <1>1, <1>2, <2>3, <2>4, <3>1, <3>2, OneBranch
    <3>4. PICK q, r, u \in S : ApartAt(m, q, r, u, l, h)
      BY <3>3 DEF Whole, Apart
    <3>5. Within(m, l, q) /\ Within(m, h, q) /\ q \in m.parallel
      BY <1>1, <3>4, ApartShares DEF ApartAt, AndStates
    <3>6. Within(m, h, s)
      BY <1>1, <1>2, <1>3, <2>4, <3>1, WithinAndParent
    <3>7. CASE Within(m, q, s)
      <4>1. q # s
        BY <1>10, <3>5
      <4>2. PICK e \in S : m.parent[e] = s /\ Within(m, q, e)
        BY <1>2, <3>7, <4>1, WithinAndParent
      <4>3. Within(m, l, e) /\ Within(m, h, e)
        BY <1>1, <1>3, <3>5, <4>2
      <4>4. e = c
        BY <1>1, <1>2, <2>3, <4>2, <4>3, OneBranch
      <4>5. e = d
        BY <1>1, <1>2, <2>4, <3>1, <4>2, <4>3, OneBranch
      <4>. QED BY <3>2, <4>4, <4>5
    <3>8. CASE Within(m, s, q) /\ s # q
      <4>1. PICK e \in S : m.parent[e] = q /\ Within(m, s, e)
        BY <1>2, <3>8, WithinAndParent
      <4>2. Within(m, l, e) /\ Within(m, h, e)
        BY <1>1, <1>2, <1>3, <2>1, <3>6, <4>1
      <4>3. e = r
        BY <1>1, <3>4, <4>1, <4>2, OneBranch DEF ApartAt
      <4>4. e = u
        BY <1>1, <3>4, <4>1, <4>2, OneBranch DEF ApartAt
      <4>. QED BY <3>4, <4>3, <4>4 DEF ApartAt
    <3>. QED BY <1>1, <1>2, <1>4, <2>1, <3>5, <3>7, <3>8
  <2>5. Kids(s) \cap C = {c}
    BY <1>2, <2>3, <2>4
  <2>. QED BY <2>5, FS_Singleton
<1>. QED BY <1>7, <1>8, <1>9, <1>10

\* The leaves that Start enters are whole.
LEMMA InitiallyWhole ==
  ASSUME NEW m, WellFormed(m), Ancestors(m, m.start) \cap AndStates(m) = {}
  PROVE  Whole(m, ToSet(InitialLeaves(m)))
<1>. DEFINE S == StateIDs(m)
            L == ToSet(InitialLeaves(m))
<1>1. m.start \in S
  BY DEF WellFormed
<1>2. L = ToSet(LeafTargets(m, m.start))
  BY DEF InitialLeaves
<1>3. /\ LeafTargets(m, m.start) \in Seq(S) /\ LeafTargets(m, m.start) # <<>>
      /\ \A l \in L : l \in S /\ ~IsCompound(m, l) /\ Within(m, l, m.start)
  BY <1>1, <1>2, LeafTargetsAre
<1>4. L # {}
  BY <1>2, <1>3 DEF ToSet
<1>5. ASSUME NEW l \in L, NEW h \in L, l # h PROVE Apart(m, l, h)
  BY <1>1, <1>2, <1>5, LeafTargetsWhole DEF Apart
<1>6. ASSUME NEW l \in L, NEW q \in AndStates(m), NEW r \in S, q \in S, Within(m, l, q), m.parent[r] = q
      PROVE  \E h \in L : Within(m, h, r)
  <2>1. CASE Within(m, q, m.start)
    BY <1>1, <1>2, <1>6, <2>1, LeafTargetsWhole
  <2>2. CASE ~Within(m, q, m.start)
    <3>1. Within(m, m.start, q) /\ q # m.start
      BY <1>1, <1>3, <1>6, <2>2, WithinIsTree
    <3>2. q \in Ancestors(m, m.start)
      BY <1>1, <1>6, <3>1, WithinIsTree DEF IsDescendantOf
    <3>. QED BY <1>6, <3>2
  <2>. QED BY <2>1, <2>2
<1>. HIDE DEF L
<1>7. L \subseteq S /\ \A l \in L : ~IsCompound(m, l)
  BY <1>3
<1>8. Whole(m, L)
  BY <1>4, <1>5, <1>6, <1>7 DEF Whole
<1>. QED BY <1>8 DEF L

-----------------------------------------------------------------------------
(* One event.                                                              *)

\* The leaves of D fire the transitions of t: each transition is that of an
\* ancestor of its leaf and keeps the regions, no two are in conflict, and a
\* leaf below the source of one of them fires one, the same if it lies between.
Fired(m, L, D, t) ==
  /\ D \subseteq L
  /\ \A l \in D : /\ t[l].from \in StateIDs(m) /\ t[l].to \in StateIDs(m)
                  /\ Within(m, l, t[l].from) /\ RegionsKept(m, t[l])
  /\ \A l, h \in D : ~Conflict(m, t[l], t[h])
  /\ \A l, h \in D : t[l].on = t[h].on
  /\ \A l \in L : \A h \in D : Within(m, l, t[h].from) => l \in D
  /\ \A l, h \in D : Within(m, l, t[h].from) /\ Within(m, h, t[l].from) => t[l] = t[h]

Replaced(m, L, D, t) == (L \ D) \cup UNION {ToSet(LeafTargets(m, t[l].to)) : l \in D}

\* Of two leaves in two regions, one stays in its own, or both are moved by the
\* same transition of the parallel state or of a state around it.
LEMMA OwnRegion ==
  ASSUME NEW m, WellFormed(m), NEW L, Whole(m, L), NEW D, NEW t, Fired(m, L, D, t),
         NEW q, NEW r, NEW u, NEW l \in L, NEW h \in D, ApartAt(m, q, r, u, l, h)
  PROVE  \/ /\ Within(m, t[h].from, u) /\ Within(m, t[h].to, u)
            /\ \A x \in ToSet(LeafTargets(m, t[h].to)) : Within(m, x, u)
         \/ Within(m, q, t[h].from) /\ l \in D /\ t[l] = t[h]
<1>. DEFINE S == StateIDs(m)
            f == t[h].from
<1>1. /\ L \subseteq S /\ D \subseteq L /\ l \in S /\ h \in S
      /\ f \in S /\ t[h].to \in S /\ Within(m, h, f) /\ RegionsKept(m, t[h])
  BY DEF Whole, Fired
<1>2. /\ q \in S /\ r \in S /\ u \in S /\ q \in AndStates(m)
      /\ m.parent[r] = q /\ m.parent[u] = q
  BY DEF ApartAt
<1>3. \A s, p, x \in S : Within(m, s, p) /\ Within(m, p, x) => Within(m, s, x)
  BY WithinIsTree
<1>4. \A s, x \in S : IsDescendantOf(m, s, x) <=> Within(m, s, x) /\ s # x
  BY WithinIsTree
<1>5. /\ Within(m, l, q) /\ Within(m, h, q) /\ ApartAt(m, q, u, r, h, l)
      /\ \A x \in S : Within(m, l, x) => Within(m, q, x) \/ Within(m, x, r)
  BY <1>1, ApartShares
<1>6. \A x \in S : Within(m, h, x) => Within(m, q, x) \/ Within(m, x, u)
  BY <1>1, <1>5, ApartShares
<1>7. \A x \in S : Within(m, x, r) \/ Within(m, x, u) => IsDescendantOf(m, x, q)
  <2>1. Within(m, r, q) /\ r # q /\ Within(m, u, q) /\ u # q
    BY <1>2, WithinAndParent
  <2>2. \A s, x \in S : Within(m, s, x) /\ Within(m, x, s) => s = x
    BY WithinIsTree
  <2>. QED BY <1>2, <1>3, <1>4, <2>1, <2>2
<1>8. CASE Within(m, f, u)
  <2>1. IsDescendantOf(m, f, q)
    BY <1>1, <1>7, <1>8
  <2>2. PICK e \in S : m.parent[e] = q /\ Within(m, f, e) /\ Within(m, t[h].to, e)
    BY <1>1, <1>2, <2>1 DEF RegionsKept
  <2>3. e = u
    BY <1>1, <1>2, <1>8, <2>2, OneBranch
  <2>4. \A x \in ToSet(LeafTargets(m, t[h].to)) : x \in S /\ Within(m, x, t[h].to)
    BY <1>1, LeafTargetsAre
  <2>. QED BY <1>1, <1>2, <1>3, <1>8, <2>2, <2>3, <2>4
<1>9. CASE Within(m, q, f)
  <2>1. l \in D
    <3>1. Within(m, l, f)
      BY <1>1, <1>2, <1>3, <1>5, <1>9
    <3>. QED BY <3>1 DEF Fired
  <2>2. t[l].from \in S /\ Within(m, l, t[l].from) /\ ~Conflict(m, t[l], t[h]) /\ t[l].on = t[h].on
    BY <2>1 DEF Fired
  <2>3. ~Within(m, t[l].from, r)
    BY <1>2, <1>7, <1>9, <2>2 DEF Conflict
  <2>4. Within(m, q, t[l].from)
    BY <1>5, <2>2, <2>3
  <2>5. Within(m, h, t[l].from) /\ Within(m, l, f)
    BY <1>1, <1>2, <1>3, <1>5, <1>9, <2>2, <2>4
  <2>. QED BY <1>9, <2>1, <2>5 DEF Fired
<1>. QED BY <1>1, <1>6, <1>8, <1>9

\* An event leaves the leaves whole.
LEMMA StaysWhole ==
  ASSUME NEW m, WellFormed(m), NEW L, Whole(m, L), NEW D, NEW t, Fired(m, L, D, t)
  PROVE  Whole(m, Replaced(m, L, D, t))
<1>. DEFINE S == StateIDs(m)
            LT(l) == ToSet(LeafTargets(m, t[l].to))
            N == Replaced(m, L, D, t)
<1>1. L \subseteq S /\ D \subseteq L /\ L # {} /\ \A l \in L : ~IsCompound(m, l)
  BY DEF Whole, Fired
<1>2. \A l \in D : /\ t[l].from \in S /\ t[l].to \in S /\ Within(m, l, t[l].from)
                   /\ RegionsKept(m, t[l])
  BY DEF Fired
<1>3. ASSUME NEW l \in D
      PROVE  LT(l) # {} /\ \A x \in LT(l) : x \in S /\ ~IsCompound(m, x) /\ Within(m, x, t[l].to)
  <2>1. /\ LeafTargets(m, t[l].to) \in Seq(S) /\ LeafTargets(m, t[l].to) # <<>>
        /\ \A x \in LT(l) : x \in S /\ ~IsCompound(m, x) /\ Within(m, x, t[l].to)
    BY <1>2, LeafTargetsAre
  <2>. QED BY <2>1, NotEmpty
<1>4. \A x : x \in N <=> (x \in L /\ x \notin D) \/ \E l \in D : x \in LT(l)
  BY DEF Replaced
<1>5. \A x, y, z \in S : Within(m, x, y) /\ Within(m, y, z) => Within(m, x, z)
  BY WithinIsTree
<1>6. \A x, y, z \in S : Within(m, x, y) /\ Within(m, x, z) => Within(m, y, z) \/ Within(m, z, y)
  BY WithinIsTree
<1>7. ASSUME NEW l \in D, NEW x \in LT(l), NEW y \in LT(l), x # y PROVE Apart(m, x, y)
  BY <1>2, <1>7, LeafTargetsWhole DEF Apart
<1>8. ASSUME NEW l \in L, NEW h \in D, NEW q, NEW r, NEW u, ApartAt(m, q, r, u, l, h)
      PROVE  \/ /\ Within(m, t[h].from, u) /\ \A x \in LT(h) : Within(m, x, u)
             \/ Within(m, q, t[h].from) /\ l \in D /\ t[l] = t[h]
  BY <1>8, OwnRegion
<1>. HIDE DEF LT, N
<1>9. N \subseteq S /\ N # {} /\ \A x \in N : ~IsCompound(m, x)
  BY <1>1, <1>3, <1>4
<1>10. ASSUME NEW x \in N, NEW y \in N, x # y PROVE Apart(m, x, y)
  <2>1. PICK l \in L : (l \notin D /\ x = l) \/ (l \in D /\ x \in LT(l))
    BY <1>1, <1>4
  <2>2. PICK h \in L : (h \notin D /\ y = h) \/ (h \in D /\ y \in LT(h))
    BY <1>1, <1>4
  <2>3. CASE l = h
    BY <1>7, <1>10, <2>1, <2>2, <2>3
  <2>4. CASE l # h
    <3>1. PICK q, r, u \in S : ApartAt(m, q, r, u, l, h)
      BY <2>4 DEF Whole, Apart
    <3>2. ApartAt(m, q, u, r, h, l)
      BY <1>1, <3>1, ApartShares
    <3>3. CASE l \in D /\ h \in D /\ t[l] = t[h]
      <4>1. LT(l) = LT(h)
        BY <3>3 DEF LT
      <4>. QED BY <1>7, <1>10, <2>1, <2>2, <3>3, <4>1
    <3>4. CASE Within(m, x, r) /\ Within(m, y, u)
      <4>1. ApartAt(m, q, r, u, x, y)
        BY <3>1, <3>4 DEF ApartAt
      <4>. QED BY <4>1 DEF Apart
    <3>5. Within(m, x, r) \/ (l \in D /\ h \in D /\ t[l] = t[h])
      <4>1. CASE l \in D
        BY <1>8, <2>1, <3>2, <4>1
      <4>2. CASE l \notin D
        BY <2>1, <3>1, <4>2 DEF ApartAt
      <4>. QED BY <4>1, <4>2
    <3>6. Within(m, y, u) \/ (l \in D /\ h \in D /\ t[l] = t[h])
      <4>1. CASE h \in D
        BY <1>8, <2>2, <3>1, <4>1
      <4>2. CASE h \notin D
        BY <2>2, <3>1, <4>2 DEF ApartAt
      <4>. QED BY <4>1, <4>2
    <3>. QED BY <3>3, <3>4, <3>5, <3>6
  <2>. QED BY <2>3, <2>4
<1>11. ASSUME NEW x \in N, NEW q \in AndStates(m), NEW r \in S, q \in S, Within(m, x, q), m.parent[r] = q
       PROVE  \E y \in N : Within(m, y, r)
  <2>1. CASE x \in L /\ x \notin D
    <3>1. PICK p \in S : m.parent[p] = q /\ Within(m, x, p)
      <4>1. x # q
        BY <1>1, <1>11, <2>1 DEF AndStates
      <4>. QED BY <1>1, <1>11, <2>1, <4>1, WithinAndParent
    <3>2. PICK h \in L : Within(m, h, r)
      BY <1>11, <2>1 DEF Whole
    <3>3. CASE p = r
      BY <1>11, <3>1, <3>3
    <3>4. CASE h \notin D
      BY <1>4, <3>2, <3>4
    <3>5. CASE p # r /\ h \in D
      <4>1. ApartAt(m, q, p, r, x, h)
        BY <1>11, <3>1, <3>2, <3>5 DEF ApartAt
      <4>2. \A y \in LT(h) : Within(m, y, r)
        BY <1>8, <2>1, <3>5, <4>1
      <4>. QED BY <1>3, <1>4, <3>5, <4>2
    <3>. QED BY <3>3, <3>4, <3>5
  <2>2. ASSUME NEW l \in D, x \in LT(l) PROVE \E y \in N : Within(m, y, r)
    <3>1. /\ t[l].to \in S /\ t[l].from \in S /\ Within(m, x, t[l].to) /\ x \in S
          /\ Within(m, l, t[l].from) /\ l \in S /\ l \in L
      BY <1>1, <1>2, <1>3, <2>2
    <3>2. CASE Within(m, q, t[l].to)
      <4>1. \E y \in LT(l) : Within(m, y, r)
        BY <1>11, <2>2, <3>1, <3>2, LeafTargetsWhole DEF LT
      <4>. QED BY <1>4, <4>1
    <3>3. CASE ~Within(m, q, t[l].to)
      <4>1. Within(m, t[l].to, q) /\ t[l].to # q
        <5>1. Within(m, q, q)
          BY <1>11, WithinIsTree
        <5>. QED BY <1>6, <1>11, <3>1, <3>3, <5>1
      <4>2. IsDescendantOf(m, t[l].to, q)
        BY <1>11, <3>1, <4>1, WithinIsTree
      <4>3. PICK p \in S : m.parent[p] = q /\ Within(m, t[l].from, p) /\ Within(m, t[l].to, p)
        BY <1>2, <1>11, <4>2 DEF RegionsKept
      <4>4. Within(m, x, p) /\ Within(m, l, p)
        BY <1>5, <3>1, <4>3
      <4>5. Within(m, p, q) /\ p # q
        BY <1>11, <4>3, WithinAndParent
      <4>6. PICK h \in L : Within(m, h, r)
        <5>1. Within(m, l, q)
          BY <1>5, <1>11, <3>1, <4>3, <4>4, <4>5
        <5>. QED BY <1>11, <3>1, <5>1 DEF Whole
      <4>7. CASE p = r
        BY <4>4, <4>7
      <4>8. CASE h \notin D
        BY <1>4, <4>6, <4>8
      <4>9. CASE p # r /\ h \in D
        <5>1. ApartAt(m, q, p, r, l, h)
          BY <1>11, <4>3, <4>4, <4>6, <4>9 DEF ApartAt
        <5>2. ~(Within(m, q, t[h].from) /\ t[l] = t[h])
          <6>1. ASSUME Within(m, q, t[l].from) PROVE FALSE
            <7>1. Within(m, q, p)
              BY <1>5, <1>11, <3>1, <4>3, <6>1
            <7>. QED BY <1>11, <4>3, <4>5, <7>1, WithinIsTree
          <6>. QED BY <6>1
        <5>3. \A y \in LT(h) : Within(m, y, r)
          BY <1>8, <3>1, <4>9, <5>1, <5>2
        <5>. QED BY <1>3, <1>4, <4>9, <5>3
      <4>. QED BY <4>7, <4>8, <4>9
    <3>. QED BY <3>2, <3>3
  <2>. QED BY <1>4, <2>1, <2>2
<1>. QED BY <1>9, <1>10, <1>11 DEF Whole, N

\* The leaves that an event moves, and the transitions they resolve it to.
Moved(m, ls, ev, holds) == {l \in ToSet(ls) : ResolveTransition(m, l, ev, holds) # 0}

MovedBy(m, ls, ev, holds) ==
  [l \in Moved(m, ls, ev, holds) |-> m.transitions[ResolveTransition(m, l, ev, holds)]]

LEMMA EventFires ==
  ASSUME NEW m, WellFormed(m), KeepsRegions(m), NEW ls \in Seq(StateIDs(m)), NEW ev, NEW holds
  PROVE  Fired(m, ToSet(ls), Moved(m, ls, ev, holds), MovedBy(m, ls, ev, holds))
<1>. DEFINE S == StateIDs(m)
            k(l) == ResolveTransition(m, l, ev, holds)
            D == Moved(m, ls, ev, holds)
            t == MovedBy(m, ls, ev, holds)
            E(s) == Enabled(m, s, ev, holds)
<1>1. /\ ToSet(ls) \subseteq S /\ D \subseteq ToSet(ls)
      /\ \A l \in ToSet(ls) : l \in D <=> k(l) # 0
      /\ \A l \in D : t[l] = m.transitions[k(l)]
  BY DEF Moved, MovedBy, ToSet
<1>2. ASSUME NEW l \in ToSet(ls), k(l) = 0 PROVE \A s \in S : Within(m, l, s) => E(s) = {}
  BY <1>1, <1>2, ResolveIs
<1>3. ASSUME NEW l \in D
      PROVE  /\ k(l) \in DOMAIN m.transitions
             /\ t[l].from \in S /\ t[l].to \in S /\ Within(m, l, t[l].from) /\ t[l].on = ev
             /\ k(l) = Min(E(t[l].from)) /\ E(t[l].from) # {}
             /\ \A s \in S : Within(m, l, s) /\ Within(m, s, t[l].from) /\ E(s) # {} => s = t[l].from
  <2>1. l \in S /\ k(l) # 0 /\ t[l] = m.transitions[k(l)]
    BY <1>1
  <2>. QED BY <2>1, ResolveIs
<1>. HIDE DEF k, D, t, E
<1>4. \A l \in D : RegionsKept(m, t[l])
  BY <1>1, <1>3 DEF KeepsRegions
<1>5. \A l, h \in D : ~Conflict(m, t[l], t[h])
  BY <1>1, <1>3 DEF KeepsRegions
<1>6. ASSUME NEW l \in ToSet(ls), NEW h \in D, Within(m, l, t[h].from) PROVE l \in D
  BY <1>1, <1>2, <1>3, <1>6
<1>7. ASSUME NEW l \in D, NEW h \in D, Within(m, l, t[h].from), Within(m, h, t[l].from)
      PROVE  t[l] = t[h]
  <2>1. t[l].from \in S /\ t[h].from \in S /\ l \in S
    BY <1>1, <1>3
  <2>2. Within(m, t[l].from, t[h].from) \/ Within(m, t[h].from, t[l].from)
    BY <1>3, <1>7, <2>1, WithinIsTree
  <2>3. t[l].from = t[h].from
    BY <1>3, <1>7, <2>1, <2>2
  <2>4. k(l) = k(h)
    BY <1>3, <2>3
  <2>. QED BY <1>1, <2>4
<1>8. Fired(m, ToSet(ls), D, t)
  <2>1. D \subseteq ToSet(ls)
    BY <1>1
  <2>2. \A l \in D : /\ t[l].from \in S /\ t[l].to \in S
                     /\ Within(m, l, t[l].from) /\ RegionsKept(m, t[l])
    BY <1>3, <1>4
  <2>3. \A l, h \in D : t[l].on = t[h].on
    BY <1>3
  <2>. QED BY <1>5, <1>6, <1>7, <2>1, <2>2, <2>3 DEF Fired
<1>. QED BY <1>8 DEF D, t

\* What the pending transitions of an event are.
LEMMA PendingTypes ==
  ASSUME NEW m, WellFormed(m), NEW ls \in Seq(StateIDs(m)), NEW ev, NEW holds
  PROVE  LET pend == Pending(m, ls, ev, holds)
             D == Moved(m, ls, ev, holds)
             t == MovedBy(m, ls, ev, holds)
         IN  /\ pend \in Seq(Firings(m))
             /\ \A p \in ToSet(pend) : p.source \in D /\ p.trans = t[p.source]
             /\ \A l \in D : \E p \in ToSet(pend) : p.source = l /\ p.trans = t[l]
             /\ \A p, u \in ToSet(pend) : p.source = u.source => p = u
<1>. DEFINE pend == Pending(m, ls, ev, holds)
            D == Moved(m, ls, ev, holds)
            t == MovedBy(m, ls, ev, holds)
            fire(l) == [source |-> l, trans |-> m.transitions[ResolveTransition(m, l, ev, holds)]]
<1>1. /\ pend \in Seq(Firings(m))
      /\ \A p : p \in ToSet(pend) <=>
            \E l \in ToSet(ls) : ResolveTransition(m, l, ev, holds) # 0 /\ p = fire(l)
  BY PendingIs DEF Firings
<1>2. \A l : l \in D <=> l \in ToSet(ls) /\ ResolveTransition(m, l, ev, holds) # 0
  BY DEF Moved
<1>3. \A l \in D : fire(l).source = l /\ fire(l).trans = t[l]
  BY DEF MovedBy
<1>. HIDE DEF pend, D, t, fire
<1>4. \A p : p \in ToSet(pend) <=> \E l \in D : p = fire(l)
  BY <1>1, <1>2
<1>5. \A p \in ToSet(pend) : p.source \in D /\ p.trans = t[p.source] /\ p = fire(p.source)
  BY <1>3, <1>4
<1>6. ASSUME NEW l \in D PROVE \E p \in ToSet(pend) : p.source = l /\ p.trans = t[l]
  BY <1>3, <1>4
<1>7. ASSUME NEW p \in ToSet(pend), NEW u \in ToSet(pend), p.source = u.source PROVE p = u
  BY <1>5, <1>7
<1>. QED BY <1>1, <1>5, <1>6, <1>7 DEF pend, D, t

\* The list pend has one firing for each leaf of D, that of t.
Carries(m, pend, D, t) ==
  /\ pend \in Seq(Firings(m))
  /\ \A p \in ToSet(pend) : p.source \in D /\ p.trans = t[p.source]
  /\ \A l \in D : \E p \in ToSet(pend) : p.source = l /\ p.trans = t[l]
  /\ \A p, u \in ToSet(pend) : p.source = u.source => p = u

LEMMA PendingCarries ==
  ASSUME NEW m, WellFormed(m), NEW ls \in Seq(StateIDs(m)), NEW ev, NEW holds
  PROVE  /\ Carries(m, Pending(m, ls, ev, holds), Moved(m, ls, ev, holds), MovedBy(m, ls, ev, holds))
         /\ Moved(m, ls, ev, holds) \subseteq ToSet(ls)
BY PendingTypes DEF Carries, Moved

\* The leaves that a macrostep leaves behind.
LEMMA LeavesLeft ==
  ASSUME NEW m, WellFormed(m), NEW ls \in Seq(StateIDs(m)), NEW pend, NEW D, NEW t,
         Carries(m, pend, D, t), D \subseteq ToSet(ls)
  PROVE  ToSet(Macrostep(m, ls, pend).leaves) = Replaced(m, ToSet(ls), D, t)
<1>. DEFINE next == ToSet(Macrostep(m, ls, pend).leaves)
<1>1. /\ pend \in Seq(Firings(m))
      /\ \A p \in ToSet(pend) : p.source \in D /\ p.trans = t[p.source]
      /\ \A l \in D : \E p \in ToSet(pend) : p.source = l /\ p.trans = t[l]
      /\ \A p, u \in ToSet(pend) : p.source = u.source => p = u
  BY DEF Carries
<1>2. D \subseteq ToSet(ls)
  OBVIOUS
<1>3. \A x : x \in next <=>
                \E l \in ToSet(ls) :
                    \/ (\A p \in ToSet(pend) : p.source # l) /\ x = l
                    \/ \E p \in ToSet(pend) : p.source = l /\ x \in ToSet(Targets(m, p))
  BY <1>1, MacrostepLeaves
<1>. HIDE DEF next
<1>4. \A p \in ToSet(pend) : ToSet(Targets(m, p)) = ToSet(LeafTargets(m, t[p.source].to))
  BY <1>1 DEF Targets
<1>5. \A x : x \in Replaced(m, ToSet(ls), D, t) <=>
                (x \in ToSet(ls) /\ x \notin D) \/ \E l \in D : x \in ToSet(LeafTargets(m, t[l].to))
  BY DEF Replaced
<1>6. ASSUME NEW x \in next PROVE x \in Replaced(m, ToSet(ls), D, t)
  <2>1. PICK l \in ToSet(ls) : \/ (\A p \in ToSet(pend) : p.source # l) /\ x = l
                               \/ \E p \in ToSet(pend) : p.source = l /\ x \in ToSet(Targets(m, p))
    BY <1>3, <1>6
  <2>2. CASE (\A p \in ToSet(pend) : p.source # l) /\ x = l
    BY <1>1, <1>5, <2>1, <2>2
  <2>3. ASSUME NEW p \in ToSet(pend), x \in ToSet(Targets(m, p)) PROVE x \in Replaced(m, ToSet(ls), D, t)
    BY <1>1, <1>4, <1>5, <2>3
  <2>. QED BY <2>1, <2>2, <2>3
<1>7. ASSUME NEW x \in ToSet(ls), x \notin D PROVE x \in next
  BY <1>1, <1>3, <1>7
<1>8. ASSUME NEW l \in D, NEW x \in ToSet(LeafTargets(m, t[l].to)) PROVE x \in next
  <2>1. PICK p \in ToSet(pend) : p.source = l
    BY <1>1
  <2>2. x \in ToSet(Targets(m, p)) /\ l \in ToSet(ls)
    BY <1>2, <1>4, <2>1
  <2>. QED BY <1>3, <2>1, <2>2
<1>9. next = Replaced(m, ToSet(ls), D, t)
  BY <1>5, <1>6, <1>7, <1>8
<1>. QED BY <1>9 DEF next

LEMMA LeavesAfter ==
  ASSUME NEW m, WellFormed(m), NEW ls \in Seq(StateIDs(m)), NEW ev, NEW holds
  PROVE  ToSet(Macrostep(m, ls, Pending(m, ls, ev, holds)).leaves)
            = Replaced(m, ToSet(ls), Moved(m, ls, ev, holds), MovedBy(m, ls, ev, holds))
BY PendingCarries, LeavesLeft

-----------------------------------------------------------------------------
(* What one event exits and enters.                                        *)

\* The deepest proper ancestor of a leaf and of the first leaf it moves to.
Scope(m, l, t) == LCCA(m, l, Head(LeafTargets(m, t.to)))

Exited(m, D, t) ==
  {x \in StateIDs(m) : \E l \in D : Within(m, l, x) /\ Inside(m, x, Scope(m, l, t[l]))}

Entered(m, D, t) ==
  {x \in StateIDs(m) : \E l \in D : \E h \in ToSet(LeafTargets(m, t[l].to)) :
                            Within(m, h, x) /\ Inside(m, x, Scope(m, l, t[l]))}

\* What Fired and LeafTargetsAre say of a leaf that moves.
LEMMA Mover ==
  ASSUME NEW m, WellFormed(m), NEW L, Whole(m, L), NEW D, NEW t, Fired(m, L, D, t), NEW l \in D
  PROVE  /\ l \in L /\ l \in StateIDs(m) /\ ~IsCompound(m, l)
         /\ t[l].from \in StateIDs(m) /\ t[l].to \in StateIDs(m)
         /\ Within(m, l, t[l].from) /\ RegionsKept(m, t[l])
         /\ Head(LeafTargets(m, t[l].to)) \in ToSet(LeafTargets(m, t[l].to))
         /\ \A h \in ToSet(LeafTargets(m, t[l].to)) :
                h \in StateIDs(m) /\ ~IsCompound(m, h) /\ Within(m, h, t[l].to)
<1>1. /\ l \in L /\ l \in StateIDs(m) /\ ~IsCompound(m, l)
      /\ t[l].from \in StateIDs(m) /\ t[l].to \in StateIDs(m)
      /\ Within(m, l, t[l].from) /\ RegionsKept(m, t[l])
  BY DEF Whole, Fired
<1>2. /\ LeafTargets(m, t[l].to) \in Seq(StateIDs(m)) /\ LeafTargets(m, t[l].to) # <<>>
      /\ \A h \in ToSet(LeafTargets(m, t[l].to)) :
                h \in StateIDs(m) /\ ~IsCompound(m, h) /\ Within(m, h, t[l].to)
  BY <1>1, LeafTargetsAre
<1>3. Head(LeafTargets(m, t[l].to)) \in ToSet(LeafTargets(m, t[l].to))
  BY <1>2 DEF ToSet
<1>. QED BY <1>1, <1>2, <1>3

LEMMA ScopeIs ==
  ASSUME NEW m, WellFormed(m), NEW L, Whole(m, L), NEW D, NEW t, Fired(m, L, D, t), NEW l \in D
  PROVE  LET h == Head(LeafTargets(m, t[l].to))
             d == Scope(m, l, t[l])
         IN  /\ d # None => /\ d \in StateIDs(m) /\ Within(m, l, d) /\ l # d
                            /\ Within(m, h, d) /\ h # d
             /\ \A a \in StateIDs(m) :
                    Within(m, l, a) /\ l # a /\ Within(m, h, a) /\ h # a =>
                        d # None /\ Within(m, d, a)
<1>. DEFINE S == StateIDs(m)
            h == Head(LeafTargets(m, t[l].to))
            A == {a \in S : IsDescendantOf(m, l, a) /\ IsDescendantOf(m, h, a)}
            d == Scope(m, l, t[l])
<1>1. l \in S /\ h \in S
  BY Mover
<1>2. \A s, q \in S : IsDescendantOf(m, s, q) <=> Within(m, s, q) /\ s # q
  BY WithinIsTree
<1>3. IF A = {} THEN d = None ELSE d \in A /\ \A a \in A : Within(m, d, a)
  <2>. HIDE DEF h
  <2>. QED BY <1>1, LCCAIs DEF Scope, h
<1>. HIDE DEF h, d
<1>4. None \notin S
  BY OrderedTree
<1>5. \A a \in S : a \in A <=> Within(m, l, a) /\ l # a /\ Within(m, h, a) /\ h # a
  BY <1>1, <1>2
<1>. QED BY <1>3, <1>4, <1>5 DEF h, d

\* A parallel state below the target of a transition is not around the leaf that
\* fires it, if it holds leaves to enter.
LEMMA NotAround ==
  ASSUME NEW m, WellFormed(m), NEW L, Whole(m, L), NEW D, NEW t, Fired(m, L, D, t), NEW l \in D,
         NEW q \in AndStates(m), q \in StateIDs(m), Within(m, q, t[l].to),
         NEW h \in ToSet(LeafTargets(m, t[l].to)), Within(m, h, q)
  PROVE  ~Within(m, l, q)
<1>. DEFINE S == StateIDs(m)
            f == t[l].from
<1>1. /\ l \in S /\ f \in S /\ t[l].to \in S /\ Within(m, l, f) /\ RegionsKept(m, t[l])
  BY Mover
<1>. SUFFICES ASSUME Within(m, l, q) PROVE FALSE
  OBVIOUS
<1>2. CASE \E r \in S : m.parent[r] = q /\ Within(m, f, r) /\ Within(m, t[l].to, r)
  <2>1. PICK r \in S : m.parent[r] = q /\ Within(m, t[l].to, r)
    BY <1>2
  <2>2. Within(m, r, q) /\ r # q
    BY <2>1, WithinAndParent
  <2>3. Within(m, q, r)
    BY <1>1, <2>1, WithinIsTree
  <2>. QED BY <2>2, <2>3, WithinIsTree
<1>3. CASE /\ ~IsDescendantOf(m, f, q)
           /\ Within(m, q, f) => \A x \in ToSet(LeafTargets(m, t[l].to)) : ~Within(m, x, q)
  <2>1. ~Within(m, q, f)
    BY <1>3
  <2>2. Within(m, f, q) /\ f # q
    <3>1. Within(m, q, q)
      BY WithinIsTree
    <3>2. Within(m, q, f) \/ Within(m, f, q)
      BY <1>1, WithinIsTree
    <3>. QED BY <2>1, <3>1, <3>2
  <2>. QED BY <1>1, <1>3, <2>2, WithinIsTree
<1>. QED BY <1>1, <1>2, <1>3 DEF RegionsKept

\* Every leaf to enter lies in the scope of the transition.
LEMMA TargetsInScope ==
  ASSUME NEW m, WellFormed(m), NEW L, Whole(m, L), NEW D, NEW t, Fired(m, L, D, t), NEW l \in D,
         Scope(m, l, t[l]) # None, NEW x \in ToSet(LeafTargets(m, t[l].to))
  PROVE  Within(m, x, Scope(m, l, t[l]))
<1>. DEFINE S == StateIDs(m)
            h == Head(LeafTargets(m, t[l].to))
            d == Scope(m, l, t[l])
<1>1. /\ l \in S /\ t[l].to \in S /\ x \in S /\ h \in S
      /\ h \in ToSet(LeafTargets(m, t[l].to))
  BY Mover
<1>2. d \in S /\ Within(m, l, d) /\ Within(m, h, d)
  BY ScopeIs
<1>. HIDE DEF h, d
<1>. SUFFICES ASSUME ~Within(m, x, d) PROVE FALSE
  BY DEF d
<1>3. PICK q, r, u \in S : ApartAt(m, q, r, u, x, h) /\ Within(m, q, t[l].to)
  BY <1>1, <1>2, LeafTargetsWhole
<1>4. q \in AndStates(m) /\ Within(m, x, q) /\ Within(m, h, q)
  BY <1>1, <1>3, ApartShares DEF ApartAt
<1>5. ~Within(m, q, d)
  BY <1>1, <1>2, <1>3, <1>4, WithinIsTree
<1>6. Within(m, d, q)
  BY <1>1, <1>2, <1>3, <1>4, <1>5, WithinIsTree
<1>7. Within(m, l, q)
  BY <1>1, <1>2, <1>3, <1>6, WithinIsTree
<1>. QED BY <1>3, <1>4, <1>7, NotAround

\* Where two leaves of different regions fire the same transition, its scope
\* for the one is around that for the other.
LEMMA ScopeAround ==
  ASSUME NEW m, WellFormed(m), NEW L, Whole(m, L), NEW D, NEW t, Fired(m, L, D, t),
         NEW l \in D, NEW g \in D, l # g, t[l] = t[g], Scope(m, l, t[l]) # None
  PROVE  Scope(m, g, t[g]) # None /\ Within(m, Scope(m, g, t[g]), Scope(m, l, t[l]))
<1>. DEFINE S == StateIDs(m)
            f == t[l].from
            h == Head(LeafTargets(m, t[l].to))
            d == Scope(m, l, t[l])
<1>1. /\ l \in S /\ l \in L /\ f \in S /\ t[l].to \in S /\ h \in S /\ Within(m, l, f)
      /\ RegionsKept(m, t[l])
      /\ h \in ToSet(LeafTargets(m, t[l].to))
  BY Mover
<1>2. g \in S /\ g \in L /\ Within(m, g, f)
  BY Mover
<1>3. d \in S /\ Within(m, l, d) /\ l # d /\ Within(m, h, d) /\ h # d
  BY ScopeIs
<1>4. \A a \in S : Within(m, g, a) /\ g # a /\ Within(m, h, a) /\ h # a =>
                        Scope(m, g, t[g]) # None /\ Within(m, Scope(m, g, t[g]), a)
  BY ScopeIs
<1>5. PICK q, r, u \in S : ApartAt(m, q, r, u, l, g)
  BY <1>1, <1>2 DEF Whole, Apart
<1>6. /\ q \in AndStates(m) /\ q # l /\ Within(m, l, q) /\ Within(m, g, q)
      /\ \A a \in S : Within(m, l, a) /\ Within(m, g, a) => Within(m, q, a)
      /\ ApartAt(m, q, u, r, g, l)
  BY <1>1, <1>2, <1>5, ApartShares DEF ApartAt
<1>7. q # g
  BY <1>1, <1>2, <1>6, ApartShares
<1>8. Within(m, q, f)
  BY <1>1, <1>2, <1>6
<1>9. ~Within(m, h, q)
  <2>1. ASSUME NEW p \in S, m.parent[p] = q, Within(m, f, p) PROVE FALSE
    <3>1. Within(m, p, q) /\ p # q
      BY <2>1, WithinAndParent
    <3>2. Within(m, q, p)
      BY <1>1, <1>8, <2>1, WithinIsTree
    <3>. QED BY <3>1, <3>2, WithinIsTree
  <2>. QED BY <1>1, <1>6, <1>8, <2>1 DEF RegionsKept
<1>. HIDE DEF h, d
<1>10. Within(m, q, d) /\ d # q
  <2>1. ~Within(m, d, q)
    BY <1>1, <1>3, <1>9, WithinIsTree
  <2>2. Within(m, q, d) \/ Within(m, d, q)
    BY <1>1, <1>3, <1>6, WithinIsTree
  <2>. QED BY <1>3, <1>9, <2>1, <2>2
<1>11. Within(m, g, d) /\ g # d
  BY <1>2, <1>3, <1>6, <1>7, <1>10, WithinIsTree
<1>. QED BY <1>3, <1>4, <1>11 DEF d

LEMMA SameScope ==
  ASSUME NEW m, WellFormed(m), NEW L, Whole(m, L), NEW D, NEW t, Fired(m, L, D, t),
         NEW l \in D, NEW g \in D, t[l] = t[g]
  PROVE  Scope(m, l, t[l]) = Scope(m, g, t[g])
<1>. DEFINE a == Scope(m, l, t[l])
            b == Scope(m, g, t[g])
<1>1. (a # None => a \in StateIDs(m)) /\ (b # None => b \in StateIDs(m))
  BY ScopeIs
<1>2. l # g /\ a # None => b # None /\ Within(m, b, a)
  BY ScopeAround
<1>3. l # g /\ b # None => a # None /\ Within(m, a, b)
  BY ScopeAround
<1>4. l = g => a = b
  OBVIOUS
<1>. HIDE DEF a, b
<1>5. a = b
  BY <1>1, <1>2, <1>3, <1>4, WithinIsTree
<1>. QED BY <1>5 DEF a, b

\* What one transition exits and enters is no ancestor of a leaf that another
\* transition moves or that stays, nor of a leaf that another one moves to.
LEMMA OwnPaths ==
  ASSUME NEW m, WellFormed(m), NEW L, Whole(m, L), NEW D, NEW t, Fired(m, L, D, t),
         NEW l \in D, NEW g \in L, ~(g \in D /\ t[l] = t[g]),
         NEW x \in StateIDs(m), Inside(m, x, Scope(m, l, t[l])),
         NEW y, y = l \/ y \in ToSet(LeafTargets(m, t[l].to)), Within(m, y, x)
  PROVE  /\ ~Within(m, g, x)
         /\ g \in D => \A h \in ToSet(LeafTargets(m, t[g].to)) : ~Within(m, h, x)
<1>. DEFINE S == StateIDs(m)
            h == Head(LeafTargets(m, t[l].to))
            d == Scope(m, l, t[l])
<1>1. /\ l \in S /\ l \in L /\ h \in S
      /\ h \in ToSet(LeafTargets(m, t[l].to)) /\ y \in S
  BY Mover
<1>2. g \in S /\ g # l
  BY DEF Whole
<1>3. PICK q, r, u \in S : ApartAt(m, q, r, u, g, l)
  BY <1>1, <1>2 DEF Whole, Apart
<1>4. /\ q \in AndStates(m) /\ Within(m, g, r) /\ Within(m, l, u) /\ r # u
      /\ m.parent[r] = q /\ m.parent[u] = q /\ Within(m, l, q) /\ l # q
      /\ ApartAt(m, q, u, r, l, g)
  <2>1. ApartAt(m, q, u, r, l, g)
    BY <1>1, <1>2, <1>3, ApartShares
  <2>2. Within(m, l, q) /\ l # q
    BY <1>1, <1>2, <2>1, ApartShares
  <2>. QED BY <1>3, <2>1, <2>2 DEF ApartAt
<1>5. \A z \in ToSet(LeafTargets(m, t[l].to)) : Within(m, z, u)
  BY <1>3, OwnRegion
<1>6. ASSUME g \in D PROVE \A z \in ToSet(LeafTargets(m, t[g].to)) : z \in S /\ Within(m, z, r)
  <2>1. \A z \in ToSet(LeafTargets(m, t[g].to)) : z \in S
    BY <1>6, Mover
  <2>2. \A z \in ToSet(LeafTargets(m, t[g].to)) : Within(m, z, r)
    BY <1>1, <1>4, <1>6, OwnRegion
  <2>. QED BY <2>1, <2>2
<1>7. Within(m, u, q) /\ u # q
  BY <1>3, <1>4, WithinAndParent
<1>8. d # None /\ Within(m, d, q)
  <2>1. Within(m, h, u)
    BY <1>1, <1>5
  <2>2. Within(m, h, q) /\ h # q
    BY <1>1, <1>3, <1>7, <2>1, WithinIsTree
  <2>. HIDE DEF h, d
  <2>3. \A a \in S : Within(m, l, a) /\ l # a /\ Within(m, h, a) /\ h # a => d # None /\ Within(m, d, a)
    BY ScopeIs DEF d, h
  <2>. QED BY <1>3, <1>4, <2>2, <2>3
<1>9. d \in S
  BY <1>8, ScopeIs
<1>10. Within(m, x, q) /\ x # q
  <2>1. Within(m, x, d) /\ x # d
    BY <1>8 DEF Inside
  <2>. HIDE DEF d
  <2>. QED BY <1>3, <1>8, <1>9, <2>1, WithinIsTree
<1>11. Within(m, y, u)
  BY <1>4, <1>5
<1>12. Within(m, x, u)
  <2>1. Within(m, x, u) \/ Within(m, u, x)
    BY <1>1, <1>3, <1>11, WithinIsTree
  <2>2. Within(m, u, x) => x = u \/ Within(m, q, x)
    BY <1>3, <1>4, WithinUnfolds
  <2>3. ~Within(m, q, x)
    BY <1>3, <1>10, WithinIsTree
  <2>4. Within(m, u, u)
    BY <1>3, WithinIsTree
  <2>. QED BY <2>1, <2>2, <2>3, <2>4
<1>13. ASSUME NEW z \in S, Within(m, z, r), Within(m, z, x) PROVE FALSE
  <2>1. Within(m, z, u)
    BY <1>3, <1>12, <1>13, WithinIsTree
  <2>. QED BY <1>3, <1>4, <1>13, <2>1, OneBranch
<1>. QED BY <1>2, <1>4, <1>6, <1>13

\* An event exits states that were active and enters states that will be; a
\* state that becomes active is entered, one that no longer is has been exited,
\* and one that stays active is entered if and only if it is exited.
LEMMA PathsMatchLeaves ==
  ASSUME NEW m, WellFormed(m), NEW L, Whole(m, L), NEW D, NEW t, Fired(m, L, D, t)
  PROVE  LET C == Active(m, L)
             N == Active(m, Replaced(m, L, D, t))
             X == Exited(m, D, t)
             E == Entered(m, D, t)
         IN  /\ X \subseteq C /\ E \subseteq N
             /\ N \ C \subseteq E /\ C \ N \subseteq X
             /\ C \cap N \cap X \subseteq E /\ C \cap E \subseteq X
<1>. DEFINE S == StateIDs(m)
            LT(l) == ToSet(LeafTargets(m, t[l].to))
            d(l) == Scope(m, l, t[l])
            C == Active(m, L)
            N == Active(m, Replaced(m, L, D, t))
            X == Exited(m, D, t)
            E == Entered(m, D, t)
<1>1. L \subseteq S /\ D \subseteq L
  BY DEF Whole, Fired
<1>2. \A s \in S : s \in C <=> \E l \in L : Within(m, l, s)
  BY DEF Active
<1>3. \A s \in S : s \in N <=> \/ \E l \in L : l \notin D /\ Within(m, l, s)
                               \/ \E l \in D : \E h \in LT(l) : Within(m, h, s)
  BY DEF Active, Replaced
<1>4. \A s \in S : s \in X <=> \E l \in D : Within(m, l, s) /\ Inside(m, s, d(l))
  BY DEF Exited
<1>5. \A s \in S : s \in E <=> \E l \in D : \E h \in LT(l) : Within(m, h, s) /\ Inside(m, s, d(l))
  BY DEF Entered
<1>6. C \subseteq S /\ N \subseteq S /\ X \subseteq S /\ E \subseteq S
  BY DEF Active, Exited, Entered
<1>7. \A l \in D : \A h \in LT(l) : h \in S
  BY Mover
<1>8. \A l \in D : d(l) # None =>
                /\ d(l) \in S /\ Within(m, l, d(l))
                /\ \A h \in LT(l) : Within(m, h, d(l))
  BY ScopeIs, TargetsInScope
<1>9. \A l \in D : LT(l) # {}
  BY Mover
<1>10. \A l, g \in D : t[l] = t[g] => d(l) = d(g) /\ LT(l) = LT(g)
  BY SameScope
<1>11. ASSUME NEW l \in D, NEW g \in L, ~(g \in D /\ t[l] = t[g]),
              NEW x \in S, Inside(m, x, d(l)), NEW y, y = l \/ y \in LT(l), Within(m, y, x)
       PROVE  ~Within(m, g, x) /\ (g \in D => \A h \in LT(g) : ~Within(m, h, x))
  BY <1>11, OwnPaths
<1>. HIDE DEF LT, d, C, N, X, E
<1>12. ASSUME NEW l \in D, NEW s \in S, ~Inside(m, s, d(l)), NEW y, y = l \/ y \in LT(l), Within(m, y, s)
       PROVE  Within(m, l, s) /\ \A h \in LT(l) : Within(m, h, s)
  <2>1. d(l) # None /\ ~(Within(m, s, d(l)) /\ s # d(l))
    BY <1>12 DEF Inside
  <2>2. y \in S /\ Within(m, y, d(l)) /\ d(l) \in S
    BY <1>1, <1>7, <1>8, <1>12, <2>1
  <2>3. Within(m, s, s)
    BY WithinIsTree
  <2>4. Within(m, d(l), s)
    BY <1>12, <2>1, <2>2, <2>3, WithinIsTree
  <2>. QED BY <1>1, <1>7, <1>8, <2>1, <2>2, <2>4, WithinIsTree
<1>13. X \subseteq C /\ E \subseteq N
  <2>1. ASSUME NEW s \in X PROVE s \in C
    BY <1>1, <1>2, <1>4, <1>6
  <2>2. ASSUME NEW s \in E PROVE s \in N
    BY <1>3, <1>5, <1>6
  <2>. QED BY <2>1, <2>2
<1>14. ASSUME NEW s \in N, s \notin C PROVE s \in E
  <2>1. PICK l \in D : \E h \in LT(l) : Within(m, h, s)
    BY <1>2, <1>3, <1>6, <1>14
  <2>2. PICK h \in LT(l) : Within(m, h, s)
    BY <2>1
  <2>3. s \in S /\ ~Within(m, l, s)
    BY <1>1, <1>2, <1>6, <1>14
  <2>4. Inside(m, s, d(l))
    BY <1>12, <2>2, <2>3
  <2>. QED BY <1>5, <2>2, <2>3, <2>4
<1>15. ASSUME NEW s \in C, s \notin N PROVE s \in X
  <2>1. PICK l \in L : Within(m, l, s)
    BY <1>2, <1>6
  <2>2. s \in S /\ l \in D
    BY <1>3, <1>6, <1>15, <2>1
  <2>3. \A h \in LT(l) : ~Within(m, h, s)
    BY <1>3, <1>15, <2>2
  <2>4. Inside(m, s, d(l))
    BY <1>9, <1>12, <2>1, <2>2, <2>3
  <2>. QED BY <1>4, <2>1, <2>2, <2>4
<1>16. ASSUME NEW s \in C, s \in N, s \in X PROVE s \in E
  <2>1. PICK l \in D : Within(m, l, s) /\ Inside(m, s, d(l))
    BY <1>4, <1>6, <1>16
  <2>2. ASSUME NEW g \in L, g \notin D, Within(m, g, s) PROVE FALSE
    BY <1>6, <1>11, <2>1, <2>2
  <2>3. ASSUME NEW g \in D, NEW h \in LT(g), Within(m, h, s) PROVE s \in E
    <3>1. t[l] = t[g]
      BY <1>1, <1>6, <1>11, <2>1, <2>3
    <3>2. Inside(m, s, d(g))
      BY <1>10, <2>1, <3>1
    <3>. QED BY <1>5, <1>6, <2>3, <3>2
  <2>. QED BY <1>3, <1>6, <1>16, <2>2, <2>3
<1>17. ASSUME NEW s \in C, s \in E PROVE s \in X
  <2>1. PICK l \in D : \E h \in LT(l) : Within(m, h, s) /\ Inside(m, s, d(l))
    BY <1>5, <1>6, <1>17
  <2>2. PICK h \in LT(l) : Within(m, h, s) /\ Inside(m, s, d(l))
    BY <2>1
  <2>3. PICK g \in L : Within(m, g, s)
    BY <1>2, <1>6
  <2>4. g \in D /\ t[l] = t[g]
    BY <1>6, <1>11, <2>2, <2>3
  <2>5. Inside(m, s, d(g))
    BY <1>10, <2>2, <2>4
  <2>. QED BY <1>4, <1>6, <2>3, <2>4, <2>5
<1>. QED BY <1>13, <1>14, <1>15, <1>16, <1>17 DEF C, N, X, E

\* A state that an event exits and enters again is atomic.
LEMMA ReentersAtoms ==
  ASSUME NEW m, WellFormed(m), NEW L, Whole(m, L), NEW D, NEW t, Fired(m, L, D, t),
         NEW s \in Exited(m, D, t) \cap Entered(m, D, t)
  PROVE  ~IsCompound(m, s)
<1>. DEFINE S == StateIDs(m)
            d(l) == Scope(m, l, t[l])
            LT(l) == ToSet(LeafTargets(m, t[l].to))
            head(l) == Head(LeafTargets(m, t[l].to))
<1>1. s \in S
  BY DEF Exited
<1>2. PICK l \in D : Within(m, l, s) /\ Inside(m, s, d(l))
  BY DEF Exited
<1>3. PICK g \in D : \E h \in LT(g) : Within(m, h, s) /\ Inside(m, s, d(g))
  BY DEF Entered
<1>4. PICK h \in LT(g) : Within(m, h, s) /\ Inside(m, s, d(g))
  BY <1>3
<1>5. l \in L /\ g \in L
  BY Mover
<1>6. t[l] = t[g]
  BY <1>1, <1>2, <1>4, <1>5, OwnPaths
<1>7. h \in LT(l)
  BY <1>4, <1>6
<1>8. /\ l \in S /\ ~IsCompound(m, l) /\ t[l].to \in S
      /\ h \in S /\ ~IsCompound(m, h)
      /\ head(l) \in S /\ ~IsCompound(m, head(l)) /\ head(l) \in LT(l)
  BY <1>7, Mover
<1>9. \A a \in S : Within(m, l, a) /\ l # a /\ Within(m, head(l), a) /\ head(l) # a =>
                        d(l) # None /\ Within(m, d(l), a)
  BY ScopeIs
<1>10. d(l) # None => d(l) \in S
  BY ScopeIs
<1>11. ASSUME NEW q, q \in S, NEW r, NEW u, ApartAt(m, q, r, u, h, head(l)), Within(m, q, t[l].to)
       PROVE  q \in AndStates(m) /\ Within(m, h, q) /\ Within(m, head(l), q) /\ ~Within(m, l, q)
  <2>1. q \in AndStates(m)
    BY <1>11 DEF ApartAt
  <2>2. Within(m, h, q) /\ Within(m, head(l), q)
    BY <1>8, <1>11, ApartShares
  <2>. QED BY <1>7, <1>11, <2>1, <2>2, NotAround
<1>12. h # head(l) => \E q, r, u \in S : ApartAt(m, q, r, u, h, head(l)) /\ Within(m, q, t[l].to)
  BY <1>7, <1>8, LeafTargetsWhole
<1>. HIDE DEF d, LT, head
<1>. SUFFICES ASSUME IsCompound(m, s) PROVE FALSE
  OBVIOUS
<1>13. s # l /\ s # h /\ s # head(l)
  BY <1>8
<1>14. ~Within(m, head(l), s)
  <2>1. ASSUME Within(m, head(l), s) PROVE FALSE
    <3>1. d(l) # None /\ Within(m, d(l), s)
      BY <1>1, <1>2, <1>9, <1>13, <2>1
    <3>2. Within(m, s, d(l)) /\ s # d(l)
      BY <1>2, <3>1 DEF Inside
    <3>. QED BY <1>1, <1>10, <3>1, <3>2, WithinIsTree
  <2>. QED BY <2>1
<1>15. h # head(l)
  BY <1>4, <1>14
<1>16. PICK q, r, u \in S : ApartAt(m, q, r, u, h, head(l)) /\ Within(m, q, t[l].to)
  BY <1>12, <1>15
<1>17. Within(m, h, q) /\ Within(m, head(l), q) /\ ~Within(m, l, q)
  BY <1>11, <1>16
<1>18. ~Within(m, q, s)
  BY <1>1, <1>8, <1>14, <1>16, <1>17, WithinIsTree
<1>19. Within(m, s, q)
  BY <1>1, <1>4, <1>8, <1>16, <1>17, <1>18, WithinIsTree
<1>. QED BY <1>1, <1>2, <1>8, <1>16, <1>17, <1>19, WithinIsTree

\* A path that enters x passes by every state above x that another path enters.
LEMMA EntersAncestors ==
  ASSUME NEW m, WellFormed(m), NEW L, Whole(m, L), NEW D, NEW t, Fired(m, L, D, t),
         NEW x \in StateIDs(m), NEW y \in Entered(m, D, t), Within(m, x, y),
         NEW l \in D, NEW h \in ToSet(LeafTargets(m, t[l].to)), Within(m, h, x),
         Inside(m, x, Scope(m, l, t[l]))
  PROVE  Inside(m, y, Scope(m, l, t[l]))
<1>. DEFINE S == StateIDs(m)
            d(g) == Scope(m, g, t[g])
            LT(g) == ToSet(LeafTargets(m, t[g].to))
<1>1. y \in S
  BY DEF Entered
<1>2. PICK g \in D : \E z \in LT(g) : Within(m, z, y) /\ Inside(m, y, d(g))
  BY DEF Entered
<1>3. PICK z \in LT(g) : Within(m, z, y) /\ Inside(m, y, d(g))
  BY <1>2
<1>4. l \in L /\ l \in S /\ g \in L
  BY Mover
<1>5. d(l) # None => d(l) \in S /\ Within(m, l, d(l))
  BY ScopeIs
<1>6. t[l] = t[g] => d(l) = d(g)
  BY SameScope
<1>7. Within(m, l, y) => t[l] = t[g]
  BY <1>1, <1>3, <1>4, OwnPaths
<1>. HIDE DEF d, LT
<1>. SUFFICES ASSUME ~Inside(m, y, d(l)) PROVE FALSE
  BY DEF d
<1>8. /\ d(l) # None /\ ~(Within(m, y, d(l)) /\ y # d(l))
      /\ Within(m, x, d(l))
  BY DEF Inside, d
<1>9. Within(m, y, y)
  BY <1>1, WithinIsTree
<1>10. Within(m, d(l), y)
  BY <1>1, <1>5, <1>8, <1>9, WithinIsTree
<1>11. Within(m, l, y)
  BY <1>1, <1>4, <1>5, <1>8, <1>10, WithinIsTree
<1>. QED BY <1>3, <1>6, <1>7, <1>11

\* What applyTransitions exits and enters, and in which order.
LEMMA FiredPaths ==
  ASSUME NEW m, WellFormed(m), NEW ls \in Seq(StateIDs(m)), Whole(m, ToSet(ls)),
         NEW pend, NEW D, NEW t, Carries(m, pend, D, t), Fired(m, ToSet(ls), D, t)
  PROVE  LET s == Macrostep(m, ls, pend)
         IN  /\ s.exit \in Seq(StateIDs(m)) /\ s.entry \in Seq(StateIDs(m))
             /\ ToSet(s.exit) = Exited(m, D, t) /\ ToSet(s.entry) = Entered(m, D, t)
             /\ \A i, j \in 1..Len(s.exit) : i < j => ~IsDescendantOf(m, s.exit[j], s.exit[i])
             /\ \A i, j \in 1..Len(s.entry) : i < j => ~Within(m, s.entry[i], s.entry[j])
<1>. DEFINE S == StateIDs(m)
            L == ToSet(ls)
            s == Macrostep(m, ls, pend)
            d(l) == Scope(m, l, t[l])
            LT(l) == ToSet(LeafTargets(m, t[l].to))
<1>1. /\ pend \in Seq(Firings(m))
      /\ \A p \in ToSet(pend) : p.source \in D /\ p.trans = t[p.source]
      /\ \A l \in D : \E p \in ToSet(pend) : p.source = l /\ p.trans = t[l]
  BY DEF Carries
<1>2. Fired(m, L, D, t)
  OBVIOUS
<1>. HIDE DEF L
<1>3. ASSUME NEW l \in D, d(l) # None, NEW h \in LT(l) PROVE Within(m, h, d(l))
  BY <1>2, <1>3, TargetsInScope DEF L
<1>4. \A p \in ToSet(pend) : Dom(m, p) = d(p.source) /\ ToSet(Targets(m, p)) = LT(p.source)
  BY <1>1 DEF Dom, Targets, Scope
<1>5. /\ s.exit \in Seq(S)
      /\ \A x : x \in ToSet(s.exit) <=>
                \E p \in ToSet(pend) : Within(m, p.source, x) /\ Inside(m, x, Dom(m, p))
      /\ \A a, b \in 1..Len(s.exit) : a < b => Depth(m, s.exit[b]) <= Depth(m, s.exit[a])
  BY <1>1, MacrostepExits
<1>6. \A p \in ToSet(pend) : \A h \in ToSet(Targets(m, p)) :
            Dom(m, p) = None \/ Within(m, h, Dom(m, p))
  <2>. HIDE DEF d, LT
  <2>1. ASSUME NEW p \in ToSet(pend), NEW h \in ToSet(Targets(m, p)), Dom(m, p) # None
        PROVE  Within(m, h, Dom(m, p))
    <3>1. p.source \in D /\ d(p.source) # None /\ h \in LT(p.source)
      BY <1>1, <1>4, <2>1
    <3>. QED BY <1>3, <1>4, <3>1
  <2>. QED BY <2>1
<1>7. s.entry \in Seq(S)
  BY <1>1, MacrostepEntries
<1>8. \A x : x \in ToSet(s.entry) <=>
                \E p \in ToSet(pend) : \E h \in ToSet(Targets(m, p)) :
                    Within(m, h, x) /\ Inside(m, x, Dom(m, p))
  BY <1>1, <1>6, MacrostepEntries
<1>9. ASSUME NEW a \in 1..Len(s.entry), NEW b \in 1..Len(s.entry), a < b
      PROVE  \E p \in ToSet(pend) : \E h \in ToSet(Targets(m, p)) :
                    /\ Within(m, h, s.entry[a]) /\ Inside(m, s.entry[a], Dom(m, p))
                    /\ ~(Within(m, s.entry[a], s.entry[b]) /\ Inside(m, s.entry[b], Dom(m, p)))
  BY <1>1, <1>6, <1>9, MacrostepEntries
<1>. HIDE DEF s
<1>10. \A x : x \in Exited(m, D, t) <=> x \in S /\ \E l \in D : Within(m, l, x) /\ Inside(m, x, d(l))
  BY DEF Exited
<1>11. \A x : x \in Entered(m, D, t) <=>
                x \in S /\ \E l \in D : \E h \in LT(l) : Within(m, h, x) /\ Inside(m, x, d(l))
  BY DEF Entered
<1>. HIDE DEF d, LT
<1>12. \A x \in ToSet(s.exit) : x \in S
  BY <1>5 DEF ToSet
<1>13. \A x \in ToSet(s.entry) : x \in S
  BY <1>7 DEF ToSet
<1>14. ToSet(s.exit) = Exited(m, D, t)
  <2>1. ASSUME NEW x \in ToSet(s.exit) PROVE x \in Exited(m, D, t)
    BY <1>1, <1>4, <1>5, <1>10, <1>12
  <2>2. ASSUME NEW x \in S, NEW l \in D, Within(m, l, x), Inside(m, x, d(l)) PROVE x \in ToSet(s.exit)
    <3>1. PICK p \in ToSet(pend) : p.source = l
      BY <1>1
    <3>. QED BY <1>4, <1>5, <2>2, <3>1
  <2>. QED BY <1>10, <2>1, <2>2
<1>15. ToSet(s.entry) = Entered(m, D, t)
  <2>1. ASSUME NEW x \in ToSet(s.entry) PROVE x \in Entered(m, D, t)
    <3>1. PICK p \in ToSet(pend) : \E h \in ToSet(Targets(m, p)) :
                    Within(m, h, x) /\ Inside(m, x, Dom(m, p))
      BY <1>8
    <3>. QED BY <1>1, <1>4, <1>11, <1>13, <3>1
  <2>2. ASSUME NEW x \in S, NEW l \in D, NEW h \in LT(l), Within(m, h, x), Inside(m, x, d(l))
        PROVE  x \in ToSet(s.entry)
    <3>1. PICK p \in ToSet(pend) : p.source = l
      BY <1>1
    <3>2. h \in ToSet(Targets(m, p)) /\ Inside(m, x, Dom(m, p))
      BY <1>4, <2>2, <3>1
    <3>. QED BY <1>8, <2>2, <3>2
  <2>. QED BY <1>11, <2>1, <2>2
<1>16. ASSUME NEW i \in 1..Len(s.exit), NEW j \in 1..Len(s.exit), i < j
       PROVE  ~IsDescendantOf(m, s.exit[j], s.exit[i])
  <2>1. s.exit[i] \in S /\ s.exit[j] \in S
    BY <1>5
  <2>2. Len(Chain(m, s.exit[j])) <= Len(Chain(m, s.exit[i]))
    <3>1. Len(Chain(m, s.exit[i])) \in Nat /\ Len(Chain(m, s.exit[j])) \in Nat
      BY <2>1, ChainShape
    <3>. QED BY <1>5, <1>16, <3>1 DEF Depth
  <2>3. IsDescendantOf(m, s.exit[j], s.exit[i]) => Len(Chain(m, s.exit[i])) < Len(Chain(m, s.exit[j]))
    BY <2>1, WithinIsTree
  <2>4. Len(Chain(m, s.exit[i])) \in Nat /\ Len(Chain(m, s.exit[j])) \in Nat
    BY <2>1, ChainShape
  <2>. QED BY <2>2, <2>3, <2>4
<1>17. ASSUME NEW i \in 1..Len(s.entry), NEW j \in 1..Len(s.entry), i < j
       PROVE  ~Within(m, s.entry[i], s.entry[j])
  <2>. DEFINE x == s.entry[i]
              y == s.entry[j]
  <2>1. x \in S /\ y \in S /\ y \in ToSet(s.entry)
    BY <1>7 DEF ToSet
  <2>2. PICK p \in ToSet(pend) : \E h \in ToSet(Targets(m, p)) :
                    /\ Within(m, h, x) /\ Inside(m, x, Dom(m, p))
                    /\ ~(Within(m, x, y) /\ Inside(m, y, Dom(m, p)))
    BY <1>9, <1>17
  <2>. HIDE DEF x, y
  <2>3. PICK h \in ToSet(Targets(m, p)) :
                    /\ Within(m, h, x) /\ Inside(m, x, Dom(m, p))
                    /\ ~(Within(m, x, y) /\ Inside(m, y, Dom(m, p)))
    BY <2>2
  <2>4. /\ p.source \in D /\ h \in LT(p.source) /\ Inside(m, x, d(p.source))
        /\ ~(Within(m, x, y) /\ Inside(m, y, d(p.source)))
    BY <1>1, <1>4, <2>3
  <2>5. y \in Entered(m, D, t)
    BY <1>15, <2>1
  <2>6. Within(m, x, y) => Inside(m, y, d(p.source))
    BY <1>2, <2>1, <2>3, <2>4, <2>5, EntersAncestors DEF L, d, LT
  <2>. QED BY <2>4, <2>6 DEF x, y
<1>. QED BY <1>5, <1>7, <1>14, <1>15, <1>16, <1>17 DEF s

LEMMA MacrostepPaths ==
  ASSUME NEW m, WellFormed(m), KeepsRegions(m), NEW ls \in Seq(StateIDs(m)), Whole(m, ToSet(ls)),
         NEW ev, NEW holds
  PROVE  LET s == Macrostep(m, ls, Pending(m, ls, ev, holds))
             D == Moved(m, ls, ev, holds)
             t == MovedBy(m, ls, ev, holds)
         IN  /\ s.exit \in Seq(StateIDs(m)) /\ s.entry \in Seq(StateIDs(m))
             /\ ToSet(s.exit) = Exited(m, D, t) /\ ToSet(s.entry) = Entered(m, D, t)
             /\ \A i, j \in 1..Len(s.exit) : i < j => ~IsDescendantOf(m, s.exit[j], s.exit[i])
             /\ \A i, j \in 1..Len(s.entry) : i < j => ~IsDescendantOf(m, s.entry[i], s.entry[j])
<1>. DEFINE pend == Pending(m, ls, ev, holds)
            D == Moved(m, ls, ev, holds)
            t == MovedBy(m, ls, ev, holds)
<1>1. Carries(m, pend, D, t)
  BY PendingCarries
<1>2. Fired(m, ToSet(ls), D, t)
  BY EventFires
<1>. HIDE DEF pend, D, t
<1>. DEFINE s == Macrostep(m, ls, pend)
<1>3. /\ s.exit \in Seq(StateIDs(m)) /\ s.entry \in Seq(StateIDs(m))
      /\ ToSet(s.exit) = Exited(m, D, t) /\ ToSet(s.entry) = Entered(m, D, t)
      /\ \A i, j \in 1..Len(s.exit) : i < j => ~IsDescendantOf(m, s.exit[j], s.exit[i])
      /\ \A i, j \in 1..Len(s.entry) : i < j => ~Within(m, s.entry[i], s.entry[j])
  BY <1>1, <1>2, FiredPaths
<1>. HIDE DEF s
<1>4. \A i, j \in 1..Len(s.entry) : i < j => ~IsDescendantOf(m, s.entry[i], s.entry[j])
  <2>1. \A i \in 1..Len(s.entry) : s.entry[i] \in StateIDs(m)
    BY <1>3
  <2>. QED BY <1>3, <2>1, WithinIsTree
<1>. QED BY <1>3, <1>4 DEF s, pend, D, t

-----------------------------------------------------------------------------
(* The states an event leaves and enters, as a statechart says it: below   *)
(* the innermost state around leaf and target, the target included.        *)

\* Below the target of an entry, a state of a path of leaves to enter whose
\* parent is an OR state is its initial child.
LEMMA EntersInitial ==
  ASSUME NEW m, WellFormed(m)
  PROVE  \A s \in StateIDs(m) : \A h \in ToSet(LeafTargets(m, s)), x \in StateIDs(m) :
            Within(m, h, x) /\ Within(m, x, s) /\ x # s /\ m.parent[x] \notin m.parallel =>
                x = m.initial[m.parent[x]]
<1>. DEFINE S == StateIDs(m)
            T == {s \in S : \A h \in ToSet(LeafTargets(m, s)), x \in S :
                    Within(m, h, x) /\ Within(m, x, s) /\ x # s /\ m.parent[x] \notin m.parallel =>
                        x = m.initial[m.parent[x]]}
<1>1. ASSUME NEW s \in S, \A c \in S : m.parent[c] = s => c \in T PROVE s \in T
  <2>. SUFFICES ASSUME NEW h \in ToSet(LeafTargets(m, s)), NEW x \in S,
                       Within(m, h, x), Within(m, x, s), x # s, m.parent[x] \notin m.parallel
                PROVE  x = m.initial[m.parent[x]]
    OBVIOUS
  <2>1. h \in S /\ ~IsCompound(m, h) /\ Within(m, h, s)
    BY LeafTargetsAre
  <2>2. IsCompound(m, s)
    BY WithinAndParent
  <2>3. ASSUME NEW c \in S, m.parent[c] = s, h \in ToSet(LeafTargets(m, c))
        PROVE  x = c \/ x = m.initial[m.parent[x]]
    <3>1. c \in T
      BY <1>1, <2>3
    <3>2. Within(m, h, c)
      BY <2>3, LeafTargetsAre
    <3>3. Within(m, x, c)
      <4>1. Within(m, x, c) \/ Within(m, c, x)
        BY <2>1, <3>2, WithinIsTree
      <4>2. Within(m, c, x) => x = c \/ Within(m, s, x)
        BY <2>3, WithinAndParent
      <4>3. ~Within(m, s, x)
        BY WithinIsTree
      <4>4. Within(m, c, c)
        BY WithinIsTree
      <4>. QED BY <4>1, <4>2, <4>3, <4>4
    <3>. QED BY <2>3, <3>1, <3>3
  <2>4. CASE s \in m.parallel
    <3>1. PICK c \in S : m.parent[c] = s /\ h \in ToSet(LeafTargets(m, c))
      BY <2>2, <2>4, LeafTargetsAre
    <3>2. x # c
      BY <2>4, <3>1
    <3>. QED BY <2>3, <3>1, <3>2
  <2>5. CASE s \notin m.parallel
    <3>1. /\ m.initial[s] \in S /\ m.parent[m.initial[s]] = s
          /\ h \in ToSet(LeafTargets(m, m.initial[s]))
      BY <2>2, <2>5, LeafTargetsAre
    <3>2. x = m.initial[s] => x = m.initial[m.parent[x]]
      BY <3>1
    <3>. QED BY <2>3, <3>1, <3>2
  <2>. QED BY <2>4, <2>5
<1>. HIDE DEF T
<1>2. \A s \in S : s \in T
  BY <1>1, InductionUp
<1>. QED BY <1>2 DEF T

\* A state whose path up to s passes through regions and initial children alone
\* has a leaf to enter.
LEMMA InitialEntered ==
  ASSUME NEW m, WellFormed(m)
  PROVE  \A s \in StateIDs(m) : \A y \in StateIDs(m) :
            /\ Within(m, y, s)
            /\ \A x \in StateIDs(m) : Within(m, y, x) /\ Within(m, x, s) /\ x # s =>
                    m.parent[x] \in m.parallel \/ x = m.initial[m.parent[x]]
            => \E h \in ToSet(LeafTargets(m, s)) : Within(m, h, y)
<1>. DEFINE S == StateIDs(m)
            T == {s \in S : \A y \in S :
                    /\ Within(m, y, s)
                    /\ \A x \in S : Within(m, y, x) /\ Within(m, x, s) /\ x # s =>
                            m.parent[x] \in m.parallel \/ x = m.initial[m.parent[x]]
                    => \E h \in ToSet(LeafTargets(m, s)) : Within(m, h, y)}
<1>1. ASSUME NEW s \in S, \A c \in S : m.parent[c] = s => c \in T PROVE s \in T
  <2>. SUFFICES ASSUME NEW y \in S, Within(m, y, s),
                       \A x \in S : Within(m, y, x) /\ Within(m, x, s) /\ x # s =>
                            m.parent[x] \in m.parallel \/ x = m.initial[m.parent[x]]
                PROVE  \E h \in ToSet(LeafTargets(m, s)) : Within(m, h, y)
    OBVIOUS
  <2>1. CASE y = s
    <3>1. LeafTargets(m, s) \in Seq(S) /\ LeafTargets(m, s) # <<>>
      BY LeafTargetsAre
    <3>2. PICK h : h \in ToSet(LeafTargets(m, s))
      BY <3>1, NotEmpty
    <3>3. Within(m, h, s)
      BY <3>2, LeafTargetsAre
    <3>. QED BY <2>1, <3>2, <3>3
  <2>2. CASE y # s
    <3>1. IsCompound(m, s) /\ \E c \in S : m.parent[c] = s /\ Within(m, y, c)
      BY <2>2, WithinAndParent
    <3>2. PICK c \in S : m.parent[c] = s /\ Within(m, y, c)
      BY <3>1
    <3>3. Within(m, c, s) /\ c # s
      BY <3>2, WithinAndParent
    <3>4. ASSUME NEW x \in S, Within(m, y, x), Within(m, x, c), x # c
          PROVE  m.parent[x] \in m.parallel \/ x = m.initial[m.parent[x]]
      <4>1. Within(m, x, s) /\ x # s
        BY <3>3, <3>4, WithinIsTree
      <4>. QED BY <3>4, <4>1
    <3>5. c \in T
      BY <1>1, <3>2
    <3>6. PICK h \in ToSet(LeafTargets(m, c)) : Within(m, h, y)
      BY <3>2, <3>4, <3>5
    <3>7. s \in m.parallel \/ c = m.initial[s]
      BY <3>2, <3>3
    <3>8. h \in ToSet(LeafTargets(m, s))
      <4>1. CASE s \in m.parallel
        BY <3>1, <3>2, <3>6, <4>1, LeafTargetsAre
      <4>2. CASE s \notin m.parallel
        BY <3>1, <3>6, <3>7, <4>2, LeafTargetsAre
      <4>. QED BY <4>1, <4>2
    <3>. QED BY <3>6, <3>8
  <2>. QED BY <2>1, <2>2
<1>. HIDE DEF T
<1>2. \A s \in S : s \in T
  BY <1>1, InductionUp
<1>. QED BY <1>2 DEF T

\* Where the path of a state leaves that of t.
LEMMA Fork ==
  ASSUME NEW m, WellFormed(m), NEW t \in StateIDs(m)
  PROVE  \A s \in StateIDs(m) : Within(m, t, s) \/
            \E x \in StateIDs(m) : /\ Within(m, s, x) /\ ~Within(m, t, x)
                                   /\ m.parent[x] = None \/ Within(m, t, m.parent[x])
<1>. DEFINE S == StateIDs(m)
            T == {s \in S : Within(m, t, s) \/
                    \E x \in S : /\ Within(m, s, x) /\ ~Within(m, t, x)
                                 /\ m.parent[x] = None \/ Within(m, t, m.parent[x])}
<1>1. ASSUME NEW s \in S, m.parent[s] = None \/ m.parent[s] \in T PROVE s \in T
  <2>1. Within(m, s, s)
    BY WithinIsTree
  <2>2. CASE m.parent[s] = None \/ Within(m, t, m.parent[s])
    BY <2>1, <2>2
  <2>3. CASE m.parent[s] # None /\ ~Within(m, t, m.parent[s])
    <3>1. PICK x \in S : /\ Within(m, m.parent[s], x) /\ ~Within(m, t, x)
                         /\ m.parent[x] = None \/ Within(m, t, m.parent[x])
      BY <1>1, <2>3
    <3>2. Within(m, s, x)
      BY <2>3, <3>1, WithinUnfolds
    <3>. QED BY <3>1, <3>2
  <2>. QED BY <2>2, <2>3
<1>. HIDE DEF T
<1>2. \A s \in S : s \in T
  BY <1>1, InductionDown
<1>. QED BY <1>2 DEF T

\* x leads to the target, or is a region, or an initial child off the way there.
Leads(m, to, x) ==
  \/ Within(m, to, x)
  \/ m.parent[x] \in m.parallel
  \/ m.parent[x] # None /\ ~IsDescendantOf(m, to, m.parent[x]) /\ x = m.initial[m.parent[x]]

\* The entry below d, one state after the other from the target and the initial
\* children, is that of the paths to the leaves of the target.
LEMMA EntryTree ==
  ASSUME NEW m, WellFormed(m), NEW to \in StateIDs(m),
         NEW d, d = None \/ (d \in StateIDs(m) /\ Within(m, to, d) /\ d \notin m.parallel),
         \A q \in AndStates(m) : IsDescendantOf(m, to, q) => ~Inside(m, q, d),
         NEW s \in StateIDs(m), Inside(m, s, d)
  PROVE  (\A x \in StateIDs(m) : Within(m, s, x) /\ Inside(m, x, d) => Leads(m, to, x))
            <=> \E h \in ToSet(LeafTargets(m, to)) : Within(m, h, s)
<1>. DEFINE S == StateIDs(m)
<1>0. /\ m.parallel \subseteq S /\ None \notin S
      /\ \A x \in S : m.parent[x] # None => m.parent[x] \in S
  BY OrderedTree DEF WellFormed
<1>1. ASSUME \A x \in S : Within(m, s, x) /\ Inside(m, x, d) => Leads(m, to, x)
      PROVE  \E h \in ToSet(LeafTargets(m, to)) : Within(m, h, s)
  <2>1. CASE Within(m, to, s)
    <3>1. LeafTargets(m, to) \in Seq(S) /\ LeafTargets(m, to) # <<>>
      BY LeafTargetsAre
    <3>2. PICK h : h \in ToSet(LeafTargets(m, to))
      BY <3>1, NotEmpty
    <3>3. h \in S /\ Within(m, h, to)
      BY <3>2, LeafTargetsAre
    <3>4. Within(m, h, s)
      BY <2>1, <3>3, WithinIsTree
    <3>. QED BY <3>2, <3>4
  <2>2. CASE ~Within(m, to, s)
    <3>1. PICK x \in S : /\ Within(m, s, x) /\ ~Within(m, to, x)
                         /\ m.parent[x] = None \/ Within(m, to, m.parent[x])
      BY <2>2, Fork
    <3>2. Inside(m, x, d)
      <4>. SUFFICES ASSUME d # None PROVE Within(m, x, d) /\ x # d
        BY DEF Inside
      <4>1. d \in S /\ Within(m, to, d) /\ Within(m, s, d)
        BY DEF Inside
      <4>2. Within(m, x, d) \/ Within(m, d, x)
        BY <3>1, <4>1, WithinIsTree
      <4>3. ~Within(m, d, x)
        BY <3>1, <4>1, WithinIsTree
      <4>4. Within(m, x, x)
        BY WithinIsTree
      <4>. QED BY <4>2, <4>3, <4>4
    <3>3. Leads(m, to, x)
      BY <1>1, <3>1, <3>2
    <3>4. Within(m, to, m.parent[x]) /\ m.parent[x] \in S
      BY <1>0, <3>1, <3>3 DEF Leads
    <3>5. Within(m, x, m.parent[x]) /\ x # m.parent[x]
      BY <3>4, WithinAndParent
    <3>6. CASE m.parent[x] = to
      <4>1. Within(m, s, to)
        BY <3>1, <3>5, <3>6, WithinIsTree
      <4>2. ASSUME NEW y \in S, Within(m, s, y), Within(m, y, to), y # to
            PROVE  m.parent[y] \in m.parallel \/ y = m.initial[m.parent[y]]
        <5>1. Inside(m, y, d)
          <6>. SUFFICES ASSUME d # None PROVE Within(m, y, d) /\ y # d
            BY DEF Inside
          <6>1. d \in S /\ Within(m, to, d)
            OBVIOUS
          <6>. QED BY <4>2, <6>1, WithinIsTree
        <5>2. ~Within(m, to, y)
          BY <4>2, WithinIsTree
        <5>. QED BY <1>1, <4>2, <5>1, <5>2 DEF Leads
      <4>. QED BY <4>1, <4>2, InitialEntered
    <3>7. CASE m.parent[x] # to
      <4>1. IsDescendantOf(m, to, m.parent[x])
        BY <3>4, <3>7, WithinIsTree
      <4>2. m.parent[x] \in m.parallel
        BY <3>1, <3>3, <4>1 DEF Leads
      <4>3. m.parent[x] \in AndStates(m)
        BY <4>2 DEF AndStates, IsCompound
      <4>4. ~Inside(m, m.parent[x], d)
        BY <4>1, <4>3
      <4>5. d # None /\ d # m.parent[x] /\ Within(m, m.parent[x], d)
        <5>1. d # None
          BY <4>4 DEF Inside
        <5>2. Within(m, x, d) /\ x # d /\ d \in S
          BY <3>2, <5>1 DEF Inside
        <5>3. Within(m, m.parent[x], d)
          BY <3>4, <5>2, WithinAndParent
        <5>. QED BY <4>2, <5>1, <5>3
      <4>. QED BY <4>4, <4>5 DEF Inside
    <3>. QED BY <3>6, <3>7
  <2>. QED BY <2>1, <2>2
<1>2. ASSUME NEW h \in ToSet(LeafTargets(m, to)), Within(m, h, s),
             NEW x \in S, Within(m, s, x), Inside(m, x, d)
      PROVE  Leads(m, to, x)
  <2>1. h \in S /\ Within(m, h, to)
    BY LeafTargetsAre
  <2>2. Within(m, h, x)
    BY <1>2, <2>1, WithinIsTree
  <2>. SUFFICES ASSUME ~Within(m, to, x) PROVE Leads(m, to, x)
    BY DEF Leads
  <2>3. Within(m, x, to) /\ x # to
    <3>1. Within(m, x, to) \/ Within(m, to, x)
      BY <2>1, <2>2, WithinIsTree
    <3>2. Within(m, to, to)
      BY WithinIsTree
    <3>. QED BY <3>1, <3>2
  <2>4. m.parent[x] # None /\ Within(m, m.parent[x], to)
    BY <2>3, WithinUnfolds
  <2>5. ~IsDescendantOf(m, to, m.parent[x])
    <3>1. m.parent[x] \in S
      BY <1>0, <2>4
    <3>. QED BY <2>4, <3>1, WithinIsTree
  <2>6. m.parent[x] \notin m.parallel => x = m.initial[m.parent[x]]
    BY <2>2, <2>3, EntersInitial
  <2>. QED BY <2>4, <2>5, <2>6 DEF Leads
<1>. QED BY <1>1, <1>2

-----------------------------------------------------------------------------
\* d is the innermost of the states around l and around x, x itself included.
IsBase(m, l, x, d) ==
  LET A == {a \in StateIDs(m) : Within(m, l, a) /\ a # l /\ Within(m, x, a)}
  IN  IF A = {} THEN d = None ELSE d \in A /\ \A a \in A : Within(m, d, a)

\* The base of a transition is no parallel state.
LEMMA BaseIsOr ==
  ASSUME NEW m, WellFormed(m), NEW L, Whole(m, L), NEW D, NEW t, Fired(m, L, D, t), NEW l \in D,
         t[l].to # l, NEW d, IsBase(m, l, t[l].to, d), d # None
  PROVE  d \in StateIDs(m) /\ d \notin m.parallel
<1>. DEFINE S == StateIDs(m)
            f == t[l].from
            to == t[l].to
<1>1. /\ l \in S /\ f \in S /\ to \in S /\ Within(m, l, f) /\ RegionsKept(m, t[l]) /\ ~IsCompound(m, l)
  BY Mover
<1>2. /\ d \in S /\ Within(m, l, d) /\ d # l /\ Within(m, to, d)
      /\ \A a \in S : Within(m, l, a) /\ a # l /\ Within(m, to, a) => Within(m, d, a)
  BY DEF IsBase
<1>. SUFFICES ASSUME d \in m.parallel PROVE FALSE
  BY <1>2
<1>3. d \in AndStates(m)
  BY <1>1, <1>2, WithinAndParent DEF AndStates
<1>4. CASE \E r \in S : m.parent[r] = d /\ Within(m, f, r) /\ Within(m, to, r)
  <2>1. PICK r \in S : m.parent[r] = d /\ Within(m, f, r) /\ Within(m, to, r)
    BY <1>4
  <2>2. Within(m, r, d) /\ r # d
    BY <1>2, <2>1, WithinAndParent
  <2>3. Within(m, l, r)
    BY <1>1, <2>1, WithinIsTree
  <2>4. r # l
    <3>1. to # l => IsCompound(m, l) \/ ~Within(m, to, l)
      BY <1>1, WithinAndParent
    <3>. QED BY <1>1, <2>1, <3>1
  <2>5. Within(m, d, r)
    BY <1>2, <2>1, <2>3, <2>4
  <2>. QED BY <1>2, <2>1, <2>2, <2>5, WithinIsTree
<1>5. CASE /\ ~IsDescendantOf(m, f, d) /\ ~IsDescendantOf(m, to, d)
           /\ Within(m, d, f) => \A h \in ToSet(LeafTargets(m, to)) : ~Within(m, h, d)
  <2>1. to = d
    BY <1>1, <1>2, <1>5, WithinIsTree
  <2>2. Within(m, d, f)
    <3>1. Within(m, d, f) \/ Within(m, f, d)
      BY <1>1, <1>2, WithinIsTree
    <3>2. Within(m, f, d) => f = d
      BY <1>1, <1>2, <1>5, WithinIsTree
    <3>3. Within(m, d, d)
      BY <1>2, WithinIsTree
    <3>. QED BY <3>1, <3>2, <3>3
  <2>3. Head(LeafTargets(m, to)) \in ToSet(LeafTargets(m, to)) /\ Within(m, Head(LeafTargets(m, to)), to)
    BY Mover
  <2>. QED BY <1>5, <2>1, <2>2, <2>3
<1>. QED BY <1>1, <1>3, <1>4, <1>5 DEF RegionsKept

\* No parallel state lies between the base and the target.
LEMMA BaseKeepsRegions ==
  ASSUME NEW m, WellFormed(m), NEW L, Whole(m, L), NEW D, NEW t, Fired(m, L, D, t), NEW l \in D,
         NEW d, IsBase(m, l, t[l].to, d),
         NEW q \in AndStates(m), IsDescendantOf(m, t[l].to, q)
  PROVE  ~Inside(m, q, d)
<1>. DEFINE S == StateIDs(m)
            f == t[l].from
            to == t[l].to
<1>1. /\ l \in S /\ f \in S /\ to \in S /\ Within(m, l, f) /\ RegionsKept(m, t[l]) /\ ~IsCompound(m, l)
  BY Mover
<1>2. q \in S /\ IsCompound(m, q)
  BY DEF AndStates, WellFormed
<1>3. Within(m, to, q) /\ q # l
  BY <1>1, <1>2, WithinIsTree
<1>4. PICK r \in S : m.parent[r] = q /\ Within(m, f, r)
  BY <1>1 DEF RegionsKept
<1>5. Within(m, r, q)
  BY <1>2, <1>4, WithinAndParent
<1>6. Within(m, l, q)
  <2>1. Within(m, l, r)
    BY <1>1, <1>4, WithinIsTree
  <2>. QED BY <1>1, <1>2, <1>4, <1>5, <2>1, WithinIsTree
<1>7. d \in S /\ d # None /\ Within(m, d, q)
  <2>1. q \in {a \in S : Within(m, l, a) /\ a # l /\ Within(m, to, a)}
    BY <1>2, <1>3, <1>6
  <2>. QED BY <2>1, OrderedTree DEF IsBase
<1>8. Within(m, q, d) => q = d
  BY <1>2, <1>7, WithinIsTree
<1>. QED BY <1>7, <1>8 DEF Inside

\* Two leaves that fire one transition have one base.
LEMMA SameBase ==
  ASSUME NEW m, WellFormed(m), NEW L, Whole(m, L), NEW D, NEW t, Fired(m, L, D, t),
         NEW l \in D, NEW g \in D, t[l] = t[g],
         NEW d, NEW e, IsBase(m, l, t[l].to, d), IsBase(m, g, t[g].to, e)
  PROVE  d = e
<1>. DEFINE S == StateIDs(m)
            f == t[l].from
            to == t[l].to
<1>1. /\ l \in S /\ l \in L /\ g \in S /\ g \in L /\ f \in S /\ to \in S
      /\ Within(m, l, f) /\ Within(m, g, f) /\ RegionsKept(m, t[l])
  BY Mover
<1>2. CASE l = g
  <2>1. \A a, b \in S : Within(m, a, b) /\ Within(m, b, a) => a = b
    BY WithinIsTree
  <2>. QED BY <1>2, <2>1 DEF IsBase
<1>3. CASE l # g
  <2>1. PICK q, r, u \in S : ApartAt(m, q, r, u, l, g)
    BY <1>1, <1>3 DEF Whole, Apart
  <2>2. /\ q \in AndStates(m) /\ q # l /\ q # g /\ Within(m, l, q) /\ Within(m, g, q)
        /\ Within(m, q, f)
    <3>1. ApartAt(m, q, u, r, g, l) /\ q # l /\ Within(m, l, q) /\ Within(m, g, q)
      BY <1>1, <2>1, ApartShares
    <3>2. q # g
      BY <1>1, <3>1, ApartShares
    <3>3. Within(m, q, f)
      BY <1>1, <2>1, ApartShares
    <3>. QED BY <2>1, <3>1, <3>2, <3>3 DEF ApartAt
  <2>3. ~IsDescendantOf(m, to, q)
    <3>1. ASSUME NEW p \in S, m.parent[p] = q, Within(m, f, p) PROVE FALSE
      <4>1. Within(m, p, q) /\ p # q
        BY <3>1, WithinAndParent
      <4>2. Within(m, q, p)
        BY <1>1, <2>2, <3>1, WithinIsTree
      <4>. QED BY <4>1, <4>2, WithinIsTree
    <3>. QED BY <1>1, <2>2, <3>1 DEF RegionsKept
  <2>4. ASSUME NEW k \in S, Within(m, k, q), NEW a \in S, Within(m, k, a), Within(m, to, a)
        PROVE  Within(m, q, a)
    <3>1. Within(m, q, a) \/ Within(m, a, q)
      BY <2>4, WithinIsTree
    <3>2. Within(m, a, q) => a = q
      BY <1>1, <2>3, <2>4, WithinIsTree
    <3>3. Within(m, q, q)
      BY WithinIsTree
    <3>. QED BY <3>1, <3>2, <3>3
  <2>. DEFINE A == {a \in S : Within(m, l, a) /\ a # l /\ Within(m, to, a)}
              B == {a \in S : Within(m, g, a) /\ a # g /\ Within(m, to, a)}
  <2>5. ASSUME NEW a \in A PROVE a \in B
    <3>1. Within(m, q, a)
      BY <1>1, <2>2, <2>4
    <3>2. Within(m, g, a)
      BY <1>1, <2>2, <3>1, WithinIsTree
    <3>3. a # g
      BY <1>1, <2>2, <3>1, WithinIsTree
    <3>. QED BY <3>2, <3>3
  <2>6. ASSUME NEW a \in B PROVE a \in A
    <3>1. Within(m, q, a)
      BY <1>1, <2>2, <2>4
    <3>2. Within(m, l, a)
      BY <1>1, <2>2, <3>1, WithinIsTree
    <3>3. a # l
      BY <1>1, <2>2, <3>1, WithinIsTree
    <3>. QED BY <3>2, <3>3
  <2>7. A = B /\ A \subseteq S
    BY <2>5, <2>6
  <2>8. \A a, b \in S : Within(m, a, b) /\ Within(m, b, a) => a = b
    BY WithinIsTree
  <2>9. /\ IF A = {} THEN d = None ELSE d \in A /\ \A a \in A : Within(m, d, a)
        /\ IF B = {} THEN e = None ELSE e \in B /\ \A a \in B : Within(m, e, a)
    BY DEF IsBase
  <2>. HIDE DEF A, B
  <2>. QED BY <2>7, <2>8, <2>9
<1>. QED BY <1>2, <1>3

\* What a transition leaves holds no leaf that another transition moves, that
\* stays, or that the same transition takes to itself.
LEMMA OwnBase ==
  ASSUME NEW m, WellFormed(m), NEW L, Whole(m, L), NEW D, NEW t, Fired(m, L, D, t),
         NEW l \in D, t[l].to # l, NEW g \in L, ~(g \in D /\ t[g] = t[l] /\ t[g].to # g),
         NEW d, IsBase(m, l, t[l].to, d), NEW x \in StateIDs(m), Within(m, g, x)
  PROVE  ~Inside(m, x, d)
<1>. DEFINE S == StateIDs(m)
            f == t[l].from
            to == t[l].to
<1>1. /\ l \in S /\ l \in L /\ f \in S /\ to \in S /\ Within(m, l, f) /\ RegionsKept(m, t[l])
      /\ ~IsCompound(m, l)
  BY Mover
<1>2. g \in S /\ g # l
  BY DEF Whole
<1>3. PICK q, r, u \in S : ApartAt(m, q, r, u, g, l)
  BY <1>1, <1>2 DEF Whole, Apart
<1>4. /\ q \in AndStates(m) /\ m.parent[r] = q /\ m.parent[u] = q /\ r # u
      /\ Within(m, g, r) /\ Within(m, l, u)
  BY <1>3 DEF ApartAt
<1>5. Within(m, to, u)
  <2>1. \/ Within(m, to, u)
        \/ Within(m, q, f) /\ g \in D /\ t[g] = t[l]
    BY <1>3, OwnRegion
  <2>2. CASE Within(m, q, f) /\ g \in D /\ t[g] = t[l]
    <3>1. to = g
      BY <2>2
    <3>2. IsDescendantOf(m, g, q)
      <4>1. Within(m, g, q) /\ q # g
        BY <1>1, <1>2, <1>3, ApartShares
      <4>. QED BY <1>2, <4>1, WithinIsTree
    <3>3. ASSUME NEW p \in S, m.parent[p] = q, Within(m, f, p) PROVE FALSE
      <4>1. Within(m, p, q) /\ p # q
        BY <3>3, WithinAndParent
      <4>2. Within(m, q, p)
        BY <1>1, <2>2, <3>3, WithinIsTree
      <4>. QED BY <4>1, <4>2, WithinIsTree
    <3>. QED BY <1>1, <1>4, <3>1, <3>2, <3>3 DEF RegionsKept
  <2>. QED BY <2>1, <2>2
<1>6. u # l
  BY <1>1, <1>5, WithinAndParent
<1>7. d \in S /\ d # None /\ Within(m, d, u)
  <2>1. u \in {a \in S : Within(m, l, a) /\ a # l /\ Within(m, to, a)}
    BY <1>4, <1>5, <1>6
  <2>. QED BY <2>1, OrderedTree DEF IsBase
<1>8. ASSUME Within(m, x, d) PROVE FALSE
  <2>1. Within(m, g, u)
    BY <1>2, <1>7, <1>8, WithinIsTree
  <2>. QED BY <1>2, <1>4, <2>1, OneBranch
<1>. QED BY <1>7, <1>8 DEF Inside

\* The states active after an event: those below a base are left, and those
\* above the leaves of the targets are entered.
LEMMA EventMoves ==
  ASSUME NEW m, WellFormed(m), NEW L, Whole(m, L), NEW D, NEW t, Fired(m, L, D, t),
         NEW b, \A l \in D : t[l].to # l => IsBase(m, l, t[l].to, b[l]),
         NEW s \in StateIDs(m)
  PROVE  s \in Active(m, Replaced(m, L, D, t)) <=>
            \/ s \in Active(m, L) /\ \A l \in D : t[l].to # l => ~Inside(m, s, b[l])
            \/ \E l \in D : /\ t[l].to # l /\ Inside(m, s, b[l])
                            /\ \E h \in ToSet(LeafTargets(m, t[l].to)) : Within(m, h, s)
<1>. DEFINE S == StateIDs(m)
            N == Replaced(m, L, D, t)
            stays == s \in Active(m, L) /\ \A l \in D : t[l].to # l => ~Inside(m, s, b[l])
            enters == \E l \in D : /\ t[l].to # l /\ Inside(m, s, b[l])
                                   /\ \E h \in ToSet(LeafTargets(m, t[l].to)) : Within(m, h, s)
<1>1. ASSUME NEW g \in L, Within(m, g, s), ~(g \in D /\ t[g].to # g) PROVE stays
  <2>1. s \in Active(m, L)
    BY <1>1 DEF Active
  <2>2. ASSUME NEW l \in D, t[l].to # l PROVE ~Inside(m, s, b[l])
    BY <1>1, <2>2, OwnBase
  <2>. QED BY <2>1, <2>2
<1>2. ASSUME NEW g \in D, t[g].to # g, NEW h \in ToSet(LeafTargets(m, t[g].to)), Within(m, h, s),
             ~Inside(m, s, b[g])
      PROVE  stays
  <2>1. /\ g \in L /\ g \in S /\ t[g].to \in S /\ h \in S /\ Within(m, h, t[g].to)
    BY Mover
  <2>2. b[g] # None /\ b[g] \in S /\ Within(m, g, b[g]) /\ Within(m, t[g].to, b[g])
    BY <1>2, OrderedTree DEF IsBase, Inside
  <2>3. Within(m, b[g], s)
    <3>1. Within(m, h, b[g])
      BY <2>1, <2>2, WithinIsTree
    <3>2. Within(m, s, b[g]) \/ Within(m, b[g], s)
      BY <1>2, <2>1, <2>2, <3>1, WithinIsTree
    <3>3. Within(m, s, s)
      BY WithinIsTree
    <3>. QED BY <1>2, <3>2, <3>3 DEF Inside
  <2>4. Within(m, g, s)
    BY <2>1, <2>2, <2>3, WithinIsTree
  <2>5. s \in Active(m, L)
    BY <2>1, <2>4 DEF Active
  <2>6. ASSUME NEW l \in D, t[l].to # l PROVE ~Inside(m, s, b[l])
    <3>1. CASE t[g] = t[l]
      <4>1. b[l] = b[g]
        BY <1>2, <2>6, <3>1, SameBase
      <4>. QED BY <1>2, <4>1
    <3>2. CASE t[g] # t[l]
      BY <2>1, <2>4, <2>6, <3>2, OwnBase
    <3>. QED BY <3>1, <3>2
  <2>. QED BY <2>5, <2>6
<1>3. ASSUME s \in Active(m, N) PROVE stays \/ enters
  <2>1. PICK x \in N : Within(m, x, s)
    BY <1>3 DEF Active
  <2>2. CASE x \in L \ D
    BY <1>1, <2>1, <2>2
  <2>3. CASE \E g \in D : x \in ToSet(LeafTargets(m, t[g].to))
    <3>1. PICK g \in D : x \in ToSet(LeafTargets(m, t[g].to))
      BY <2>3
    <3>2. CASE t[g].to = g
      <4>1. g \in L /\ g \in S /\ ~IsCompound(m, g)
        BY Mover
      <4>2. x = g
        BY <3>1, <3>2, <4>1, LeafTargetsAre
      <4>. QED BY <1>1, <2>1, <3>2, <4>1, <4>2
    <3>3. CASE t[g].to # g
      BY <1>2, <2>1, <3>1, <3>3
    <3>. QED BY <3>2, <3>3
  <2>. QED BY <2>1, <2>2, <2>3 DEF Replaced
<1>4. ASSUME stays PROVE s \in Active(m, N)
  <2>1. PICK g \in L : Within(m, g, s)
    BY <1>4 DEF Active
  <2>2. CASE g \notin D
    BY <2>1, <2>2 DEF Active, Replaced
  <2>3. CASE g \in D
    <3>1. /\ g \in S /\ t[g].to \in S /\ ~IsCompound(m, g)
          /\ Head(LeafTargets(m, t[g].to)) \in ToSet(LeafTargets(m, t[g].to))
          /\ \A h \in ToSet(LeafTargets(m, t[g].to)) : h \in S /\ Within(m, h, t[g].to)
      BY <2>3, Mover
    <3>2. PICK h \in ToSet(LeafTargets(m, t[g].to)) : TRUE
      BY <3>1
    <3>3. h \in N
      BY <2>3, <3>2 DEF Replaced
    <3>4. Within(m, h, s)
      <4>1. CASE t[g].to = g
        BY <2>1, <3>1, <4>1, WithinIsTree
      <4>2. CASE t[g].to # g
        <5>1. ~Inside(m, s, b[g])
          BY <1>4, <2>3, <4>2
        <5>2. b[g] # None /\ b[g] \in S /\ Within(m, g, b[g]) /\ Within(m, t[g].to, b[g])
          BY <2>3, <4>2, <5>1, OrderedTree DEF IsBase, Inside
        <5>3. Within(m, s, b[g]) \/ Within(m, b[g], s)
          BY <2>1, <3>1, <5>2, WithinIsTree
        <5>4. Within(m, b[g], s)
          <6>1. Within(m, s, s)
            BY WithinIsTree
          <6>. QED BY <5>1, <5>3, <6>1 DEF Inside
        <5>. QED BY <3>1, <5>2, <5>4, WithinIsTree
      <4>. QED BY <4>1, <4>2
    <3>. QED BY <3>3, <3>4 DEF Active
  <2>. QED BY <2>2, <2>3
<1>5. ASSUME enters PROVE s \in Active(m, N)
  BY <1>5 DEF Active, Replaced
<1>. QED BY <1>3, <1>4, <1>5

-----------------------------------------------------------------------------
(* Done events.                                                            *)

\* DoneEvents holds the done event of each completed state that has an entered
\* state below it, and no other.
LEMMA DoneEventsAre ==
  ASSUME NEW m, WellFormed(m), NEW ls, NEW entry \in Seq(StateIDs(m))
  PROVE  \A e : e \in ToSet(DoneEvents(m, ls, entry)) <=>
            \E s \in StateIDs(m) :
                /\ e = DoneEvent(s) /\ CompoundIsDone(m, ls, s)
                /\ \E y \in ToSet(entry) : IsDescendantOf(m, y, s)
<1>. DEFINE S == StateIDs(m)
            E == {DoneEvent(s) : s \in S}
            up == [s \in S |-> Tail(Chain(m, s))]
            f == [s \in S |-> IF CompoundIsDone(m, ls, s) THEN <<DoneEvent(s)>> ELSE <<>>]
            above == MapOf(entry, up)
<1>1. up \in [S -> Seq(S)] /\ \A s \in S : ToSet(up[s]) = Ancestors(m, s)
  <2>1. \A s \in S : Tail(Chain(m, s)) \in Seq(S)
    <3>. TAKE s \in S
    <3>1. Chain(m, s) \in Seq(S) /\ Chain(m, s) # <<>>
      BY ChainShape
    <3>. QED BY <3>1, HeadTailProperties
  <2>2. \A s \in S : ToSet(up[s]) = Ancestors(m, s)
    BY DEF Ancestors
  <2>. QED BY <2>1, <2>2
<1>2. f \in [S -> Seq(E)]
  <2>1. \A s \in S : <<DoneEvent(s)>> \in Seq(E)
    OBVIOUS
  <2>2. <<>> \in Seq(E)
    OBVIOUS
  <2>. HIDE DEF E
  <2>. QED BY <2>1, <2>2
<1>3. \A s \in S : ToSet(f[s]) = IF CompoundIsDone(m, ls, s) THEN {DoneEvent(s)} ELSE {}
  <2>. TAKE s \in S
  <2>1. f[s] = IF CompoundIsDone(m, ls, s) THEN <<DoneEvent(s)>> ELSE <<>>
    OBVIOUS
  <2>. HIDE DEF f
  <2>. QED BY <2>1, ToSetSmall
<1>4. /\ above \in Seq(S)
      /\ \A s : s \in ToSet(above) <=> \E y \in ToSet(entry) : s \in ToSet(up[y])
  <2>. HIDE DEF up
  <2>. QED BY <1>1, MapElements
<1>5. DoneEvents(m, ls, entry) = OnceOf(above, f)
  <2>1. above = ForEach(entry, LAMBDA s : Tail(Chain(m, s)))
    <3>1. [i \in DOMAIN entry |-> up[entry[i]]] = [i \in DOMAIN entry |-> Tail(Chain(m, entry[i]))]
      OBVIOUS
    <3>. HIDE DEF up
    <3>. QED BY <3>1 DEF MapOf, ForEach
  <2>2. \A i \in DOMAIN above : above[i] \in S
    <3>. HIDE DEF above
    <3>. QED BY <1>4
  <2>. HIDE DEF above
  <2>3. DoneEvents(m, ls, entry) = FlattenSeq([i \in DOMAIN above |->
            IF \E j \in 1..(i-1) : above[j] = above[i] THEN <<>>
            ELSE IF CompoundIsDone(m, ls, above[i]) THEN <<DoneEvent(above[i])>> ELSE <<>>])
    BY <2>1 DEF DoneEvents, ForEachOnce
  <2>4. \A i \in DOMAIN above : f[above[i]] =
            IF CompoundIsDone(m, ls, above[i]) THEN <<DoneEvent(above[i])>> ELSE <<>>
    BY <2>2
  <2>. HIDE DEF f
  <2>5. [i \in DOMAIN above |-> IF \E j \in 1..(i-1) : above[j] = above[i] THEN <<>> ELSE f[above[i]]] =
        [i \in DOMAIN above |->
            IF \E j \in 1..(i-1) : above[j] = above[i] THEN <<>>
            ELSE IF CompoundIsDone(m, ls, above[i]) THEN <<DoneEvent(above[i])>> ELSE <<>>]
    BY <2>4
  <2>. QED BY <2>3, <2>5 DEF OnceOf
<1>. HIDE DEF above, f, up, E
<1>6. \A e : e \in ToSet(OnceOf(above, f)) <=> \E s \in ToSet(above) : e \in ToSet(f[s])
  <2>1. above \in Seq(S)
    BY <1>4
  <2>. QED BY ONLY <1>2, <2>1, OnceElements
<1>7. ToSet(above) \subseteq S /\ ToSet(entry) \subseteq S
  BY <1>4 DEF ToSet
<1>8. ASSUME NEW s \in S
      PROVE  s \in ToSet(above) <=> \E y \in ToSet(entry) : IsDescendantOf(m, y, s)
  BY <1>1, <1>4, <1>7 DEF IsDescendantOf
<1>9. ASSUME NEW e, e \in ToSet(OnceOf(above, f))
      PROVE  \E s \in S : /\ e = DoneEvent(s) /\ CompoundIsDone(m, ls, s)
                          /\ \E y \in ToSet(entry) : IsDescendantOf(m, y, s)
  <2>1. PICK s \in ToSet(above) : e \in ToSet(f[s])
    BY <1>6, <1>9
  <2>2. s \in S
    BY <1>7
  <2>3. CompoundIsDone(m, ls, s)
    BY <1>3, <2>1, <2>2
  <2>4. ToSet(f[s]) = {DoneEvent(s)}
    BY <1>3, <2>2, <2>3
  <2>5. e = DoneEvent(s)
    BY <2>1, <2>4
  <2>. QED BY <1>8, <2>1, <2>2, <2>3, <2>5
<1>10. ASSUME NEW s \in S, CompoundIsDone(m, ls, s), \E y \in ToSet(entry) : IsDescendantOf(m, y, s)
       PROVE  DoneEvent(s) \in ToSet(OnceOf(above, f))
  BY <1>3, <1>6, <1>8, <1>10
<1>. QED BY <1>5, <1>9, <1>10

\* No parallel state below s.
Simple(m, s) == \A q \in m.parallel : ~IsDescendantOf(m, q, s)

\* Below a state that is not parallel, and has no parallel state below it, lies
\* one leaf at most.
LEMMA OneLeafWithin ==
  ASSUME NEW m, WellFormed(m), NEW L, Whole(m, L), NEW s \in StateIDs(m), s \notin m.parallel, Simple(m, s),
         NEW l \in L, NEW h \in L, Within(m, l, s), Within(m, h, s)
  PROVE  l = h
<1>. SUFFICES ASSUME l # h PROVE FALSE
  OBVIOUS
<1>1. l \in StateIDs(m) /\ h \in StateIDs(m)
  BY DEF Whole
<1>2. PICK q, r, u \in StateIDs(m) : ApartAt(m, q, r, u, l, h)
  BY DEF Whole, Apart
<1>3. Within(m, q, s)
  BY <1>1, <1>2, ApartShares
<1>4. q \in m.parallel
  BY <1>2 DEF ApartAt, AndStates
<1>. QED BY <1>2, <1>3, <1>4, WithinIsTree DEF Simple

\* A region below which no parallel state lies, of a parallel state of that kind.
LEMMA SimpleRegion ==
  ASSUME NEW m, WellFormed(m), NEW s \in StateIDs(m), Simple(m, s),
         NEW r \in StateIDs(m), m.parent[r] = s
  PROVE  /\ r \notin m.parallel /\ Simple(m, r)
         /\ \A l \in StateIDs(m) : Within(m, l, r) => IsDescendantOf(m, l, s)
<1>. DEFINE S == StateIDs(m)
<1>1. Within(m, r, s) /\ r # s
  BY WithinAndParent
<1>2. \A x, q \in S : IsDescendantOf(m, x, q) <=> Within(m, x, q) /\ x # q
  BY WithinIsTree
<1>3. \A l \in S : Within(m, l, r) => IsDescendantOf(m, l, s)
  BY <1>1, <1>2, WithinIsTree
<1>4. m.parallel \subseteq S
  BY DEF WellFormed
<1>5. Within(m, r, r)
  BY WithinIsTree
<1>. QED BY <1>2, <1>3, <1>4, <1>5 DEF Simple

\* All leaves below s are final, and there are some.
Complete(m, L, s) == s \in Active(m, L) /\ \A l \in L : IsDescendantOf(m, l, s) => l \in m.final

\* compoundIsDone, which asks of each region whether one of its leaves is final,
\* and of an OR state whether the first leaf below it is.
LEMMA CompoundIsDoneIs ==
  ASSUME NEW m, WellFormed(m), NEW ls \in Seq(StateIDs(m)), Whole(m, ToSet(ls)),
         NEW s \in StateIDs(m), IsCompound(m, s), Simple(m, s)
  PROVE  CompoundIsDone(m, ls, s) <=> Complete(m, ToSet(ls), s)
<1>. DEFINE S == StateIDs(m)
            L == ToSet(ls)
<1>1. /\ L \subseteq S /\ \A l \in L : ~IsCompound(m, l)
      /\ \A i \in DOMAIN ls : ls[i] \in L
      /\ \A l \in L : \E i \in DOMAIN ls : l = ls[i]
  BY DEF Whole, ToSet
<1>2. \A l \in L : IsDescendantOf(m, l, s) <=> Within(m, l, s)
  BY <1>1, WithinIsTree
<1>3. s \in Active(m, L) <=> \E l \in L : Within(m, l, s)
  BY DEF Active
<1>4. CASE s \in m.parallel
  <2>1. CompoundIsDone(m, ls, s) <=>
            \A r \in S : m.parent[r] = s => \E l \in L : Within(m, l, r) /\ l \in m.final
    <3>1. ToSet(Children(m, s)) = {c \in S : m.parent[c] = s}
      BY ChildrenAre
    <3>2. CompoundIsDone(m, ls, s) <=>
            \A r \in ToSet(Children(m, s)) :
                \E i \in DOMAIN ls : Within(m, ls[i], r) /\ ls[i] \in m.final
      BY <1>4 DEF CompoundIsDone, Within
    <3>3. \A r : (\E i \in DOMAIN ls : Within(m, ls[i], r) /\ ls[i] \in m.final)
                    <=> \E l \in L : Within(m, l, r) /\ l \in m.final
      BY <1>1
    <3>. QED BY <3>1, <3>2, <3>3
  <2>. HIDE DEF L
  <2>2. ASSUME Complete(m, L, s), NEW r \in S, m.parent[r] = s
        PROVE  \E l \in L : Within(m, l, r) /\ l \in m.final
    <3>1. s \in AndStates(m)
      BY <1>4 DEF AndStates
    <3>2. PICK l \in L : Within(m, l, s)
      BY <1>3, <2>2 DEF Complete
    <3>3. PICK h \in L : Within(m, h, r)
      BY <2>2, <3>1, <3>2 DEF Whole, L
    <3>4. IsDescendantOf(m, h, s)
      BY <1>1, <2>2, <3>3, SimpleRegion
    <3>. QED BY <2>2, <3>3, <3>4 DEF Complete
  <2>3. ASSUME \A r \in S : m.parent[r] = s => \E l \in L : Within(m, l, r) /\ l \in m.final
        PROVE  Complete(m, L, s)
    <3>1. PICK r \in S : m.parent[r] = s
      BY DEF IsCompound
    <3>2. PICK l \in L : Within(m, l, r)
      BY <2>3, <3>1
    <3>3. Within(m, l, s)
      BY <1>1, <1>2, <3>1, <3>2, SimpleRegion
    <3>4. ASSUME NEW h \in L, IsDescendantOf(m, h, s) PROVE h \in m.final
      <4>1. Within(m, h, s) /\ h # s /\ h \in S
        BY <1>1, <3>4, WithinIsTree
      <4>2. PICK c \in S : m.parent[c] = s /\ Within(m, h, c)
        BY <4>1, WithinAndParent
      <4>3. PICK g \in L : Within(m, g, c) /\ g \in m.final
        BY <2>3, <4>2
      <4>4. c \notin m.parallel /\ Simple(m, c)
        BY <4>2, SimpleRegion
      <4>5. Whole(m, L)
        BY DEF L
      <4>6. g = h
        BY <4>2, <4>3, <4>4, <4>5, OneLeafWithin
      <4>. QED BY <4>3, <4>6
    <3>. QED BY <1>3, <3>3, <3>4 DEF Complete
  <2>. QED BY <2>1, <2>2, <2>3 DEF L
<1>5. CASE s \notin m.parallel
  <2>. DEFINE I == {i \in 1..Len(ls) : IsDescendantOf(m, ls[i], s)}
              first == IF I # {} THEN Min(I) ELSE 0
  <2>1. CompoundIsDone(m, ls, s) <=> first # 0 /\ ls[first] \in m.final
    BY <1>5 DEF CompoundIsDone, SelectInSeq
  <2>2. DOMAIN ls = 1..Len(ls) /\ I \subseteq Nat \ {0} /\ I \subseteq DOMAIN ls
    OBVIOUS
  <2>3. I # {} => Min(I) \in I
    <3>. HIDE DEF I
    <3>1. I \subseteq Nat
      BY <2>2
    <3>. QED BY <3>1, MinIsLeast
  <2>4. \A i \in I : ls[i] \in L /\ Within(m, ls[i], s)
    BY <1>1, <1>2, <2>2
  <2>5. I = {} => s \notin Active(m, L)
    BY <1>1, <1>2, <1>3, <2>2
  <2>6. \A i \in I : IsDescendantOf(m, ls[i], s)
    OBVIOUS
  <2>. HIDE DEF I, L
  <2>7. CASE I = {}
    BY <2>1, <2>5, <2>7 DEF Complete, L
  <2>8. CASE I # {}
    <3>1. first \in I /\ first # 0
      BY <2>2, <2>3, <2>8
    <3>. HIDE DEF first
    <3>2. ls[first] \in L /\ Within(m, ls[first], s) /\ IsDescendantOf(m, ls[first], s)
      BY <2>4, <2>6, <3>1
    <3>3. s \in Active(m, L)
      BY <1>3, <3>2
    <3>4. ASSUME NEW h \in L, IsDescendantOf(m, h, s) PROVE h = ls[first]
      BY <1>2, <1>5, <3>2, <3>4, OneLeafWithin DEF L
    <3>. QED BY <2>1, <3>1, <3>2, <3>3, <3>4 DEF Complete, L
  <2>. QED BY <2>7, <2>8
<1>. QED BY <1>4, <1>5

\* The event that completes a state enters a state below it.
LEMMA StepCompletes ==
  ASSUME NEW m, WellFormed(m), NEW L, Whole(m, L), NEW D, NEW t, Fired(m, L, D, t),
         NEW s \in StateIDs(m), IsCompound(m, s), Simple(m, s),
         Complete(m, Replaced(m, L, D, t), s), ~Complete(m, L, s)
  PROVE  \E y \in Entered(m, D, t) : IsDescendantOf(m, y, s)
<1>. DEFINE S == StateIDs(m)
            N == Replaced(m, L, D, t)
<1>1. Whole(m, N)
  BY StaysWhole
<1>2. Active(m, N) \ Active(m, L) \subseteq Entered(m, D, t)
  BY PathsMatchLeaves
<1>. HIDE DEF N
<1>3. /\ L \subseteq S /\ N \subseteq S
      /\ \A l \in L : ~IsCompound(m, l)
      /\ \A l \in N : ~IsCompound(m, l)
  BY <1>1 DEF Whole
<1>4. \A l, h \in S : Within(m, l, h) /\ l # h => IsCompound(m, h)
  BY WithinAndParent
<1>5. \A l \in S : Within(m, l, l)
  BY WithinIsTree
<1>6. \A l \in N \ L : l \in Active(m, N) \ Active(m, L)
  BY <1>3, <1>4, <1>5 DEF Active
<1>7. \A l \in N : IsDescendantOf(m, l, s) => l \in m.final
  BY DEF Complete, N
<1>8. \A l \in S : ~IsCompound(m, l) => (IsDescendantOf(m, l, s) <=> Within(m, l, s))
  BY WithinIsTree
<1>9. PICK h \in N : Within(m, h, s)
  BY DEF Complete, Active, N
<1>10. CASE h \notin L
  BY <1>2, <1>3, <1>6, <1>8, <1>9, <1>10
<1>11. CASE h \in L
  <2>1. s \in Active(m, L)
    BY <1>9, <1>11 DEF Active
  <2>2. PICK l \in L : IsDescendantOf(m, l, s) /\ l \notin m.final
    BY <2>1 DEF Complete
  <2>3. Within(m, l, s) /\ l # s /\ l \in S
    BY <1>3, <2>2, WithinIsTree
  <2>4. h # l
    BY <1>3, <1>7, <1>8, <1>9, <2>2
  <2>5. s \in m.parallel
    BY <1>9, <1>11, <2>3, <2>4, OneLeafWithin
  <2>6. PICK c \in S : m.parent[c] = s /\ Within(m, l, c)
    BY <2>3, WithinAndParent
  <2>7. PICK g \in N : Within(m, g, c)
    <3>1. s \in AndStates(m)
      BY <2>5 DEF AndStates
    <3>. QED BY <1>1, <1>9, <2>6, <3>1 DEF Whole
  <2>8. IsDescendantOf(m, g, s)
    BY <1>3, <2>6, <2>7, SimpleRegion
  <2>9. g # l
    BY <1>7, <2>2, <2>8
  <2>10. g \notin L
    <3>1. c \notin m.parallel /\ Simple(m, c)
      BY <2>6, SimpleRegion
    <3>. QED BY <2>6, <2>7, <2>9, <3>1, OneLeafWithin
  <2>. QED BY <1>2, <1>6, <2>8, <2>10
<1>. QED BY <1>10, <1>11

Count(q, e) == Cardinality({i \in DOMAIN q : q[i] = e})

\* How often e is in a sequence, after more is appended or the head is taken.
LEMMA CountIs ==
  ASSUME NEW T, NEW q \in Seq(T), NEW e
  PROVE  /\ IsFiniteSet({i \in DOMAIN q : q[i] = e}) /\ Count(q, e) \in Nat
         /\ Count(q, e) > 0 <=> e \in ToSet(q)
<1>. DEFINE I == {i \in DOMAIN q : q[i] = e}
<1>1. DOMAIN q = 1..Len(q) /\ Len(q) \in Nat
  OBVIOUS
<1>2. IsFiniteSet(1..Len(q))
  BY <1>1, FS_Interval
<1>3. IsFiniteSet(I)
  BY <1>1, <1>2, FS_Subset
<1>4. I = {} <=> e \notin ToSet(q)
  BY DEF ToSet
<1>. HIDE DEF I
<1>5. Cardinality(I) \in Nat
  BY <1>3, FS_CardinalityType
<1>6. Cardinality(I) = 0 <=> I = {}
  BY <1>3, FS_EmptySet
<1>. QED BY <1>3, <1>4, <1>5, <1>6 DEF Count, I

LEMMA CountAppended ==
  ASSUME NEW T, NEW q \in Seq(T), NEW r \in Seq(T), NEW e, e \notin ToSet(r)
  PROVE  Count(q \o r, e) = Count(q, e)
<1>1. /\ DOMAIN (q \o r) = 1..(Len(q) + Len(r)) /\ DOMAIN q = 1..Len(q)
      /\ Len(q) \in Nat /\ Len(r) \in Nat
  OBVIOUS
<1>2. \A i \in 1..(Len(q) + Len(r)) : (q \o r)[i] = IF i <= Len(q) THEN q[i] ELSE r[i - Len(q)]
  OBVIOUS
<1>3. \A i \in 1..Len(r) : r[i] # e
  BY DEF ToSet
<1>4. \A i \in 1..(Len(q) + Len(r)) : i > Len(q) => i - Len(q) \in 1..Len(r)
  BY <1>1
<1>5. {i \in DOMAIN (q \o r) : (q \o r)[i] = e} = {i \in DOMAIN q : q[i] = e}
  BY <1>1, <1>2, <1>3, <1>4
<1>. QED BY <1>5 DEF Count

LEMMA CountTail ==
  ASSUME NEW T, NEW q \in Seq(T), q # <<>>, NEW e
  PROVE  Count(Tail(q), e) <= Count(q, e)
<1>. DEFINE I == {i \in DOMAIN q : q[i] = e}
            J == {i \in DOMAIN Tail(q) : Tail(q)[i] = e}
            f == [i \in J |-> i + 1]
<1>1. /\ Tail(q) \in Seq(T) /\ Len(Tail(q)) = Len(q) - 1 /\ Len(q) \in Nat
      /\ DOMAIN q = 1..Len(q) /\ DOMAIN Tail(q) = 1..(Len(q) - 1)
      /\ \A i \in 1..(Len(q) - 1) : Tail(q)[i] = q[i + 1]
  OBVIOUS
<1>2. IsFiniteSet(I)
  BY CountIs
<1>3. J \subseteq Nat /\ \A i \in J : i + 1 \in I
  BY <1>1
<1>. HIDE DEF I, J
<1>4. f \in [J -> I] /\ \A i, j \in J : f[i] = f[j] => i = j
  BY <1>3
<1>5. f \in Injection(J, I)
  BY <1>4 DEF Injection, IsInjective
<1>. HIDE DEF f
<1>6. Cardinality(J) <= Cardinality(I)
  BY <1>2, <1>5, FS_Injection
<1>. QED BY <1>6 DEF Count, I, J
=============================================================================
