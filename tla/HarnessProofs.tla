--------------------------- MODULE HarnessProofs ----------------------------
(***************************************************************************)
(* Proofs about Harness. For machines that keep their regions and have no  *)
(* Always of a parallel state or of a state around one: between two calls  *)
(* what was entered, invoked and timed is what is active, and no timer is  *)
(* overdue. For every machine: the harness does what the runtime does.     *)
(***************************************************************************)
EXTENDS Harness, MicrostepProofs

-----------------------------------------------------------------------------
(* Sequences of timers.                                                    *)

\* The timers ts that are in T, as Filter keeps them.
Kept(ts, T) == FlattenSeq([i \in DOMAIN ts |-> IF ts[i] \in T THEN <<ts[i]>> ELSE <<>>])

\* Filter keeps the order: two places of the result are two of the sequence.
LEMMA FilterOrder ==
  ASSUME NEW S, NEW seq \in Seq(S), NEW T
  PROVE  \A a, b \in 1..Len(Kept(seq, T)) : a < b =>
            \E i, j \in 1..Len(seq) : i < j /\ Kept(seq, T)[a] = seq[i] /\ Kept(seq, T)[b] = seq[j]
<1>. DEFINE n == Len(seq)
            ss == [i \in DOMAIN seq |-> IF seq[i] \in T THEN <<seq[i]>> ELSE <<>>]
            flat == Kept(seq, T)
<1>1. n \in Nat /\ DOMAIN seq = 1..n /\ \A i \in 1..n : seq[i] \in S
  OBVIOUS
<1>2. ss \in [1..n -> Seq(S)]
  <2>1. \A c \in S : <<c>> \in Seq(S)
    OBVIOUS
  <2>2. <<>> \in Seq(S)
    OBVIOUS
  <2>. QED BY <1>1, <2>1, <2>2
<1>3. \A i \in 1..n : ss[i] = IF seq[i] \in T THEN <<seq[i]>> ELSE <<>>
  BY <1>1
<1>4. InOrder(flat, ss, n)
  <2>1. flat = FlattenSeq(ss)
    BY DEF Kept
  <2>. HIDE DEF ss, flat
  <2>. QED BY <1>1, <1>2, <2>1, FlattenOrder
<1>. HIDE DEF ss, flat, n
<1>5. ASSUME NEW a \in 1..Len(flat), NEW b \in 1..Len(flat), a < b
      PROVE  \E i, j \in 1..n : i < j /\ flat[a] = seq[i] /\ flat[b] = seq[j]
  <2>1. PICK i, j \in 1..n : \E o \in 1..Len(ss[i]), u \in 1..Len(ss[j]) :
                flat[a] = ss[i][o] /\ flat[b] = ss[j][u] /\ i <= j /\ (i = j => o < u)
    BY <1>4, <1>5 DEF InOrder
  <2>2. PICK o \in 1..Len(ss[i]) : \E u \in 1..Len(ss[j]) :
                flat[a] = ss[i][o] /\ flat[b] = ss[j][u] /\ i <= j /\ (i = j => o < u)
    BY <2>1
  <2>3. PICK u \in 1..Len(ss[j]) :
                flat[a] = ss[i][o] /\ flat[b] = ss[j][u] /\ i <= j /\ (i = j => o < u)
    BY <2>2
  <2>4. ASSUME NEW x \in 1..n, NEW y \in 1..Len(ss[x]) PROVE y = 1 /\ ss[x][y] = seq[x]
    <3>1. CASE ss[x] = <<>>
      BY <3>1
    <3>2. CASE ss[x] = <<seq[x]>>
      BY <3>2
    <3>. QED BY <1>3, <3>1, <3>2
  <2>5. o = 1 /\ ss[i][o] = seq[i] /\ u = 1 /\ ss[j][u] = seq[j]
    BY <2>4
  <2>6. i < j
    BY <1>1, <2>3, <2>5
  <2>. QED BY <2>3, <2>5, <2>6
<1>. QED BY <1>5 DEF flat, n

\* Timers of pairwise different states.
Single(ts) == \A i, j \in 1..Len(ts) : ts[i].id = ts[j].id => i = j

LEMMA KeptIs ==
  ASSUME NEW S, NEW ts \in Seq(S), Single(ts), NEW T
  PROVE  /\ Kept(ts, T) \in Seq(S) /\ Single(Kept(ts, T))
         /\ \A i \in 1..Len(Kept(ts, T)) :
                Kept(ts, T)[i] \in T /\ \E j \in 1..Len(ts) : Kept(ts, T)[i] = ts[j]
         /\ \A j \in 1..Len(ts) : ts[j] \in T => \E i \in 1..Len(Kept(ts, T)) : Kept(ts, T)[i] = ts[j]
<1>. DEFINE k == Kept(ts, T)
<1>1. k \in Seq(S) /\ ToSet(k) = ToSet(ts) \cap T
  <2>. DEFINE f == FlattenSeq([i \in DOMAIN ts |-> IF ts[i] \in T THEN <<ts[i]>> ELSE <<>>])
  <2>1. f \in Seq(S) /\ ToSet(f) = ToSet(ts) \cap T
    BY ONLY ts \in Seq(S), FilterElements, Zenon
  <2>. QED BY <2>1 DEF Kept
<1>2. \A a, b \in 1..Len(k) : a < b => \E i, j \in 1..Len(ts) : i < j /\ k[a] = ts[i] /\ k[b] = ts[j]
  BY FilterOrder
<1>. HIDE DEF k
<1>3. ASSUME NEW a \in 1..Len(k), NEW b \in 1..Len(k), a < b, k[a].id = k[b].id PROVE FALSE
  <2>1. PICK i, j \in 1..Len(ts) : i < j /\ k[a] = ts[i] /\ k[b] = ts[j]
    BY <1>2, <1>3
  <2>2. i = j
    BY <1>3, <2>1 DEF Single
  <2>. QED BY <2>1, <2>2
<1>4. Single(k)
  <2>. SUFFICES ASSUME NEW a \in 1..Len(k), NEW b \in 1..Len(k), k[a].id = k[b].id PROVE a = b
    BY DEF Single
  <2>1. a \in Int /\ b \in Int
    BY <1>1
  <2>. QED BY <1>3, <2>1
<1>5. ASSUME NEW i \in 1..Len(k) PROVE k[i] \in T /\ \E j \in 1..Len(ts) : k[i] = ts[j]
  <2>1. k[i] \in ToSet(k)
    BY <1>1 DEF ToSet
  <2>2. k[i] \in ToSet(ts) /\ k[i] \in T
    BY <1>1, <2>1
  <2>. QED BY <2>2 DEF ToSet
<1>6. ASSUME NEW j \in 1..Len(ts), ts[j] \in T PROVE \E i \in 1..Len(k) : k[i] = ts[j]
  <2>1. ts[j] \in ToSet(ts)
    BY DEF ToSet
  <2>2. ts[j] \in ToSet(k)
    BY <1>1, <1>6, <2>1
  <2>. QED BY <1>1, <2>2 DEF ToSet
<1>. QED BY <1>1, <1>4, <1>5, <1>6 DEF k

\* One timer less.
LEMMA RemoveAtIs ==
  ASSUME NEW S, NEW ts \in Seq(S), Single(ts), NEW i \in 1..Len(ts)
  PROVE  /\ RemoveAt(ts, i) \in Seq(S) /\ Single(RemoveAt(ts, i))
         /\ \A j \in 1..Len(RemoveAt(ts, i)) :
                \E k \in 1..Len(ts) : k # i /\ RemoveAt(ts, i)[j] = ts[k]
         /\ \A k \in 1..Len(ts) : k # i =>
                \E j \in 1..Len(RemoveAt(ts, i)) : RemoveAt(ts, i)[j] = ts[k]
<1>. DEFINE r == RemoveAt(ts, i)
            a == SubSeq(ts, 1, i - 1)
            b == SubSeq(ts, i + 1, Len(ts))
<1>0. Len(ts) \in Nat /\ \A j \in 1..Len(ts) : ts[j] \in S
  OBVIOUS
<1>1. a \in Seq(S) /\ Len(a) = i - 1 /\ \A j \in 1..(i-1) : a[j] = ts[j]
  <2>1. \A j \in 1..(i-1) : ts[j] \in S
    BY <1>0
  <2>2. /\ a \in Seq(S) /\ Len(a) = IF 1 <= i - 1 THEN (i - 1) - 1 + 1 ELSE 0
        /\ \A j \in 1..((i - 1) - 1 + 1) : a[j] = ts[1 + j - 1]
    BY <2>1, SubSeqProperties
  <2>. HIDE DEF a
  <2>. QED BY <1>0, <2>2
<1>2. b \in Seq(S) /\ Len(b) = Len(ts) - i /\ \A j \in 1..(Len(ts) - i) : b[j] = ts[i + j]
  <2>1. \A j \in (i+1)..Len(ts) : ts[j] \in S
    BY <1>0
  <2>2. /\ b \in Seq(S) /\ Len(b) = IF i + 1 <= Len(ts) THEN Len(ts) - (i + 1) + 1 ELSE 0
        /\ \A j \in 1..(Len(ts) - (i + 1) + 1) : b[j] = ts[i + 1 + j - 1]
    BY <1>0, <2>1, SubSeqProperties
  <2>. HIDE DEF b
  <2>. QED BY <1>0, <2>2
<1>3. r = a \o b
  BY DEF RemoveAt
<1>. HIDE DEF r, a, b
<1>4. r \in Seq(S) /\ Len(r) = Len(ts) - 1
  <2>1. a \in Seq(S) /\ b \in Seq(S) /\ Len(a) = i - 1 /\ Len(b) = Len(ts) - i
    BY <1>1, <1>2
  <2>2. a \o b \in Seq(S) /\ Len(a \o b) = Len(a) + Len(b)
    BY ONLY <2>1, ConcatProperties
  <2>3. (i - 1) + (Len(ts) - i) = Len(ts) - 1
    BY ONLY <1>0, i \in 1..Len(ts)
  <2>. QED BY ONLY <1>3, <2>1, <2>2, <2>3
<1>5. ASSUME NEW j \in 1..Len(r) PROVE r[j] = IF j < i THEN ts[j] ELSE ts[j + 1]
  <2>1. CASE j < i
    BY <1>0, <1>1, <1>2, <1>3, <1>4, <2>1
  <2>2. CASE j >= i
    <3>. DEFINE x == j - (i - 1)
    <3>1. x \in 1..(Len(ts) - i) /\ i + x = j + 1
      BY <1>0, <1>4, <2>2
    <3>2. r[j] = b[x]
      BY <1>0, <1>1, <1>2, <1>3, <1>4, <2>2
    <3>. HIDE DEF x
    <3>3. b[x] = ts[j + 1]
      BY <1>2, <3>1
    <3>. QED BY <1>4, <2>2, <3>2, <3>3
  <2>. QED BY <1>0, <1>4, <2>1, <2>2
<1>6. Single(r)
  <2>. SUFFICES ASSUME NEW j \in 1..Len(r), NEW k \in 1..Len(r), r[j].id = r[k].id PROVE j = k
    BY DEF Single
  <2>. DEFINE p(x) == IF x < i THEN x ELSE x + 1
  <2>1. /\ p(j) \in 1..Len(ts) /\ r[j] = ts[p(j)]
        /\ p(k) \in 1..Len(ts) /\ r[k] = ts[p(k)]
    BY <1>0, <1>4, <1>5
  <2>2. p(j) = p(k)
    <3>. HIDE DEF p
    <3>. QED BY <2>1 DEF Single
  <2>. QED BY <1>4, <2>2
<1>7. ASSUME NEW j \in 1..Len(r) PROVE \E k \in 1..Len(ts) : k # i /\ r[j] = ts[k]
  <2>1. CASE j < i
    BY <1>0, <1>4, <1>5, <2>1
  <2>2. CASE j >= i
    <3>1. j + 1 \in 1..Len(ts) /\ j + 1 # i /\ ~(j < i)
      BY <1>0, <1>4, <2>2
    <3>. QED BY <1>5, <3>1
  <2>. QED BY <1>4, <2>1, <2>2
<1>8. ASSUME NEW k \in 1..Len(ts), k # i PROVE \E j \in 1..Len(r) : r[j] = ts[k]
  <2>1. CASE k < i
    BY <1>0, <1>4, <1>5, <2>1
  <2>2. CASE k > i
    <3>1. k - 1 \in 1..Len(r) /\ ~(k - 1 < i) /\ (k - 1) + 1 = k
      BY <1>0, <1>4, <2>2
    <3>. QED BY <1>5, <3>1
  <2>. QED BY <1>0, <1>8, <2>1, <2>2
<1>. QED BY <1>4, <1>6, <1>7, <1>8 DEF r

\* What startStateTimers and stopStateTimers hold: timers of states.
Timer(m) == [id : StateIDs(m), left : Int]

LEMMA TimerFields ==
  ASSUME NEW m, NEW ts \in Seq(Timer(m))
  PROVE  /\ DOMAIN ts = 1..Len(ts) /\ Len(ts) \in Nat
         /\ \A i \in 1..Len(ts) :
                /\ ts[i] \in Timer(m) /\ ts[i].id \in StateIDs(m) /\ ts[i].left \in Int
                /\ \A d \in Int : /\ [ts[i] EXCEPT !.left = @ - d] \in Timer(m)
                                  /\ [ts[i] EXCEPT !.left = @ - d].id = ts[i].id
                                  /\ [ts[i] EXCEPT !.left = @ - d].left = ts[i].left - d
<1>1. /\ DOMAIN ts = 1..Len(ts) /\ Len(ts) \in Nat
      /\ \A i \in 1..Len(ts) : ts[i] \in Timer(m)
  OBVIOUS
<1>2. ASSUME NEW x \in Timer(m), NEW d \in Int
      PROVE  /\ x.id \in StateIDs(m) /\ x.left \in Int
             /\ [x EXCEPT !.left = @ - d] \in Timer(m)
             /\ [x EXCEPT !.left = @ - d].id = x.id
             /\ [x EXCEPT !.left = @ - d].left = x.left - d
  BY DEF Timer
<1>3. 0 \in Int
  OBVIOUS
<1>. QED BY <1>1, <1>2, <1>3

\* The states of entry come once.
Once(seq) == \A i, j \in 1..Len(seq) : seq[i] = seq[j] => i = j

\* After a step each timer is a new one, of a state of entry and with all of its
\* delay left, or an old one, of a state that was neither left nor entered.
LEMMA AfterStepIs ==
  ASSUME \A s \in StateIDs(machine) : machine.delay[s] \in Nat \ {0},
         NEW ts \in Seq(Timer(machine)), Single(ts),
         NEW exit, NEW entry \in Seq(StateIDs(machine)), Once(entry)
  PROVE  LET next == AfterStep(ts, exit, entry)
         IN  /\ next \in Seq(Timer(machine)) /\ Single(next)
             /\ \A i \in 1..Len(next) :
                    \/ /\ next[i].id \in ToSet(entry) /\ machine.after[next[i].id] # None
                       /\ next[i].left = machine.delay[next[i].id]
                    \/ /\ next[i].id \notin ToSet(exit) \cup ToSet(entry)
                       /\ \E j \in 1..Len(ts) : next[i] = ts[j]
             /\ \A s \in ToSet(entry) : machine.after[s] # None => \E i \in 1..Len(next) : next[i].id = s
             /\ \A j \in 1..Len(ts) : ts[j].id \notin ToSet(exit) \cup ToSet(entry) =>
                    \E i \in 1..Len(next) : next[i] = ts[j]
<1>. DEFINE S == StateIDs(machine)
            R == Timer(machine)
            gone == ToSet(exit) \cup ToSet(entry)
            T == {x \in R : x.id \notin gone}
            A == {s \in S : machine.after[s] # None}
            old == Kept(ts, T)
            fresh == Kept(entry, A)
            new == [i \in DOMAIN fresh |-> [id |-> fresh[i], left |-> machine.delay[fresh[i]]]]
            next == AfterStep(ts, exit, entry)
<1>1. /\ old \in Seq(R) /\ Single(old)
      /\ \A i \in 1..Len(old) : old[i] \in T /\ \E j \in 1..Len(ts) : old[i] = ts[j]
      /\ \A j \in 1..Len(ts) : ts[j] \in T => \E i \in 1..Len(old) : old[i] = ts[j]
  <2>. HIDE DEF R, T
  <2>1. ts \in Seq(R)
    BY DEF R
  <2>. QED BY <2>1, KeptIs
<1>2. fresh \in Seq(S) /\ ToSet(fresh) = ToSet(entry) \cap A
  <2>. HIDE DEF S, A
  <2>1. entry \in Seq(S)
    BY DEF S
  <2>. DEFINE f == FlattenSeq([i \in DOMAIN entry |-> IF entry[i] \in A THEN <<entry[i]>> ELSE <<>>])
  <2>2. f \in Seq(S) /\ ToSet(f) = ToSet(entry) \cap A
    BY ONLY <2>1, FilterElements, Zenon
  <2>. QED BY <2>2 DEF Kept
<1>3. \A a, b \in 1..Len(fresh) : fresh[a] = fresh[b] => a = b
  <2>1. \A a, b \in 1..Len(fresh) : a < b =>
            \E i, j \in 1..Len(entry) : i < j /\ fresh[a] = entry[i] /\ fresh[b] = entry[j]
    <3>. HIDE DEF A
    <3>. QED BY FilterOrder
  <2>. HIDE DEF fresh
  <2>2. ASSUME NEW a \in 1..Len(fresh), NEW b \in 1..Len(fresh), a < b PROVE fresh[a] # fresh[b]
    <3>1. PICK i, j \in 1..Len(entry) : i < j /\ fresh[a] = entry[i] /\ fresh[b] = entry[j]
      BY <2>1, <2>2
    <3>. QED BY <3>1 DEF Once
  <2>3. Len(fresh) \in Nat
    BY <1>2
  <2>4. ASSUME NEW a \in 1..Len(fresh), NEW b \in 1..Len(fresh), fresh[a] = fresh[b] PROVE a = b
    <3>1. a < b \/ b < a \/ a = b
      BY <2>3
    <3>. QED BY <2>2, <2>4, <3>1
  <2>. QED BY <2>4
<1>4. next = old \o new
  <2>1. \A i \in DOMAIN ts : ts[i] \in T <=> ts[i].id \notin gone
    <3>1. \A i \in DOMAIN ts : ts[i] \in R
      OBVIOUS
    <3>. HIDE DEF R, gone
    <3>. QED BY <3>1
  <2>2. \A i \in DOMAIN entry : entry[i] \in A <=> machine.after[entry[i]] # None
    OBVIOUS
  <2>3. [i \in DOMAIN ts |-> IF ts[i].id \notin gone THEN <<ts[i]>> ELSE <<>>]
            = [i \in DOMAIN ts |-> IF ts[i] \in T THEN <<ts[i]>> ELSE <<>>]
    <3>. HIDE DEF T, gone
    <3>. QED BY <2>1
  <2>4. [i \in DOMAIN entry |-> IF machine.after[entry[i]] # None THEN <<entry[i]>> ELSE <<>>]
            = [i \in DOMAIN entry |-> IF entry[i] \in A THEN <<entry[i]>> ELSE <<>>]
    <3>. HIDE DEF A
    <3>. QED BY <2>2
  <2>5. Filter(ts, LAMBDA x : x.id \notin gone) = old
    <3>. HIDE DEF T, gone
    <3>. QED BY <2>3 DEF Filter, Kept
  <2>6. Filter(entry, LAMBDA s : machine.after[s] # None) = fresh
    <3>. HIDE DEF A
    <3>. QED BY <2>4 DEF Filter, Kept
  <2>. HIDE DEF old, fresh
  <2>. QED BY <2>5, <2>6 DEF AfterStep
<1>. HIDE DEF old, fresh, next
<1>5. /\ Len(new) = Len(fresh) /\ DOMAIN fresh = 1..Len(fresh) /\ Len(fresh) \in Nat
      /\ \A i \in 1..Len(fresh) : new[i].id = fresh[i] /\ new[i].left = machine.delay[fresh[i]]
      /\ \A i \in 1..Len(fresh) : fresh[i] \in S /\ fresh[i] \in ToSet(entry) /\ fresh[i] \in A
  <2>1. DOMAIN fresh = 1..Len(fresh) /\ Len(fresh) \in Nat
    BY <1>2
  <2>2. \A i \in 1..Len(fresh) : fresh[i] \in ToSet(fresh)
    BY <2>1 DEF ToSet
  <2>3. new = [i \in 1..Len(fresh) |-> [id |-> fresh[i], left |-> machine.delay[fresh[i]]]]
    BY <2>1
  <2>. HIDE DEF new
  <2>4. Len(new) = Len(fresh)
    BY <2>1, <2>3
  <2>. QED BY <1>2, <2>1, <2>2, <2>3, <2>4
<1>6. new \in Seq(R)
  <2>1. \A i \in 1..Len(fresh) : [id |-> fresh[i], left |-> machine.delay[fresh[i]]] \in R
    BY <1>5 DEF Timer
  <2>. HIDE DEF R
  <2>. QED BY <1>5, <2>1
<1>. HIDE DEF new
<1>7. /\ next \in Seq(R) /\ Len(next) = Len(old) + Len(new)
      /\ Len(old) \in Nat /\ Len(new) \in Nat
      /\ \A i \in 1..Len(next) : next[i] = IF i <= Len(old) THEN old[i] ELSE new[i - Len(old)]
  BY <1>1, <1>4, <1>6
<1>8. \A i \in 1..Len(old) : old[i].id \notin gone
  BY <1>1
<1>9. \A i \in 1..Len(new) : /\ new[i].id \in ToSet(entry) /\ machine.after[new[i].id] # None
                              /\ new[i].left = machine.delay[new[i].id]
  BY <1>5
<1>10. \A i, j \in 1..Len(new) : new[i].id = new[j].id => i = j
  BY <1>3, <1>5
<1>11. Single(next)
  <2>. SUFFICES ASSUME NEW i \in 1..Len(next), NEW j \in 1..Len(next), next[i].id = next[j].id
                PROVE  i = j
    BY DEF Single
  <2>1. CASE i <= Len(old) /\ j <= Len(old)
    <3>1. i \in 1..Len(old) /\ j \in 1..Len(old) /\ old[i].id = old[j].id
      BY <1>7, <2>1
    <3>. QED BY <1>1, <3>1 DEF Single
  <2>2. CASE i > Len(old) /\ j > Len(old)
    <3>1. /\ i - Len(old) \in 1..Len(new) /\ j - Len(old) \in 1..Len(new)
          /\ new[i - Len(old)].id = new[j - Len(old)].id
      BY <1>7, <2>2
    <3>2. i - Len(old) = j - Len(old)
      BY <1>10, <3>1
    <3>. QED BY <1>7, <3>2
  <2>3. ASSUME NEW a \in 1..Len(next), NEW b \in 1..Len(next), next[a].id = next[b].id,
               a <= Len(old), b > Len(old)
        PROVE  FALSE
    <3>1. a \in 1..Len(old) /\ b - Len(old) \in 1..Len(new) /\ old[a].id = new[b - Len(old)].id
      BY <1>7, <2>3
    <3>. QED BY <1>8, <1>9, <3>1
  <2>. QED BY <1>7, <2>1, <2>2, <2>3
<1>12. ASSUME NEW i \in 1..Len(next)
       PROVE  \/ /\ next[i].id \in ToSet(entry) /\ machine.after[next[i].id] # None
                 /\ next[i].left = machine.delay[next[i].id]
              \/ next[i].id \notin gone /\ \E j \in 1..Len(ts) : next[i] = ts[j]
  <2>1. CASE i <= Len(old)
    <3>1. i \in 1..Len(old) /\ next[i] = old[i]
      BY <1>7, <2>1
    <3>. QED BY <1>1, <1>8, <3>1
  <2>2. CASE i > Len(old)
    <3>1. i - Len(old) \in 1..Len(new) /\ next[i] = new[i - Len(old)]
      BY <1>7, <2>2
    <3>. QED BY <1>9, <3>1
  <2>. QED BY <1>7, <2>1, <2>2
<1>13. ASSUME NEW s \in ToSet(entry), machine.after[s] # None
       PROVE  \E i \in 1..Len(next) : next[i].id = s
  <2>1. s \in A
    BY <1>13 DEF ToSet
  <2>2. s \in ToSet(fresh)
    BY <1>2, <2>1
  <2>3. PICK i \in 1..Len(fresh) : fresh[i] = s
    BY <1>5, <2>2 DEF ToSet
  <2>4. PICK k \in 1..Len(next) : ~(k <= Len(old)) /\ k - Len(old) = i
    <3>1. /\ Len(old) + i \in 1..Len(next) /\ ~(Len(old) + i <= Len(old))
          /\ (Len(old) + i) - Len(old) = i
      BY <1>5, <1>7
    <3>. QED BY <3>1
  <2>5. next[k] = new[i]
    BY <1>7, <2>4
  <2>. QED BY <1>5, <2>3, <2>5
<1>14. ASSUME NEW j \in 1..Len(ts), ts[j].id \notin gone
       PROVE  \E i \in 1..Len(next) : next[i] = ts[j]
  <2>1. ts[j] \in T
    BY <1>14
  <2>. HIDE DEF T, gone
  <2>2. PICK i \in 1..Len(old) : old[i] = ts[j]
    BY <1>1, <2>1
  <2>3. i \in 1..Len(next) /\ i <= Len(old)
    BY <1>7
  <2>. QED BY <1>7, <2>2, <2>3
<1>. QED BY <1>7, <1>11, <1>12, <1>13, <1>14 DEF next

-----------------------------------------------------------------------------
(* The Always that stepAlways fires.                                       *)

\* On a machine that has no Always of a parallel state or of a state around
\* one, the first Always that is enabled moves one leaf, and no other leaf lies
\* below its source.
LEMMA FirstFires ==
  ASSUME NEW m, WellFormed(m), KeepsRegions(m), AlwaysInside(m),
         NEW ls \in Seq(StateIDs(m)), Whole(m, ToSet(ls)), NEW holds,
         Pending(m, ls, AlwaysEvent, holds) # <<>>
  PROVE  LET p == Pending(m, ls, AlwaysEvent, holds)[1]
             t == MovedBy(m, ls, AlwaysEvent, holds)
         IN  /\ Carries(m, <<p>>, {p.source}, t)
             /\ Fired(m, ToSet(ls), {p.source}, t)
<1>. DEFINE S == StateIDs(m)
            L == ToSet(ls)
            pend == Pending(m, ls, AlwaysEvent, holds)
            D == Moved(m, ls, AlwaysEvent, holds)
            t == MovedBy(m, ls, AlwaysEvent, holds)
            p == pend[1]
            f == t[p.source].from
<1>1. Carries(m, pend, D, t) /\ D \subseteq L
  BY PendingCarries
<1>2. Fired(m, L, D, t)
  BY EventFires
<1>3. p \in ToSet(pend) /\ p \in Firings(m)
  <2>1. pend \in Seq(Firings(m)) /\ pend # <<>>
    BY <1>1 DEF Carries
  <2>. HIDE DEF pend
  <2>. QED BY <2>1 DEF ToSet
<1>4. p.source \in D /\ p.trans = t[p.source]
  BY <1>1, <1>3 DEF Carries
<1>5. Carries(m, <<p>>, {p.source}, t)
  <2>1. <<p>> \in Seq(Firings(m)) /\ ToSet(<<p>>) = {p}
    BY <1>3, ToSetSmall
  <2>. HIDE DEF p, t
  <2>. QED BY <1>4, <2>1 DEF Carries
<1>6. \A q \in AndStates(m) : ~Within(m, q, f)
  <2>. DEFINE k == ResolveTransition(m, p.source, AlwaysEvent, holds)
  <2>1. p.source \in S /\ k # 0 /\ t[p.source] = m.transitions[k]
    BY <1>4 DEF Moved, MovedBy, ToSet
  <2>2. k \in DOMAIN m.transitions /\ m.transitions[k].on = AlwaysEvent
    BY <2>1, ResolveIs
  <2>. HIDE DEF k
  <2>. QED BY <2>1, <2>2 DEF AlwaysInside
<1>. HIDE DEF L, D, t, p
<1>7. /\ p.source \in L /\ L \subseteq S /\ f \in S /\ t[p.source].to \in S
      /\ Within(m, p.source, f) /\ RegionsKept(m, t[p.source])
      /\ ~Conflict(m, t[p.source], t[p.source])
  BY <1>1, <1>2, <1>4 DEF Fired, L, Whole
<1>8. ASSUME NEW l \in L, Within(m, l, f) PROVE l = p.source
  <2>. SUFFICES ASSUME l # p.source PROVE FALSE
    OBVIOUS
  <2>1. PICK q, r, u \in S : ApartAt(m, q, r, u, l, p.source)
    BY <1>7 DEF Whole, Apart, L
  <2>2. Within(m, q, f)
    BY <1>7, <1>8, <2>1, ApartShares
  <2>. QED BY <1>6, <2>1, <2>2 DEF ApartAt
<1>9. Fired(m, L, {p.source}, t)
  BY <1>7, <1>8 DEF Fired
<1>. QED BY <1>5, <1>9 DEF L, p, t

\* A sequence in which no state lies within a later one has each state once.
LEMMA LaterIsOther ==
  ASSUME WellFormed(machine), NEW seq \in Seq(StateIDs(machine)),
         \A a, b \in 1..Len(seq) : a < b => ~Within(machine, seq[a], seq[b])
  PROVE  Once(seq)
<1>. SUFFICES ASSUME NEW i \in 1..Len(seq), NEW j \in 1..Len(seq), seq[i] = seq[j] PROVE i = j
  BY DEF Once
<1>1. seq[i] \in StateIDs(machine) /\ Within(machine, seq[i], seq[i])
  BY WithinIsTree
<1>2. Len(seq) \in Nat
  OBVIOUS
<1>3. i < j \/ j < i \/ i = j
  BY <1>2
<1>. QED BY <1>1, <1>3

-----------------------------------------------------------------------------
(* What was entered, invoked and timed.                                    *)

active == Active(machine, ToSet(leaves))

\* The entries less the exits, and the invocations, are those of the states of C.
CountsAre(C) ==
  \A s \in StateIDs(machine) :
    /\ entered[s] = IF s \in C THEN 1 ELSE 0
    /\ invokes[s] = IF s \in machine.invokes /\ s \in C THEN 1 ELSE 0

\* Each timer is that of a state of C, the only one of it, and has no more than
\* its delay left.
TimersAre(C) ==
  /\ pending \in Seq(Timer(machine)) /\ Single(pending)
  /\ \A i \in 1..Len(pending) :
        pending[i].id \in C /\ pending[i].left <= machine.delay[pending[i].id]

\* No timer is due.
OnTime == \A i \in 1..Len(pending) : pending[i].left >= 1

\* The machines of the theorem.
Steady(m) == KeepsRegions(m) /\ AlwaysInside(m)

\* The inductive invariant: the leaves are whole, and timers are overdue only
\* while Tick collects them.
HarnessInv ==
  /\ machine \in Machines /\ Steady(machine)
  /\ leaves \in Seq(StateIDs(machine)) /\ Whole(machine, ToSet(leaves))
  /\ entered \in [StateIDs(machine) -> Int] /\ invokes \in [StateIDs(machine) -> Int]
  /\ CountsAre(active)
  /\ TimersAre(active)
  /\ pc # "collect" => OnTime

LEMMA MachineIs ==
  ASSUME machine \in Machines
  PROVE  WellFormed(machine) /\ \A s \in StateIDs(machine) : machine.delay[s] \in Nat \ {0}
  BY HarnessAssumption DEF Runnable

\* What AfterStep gives when the states exited and entered take C to N.
LEMMA TimersAfter ==
  ASSUME machine \in Machines, NEW N, NEW ts \in Seq(Timer(machine)), Single(ts),
         NEW exit, NEW entry \in Seq(StateIDs(machine)), Once(entry), ToSet(entry) \subseteq N,
         \A i \in 1..Len(ts) :
            /\ ts[i].id \in N \cup ToSet(exit)
            /\ ts[i].left <= machine.delay[ts[i].id] /\ ts[i].left >= 1
  PROVE  LET next == AfterStep(ts, exit, entry)
         IN  /\ next \in Seq(Timer(machine)) /\ Single(next)
             /\ \A i \in 1..Len(next) :
                    /\ next[i].id \in N
                    /\ next[i].left <= machine.delay[next[i].id] /\ next[i].left >= 1
<1>. DEFINE S == StateIDs(machine)
            next == AfterStep(ts, exit, entry)
<1>1. \A s \in S : machine.delay[s] \in Nat \ {0}
  BY MachineIs
<1>2. /\ next \in Seq(Timer(machine)) /\ Single(next)
      /\ \A i \in 1..Len(next) :
            \/ next[i].id \in ToSet(entry) /\ next[i].left = machine.delay[next[i].id]
            \/ /\ next[i].id \notin ToSet(exit) \cup ToSet(entry)
               /\ \E j \in 1..Len(ts) : next[i] = ts[j]
  BY <1>1, AfterStepIs
<1>3. ToSet(entry) \subseteq S
  BY DEF ToSet
<1>. HIDE DEF next
<1>4. ASSUME NEW i \in 1..Len(next)
      PROVE  /\ next[i].id \in N
             /\ next[i].left <= machine.delay[next[i].id] /\ next[i].left >= 1
  <2>1. CASE next[i].id \in ToSet(entry) /\ next[i].left = machine.delay[next[i].id]
    <3>1. machine.delay[next[i].id] \in Nat \ {0}
      BY <1>1, <1>3, <2>1
    <3>. QED BY <2>1, <3>1
  <2>2. CASE next[i].id \notin ToSet(exit) /\ \E j \in 1..Len(ts) : next[i] = ts[j]
    BY <2>2
  <2>. QED BY <1>2, <2>1, <2>2
<1>. QED BY <1>2, <1>4 DEF next

LEMMA InitHarness ==
  ASSUME \A m \in Machines : Steady(m), Init
  PROVE  HarnessInv
<1>. DEFINE S == StateIDs(machine)
<1>1. machine \in Machines /\ Steady(machine) /\ WellFormed(machine) /\ machine.start \in S
  BY MachineIs DEF Init, WellFormed
<1>2. /\ leaves = InitialLeaves(machine) /\ leaves \in Seq(S)
      /\ \A l \in ToSet(leaves) : ~IsCompound(machine, l)
  BY <1>1, LeafTargetsAre DEF Init, InitialLeaves
<1>3. Whole(machine, ToSet(leaves))
  BY <1>1, <1>2, InitiallyWhole DEF Steady, KeepsRegions
<1>4. last.entry = StartEntries(machine, leaves)
  BY DEF Init, StartEntries
<1>5. /\ last.entry \in Seq(S)
      /\ \A x : x \in ToSet(last.entry) <=> \E l \in ToSet(leaves) : Within(machine, l, x)
      /\ \A a, b \in 1..Len(last.entry) : a < b => ~Within(machine, last.entry[a], last.entry[b])
  <2>. DEFINE e == StartEntries(machine, leaves)
  <2>1. /\ e \in Seq(S)
        /\ \A x : x \in ToSet(e) <=> \E l \in ToSet(leaves) : Within(machine, l, x)
        /\ \A a, b \in 1..Len(e) : a < b => ~Within(machine, e[a], e[b])
    BY <1>1, <1>2, InitialEntries
  <2>2. last.entry = e
    BY <1>4
  <2>. HIDE DEF e
  <2>. QED BY <2>1, <2>2
<1>6. ToSet(last.entry) = active
  <2>1. ToSet(last.entry) \subseteq S
    BY <1>5 DEF ToSet
  <2>2. active = {s \in S : \E l \in ToSet(leaves) : Within(machine, l, s)}
    BY DEF active, Active
  <2>. QED BY <1>5, <2>1, <2>2
<1>7. \A s : Has(last.entry, s) = IF s \in active THEN 1 ELSE 0
  BY <1>5, <1>6, HasIs
<1>8. /\ entered \in [S -> Int] /\ invokes \in [S -> Int]
      /\ CountsAre(active)
  <2>1. /\ entered = [s \in S |-> Has(last.entry, s)]
        /\ invokes = [s \in S |-> IF s \in machine.invokes THEN Has(last.entry, s) ELSE 0]
    BY DEF Init
  <2>. QED BY <1>7, <2>1 DEF CountsAre
<1>9. TimersAre(active) /\ OnTime
  <2>0. PICK none : none = <<>>
    OBVIOUS
  <2>1. pending = AfterStep(none, none, last.entry)
    BY <2>0 DEF Init
  <2>2. none \in Seq(Timer(machine)) /\ Single(none) /\ 1..Len(none) = {}
    BY <2>0 DEF Single
  <2>3. Once(last.entry)
    BY <1>1, <1>5, LaterIsOther
  <2>. DEFINE next == AfterStep(none, none, last.entry)
  <2>4. /\ next \in Seq(Timer(machine)) /\ Single(next)
        /\ \A i \in 1..Len(next) :
              /\ next[i].id \in active
              /\ next[i].left <= machine.delay[next[i].id] /\ next[i].left >= 1
    BY <1>1, <1>5, <1>6, <2>2, <2>3, TimersAfter
  <2>. HIDE DEF next
  <2>. QED BY <2>1, <2>4 DEF TimersAre, OnTime, next
<1>. QED BY <1>1, <1>2, <1>3, <1>8, <1>9 DEF HarnessInv

\* What applyTransitions leaves behind when each leaf of D fires its transition.
LEMMA ApplyHarness ==
  ASSUME HarnessInv, OnTime, machine' = machine, NEW pend, NEW D, NEW t, NEW queue,
         Carries(machine, pend, D, t), Fired(machine, ToSet(leaves), D, t),
         ApplyTransitions(pend, queue)
  PROVE  HarnessInv' /\ OnTime'
<1>. DEFINE S == StateIDs(machine)
            L == ToSet(leaves)
            s == Macrostep(machine, leaves, pend)
            C == Active(machine, L)
            N == Active(machine, Replaced(machine, L, D, t))
            X == Exited(machine, D, t)
            E == Entered(machine, D, t)
<1>1. /\ machine \in Machines /\ WellFormed(machine) /\ leaves \in Seq(S) /\ Whole(machine, L)
      /\ entered \in [S -> Int] /\ invokes \in [S -> Int]
  BY MachineIs DEF HarnessInv
<1>2. Fired(machine, L, D, t) /\ D \subseteq L
  BY DEF Fired
<1>3. /\ s.exit \in Seq(S) /\ s.entry \in Seq(S)
      /\ ToSet(s.exit) = X /\ ToSet(s.entry) = E
      /\ \A i, j \in 1..Len(s.entry) : i < j => ~Within(machine, s.entry[i], s.entry[j])
  <2>1. /\ WellFormed(machine) /\ leaves \in Seq(StateIDs(machine))
        /\ Whole(machine, ToSet(leaves)) /\ Fired(machine, ToSet(leaves), D, t)
    BY <1>1, <1>2
  <2>2. LET q == Macrostep(machine, leaves, pend)
        IN  /\ q.exit \in Seq(StateIDs(machine)) /\ q.entry \in Seq(StateIDs(machine))
            /\ ToSet(q.exit) = Exited(machine, D, t) /\ ToSet(q.entry) = Entered(machine, D, t)
            /\ \A i, j \in 1..Len(q.exit) : i < j => ~IsDescendantOf(machine, q.exit[j], q.exit[i])
            /\ \A i, j \in 1..Len(q.entry) : i < j => ~Within(machine, q.entry[i], q.entry[j])
    BY ONLY <2>1, Carries(machine, pend, D, t), FiredPaths
  <2>. QED BY <2>2
<1>4. ToSet(s.leaves) = Replaced(machine, L, D, t)
  BY <1>1, <1>2, LeavesLeft
<1>5. s.leaves \in Seq(S)
  BY <1>1, MacrostepLeaves DEF Carries
<1>6. /\ leaves' = s.leaves
      /\ entered' = [x \in DOMAIN entered |-> entered[x] - Has(s.exit, x) + Has(s.entry, x)]
      /\ invokes' = Invoked(s.exit, s.entry)
      /\ pending' = AfterStep(pending, s.exit, s.entry)
  BY DEF ApplyTransitions
<1>7. /\ X \subseteq C /\ E \subseteq N
      /\ N \ C \subseteq E /\ C \ N \subseteq X
      /\ C \cap N \cap X \subseteq E /\ C \cap E \subseteq X
  BY <1>1, <1>2, PathsMatchLeaves
<1>8. Whole(machine, Replaced(machine, L, D, t))
  BY <1>1, <1>2, StaysWhole
<1>9. active = C /\ active' = N
  BY <1>4, <1>6 DEF active
<1>10. \A x \in S : /\ entered[x] = IF x \in C THEN 1 ELSE 0
                    /\ invokes[x] = IF x \in machine.invokes /\ x \in C THEN 1 ELSE 0
  BY <1>9 DEF HarnessInv, CountsAre
<1>11. /\ pending \in Seq(Timer(machine)) /\ Single(pending)
       /\ \A i \in 1..Len(pending) :
            /\ pending[i].id \in C
            /\ pending[i].left <= machine.delay[pending[i].id] /\ pending[i].left >= 1
  BY <1>9 DEF HarnessInv, TimersAre, OnTime
<1>. HIDE DEF s, X, E, C, N
<1>12. \A x : /\ Has(s.exit, x) = (IF x \in X THEN 1 ELSE 0)
              /\ Has(s.entry, x) = (IF x \in E THEN 1 ELSE 0)
              /\ Contains(s.exit, x) <=> x \in X
  BY <1>3, HasIs
<1>13. ASSUME NEW x \in S PROVE entered'[x] = IF x \in N THEN 1 ELSE 0
  <2>1. entered'[x] = entered[x] - Has(s.exit, x) + Has(s.entry, x)
    BY <1>1, <1>6
  <2>. QED BY <1>7, <1>10, <1>12, <2>1
<1>14. ASSUME NEW x \in S PROVE invokes'[x] = IF x \in machine.invokes /\ x \in N THEN 1 ELSE 0
  <2>1. invokes'[x] = (IF Contains(s.exit, x) THEN 0 ELSE invokes[x])
                        + (IF x \in machine.invokes THEN Has(s.entry, x) ELSE 0)
    BY <1>1, <1>6 DEF Invoked
  <2>. QED BY <1>7, <1>10, <1>12, <2>1
<1>15. entered' \in [S -> Int] /\ invokes' \in [S -> Int]
  <2>1. DOMAIN entered' = S /\ entered' = [x \in S |-> entered'[x]]
    BY <1>1, <1>6
  <2>2. DOMAIN invokes' = S /\ invokes' = [x \in S |-> invokes'[x]]
    BY <1>1, <1>6 DEF Invoked
  <2>3. \A x \in S : entered'[x] \in Int /\ invokes'[x] \in Int
    BY <1>13, <1>14
  <2>. QED BY <2>1, <2>2, <2>3
<1>16. /\ pending' \in Seq(Timer(machine)) /\ Single(pending')
       /\ \A i \in 1..Len(pending') :
            /\ pending'[i].id \in N
            /\ pending'[i].left <= machine.delay[pending'[i].id] /\ pending'[i].left >= 1
  <2>1. Once(s.entry)
    BY <1>1, <1>3, LaterIsOther
  <2>2. \A i \in 1..Len(pending) : pending[i].id \in N \cup ToSet(s.exit)
    BY <1>3, <1>7, <1>11
  <2>3. ToSet(s.entry) \subseteq N
    BY <1>3, <1>7
  <2>. DEFINE next == AfterStep(pending, s.exit, s.entry)
  <2>4. /\ next \in Seq(Timer(machine)) /\ Single(next)
        /\ \A i \in 1..Len(next) :
              /\ next[i].id \in N
              /\ next[i].left <= machine.delay[next[i].id] /\ next[i].left >= 1
    BY <1>1, <1>3, <1>11, <2>1, <2>2, <2>3, TimersAfter
  <2>. HIDE DEF next
  <2>. QED BY <1>6, <2>4 DEF next
<1>17. CountsAre(active)'
  BY <1>9, <1>13, <1>14 DEF CountsAre
<1>18. TimersAre(active)' /\ OnTime'
  BY <1>9, <1>16 DEF TimersAre, OnTime, Single
<1>19. Steady(machine)
  BY DEF HarnessInv
<1>. QED BY <1>1, <1>4, <1>5, <1>6, <1>8, <1>15, <1>17, <1>18, <1>19 DEF HarnessInv

LEMMA StepHarness ==
  ASSUME HarnessInv, pc # "collect", machine' = machine, NEW ev, NEW holds, NEW queue,
         Step(ev, holds, queue)
  PROVE  HarnessInv'
<1>. DEFINE pend == Pending(machine, leaves, ev, holds)
            D == Moved(machine, leaves, ev, holds)
            t == MovedBy(machine, leaves, ev, holds)
<1>1. /\ WellFormed(machine) /\ KeepsRegions(machine) /\ leaves \in Seq(StateIDs(machine))
      /\ OnTime
  BY MachineIs DEF HarnessInv, Steady
<1>2. Carries(machine, pend, D, t) /\ Fired(machine, ToSet(leaves), D, t)
  BY <1>1, PendingCarries, EventFires
<1>3. CASE UNCHANGED <<leaves, entered, invokes, last, pending>>
  BY <1>1, <1>3 DEF HarnessInv, CountsAre, TimersAre, OnTime, active
<1>4. CASE ApplyTransitions(pend, queue)
  <2>. HIDE DEF pend, D, t
  <2>. QED BY <1>1, <1>2, <1>4, ApplyHarness
<1>. QED BY <1>3, <1>4 DEF Step

LEMMA AlwaysHarness ==
  ASSUME HarnessInv, NEW holds, FlushAlways(holds)
  PROVE  HarnessInv'
<1>. DEFINE pend == Pending(machine, leaves, AlwaysEvent, holds)
            p == pend[1]
            t == MovedBy(machine, leaves, AlwaysEvent, holds)
<1>1. /\ WellFormed(machine) /\ KeepsRegions(machine) /\ AlwaysInside(machine)
      /\ leaves \in Seq(StateIDs(machine)) /\ Whole(machine, ToSet(leaves))
  BY MachineIs DEF HarnessInv, Steady
<1>2. /\ OnTime /\ machine' = machine
      /\ pend # <<>> /\ ApplyTransitions(<<p>>, <<>>)
  BY DEF HarnessInv, FlushAlways
<1>3. Carries(machine, <<p>>, {p.source}, t) /\ Fired(machine, ToSet(leaves), {p.source}, t)
  BY <1>1, <1>2, FirstFires
<1>. HIDE DEF pend, p, t
<1>. QED BY <1>2, <1>3, ApplyHarness

\* A Tick takes the same from what is left of each delay.
LEMMA TickIs ==
  ASSUME pending \in Seq(Timer(machine)), Single(pending), NEW d \in Int, Tick(d)
  PROVE  /\ pending' \in Seq(Timer(machine)) /\ Len(pending') = Len(pending) /\ Single(pending')
         /\ \A i \in 1..Len(pending) :
                pending'[i].id = pending[i].id /\ pending'[i].left = pending[i].left - d
<1>1. pending' = [i \in DOMAIN pending |-> [pending[i] EXCEPT !.left = @ - d]]
  BY DEF Tick
<1>2. DOMAIN pending = 1..Len(pending) /\ Len(pending) \in Nat
  BY TimerFields
<1>3. \A i \in 1..Len(pending) :
        pending'[i] = [pending[i] EXCEPT !.left = @ - d]
  BY <1>1, <1>2
<1>4. \A i \in 1..Len(pending) :
        /\ pending'[i] \in Timer(machine)
        /\ pending'[i].id = pending[i].id /\ pending'[i].left = pending[i].left - d
  <2>. TAKE i \in 1..Len(pending)
  <2>. DEFINE x == [pending[i] EXCEPT !.left = @ - d]
  <2>1. x \in Timer(machine) /\ x.id = pending[i].id /\ x.left = pending[i].left - d
    BY TimerFields
  <2>. HIDE DEF x
  <2>2. pending'[i] = x
    BY <1>3 DEF x
  <2>. QED BY <2>1, <2>2
<1>5. pending' = [i \in 1..Len(pending) |-> pending'[i]]
  BY <1>1, <1>2
<1>6. pending' \in Seq(Timer(machine)) /\ Len(pending') = Len(pending)
  BY <1>2, <1>4, <1>5
<1>7. Single(pending')
  BY <1>4, <1>6 DEF Single
<1>. QED BY <1>4, <1>6, <1>7

LEMMA TickHarness ==
  ASSUME HarnessInv, NEW d \in 1..MaxTick, Tick(d)
  PROVE  HarnessInv'
<1>1. /\ machine' = machine /\ leaves' = leaves /\ entered' = entered /\ invokes' = invokes
      /\ pc' = "collect"
  BY DEF Tick
<1>2. /\ pending \in Seq(Timer(machine)) /\ Single(pending)
      /\ \A i \in 1..Len(pending) :
            pending[i].id \in active /\ pending[i].left <= machine.delay[pending[i].id]
  BY DEF HarnessInv, TimersAre
<1>3. \A s \in StateIDs(machine) : machine.delay[s] \in Nat
  BY MachineIs DEF HarnessInv
<1>4. /\ d \in Int /\ d >= 1
      /\ \A i \in 1..Len(pending) : pending[i].id \in StateIDs(machine) /\ pending[i].left \in Int
  BY <1>2, TimerFields
<1>5. /\ pending' \in Seq(Timer(machine)) /\ Len(pending') = Len(pending) /\ Single(pending')
      /\ \A i \in 1..Len(pending) :
             pending'[i].id = pending[i].id /\ pending'[i].left = pending[i].left - d
  BY <1>2, <1>4, TickIs
<1>6. \A i \in 1..Len(pending') :
          pending'[i].id \in active /\ pending'[i].left <= machine.delay[pending'[i].id]
  <2>. TAKE i \in 1..Len(pending')
  <2>1. machine.delay[pending[i].id] \in Nat /\ pending[i].left \in Int
    BY <1>3, <1>4, <1>5
  <2>. QED BY <1>2, <1>4, <1>5, <2>1
<1>7. TimersAre(active)'
  BY <1>1, <1>5, <1>6 DEF TimersAre, active, Single
<1>. QED BY <1>1, <1>7 DEF HarnessInv, CountsAre, active

LEMMA CollectHarness ==
  ASSUME HarnessInv, Collect
  PROVE  HarnessInv'
<1>1. PICK i \in Due : pending' = RemoveAt(pending, i)
  BY DEF Collect
<1>2. /\ machine' = machine /\ leaves' = leaves /\ entered' = entered /\ invokes' = invokes
      /\ pc' = pc /\ pc = "collect"
  BY DEF Collect
<1>3. /\ pending \in Seq(Timer(machine)) /\ Single(pending)
      /\ \A k \in 1..Len(pending) :
            pending[k].id \in active /\ pending[k].left <= machine.delay[pending[k].id]
  BY DEF HarnessInv, TimersAre
<1>4. i \in 1..Len(pending)
  BY <1>3 DEF Due
<1>5. /\ pending' \in Seq(Timer(machine)) /\ Single(pending')
      /\ \A j \in 1..Len(pending') : \E k \in 1..Len(pending) : pending'[j] = pending[k]
  BY <1>1, <1>3, <1>4, RemoveAtIs
<1>6. TimersAre(active)'
  BY <1>2, <1>3, <1>5 DEF TimersAre, active, Single
<1>. QED BY <1>2, <1>6 DEF HarnessInv, CountsAre, active

LEMMA HarnessStays == HarnessInv /\ [Next]_harnessVars => HarnessInv'
<1>. SUFFICES ASSUME HarnessInv, [Next]_harnessVars PROVE HarnessInv'
  OBVIOUS
<1>1. ASSUME NEW holds, FlushInternal(holds) PROVE HarnessInv'
  BY <1>1, StepHarness DEF FlushInternal
<1>2. ASSUME NEW holds, FlushAlways(holds) PROVE HarnessInv'
  BY <1>2, AlwaysHarness
<1>3. ASSUME NEW holds, FlushReturns(holds) PROVE HarnessInv'
  BY <1>3 DEF FlushReturns, HarnessInv, CountsAre, TimersAre, OnTime, active
<1>4. ASSUME NEW holds, Deliver(holds) PROVE HarnessInv'
  BY <1>4, StepHarness DEF Deliver
<1>5. CASE FlushPanics
  BY <1>5 DEF FlushPanics, HarnessInv, CountsAre, TimersAre, OnTime, active
<1>6. CASE Collect
  BY <1>6, CollectHarness
<1>7. CASE AdvanceReturns
  <2>1. DOMAIN pending = 1..Len(pending)
    BY DEF HarnessInv, TimersAre
  <2>2. \A i \in 1..Len(pending) : pending[i].left \in Int
    BY TimerFields DEF HarnessInv, TimersAre
  <2>3. OnTime
    BY <1>7, <2>1, <2>2 DEF AdvanceReturns, Due, OnTime
  <2>. QED BY <1>7, <2>3 DEF AdvanceReturns, HarnessInv, CountsAre, TimersAre, OnTime, active
<1>8. ASSUME NEW ev, NEW holds, Send(ev, holds) PROVE HarnessInv'
  BY <1>8, StepHarness DEF Send, Returned
<1>9. ASSUME NEW d \in 1..MaxTick, Tick(d) PROVE HarnessInv'
  BY <1>9, TickHarness
<1>10. CASE UNCHANGED harnessVars
  BY <1>10 DEF harnessVars, HarnessInv, CountsAre, TimersAre, OnTime, active
<1>. QED BY <1>1, <1>2, <1>3, <1>4, <1>5, <1>6, <1>7, <1>8, <1>9, <1>10 DEF Next, CallNext

LEMMA HarnessGives == HarnessInv => ActiveAndOnTime
<1>. SUFFICES ASSUME HarnessInv, pc = "ready" PROVE ActiveAndOnTime
  BY DEF ActiveAndOnTime, Returned
<1>1. configuration = active
  <2>1. WellFormed(machine) /\ leaves \in Seq(StateIDs(machine))
    BY MachineIs DEF HarnessInv
  <2>. QED BY <2>1, ConfigurationIs DEF configuration, active, Active
<1>2. \A s \in StateIDs(machine) :
        /\ entered[s] = IF s \in active THEN 1 ELSE 0
        /\ invokes[s] = IF s \in machine.invokes THEN IF s \in active THEN 1 ELSE 0 ELSE 0
  BY DEF HarnessInv, CountsAre
<1>3. /\ DOMAIN pending = 1..Len(pending) /\ Single(pending) /\ OnTime
      /\ \A i \in 1..Len(pending) :
            /\ pending[i].id \in active /\ pending[i].left \in Int
            /\ pending[i].left <= machine.delay[pending[i].id]
  BY TimerFields DEF HarnessInv, TimersAre
<1>4. \A i \in DOMAIN pending : pending[i].left \in 1..machine.delay[pending[i].id]
  <2>1. \A s \in active : machine.delay[s] \in Nat
    BY MachineIs DEF HarnessInv, active, Active
  <2>. QED BY <1>3, <2>1 DEF OnTime
<1>. QED BY <1>1, <1>2, <1>3, <1>4 DEF ActiveAndOnTime, Single

\* harness.go: when machines keep their regions and stepAlways cannot tear
\* them, each Send and Tick leaves behind the entries, invocations and timers
\* of the active states alone, one timer for each state at most and none overdue,
\* however many were due at once and whatever their events started.
THEOREM NothingOverdue ==
  ASSUME \A m \in Machines : Steady(m)
  PROVE  Spec => []ActiveAndOnTime
<1>1. Init => HarnessInv
  BY InitHarness
<1>. QED BY <1>1, HarnessStays, HarnessGives, PTL DEF Spec

-----------------------------------------------------------------------------
(* The harness and the runtime. The instance Live of Interpreter has       *)
(* operators of Machine and Microstep of its own, which are the same.      *)

\* The operators of Machine.
LEMMA LiveMachine ==
  ASSUME NEW m
  PROVE  /\ Live!StateIDs(m) = StateIDs(m) /\ Live!None = None /\ Live!AlwaysEvent = AlwaysEvent
         /\ \A q : Live!FlattenSeq(q) = FlattenSeq(q) /\ Live!Distinct(q) = Distinct(q)
         /\ \A s : Live!LeafTargets(m, s) = LeafTargets(m, s) /\ Live!DeepestFirst(m, s) = DeepestFirst(m, s)
         /\ \A s, t : Live!LCCA(m, s, t) = LCCA(m, s, t)
         /\ \A s, d : Live!ExitPath(m, s, d) = ExitPath(m, s, d) /\ Live!EntryPath(m, d, s) = EntryPath(m, d, s)
<1>1. Live!StateIDs(m) = StateIDs(m) /\ Live!None = None /\ Live!AlwaysEvent = AlwaysEvent
  BY DEF Live!StateIDs, StateIDs, Live!ToSet, ToSet, Live!None, None, Live!AlwaysEvent, AlwaysEvent
<1>2. ASSUME NEW q PROVE Live!FlattenSeq(q) = FlattenSeq(q) /\ Live!Distinct(q) = Distinct(q)
  BY DEF Live!FlattenSeq, FlattenSeq, Live!Distinct, Distinct, Live!ForEachOnce, ForEachOnce
<1>3. ASSUME NEW s PROVE Live!LeafTargets(m, s) = LeafTargets(m, s)
  BY DEF Live!LeafTargets, LeafTargets, Live!StateIDs, StateIDs, Live!None, None, Live!ToSet, ToSet,
         Live!IsCompound, IsCompound, Live!Children, Children, Live!Filter, Filter,
         Live!FlattenSeq, FlattenSeq
<1>4. ASSUME NEW s PROVE Live!DeepestFirst(m, s) = DeepestFirst(m, s)
  BY DEF Live!DeepestFirst, DeepestFirst, Live!StateIDs, StateIDs, Live!None, None, Live!ToSet, ToSet,
         Live!FlattenSeq, FlattenSeq, Live!Chain, Chain, Live!ForEachOnce, ForEachOnce,
         Live!Max, Max, Live!Depth, Depth
<1>5. ASSUME NEW s, NEW t PROVE Live!LCCA(m, s, t) = LCCA(m, s, t)
  BY DEF Live!LCCA, LCCA, Live!StateIDs, StateIDs, Live!None, None, Live!ToSet, ToSet, Live!Chain, Chain,
         Live!Ancestors, Ancestors, Live!SelectInSeq, SelectInSeq, Live!Min, Min
<1>6. ASSUME NEW s, NEW d
      PROVE  Live!ExitPath(m, s, d) = ExitPath(m, s, d) /\ Live!EntryPath(m, d, s) = EntryPath(m, d, s)
  BY DEF Live!ExitPath, ExitPath, Live!EntryPath, EntryPath, Live!LeafTarget, LeafTarget,
         Live!StateIDs, StateIDs, Live!None, None, Live!ToSet, ToSet, Live!IsCompound, IsCompound,
         Live!Children, Children, Live!Filter, Filter, Live!FlattenSeq, FlattenSeq, Live!Chain, Chain,
         Live!SelectInSeq, SelectInSeq, Live!Min, Min, Live!Reverse, Reverse
<1>. QED BY <1>1, <1>2, <1>3, <1>4, <1>5, <1>6

\* What the fired transitions exit and enter.
LEMMA LiveMacrostep ==
  ASSUME NEW m, NEW ls, NEW pend
  PROVE  Live!Macrostep(m, ls, pend) = Macrostep(m, ls, pend)
<1>. DEFINE s == Macrostep(m, ls, pend)
            v == Live!Macrostep(m, ls, pend)
<1>1. /\ \A q : Live!FlattenSeq(q) = FlattenSeq(q) /\ Live!Distinct(q) = Distinct(q)
      /\ \A x : Live!LeafTargets(m, x) = LeafTargets(m, x) /\ Live!DeepestFirst(m, x) = DeepestFirst(m, x)
      /\ \A x, y : Live!LCCA(m, x, y) = LCCA(m, x, y)
      /\ \A x, d : Live!ExitPath(m, x, d) = ExitPath(m, x, d) /\ Live!EntryPath(m, d, x) = EntryPath(m, d, x)
  BY LiveMachine
<1>2. v.exit = s.exit
  BY <1>1 DEF Live!Macrostep, Macrostep, Live!ForEach, ForEach
<1>3. v.entry = s.entry
  BY <1>1 DEF Live!Macrostep, Macrostep, Live!ForEach, ForEach
<1>4. v.raises = s.raises
  BY <1>1 DEF Live!Macrostep, Macrostep, Live!ForEach, ForEach
<1>5. v.leaves = s.leaves
  <2>. DEFINE at(x) == LET I == {i \in 1..Len(pend) : pend[i].source = x}
                       IN  IF I # {} THEN Min(I) ELSE 0
              f == [j \in DOMAIN ls |-> IF at(ls[j]) = 0 THEN <<ls[j]>>
                                        ELSE LeafTargets(m, pend[at(ls[j])].trans.to)]
              g == [j \in DOMAIN ls |-> IF at(ls[j]) = 0 THEN <<ls[j]>>
                                        ELSE Live!LeafTargets(m, pend[at(ls[j])].trans.to)]
  <2>1. v.leaves = Live!FlattenSeq(g)
    BY DEF Live!Macrostep, Live!ForEach, Live!SelectInSeq, Live!Min, Min
  <2>2. s.leaves = FlattenSeq(f)
    BY DEF Macrostep, ForEach, SelectInSeq
  <2>. HIDE DEF at
  <2>3. f = g
    BY <1>1
  <2>. QED BY <1>1, <2>1, <2>2, <2>3
<1>. QED BY <1>2, <1>3, <1>4, <1>5, Zenon DEF Live!Macrostep, Macrostep

\* The transitions an event enables, the done events and the snapshot.
LEMMA LiveSteps ==
  ASSUME NEW m, NEW ls
  PROVE  /\ \A ev, holds : Live!Pending(m, ls, ev, holds) = Pending(m, ls, ev, holds)
         /\ \A entry : Live!DoneEvents(m, ls, entry) = DoneEvents(m, ls, entry)
         /\ Live!Snap(m, ls) = Snap(m, ls)
<1>1. ASSUME NEW ev, NEW holds PROVE Live!Pending(m, ls, ev, holds) = Pending(m, ls, ev, holds)
  BY DEF Live!Pending, Pending, Live!ResolveTransition, ResolveTransition, Live!Enabled, Enabled,
         Live!ForEachOnce, ForEachOnce, Live!FlattenSeq, FlattenSeq, Live!StateIDs, StateIDs,
         Live!None, None, Live!ToSet, ToSet, Live!Chain, Chain, Live!SelectInSeq, SelectInSeq,
         Live!Min, Min
<1>2. ASSUME NEW entry PROVE Live!DoneEvents(m, ls, entry) = DoneEvents(m, ls, entry)
  BY DEF Live!DoneEvents, DoneEvents, Live!CompoundIsDone, CompoundIsDone, Live!DoneEvent, DoneEvent,
         Live!ForEach, ForEach, Live!ForEachOnce, ForEachOnce, Live!FlattenSeq, FlattenSeq,
         Live!Filter, Filter, Live!StateIDs, StateIDs, Live!None, None, Live!ToSet, ToSet,
         Live!Children, Children, Live!Chain, Chain, Live!Ancestors, Ancestors,
         Live!IsDescendantOf, IsDescendantOf, Live!SelectInSeq, SelectInSeq, Live!Min, Min
<1>3. Live!Snap(m, ls) = Snap(m, ls)
  BY DEF Live!Snap, Snap, Live!ConfigurationOf, ConfigurationOf, Live!Filter, Filter,
         Live!FlattenSeq, FlattenSeq, Live!StateIDs, StateIDs, Live!None, None, Live!ToSet, ToSet,
         Live!Chain, Chain
<1>. QED BY <1>1, <1>2, <1>3

\* What the proof needs to know of a harness, whichever its machine.
AgreeInv ==
  /\ machine \in Machines
  /\ leaves \in Seq(StateIDs(machine))
  /\ pending \in Seq(Timer(machine)) /\ Single(pending)
  /\ \A i \in 1..Len(pending) : machine.after[pending[i].id] # None
  /\ batch \in Seq(StateIDs(machine))
  /\ rounds \in Nat /\ iter \in Nat /\ rounds <= iter

\* The states of timers, and those of a sequence that have one.
OfTimers(ts) == {ts[i].id : i \in DOMAIN ts}
Timed(seq) == {s \in ToSet(seq) : machine.after[s] # None}

\* What AfterStep leaves behind, for a step that exits and enters any states.
LEMMA TimersKeep ==
  ASSUME machine \in Machines, NEW ts \in Seq(Timer(machine)), Single(ts),
         \A i \in 1..Len(ts) : machine.after[ts[i].id] # None,
         NEW exit, NEW entry \in Seq(StateIDs(machine)), Once(entry)
  PROVE  LET next == AfterStep(ts, exit, entry)
         IN  /\ next \in Seq(Timer(machine)) /\ Single(next)
             /\ \A i \in 1..Len(next) : machine.after[next[i].id] # None
             /\ OfTimers(next) = (OfTimers(ts) \ ToSet(exit)) \cup Timed(entry)
<1>. DEFINE next == AfterStep(ts, exit, entry)
            gone == ToSet(exit) \cup ToSet(entry)
            old == OfTimers(ts)
            new == Timed(entry)
<1>1. /\ next \in Seq(Timer(machine)) /\ Single(next)
      /\ \A i \in 1..Len(next) :
             \/ next[i].id \in ToSet(entry) /\ machine.after[next[i].id] # None
             \/ next[i].id \notin gone /\ \E j \in 1..Len(ts) : next[i] = ts[j]
      /\ \A s \in ToSet(entry) : machine.after[s] # None => \E i \in 1..Len(next) : next[i].id = s
      /\ \A j \in 1..Len(ts) : ts[j].id \notin gone => \E i \in 1..Len(next) : next[i] = ts[j]
  BY MachineIs, AfterStepIs
<1>2. DOMAIN ts = 1..Len(ts) /\ DOMAIN next = 1..Len(next)
  BY <1>1
<1>. HIDE DEF next, gone
<1>3. \A i \in 1..Len(next) : machine.after[next[i].id] # None
  BY <1>1
<1>4. ASSUME NEW i \in 1..Len(next) PROVE next[i].id \in (old \ ToSet(exit)) \cup new
  <2>1. CASE next[i].id \in ToSet(entry) /\ machine.after[next[i].id] # None
    BY <2>1 DEF Timed
  <2>2. CASE next[i].id \notin gone /\ \E j \in 1..Len(ts) : next[i] = ts[j]
    BY <1>2, <2>2 DEF gone, OfTimers
  <2>. QED BY <1>1, <2>1, <2>2
<1>5. ASSUME NEW j \in 1..Len(ts), ts[j].id \notin ToSet(exit)
      PROVE  \E i \in 1..Len(next) : next[i].id = ts[j].id
  BY <1>1, <1>5 DEF gone
<1>6. ASSUME NEW s \in new PROVE \E i \in 1..Len(next) : next[i].id = s
  BY <1>1 DEF Timed
<1>. HIDE DEF new
<1>7. OfTimers(next) \subseteq (old \ ToSet(exit)) \cup new
  BY <1>2, <1>4 DEF OfTimers
<1>8. (old \ ToSet(exit)) \cup new \subseteq OfTimers(next)
  BY <1>2, <1>5, <1>6 DEF OfTimers
<1>. QED BY <1>1, <1>3, <1>7, <1>8 DEF next, new

\* What applyTransitions does, the types of it.
LEMMA ApplyTypes ==
  ASSUME AgreeInv, NEW pend \in Seq(Firings(machine)), NEW queue,
         \A p, u \in ToSet(pend) : p.source = u.source => p = u,
         machine' = machine, ApplyTransitions(pend, queue)
  PROVE  LET s == Macrostep(machine, leaves, pend)
         IN  /\ s.exit \in Seq(StateIDs(machine)) /\ s.entry \in Seq(StateIDs(machine))
             /\ leaves' = s.leaves /\ leaves' \in Seq(StateIDs(machine'))
             /\ pending' \in Seq(Timer(machine')) /\ Single(pending')
             /\ \A i \in 1..Len(pending') : machine'.after[pending'[i].id] # None
             /\ OfTimers(pending') = (OfTimers(pending) \ ToSet(s.exit)) \cup Timed(s.entry)
<1>. DEFINE s == Macrostep(machine, leaves, pend)
<1>1. machine \in Machines /\ WellFormed(machine) /\ leaves \in Seq(StateIDs(machine))
  BY MachineIs DEF AgreeInv
<1>2. s.exit \in Seq(StateIDs(machine))
  BY <1>1, MacrostepExits
<1>3. /\ s.entry \in Seq(StateIDs(machine))
      /\ \A a, b \in 1..Len(s.entry) : a < b => s.entry[a] # s.entry[b]
  BY <1>1, MacrostepEntries
<1>4. s.leaves \in Seq(StateIDs(machine))
  BY <1>1, MacrostepLeaves
<1>5. leaves' = s.leaves /\ pending' = AfterStep(pending, s.exit, s.entry)
  BY DEF ApplyTransitions
<1>. HIDE DEF s
<1>6. Once(s.entry)
  <2>. SUFFICES ASSUME NEW i \in 1..Len(s.entry), NEW j \in 1..Len(s.entry), s.entry[i] = s.entry[j]
                PROVE  i = j
    BY DEF Once
  <2>1. i < j \/ j < i \/ i = j
    BY <1>3
  <2>. QED BY <1>3, <2>1
<1>7. /\ pending \in Seq(Timer(machine)) /\ Single(pending)
      /\ \A i \in 1..Len(pending) : machine.after[pending[i].id] # None
  BY DEF AgreeInv
<1>. DEFINE next == AfterStep(pending, s.exit, s.entry)
<1>8. /\ next \in Seq(Timer(machine)) /\ Single(next)
      /\ \A i \in 1..Len(next) : machine.after[next[i].id] # None
      /\ OfTimers(next) = (OfTimers(pending) \ ToSet(s.exit)) \cup Timed(s.entry)
  BY ONLY <1>1, <1>3, <1>6, <1>7, TimersKeep
<1>9. pending' = next
  BY <1>5
<1>. HIDE DEF next
<1>. QED BY <1>2, <1>3, <1>4, <1>5, <1>8, <1>9 DEF s

\* When no InvokeFn sends before it returns, the harness and the runtime queue
\* the same events.
LEMMA SameQueue ==
  ASSUME machine \in Machines, NEW entry \in Seq(StateIDs(machine)),
         \A s \in ToSet(entry) \cap machine.invokes : machine.sends[s] = <<>>
  PROVE  ForEach(entry, RaisedOnEntry) = FlattenSeq([i \in DOMAIN entry |-> machine.onEntry[entry[i]]])
<1>1. machine.onEntry \in [StateIDs(machine) -> Seq(STRING)]
  BY HarnessAssumption DEF Runnable
<1>2. ASSUME NEW i \in DOMAIN entry PROVE RaisedOnEntry(entry[i]) = machine.onEntry[entry[i]]
  <2>1. entry[i] \in StateIDs(machine) /\ entry[i] \in ToSet(entry)
    BY DEF ToSet
  <2>2. machine.onEntry[entry[i]] \in Seq(STRING)
    BY <1>1, <2>1
  <2>3. machine.onEntry[entry[i]] \o <<>> = machine.onEntry[entry[i]]
    BY <2>2
  <2>4. entry[i] \in machine.invokes => machine.sends[entry[i]] = <<>>
    BY <2>1
  <2>. QED BY <2>3, <2>4 DEF RaisedOnEntry
<1>3. [i \in DOMAIN entry |-> RaisedOnEntry(entry[i])] = [i \in DOMAIN entry |-> machine.onEntry[entry[i]]]
  BY <1>2
<1>. QED BY <1>3 DEF ForEach

\* applyTransitions of the harness is applyTransitions of the runtime: the same
\* states in the same order, the same events, and the same timers by their states.
LEMMA ApplyIsLive ==
  ASSUME AgreeInv, NEW pend \in Seq(Firings(machine)), NEW queue,
         \A p, u \in ToSet(pend) : p.source = u.source => p = u,
         machine' = machine, ApplyTransitions(pend, queue), ~SendsOnEntry'
  PROVE  Live!ApplyTransitions(pend, queue)
<1>. DEFINE s == Macrostep(machine, leaves, pend)
<1>1. /\ s.exit \in Seq(StateIDs(machine)) /\ s.entry \in Seq(StateIDs(machine))
      /\ leaves' = s.leaves
      /\ OfTimers(pending') = (OfTimers(pending) \ ToSet(s.exit)) \cup Timed(s.entry)
  BY ApplyTypes
<1>2. /\ last' = [exit |-> s.exit, entry |-> s.entry]
      /\ entered' = [x \in DOMAIN entered |-> entered[x] - Has(s.exit, x) + Has(s.entry, x)]
      /\ invokes' = Invoked(s.exit, s.entry)
      /\ internal' = queue
                        \o ForEach(s.exit, LAMBDA x : machine.onExit[x])
                        \o ForEach(s.entry, RaisedOnEntry)
                        \o s.raises
                        \o DoneEvents(machine, s.leaves, s.entry)
  BY DEF ApplyTransitions, RaisedWhenDone
<1>3. Live!Macrostep(machine, leaves, pend) = s
  BY LiveMacrostep
<1>4. Live!Snap(machine, s.leaves) = Snap(machine', leaves')
  BY <1>1, LiveSteps
<1>5. Live!DoneEvents(machine, s.leaves, s.entry) = DoneEvents(machine, s.leaves, s.entry)
  BY LiveSteps
<1>. HIDE DEF s
<1>6. \A x \in ToSet(s.entry) \cap machine.invokes : machine.sends[x] = <<>>
  <2>1. last'.entry = s.entry
    BY <1>2
  <2>. QED BY <2>1 DEF SendsOnEntry
<1>7. machine \in Machines
  BY DEF AgreeInv
<1>8. ForEach(s.entry, RaisedOnEntry) = FlattenSeq([i \in DOMAIN s.entry |-> machine.onEntry[s.entry[i]]])
  <2>. DEFINE n == s.entry
  <2>1. n \in Seq(StateIDs(machine)) /\ \A x \in ToSet(n) \cap machine.invokes : machine.sends[x] = <<>>
    BY <1>1, <1>6
  <2>. HIDE DEF n
  <2>2. ForEach(n, RaisedOnEntry) = FlattenSeq([i \in DOMAIN n |-> machine.onEntry[n[i]]])
    BY <1>7, <2>1, SameQueue
  <2>. QED BY <2>2 DEF n
<1>9. internal' = queue
                    \o Live!ForEach(s.exit, LAMBDA x : machine.onExit[x])
                    \o Live!ForEach(s.entry, LAMBDA x : machine.onEntry[x])
                    \o s.raises
                    \o Live!DoneEvents(machine, s.leaves, s.entry)
  <2>1. Live!ForEach(s.exit, LAMBDA x : machine.onExit[x]) = ForEach(s.exit, LAMBDA x : machine.onExit[x])
    BY LiveMachine DEF Live!ForEach, ForEach
  <2>2. Live!ForEach(s.entry, LAMBDA x : machine.onEntry[x]) = ForEach(s.entry, RaisedOnEntry)
    BY <1>8, LiveMachine DEF Live!ForEach
  <2>. QED BY <1>2, <1>5, <2>1, <2>2
<1>10. Live!ExitThenEnter(s.exit, s.entry)
  <2>1. \A q, x : Live!Has(q, x) = Has(q, x) /\ Live!Contains(q, x) = Contains(q, x)
    BY DEF Live!Has, Has, Live!Contains, Contains
  <2>2. Live!None = None /\ \A q : Live!ToSet(q) = ToSet(q)
    BY DEF Live!None, None, Live!ToSet, ToSet
  <2>3. entered' = [x \in DOMAIN entered |-> entered[x] - Live!Has(s.exit, x) + Live!Has(s.entry, x)]
    BY <1>2, <2>1
  <2>4. invokes' = [x \in DOMAIN invokes |->
                        (IF Live!Contains(s.exit, x) THEN 0 ELSE invokes[x])
                            + IF x \in machine.invokes THEN Live!Has(s.entry, x) ELSE 0]
    BY <1>2, <2>1 DEF Invoked
  <2>5. {pending[i].id : i \in DOMAIN pending}' =
            ({pending[i].id : i \in DOMAIN pending} \ Live!ToSet(s.exit))
                \cup {x \in Live!ToSet(s.entry) : machine.after[x] # Live!None}
    BY <1>1, <2>2 DEF OfTimers, Timed
  <2>. QED BY <1>2, <2>3, <2>4, <2>5 DEF Live!ExitThenEnter
<1>11. Snap(machine, leaves)' = Live!Snap(machine, s.leaves)
  BY <1>4
<1>. QED BY <1>1, <1>3, <1>9, <1>10, <1>11 DEF Live!ApplyTransitions, Live!ExitThenEnter, Live!ForEach

\* One event, with the transitions it enables or with none.
LEMMA StepIsLive ==
  ASSUME AgreeInv, NEW ev, NEW holds, NEW queue,
         machine' = machine, Step(ev, holds, queue), ~SendsOnEntry'
  PROVE  Live!Step(ev, holds, queue)
<1>. DEFINE pend == Pending(machine, leaves, ev, holds)
<1>1. /\ pend \in Seq(Firings(machine))
      /\ \A p, u \in ToSet(pend) : p.source = u.source => p = u
  BY MachineIs, PendingTypes DEF AgreeInv
<1>2. Live!Pending(machine, leaves, ev, holds) = pend
  BY LiveSteps
<1>3. CASE pend = <<>> /\ internal' = queue /\ UNCHANGED <<leaves, entered, invokes, last, pending>>
  BY <1>2, <1>3 DEF Live!Step, Live!lifecycle
<1>4. CASE pend # <<>> /\ ApplyTransitions(pend, queue)
  <2>. HIDE DEF pend
  <2>1. Live!ApplyTransitions(pend, queue)
    BY <1>1, <1>4, ApplyIsLive
  <2>. QED BY <1>2, <1>4, <2>1 DEF Live!Step
<1>. QED BY <1>3, <1>4 DEF Step

\* The types after a step.
LEMMA StepTypes ==
  ASSUME AgreeInv, NEW ev, NEW holds, NEW queue, machine' = machine, Step(ev, holds, queue)
  PROVE  /\ leaves' \in Seq(StateIDs(machine'))
         /\ pending' \in Seq(Timer(machine')) /\ Single(pending')
         /\ \A i \in 1..Len(pending') : machine'.after[pending'[i].id] # None
<1>. DEFINE pend == Pending(machine, leaves, ev, holds)
<1>1. /\ pend \in Seq(Firings(machine))
      /\ \A p, u \in ToSet(pend) : p.source = u.source => p = u
  BY MachineIs, PendingTypes DEF AgreeInv
<1>2. CASE pend = <<>> /\ UNCHANGED <<leaves, pending>>
  BY <1>2 DEF AgreeInv
<1>3. CASE pend # <<>> /\ ApplyTransitions(pend, queue)
  <2>. HIDE DEF pend
  <2>. QED BY <1>1, <1>3, ApplyTypes
<1>. QED BY <1>2, <1>3 DEF Step

\* Start: both have entered the same states and armed the same timers.
LEMMA InitAgrees ==
  ASSUME Init
  PROVE  AgreeInv /\ (SendsOnEntry \/ Live!Init)
<1>. DEFINE S == StateIDs(machine)
<1>1. machine \in Machines /\ WellFormed(machine) /\ machine.start \in S
  BY MachineIs DEF Init, WellFormed
<1>2. /\ leaves = InitialLeaves(machine) /\ leaves \in Seq(S)
      /\ \A l \in ToSet(leaves) : ~IsCompound(machine, l)
  BY <1>1, LeafTargetsAre DEF Init, InitialLeaves
<1>3. last.entry \in Seq(S) /\ Once(last.entry)
  <2>. DEFINE e == StartEntries(machine, leaves)
  <2>1. /\ e \in Seq(S)
        /\ \A a, b \in 1..Len(e) : a < b => ~Within(machine, e[a], e[b])
    BY <1>1, <1>2, InitialEntries
  <2>2. last.entry = e
    BY DEF Init, StartEntries
  <2>. HIDE DEF e
  <2>3. Once(e)
    BY <1>1, <2>1, LaterIsOther
  <2>. QED BY <2>1, <2>2, <2>3
<1>4. /\ pending \in Seq(Timer(machine)) /\ Single(pending)
      /\ \A i \in 1..Len(pending) : machine.after[pending[i].id] # None
      /\ OfTimers(pending) = Timed(last.entry)
  <2>0. PICK none : none = <<>>
    OBVIOUS
  <2>1. none \in Seq(Timer(machine)) /\ Single(none) /\ Len(none) = 0 /\ DOMAIN none = {}
    BY <2>0 DEF Single
  <2>2. OfTimers(none) = {}
    BY <2>1 DEF OfTimers
  <2>3. pending = AfterStep(none, none, last.entry)
    BY <2>0 DEF Init
  <2>. DEFINE n == last.entry
              next == AfterStep(none, none, n)
  <2>4. \A i \in 1..Len(none) : machine.after[none[i].id] # None
    BY <2>1
  <2>5. n \in Seq(S) /\ Once(n)
    BY <1>3
  <2>. HIDE DEF n
  <2>6. /\ next \in Seq(Timer(machine)) /\ Single(next)
        /\ \A i \in 1..Len(next) : machine.after[next[i].id] # None
        /\ OfTimers(next) = (OfTimers(none) \ ToSet(none)) \cup Timed(n)
    BY ONLY <1>1, <2>1, <2>4, <2>5, TimersKeep
  <2>7. pending = next
    BY <2>3 DEF n
  <2>. HIDE DEF next
  <2>. QED BY <2>2, <2>6, <2>7 DEF n
<1>5. AgreeInv
  <2>1. iter = 0 /\ rounds = 0 /\ batch = <<>>
    BY DEF Init
  <2>2. batch \in Seq(S) /\ rounds \in Nat /\ iter \in Nat /\ rounds <= iter
    BY <2>1
  <2>. QED BY <1>1, <1>2, <1>4, <2>2 DEF AgreeInv
<1>6. ASSUME ~SendsOnEntry PROVE Live!Init
  <2>1. leaves = Live!InitialLeaves(machine)
    BY <1>2, LiveMachine DEF Live!InitialLeaves, InitialLeaves
  <2>2. last = [exit |-> <<>>,
                entry |-> Live!Distinct(Live!ForEach(leaves, LAMBDA l : Live!EntryPath(machine, Live!None, l)))]
    <3>1. ForEach(leaves, LAMBDA l : EntryPath(machine, None, l))
            = Live!ForEach(leaves, LAMBDA l : Live!EntryPath(machine, Live!None, l))
      BY LiveMachine DEF Live!ForEach, ForEach
    <3>2. \A q : Live!Distinct(q) = Distinct(q)
      BY LiveMachine
    <3>. QED BY <3>1, <3>2 DEF Init
  <2>3. internal = Live!ForEach(last.entry, LAMBDA s : machine.onEntry[s])
                    \o Live!DoneEvents(machine, leaves, last.entry)
    <3>1. \A s \in ToSet(last.entry) \cap machine.invokes : machine.sends[s] = <<>>
      BY <1>6 DEF SendsOnEntry
    <3>. DEFINE n == last.entry
    <3>2. n \in Seq(S) /\ \A s \in ToSet(n) \cap machine.invokes : machine.sends[s] = <<>>
      BY <1>3, <3>1
    <3>. HIDE DEF n
    <3>3. ForEach(n, RaisedOnEntry) = FlattenSeq([i \in DOMAIN n |-> machine.onEntry[n[i]]])
      BY <1>1, <3>2, SameQueue
    <3>4. ForEach(n, RaisedOnEntry) = Live!ForEach(n, LAMBDA s : machine.onEntry[s])
      BY <3>3, LiveMachine DEF Live!ForEach
    <3>5. internal = ForEach(n, RaisedOnEntry) \o DoneEvents(machine, leaves, n)
      BY DEF Init, RaisedWhenDone, n
    <3>. QED BY <3>4, <3>5, LiveSteps DEF n
  <2>4. /\ \A q, x : Live!Has(q, x) = Has(q, x)
        /\ Live!None = None /\ Live!StateIDs(machine) = S
        /\ \A q : Live!ToSet(q) = ToSet(q)
    BY LiveMachine DEF Live!Has, Has, Live!Contains, Contains, Live!ToSet, ToSet
  <2>5. entered = [s \in Live!StateIDs(machine) |-> Live!Has(last.entry, s)]
    BY <2>4 DEF Init
  <2>6. invokes = [s \in Live!StateIDs(machine) |->
                        IF s \in machine.invokes THEN Live!Has(last.entry, s) ELSE 0]
    BY <2>4 DEF Init
  <2>7. {pending[i].id : i \in DOMAIN pending}
            = {s \in Live!ToSet(last.entry) : machine.after[s] # Live!None}
    BY <1>4, <2>4 DEF OfTimers, Timed
  <2>8. Snap(machine, leaves) = Live!Snap(machine, leaves)
    BY LiveSteps
  <2>9. pc = "flush" /\ rounds = 0 /\ batch = <<>>
    BY DEF Init
  <2>. QED BY <1>1, <2>1, <2>2, <2>3, <2>5, <2>6, <2>7, <2>8, <2>9 DEF Live!Init
<1>. QED BY <1>5, <1>6

\* Few enough leaves and events of timers for the bounds of Live: its scheduler
\* drops the event of a timer when 64 are waiting.
Fits == Len(leaves) <= 64 /\ Len(batch) <= 64

\* The guards and the events that the two choose from.
LEMMA LiveInputs ==
  /\ Live!Guarded = Guarded
  /\ Live!UserEvents = UserEvents
<1>1. Live!Guarded = Guarded
  BY DEF Live!Guarded, Guarded
<1>2. Live!StateIDs(machine) = StateIDs(machine) /\ Live!AlwaysEvent = AlwaysEvent
  BY LiveMachine
<1>3. \A s : Live!DoneEvent(s) = DoneEvent(s)
  BY DEF Live!DoneEvent, DoneEvent
<1>4. Live!UserEvents = UserEvents
  BY <1>2, <1>3 DEF Live!UserEvents, UserEvents
<1>. QED BY <1>1, <1>4

\* The iterations of flush are those of the runtime's loop: an internal event, the
\* Always round, or neither. flush counts each, the runtime its Always rounds.
LEMMA FlushIsLive ==
  ASSUME AgreeInv, NEW holds \in SUBSET Guarded, ~SendsOnEntry'
  PROVE  /\ FlushInternal(holds) => Live!StepInternal(holds)
         /\ FlushAlways(holds) /\ ~SeveralAlways => Live!TryAlways(holds)
         /\ FlushReturns(holds) => Live!TryAlways(holds)
<1>1. ASSUME FlushInternal(holds) PROVE Live!StepInternal(holds)
  <2>1. /\ pc = "flush" /\ internal # <<>> /\ Step(Head(internal), holds, Tail(internal))
        /\ rounds' = 0 /\ machine' = machine /\ pc' = pc /\ batch' = batch
    BY <1>1 DEF FlushInternal
  <2>2. PICK e, queue : e = Head(internal) /\ queue = Tail(internal)
    OBVIOUS
  <2>3. Live!Step(e, holds, queue)
    BY <2>1, <2>2, StepIsLive
  <2>4. Live!Step(Head(internal), holds, Tail(internal))
    BY <2>2, <2>3 DEF Live!Step, Live!ApplyTransitions
  <2>. QED BY <2>1, <2>4 DEF Live!StepInternal
<1>. DEFINE pend == Pending(machine, leaves, AlwaysEvent, holds)
<1>2. Live!Pending(machine, leaves, Live!AlwaysEvent, holds) = pend /\ pend \in Seq(Firings(machine))
  <2>1. Live!AlwaysEvent = AlwaysEvent
    BY LiveMachine
  <2>2. Live!Pending(machine, leaves, AlwaysEvent, holds) = pend
    BY LiveSteps
  <2>3. pend \in Seq(Firings(machine))
    BY MachineIs, PendingTypes DEF AgreeInv
  <2>. QED BY <2>1, <2>2, <2>3
<1>3. iter < FlushLimit => rounds < FlushLimit
  BY HarnessAssumption DEF AgreeInv
<1>4. ASSUME FlushAlways(holds), ~SeveralAlways PROVE Live!TryAlways(holds)
  <2>1. /\ pc = "flush" /\ internal = <<>> /\ iter < FlushLimit /\ pend # <<>>
        /\ ApplyTransitions(<<pend[1]>>, <<>>)
        /\ rounds' = rounds + 1 /\ machine' = machine /\ pc' = pc /\ batch' = batch
    BY <1>4 DEF FlushAlways
  <2>2. ~(Len(pend) > 1)
    BY <1>4 DEF SeveralAlways
  <2>. HIDE DEF pend
  <2>3. pend = <<pend[1]>>
    BY <1>2, <2>1, <2>2
  <2>4. \A p, u \in ToSet(pend) : p.source = u.source => p = u
    BY <2>3 DEF ToSet
  <2>5. Live!ApplyTransitions(pend, <<>>)
    BY <1>2, <2>1, <2>3, <2>4, ApplyIsLive
  <2>. QED BY <1>2, <1>3, <2>1, <2>5 DEF Live!TryAlways
<1>5. ASSUME FlushReturns(holds) PROVE Live!TryAlways(holds)
  <2>1. /\ pc = "flush" /\ internal = <<>> /\ iter < FlushLimit /\ pend = <<>>
        /\ pc' = "ready" /\ rounds' = 0
        /\ UNCHANGED <<machine, leaves, internal, entered, invokes, last, pending, batch>>
    BY <1>5 DEF FlushReturns
  <2>. HIDE DEF pend
  <2>. QED BY <1>2, <1>3, <2>1 DEF Live!TryAlways, Live!lifecycle
<1>. QED BY <1>1, <1>4, <1>5

\* Send and the delivery of a timer's event are those of the service.
LEMMA CallIsLive ==
  ASSUME AgreeInv, Fits, NEW holds \in SUBSET Guarded, ~SendsOnEntry'
  PROVE  /\ \A ev \in UserEvents : Send(ev, holds) => Live!Receive(ev, holds)
         /\ Deliver(holds) => Live!ReceiveTimer(holds)
<1>1. ASSUME NEW ev \in UserEvents, Send(ev, holds) PROVE Live!Receive(ev, holds)
  <2>1. /\ pc = "ready" /\ Step(ev, holds, internal) /\ pc' = "flush"
        /\ machine' = machine /\ rounds' = rounds /\ batch' = batch
    BY <1>1 DEF Send, Returned
  <2>2. PICK queue : queue = internal
    OBVIOUS
  <2>3. Live!Step(ev, holds, queue)
    BY <2>1, <2>2, StepIsLive
  <2>4. Live!Step(ev, holds, internal)
    BY <2>2, <2>3 DEF Live!Step, Live!ApplyTransitions
  <2>. QED BY <2>1, <2>4 DEF Live!Receive, Fits
<1>2. ASSUME Deliver(holds) PROVE Live!ReceiveTimer(holds)
  <2>1. /\ pc = "ready" /\ batch # <<>> /\ Step(machine.after[Head(batch)], holds, internal)
        /\ batch' = Tail(batch) /\ pc' = "flush" /\ machine' = machine /\ rounds' = rounds
    BY <1>2 DEF Deliver
  <2>2. PICK e, queue : e = machine.after[Head(batch)] /\ queue = internal
    OBVIOUS
  <2>3. Live!Step(e, holds, queue)
    BY <2>1, <2>2, StepIsLive
  <2>4. Live!Step(machine.after[Head(batch)], holds, internal)
    BY <2>2, <2>3 DEF Live!Step, Live!ApplyTransitions
  <2>. QED BY <2>1, <2>4 DEF Live!ReceiveTimer, Fits
<1>. QED BY <1>1, <1>2

\* advance hands over a timer that is due: it fires in the runtime's scheduler,
\* and the other timers stay, each of a state of its own.
LEMMA CollectIsLive ==
  ASSUME AgreeInv, Fits', Collect
  PROVE  \E s \in StateIDs(machine) : Live!TimerFires(s)
<1>1. PICK i \in Due : batch' = Append(batch, pending[i].id) /\ pending' = RemoveAt(pending, i)
  BY DEF Collect
<1>2. /\ pc = "collect"
      /\ UNCHANGED <<machine, leaves, internal, pc, iter, rounds, entered, invokes, last>>
  BY DEF Collect
<1>3. /\ pending \in Seq(Timer(machine)) /\ Single(pending) /\ batch \in Seq(StateIDs(machine))
      /\ DOMAIN pending = 1..Len(pending) /\ i \in 1..Len(pending)
      /\ pending[i].id \in StateIDs(machine)
  BY TimerFields DEF AgreeInv, Due
<1>. DEFINE s == pending[i].id
            next == RemoveAt(pending, i)
<1>4. /\ next \in Seq(Timer(machine))
      /\ \A j \in 1..Len(next) : \E k \in 1..Len(pending) : k # i /\ next[j] = pending[k]
      /\ \A k \in 1..Len(pending) : k # i => \E j \in 1..Len(next) : next[j] = pending[k]
  BY <1>3, RemoveAtIs
<1>5. DOMAIN next = 1..Len(next)
  BY <1>4
<1>6. OfTimers(pending') = OfTimers(pending) \ {s}
  <2>. HIDE DEF next
  <2>1. \A k \in 1..Len(pending) : k # i => pending[k].id # s
    BY <1>3 DEF Single
  <2>2. ASSUME NEW j \in 1..Len(next) PROVE next[j].id \in OfTimers(pending) \ {s}
    <3>1. PICK k \in 1..Len(pending) : k # i /\ next[j] = pending[k]
      BY <1>4
    <3>. QED BY <1>3, <2>1, <3>1 DEF OfTimers
  <2>3. ASSUME NEW k \in 1..Len(pending), pending[k].id # s PROVE pending[k].id \in OfTimers(next)
    <3>1. PICK j \in 1..Len(next) : next[j] = pending[k]
      BY <1>4, <2>3
    <3>. QED BY <1>5, <3>1 DEF OfTimers
  <2>5. OfTimers(next) \subseteq OfTimers(pending) \ {s}
    BY <1>5, <2>2 DEF OfTimers
  <2>6. OfTimers(pending) \ {s} \subseteq OfTimers(next)
    BY <1>3, <2>3 DEF OfTimers
  <2>4. pending' = next
    BY <1>1 DEF next
  <2>. QED BY <2>4, <2>5, <2>6
<1>7. s \in OfTimers(pending)
  BY <1>3 DEF OfTimers
<1>8. Len(batch) < 64
  <2>1. Len(batch') = Len(batch) + 1 /\ Len(batch) \in Nat
    BY <1>1, <1>3
  <2>. QED BY <2>1 DEF Fits
<1>9. Snap(machine, leaves)' = Snap(machine, leaves)
  BY <1>2
<1>. HIDE DEF next, s
<1>10. s \in {pending[j].id : j \in DOMAIN pending}
       /\ {pending[j].id : j \in DOMAIN pending}' = {pending[j].id : j \in DOMAIN pending} \ {s}
  BY <1>6, <1>7 DEF OfTimers
<1>11. s \in StateIDs(machine) /\ batch' = Append(batch, s)
  BY <1>1, <1>3 DEF s
<1>. QED BY <1>2, <1>8, <1>9, <1>10, <1>11 DEF Live!TimerFires

\* The steps that Live does not see.
LEMMA OthersAreStutters ==
  ASSUME AgreeInv
  PROVE  /\ FlushPanics \/ AdvanceReturns => UNCHANGED Live!interpVars
         /\ \A d : Tick(d) => UNCHANGED Live!interpVars
<1>1. ASSUME FlushPanics \/ AdvanceReturns PROVE UNCHANGED Live!interpVars
  <2>1. /\ UNCHANGED <<machine, leaves, internal, rounds, entered, invokes, last, pending, batch>>
        /\ \/ pc = "flush" /\ pc' = "panicked"
           \/ pc = "collect" /\ pc' = "ready"
    BY <1>1 DEF FlushPanics, AdvanceReturns
  <2>. QED BY <2>1 DEF Live!interpVars, Live!lifecycle
<1>2. ASSUME NEW d, Tick(d) PROVE UNCHANGED Live!interpVars
  <2>1. /\ UNCHANGED <<machine, leaves, internal, rounds, entered, invokes, last, batch>>
        /\ pc = "ready" /\ pc' = "collect"
        /\ pending' = [i \in DOMAIN pending |-> [pending[i] EXCEPT !.left = @ - d]]
    BY <1>2 DEF Tick, Returned
  <2>2. \A i \in DOMAIN pending : pending[i] \in Timer(machine)
    BY DEF AgreeInv
  <2>3. DOMAIN pending' = DOMAIN pending /\ \A i \in DOMAIN pending : pending'[i].id = pending[i].id
    BY <2>1, <2>2 DEF Timer
  <2>4. {pending[i].id : i \in DOMAIN pending}' = {pending[i].id : i \in DOMAIN pending}
    BY <2>3
  <2>. QED BY <2>1, <2>4 DEF Live!interpVars, Live!lifecycle
<1>. QED BY <1>1, <1>2

-----------------------------------------------------------------------------
(* The types hold in every state.                                          *)

\* A step on an event.
LEMMA StepAgrees ==
  ASSUME AgreeInv, NEW ev, NEW holds, NEW queue, machine' = machine, Step(ev, holds, queue),
         batch' \in Seq(StateIDs(machine)), rounds' \in Nat, iter' \in Nat, rounds' <= iter'
  PROVE  AgreeInv'
<1>1. machine' \in Machines
  BY DEF AgreeInv
<1>2. /\ leaves' \in Seq(StateIDs(machine'))
      /\ pending' \in Seq(Timer(machine')) /\ Single(pending')
      /\ \A i \in 1..Len(pending') : machine'.after[pending'[i].id] # None
  BY StepTypes
<1>. QED BY <1>1, <1>2 DEF AgreeInv, Single

\* An Always round: the first transition alone.
LEMMA AlwaysAgrees ==
  ASSUME AgreeInv, NEW holds, FlushAlways(holds)
  PROVE  AgreeInv'
<1>. DEFINE pend == Pending(machine, leaves, AlwaysEvent, holds)
<1>1. /\ pend # <<>> /\ ApplyTransitions(<<pend[1]>>, <<>>)
      /\ machine' = machine /\ batch' = batch /\ iter' = iter + 1 /\ rounds' = rounds + 1
  BY DEF FlushAlways
<1>2. pend \in Seq(Firings(machine))
  BY MachineIs, PendingTypes DEF AgreeInv
<1>. HIDE DEF pend
<1>. DEFINE first == <<pend[1]>>
<1>3. first \in Seq(Firings(machine)) /\ \A p, u \in ToSet(first) : p.source = u.source => p = u
  BY <1>1, <1>2 DEF ToSet
<1>4. ApplyTransitions(first, <<>>)
  BY <1>1
<1>. HIDE DEF first
<1>5. /\ leaves' \in Seq(StateIDs(machine'))
      /\ pending' \in Seq(Timer(machine')) /\ Single(pending')
      /\ \A i \in 1..Len(pending') : machine'.after[pending'[i].id] # None
  BY <1>1, <1>3, <1>4, ApplyTypes
<1>6. machine' \in Machines /\ batch' \in Seq(StateIDs(machine'))
  BY <1>1 DEF AgreeInv
<1>7. rounds' \in Nat /\ iter' \in Nat /\ rounds' <= iter'
  BY <1>1 DEF AgreeInv
<1>. QED BY <1>5, <1>6, <1>7 DEF AgreeInv, Single

\* advance.
LEMMA TimersAgree ==
  ASSUME AgreeInv, NEW d \in Int, Tick(d) \/ Collect
  PROVE  AgreeInv'
<1>1. /\ machine \in Machines /\ leaves \in Seq(StateIDs(machine))
      /\ pending \in Seq(Timer(machine)) /\ Single(pending)
      /\ \A i \in 1..Len(pending) : machine.after[pending[i].id] # None
      /\ batch \in Seq(StateIDs(machine))
      /\ rounds \in Nat /\ iter \in Nat /\ rounds <= iter
  BY DEF AgreeInv
<1>2. UNCHANGED <<machine, leaves, rounds, iter>>
  BY DEF Tick, Collect
<1>3. /\ pending' \in Seq(Timer(machine)) /\ Single(pending') /\ batch' \in Seq(StateIDs(machine))
      /\ \A i \in 1..Len(pending') : machine.after[pending'[i].id] # None
  <2>1. CASE Tick(d)
    <3>1. batch' = batch
      BY <2>1 DEF Tick
    <3>2. /\ pending' \in Seq(Timer(machine)) /\ Len(pending') = Len(pending) /\ Single(pending')
          /\ \A i \in 1..Len(pending) :
                 pending'[i].id = pending[i].id /\ pending'[i].left = pending[i].left - d
      BY <1>1, <2>1, TickIs
    <3>. QED BY <1>1, <3>1, <3>2
  <2>2. CASE Collect
    <3>1. PICK i \in Due : batch' = Append(batch, pending[i].id) /\ pending' = RemoveAt(pending, i)
      BY <2>2 DEF Collect
    <3>2. i \in 1..Len(pending) /\ pending[i].id \in StateIDs(machine)
      BY <1>1, TimerFields DEF Due
    <3>3. /\ pending' \in Seq(Timer(machine)) /\ Single(pending')
          /\ \A j \in 1..Len(pending') : \E k \in 1..Len(pending) : k # i /\ pending'[j] = pending[k]
      BY <1>1, <3>1, <3>2, RemoveAtIs
    <3>4. batch' \in Seq(StateIDs(machine))
      BY <1>1, <3>1, <3>2
    <3>5. ASSUME NEW j \in 1..Len(pending')
          PROVE  machine.after[pending'[j].id] # None
      <4>1. PICK k \in 1..Len(pending) : pending'[j] = pending[k]
        BY <3>3
      <4>. QED BY <1>1, <4>1
    <3>. QED BY <3>3, <3>4, <3>5
  <2>. QED BY <2>1, <2>2
<1>. QED BY <1>1, <1>2, <1>3 DEF AgreeInv, Single

\* Every step keeps the types.
LEMMA AgreeStays == AgreeInv /\ [Next]_harnessVars => AgreeInv'
<1>. SUFFICES ASSUME AgreeInv, [Next]_harnessVars PROVE AgreeInv'
  OBVIOUS
<1>0. rounds \in Nat /\ iter \in Nat /\ rounds <= iter /\ batch \in Seq(StateIDs(machine))
  BY DEF AgreeInv
<1>1. ASSUME NEW holds, FlushInternal(holds) PROVE AgreeInv'
  <2>1. /\ Step(Head(internal), holds, Tail(internal))
        /\ machine' = machine /\ batch' = batch /\ iter' = iter + 1 /\ rounds' = 0
    BY <1>1 DEF FlushInternal
  <2>2. batch' \in Seq(StateIDs(machine)) /\ rounds' \in Nat /\ iter' \in Nat /\ rounds' <= iter'
    BY <1>0, <2>1
  <2>. QED BY <2>1, <2>2, StepAgrees
<1>2. ASSUME NEW holds, FlushAlways(holds) PROVE AgreeInv'
  BY <1>2, AlwaysAgrees
<1>3. ASSUME NEW holds, FlushReturns(holds) PROVE AgreeInv'
  BY <1>3 DEF FlushReturns, AgreeInv, Single
<1>4. ASSUME NEW holds, Deliver(holds) PROVE AgreeInv'
  <2>1. /\ Step(machine.after[Head(batch)], holds, internal)
        /\ machine' = machine /\ batch' = Tail(batch) /\ iter' = iter /\ rounds' = rounds
        /\ batch # <<>>
    BY <1>4 DEF Deliver
  <2>2. batch' \in Seq(StateIDs(machine)) /\ rounds' \in Nat /\ iter' \in Nat /\ rounds' <= iter'
    BY <1>0, <2>1
  <2>. QED BY <2>1, <2>2, StepAgrees
<1>5. CASE FlushPanics \/ AdvanceReturns \/ UNCHANGED harnessVars
  BY <1>5 DEF FlushPanics, AdvanceReturns, harnessVars, AgreeInv, Single
<1>6. CASE Collect
  BY <1>6, TimersAgree
<1>7. ASSUME NEW ev, NEW holds, Send(ev, holds) PROVE AgreeInv'
  <2>1. /\ Step(ev, holds, internal)
        /\ machine' = machine /\ batch' = batch /\ iter' = iter /\ rounds' = rounds
    BY <1>7 DEF Send
  <2>2. batch' \in Seq(StateIDs(machine)) /\ rounds' \in Nat /\ iter' \in Nat /\ rounds' <= iter'
    BY <1>0, <2>1
  <2>. QED BY <2>1, <2>2, StepAgrees
<1>8. ASSUME NEW d \in 1..MaxTick, Tick(d) PROVE AgreeInv'
  BY <1>8, TimersAgree
<1>. QED BY <1>1, <1>2, <1>3, <1>4, <1>5, <1>6, <1>7, <1>8 DEF Next, CallNext

\* Every step of the harness is one of the service, or one that Live does not see.
LEMMA NextIsLive ==
  ASSUME AgreeInv, Fits, Fits', [Next]_harnessVars
  PROVE  \/ Live!Next \/ UNCHANGED Live!interpVars
         \/ pc = "flush" /\ internal = <<>> /\ SeveralAlways
         \/ SendsOnEntry'
         \/ UNCHANGED harnessVars
<1>. SUFFICES ASSUME ~SendsOnEntry', ~(pc = "flush" /\ internal = <<>> /\ SeveralAlways), Next
              PROVE  Live!Next \/ UNCHANGED Live!interpVars
  OBVIOUS
<1>0. Live!Guarded = Guarded /\ Live!UserEvents = UserEvents /\ Live!StateIDs(machine) = StateIDs(machine)
  BY LiveInputs, LiveMachine
<1>1. ASSUME NEW holds \in SUBSET Guarded, FlushInternal(holds) PROVE Live!Next
  <2>1. Live!StepInternal(holds)
    BY <1>1, FlushIsLive
  <2>. QED BY <1>0, <2>1 DEF Live!Next, Live!RunSteps
<1>2. ASSUME NEW holds \in SUBSET Guarded, FlushAlways(holds) PROVE Live!Next
  <2>1. pc = "flush" /\ internal = <<>>
    BY <1>2 DEF FlushAlways
  <2>2. Live!TryAlways(holds)
    BY <1>2, <2>1, FlushIsLive
  <2>. QED BY <1>0, <2>2 DEF Live!Next, Live!RunSteps
<1>3. ASSUME NEW holds \in SUBSET Guarded, FlushReturns(holds) PROVE Live!Next
  <2>1. Live!TryAlways(holds)
    BY <1>3, FlushIsLive
  <2>. QED BY <1>0, <2>1 DEF Live!Next, Live!RunSteps
<1>4. ASSUME NEW holds \in SUBSET Guarded, Deliver(holds) PROVE Live!Next
  <2>1. Live!ReceiveTimer(holds)
    BY <1>4, CallIsLive
  <2>. QED BY <1>0, <2>1 DEF Live!Next
<1>5. ASSUME NEW ev \in UserEvents, NEW holds \in SUBSET Guarded, Send(ev, holds) PROVE Live!Next
  <2>1. Live!Receive(ev, holds)
    BY <1>5, CallIsLive
  <2>. QED BY <1>0, <2>1 DEF Live!Next
<1>6. CASE Collect
  <2>1. \E s \in StateIDs(machine) : Live!TimerFires(s)
    BY <1>6, CollectIsLive
  <2>. QED BY <1>0, <2>1 DEF Live!Next
<1>7. CASE FlushPanics \/ AdvanceReturns
  BY <1>7, OthersAreStutters
<1>8. ASSUME NEW d, Tick(d) PROVE UNCHANGED Live!interpVars
  BY <1>8, OthersAreStutters
<1>. QED BY <1>1, <1>2, <1>3, <1>4, <1>5, <1>6, <1>7, <1>8 DEF Next, CallNext

\* "The harness uses the same LCCA-based exit/entry algorithm as the runtime"
\* (harness.go): for every machine, each step of Send, Tick and flush is a step
\* that the service takes on the same event, or one that the service does not
\* see, except where an InvokeFn sends before it returns or where two regions
\* can take an Always. The service's scheduler holds 64 events, so no more than
\* that may be due at once.
THEOREM HarnessAgrees == Spec /\ []Fits => AgreesWithRuntime
<1>. DEFINE step == \/ Live!Next \/ UNCHANGED Live!interpVars
                    \/ pc = "flush" /\ internal = <<>> /\ SeveralAlways
                    \/ SendsOnEntry'
<1>1. Init => AgreeInv /\ (SendsOnEntry \/ Live!Init)
  BY InitAgrees
<1>2. AgreeInv /\ Fits /\ Fits' /\ [Next]_harnessVars => [step]_harnessVars
  BY NextIsLive
<1>. QED BY <1>1, <1>2, AgreeStays, PTL DEF Spec, AgreesWithRuntime, step
=============================================================================
