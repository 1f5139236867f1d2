--------------------------- MODULE Gateway_proofs ---------------------------
(***************************************************************************)
(* Proofs about RoutePolicy and Gateway, for every value of the constants: *)
(* the shares of a weighted choice, the choice of a target, and what a     *)
(* request is answered while rows change.                                  *)
(***************************************************************************)
EXTENDS Gateway, FiniteSetTheorems, WellFoundedInduction, TLAPS

-----------------------------------------------------------------------------
(* Sets of natural numbers *)

\* A set of natural numbers has a least element.
LEMMA Least ==
  ASSUME NEW T \in SUBSET Nat, T # {}
  PROVE  \E n \in T : \A k \in T : n <= k
<1> DEFINE R == OpToRel(<, Nat)
<1>1. IsWellFoundedOn(R, Nat)
  BY NatLessThanWellFounded
<1>2. \A x \in Nat, y \in Nat : x < y => <<x, y>> \in R
  BY DEF OpToRel
<1> HIDE DEF R
<1>3. PICK n \in T : \A k \in T : <<k, n>> \notin R
  BY <1>1, WFMin
<1>4. ASSUME NEW k \in T  PROVE n <= k
  <2>1. n \in Nat /\ k \in Nat /\ ~(k < n)
    BY <1>2, <1>3
  <2> QED
    BY <2>1
<1> QED
  BY <1>4

-----------------------------------------------------------------------------
(* chooseWeighted *)

\* Weights count at least one each.
LEMMA WeightType ==
  ASSUME NEW x \in Target
  PROVE  Weight(x) \in Nat /\ Weight(x) >= 1 /\ Weight(x) = IF x.weight <= 0 THEN 1 ELSE x.weight
BY DEF Weight, Target

\* The running sum of chooseWeighted's loop (selector.go:117-124) is defined.
LEMMA CutsDef ==
  ASSUME NEW ts \in Seq(Target), NEW slice
  PROVE  LET cut == Cuts(ts, slice) IN
         /\ cut = [i \in 0..Len(ts) |-> IF i = 0 THEN 0
                     ELSE cut[i-1] + (IF i \in slice THEN Weight(ts[i]) ELSE 0)]
<1> DEFINE w(i) == IF i \in slice THEN Weight(ts[i]) ELSE 0
           Sum(f, n) == f = [i \in 0..n |-> IF i = 0 THEN 0 ELSE f[i-1] + w(i)]
           T == {n \in Nat : ~\E f : Sum(f, n)}
<1>1. T = {}
  <2> SUFFICES ASSUME T # {}  PROVE FALSE
    OBVIOUS
  <2>1. PICK m \in T : \A k \in T : m <= k
    BY Least
  <2>2. m # 0
    <3>1. ASSUME m = 0  PROVE Sum([i \in 0..0 |-> 0], 0)
      OBVIOUS
    <3> QED
      BY <3>1, <2>1
  <2>3. m - 1 \in Nat /\ m - 1 \notin T
    <3>1. m \in Nat /\ m - 1 \in Nat /\ ~(m <= m - 1)
      BY <2>1, <2>2
    <3> HIDE DEF T
    <3> QED
      BY <2>1, <3>1
  <2>4. PICK f : Sum(f, m - 1)
    BY <2>3
  <2> DEFINE g == [i \in 0..m |-> IF i = m THEN f[m-1] + w(m) ELSE f[i]]
  <2>5. Sum(g, m)
    <3> HIDE DEF w
    <3>1. \A i \in 0..m : g[i] = IF i = 0 THEN 0 ELSE g[i-1] + w(i)
      BY <2>2, <2>3, <2>4
    <3> QED
      BY <3>1
  <2> QED
    BY <2>1, <2>5
<1>2. Len(ts) \in Nat
  OBVIOUS
<1>3. \E f : Sum(f, Len(ts))
  BY <1>1, <1>2
<1>4. Cuts(ts, slice) = CHOOSE f : Sum(f, Len(ts))
  BY DEF Cuts
<1>5. Sum(Cuts(ts, slice), Len(ts))
  <2> HIDE DEF Sum
  <2> QED
    BY <1>3, <1>4
<1> QED
  BY <1>5

\* The sums are natural numbers that start at zero, grow by a weight at every
\* position of the slice, and stay the same elsewhere.
LEMMA CutsFacts ==
  ASSUME NEW ts \in Seq(Target), NEW slice
  PROVE  LET cut == Cuts(ts, slice) IN
         /\ cut \in [0..Len(ts) -> Nat] /\ cut[0] = 0
         /\ \A i \in 1..Len(ts) : cut[i] = cut[i-1] + (IF i \in slice THEN Weight(ts[i]) ELSE 0)
         /\ \A i \in 0..Len(ts), j \in 0..Len(ts) : i <= j => cut[i] <= cut[j]
<1> DEFINE cut == Cuts(ts, slice)
           w(i) == IF i \in slice THEN Weight(ts[i]) ELSE 0
           N == Len(ts)
<1>0. N \in Nat
  OBVIOUS
<1>1. cut = [i \in 0..N |-> IF i = 0 THEN 0 ELSE cut[i-1] + w(i)]
  BY CutsDef
<1>2. \A i \in 1..N : w(i) \in Nat
  BY WeightType
<1> HIDE DEF cut, w, N
<1>3. cut[0] = 0 /\ \A i \in 1..N : cut[i] = cut[i-1] + w(i)
  BY <1>0, <1>1
<1>4. \A i \in 0..N : cut[i] \in Nat
  <2> DEFINE T == {i \in 0..N : cut[i] \notin Nat}
  <2> SUFFICES ASSUME T # {}  PROVE FALSE
    OBVIOUS
  <2>1. T \in SUBSET Nat
    BY <1>0
  <2>2. PICK m \in T : \A k \in T : m <= k
    BY <2>1, Least
  <2>3. m \in 1..N /\ cut[m] \notin Nat
    BY <1>0, <1>3, <2>2
  <2>4. m - 1 \in 0..N /\ m - 1 \notin T
    <3>1. m - 1 \in 0..N /\ ~(m <= m - 1)
      BY <1>0, <2>3
    <3> HIDE DEF T
    <3> QED
      BY <2>2, <3>1
  <2>5. cut[m - 1] \in Nat
    BY <2>4
  <2> HIDE DEF T
  <2> QED
    BY <1>2, <1>3, <2>3, <2>5
<1>5. cut \in [0..N -> Nat]
  BY <1>1, <1>4
<1>6. ASSUME NEW i \in 0..N, NEW j \in 0..N, i <= j  PROVE cut[i] <= cut[j]
  <2> DEFINE T == {k \in i..N : ~(cut[i] <= cut[k])}
  <2> SUFFICES ASSUME T # {}  PROVE FALSE
    <3>1. j \in i..N
      BY <1>0, <1>6
    <3> QED
      BY <3>1
  <2>1. T \in SUBSET Nat
    BY <1>0
  <2>2. PICK m \in T : \A k \in T : m <= k
    BY <2>1, Least
  <2>3. m \in i..N /\ ~(cut[i] <= cut[m])
    BY <2>2
  <2>4. m # i
    BY <1>4, <2>3
  <2>5. m - 1 \in i..N /\ m \in 1..N /\ m - 1 \in 0..N /\ m - 1 \notin T
    <3>1. m - 1 \in i..N /\ m \in 1..N /\ m - 1 \in 0..N /\ ~(m <= m - 1)
      BY <1>0, <2>3, <2>4
    <3> HIDE DEF T
    <3> QED
      BY <2>2, <3>1
  <2>6. cut[i] <= cut[m - 1]
    BY <2>5
  <2> HIDE DEF T
  <2>7. cut[m] = cut[m-1] + w(m) /\ w(m) \in Nat /\ cut[m - 1] \in Nat /\ cut[i] \in Nat
    BY <1>2, <1>3, <1>4, <2>5
  <2> QED
    BY <2>3, <2>6, <2>7
<1> QED
  BY <1>3, <1>5, <1>6 DEF cut, w, N

\* The pick falls on the position whose share holds it (selector.go:129-139).
LEMMA ChosenShare ==
  ASSUME NEW ts \in Seq(Target), NEW slice, slice \subseteq DOMAIN ts,
         NEW n \in 0..(TotalWeight(ts, slice) - 1)
  PROVE  LET cut == Cuts(ts, slice)
             c == ChooseWeighted(ts, slice, n)
         IN c \in slice /\ \A i \in slice : c = i <=> cut[i-1] <= n /\ n < cut[i]
<1> DEFINE cut == Cuts(ts, slice)
           N == Len(ts)
           First(i) == n < cut[i] /\ \A j \in slice : j < i => n >= cut[j]
           c == ChooseWeighted(ts, slice, n)
<1>1. /\ N \in Nat /\ slice \subseteq 1..N /\ cut \in [0..N -> Nat] /\ cut[0] = 0
      /\ \A i \in 1..N : i \notin slice => cut[i] = cut[i-1]
      /\ \A i \in 0..N, j \in 0..N : i <= j => cut[i] <= cut[j]
  <2>1. /\ cut \in [0..N -> Nat] /\ cut[0] = 0
        /\ \A i \in 1..N : cut[i] = cut[i-1] + (IF i \in slice THEN Weight(ts[i]) ELSE 0)
        /\ \A i \in 0..N, j \in 0..N : i <= j => cut[i] <= cut[j]
    BY CutsFacts
  <2>2. N \in Nat /\ slice \subseteq 1..N
    OBVIOUS
  <2> HIDE DEF cut, N
  <2>3. \A i \in 1..N : i - 1 \in 0..N /\ cut[i-1] \in Nat
    BY <2>1, <2>2
  <2> QED
    BY <2>1, <2>2, <2>3
<1>2. n \in Nat /\ n < cut[N]
  <2>1. n \in 0..(cut[N] - 1) /\ cut[N] \in Nat
    BY <1>1 DEF TotalWeight
  <2> QED
    BY <2>1
<1>3. c = CHOOSE i \in slice : First(i)
  BY DEF ChooseWeighted
<1> HIDE DEF cut, N, c
<1>4. \A i \in slice : i \in 1..N /\ i - 1 \in 0..N /\ i \in 0..N
  BY <1>1
<1>5. ASSUME NEW b \in 0..N, n < cut[b]
      PROVE  \E k \in slice : k <= b /\ cut[k-1] <= n /\ n < cut[k]
  <2> DEFINE T == {k \in 0..N : n < cut[k]}
  <2>1. T \in SUBSET Nat /\ b \in T
    BY <1>1, <1>5
  <2>2. PICK k \in T : \A j \in T : k <= j
    BY <2>1, Least
  <2>3. k \in 0..N /\ n < cut[k] /\ k <= b
    BY <2>1, <2>2
  <2>4. k \in 1..N /\ k - 1 \in 0..N
    BY <1>1, <1>2, <2>3
  <2>5. k - 1 \notin T
    <3>1. ~(k <= k - 1)
      BY <2>4
    <3> HIDE DEF T
    <3> QED
      BY <2>2, <3>1
  <2>6. cut[k-1] <= n
    <3>1. ~(n < cut[k-1]) /\ cut[k-1] \in Nat
      BY <1>1, <2>4, <2>5
    <3> QED
      BY <3>1, <1>2
  <2>7. k \in slice
    BY <1>1, <1>2, <2>3, <2>4, <2>6
  <2> QED
    BY <2>3, <2>6, <2>7
<1>6. ASSUME NEW i \in slice  PROVE First(i) <=> cut[i-1] <= n /\ n < cut[i]
  <2>1. ASSUME First(i)  PROVE cut[i-1] <= n
    <3> SUFFICES ASSUME n < cut[i-1]  PROVE FALSE
      BY <1>1, <1>2, <1>4
    <3>1. PICK k \in slice : k <= i - 1 /\ cut[k-1] <= n /\ n < cut[k]
      BY <1>4, <1>5
    <3>2. k < i /\ cut[k] \in Nat
      BY <1>1, <1>4, <3>1
    <3> QED
      BY <1>2, <2>1, <3>1, <3>2
  <2>2. ASSUME cut[i-1] <= n, n < cut[i]  PROVE First(i)
    <3> SUFFICES ASSUME NEW j \in slice, j < i  PROVE n >= cut[j]
      BY <2>2
    <3>1. j <= i - 1
      BY <1>4
    <3>2. cut[j] <= cut[i-1] /\ cut[j] \in Nat /\ cut[i-1] \in Nat
      BY <1>1, <1>4, <3>1
    <3> QED
      BY <1>2, <2>2, <3>2
  <2> QED
    BY <2>1, <2>2
<1>7. N \in 0..N
  BY <1>1
<1>8. \E k \in slice : First(k)
  BY <1>2, <1>5, <1>6, <1>7
<1>9. c \in slice /\ First(c)
  <2> HIDE DEF First
  <2> QED
    BY <1>3, <1>8
<1>10. ASSUME NEW i \in slice, First(i)  PROVE c = i
  <2>1. ~(c < i) /\ ~(i < c)
    <3>1. cut[i] \in Nat /\ cut[c] \in Nat
      BY <1>1, <1>4, <1>9
    <3> QED
      BY <1>2, <1>9, <1>10, <3>1
  <2>2. c \in Nat /\ i \in Nat
    BY <1>1, <1>4, <1>9
  <2> QED
    BY <2>1, <2>2
<1>11. ASSUME NEW i \in slice  PROVE c = i <=> cut[i-1] <= n /\ n < cut[i]
  <2> HIDE DEF First
  <2> QED
    BY <1>6, <1>9, <1>10
<1> QED
  BY <1>9, <1>11 DEF cut, c

\* The numbers rand.Intn may return are shared out by the weights.
LEMMA Shares ==
  ASSUME NEW ts \in Seq(Target), NEW slice, slice \subseteq DOMAIN ts, NEW i \in slice
  PROVE  Cardinality({n \in 0..(TotalWeight(ts, slice) - 1) : ChooseWeighted(ts, slice, n) = i})
           = IF ts[i].weight <= 0 THEN 1 ELSE ts[i].weight
<1> DEFINE cut == Cuts(ts, slice)
           N == Len(ts)
           P == {n \in 0..(TotalWeight(ts, slice) - 1) : ChooseWeighted(ts, slice, n) = i}
           a == cut[i-1]
           b == cut[i]
<1>1. /\ cut \in [0..N -> Nat] /\ i \in 1..N /\ N \in Nat
      /\ cut[i] = cut[i-1] + Weight(ts[i])
      /\ cut[i] <= cut[N]
  <2>1. /\ cut \in [0..N -> Nat]
        /\ \A k \in 1..N : cut[k] = cut[k-1] + (IF k \in slice THEN Weight(ts[k]) ELSE 0)
        /\ \A k \in 0..N, j \in 0..N : k <= j => cut[k] <= cut[j]
    BY CutsFacts
  <2>2. i \in 1..N /\ N \in Nat
    OBVIOUS
  <2> HIDE DEF cut, N
  <2>3. cut[i] <= cut[N]
    BY <2>1, <2>2
  <2> QED
    BY <2>1, <2>2, <2>3
<1>2. /\ a \in Nat /\ b \in Nat /\ b <= cut[N] /\ cut[N] \in Nat /\ b = a + Weight(ts[i])
      /\ TotalWeight(ts, slice) = cut[N]
  BY <1>1 DEF TotalWeight
<1>3. ts[i] \in Target
  BY <1>1
<1>4. Weight(ts[i]) \in Nat /\ Weight(ts[i]) >= 1
      /\ Weight(ts[i]) = IF ts[i].weight <= 0 THEN 1 ELSE ts[i].weight
  BY <1>3, WeightType
<1>5. \A n \in 0..(TotalWeight(ts, slice) - 1) :
        ChooseWeighted(ts, slice, n) = i <=> a <= n /\ n < b
  BY ChosenShare
<1> HIDE DEF a, b, cut, N
<1>6. P = a..(b - 1)
  BY <1>2, <1>5
<1>7. Cardinality(a..(b - 1)) = Weight(ts[i])
  <2>1. a \in Int /\ b - 1 \in Int /\ ~(a > b - 1) /\ ((b - 1) - a) + 1 = Weight(ts[i])
    BY <1>2, <1>4
  <2>2. Cardinality(a..(b - 1)) = IF a > b - 1 THEN 0 ELSE (b - 1) - a + 1
    BY <2>1, FS_Interval
  <2> QED
    BY <2>1, <2>2
<1> QED
  BY <1>4, <1>6, <1>7

-----------------------------------------------------------------------------
(* SelectTarget *)

\* The loop over a failover group (selector.go:57-62) ends with the first of
\* its targets that have the least priority.
LEMMA FirstExists ==
  ASSUME NEW N \in Nat, NEW slice, slice \subseteq 1..N, slice # {}, NEW f \in [1..N -> Int]
  PROVE  \E i \in slice : \A j \in slice : f[i] <= f[j] /\ (j < i => f[j] > f[i])
<1> DEFINE Best(m, i) == /\ i \in slice /\ i <= m
                         /\ \A j \in slice : j <= m => f[i] <= f[j] /\ (j < i => f[j] > f[i])
           T == {m \in 1..N : (\E j \in slice : j <= m) /\ ~\E i \in slice : Best(m, i)}
<1>1. T = {}
  <2> SUFFICES ASSUME T # {}  PROVE FALSE
    OBVIOUS
  <2>1. T \in SUBSET Nat
    OBVIOUS
  <2>2. PICK m \in T : \A k \in T : m <= k
    BY <2>1, Least
  <2>3. m \in 1..N /\ (\E j \in slice : j <= m) /\ ~\E i \in slice : Best(m, i)
    BY <2>2
  <2>4. m - 1 \notin T
    <3>1. ~(m <= m - 1)
      BY <2>3
    <3> HIDE DEF T
    <3> QED
      BY <2>2, <3>1
  <2>5. \A j \in slice : j \in 1..N /\ f[j] \in Int
    OBVIOUS
  <2>6. CASE \E j \in slice : j <= m - 1
    <3>1. m - 1 \in 1..N
      BY <2>3, <2>5, <2>6
    <3>2. PICK x \in slice : Best(m - 1, x)
      BY <2>4, <2>6, <3>1
    <3>3. CASE m \in slice /\ f[m] < f[x]
      <4>1. Best(m, m)
        <5>1. ASSUME NEW j \in slice, j <= m  PROVE f[m] <= f[j] /\ (j < m => f[j] > f[m])
          <6>1. j = m \/ j <= m - 1
            BY <2>3, <2>5, <5>1
          <6>2. f[m] \in Int /\ f[x] \in Int /\ f[j] \in Int /\ j \in Int /\ m \in Int
            BY <2>3, <2>5, <3>3
          <6>3. j <= m - 1 => f[x] <= f[j]
            BY <3>2
          <6> HIDE DEF Best, T
          <6> QED
            BY <3>3, <6>1, <6>2, <6>3
        <5> QED
          BY <3>3, <5>1, <2>3
      <4> QED
        BY <2>3, <3>3, <4>1
    <3>4. CASE ~(m \in slice /\ f[m] < f[x])
      <4>1. Best(m, x)
        <5>1. ASSUME NEW j \in slice, j <= m  PROVE f[x] <= f[j] /\ (j < x => f[j] > f[x])
          <6>1. j = m \/ j <= m - 1
            BY <2>3, <2>5, <5>1
          <6>2. x <= m - 1
            BY <3>2
          <6>3. f[x] \in Int /\ f[j] \in Int /\ j \in Int /\ m \in Int /\ x \in Int
            BY <2>3, <2>5
          <6>4. j <= m - 1 => f[x] <= f[j] /\ (j < x => f[j] > f[x])
            BY <3>2
          <6>5. j = m => f[x] <= f[j]
            BY <3>4, <6>3
          <6> HIDE DEF Best, T
          <6> QED
            BY <6>1, <6>2, <6>3, <6>4, <6>5
        <5>2. x <= m
          BY <3>2, <2>3, <2>5
        <5> QED
          BY <5>1, <5>2
      <4> QED
        BY <2>3, <4>1
    <3> QED
      BY <3>3, <3>4
  <2>7. CASE ~\E j \in slice : j <= m - 1
    <3>1. ASSUME NEW j \in slice, j <= m  PROVE j = m
      <4>1. j \in Int /\ m \in Int /\ ~(j <= m - 1)
        BY <2>3, <2>5, <2>7
      <4> QED
        BY <3>1, <4>1
    <3>2. m \in slice /\ Best(m, m)
      BY <2>3, <2>5, <3>1
    <3> QED
      BY <2>3, <3>2
  <2> QED
    BY <2>6, <2>7
<1>2. PICK k \in slice : TRUE
  OBVIOUS
<1>3. N \in 1..N /\ k <= N
  BY <1>2
<1>4. PICK i \in slice : Best(N, i)
  <2>1. N \notin T
    BY <1>1
  <2> QED
    BY <1>3, <2>1
<1>5. \A j \in slice : j <= N
  OBVIOUS
<1> QED
  BY <1>4, <1>5

\* The names of the groups.
Groups == {"weighted", "failover", "conditional", "other"}

\* Every target belongs to one of the four groups (selector.go).
LEMMA GroupName ==
  ASSUME NEW x
  PROVE  GroupOf(x) \in Groups
BY DEF GroupOf, Groups

\* The order lists the groups in reach, each once, by increasing rank.
OrderOK(order, s, fallback) ==
  /\ Len(order) \in Nat
  /\ \A n \in 1..Len(order) : order[n] \in Groups /\ InReach(order[n], s, fallback)
  /\ \A g \in Groups : InReach(g, s, fallback) => \E n \in 1..Len(order) : order[n] = g
  /\ \A g \in Groups : Rank(g, s) \in Nat
  /\ \A n \in 1..Len(order), m \in 1..Len(order) :
       n <= m <=> Rank(order[n], s) <= Rank(order[m], s)
  /\ \A g \in Groups, h \in Groups : Rank(g, s) = Rank(h, s) => g = h

\* So does selectionOrder's (selector.go:73-103).
LEMMA OrderFacts ==
  ASSUME NEW s, NEW fallback \in BOOLEAN
  PROVE  OrderOK(SelectionOrder(IF s = "" THEN "auto" ELSE s, fallback), s, fallback)
<1> DEFINE order == SelectionOrder(IF s = "" THEN "auto" ELSE s, fallback)
<1>1. /\ \A g \in Groups : Rank(g, s) \in Nat
      /\ \A g \in Groups, h \in Groups : Rank(g, s) = Rank(h, s) => g = h
  BY DEF Rank, Groups
<1>2. CASE s = "weighted" /\ fallback
  <2>1. order = <<"weighted", "conditional", "failover", "other">>
    BY <1>2 DEF SelectionOrder
  <2> HIDE DEF order
  <2>2. /\ Len(order) = 4
        /\ order[1] = "weighted" /\ order[2] = "conditional"
        /\ order[3] = "failover" /\ order[4] = "other"
    BY <2>1
  <2>3. \A g \in Groups :
          InReach(g, s, fallback) <=> g \in {"weighted", "conditional", "failover", "other"}
    BY <1>2 DEF InReach, Groups
  <2>4. /\ Rank("weighted", s) = 0 /\ Rank("conditional", s) = 2
        /\ Rank("failover", s) = 3 /\ Rank("other", s) = 4
    BY <1>2 DEF Rank
  <2>5. \A n \in 1..4 : n = 1 \/ n = 2 \/ n = 3 \/ n = 4
    OBVIOUS
  <2>6. \A n \in 1..Len(order) : order[n] \in Groups /\ InReach(order[n], s, fallback)
    BY <2>2, <2>3, <2>5 DEF Groups
  <2>7. \A g \in Groups : InReach(g, s, fallback) => \E n \in 1..Len(order) : order[n] = g
    BY <2>2, <2>3 DEF Groups
  <2>8. \A n \in 1..Len(order), m \in 1..Len(order) :
          n <= m <=> Rank(order[n], s) <= Rank(order[m], s)
    BY <2>2, <2>4, <2>5
  <2>9. Len(order) \in Nat
    BY <2>2
  <2> QED
    BY <1>1, <2>6, <2>7, <2>8, <2>9 DEF OrderOK, order
<1>3. CASE s = "weighted" /\ ~fallback
  <2>1. order = <<"weighted">>
    BY <1>3 DEF SelectionOrder
  <2> HIDE DEF order
  <2>2. /\ Len(order) = 1
        /\ order[1] = "weighted"
    BY <2>1
  <2>3. \A g \in Groups :
          InReach(g, s, fallback) <=> g \in {"weighted"}
    BY <1>3 DEF InReach, Groups
  <2>4. /\ Rank("weighted", s) = 0 /\ Rank("conditional", s) = 2
        /\ Rank("failover", s) = 3 /\ Rank("other", s) = 4
    BY <1>3 DEF Rank
  <2>5. \A n \in 1..1 : n = 1
    OBVIOUS
  <2>6. \A n \in 1..Len(order) : order[n] \in Groups /\ InReach(order[n], s, fallback)
    BY <2>2, <2>3, <2>5 DEF Groups
  <2>7. \A g \in Groups : InReach(g, s, fallback) => \E n \in 1..Len(order) : order[n] = g
    BY <2>2, <2>3 DEF Groups
  <2>8. \A n \in 1..Len(order), m \in 1..Len(order) :
          n <= m <=> Rank(order[n], s) <= Rank(order[m], s)
    BY <2>2, <2>4, <2>5
  <2>9. Len(order) \in Nat
    BY <2>2
  <2> QED
    BY <1>1, <2>6, <2>7, <2>8, <2>9 DEF OrderOK, order
<1>4. CASE s = "failover" /\ fallback
  <2>1. order = <<"failover", "weighted", "conditional", "other">>
    BY <1>4 DEF SelectionOrder
  <2> HIDE DEF order
  <2>2. /\ Len(order) = 4
        /\ order[1] = "failover" /\ order[2] = "weighted"
        /\ order[3] = "conditional" /\ order[4] = "other"
    BY <2>1
  <2>3. \A g \in Groups :
          InReach(g, s, fallback) <=> g \in {"failover", "weighted", "conditional", "other"}
    BY <1>4 DEF InReach, Groups
  <2>4. /\ Rank("weighted", s) = 1 /\ Rank("conditional", s) = 2
        /\ Rank("failover", s) = 0 /\ Rank("other", s) = 4
    BY <1>4 DEF Rank
  <2>5. \A n \in 1..4 : n = 1 \/ n = 2 \/ n = 3 \/ n = 4
    OBVIOUS
  <2>6. \A n \in 1..Len(order) : order[n] \in Groups /\ InReach(order[n], s, fallback)
    BY <2>2, <2>3, <2>5 DEF Groups
  <2>7. \A g \in Groups : InReach(g, s, fallback) => \E n \in 1..Len(order) : order[n] = g
    BY <2>2, <2>3 DEF Groups
  <2>8. \A n \in 1..Len(order), m \in 1..Len(order) :
          n <= m <=> Rank(order[n], s) <= Rank(order[m], s)
    BY <2>2, <2>4, <2>5
  <2>9. Len(order) \in Nat
    BY <2>2
  <2> QED
    BY <1>1, <2>6, <2>7, <2>8, <2>9 DEF OrderOK, order
<1>5. CASE s = "failover" /\ ~fallback
  <2>1. order = <<"failover">>
    BY <1>5 DEF SelectionOrder
  <2> HIDE DEF order
  <2>2. /\ Len(order) = 1
        /\ order[1] = "failover"
    BY <2>1
  <2>3. \A g \in Groups :
          InReach(g, s, fallback) <=> g \in {"failover"}
    BY <1>5 DEF InReach, Groups
  <2>4. /\ Rank("weighted", s) = 1 /\ Rank("conditional", s) = 2
        /\ Rank("failover", s) = 0 /\ Rank("other", s) = 4
    BY <1>5 DEF Rank
  <2>5. \A n \in 1..1 : n = 1
    OBVIOUS
  <2>6. \A n \in 1..Len(order) : order[n] \in Groups /\ InReach(order[n], s, fallback)
    BY <2>2, <2>3, <2>5 DEF Groups
  <2>7. \A g \in Groups : InReach(g, s, fallback) => \E n \in 1..Len(order) : order[n] = g
    BY <2>2, <2>3 DEF Groups
  <2>8. \A n \in 1..Len(order), m \in 1..Len(order) :
          n <= m <=> Rank(order[n], s) <= Rank(order[m], s)
    BY <2>2, <2>4, <2>5
  <2>9. Len(order) \in Nat
    BY <2>2
  <2> QED
    BY <1>1, <2>6, <2>7, <2>8, <2>9 DEF OrderOK, order
<1>6. CASE s \notin {"weighted", "failover"} /\ fallback
  <2>1. order = <<"conditional", "weighted", "failover", "other">>
    BY <1>6 DEF SelectionOrder
  <2> HIDE DEF order
  <2>2. /\ Len(order) = 4
        /\ order[1] = "conditional" /\ order[2] = "weighted"
        /\ order[3] = "failover" /\ order[4] = "other"
    BY <2>1
  <2>3. \A g \in Groups :
          InReach(g, s, fallback) <=> g \in {"conditional", "weighted", "failover", "other"}
    BY <1>6 DEF InReach, Groups
  <2>4. /\ Rank("weighted", s) = 1 /\ Rank("conditional", s) = 0
        /\ Rank("failover", s) = 3 /\ Rank("other", s) = 4
    BY <1>6 DEF Rank
  <2>5. \A n \in 1..4 : n = 1 \/ n = 2 \/ n = 3 \/ n = 4
    OBVIOUS
  <2>6. \A n \in 1..Len(order) : order[n] \in Groups /\ InReach(order[n], s, fallback)
    BY <2>2, <2>3, <2>5 DEF Groups
  <2>7. \A g \in Groups : InReach(g, s, fallback) => \E n \in 1..Len(order) : order[n] = g
    BY <2>2, <2>3 DEF Groups
  <2>8. \A n \in 1..Len(order), m \in 1..Len(order) :
          n <= m <=> Rank(order[n], s) <= Rank(order[m], s)
    BY <2>2, <2>4, <2>5
  <2>9. Len(order) \in Nat
    BY <2>2
  <2> QED
    BY <1>1, <2>6, <2>7, <2>8, <2>9 DEF OrderOK, order
<1>7. CASE s = "conditional" /\ ~fallback
  <2>1. order = <<"conditional">>
    BY <1>7 DEF SelectionOrder
  <2> HIDE DEF order
  <2>2. /\ Len(order) = 1
        /\ order[1] = "conditional"
    BY <2>1
  <2>3. \A g \in Groups :
          InReach(g, s, fallback) <=> g \in {"conditional"}
    BY <1>7 DEF InReach, Groups
  <2>4. /\ Rank("weighted", s) = 1 /\ Rank("conditional", s) = 0
        /\ Rank("failover", s) = 3 /\ Rank("other", s) = 4
    BY <1>7 DEF Rank
  <2>5. \A n \in 1..1 : n = 1
    OBVIOUS
  <2>6. \A n \in 1..Len(order) : order[n] \in Groups /\ InReach(order[n], s, fallback)
    BY <2>2, <2>3, <2>5 DEF Groups
  <2>7. \A g \in Groups : InReach(g, s, fallback) => \E n \in 1..Len(order) : order[n] = g
    BY <2>2, <2>3 DEF Groups
  <2>8. \A n \in 1..Len(order), m \in 1..Len(order) :
          n <= m <=> Rank(order[n], s) <= Rank(order[m], s)
    BY <2>2, <2>4, <2>5
  <2>9. Len(order) \in Nat
    BY <2>2
  <2> QED
    BY <1>1, <2>6, <2>7, <2>8, <2>9 DEF OrderOK, order
<1>8. CASE s \notin {"weighted", "failover", "conditional"} /\ ~fallback
  <2>1. order = <<"conditional", "weighted">>
    BY <1>8 DEF SelectionOrder
  <2> HIDE DEF order
  <2>2. /\ Len(order) = 2
        /\ order[1] = "conditional" /\ order[2] = "weighted"
    BY <2>1
  <2>3. \A g \in Groups :
          InReach(g, s, fallback) <=> g \in {"conditional", "weighted"}
    BY <1>8 DEF InReach, Groups
  <2>4. /\ Rank("weighted", s) = 1 /\ Rank("conditional", s) = 0
        /\ Rank("failover", s) = 3 /\ Rank("other", s) = 4
    BY <1>8 DEF Rank
  <2>5. \A n \in 1..2 : n = 1 \/ n = 2
    OBVIOUS
  <2>6. \A n \in 1..Len(order) : order[n] \in Groups /\ InReach(order[n], s, fallback)
    BY <2>2, <2>3, <2>5 DEF Groups
  <2>7. \A g \in Groups : InReach(g, s, fallback) => \E n \in 1..Len(order) : order[n] = g
    BY <2>2, <2>3 DEF Groups
  <2>8. \A n \in 1..Len(order), m \in 1..Len(order) :
          n <= m <=> Rank(order[n], s) <= Rank(order[m], s)
    BY <2>2, <2>4, <2>5
  <2>9. Len(order) \in Nat
    BY <2>2
  <2> QED
    BY <1>1, <2>6, <2>7, <2>8, <2>9 DEF OrderOK, order
<1> QED
  BY <1>2, <1>3, <1>4, <1>5, <1>6, <1>7, <1>8

\* The selector's groups, their order and the choices within them
\* (selector.go:16-141) amount to the declarative rule: a target it may return
\* is one of Choice, and it returns one just when there is a choice.
LEMMA SelectionIsChoice ==
  ASSUME NEW r \in Route, NEW ask
  PROVE  /\ \A x \in SelectTarget(r, ask) : \E i \in Choice(r, ask) : x = r.targets[i]
         /\ SelectTarget(r, ask) = {} <=> Choice(r, ask) = {}
<1> DEFINE ts == r.targets
           s == r.strategy
           N == Len(ts)
           C == Candidates(r, ask)
           order == SelectionOrder(Defaults(r).strategy, r.fallback)
           G(n) == Group(ts, C, order[n])
           tried == {n \in 1..Len(order) : G(n) # {}}
           fits == {i \in C : InReach(GroupOf(ts[i]), s, r.fallback)}
           rank(i) == Rank(GroupOf(ts[i]), s)
           Good(i) ==
             \A j \in fits :
               /\ rank(i) <= rank(j)
               /\ rank(i) = rank(j) /\ GroupOf(ts[i]) = "failover" =>
                    \/ ts[i].priority < ts[j].priority
                    \/ ts[i].priority = ts[j].priority /\ i <= j
<1>1. ts \in Seq(Target) /\ N \in Nat /\ DOMAIN ts = 1..N /\ r.fallback \in BOOLEAN
      /\ \A i \in 1..N : ts[i] \in Target /\ ts[i].priority \in Int
  <2>1. ts \in Seq(Target) /\ r.fallback \in BOOLEAN
    BY DEF Route
  <2> HIDE DEF ts
  <2>2. N \in Nat /\ DOMAIN ts = 1..N /\ \A i \in 1..N : ts[i] \in Target
    BY <2>1
  <2>3. \A x \in Target : x.priority \in Int
    BY DEF Target
  <2> HIDE DEF N
  <2> QED
    BY <2>1, <2>2, <2>3
<1>2. C \subseteq 1..N
  BY <1>1 DEF Candidates
<1>3. order = SelectionOrder(IF s = "" THEN "auto" ELSE s, r.fallback)
  <2>1. Defaults(r).strategy = IF s = "" THEN "auto" ELSE s
    BY DEF Defaults, Route
  <2> QED
    BY <2>1
<1>4. /\ Len(order) \in Nat
      /\ \A n \in 1..Len(order) : order[n] \in Groups /\ InReach(order[n], s, r.fallback)
      /\ \A g \in Groups : InReach(g, s, r.fallback) => \E n \in 1..Len(order) : order[n] = g
      /\ \A g \in Groups : Rank(g, s) \in Nat
      /\ \A n \in 1..Len(order), m \in 1..Len(order) :
           n <= m <=> Rank(order[n], s) <= Rank(order[m], s)
      /\ \A g \in Groups, h \in Groups : Rank(g, s) = Rank(h, s) => g = h
  <2>1. OrderOK(order, s, r.fallback)
    BY <1>1, <1>3, OrderFacts
  <2> HIDE DEF order, s
  <2> QED
    BY <2>1 DEF OrderOK
<1>5. Choice(r, ask) = {i \in fits : Good(i)}
  <2> DEFINE F == {i \in DOMAIN ts : LET x == ts[i] IN
                     /\ ~x.disabled /\ x.ref # None /\ MatchesConditions(x, ask)
                     /\ InReach(GroupOf(x), s, r.fallback)}
  <2>1. F = fits
    BY DEF Candidates
  <2>2. Choice(r, ask) =
          {i \in F : \A j \in F :
             /\ rank(i) <= rank(j)
             /\ rank(i) = rank(j) /\ GroupOf(ts[i]) = "failover" =>
                  \/ ts[i].priority < ts[j].priority
                  \/ ts[i].priority = ts[j].priority /\ i <= j}
    BY DEF Choice
  <2> HIDE DEF F, fits
  <2> QED
    BY <2>1, <2>2
<1>6. SelectTarget(r, ask) =
        IF tried = {} THEN {}
        ELSE LET n == CHOOSE i \in tried : \A j \in tried : i <= j
             IN IF order[n] = "failover" THEN {ts[FirstByPriority(ts, G(n))]}
                ELSE {ts[ChooseWeighted(ts, G(n), pick)] : pick \in 0..(TotalWeight(ts, G(n)) - 1)}
  BY DEF SelectTarget
<1>7. \A n : G(n) = {i \in C : GroupOf(ts[i]) = order[n]}
  BY DEF Group
<1> HIDE DEF order, C, ts, N, G, s
<1>8. \A i \in fits : i \in C /\ \E n \in tried : order[n] = GroupOf(ts[i])
  <2> SUFFICES ASSUME NEW i \in fits  PROVE \E n \in tried : order[n] = GroupOf(ts[i])
    OBVIOUS
  <2>1. GroupOf(ts[i]) \in Groups /\ i \in C
    BY GroupName
  <2>2. PICK n \in 1..Len(order) : order[n] = GroupOf(ts[i])
    BY <1>4, <2>1
  <2>3. i \in G(n)
    BY <1>7, <2>1, <2>2
  <2> QED
    BY <2>2, <2>3
<1>9. CASE tried = {}
  BY <1>5, <1>6, <1>8, <1>9
<1>10. CASE tried # {}
  <2> DEFINE n == CHOOSE i \in tried : \A j \in tried : i <= j
             slice == G(n)
  <2>1. n \in tried /\ \A j \in tried : n <= j
    <3>1. tried \in SUBSET Nat
      BY <1>4
    <3>2. \E i \in tried : \A j \in tried : i <= j
      <4> HIDE DEF tried
      <4> QED
        BY <1>10, <3>1, Least
    <3> HIDE DEF tried
    <3> QED
      BY <3>2
  <2>2. SelectTarget(r, ask) =
          IF order[n] = "failover" THEN {ts[FirstByPriority(ts, slice)]}
          ELSE {ts[ChooseWeighted(ts, slice, pick)] : pick \in 0..(TotalWeight(ts, slice) - 1)}
    BY <1>6, <1>10
  <2> HIDE DEF n
  <2>3. n \in 1..Len(order) /\ slice # {} /\ slice \subseteq C /\ slice \subseteq 1..N
        /\ \A i \in slice : GroupOf(ts[i]) = order[n]
    BY <1>2, <1>7, <2>1
  <2>4. slice \subseteq fits
    BY <1>4, <2>3
  <2>5. ASSUME NEW i \in slice, NEW j \in fits
        PROVE  rank(i) <= rank(j) /\ (rank(i) = rank(j) => j \in slice)
    <3>1. PICK m \in tried : order[m] = GroupOf(ts[j])
      BY <1>8
    <3>2. rank(i) = Rank(order[n], s) /\ rank(j) = Rank(order[m], s)
      BY <2>3, <3>1
    <3>3. m \in 1..Len(order) /\ n <= m
      BY <2>1, <3>1
    <3>4. rank(i) <= rank(j)
      BY <1>4, <2>3, <3>2, <3>3
    <3>5. rank(i) = rank(j) => GroupOf(ts[j]) = order[n]
      BY <1>4, <2>3, <3>1, <3>2, <3>3
    <3>6. j \in C
      OBVIOUS
    <3> QED
      BY <1>7, <3>4, <3>5, <3>6
  <2> HIDE DEF slice, fits
  <2>6. CASE order[n] = "failover"
    <3> DEFINE f == [i \in 1..N |-> ts[i].priority]
               b == FirstByPriority(ts, slice)
    <3>1. f \in [1..N -> Int]
      BY <1>1
    <3> HIDE DEF f
    <3>2. \E i \in slice : \A j \in slice : f[i] <= f[j] /\ (j < i => f[j] > f[i])
      BY <1>1, <2>3, <3>1, FirstExists
    <3>3. \A i \in slice : f[i] = ts[i].priority
      BY <2>3 DEF f
    <3>4. \E i \in slice : /\ \A j \in slice : ts[i].priority <= ts[j].priority
                           /\ \A j \in slice : j < i => ts[j].priority > ts[i].priority
      BY <3>2, <3>3
    <3>5. /\ b \in slice /\ \A j \in slice : ts[b].priority <= ts[j].priority
          /\ \A j \in slice : j < b => ts[j].priority > ts[b].priority
      BY <3>4 DEF FirstByPriority
    <3> HIDE DEF b
    <3>6. ASSUME NEW j \in fits, rank(b) = rank(j)
          PROVE  ts[b].priority < ts[j].priority \/ (ts[b].priority = ts[j].priority /\ b <= j)
      <4>1. j \in slice
        BY <2>5, <3>5, <3>6
      <4>2. b \in 1..N /\ j \in 1..N /\ ts[b].priority \in Int /\ ts[j].priority \in Int
        BY <1>1, <2>3, <3>5, <4>1
      <4>3. ts[b].priority <= ts[j].priority /\ (j < b => ts[j].priority > ts[b].priority)
        BY <3>5, <4>1
      <4> QED
        BY <4>2, <4>3
    <3>7. b \in Choice(r, ask)
      BY <1>5, <2>4, <2>5, <3>5, <3>6
    <3>8. SelectTarget(r, ask) = {ts[b]}
      BY <2>2, <2>6 DEF b
    <3> QED
      BY <3>7, <3>8 DEF ts
  <2>7. CASE order[n] # "failover"
    <3>1. slice \subseteq DOMAIN ts
      BY <1>1, <2>3
    <3>2. slice \subseteq Choice(r, ask)
      BY <1>5, <2>3, <2>4, <2>5, <2>7
    <3>3. \A pick \in 0..(TotalWeight(ts, slice) - 1) : ChooseWeighted(ts, slice, pick) \in slice
      BY <1>1, <3>1, ChosenShare
    <3>4. 0 \in 0..(TotalWeight(ts, slice) - 1)
      <4> DEFINE cut == Cuts(ts, slice)
      <4>1. /\ cut \in [0..Len(ts) -> Nat]
            /\ \A i \in 1..Len(ts) : cut[i] = cut[i-1] + (IF i \in slice THEN Weight(ts[i]) ELSE 0)
            /\ \A i \in 0..Len(ts), j \in 0..Len(ts) : i <= j => cut[i] <= cut[j]
        BY <1>1, CutsFacts
      <4>2. PICK i \in slice : TRUE
        BY <2>3
      <4>3. i \in 1..Len(ts) /\ Len(ts) \in Nat /\ ts[i] \in Target
        BY <1>1, <2>3 DEF N
      <4>4. Weight(ts[i]) \in Nat /\ Weight(ts[i]) >= 1
        BY <4>3, WeightType
      <4> HIDE DEF cut
      <4>5. cut[i] >= 1 /\ cut[i] <= cut[Len(ts)] /\ cut[Len(ts)] \in Nat /\ cut[i] \in Nat
        <5>1. /\ i - 1 \in 0..Len(ts) /\ i \in 0..Len(ts) /\ Len(ts) \in 0..Len(ts)
              /\ i <= Len(ts)
          BY <4>3
        <5>2. cut[i-1] \in Nat /\ cut[i] \in Nat /\ cut[Len(ts)] \in Nat
          BY <4>1, <5>1
        <5>3. cut[i] = cut[i-1] + Weight(ts[i])
          BY <4>1, <4>3
        <5>4. cut[i] <= cut[Len(ts)]
          BY <4>1, <5>1
        <5> QED
          BY <4>4, <5>2, <5>3, <5>4
      <4>6. TotalWeight(ts, slice) = cut[Len(ts)]
        BY DEF TotalWeight, cut
      <4> QED
        BY <4>5, <4>6
    <3>5. SelectTarget(r, ask) =
            {ts[ChooseWeighted(ts, slice, pick)] : pick \in 0..(TotalWeight(ts, slice) - 1)}
      BY <2>2, <2>7
    <3> QED
      BY <3>2, <3>3, <3>4, <3>5 DEF ts
  <2> QED
    BY <2>6, <2>7
<1> QED
  BY <1>9, <1>10

-----------------------------------------------------------------------------
(* The inductive invariant *)

\* What is stored has its defaults, and without a store there are no rows and
\* g.routes is the Caddyfile's.
RowsOK ==
  /\ \A id \in RouteIds : routeRows[id] # None => routeRows[id] = Defaults(routeRows[id])
  /\ ~hasStore => /\ routes = StaticTable
                  /\ \A id \in KeyIds : keyRows[id] = None
                  /\ \A x \in Refs : providerRows[x] = None

\* A request under way has seen the rows that are current.
SeenOK(t) ==
  LET ask == reqs[t].ask IN
  /\ IsFiniteSet(seen[t].routes) /\ IsFiniteSet(seen[t].keys)
  /\ \A x \in Refs : IsFiniteSet(seen[t].configs[x])
  /\ seen[t].since <= now
  /\ Active(t) =>
       /\ ask.route # None => routeRows[ask.route] \in seen[t].routes
       /\ ask.key # None => keyRows[ask.key] \in seen[t].keys
       /\ \A x \in Refs : providerRows[x] \in seen[t].configs[x]

RouteStages == {"ensure", "key", "config", "cache", "build", "static"}
TargetStages == {"config", "cache", "build", "static"}

\* The route a request works with was current, or is the Caddyfile's.
RouteOK(t) ==
  reqs[t].pc \in RouteStages =>
    /\ reqs[t].ask.route # None
    /\ reqs[t].route \in IF hasStore THEN seen[t].routes ELSE {routes[reqs[t].ask.route]}

\* A request with a target was admitted: by its route, and by its key at some
\* time since it began.
AdmittedOK(t) ==
  LET q == reqs[t] IN
  q.pc \in TargetStages =>
    /\ IF q.ask.key = None THEN q.key = None ELSE hasStore /\ q.key \in Key \cap seen[t].keys
    /\ q.key = None => ~q.route.requireKey
    /\ \E at \in seen[t].since..now : q.key # None => Usable(q.key, q.route, at)
    /\ Permitted({q.route, q.key} \ {None}, q.ask)
    /\ \E i \in Choice(q.route, q.ask) : q.target = q.route.targets[i]

\* The configuration it works with was current; it is about to be served by
\* the static provider only if none could be used.
ConfigOK(t) ==
  LET q == reqs[t] IN
  /\ q.pc \in {"ensure", "config", "cache", "build"} => hasStore
  /\ q.pc \in {"cache", "build"} => q.cfg \in seen[t].configs[q.target.ref]
  /\ q.pc = "build" => q.cfg \in Buildable
  /\ q.pc = "static" => \/ seen[t].configs[q.target.ref] \ Buildable # {}
                        \/ seen[t].faulted

\* ServedFromWindow, request by request.
ServedOK(t) ==
  LET q == reqs[t] IN
  Done(t) /\ q.status = 200 =>
    /\ IF hasStore THEN q.route \in seen[t].routes
       ELSE q.route = Defaults(StaticRoutes[q.ask.route])
    /\ q.key # None => q.key \in seen[t].keys
    /\ IF q.via = "static"
       THEN \/ seen[t].configs[q.target.ref] \ Buildable # {}
            \/ seen[t].faulted
       ELSE q.via \in seen[t].configs[q.target.ref]

RouteSource(t) == IF reqs[t].ask.route = None THEN {None}
                  ELSE IF hasStore THEN seen[t].routes ELSE {routes[reqs[t].ask.route]}
KeySource(t) == IF reqs[t].ask.key = None THEN {None} ELSE seen[t].keys

\* The answer is one that a route, a key and configurations decide each of
\* which was current at some time since the request began.
Decided(t, status, via) ==
  \E r \in RouteSource(t), k \in KeySource(t), at \in seen[t].since..now,
     cfgs \in [Refs -> Configs \cup {None}] :
    /\ \A x \in Refs : cfgs[x] \in seen[t].configs[x]
    /\ <<status, via>> \in Answers(hasStore, reqs[t].ask, r, k, cfgs, at)

\* So is every answer, disturbed or not, unless a read of the store failed.
AnswerOK(t) == Done(t) /\ ~seen[t].faulted => Decided(t, reqs[t].status, reqs[t].via)

\* All that holds of one request.
RequestOK(t) ==
  SeenOK(t) /\ RouteOK(t) /\ AdmittedOK(t) /\ ConfigOK(t) /\ ServedOK(t) /\ AnswerOK(t)

\* The invariant of the gateway.
GatewayInv == TypeOK /\ RowsOK /\ \A t \in Requests : RequestOK(t)

-----------------------------------------------------------------------------
(* Facts about the rules *)

\* RoutePolicy.Defaults (types.go:88-128) yields a route, and again the same.
LEMMA DefaultsFacts ==
  ASSUME NEW r \in Route
  PROVE  /\ Defaults(r) \in Route /\ Defaults(Defaults(r)) = Defaults(r)
         /\ Defaults(r) # None
<1>1. Defaults(r) \in Route /\ Defaults(Defaults(r)) = Defaults(r)
  BY DEF Defaults, Route, Strategies
<1> QED
  BY <1>1, GatewayAssumption DEF GatewayAssumption

\* The two statements of what the policies permit agree (resolver.go:45-67).
LEMMA PolicyAgrees ==
  ASSUME NEW r \in Route, NEW k \in Key \cup {None}, NEW ask \in Ask
  PROVE  /\ ValidateRequestPolicy(r, k, ask) = 200 <=> Permitted({r, k} \ {None}, ask)
         /\ ValidateRequestPolicy(r, k, ask) \in {200, 403}
<1>1. r # None /\ None \notin Models /\ None \notin BOOLEAN
  <2>1. None \notin Route
    BY GatewayAssumption DEF GatewayAssumption
  <2> QED
    BY <2>1, RoutePolicyAssumption DEF RoutePolicyAssumption
<1> DEFINE Fits(p) == /\ ask.model = None \/ p.allowedModels = {} \/ ask.model \in p.allowedModels
                      /\ ask.stream => p.allowStreaming \in {TRUE, None}
<1>2. ASSUME NEW p \in Route \cup Key  PROVE Allows(p, ask) <=> Fits(p)
  <2>1. p.allowStreaming \in BOOLEAN \cup {None}
    BY DEF Route, Key, Flag
  <2>2. p.allowStreaming # FALSE <=> p.allowStreaming \in {TRUE, None}
    BY <1>1, <2>1
  <2> QED
    BY <2>2 DEF Allows
<1>3. ask.model \in Models \cup {None}
  BY DEF Ask
<1>4. ASSUME NEW P  PROVE Permitted(P, ask) <=> \A p \in P : Fits(p)
  BY <1>1, <1>3 DEF Permitted
<1>5. ValidateRequestPolicy(r, k, ask) =
        IF Allows(r, ask) /\ (k # None => Allows(k, ask)) THEN 200 ELSE 403
  BY DEF ValidateRequestPolicy
<1> HIDE DEF Fits
<1>6. Permitted({r, k} \ {None}, ask) <=> Allows(r, ask) /\ (k # None => Allows(k, ask))
  BY <1>1, <1>2, <1>4
<1> QED
  BY <1>5, <1>6

\* So do the two statements of what makes a key usable (localapikey.go:10-27).
LEMMA UsableAgrees ==
  ASSUME NEW r \in Route, NEW k \in Key, NEW at \in Nat
  PROVE  /\ ValidateLocalAPIKeyForRoute(r, k, at) = 200 <=> Usable(k, r, at)
         /\ ValidateLocalAPIKeyForRoute(r, k, at) \in {200, 403}
<1>1. k.expires \in Nat
  BY DEF Key
<1> QED
  BY <1>1 DEF ValidateLocalAPIKeyForRoute, Usable

-----------------------------------------------------------------------------
(* Frames: what leaves a request's part of the invariant alone *)

\* The parts of the type invariant that speak of one request.
StageOK(t, q) ==
  /\ q.pc # "idle" => q.ask \in Asks[t]
  /\ q.pc \in {"ensure", "key", "config", "cache", "build", "static"} => q.route \in Route
  /\ q.pc \in {"config", "cache", "build", "static"} => q.target.ref \in Refs
  /\ q.pc \in {"cache", "build"} => q.cfg \in Configs

SeenType == [routes: SUBSET (Route \cup {None}), keys: SUBSET (Key \cup {None}),
             configs: [Refs -> SUBSET (Configs \cup {None})], since: Nat, faulted: BOOLEAN]

\* The set of rows a request may have read only grows, and nothing else that
\* its part of the invariant speaks of changes.
LEMMA Grows ==
  ASSUME NEW t \in Requests, RequestOK(t), reqs'[t] = reqs[t],
         hasStore' = hasStore, ~hasStore => routes' = routes,
         now \in Nat, now' \in Nat, now <= now', seen[t] \in SeenType,
         seen[t].routes \subseteq seen'[t].routes, seen[t].keys \subseteq seen'[t].keys,
         \A x \in Refs : seen[t].configs[x] \subseteq seen'[t].configs[x],
         seen'[t].since = seen[t].since, seen'[t].faulted = seen[t].faulted,
         reqs[t].pc \in TargetStages => reqs[t].target.ref \in Refs,
         ~Active(t) => seen'[t] = seen[t],
         SeenOK(t)'
  PROVE  RequestOK(t)'
<1>1. RouteOK(t)'
  BY DEF RequestOK, RouteOK
<1>2. AdmittedOK(t)'
  <2> SUFFICES ASSUME reqs[t].pc \in TargetStages  PROVE AdmittedOK(t)'
    BY DEF AdmittedOK
  <2> DEFINE q == reqs[t]
  <2>1. /\ IF q.ask.key = None THEN q.key = None ELSE hasStore /\ q.key \in Key \cap seen[t].keys
        /\ q.key = None => ~q.route.requireKey
        /\ Permitted({q.route, q.key} \ {None}, q.ask)
        /\ \E i \in Choice(q.route, q.ask) : q.target = q.route.targets[i]
    BY DEF RequestOK, AdmittedOK
  <2>2. PICK at \in seen[t].since..now : q.key # None => Usable(q.key, q.route, at)
    BY DEF RequestOK, AdmittedOK
  <2>3. at \in seen'[t].since..now'
    BY <2>2 DEF SeenType
  <2>4. \E a \in seen'[t].since..now' : q.key # None => Usable(q.key, q.route, a)
    BY <2>2, <2>3
  <2> QED
    BY <2>1, <2>4 DEF AdmittedOK
<1>3. ConfigOK(t)'
  BY DEF RequestOK, ConfigOK, TargetStages
<1>4. ServedOK(t)'
  BY DEF RequestOK, ServedOK, Done, Active
<1>5. AnswerOK(t)'
  <2> SUFFICES ASSUME Done(t), ~seen[t].faulted
               PROVE  Decided(t, reqs[t].status, reqs[t].via)'
    BY DEF AnswerOK, Done
  <2>1. seen'[t] = seen[t]
    BY DEF Done, Active
  <2>2. RouteSource(t)' = RouteSource(t) /\ KeySource(t)' = KeySource(t)
    BY <2>1 DEF RouteSource, KeySource
  <2>3. Decided(t, reqs[t].status, reqs[t].via)
    BY DEF RequestOK, AnswerOK
  <2>4. PICK r \in RouteSource(t), k \in KeySource(t), at \in seen[t].since..now,
             cfgs \in [Refs -> Configs \cup {None}] :
          /\ \A x \in Refs : cfgs[x] \in seen[t].configs[x]
          /\ <<reqs[t].status, reqs[t].via>> \in Answers(hasStore, reqs[t].ask, r, k, cfgs, at)
    BY <2>3 DEF Decided
  <2>5. at \in seen'[t].since..now'
    BY <2>4 DEF SeenType
  <2> QED
    BY <2>1, <2>2, <2>4, <2>5 DEF Decided
<1> QED
  BY <1>1, <1>2, <1>3, <1>4, <1>5 DEF RequestOK

\* The type invariant, with its parts named.
LEMMA TypeParts ==
  TypeOK <=>
    /\ now \in Nat /\ hasStore \in BOOLEAN /\ changes \in 0..MaxChanges
    /\ routeRows \in [RouteIds -> Route \cup {None}]
    /\ keyRows \in [KeyIds -> Key \cup {None}]
    /\ providerRows \in [Refs -> Configs \cup {None}]
    /\ routes \in [RouteIds -> Route \cup {None}]
    /\ cache \in [Refs -> Buildable \cup {None}]
    /\ reqs \in [Requests -> Request]
    /\ \A t \in Requests : StageOK(t, reqs[t])
    /\ seen \in [Requests -> SeenType]
BY DEF TypeOK, StageOK, SeenType

\* A step of one request keeps the invariant if it keeps that request's part.
LEMMA OneRequest ==
  ASSUME GatewayInv, NEW t \in Requests, NEW d, Step(t, d), d \in Request, StageOK(t, d),
         routes' \in [RouteIds -> Route \cup {None}], ~hasStore => routes' = routes,
         cache' \in [Refs -> Buildable \cup {None}],
         NEW s, s \in SeenType, seen' = [seen EXCEPT ![t] = s],
         reqs'[t] = d /\ seen'[t] = s => RequestOK(t)'
  PROVE  GatewayInv'
<1>1. /\ now \in Nat /\ hasStore \in BOOLEAN /\ changes \in 0..MaxChanges
      /\ routeRows \in [RouteIds -> Route \cup {None}]
      /\ keyRows \in [KeyIds -> Key \cup {None}]
      /\ providerRows \in [Refs -> Configs \cup {None}]
      /\ reqs \in [Requests -> Request]
      /\ \A u \in Requests : StageOK(u, reqs[u])
      /\ seen \in [Requests -> SeenType]
  BY TypeParts DEF GatewayInv
<1>2. /\ reqs' = [reqs EXCEPT ![t] = d]
      /\ now' = now /\ hasStore' = hasStore /\ changes' = changes
      /\ routeRows' = routeRows /\ keyRows' = keyRows /\ providerRows' = providerRows
  BY DEF Step, rows
<1>3. /\ reqs' \in [Requests -> Request] /\ seen' \in [Requests -> SeenType]
      /\ reqs'[t] = d /\ seen'[t] = s
      /\ \A u \in Requests \ {t} : reqs'[u] = reqs[u] /\ seen'[u] = seen[u]
  BY <1>1, <1>2
<1>4. TypeOK'
  <2>1. \A u \in Requests : StageOK(u, reqs'[u])
    BY <1>1, <1>3
  <2>2. (\A u \in Requests : StageOK(u, reqs[u]))'
    BY <2>1 DEF StageOK
  <2> QED
    BY <1>1, <1>2, <1>3, <2>2 DEF TypeOK, StageOK, SeenType
<1>5. RowsOK'
  BY <1>2 DEF GatewayInv, RowsOK
<1>6. ASSUME NEW u \in Requests  PROVE RequestOK(u)'
  <2>1. CASE u = t
    BY <1>3, <2>1
  <2>2. CASE u # t
    <3>1. reqs'[u] = reqs[u] /\ seen'[u] = seen[u] /\ seen[u] \in SeenType
      BY <1>1, <1>3, <2>2
    <3>2. RequestOK(u) /\ SeenOK(u)
      BY DEF GatewayInv, RequestOK
    <3>3. SeenOK(u)'
      BY <1>2, <3>1, <3>2 DEF SeenOK, Active
    <3>4. reqs[u].pc \in TargetStages => reqs[u].target.ref \in Refs
      BY <1>1 DEF StageOK, TargetStages
    <3> QED
      BY <1>1, <1>2, <3>1, <3>2, <3>3, <3>4, Grows
  <2> QED
    BY <2>1, <2>2
<1> QED
  BY <1>4, <1>5, <1>6 DEF GatewayInv

\* A request under way keeps what it asked for and what it has seen.
LEMMA UnderWay ==
  ASSUME GatewayInv, NEW t \in Requests, Active(t)
  PROVE  /\ reqs[t] \in Request /\ StageOK(t, reqs[t]) /\ seen[t] \in SeenType
         /\ reqs[t].ask \in Ask /\ reqs[t].ask \in Asks[t]
         /\ now \in Nat /\ hasStore \in BOOLEAN
         /\ routeRows \in [RouteIds -> Route \cup {None}]
         /\ keyRows \in [KeyIds -> Key \cup {None}]
         /\ providerRows \in [Refs -> Configs \cup {None}]
         /\ routes \in [RouteIds -> Route \cup {None}]
         /\ cache \in [Refs -> Buildable \cup {None}]
         /\ RowsOK /\ SeenOK(t) /\ RouteOK(t) /\ AdmittedOK(t) /\ ConfigOK(t)
         /\ now \in seen[t].since..now
<1>1. /\ reqs[t] \in Request /\ StageOK(t, reqs[t]) /\ seen[t] \in SeenType
      /\ now \in Nat /\ hasStore \in BOOLEAN
      /\ routeRows \in [RouteIds -> Route \cup {None}]
      /\ keyRows \in [KeyIds -> Key \cup {None}]
      /\ providerRows \in [Refs -> Configs \cup {None}]
      /\ routes \in [RouteIds -> Route \cup {None}]
      /\ cache \in [Refs -> Buildable \cup {None}]
  BY TypeParts DEF GatewayInv
<1>2. RowsOK /\ SeenOK(t) /\ RouteOK(t) /\ AdmittedOK(t) /\ ConfigOK(t)
  BY DEF GatewayInv, RequestOK
<1>3. reqs[t].ask \in Asks[t] /\ Asks[t] \subseteq Ask
  BY <1>1, GatewayAssumption DEF StageOK, Active, GatewayAssumption
<1>4. now \in seen[t].since..now
  BY <1>1, <1>2 DEF SeenOK, SeenType
<1> QED
  BY <1>1, <1>2, <1>3, <1>4

\* A step of a request under way, by the parts it may disturb.
LEMMA WorkStep ==
  ASSUME GatewayInv, NEW t \in Requests, Active(t), NEW d, Step(t, d),
         d \in Request, StageOK(t, d), d.ask = reqs[t].ask,
         routes' \in [RouteIds -> Route \cup {None}], ~hasStore => routes' = routes,
         cache' \in [Refs -> Buildable \cup {None}],
         seen' = seen \/ Faulted(t),
         reqs'[t] = d =>
           RouteOK(t)' /\ AdmittedOK(t)' /\ ConfigOK(t)' /\ ServedOK(t)' /\ AnswerOK(t)'
  PROVE  GatewayInv'
<1>1. seen \in [Requests -> SeenType] /\ seen[t] \in SeenType /\ SeenOK(t)
  BY TypeParts, UnderWay DEF GatewayInv
<1>2. PICK s : /\ s \in SeenType /\ seen' = [seen EXCEPT ![t] = s]
               /\ s.routes = seen[t].routes /\ s.keys = seen[t].keys
               /\ s.configs = seen[t].configs /\ s.since = seen[t].since
  <2>1. CASE seen' = seen
    <3>1. seen' = [seen EXCEPT ![t] = seen[t]]
      BY <1>1, <2>1
    <3> QED
      BY <1>1, <3>1
  <2>2. CASE Faulted(t)
    <3> DEFINE s == [seen[t] EXCEPT !.faulted = TRUE]
    <3>1. /\ s \in SeenType
          /\ s.routes = seen[t].routes /\ s.keys = seen[t].keys
          /\ s.configs = seen[t].configs /\ s.since = seen[t].since
      BY <1>1 DEF SeenType
    <3>2. seen' = [seen EXCEPT ![t] = s]
      BY <2>2 DEF Faulted
    <3> HIDE DEF s
    <3> QED
      BY <3>1, <3>2
  <2> QED
    BY <2>1, <2>2
<1>3. ASSUME reqs'[t] = d, seen'[t] = s  PROVE RequestOK(t)'
  <2>1. SeenOK(t)'
    BY <1>1, <1>2, <1>3 DEF SeenOK, Step, rows, Active
  <2> QED
    BY <1>3, <2>1 DEF RequestOK
<1> QED
  BY <1>2, <1>3, OneRequest

\* A request that is refused: only its answer is to be justified.
LEMMA RefuseStep ==
  ASSUME GatewayInv, NEW t \in Requests, Active(t),
         NEW status \in Nat \ {200}, Step(t, Refused(t, status)),
         UNCHANGED <<routes, cache>>,
         \/ seen' = seen /\ Decided(t, status, None)
         \/ Faulted(t)
  PROVE  GatewayInv'
<1> DEFINE d == Refused(t, status)
<1>0. /\ reqs[t].ask \in Ask /\ reqs[t].ask \in Asks[t] /\ seen[t] \in SeenType
      /\ routes \in [RouteIds -> Route \cup {None}] /\ cache \in [Refs -> Buildable \cup {None}]
      /\ seen \in [Requests -> SeenType]
  BY UnderWay, TypeParts DEF GatewayInv
<1>1. /\ d \in Request /\ d.pc = "done" /\ d.ask = reqs[t].ask /\ d.status = status
      /\ d.via = None
  BY <1>0 DEF Refused, Idle, Request, PCs
<1>2. Step(t, d)
  OBVIOUS
<1> HIDE DEF d
<1>3. StageOK(t, d)
  BY <1>0, <1>1 DEF StageOK
<1>4. ASSUME reqs'[t] = d
      PROVE  RouteOK(t)' /\ AdmittedOK(t)' /\ ConfigOK(t)' /\ ServedOK(t)' /\ AnswerOK(t)'
  <2>1. RouteOK(t)' /\ AdmittedOK(t)' /\ ConfigOK(t)' /\ ServedOK(t)'
    BY <1>1, <1>4 DEF RouteOK, AdmittedOK, ConfigOK, ServedOK, RouteStages, TargetStages
  <2>2. CASE seen' = seen /\ Decided(t, status, None)
    <3>1. Decided(t, status, None)'
      BY <1>1, <1>2, <1>4, <2>2 DEF Decided, Step, rows, RouteSource, KeySource
    <3>2. AnswerOK(t)'
      BY <1>1, <1>4, <3>1 DEF AnswerOK
    <3> QED
      BY <2>1, <3>2
  <2>3. CASE Faulted(t)
    <3>1. seen'[t].faulted
      BY <1>0, <2>3 DEF Faulted, SeenType
    <3> QED
      BY <2>1, <3>1 DEF AnswerOK
  <2> QED
    BY <2>2, <2>3
<1> QED
  BY <1>0, <1>1, <1>2, <1>3, <1>4, WorkStep

-----------------------------------------------------------------------------
(* Answers *)

\* Until the key is read, the rows a request has seen decide a refusal.
LEMMA EarlyAnswer ==
  ASSUME GatewayInv, NEW t \in Requests, Active(t), NEW status,
         NEW r \in RouteSource(t), NEW k \in KeySource(t),
         <<status, None>> \in Answers(hasStore, reqs[t].ask, r, k, providerRows, now)
  PROVE  Decided(t, status, None)
<1>1. /\ now \in seen[t].since..now /\ providerRows \in [Refs -> Configs \cup {None}]
      /\ SeenOK(t)
  BY UnderWay
<1>2. \A x \in Refs : providerRows[x] \in seen[t].configs[x]
  BY <1>1 DEF SeenOK
<1> QED
  BY <1>1, <1>2 DEF Decided

\* Once it has a target, the configuration decides.
LEMMA TargetAnswer ==
  ASSUME GatewayInv, NEW t \in Requests, reqs[t].pc \in TargetStages,
         NEW c \in seen[t].configs[reqs[t].target.ref], NEW status, NEW via,
         \/ c \in Buildable /\ status = 200 /\ via = c
         \/ /\ c \notin Buildable /\ reqs[t].target.ref \in StaticRefs
            /\ status = 200 /\ via = "static"
         \/ /\ c \notin Buildable /\ reqs[t].target.ref \notin StaticRefs
            /\ status = 502 /\ via = None
  PROVE  Decided(t, status, via)
<1> DEFINE q == reqs[t]
           ref == q.target.ref
           cfgs == [providerRows EXCEPT ![ref] = c]
<1>0. Active(t)
  BY DEF Active, TargetStages
<1>1. /\ StageOK(t, q) /\ seen[t] \in SeenType /\ q.ask \in Ask
      /\ providerRows \in [Refs -> Configs \cup {None}]
      /\ SeenOK(t) /\ RouteOK(t) /\ AdmittedOK(t)
  BY <1>0, UnderWay
<1>2. ref \in Refs /\ q.route \in Route /\ q.route # None
  <2>1. None \notin Route
    BY GatewayAssumption DEF GatewayAssumption
  <2> QED
    BY <1>1, <2>1 DEF StageOK, TargetStages
<1>3. cfgs \in [Refs -> Configs \cup {None}] /\ cfgs[ref] = c
      /\ \A x \in Refs : cfgs[x] \in seen[t].configs[x]
  <2>1. \A x \in Refs : providerRows[x] \in seen[t].configs[x]
    BY <1>0, <1>1 DEF SeenOK
  <2>2. c \in Configs \cup {None}
    BY <1>1, <1>2 DEF SeenType
  <2> HIDE DEF ref
  <2> QED
    BY <1>1, <1>2, <2>1, <2>2 DEF ref
<1>4. /\ IF q.ask.key = None THEN q.key = None ELSE hasStore /\ q.key \in Key \cap seen[t].keys
      /\ q.key = None => ~q.route.requireKey
      /\ Permitted({q.route, q.key} \ {None}, q.ask)
  BY <1>1 DEF AdmittedOK
<1>5. PICK at \in seen[t].since..now : q.key # None => Usable(q.key, q.route, at)
  BY <1>1 DEF AdmittedOK
<1>6. PICK i \in Choice(q.route, q.ask) : q.target = q.route.targets[i]
  BY <1>1 DEF AdmittedOK
<1>7. q.route \in RouteSource(t)
  BY <1>1 DEF RouteOK, RouteStages, TargetStages, RouteSource
<1>8. q.key \in KeySource(t) /\ (q.key = None => q.ask.key = None)
  <2>1. None \notin Key
    BY GatewayAssumption DEF GatewayAssumption
  <2> QED
    BY <1>4, <2>1 DEF KeySource
<1> DEFINE Out(j) == LET x == q.route.targets[j].ref IN
                     IF cfgs[x] \in Buildable THEN <<200, cfgs[x]>>
                     ELSE IF x \in StaticRefs THEN <<200, "static">> ELSE <<502, None>>
<1>9. Answers(hasStore, q.ask, q.route, q.key, cfgs, at) = {Out(j) : j \in Choice(q.route, q.ask)}
  BY <1>2, <1>4, <1>5, <1>6, <1>8 DEF Answers
<1>10. Out(i) = <<status, via>>
  <2>1. q.route.targets[i].ref = ref
    BY <1>6
  <2> HIDE DEF cfgs, ref
  <2> QED
    BY <1>3, <2>1 DEF ref
<1>11. <<status, via>> \in Answers(hasStore, q.ask, q.route, q.key, cfgs, at)
  <2>1. Out(i) \in {Out(j) : j \in Choice(q.route, q.ask)}
    BY <1>6
  <2> HIDE DEF Out, q
  <2> QED
    BY <1>9, <1>10, <2>1
<1> HIDE DEF cfgs
<1> QED
  BY <1>3, <1>5, <1>7, <1>8, <1>11 DEF Decided

\* A request that is served.
LEMMA ServeStep ==
  ASSUME GatewayInv, NEW t \in Requests, reqs[t].pc \in TargetStages,
         NEW via, Step(t, Served(t, via)), via \in Buildable \cup {"static"},
         UNCHANGED <<routes, seen>>, cache' \in [Refs -> Buildable \cup {None}],
         IF via = "static"
         THEN /\ reqs[t].target.ref \in StaticRefs
              /\ seen[t].configs[reqs[t].target.ref] \ Buildable # {} \/ seen[t].faulted
         ELSE via \in seen[t].configs[reqs[t].target.ref]
  PROVE  GatewayInv'
<1> DEFINE d == Served(t, via)
           q == reqs[t]
<1>0. Active(t)
  BY DEF Active, TargetStages
<1>1. /\ q \in Request /\ StageOK(t, q) /\ q.ask \in Ask /\ q.ask \in Asks[t]
      /\ routes \in [RouteIds -> Route \cup {None}]
      /\ RouteOK(t) /\ AdmittedOK(t) /\ RowsOK
  BY <1>0, UnderWay
<1>2. Buildable \subseteq Configs /\ "static" \notin Configs
  BY GatewayAssumption DEF GatewayAssumption
<1>3. /\ d \in Request /\ d.pc = "done" /\ d.ask = q.ask /\ d.status = 200 /\ d.via = via
      /\ d.route = q.route /\ d.key = q.key /\ d.target = q.target
  <2>1. via \in Configs \cup {None, "static"} /\ None \in Configs \cup {None}
    BY <1>2
  <2>2. d = [q EXCEPT !.pc = "done", !.status = 200, !.cfg = None, !.via = via]
    BY DEF Served
  <2>3. q \in Request /\ "done" \in PCs
    BY <1>1 DEF PCs
  <2> HIDE DEF d, q
  <2>4. d \in Request
    <3>1. d = [pc |-> "done", ask |-> q.ask, route |-> q.route, key |-> q.key,
               target |-> q.target, cfg |-> None, status |-> 200, via |-> via]
      BY <2>2, <2>3 DEF Request
    <3>2. /\ q.ask \in Ask \cup {None} /\ q.route \in Route \cup {None}
          /\ q.key \in Key \cup {None} /\ q.target \in Target \cup {None}
      BY <2>3 DEF Request
    <3> QED
      BY <2>1, <2>3, <3>1, <3>2 DEF Request
  <2>5. /\ d.pc = "done" /\ d.ask = q.ask /\ d.status = 200 /\ d.via = via
        /\ d.route = q.route /\ d.key = q.key /\ d.target = q.target
    BY <2>2, <2>3 DEF Request
  <2> QED
    BY <2>4, <2>5
<1>4. Step(t, d)
  OBVIOUS
<1> HIDE DEF d
<1>5. StageOK(t, d)
  BY <1>1, <1>3 DEF StageOK
<1>6. ASSUME reqs'[t] = d
      PROVE  RouteOK(t)' /\ AdmittedOK(t)' /\ ConfigOK(t)' /\ ServedOK(t)' /\ AnswerOK(t)'
  <2>1. RouteOK(t)' /\ AdmittedOK(t)' /\ ConfigOK(t)'
    BY <1>3, <1>6 DEF RouteOK, AdmittedOK, ConfigOK, RouteStages, TargetStages
  <2>2. ServedOK(t)'
    <3>1. IF hasStore THEN q.route \in seen[t].routes
          ELSE q.route = Defaults(StaticRoutes[q.ask.route])
      <4>1. /\ q.ask.route \in RouteIds /\ q.route \in Route /\ q.route # None
            /\ q.route \in IF hasStore THEN seen[t].routes ELSE {routes[q.ask.route]}
        <5>1. None \notin Route
          BY GatewayAssumption DEF GatewayAssumption
        <5> QED
          BY <1>1, <5>1 DEF RouteOK, RouteStages, TargetStages, StageOK, Ask
      <4> QED
        BY <1>1, <4>1 DEF RowsOK, StaticTable
    <3>2. q.key # None => q.key \in seen[t].keys
      BY <1>1 DEF AdmittedOK
    <3>3. hasStore' = hasStore /\ seen' = seen
      BY DEF Step
    <3>4. IF via = "static"
          THEN \/ seen[t].configs[q.target.ref] \ Buildable # {}
               \/ seen[t].faulted
          ELSE via \in seen[t].configs[q.target.ref]
      OBVIOUS
    <3> HIDE DEF q
    <3> QED
      BY <1>3, <1>6, <3>1, <3>2, <3>3, <3>4 DEF ServedOK
  <2>3. AnswerOK(t)'
    <3> SUFFICES ASSUME ~seen[t].faulted  PROVE Decided(t, 200, via)'
      BY <1>3, <1>6 DEF AnswerOK
    <3>1. Decided(t, 200, via)
      <4>1. CASE via = "static"
        <5>1. PICK c \in seen[t].configs[q.target.ref] : c \notin Buildable
          BY <4>1
        <5> QED
          BY <4>1, <5>1, TargetAnswer
      <4>2. CASE via # "static"
        BY <4>2, TargetAnswer
      <4> QED
        BY <4>1, <4>2
    <3> QED
      BY <1>3, <1>6, <3>1 DEF Decided, Step, rows, RouteSource, KeySource
  <2> QED
    BY <2>1, <2>2, <2>3
<1> QED
  BY <1>0, <1>1, <1>3, <1>4, <1>5, <1>6, WorkStep

-----------------------------------------------------------------------------
(* The steps of a request *)

\* A request that goes on with the target it has (providerresolver.go).
LEMMA MoveStep ==
  ASSUME GatewayInv, NEW t \in Requests, reqs[t].pc \in TargetStages,
         NEW p \in {"cache", "build", "static"}, NEW c \in Configs \cup {None},
         Step(t, [reqs[t] EXCEPT !.pc = p, !.cfg = c]),
         UNCHANGED <<routes, cache>>, seen' = seen \/ Faulted(t),
         p \in {"cache", "build"} =>
           hasStore /\ c \in Configs /\ c \in seen[t].configs[reqs[t].target.ref],
         p = "build" => c \in Buildable,
         p = "static" =>
           seen[t].configs[reqs[t].target.ref] \ Buildable # {} \/ seen[t].faulted \/ Faulted(t)
  PROVE  GatewayInv'
<1> DEFINE q == reqs[t]
           d == [q EXCEPT !.pc = p, !.cfg = c]
<1>0. Active(t)
  BY DEF Active, TargetStages
<1>1. /\ q \in Request /\ StageOK(t, q) /\ q.ask \in Ask /\ q.ask \in Asks[t]
      /\ routes \in [RouteIds -> Route \cup {None}] /\ cache \in [Refs -> Buildable \cup {None}]
      /\ RouteOK(t) /\ AdmittedOK(t) /\ RowsOK /\ seen[t] \in SeenType
      /\ seen \in [Requests -> SeenType]
  BY <1>0, UnderWay, TypeParts DEF GatewayInv
<1>2. p \in PCs
  BY DEF PCs
<1>4. /\ d \in Request /\ d.pc = p /\ d.ask = q.ask /\ d.route = q.route /\ d.key = q.key
      /\ d.target = q.target /\ d.cfg = c
  <2>1. q \in Request
    BY <1>1
  <2> HIDE DEF q
  <2> QED
    BY <1>2, <2>1 DEF Request
<1>5. /\ d.pc = p /\ d.ask = q.ask /\ d.route = q.route /\ d.key = q.key
      /\ d.target = q.target /\ d.cfg = c
  BY <1>4
<1>6. Step(t, d)
  OBVIOUS
<1> HIDE DEF d
<1>7. StageOK(t, d)
  BY <1>1, <1>5 DEF StageOK, TargetStages
<1>8. /\ seen'[t].routes = seen[t].routes /\ seen'[t].keys = seen[t].keys
      /\ seen'[t].configs = seen[t].configs /\ seen'[t].since = seen[t].since
      /\ seen[t].faulted \/ Faulted(t) => seen'[t].faulted
  BY <1>1 DEF Faulted, SeenType
<1>9. ASSUME reqs'[t] = d
      PROVE  RouteOK(t)' /\ AdmittedOK(t)' /\ ConfigOK(t)' /\ ServedOK(t)' /\ AnswerOK(t)'
  <2>0. now' = now /\ hasStore' = hasStore /\ routes' = routes
    BY <1>6 DEF Step
  <2>1. RouteOK(t)'
    BY <1>1, <1>5, <1>8, <1>9, <2>0 DEF RouteOK, RouteStages, TargetStages
  <2>2. AdmittedOK(t)'
    BY <1>1, <1>5, <1>8, <1>9, <2>0 DEF AdmittedOK
  <2>3. ConfigOK(t)'
    BY <1>5, <1>8, <1>9, <2>0 DEF ConfigOK
  <2>4. ServedOK(t)' /\ AnswerOK(t)'
    BY <1>5, <1>9 DEF ServedOK, AnswerOK, Done
  <2> QED
    BY <2>1, <2>2, <2>3, <2>4
<1> QED
  BY <1>0, <1>1, <1>4, <1>5, <1>6, <1>7, <1>9, WorkStep

\* Reading the provider row of the target, or failing to.
LEMMA ReadConfigInv ==
  ASSUME GatewayInv, NEW t \in Requests, ReadConfig(t) \/ ReadConfigFails(t)
  PROVE  GatewayInv'
<1> DEFINE q == reqs[t]
           row == providerRows[q.target.ref]
<1>0. q.pc = "config" /\ Active(t) /\ q.pc \in TargetStages /\ UNCHANGED <<routes, cache>>
  BY DEF ReadConfig, ReadConfigFails, Active, TargetStages
<1>1. /\ q \in Request /\ StageOK(t, q) /\ SeenOK(t) /\ ConfigOK(t)
      /\ providerRows \in [Refs -> Configs \cup {None}]
  BY <1>0, UnderWay
<1>2. q.target.ref \in Refs /\ row \in seen[t].configs[q.target.ref] /\ row \in Configs \cup {None}
      /\ hasStore
  BY <1>0, <1>1 DEF StageOK, SeenOK, ConfigOK
<1>3. q.cfg \in Configs \cup {None} /\ [q EXCEPT !.pc = "static"]
        = [q EXCEPT !.pc = "static", !.cfg = q.cfg]
  <2> HIDE DEF q
  <2> QED
    BY <1>1 DEF Request
<1>4. None \notin Buildable
  BY GatewayAssumption DEF GatewayAssumption
<1>5. CASE ReadConfig(t) /\ row = None
  <2>1. Step(t, [q EXCEPT !.pc = "static", !.cfg = q.cfg]) /\ seen' = seen
    BY <1>3, <1>5 DEF ReadConfig
  <2>2. seen[t].configs[q.target.ref] \ Buildable # {}
    BY <1>2, <1>4, <1>5
  <2> QED
    BY <1>0, <1>3, <2>1, <2>2, MoveStep
<1>6. CASE ReadConfig(t) /\ row # None
  <2>1. Step(t, [q EXCEPT !.pc = "cache", !.cfg = row]) /\ seen' = seen
    BY <1>6 DEF ReadConfig
  <2> QED
    BY <1>0, <1>2, <1>6, <2>1, MoveStep
<1>7. CASE ReadConfigFails(t)
  <2>1. Step(t, [q EXCEPT !.pc = "static", !.cfg = q.cfg]) /\ Faulted(t)
    BY <1>3, <1>7 DEF ReadConfigFails
  <2> QED
    BY <1>0, <1>3, <2>1, MoveStep
<1> QED
  BY <1>5, <1>6, <1>7

\* A cached instance serves only if its configuration is the row's.
LEMMA ReadCacheInv ==
  ASSUME GatewayInv, NEW t \in Requests, ReadCache(t)
  PROVE  GatewayInv'
<1> DEFINE q == reqs[t]
           c == cache[q.target.ref]
<1>0. q.pc = "cache" /\ Active(t) /\ q.pc \in TargetStages /\ UNCHANGED <<routes, cache, seen>>
  BY DEF ReadCache, Active, TargetStages
<1>1. /\ q \in Request /\ StageOK(t, q) /\ SeenOK(t) /\ ConfigOK(t)
      /\ cache \in [Refs -> Buildable \cup {None}]
  BY <1>0, UnderWay
<1>2. /\ q.target.ref \in Refs /\ q.cfg \in Configs /\ q.cfg \in seen[t].configs[q.target.ref]
      /\ hasStore /\ c \in Buildable \cup {None}
  BY <1>0, <1>1 DEF StageOK, SeenOK, ConfigOK
<1>3. [q EXCEPT !.pc = "static"] = [q EXCEPT !.pc = "static", !.cfg = q.cfg]
      /\ [q EXCEPT !.pc = "build"] = [q EXCEPT !.pc = "build", !.cfg = q.cfg]
  <2> HIDE DEF q
  <2> QED
    BY <1>1 DEF Request
<1>4. None \notin Configs /\ "static" \notin Configs
  BY GatewayAssumption DEF GatewayAssumption
<1>5. CASE c = q.cfg
  <2>1. Step(t, Served(t, q.cfg)) /\ q.cfg \in Buildable
    BY <1>2, <1>4, <1>5 DEF ReadCache
  <2> QED
    BY <1>0, <1>1, <1>2, <1>4, <2>1, ServeStep
<1>6. CASE c # q.cfg /\ q.cfg \in Buildable
  <2>1. Step(t, [q EXCEPT !.pc = "build", !.cfg = q.cfg])
    BY <1>3, <1>6 DEF ReadCache
  <2> QED
    BY <1>0, <1>2, <1>6, <2>1, MoveStep
<1>7. CASE c # q.cfg /\ q.cfg \notin Buildable
  <2>1. Step(t, [q EXCEPT !.pc = "static", !.cfg = q.cfg])
    BY <1>3, <1>7 DEF ReadCache
  <2> QED
    BY <1>0, <1>2, <1>7, <2>1, MoveStep
<1> QED
  BY <1>5, <1>6, <1>7

\* A fresh instance is cached and serves the request.
LEMMA WriteCacheInv ==
  ASSUME GatewayInv, NEW t \in Requests, WriteCache(t)
  PROVE  GatewayInv'
<1> DEFINE q == reqs[t]
<1>0. q.pc = "build" /\ Active(t) /\ q.pc \in TargetStages
      /\ UNCHANGED <<routes, seen>> /\ Step(t, Served(t, q.cfg))
      /\ cache' = [cache EXCEPT ![q.target.ref] = q.cfg]
  BY DEF WriteCache, Active, TargetStages
<1>1. /\ StageOK(t, q) /\ ConfigOK(t) /\ cache \in [Refs -> Buildable \cup {None}]
  BY <1>0, UnderWay
<1>2. q.cfg \in Buildable /\ q.cfg \in seen[t].configs[q.target.ref]
  BY <1>0, <1>1 DEF ConfigOK
<1>3. q.cfg # "static"
  BY <1>2, GatewayAssumption DEF GatewayAssumption
<1>4. cache' \in [Refs -> Buildable \cup {None}]
  BY <1>0, <1>1, <1>2
<1> QED
  BY <1>0, <1>2, <1>3, <1>4, ServeStep

\* The fallback to the provider of the Caddyfile.
LEMMA ResolveStaticInv ==
  ASSUME GatewayInv, NEW t \in Requests, ResolveStatic(t)
  PROVE  GatewayInv'
<1> DEFINE q == reqs[t]
<1>0. q.pc = "static" /\ Active(t) /\ q.pc \in TargetStages /\ UNCHANGED <<routes, cache, seen>>
  BY DEF ResolveStatic, Active, TargetStages
<1>1. ConfigOK(t) /\ cache \in [Refs -> Buildable \cup {None}] /\ seen \in [Requests -> SeenType]
  BY <1>0, UnderWay, TypeParts DEF GatewayInv
<1>2. seen[t].configs[q.target.ref] \ Buildable # {} \/ seen[t].faulted
  BY <1>0, <1>1 DEF ConfigOK
<1>3. CASE q.target.ref \in StaticRefs
  <2>1. Step(t, Served(t, "static"))
    BY <1>3 DEF ResolveStatic
  <2> QED
    BY <1>0, <1>1, <1>2, <1>3, <2>1, ServeStep
<1>4. CASE q.target.ref \notin StaticRefs
  <2>1. Step(t, Refused(t, 502))
    BY <1>4 DEF ResolveStatic
  <2>2. CASE seen[t].configs[q.target.ref] \ Buildable # {}
    <3>1. PICK c \in seen[t].configs[q.target.ref] : c \notin Buildable
      BY <2>2
    <3>2. Decided(t, 502, None)
      BY <1>0, <1>4, <3>1, TargetAnswer
    <3> QED
      BY <1>0, <2>1, <3>2, RefuseStep
  <2>3. CASE seen[t].faulted
    <3>1. Faulted(t)
      BY <1>0, <1>1, <2>3 DEF Faulted, SeenType
    <3> QED
      BY <1>0, <2>1, <3>1, RefuseStep
  <2> QED
    BY <1>2, <2>2, <2>3
<1> QED
  BY <1>3, <1>4

\* A key a request has seen, if it names one.
LEMMA KeyAtHand ==
  ASSUME GatewayInv, NEW t \in Requests, Active(t)
  PROVE  (IF reqs[t].ask.key = None THEN None ELSE keyRows[reqs[t].ask.key]) \in KeySource(t)
<1>1. SeenOK(t)
  BY UnderWay
<1> QED
  BY <1>1 DEF SeenOK, KeySource

\* A request without a route (agentgateway.go:181-208).
LEMMA NoRoute ==
  ASSUME GatewayInv, NEW t \in Requests, Active(t), None \in RouteSource(t),
         Step(t, Refused(t, 503)), UNCHANGED <<routes, cache, seen>>
  PROVE  GatewayInv'
<1>1. PICK k \in KeySource(t) : TRUE
  BY KeyAtHand
<1>2. <<503, None>> \in Answers(hasStore, reqs[t].ask, None, k, providerRows, now)
  BY DEF Answers
<1>3. Decided(t, 503, None)
  BY <1>1, <1>2, EarlyAnswer
<1> QED
  BY <1>3, RefuseStep

\* A request that has got its route.
LEMMA RouteStep ==
  ASSUME GatewayInv, NEW t \in Requests, Active(t), reqs[t].ask.route # None,
         NEW p \in {"ensure", "key"}, NEW r \in Route,
         r \in (IF hasStore THEN seen[t].routes ELSE {routes[reqs[t].ask.route]}),
         Step(t, [reqs[t] EXCEPT !.pc = p, !.route = r]), p = "ensure" => hasStore,
         routes' \in [RouteIds -> Route \cup {None}], ~hasStore => routes' = routes,
         UNCHANGED <<cache, seen>>
  PROVE  GatewayInv'
<1> DEFINE q == reqs[t]
           d == [q EXCEPT !.pc = p, !.route = r]
<1>1. /\ q \in Request /\ q.ask \in Ask /\ q.ask \in Asks[t]
      /\ cache \in [Refs -> Buildable \cup {None}]
  BY UnderWay
<1>2. p \in PCs
  BY DEF PCs
<1>3. d \in Request /\ d.pc = p /\ d.ask = q.ask /\ d.route = r
  <2>1. q \in Request
    BY <1>1
  <2> HIDE DEF q
  <2> QED
    BY <1>2, <2>1 DEF Request
<1>4. Step(t, d)
  OBVIOUS
<1> HIDE DEF d
<1>5. StageOK(t, d)
  BY <1>1, <1>3 DEF StageOK
<1>6. ASSUME reqs'[t] = d
      PROVE  RouteOK(t)' /\ AdmittedOK(t)' /\ ConfigOK(t)' /\ ServedOK(t)' /\ AnswerOK(t)'
  <2>1. hasStore' = hasStore
    BY <1>4 DEF Step
  <2>2. RouteOK(t)'
    BY <1>3, <1>6, <2>1 DEF RouteOK
  <2>3. AdmittedOK(t)' /\ ConfigOK(t)' /\ ServedOK(t)' /\ AnswerOK(t)'
    BY <1>3, <1>6, <2>1 DEF AdmittedOK, ConfigOK, ServedOK, AnswerOK, Done, TargetStages
  <2> QED
    BY <2>2, <2>3
<1> QED
  BY <1>1, <1>3, <1>4, <1>5, <1>6, WorkStep

\* Loading the route from its row, from the static table, or not at all.
LEMMA LoadRouteInv ==
  ASSUME GatewayInv, NEW t \in Requests,
         LoadRoute(t) \/ LoadRouteFails(t) \/ StaticRoute(t) \/ NoRouteId(t)
  PROVE  GatewayInv'
<1> DEFINE q == reqs[t]
           id == q.ask.route
<1>0. Active(t) /\ UNCHANGED <<routes, cache>>
  BY DEF LoadRoute, LoadRouteFails, StaticRoute, NoRouteId, Active
<1>1. /\ q.ask \in Ask /\ SeenOK(t) /\ RowsOK
      /\ routeRows \in [RouteIds -> Route \cup {None}]
      /\ routes \in [RouteIds -> Route \cup {None}]
  BY <1>0, UnderWay
<1>2. id \in RouteIds \cup {None}
  BY <1>1 DEF Ask
<1>3. CASE LoadRoute(t)
  <2>0. id # None /\ hasStore /\ seen' = seen
    BY <1>3 DEF LoadRoute
  <2>1. routeRows[id] \in seen[t].routes /\ routeRows[id] \in Route \cup {None}
    BY <1>0, <1>1, <1>2, <2>0 DEF SeenOK
  <2>2. CASE routeRows[id] = None
    <3>1. Step(t, Refused(t, 503))
      BY <1>3, <2>2 DEF LoadRoute
    <3>2. None \in RouteSource(t)
      BY <2>0, <2>1, <2>2 DEF RouteSource
    <3> QED
      BY <1>0, <2>0, <3>1, <3>2, NoRoute
  <2>3. CASE routeRows[id] # None
    <3>1. routeRows[id] = Defaults(routeRows[id]) /\ routeRows[id] \in Route
      BY <1>1, <1>2, <2>0, <2>1, <2>3 DEF RowsOK
    <3>2. Step(t, [q EXCEPT !.pc = "ensure", !.route = routeRows[id]])
      BY <1>3, <2>3, <3>1 DEF LoadRoute
    <3> QED
      BY <1>0, <1>1, <2>0, <2>1, <3>1, <3>2, RouteStep
  <2> QED
    BY <2>2, <2>3
<1>4. CASE LoadRouteFails(t)
  <2>1. Step(t, Refused(t, 503)) /\ Faulted(t)
    BY <1>4 DEF LoadRouteFails
  <2> QED
    BY <1>0, <2>1, RefuseStep
<1>5. CASE StaticRoute(t)
  <2>0. id # None /\ ~hasStore /\ seen' = seen
    BY <1>5 DEF StaticRoute
  <2>1. CASE routes[id] = None
    <3>1. Step(t, Refused(t, 503))
      BY <1>5, <2>1 DEF StaticRoute
    <3>2. None \in RouteSource(t)
      BY <2>0, <2>1 DEF RouteSource
    <3> QED
      BY <1>0, <2>0, <3>1, <3>2, NoRoute
  <2>2. CASE routes[id] # None
    <3>1. id \in RouteIds /\ routes[id] \in Route
      BY <1>1, <1>2, <2>0, <2>2
    <3>2. Defaults(routes[id]) = routes[id]
      <4>1. StaticRoutes[id] # None /\ routes[id] = Defaults(StaticRoutes[id])
        BY <1>1, <2>0, <2>2, <3>1 DEF RowsOK, StaticTable
      <4>2. StaticRoutes[id] \in Route
        BY <3>1, <4>1, GatewayAssumption DEF GatewayAssumption
      <4> QED
        BY <4>1, <4>2, DefaultsFacts
    <3>3. Step(t, [q EXCEPT !.pc = "key", !.route = routes[id]])
      BY <1>5, <2>2, <3>2 DEF StaticRoute
    <3> QED
      BY <1>0, <1>1, <2>0, <3>1, <3>3, RouteStep
  <2> QED
    BY <2>1, <2>2
<1>6. CASE NoRouteId(t)
  <2>1. id = None /\ Step(t, Refused(t, 503)) /\ seen' = seen
    BY <1>6 DEF NoRouteId
  <2>2. None \in RouteSource(t)
    BY <2>1 DEF RouteSource
  <2> QED
    BY <1>0, <2>1, <2>2, NoRoute
<1> QED
  BY <1>3, <1>4, <1>5, <1>6

\* EnsureRoute writes the loaded route to g.routes.
LEMMA EnsureRouteInv ==
  ASSUME GatewayInv, NEW t \in Requests, EnsureRoute(t)
  PROVE  GatewayInv'
<1> DEFINE q == reqs[t]
<1>0. /\ q.pc = "ensure" /\ Active(t) /\ UNCHANGED <<cache, seen>>
      /\ Step(t, [q EXCEPT !.pc = "key"])
      /\ routes' = [routes EXCEPT ![q.ask.route] = q.route]
  BY DEF EnsureRoute, Active
<1>1. /\ q \in Request /\ StageOK(t, q) /\ RouteOK(t) /\ ConfigOK(t)
      /\ routes \in [RouteIds -> Route \cup {None}]
  BY <1>0, UnderWay
<1>2. /\ q.route \in Route /\ hasStore /\ q.ask.route # None
      /\ q.route \in IF hasStore THEN seen[t].routes ELSE {routes[q.ask.route]}
  BY <1>0, <1>1 DEF StageOK, RouteOK, ConfigOK, RouteStages
<1>3. [q EXCEPT !.pc = "key"] = [q EXCEPT !.pc = "key", !.route = q.route]
  <2>1. q \in Request
    BY <1>1
  <2> HIDE DEF q
  <2> QED
    BY <2>1 DEF Request
<1>4. routes' \in [RouteIds -> Route \cup {None}]
  BY <1>0, <1>1, <1>2
<1> QED
  BY <1>0, <1>2, <1>3, <1>4, RouteStep

\* A target that may be chosen names a provider.
LEMMA ChoiceHasRef ==
  ASSUME NEW r \in Route, NEW ask, NEW i \in Choice(r, ask)
  PROVE  r.targets[i] \in Target /\ r.targets[i].ref \in Refs
<1>1. r.targets \in Seq(Target)
  BY DEF Route
<1>2. i \in DOMAIN r.targets /\ r.targets[i].ref # None
  BY DEF Choice
<1>3. r.targets[i] \in Target
  BY <1>1, <1>2
<1> QED
  BY <1>2, <1>3 DEF Target

\* A request that has been admitted and has a target.
LEMMA TargetStep ==
  ASSUME GatewayInv, NEW t \in Requests, reqs[t].pc = "key",
         NEW k \in Key \cup {None}, NEW x \in Target, x.ref \in Refs,
         Step(t, [reqs[t] EXCEPT !.pc = IF hasStore THEN "config" ELSE "static",
                                 !.key = k, !.target = x]),
         UNCHANGED <<routes, cache, seen>>,
         IF reqs[t].ask.key = None THEN k = None ELSE hasStore /\ k \in Key \cap seen[t].keys,
         k = None => ~reqs[t].route.requireKey,
         k # None => Usable(k, reqs[t].route, now),
         Permitted({reqs[t].route, k} \ {None}, reqs[t].ask),
         \E i \in Choice(reqs[t].route, reqs[t].ask) : x = reqs[t].route.targets[i]
  PROVE  GatewayInv'
<1> DEFINE q == reqs[t]
           p == IF hasStore THEN "config" ELSE "static"
           d == [q EXCEPT !.pc = p, !.key = k, !.target = x]
<1>0. Active(t)
  BY DEF Active
<1>1. /\ q \in Request /\ q.ask \in Ask /\ q.ask \in Asks[t] /\ StageOK(t, q)
      /\ routes \in [RouteIds -> Route \cup {None}] /\ cache \in [Refs -> Buildable \cup {None}]
      /\ SeenOK(t) /\ RouteOK(t) /\ RowsOK /\ now \in seen[t].since..now
  BY <1>0, UnderWay
<1>2. p \in {"config", "static"} /\ p \in PCs /\ (p = "config" <=> hasStore)
  BY DEF PCs
<1> HIDE DEF p
<1>3. /\ d \in Request /\ d.pc = p /\ d.ask = q.ask /\ d.route = q.route /\ d.key = k
      /\ d.target = x
  <2>1. q \in Request
    BY <1>1
  <2> HIDE DEF q
  <2> QED
    BY <1>2, <2>1 DEF Request
<1>4. Step(t, d)
  BY DEF p
<1> HIDE DEF d
<1>5. StageOK(t, d)
  BY <1>1, <1>2, <1>3 DEF StageOK
<1>6. ASSUME reqs'[t] = d
      PROVE  RouteOK(t)' /\ AdmittedOK(t)' /\ ConfigOK(t)' /\ ServedOK(t)' /\ AnswerOK(t)'
  <2>1. hasStore' = hasStore /\ now' = now /\ seen' = seen /\ routes' = routes
    BY <1>4 DEF Step
  <2>2. RouteOK(t)'
    BY <1>1, <1>3, <1>6, <2>1 DEF RouteOK, RouteStages
  <2>3. AdmittedOK(t)'
    <3>1. \E at \in seen[t].since..now : k # None => Usable(k, q.route, at)
      BY <1>1
    <3> QED
      BY <1>3, <1>6, <2>1, <3>1 DEF AdmittedOK
  <2>4. ConfigOK(t)'
    <3>1. ~hasStore => seen[t].configs[x.ref] \ Buildable # {}
      <4>1. None \notin Buildable
        BY GatewayAssumption DEF GatewayAssumption
      <4>2. providerRows[x.ref] \in seen[t].configs[x.ref]
        BY <1>0, <1>1 DEF SeenOK
      <4>3. ~hasStore => providerRows[x.ref] = None
        BY <1>1 DEF RowsOK
      <4> QED
        BY <4>1, <4>2, <4>3
    <3> QED
      BY <1>2, <1>3, <1>6, <2>1, <3>1 DEF ConfigOK
  <2>5. ServedOK(t)' /\ AnswerOK(t)'
    BY <1>2, <1>3, <1>6 DEF ServedOK, AnswerOK, Done
  <2> QED
    BY <2>2, <2>3, <2>4, <2>5
<1> QED
  BY <1>0, <1>1, <1>3, <1>4, <1>5, <1>6, WorkStep

\* resolveLocalAPIKey, ValidateRequestPolicy and SelectTarget, in the order of
\* ResolveProvider.
LEMMA AdmitInv ==
  ASSUME GatewayInv, NEW t \in Requests, Admit(t)
  PROVE  GatewayInv'
<1> DEFINE q == reqs[t]
           r == q.route
           id == q.ask.key
           k == IF id = None \/ ~hasStore THEN None ELSE keyRows[id]
           st == ResolveLocalAPIKey(r, id)
           row == IF id = None THEN None ELSE keyRows[id]
<1>0. q.pc = "key" /\ Active(t) /\ UNCHANGED <<routes, cache, seen>>
  BY DEF Admit, Active
<1>1. /\ q.ask \in Ask /\ StageOK(t, q) /\ SeenOK(t) /\ RouteOK(t) /\ RowsOK
      /\ keyRows \in [KeyIds -> Key \cup {None}] /\ now \in Nat /\ hasStore \in BOOLEAN
  BY <1>0, UnderWay
<1>2. r \in Route /\ r # None /\ None \notin Key /\ r \in RouteSource(t)
  <2>1. None \notin Route /\ None \notin Key
    BY GatewayAssumption DEF GatewayAssumption
  <2>2. r \in Route
    BY <1>0, <1>1 DEF StageOK
  <2>3. r \in RouteSource(t)
    BY <1>0, <1>1 DEF RouteOK, RouteStages, RouteSource
  <2> QED
    BY <2>1, <2>2, <2>3
<1>3. /\ id \in KeyIds \cup {None}
      /\ id # None => keyRows[id] \in Key \cup {None} /\ keyRows[id] \in seen[t].keys
      /\ id # None /\ ~hasStore => keyRows[id] = None
  <2>1. id \in KeyIds \cup {None}
    BY <1>1 DEF Ask
  <2> QED
    BY <1>0, <1>1, <2>1 DEF SeenOK, RowsOK
<1>4. k = row /\ k \in Key \cup {None} /\ k \in KeySource(t)
  BY <1>3 DEF KeySource
<1>5. /\ id = None => st = IF r.requireKey THEN 401 ELSE 200
      /\ id # None /\ ~hasStore => st = 503
      /\ id # None /\ hasStore /\ k = None => st = 401
      /\ id # None /\ hasStore /\ k # None => st = ValidateLocalAPIKeyForRoute(r, k, now)
  BY DEF ResolveLocalAPIKey
<1>6. k # None =>
        /\ ValidateLocalAPIKeyForRoute(r, k, now) = 200 <=> Usable(k, r, now)
        /\ ValidateLocalAPIKeyForRoute(r, k, now) \in {200, 403}
  BY <1>1, <1>2, <1>4, UsableAgrees
<1>7. (id = None => k = None) /\ (~hasStore => k = None)
  BY <1>4
<1>8. Admit(t) =>
        IF st # 200 THEN Step(t, Refused(t, st))
        ELSE IF ValidateRequestPolicy(r, k, q.ask) # 200 THEN Step(t, Refused(t, 403))
        ELSE IF SelectTarget(r, q.ask) = {} THEN Step(t, Refused(t, 502))
        ELSE \E x \in SelectTarget(r, q.ask) :
               Step(t, [q EXCEPT !.pc = IF hasStore THEN "config" ELSE "static",
                                 !.key = k, !.target = x])
  BY DEF Admit
<1> DEFINE A == Answers(hasStore, q.ask, r, k, providerRows, now)
<1>9. A = IF id # None /\ ~hasStore THEN {<<503, None>>}
          ELSE IF k = None /\ (r.requireKey \/ id # None) THEN {<<401, None>>}
          ELSE IF (k # None /\ ~Usable(k, r, now)) \/ ~Permitted({r, k} \ {None}, q.ask)
          THEN {<<403, None>>}
          ELSE IF Choice(r, q.ask) = {} THEN {<<502, None>>}
          ELSE {LET ref == r.targets[i].ref IN
                IF providerRows[ref] \in Buildable THEN <<200, providerRows[ref]>>
                ELSE IF ref \in StaticRefs THEN <<200, "static">> ELSE <<502, None>> :
                  i \in Choice(r, q.ask)}
  BY <1>2 DEF Answers
<1>10. ASSUME NEW status \in Nat \ {200}, <<status, None>> \in A, Step(t, Refused(t, status))
       PROVE  GatewayInv'
  <2>1. Decided(t, status, None)
    BY <1>0, <1>2, <1>4, <1>10, EarlyAnswer
  <2> QED
    BY <1>0, <1>10, <2>1, RefuseStep
<1> HIDE DEF A, k, st
<1>11. CASE st # 200
  <2>1. Step(t, Refused(t, st))
    BY <1>8, <1>11
  <2>2. st \in Nat \ {200} /\ <<st, None>> \in A
    BY <1>1, <1>5, <1>6, <1>7, <1>9, <1>11
  <2> QED
    BY <1>10, <2>1, <2>2
<1>12. ASSUME st = 200
       PROVE  /\ id # None => hasStore /\ k # None
              /\ k = None => ~r.requireKey
              /\ k # None => Usable(k, r, now)
  BY <1>1, <1>5, <1>6, <1>7, <1>12
<1>13. /\ ValidateRequestPolicy(r, k, q.ask) = 200 <=> Permitted({r, k} \ {None}, q.ask)
       /\ SelectTarget(r, q.ask) = {} <=> Choice(r, q.ask) = {}
       /\ \A x \in SelectTarget(r, q.ask) : \E i \in Choice(r, q.ask) : x = r.targets[i]
  BY <1>1, <1>2, <1>4, PolicyAgrees, SelectionIsChoice
<1>14. CASE st = 200 /\ ValidateRequestPolicy(r, k, q.ask) # 200
  <2>1. Step(t, Refused(t, 403))
    BY <1>8, <1>14
  <2>2. A = {<<403, None>>}
    BY <1>9, <1>12, <1>13, <1>14
  <2> QED
    BY <1>10, <2>1, <2>2
<1>15. CASE st = 200 /\ ValidateRequestPolicy(r, k, q.ask) = 200 /\ SelectTarget(r, q.ask) = {}
  <2>1. Step(t, Refused(t, 502))
    BY <1>8, <1>15
  <2>2. A = {<<502, None>>}
    BY <1>9, <1>12, <1>13, <1>15
  <2> QED
    BY <1>10, <2>1, <2>2
<1>16. CASE st = 200 /\ ValidateRequestPolicy(r, k, q.ask) = 200 /\ SelectTarget(r, q.ask) # {}
  <2>1. PICK x \in SelectTarget(r, q.ask) :
          Step(t, [q EXCEPT !.pc = IF hasStore THEN "config" ELSE "static",
                            !.key = k, !.target = x])
    BY <1>8, <1>16
  <2>2. PICK i \in Choice(r, q.ask) : x = r.targets[i]
    BY <1>13
  <2>3. x \in Target /\ x.ref \in Refs
    BY <1>2, <2>2, ChoiceHasRef
  <2>4. IF id = None THEN k = None ELSE hasStore /\ k \in Key \cap seen[t].keys
    BY <1>3, <1>4, <1>7, <1>12, <1>16
  <2>5. Permitted({r, k} \ {None}, q.ask)
    BY <1>13, <1>16
  <2>6. \E j \in Choice(r, q.ask) : x = r.targets[j]
    BY <2>2
  <2>7. /\ k \in Key \cup {None} /\ (k = None => ~r.requireKey)
        /\ k # None => Usable(k, r, now)
    BY <1>4, <1>12, <1>16
  <2> QED
    BY <1>0, <2>1, <2>3, <2>4, <2>5, <2>6, <2>7, TargetStep
<1> QED
  BY <1>11, <1>14, <1>15, <1>16

\* An error of the key store refuses the request.
LEMMA AdmitFailsInv ==
  ASSUME GatewayInv, NEW t \in Requests, AdmitFails(t)
  PROVE  GatewayInv'
<1>1. Active(t) /\ Step(t, Refused(t, 401)) /\ Faulted(t) /\ UNCHANGED <<routes, cache>>
  BY DEF AdmitFails, Active
<1> QED
  BY <1>1, RefuseStep

\* A request that begins has seen the rows of that moment.
LEMMA BeginInv ==
  ASSUME GatewayInv, NEW t \in Requests, NEW ask \in Asks[t], Begin(t, ask)
  PROVE  GatewayInv'
<1> DEFINE d == [Idle EXCEPT !.pc = "route", !.ask = ask]
           s == [routes |-> IF ask.route = None THEN {} ELSE {routeRows[ask.route]},
                 keys |-> IF ask.key = None THEN {} ELSE {keyRows[ask.key]},
                 configs |-> [x \in Refs |-> {providerRows[x]}],
                 since |-> now, faulted |-> FALSE]
<1>1. /\ now \in Nat /\ routeRows \in [RouteIds -> Route \cup {None}]
      /\ keyRows \in [KeyIds -> Key \cup {None}]
      /\ providerRows \in [Refs -> Configs \cup {None}]
      /\ routes \in [RouteIds -> Route \cup {None}] /\ cache \in [Refs -> Buildable \cup {None}]
  BY TypeParts DEF GatewayInv
<1>2. ask \in Ask /\ ask.route \in RouteIds \cup {None} /\ ask.key \in KeyIds \cup {None}
  <2>1. ask \in Ask
    BY GatewayAssumption DEF GatewayAssumption
  <2> QED
    BY <2>1 DEF Ask
<1>3. d \in Request /\ d.pc = "route" /\ d.ask = ask
  BY <1>2 DEF Idle, Request, PCs
<1>4. Step(t, d) /\ seen' = [seen EXCEPT ![t] = s] /\ UNCHANGED <<routes, cache>>
  BY DEF Begin
<1>5. /\ s.routes = IF ask.route = None THEN {} ELSE {routeRows[ask.route]}
      /\ s.keys = IF ask.key = None THEN {} ELSE {keyRows[ask.key]}
      /\ s.configs = [x \in Refs |-> {providerRows[x]}]
      /\ s.since = now /\ s.faulted = FALSE
  OBVIOUS
<1>6. s \in SeenType
  BY <1>1, <1>2 DEF SeenType
<1> HIDE DEF d, s
<1>7. StageOK(t, d)
  BY <1>3 DEF StageOK
<1>8. /\ IsFiniteSet(s.routes) /\ IsFiniteSet(s.keys)
      /\ \A x \in Refs : IsFiniteSet(s.configs[x])
  <2>1. IsFiniteSet({}) /\ \A x : IsFiniteSet({x})
    BY FS_EmptySet, FS_Singleton
  <2>2. \A x \in Refs : s.configs[x] = {providerRows[x]}
    BY <1>5
  <2>3. s.routes = {} \/ s.routes = {routeRows[ask.route]}
    BY <1>5
  <2>4. s.keys = {} \/ s.keys = {keyRows[ask.key]}
    BY <1>5
  <2>5. IsFiniteSet({routeRows[ask.route]}) /\ IsFiniteSet({keyRows[ask.key]})
    BY <2>1
  <2>6. \A x \in Refs : IsFiniteSet({providerRows[x]})
    BY <2>1
  <2> QED
    BY <2>1, <2>2, <2>3, <2>4, <2>5, <2>6
<1>9. ASSUME reqs'[t] = d, seen'[t] = s  PROVE RequestOK(t)'
  <2>1. now' = now /\ UNCHANGED rows /\ hasStore' = hasStore
    BY <1>4 DEF Step
  <2>2. SeenOK(t)'
    BY <1>1, <1>3, <1>5, <1>8, <1>9, <2>1 DEF SeenOK, rows
  <2>3. RouteOK(t)' /\ AdmittedOK(t)' /\ ConfigOK(t)' /\ ServedOK(t)' /\ AnswerOK(t)'
    BY <1>3, <1>9 DEF RouteOK, AdmittedOK, ConfigOK, ServedOK, AnswerOK, Done,
                      RouteStages, TargetStages
  <2> QED
    BY <2>2, <2>3 DEF RequestOK
<1> QED
  BY <1>1, <1>3, <1>4, <1>6, <1>7, <1>9, OneRequest

\* A request that has not begun has seen nothing.
LEMMA IdleFacts ==
  /\ Idle \in Request /\ Idle.pc = "idle"
  /\ Unseen \in SeenType /\ Unseen.since = 0
  /\ IsFiniteSet(Unseen.routes) /\ IsFiniteSet(Unseen.keys)
  /\ \A x \in Refs : IsFiniteSet(Unseen.configs[x])
<1>1. Idle \in Request /\ Idle.pc = "idle"
  BY DEF Idle, Request, PCs
<1>2. /\ Unseen \in SeenType /\ Unseen.since = 0 /\ Unseen.routes = {} /\ Unseen.keys = {}
      /\ \A x \in Refs : Unseen.configs[x] = {}
  BY DEF Unseen, SeenType
<1> QED
  BY <1>1, <1>2, FS_EmptySet

\* A reply forgets what the request has seen.
LEMMA ReplyInv ==
  ASSUME GatewayInv, NEW t \in Requests, Reply(t)
  PROVE  GatewayInv'
<1>1. /\ now \in Nat /\ routes \in [RouteIds -> Route \cup {None}]
      /\ cache \in [Refs -> Buildable \cup {None}]
  BY TypeParts DEF GatewayInv
<1>2. Step(t, Idle) /\ seen' = [seen EXCEPT ![t] = Unseen] /\ UNCHANGED <<routes, cache>>
  BY DEF Reply
<1>3. StageOK(t, Idle)
  BY IdleFacts DEF StageOK
<1>4. ASSUME reqs'[t] = Idle, seen'[t] = Unseen  PROVE RequestOK(t)'
  <2>1. now' = now
    BY <1>2 DEF Step
  <2>2. SeenOK(t)'
    BY <1>1, <1>4, <2>1, IdleFacts DEF SeenOK, Active
  <2>3. RouteOK(t)' /\ AdmittedOK(t)' /\ ConfigOK(t)' /\ ServedOK(t)' /\ AnswerOK(t)'
    BY <1>4, IdleFacts DEF RouteOK, AdmittedOK, ConfigOK, ServedOK, AnswerOK, Done,
                           RouteStages, TargetStages
  <2> QED
    BY <2>2, <2>3 DEF RequestOK
<1> QED
  BY <1>1, <1>2, <1>3, <1>4, IdleFacts, OneRequest

-----------------------------------------------------------------------------
(* The steps of administrators and of the clock *)

\* What an administrator's step and a tick have in common: no request moves.
LEMMA OutsideStep ==
  ASSUME GatewayInv, UNCHANGED <<hasStore, routes, cache, reqs>>,
         now' \in Nat, now <= now', changes' \in 0..MaxChanges,
         routeRows' \in [RouteIds -> Route \cup {None}],
         keyRows' \in [KeyIds -> Key \cup {None}],
         providerRows' \in [Refs -> Configs \cup {None}],
         seen' \in [Requests -> SeenType], RowsOK',
         \A t \in Requests :
           /\ seen[t].routes \subseteq seen'[t].routes /\ seen[t].keys \subseteq seen'[t].keys
           /\ \A x \in Refs : seen[t].configs[x] \subseteq seen'[t].configs[x]
           /\ seen'[t].since = seen[t].since /\ seen'[t].faulted = seen[t].faulted
           /\ ~Active(t) => seen'[t] = seen[t]
           /\ SeenOK(t)'
  PROVE  GatewayInv'
<1>1. /\ now \in Nat /\ hasStore \in BOOLEAN
      /\ routes \in [RouteIds -> Route \cup {None}] /\ cache \in [Refs -> Buildable \cup {None}]
      /\ reqs \in [Requests -> Request] /\ \A t \in Requests : StageOK(t, reqs[t])
      /\ seen \in [Requests -> SeenType]
  BY TypeParts DEF GatewayInv
<1>2. TypeOK'
  BY <1>1 DEF TypeOK, StageOK, SeenType
<1>3. ASSUME NEW t \in Requests  PROVE RequestOK(t)'
  <2>1. RequestOK(t) /\ seen[t] \in SeenType
    BY <1>1 DEF GatewayInv
  <2>2. reqs[t].pc \in TargetStages => reqs[t].target.ref \in Refs
    BY <1>1 DEF StageOK, TargetStages
  <2> QED
    BY <1>1, <2>1, <2>2, Grows
<1> QED
  BY <1>2, <1>3 DEF GatewayInv

\* The clock moves on; a key may expire by it.
LEMMA TickInv ==
  ASSUME GatewayInv, Tick
  PROVE  GatewayInv'
<1>1. /\ now \in Nat /\ changes \in 0..MaxChanges
      /\ routeRows \in [RouteIds -> Route \cup {None}]
      /\ keyRows \in [KeyIds -> Key \cup {None}]
      /\ providerRows \in [Refs -> Configs \cup {None}]
      /\ seen \in [Requests -> SeenType]
  BY TypeParts DEF GatewayInv
<1>2. now' = now + 1 /\ UNCHANGED <<hasStore, rows, routes, cache, reqs, seen, changes>>
  BY DEF Tick
<1>3. RowsOK'
  BY <1>2 DEF GatewayInv, RowsOK, rows
<1>4. \A t \in Requests : SeenOK(t)'
  <2> SUFFICES ASSUME NEW t \in Requests  PROVE SeenOK(t)'
    OBVIOUS
  <2>1. SeenOK(t) /\ seen[t].since \in Nat
    BY <1>1 DEF GatewayInv, RequestOK, SeenType
  <2>2. seen'[t].since <= now'
    BY <1>1, <1>2, <2>1 DEF SeenOK
  <2> QED
    BY <1>2, <2>1, <2>2 DEF SeenOK, Active, rows
<1> QED
  BY <1>1, <1>2, <1>3, <1>4, OutsideStep DEF rows

\* A change of a route row shows up in what the requests have seen.
LEMMA PutRouteInv ==
  ASSUME GatewayInv, NEW id \in RouteIds, NEW r \in Route \cup {None},
         r # None => r = Defaults(r), PutRoute(id, r)
  PROVE  GatewayInv'
<1>1. /\ now \in Nat /\ changes \in 0..MaxChanges /\ MaxChanges \in Nat
      /\ routeRows \in [RouteIds -> Route \cup {None}]
      /\ keyRows \in [KeyIds -> Key \cup {None}]
      /\ providerRows \in [Refs -> Configs \cup {None}]
      /\ seen \in [Requests -> SeenType]
  BY TypeParts, GatewayAssumption DEF GatewayInv, GatewayAssumption
<1>2. /\ hasStore /\ changes < MaxChanges /\ changes' = changes + 1
      /\ UNCHANGED <<now, hasStore, routes, cache, reqs, keyRows, providerRows>>
      /\ routeRows' = [routeRows EXCEPT ![id] = r] /\ RouteSeen(id, r)
  BY DEF PutRoute, Change
<1>3. changes' \in 0..MaxChanges /\ routeRows' \in [RouteIds -> Route \cup {None}]
  BY <1>1, <1>2
<1>4. RowsOK'
  BY <1>1, <1>2 DEF GatewayInv, RowsOK
<1>5. ASSUME NEW t \in Requests
      PROVE  /\ seen'[t] \in SeenType /\ seen[t].routes \subseteq seen'[t].routes
             /\ Active(t) /\ reqs[t].ask.route = id => r \in seen'[t].routes
             /\ IsFiniteSet(seen[t].routes) => IsFiniteSet(seen'[t].routes)
             /\ seen'[t].keys = seen[t].keys /\ seen'[t].configs = seen[t].configs
             /\ seen'[t].since = seen[t].since /\ seen'[t].faulted = seen[t].faulted
             /\ ~Active(t) => seen'[t] = seen[t]
  <2>0. seen[t] \in SeenType
    BY <1>1
  <2>1. CASE Active(t) /\ reqs[t].ask.route = id
    <3>1. seen'[t] = [seen[t] EXCEPT !.routes = @ \cup {r}]
      BY <1>2, <2>1 DEF RouteSeen
    <3>2. /\ seen'[t] \in SeenType /\ seen'[t].routes = seen[t].routes \cup {r}
          /\ seen'[t].keys = seen[t].keys /\ seen'[t].configs = seen[t].configs
          /\ seen'[t].since = seen[t].since /\ seen'[t].faulted = seen[t].faulted
      BY <2>0, <3>1 DEF SeenType
    <3>3. IsFiniteSet(seen[t].routes) => IsFiniteSet(seen[t].routes \cup {r})
      BY FS_AddElement
    <3> QED
      BY <2>1, <3>2, <3>3
  <2>2. CASE ~(Active(t) /\ reqs[t].ask.route = id)
    <3>1. seen'[t] = seen[t]
      BY <1>2, <2>2 DEF RouteSeen
    <3> QED
      BY <2>0, <2>2, <3>1
  <2> QED
    BY <2>1, <2>2
<1>6. seen' \in [Requests -> SeenType]
  <2>1. seen' = [t \in Requests |-> seen'[t]]
    BY <1>2 DEF RouteSeen
  <2> QED
    BY <1>5, <2>1
<1>7. ASSUME NEW t \in Requests  PROVE SeenOK(t)'
  <2>1. SeenOK(t)
    BY DEF GatewayInv, RequestOK
  <2>2. Active(t) /\ reqs[t].ask.route # None => routeRows'[reqs[t].ask.route] \in seen'[t].routes
    <3>1. reqs[t].ask.route = id => routeRows'[reqs[t].ask.route] = r
      BY <1>1, <1>2
    <3>2. reqs[t].ask.route # id => routeRows'[reqs[t].ask.route] = routeRows[reqs[t].ask.route]
      <4>1. Active(t) /\ reqs[t].ask.route # None => reqs[t].ask.route \in RouteIds
        BY UnderWay DEF Ask
      <4> QED
        BY <1>1, <1>2, <4>1
    <3> QED
      BY <1>5, <2>1, <3>1, <3>2 DEF SeenOK
  <2> QED
    BY <1>2, <1>5, <2>1, <2>2 DEF SeenOK, Active
<1> QED
  BY <1>1, <1>2, <1>3, <1>4, <1>5, <1>6, <1>7, OutsideStep

\* So does a change of a key row.
LEMMA PutKeyInv ==
  ASSUME GatewayInv, NEW id \in KeyIds, NEW k \in Key \cup {None}, PutKey(id, k)
  PROVE  GatewayInv'
<1>1. /\ now \in Nat /\ changes \in 0..MaxChanges /\ MaxChanges \in Nat
      /\ routeRows \in [RouteIds -> Route \cup {None}]
      /\ keyRows \in [KeyIds -> Key \cup {None}]
      /\ providerRows \in [Refs -> Configs \cup {None}]
      /\ seen \in [Requests -> SeenType]
  BY TypeParts, GatewayAssumption DEF GatewayInv, GatewayAssumption
<1>2. /\ hasStore /\ changes < MaxChanges /\ changes' = changes + 1
      /\ UNCHANGED <<now, hasStore, routes, cache, reqs, routeRows, providerRows>>
      /\ keyRows' = [keyRows EXCEPT ![id] = k] /\ KeySeen(id, k)
  BY DEF PutKey, Change
<1>3. changes' \in 0..MaxChanges /\ keyRows' \in [KeyIds -> Key \cup {None}]
  BY <1>1, <1>2
<1>4. RowsOK'
  BY <1>1, <1>2 DEF GatewayInv, RowsOK
<1>5. ASSUME NEW t \in Requests
      PROVE  /\ seen'[t] \in SeenType /\ seen[t].keys \subseteq seen'[t].keys
             /\ Active(t) /\ reqs[t].ask.key = id => k \in seen'[t].keys
             /\ IsFiniteSet(seen[t].keys) => IsFiniteSet(seen'[t].keys)
             /\ seen'[t].routes = seen[t].routes /\ seen'[t].configs = seen[t].configs
             /\ seen'[t].since = seen[t].since /\ seen'[t].faulted = seen[t].faulted
             /\ ~Active(t) => seen'[t] = seen[t]
  <2>0. seen[t] \in SeenType
    BY <1>1
  <2>1. CASE Active(t) /\ reqs[t].ask.key = id
    <3>1. seen'[t] = [seen[t] EXCEPT !.keys = @ \cup {k}]
      BY <1>2, <2>1 DEF KeySeen
    <3>2. /\ seen'[t] \in SeenType /\ seen'[t].keys = seen[t].keys \cup {k}
          /\ seen'[t].routes = seen[t].routes /\ seen'[t].configs = seen[t].configs
          /\ seen'[t].since = seen[t].since /\ seen'[t].faulted = seen[t].faulted
      BY <2>0, <3>1 DEF SeenType
    <3>3. IsFiniteSet(seen[t].keys) => IsFiniteSet(seen[t].keys \cup {k})
      BY FS_AddElement
    <3> QED
      BY <2>1, <3>2, <3>3
  <2>2. CASE ~(Active(t) /\ reqs[t].ask.key = id)
    <3>1. seen'[t] = seen[t]
      BY <1>2, <2>2 DEF KeySeen
    <3> QED
      BY <2>0, <2>2, <3>1
  <2> QED
    BY <2>1, <2>2
<1>6. seen' \in [Requests -> SeenType]
  <2>1. seen' = [t \in Requests |-> seen'[t]]
    BY <1>2 DEF KeySeen
  <2> QED
    BY <1>5, <2>1
<1>7. ASSUME NEW t \in Requests  PROVE SeenOK(t)'
  <2>1. SeenOK(t)
    BY DEF GatewayInv, RequestOK
  <2>2. Active(t) /\ reqs[t].ask.key # None => keyRows'[reqs[t].ask.key] \in seen'[t].keys
    <3>1. reqs[t].ask.key = id => keyRows'[reqs[t].ask.key] = k
      BY <1>1, <1>2
    <3>2. reqs[t].ask.key # id => keyRows'[reqs[t].ask.key] = keyRows[reqs[t].ask.key]
      <4>1. Active(t) /\ reqs[t].ask.key # None => reqs[t].ask.key \in KeyIds
        BY UnderWay DEF Ask
      <4> QED
        BY <1>1, <1>2, <4>1
    <3> QED
      BY <1>5, <2>1, <3>1, <3>2 DEF SeenOK
  <2> QED
    BY <1>2, <1>5, <2>1, <2>2 DEF SeenOK, Active
<1> QED
  BY <1>1, <1>2, <1>3, <1>4, <1>5, <1>6, <1>7, OutsideStep

\* And a change of a provider row.
LEMMA PutConfigInv ==
  ASSUME GatewayInv, NEW ref \in Refs, NEW c \in Configs \cup {None}, PutConfig(ref, c)
  PROVE  GatewayInv'
<1>1. /\ now \in Nat /\ changes \in 0..MaxChanges /\ MaxChanges \in Nat
      /\ routeRows \in [RouteIds -> Route \cup {None}]
      /\ keyRows \in [KeyIds -> Key \cup {None}]
      /\ providerRows \in [Refs -> Configs \cup {None}]
      /\ seen \in [Requests -> SeenType]
  BY TypeParts, GatewayAssumption DEF GatewayInv, GatewayAssumption
<1>2. /\ hasStore /\ changes < MaxChanges /\ changes' = changes + 1
      /\ UNCHANGED <<now, hasStore, routes, cache, reqs, routeRows, keyRows>>
      /\ providerRows' = [providerRows EXCEPT ![ref] = c] /\ ConfigSeen(ref, c)
  BY DEF PutConfig, Change
<1>3. changes' \in 0..MaxChanges /\ providerRows' \in [Refs -> Configs \cup {None}]
  BY <1>1, <1>2
<1>4. RowsOK'
  BY <1>1, <1>2 DEF GatewayInv, RowsOK
<1>5. ASSUME NEW t \in Requests
      PROVE  /\ seen'[t] \in SeenType
             /\ \A x \in Refs :
                  /\ seen[t].configs[x] \subseteq seen'[t].configs[x]
                  /\ IsFiniteSet(seen[t].configs[x]) => IsFiniteSet(seen'[t].configs[x])
             /\ Active(t) => c \in seen'[t].configs[ref]
             /\ seen'[t].routes = seen[t].routes /\ seen'[t].keys = seen[t].keys
             /\ seen'[t].since = seen[t].since /\ seen'[t].faulted = seen[t].faulted
             /\ ~Active(t) => seen'[t] = seen[t]
  <2>0. seen[t] \in SeenType
    BY <1>1
  <2>1. CASE Active(t)
    <3>1. seen'[t] = [seen[t] EXCEPT !.configs[ref] = @ \cup {c}]
      BY <1>2, <2>1 DEF ConfigSeen
    <3>2. /\ seen'[t] \in SeenType
          /\ seen'[t].configs = [seen[t].configs EXCEPT ![ref] = @ \cup {c}]
          /\ seen'[t].routes = seen[t].routes /\ seen'[t].keys = seen[t].keys
          /\ seen'[t].since = seen[t].since /\ seen'[t].faulted = seen[t].faulted
      BY <2>0, <3>1 DEF SeenType
    <3>3. /\ seen'[t].configs[ref] = seen[t].configs[ref] \cup {c}
          /\ \A x \in Refs \ {ref} : seen'[t].configs[x] = seen[t].configs[x]
      <4>1. seen[t].configs \in [Refs -> SUBSET (Configs \cup {None})]
        BY <2>0 DEF SeenType
      <4> QED
        BY <3>2, <4>1
    <3>4. IsFiniteSet(seen[t].configs[ref]) => IsFiniteSet(seen[t].configs[ref] \cup {c})
      BY FS_AddElement
    <3>5. ASSUME NEW x \in Refs
          PROVE  /\ seen[t].configs[x] \subseteq seen'[t].configs[x]
                 /\ IsFiniteSet(seen[t].configs[x]) => IsFiniteSet(seen'[t].configs[x])
      BY <3>3, <3>4
    <3>6. c \in seen'[t].configs[ref]
      BY <3>3
    <3> QED
      BY <2>1, <3>2, <3>5, <3>6
  <2>2. CASE ~Active(t)
    <3>1. seen'[t] = seen[t]
      BY <1>2, <2>2 DEF ConfigSeen
    <3> QED
      BY <2>0, <2>2, <3>1
  <2> QED
    BY <2>1, <2>2
<1>6. seen' \in [Requests -> SeenType]
  <2>1. seen' = [t \in Requests |-> seen'[t]]
    BY <1>2 DEF ConfigSeen
  <2> QED
    BY <1>5, <2>1
<1>7. ASSUME NEW t \in Requests  PROVE SeenOK(t)'
  <2>1. SeenOK(t)
    BY DEF GatewayInv, RequestOK
  <2>2. Active(t) => \A x \in Refs : providerRows'[x] \in seen'[t].configs[x]
    <3> SUFFICES ASSUME Active(t), NEW x \in Refs  PROVE providerRows'[x] \in seen'[t].configs[x]
      OBVIOUS
    <3>1. x = ref => providerRows'[x] = c
      BY <1>1, <1>2
    <3>2. x # ref => providerRows'[x] = providerRows[x]
      BY <1>1, <1>2
    <3>3. providerRows[x] \in seen[t].configs[x]
      BY <2>1 DEF SeenOK
    <3> QED
      BY <1>5, <3>1, <3>2, <3>3
  <2> QED
    BY <1>2, <1>5, <2>1, <2>2 DEF SeenOK, Active
<1> QED
  BY <1>1, <1>2, <1>3, <1>4, <1>5, <1>6, <1>7, OutsideStep

-----------------------------------------------------------------------------
(* The theorems *)

\* At first nothing is cached and no request is under way.
LEMMA GatewayInit ==
  ASSUME Init
  PROVE  GatewayInv
<1>1. PICK h \in (IF hasStore THEN Histories ELSE {EmptyStore}) :
        routeRows = h.routes /\ keyRows = h.keys /\ providerRows = h.configs
  BY DEF Init
<1>2. /\ now = 1 /\ hasStore \in BOOLEAN /\ changes = 0
      /\ routes = StaticTable /\ cache = [x \in Refs |-> None]
      /\ reqs = [t \in Requests |-> Idle] /\ seen = [t \in Requests |-> Unseen]
  BY DEF Init, StaticTable
<1>3. /\ routeRows \in [RouteIds -> Route \cup {None}]
      /\ keyRows \in [KeyIds -> Key \cup {None}]
      /\ providerRows \in [Refs -> Configs \cup {None}]
      /\ \A id \in RouteIds : routeRows[id] # None => routeRows[id] = Defaults(routeRows[id])
      /\ ~hasStore => /\ \A id \in KeyIds : keyRows[id] = None
                      /\ \A x \in Refs : providerRows[x] = None
  <2>1. CASE hasStore
    <3>1. h \in Histories
      BY <2>1
    <3>2. h \in [routes: [RouteIds -> Route \cup {None}], keys: [KeyIds -> Key \cup {None}],
                 configs: [Refs -> Configs \cup {None}]]
          /\ \A id \in RouteIds : h.routes[id] # None => h.routes[id] = Defaults(h.routes[id])
      BY <3>1, GatewayAssumption DEF GatewayAssumption
    <3> QED
      BY <1>1, <2>1, <3>2
  <2>2. CASE ~hasStore
    <3>1. h = EmptyStore
      BY <2>2
    <3>2. /\ routeRows = [id \in RouteIds |-> None] /\ keyRows = [id \in KeyIds |-> None]
          /\ providerRows = [x \in Refs |-> None]
      BY <1>1, <3>1 DEF EmptyStore
    <3> QED
      BY <2>2, <3>2
  <2> QED
    BY <2>1, <2>2
<1>4. RowsOK
  BY <1>2, <1>3 DEF RowsOK
<1>5. StaticTable \in [RouteIds -> Route \cup {None}]
  <2>1. \A id \in RouteIds : StaticRoutes[id] \in Route \cup {None}
    BY GatewayAssumption DEF GatewayAssumption
  <2>2. \A id \in RouteIds : StaticRoutes[id] # None => Defaults(StaticRoutes[id]) \in Route
    BY <2>1, DefaultsFacts
  <2> QED
    BY <2>2 DEF StaticTable
<1>6. \A t \in Requests : reqs[t] = Idle /\ seen[t] = Unseen
  BY <1>2
<1>7. TypeOK
  <2>1. MaxChanges \in Nat
    BY GatewayAssumption DEF GatewayAssumption
  <2>2. \A t \in Requests : StageOK(t, reqs[t])
    BY <1>6, IdleFacts DEF StageOK
  <2>3. reqs \in [Requests -> Request] /\ seen \in [Requests -> SeenType]
    BY <1>2, IdleFacts
  <2>4. now \in Nat /\ changes \in 0..MaxChanges /\ cache \in [Refs -> Buildable \cup {None}]
    BY <1>2, <2>1
  <2> QED
    BY <1>2, <1>3, <1>5, <2>2, <2>3, <2>4, TypeParts
<1>8. ASSUME NEW t \in Requests  PROVE RequestOK(t)
  <2>1. reqs[t].pc = "idle"
    BY <1>6, IdleFacts
  <2>2. SeenOK(t)
    BY <1>2, <1>6, IdleFacts DEF SeenOK, Active
  <2>3. RouteOK(t) /\ AdmittedOK(t) /\ ConfigOK(t) /\ ServedOK(t) /\ AnswerOK(t)
    BY <2>1 DEF RouteOK, AdmittedOK, ConfigOK, ServedOK, AnswerOK, Done,
                RouteStages, TargetStages
  <2> QED
    BY <2>2, <2>3 DEF RequestOK
<1> QED
  BY <1>4, <1>7, <1>8 DEF GatewayInv

\* Every handler of the admin API writes one row.
LEMMA AdminInv ==
  ASSUME GatewayInv, AdminStep
  PROVE  GatewayInv'
<1>1. ASSUME NEW r \in RouteInputs, CreateRoute(r) \/ UpdateRoute(r) \/ DeleteRoute(r.id)
      PROVE  GatewayInv'
  <2>1. r \in Route /\ r.id \in RouteIds
    BY GatewayAssumption DEF GatewayAssumption, Route
  <2>2. PutRoute(r.id, Defaults(r)) \/ PutRoute(r.id, None)
    BY <1>1 DEF CreateRoute, UpdateRoute, DeleteRoute
  <2>3. Defaults(r) \in Route \cup {None} /\ Defaults(r) = Defaults(Defaults(r))
    BY <2>1, DefaultsFacts
  <2>4. PutRoute(r.id, Defaults(r)) => GatewayInv'
    BY <2>1, <2>3, PutRouteInv
  <2>5. PutRoute(r.id, None) => GatewayInv'
    BY <2>1, PutRouteInv
  <2> QED
    BY <2>2, <2>4, <2>5
<1>2. ASSUME NEW k \in KeyInputs,
             CreateLocalAPIKey(k) \/ UpdateLocalAPIKey(k) \/ DeleteLocalAPIKey(k.id)
      PROVE  GatewayInv'
  <2>1. k \in Key /\ k.id \in KeyIds
    BY GatewayAssumption DEF GatewayAssumption, Key
  <2>2. PutKey(k.id, k) \/ PutKey(k.id, None)
    BY <1>2 DEF CreateLocalAPIKey, UpdateLocalAPIKey, DeleteLocalAPIKey
  <2> QED
    BY <2>1, <2>2, PutKeyInv
<1>3. ASSUME NEW x \in Refs, NEW c \in ConfigInputs[x], CreateProvider(x, c) \/ UpdateProvider(x, c)
      PROVE  GatewayInv'
  <2>1. c \in Configs \cup {None}
    BY GatewayAssumption DEF GatewayAssumption
  <2>2. PutConfig(x, c)
    BY <1>3 DEF CreateProvider, UpdateProvider
  <2> QED
    BY <2>1, <2>2, PutConfigInv
<1>4. ASSUME NEW x \in Refs, DeleteProvider(x)  PROVE GatewayInv'
  <2>1. PutConfig(x, None)
    BY <1>4 DEF DeleteProvider
  <2> QED
    BY <2>1, PutConfigInv
<1> QED
  BY <1>1, <1>2, <1>3, <1>4 DEF AdminStep

\* Every step keeps the invariant.
LEMMA GatewayNext ==
  ASSUME GatewayInv, [Next]_vars
  PROVE  GatewayInv'
<1>1. CASE AdminStep
  BY <1>1, AdminInv
<1>2. CASE \E t \in Requests : \E ask \in Asks[t] : Begin(t, ask)
  BY <1>2, BeginInv
<1>3. ASSUME NEW t \in Requests, RequestStep(t)  PROVE GatewayInv'
  BY <1>3, LoadRouteInv, EnsureRouteInv, AdmitInv, AdmitFailsInv, ReadConfigInv, ReadCacheInv,
     WriteCacheInv, ResolveStaticInv, ReplyInv DEF RequestStep
<1>4. CASE Tick
  BY <1>4, TickInv
<1>5. CASE UNCHANGED vars
  <2>1. UNCHANGED <<now, hasStore, rows, routes, cache, reqs, seen, changes>>
    BY <1>5 DEF vars
  <2>2. TypeOK' /\ RowsOK'
    BY <2>1 DEF GatewayInv, TypeOK, RowsOK, rows
  <2>3. ASSUME NEW t \in Requests  PROVE RequestOK(t)'
    <3>1. RequestOK(t)
      BY DEF GatewayInv
    <3>2. SeenOK(t)' /\ RouteOK(t)' /\ AdmittedOK(t)' /\ ConfigOK(t)' /\ ServedOK(t)'
      BY <2>1, <3>1
         DEF RequestOK, SeenOK, RouteOK, AdmittedOK, ConfigOK, ServedOK, Done, Active, rows
    <3>3. AnswerOK(t)'
      BY <2>1, <3>1 DEF RequestOK, AnswerOK, Decided, RouteSource, KeySource, Done
    <3> QED
      BY <3>2, <3>3 DEF RequestOK
  <2> QED
    BY <2>2, <2>3 DEF GatewayInv
<1> QED
  BY <1>1, <1>2, <1>3, <1>4, <1>5 DEF Next

\* The inductive invariant holds throughout.
LEMMA GatewayInvariant == Spec => []GatewayInv
<1>1. Init => GatewayInv
  BY GatewayInit
<1>2. GatewayInv /\ [Next]_vars => GatewayInv'
  BY GatewayNext
<1> QED
  BY <1>1, <1>2, PTL DEF Spec

\* What every stage of a request has got is of the type the next one reads.
THEOREM GatewayTypeCorrect == Spec => []TypeOK
<1>1. GatewayInv => TypeOK
  BY DEF GatewayInv
<1> QED
  BY <1>1, GatewayInvariant, PTL

\* A request is served by the route, the key and the configuration of rows
\* that were current at some time since it began, whatever is in g.routes and
\* in the cache (ResolveProvider, agentgateway.go:140-179).
THEOREM AlwaysServedFromWindow == Spec => []ServedFromWindow
<1>1. GatewayInv => ServedFromWindow
  BY DEF GatewayInv, RequestOK, ServedOK, ServedFromWindow
<1> QED
  BY <1>1, GatewayInvariant, PTL

\* A set of at most one element that has a member is that member.
LEMMA OnlyMember ==
  ASSUME NEW S, IsFiniteSet(S), Cardinality(S) <= 1, NEW x \in S
  PROVE  The(S) = x
<1>1. Cardinality(S) \in Nat /\ S # {}
  BY FS_CardinalityType
<1>2. Cardinality(S) # 0
  BY <1>1, FS_EmptySet
<1>3. Cardinality(S) = 1
  BY <1>1, <1>2
<1>4. \E y : S = {y}
  BY <1>3, FS_Singleton
<1> QED
  BY <1>4 DEF The

\* A request that met no change and no fault gets the answer its rows and the
\* Caddyfile alone decide, at a moment since it began, unless the store hides
\* its static route (ResolveProvider, agentgateway.go:140-213).
THEOREM OutcomeAlwaysDecided == Spec => []OutcomeIsDecided
<1>1. ASSUME GatewayInv  PROVE OutcomeIsDecided
  <2> SUFFICES ASSUME NEW t \in Requests, Done(t), Undisturbed(t), ~HiddenByStore(t)
               PROVE  DecidedByRows(t)
    BY DEF OutcomeIsDecided
  <2> DEFINE q == reqs[t]
             r == DocumentedRoute(t)
             k == IF q.ask.key = None THEN None ELSE The(seen[t].keys)
             cfgs == [x \in Refs |-> The(seen[t].configs[x])]
  <2>1. /\ IsFiniteSet(seen[t].routes) /\ IsFiniteSet(seen[t].keys)
        /\ \A x \in Refs : IsFiniteSet(seen[t].configs[x])
        /\ Cardinality(seen[t].routes) <= 1 /\ Cardinality(seen[t].keys) <= 1
        /\ \A x \in Refs : Cardinality(seen[t].configs[x]) <= 1
    BY <1>1 DEF GatewayInv, RequestOK, SeenOK, Undisturbed
  <2>2. PICK r0 \in RouteSource(t), k0 \in KeySource(t), at \in seen[t].since..now,
             c0 \in [Refs -> Configs \cup {None}] :
          /\ \A x \in Refs : c0[x] \in seen[t].configs[x]
          /\ <<q.status, q.via>> \in Answers(hasStore, q.ask, r0, k0, c0, at)
    BY <1>1 DEF GatewayInv, RequestOK, AnswerOK, Decided, Undisturbed
  <2>3. r0 = r
    <3>1. CASE q.ask.route = None
      BY <2>2, <3>1 DEF RouteSource, DocumentedRoute
    <3>2. CASE q.ask.route # None /\ ~hasStore
      <4>1. r0 = StaticTable[q.ask.route]
        BY <1>1, <2>2, <3>2 DEF RouteSource, GatewayInv, RowsOK
      <4> QED
        BY <3>2, <4>1 DEF DocumentedRoute
    <3>3. CASE q.ask.route # None /\ hasStore
      <4>1. r0 \in seen[t].routes /\ r0 = The(seen[t].routes)
        BY <2>1, <2>2, <3>3, OnlyMember DEF RouteSource
      <4>2. r0 = None => StaticTable[q.ask.route] = None
        BY <3>3, <4>1 DEF HiddenByStore
      <4> QED
        BY <3>3, <4>1, <4>2 DEF DocumentedRoute
    <3> QED
      BY <3>1, <3>2, <3>3
  <2>4. k0 = k
    BY <2>1, <2>2, OnlyMember DEF KeySource
  <2>5. c0 = cfgs
    <3>1. \A x \in Refs : c0[x] = The(seen[t].configs[x])
      BY <2>1, <2>2, OnlyMember
    <3> QED
      BY <2>2, <3>1
  <2>6. <<q.status, q.via>> \in Answers(hasStore, q.ask, r, k, cfgs, at)
    <3> HIDE DEF r, k, cfgs
    <3> QED
      BY <2>2, <2>3, <2>4, <2>5
  <2> QED
    BY <2>2, <2>6 DEF DecidedByRows
<1> QED
  BY <1>1, GatewayInvariant, PTL

\* Every target of a weighted group gets its weight's share of the numbers
\* rand.Intn may return (chooseWeighted, selector.go:112-141).
THEOREM WeightsAreAlwaysShares == Spec => []WeightsAreShares
<1>1. ASSUME TypeOK  PROVE WeightsAreShares
  <2> SUFFICES ASSUME NEW id \in RouteIds, NEW g, routes[id] # None
               PROVE  LET ts == routes[id].targets
                          slice == Group(ts, DOMAIN ts, g)
                      IN \A i \in slice :
                           Cardinality({n \in 0..(TotalWeight(ts, slice) - 1) :
                                          ChooseWeighted(ts, slice, n) = i})
                             = IF ts[i].weight <= 0 THEN 1 ELSE ts[i].weight
    BY DEF WeightsAreShares
  <2> DEFINE ts == routes[id].targets
             slice == Group(ts, DOMAIN ts, g)
  <2>1. ts \in Seq(Target)
    BY <1>1 DEF TypeOK, Route
  <2>2. slice \subseteq DOMAIN ts
    BY DEF Group
  <2> HIDE DEF ts, slice
  <2>3. \A i \in slice :
          Cardinality({n \in 0..(TotalWeight(ts, slice) - 1) : ChooseWeighted(ts, slice, n) = i})
            = IF ts[i].weight <= 0 THEN 1 ELSE ts[i].weight
    BY <2>1, <2>2, Shares
  <2> QED
    BY <2>3 DEF ts, slice
<1> QED
  BY <1>1, GatewayTypeCorrect, PTL
=============================================================================
