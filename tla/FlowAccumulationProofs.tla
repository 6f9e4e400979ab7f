----------------------- MODULE FlowAccumulationProofs -----------------------
(***************************************************************************)
(* Proofs about what the accumulators hold, for every set of frames that a *)
(* capture can consist of and every order in which they come.  Each        *)
(* running value is described by the packets that it was made from (the    *)
(* definitions ending in Of), the empty value by none; each update is      *)
(* shown to carry the description over to one more packet, and Held is the *)
(* description of a whole state.                                           *)
(***************************************************************************)
EXTENDS FlowAccumulation, InductionLemmas, FiniteSetTheorems, SequenceTheorems, TLAPS

-----------------------------------------------------------------------------
(* The squares of the values of pairs.                                     *)
LEMMA SumOfSquares ==
    ASSUME NEW S, IsFiniteSet(S), \A x \in S : x[2] \in Int
    PROVE  MapThenSumSet(LAMBDA x : x[2] * x[2], S) = SumOf([x \in S |-> x[2] * x[2]], S)
<1> DEFINE g == [x \in S |-> x[2] * x[2]]
<1>0. \A x \in S : g[x] \in Int
  <2> SUFFICES ASSUME NEW x \in S PROVE x[2] * x[2] \in Int OBVIOUS
  <2>1. PICK v : v = x[2] OBVIOUS
  <2>2. v \in Int BY <2>1
  <2>3. v * v \in Int BY <2>2
  <2> QED BY <2>1, <2>3
<1>1. PICK h \in [SUBSET S -> Int] : Sums(h, g, S)
  <2> HIDE DEF g
  <2> QED BY <1>0, SumsExist
<1>3. \A s \in SUBSET S : s # {} => g[Pick(s)] = (Pick(s))[2] * (Pick(s))[2] BY DEF Pick
<1>4. h = [s \in SUBSET S |-> IF s = {} THEN 0
                              ELSE (Pick(s))[2] * (Pick(s))[2] + h[s \ {Pick(s)}]]
  BY <1>1, <1>3 DEF Sums
<1> DEFINE Is(i) == i = [s \in SUBSET S |-> IF s = {} THEN 0
                                ELSE (Pick(s))[2] * (Pick(s))[2] + i[s \ {Pick(s)}]]
           iter == CHOOSE i : Is(i)
<1>5. MapThenSumSet(LAMBDA x : x[2] * x[2], S) = iter[S]
  BY DEF MapThenSumSet, MapThenFoldSet, Pick
<1>6. Is(iter)
  <2> HIDE DEF Is
  <2>1. Is(h) BY <1>4 DEF Is
  <2> QED BY <2>1, Zenon
<1>7. Sums(iter, g, S)
  <2> HIDE DEF iter, g
  <2> QED BY <1>3, <1>6 DEF Sums
<1>8. SumOf(g, S) = iter[S]
  <2> HIDE DEF iter, g
  <2> QED BY <1>7, SumOfIs
<1> QED BY <1>5, <1>8

-----------------------------------------------------------------------------
(* What a running summary says of the pairs <<i, x>> whose values x were   *)
(* sampled.                                                                *)
Values(P) == [p \in P |-> p[2]]
Squares(P) == [p \in P |-> p[2] * p[2]]

Extrema(a, P) ==
    /\ \E p \in P : p[2] = a.least
    /\ \E p \in P : p[2] = a.greatest
    /\ \A p \in P : a.least <= p[2] /\ p[2] <= a.greatest

Summary(a, P) ==
    /\ IsFiniteSet(P) /\ \A p \in P : p[2] \in Int
    /\ a \in Samples
    /\ a.count = Cardinality(P)
    /\ a.total = SumOf(Values(P), P)
    /\ a.squares = SumOf(Squares(P), P)
    /\ IF P = {} THEN a = NoSamples ELSE Extrema(a, P)

LEMMA SummaryOfNone == Summary(NoSamples, {})
<1>1. IsFiniteSet({}) /\ Cardinality({}) = 0 BY FS_EmptySet
<1>2. \A g : SumOf(g, {}) = 0 BY SumOfNone
<1>3. NoSamples \in Samples BY DEF NoSamples, Samples
<1> QED BY <1>1, <1>2, <1>3 DEF Summary, NoSamples

LEMMA SummarySummarizes ==
    ASSUME NEW a, NEW P, Summary(a, P)
    PROVE  Summarizes(a, P)
<1> DEFINE values == {p[2] : p \in P}
<1>1. a.total = MapThenSumSet(LAMBDA p : p[2], P)
  <2>1. MapThenSumSet(LAMBDA p : p[2], P) = SumOf([x \in P |-> x[2]], P) BY SumOfSeconds DEF Summary
  <2> QED BY <2>1 DEF Summary, Values
<1>2. a.squares = MapThenSumSet(LAMBDA p : p[2] * p[2], P)
  <2>1. MapThenSumSet(LAMBDA p : p[2] * p[2], P) = SumOf([x \in P |-> x[2] * x[2]], P)
    BY SumOfSquares DEF Summary
  <2> QED BY <2>1 DEF Summary, Squares
<1>3. ASSUME P # {} PROVE a.least = Min(values) /\ a.greatest = Max(values)
  <2>1. Extrema(a, P) /\ \A p \in P : p[2] \in Int BY <1>3 DEF Summary
  <2>2. values \subseteq Int /\ a.least \in values /\ a.greatest \in values BY <2>1 DEF Extrema
  <2>3. \A v \in values : a.least <= v /\ v <= a.greatest BY <2>1 DEF Extrema
  <2> HIDE DEF values
  <2>4. a.greatest = Max(values) BY <2>2, <2>3, MaxUnique
  <2>5. a.least = Min(values) BY <2>2, <2>3, MinUnique
  <2> QED BY <2>4, <2>5
<1>4. a.count = Cardinality(P) BY DEF Summary
<1> QED BY <1>1, <1>2, <1>3, <1>4 DEF Summarizes

(* A product of two integers and its square, kept from the prover's view.  *)
LEMMA SquareType ==
    ASSUME NEW x \in Int
    PROVE  x * x \in Nat
<1>1. CASE x >= 0 BY <1>1
<1>2. CASE x < 0
  <2>1. (-x) \in Nat BY <1>2
  <2>2. (-x) * (-x) \in Nat BY <2>1
  <2> QED BY <2>2
<1> QED BY <1>1, <1>2

LEMMA SampledMore ==
    ASSUME NEW a, NEW P, Summary(a, P), NEW n, NEW x \in Int, <<n, x>> \notin P
    PROVE  Summary(Sampled(a, x), P \cup {<<n, x>>})
<1> DEFINE e == <<n, x>>
           Q == P \cup {e}
           b == Sampled(a, x)
<1>1. e[2] = x OBVIOUS
<1>2. IsFiniteSet(P) /\ (\A p \in P : p[2] \in Int) /\ a \in Samples BY DEF Summary
<1>3. IsFiniteSet(Q) /\ Cardinality(Q) = Cardinality(P) + 1 BY <1>2, FS_AddElement
<1>4. \A p \in Q : p[2] \in Int BY <1>1, <1>2
<1>5. /\ a.count \in Nat /\ a.total \in Int /\ a.squares \in Int /\ a.least \in Int
      /\ a.greatest \in Int
  BY <1>2 DEF Samples
<1>6. x * x \in Int BY SquareType
<1>7. /\ b.count = a.count + 1 /\ b.total = a.total + x /\ b.squares = a.squares + x * x
      /\ b.least = IF a.count = 0 \/ x < a.least THEN x ELSE a.least
      /\ b.greatest = IF a.count = 0 \/ x > a.greatest THEN x ELSE a.greatest
  BY DEF Sampled
<1>8. b \in Samples
  <2>1. a.squares + x * x \in Int
    <3>1. PICK y : y = x * x OBVIOUS
    <3>2. a.squares + y \in Int BY <1>5, <1>6, <3>1
    <3> QED BY <3>1, <3>2
  <2>2. /\ a.count + 1 \in Nat /\ a.total + x \in Int
        /\ (IF a.count = 0 \/ x < a.least THEN x ELSE a.least) \in Int
        /\ (IF a.count = 0 \/ x > a.greatest THEN x ELSE a.greatest) \in Int
    BY <1>5
  <2> QED BY <2>1, <2>2 DEF Samples, Sampled
<1>9. b.total = SumOf(Values(Q), Q)
  <2>1. /\ \A p \in P : Values(P)[p] \in Int /\ Values(P)[p] = Values(Q)[p]
        /\ Values(Q)[e] = x
    BY <1>2 DEF Values
  <2>2. SumOf(Values(Q), Q) = SumOf(Values(P), P) + Values(Q)[e]
    <3>1. PICK f, g, z : f = Values(P) /\ g = Values(Q) /\ z = e OBVIOUS
    <3>2. z \notin P /\ g[z] \in Int /\ \A p \in P : f[p] \in Int /\ f[p] = g[p]
      BY <2>1, <3>1
    <3>3. SumOf(g, P \cup {z}) = SumOf(f, P) + g[z] BY <1>2, <3>2, SumOfMore
    <3> QED BY <3>1, <3>3
  <2> QED BY <1>7, <2>1, <2>2 DEF Summary
<1>10. b.squares = SumOf(Squares(Q), Q)
  <2>1. \A p \in P : Squares(P)[p] \in Int /\ Squares(P)[p] = Squares(Q)[p]
    <3> SUFFICES ASSUME NEW p \in P PROVE p[2] * p[2] \in Int BY DEF Squares
    <3>1. PICK v : v = p[2] OBVIOUS
    <3> QED BY <1>2, <3>1, SquareType
  <2>2. Squares(Q)[e] = x * x BY DEF Squares
  <2>3. SumOf(Squares(Q), Q) = SumOf(Squares(P), P) + Squares(Q)[e]
    <3>1. PICK f, g, z : f = Squares(P) /\ g = Squares(Q) /\ z = e OBVIOUS
    <3>2. z \notin P /\ g[z] \in Int /\ \A p \in P : f[p] \in Int /\ f[p] = g[p]
      BY <1>6, <2>1, <2>2, <3>1
    <3>3. SumOf(g, P \cup {z}) = SumOf(f, P) + g[z] BY <1>2, <3>2, SumOfMore
    <3> QED BY <3>1, <3>3
  <2> QED BY <1>7, <2>2, <2>3 DEF Summary
<1>11. Extrema(b, Q)
  <2>1. CASE P = {}
    <3>1. a.count = 0 BY <2>1 DEF Summary, NoSamples
    <3>2. b.least = x /\ b.greatest = x BY <1>7, <3>1
    <3> HIDE DEF b
    <3> QED BY <1>1, <2>1, <3>2 DEF Extrema
  <2>2. CASE P # {}
    <3>1. Extrema(a, P) BY <2>2 DEF Summary
    <3>2. a.count # 0
      <4>1. Cardinality(P) # 0 BY <1>2, <2>2, FS_EmptySet
      <4> QED BY <4>1 DEF Summary
    <3>3. PICK p \in P : p[2] = a.least BY <3>1 DEF Extrema
    <3>4. PICK q \in P : q[2] = a.greatest BY <3>1 DEF Extrema
    <3>5. b.least = IF x < a.least THEN x ELSE a.least BY <1>7, <3>2
    <3>6. b.greatest = IF x > a.greatest THEN x ELSE a.greatest BY <1>7, <3>2
    <3> HIDE DEF b, e
    <3>7. e \in Q /\ p \in Q /\ q \in Q OBVIOUS
    <3>8. (\E r \in Q : r[2] = b.least) /\ (\E r \in Q : r[2] = b.greatest)
      <4> HIDE DEF Q
      <4> QED BY <1>1, <3>3, <3>4, <3>5, <3>6, <3>7
    <3>9. ASSUME NEW r \in Q PROVE b.least <= r[2] /\ r[2] <= b.greatest
      <4>1. CASE r = e
        <5>1. r[2] = x BY <1>1, <4>1
        <5> QED BY <1>5, <3>5, <3>6, <5>1
      <4>2. CASE r \in P
        <5>1. a.least <= r[2] /\ r[2] <= a.greatest /\ r[2] \in Int BY <1>2, <3>1, <4>2 DEF Extrema
        <5>2. PICK v : v = r[2] OBVIOUS
        <5>3. b.least <= v /\ v <= b.greatest BY <1>5, <3>5, <3>6, <5>1, <5>2
        <5> QED BY <5>2, <5>3
      <4> QED BY <4>1, <4>2
    <3> HIDE DEF Q
    <3> QED BY <3>8, <3>9 DEF Extrema
  <2> QED BY <2>1, <2>2
<1>12. b.count = Cardinality(Q) BY <1>3, <1>7 DEF Summary
<1>13. Q # {} OBVIOUS
<1> HIDE DEF Q, b
<1>14. Summary(b, Q) BY <1>3, <1>4, <1>8, <1>9, <1>10, <1>11, <1>12, <1>13 DEF Summary
<1> QED BY <1>14 DEF Q, b

-----------------------------------------------------------------------------
(* A sequence with one element more.                                       *)
LEMMA AppendOne ==
    ASSUME NEW S, NEW s \in Seq(S), NEW x \in S
    PROVE  /\ Append(s, x) \in Seq(S) /\ Len(s) \in Nat /\ Len(Append(s, x)) = Len(s) + 1
           /\ DOMAIN s = 1 .. Len(s) /\ DOMAIN Append(s, x) = (1 .. Len(s)) \cup {Len(s) + 1}
           /\ Append(s, x)[Len(s) + 1] = x
           /\ \A i \in 1 .. Len(s) : Append(s, x)[i] = s[i]
<1>1. /\ Append(s, x) \in Seq(S) /\ Len(Append(s, x)) = Len(s) + 1 /\ Append(s, x)[Len(s) + 1] = x
      /\ \A i \in 1 .. Len(s) : Append(s, x)[i] = s[i]
  BY AppendProperties
<1>2. Len(s) \in Nat /\ DOMAIN s = 1 .. Len(s) BY LenProperties
<1>3. DOMAIN Append(s, x) = 1 .. Len(s) + 1 BY <1>1, LenProperties
<1>4. 1 .. Len(s) + 1 = (1 .. Len(s)) \cup {Len(s) + 1} BY <1>2
<1> QED BY <1>1, <1>2, <1>3, <1>4

LEMMA MinIs ==
    ASSUME NEW S \in SUBSET Nat, S # {}
    PROVE  Min(S) \in S /\ \A m \in S : Min(S) <= m
<1>1. PICK n \in S : \A m \in S : n <= m BY LeastNat
<1>2. S \subseteq Int OBVIOUS
<1>3. Min(S) = n BY <1>1, <1>2, MinUnique
<1> QED BY <1>1, <1>3

-----------------------------------------------------------------------------
(* The lengths and the intervals of the packets at given places of a       *)
(* sequence                                                                *)
LengthsAt(s, l, I) == {<<i, s[i].observation[l]>> : i \in I}

GapsAt(s, I) ==
    {<<i, s[i].observation.at - s[Max({j \in I : j < i})].observation.at>> : i \in I \ {Min(I)}}

LEMMA LengthsMore ==
    ASSUME NEW S, NEW s \in Seq(S), NEW x \in S, NEW l, NEW I \in SUBSET (1 .. Len(s))
    PROVE  /\ LengthsAt(Append(s, x), l, I) = LengthsAt(s, l, I)
           /\ LengthsAt(Append(s, x), l, I \cup {Len(s) + 1})
                = LengthsAt(s, l, I) \cup {<<Len(s) + 1, x.observation[l]>>}
           /\ \A y : <<Len(s) + 1, y>> \notin LengthsAt(s, l, I)
<1> DEFINE t == Append(s, x)
           n == Len(s) + 1
<1>1. /\ \A i \in I : t[i] = s[i] /\ i # n
      /\ t[n] = x
  BY AppendOne
<1> HIDE DEF t, n
<1>2. LengthsAt(t, l, I) = LengthsAt(s, l, I) BY <1>1 DEF LengthsAt
<1>3. LengthsAt(t, l, I \cup {n}) = LengthsAt(t, l, I) \cup {<<n, x.observation[l]>>}
  BY <1>1 DEF LengthsAt
<1>4. \A y : <<n, y>> \notin LengthsAt(s, l, I) BY <1>1 DEF LengthsAt
<1> QED BY <1>2, <1>3, <1>4 DEF t, n

LEMMA GapsMore ==
    ASSUME NEW S, NEW s \in Seq(S), NEW x \in S, NEW I \in SUBSET (1 .. Len(s))
    PROVE  /\ GapsAt(Append(s, x), I) = GapsAt(s, I)
           /\ GapsAt(Append(s, x), I \cup {Len(s) + 1})
                = IF I = {} THEN {}
                  ELSE GapsAt(s, I)
                         \cup {<<Len(s) + 1, x.observation.at - s[Max(I)].observation.at>>}
           /\ \A y : <<Len(s) + 1, y>> \notin GapsAt(s, I)
<1> DEFINE t == Append(s, x)
           n == Len(s) + 1
           before(J, i) == Max({j \in J : j < i})
<1>0. (\A i \in I : t[i] = s[i]) /\ t[n] = x BY AppendOne
<1>1. n \in Nat /\ \A i \in I : i \in Nat /\ i < n
  <2>1. Len(s) \in Nat BY AppendOne
  <2> QED BY <2>1
<1> HIDE DEF t, n
<1>2. I \in SUBSET Nat /\ I \in SUBSET (0 .. n) BY <1>1
<1>3. ASSUME NEW i \in I \ {Min(I)} PROVE before(I, i) \in I
  <2>1. PICK m : m = Min(I) OBVIOUS
  <2>2. m \in I /\ m <= i BY <1>2, <2>1, MinIs
  <2>3. m \in Nat /\ i \in Nat /\ m # i BY <1>1, <2>1, <2>2
  <2>4. m < i BY <2>2, <2>3
  <2> DEFINE J == {j \in I : j < i}
  <2>5. m \in J /\ J \subseteq I BY <2>2, <2>4
  <2> HIDE DEF J
  <2>6. J # {} /\ J \in SUBSET (0 .. n) BY <1>2, <2>5
  <2>7. Max(J) \in J BY <1>1, <2>6, MaxIs
  <2> QED BY <2>5, <2>7 DEF J
<1>4. GapsAt(t, I) = GapsAt(s, I)
  <2>1. \A i \in I \ {Min(I)} : t[i] = s[i] /\ t[before(I, i)] = s[before(I, i)] BY <1>0, <1>3
  <2> QED BY <2>1 DEF GapsAt
<1>5. \A y : <<n, y>> \notin GapsAt(s, I)
  <2>1. n \notin I BY <1>1
  <2> QED BY <2>1 DEF GapsAt
<1> DEFINE K == I \cup {n}
<1>6. CASE I = {}
  <2>1. K = {n} BY <1>6
  <2>2. Min(K) = n
    <3>1. n \in K /\ K \subseteq Int /\ \A m \in K : n <= m BY <1>1, <2>1
    <3> HIDE DEF K
    <3> QED BY <3>1, MinUnique
  <2>3. K \ {Min(K)} = {} BY <2>1, <2>2
  <2> HIDE DEF K
  <2>4. GapsAt(t, K) = {} BY <2>3 DEF GapsAt
  <2> QED BY <1>4, <1>5, <1>6, <2>4 DEF t, n, K
<1>7. CASE I # {}
  <2>1. Min(I) \in I /\ \A m \in I : Min(I) <= m BY <1>2, <1>7, MinIs
  <2>2. Min(K) = Min(I)
    <3>1. PICK k : k = Min(I) OBVIOUS
    <3>2. k \in I /\ k < n /\ k \in Nat BY <1>1, <2>1, <3>1
    <3>3. k \in K /\ K \subseteq Int /\ \A m \in K : k <= m BY <1>1, <2>1, <3>1, <3>2
    <3> HIDE DEF K
    <3> QED BY <3>1, <3>3, MinUnique
  <2>3. K \ {Min(K)} = (I \ {Min(I)}) \cup {n}
    <3>1. n \notin I BY <1>1
    <3> QED BY <2>1, <2>2, <3>1
  <2>4. \A i \in I : before(K, i) = before(I, i)
    <3> SUFFICES ASSUME NEW i \in I PROVE {j \in K : j < i} = {j \in I : j < i} OBVIOUS
    <3> QED BY <1>1
  <2>5. before(K, n) = Max(I)
    <3>1. {j \in K : j < n} = I
      <4>1. ~(n < n) /\ \A i \in I : i < n BY <1>1
      <4>2. \A j : j \in {k \in K : k < n} <=> j \in I BY <4>1
      <4> QED BY <4>2
    <3> QED BY <3>1
  <2>6. Max(I) \in I BY <1>1, <1>2, <1>7, MaxIs
  <2>7. \A i \in I \ {Min(I)} : t[i] = s[i] /\ t[before(K, i)] = s[before(I, i)]
    BY <1>0, <1>3, <2>4
  <2>8. t[n] = x /\ t[before(K, n)] = s[Max(I)] BY <1>0, <2>5, <2>6
  <2> DEFINE gap(u, J, i) == <<i, u[i].observation.at - u[before(J, i)].observation.at>>
  <2>9. \A i \in I \ {Min(I)} : gap(t, K, i) = gap(s, I, i) BY <2>7
  <2>10. gap(t, K, n) = <<n, x.observation.at - s[Max(I)].observation.at>> BY <2>8
  <2>11. GapsAt(t, K) = {gap(t, K, i) : i \in K \ {Min(K)}} BY DEF GapsAt
  <2>12. GapsAt(s, I) = {gap(s, I, i) : i \in I \ {Min(I)}} BY DEF GapsAt
  <2> DEFINE J == I \ {Min(I)}
  <2>14. {gap(t, K, i) : i \in J \cup {n}} = {gap(s, I, i) : i \in J} \cup {gap(t, K, n)}
    <3> HIDE DEF gap, K
    <3> QED BY <2>9
  <2> HIDE DEF gap, K
  <2>13. GapsAt(t, K) = GapsAt(s, I) \cup {<<n, x.observation.at - s[Max(I)].observation.at>>}
    BY <2>3, <2>10, <2>11, <2>12, <2>14
  <2> QED BY <1>4, <1>5, <1>7, <2>13 DEF t, n, K
<1> QED BY <1>6, <1>7

-----------------------------------------------------------------------------
(* A histogram: its bins are in the order of their values, and not empty.  *)
Ordered(bins) ==
    /\ bins \in Seq(Int \X Nat)
    /\ \A i \in DOMAIN bins : bins[i][2] > 0
    /\ \A i \in DOMAIN bins, j \in DOMAIN bins : i < j => bins[i][1] < bins[j][1]

Fiber(P, v) == {p \in P : p[2] = v}

(* It holds the pairs <<where, value>> if each value has the count of its  *)
(* pairs.                                                                  *)
Holds(bins, P) ==
    /\ Ordered(bins)
    /\ IsFiniteSet(P) /\ \A p \in P : p[2] \in Int
    /\ \A v \in Int : CountIn(bins, v) = Cardinality(Fiber(P, v))

(* What is closed downwards among the first numbers is a beginning of      *)
(* them.                                                                   *)
LEMMA Beginning ==
    ASSUME NEW n \in Nat, NEW D \in SUBSET (1 .. n),
           \A i \in D : \A j \in 1 .. n : j < i => j \in D
    PROVE  Cardinality(D) \in 0 .. n /\ D = 1 .. Cardinality(D)
<1>1. \A m \in Nat : IsFiniteSet(1 .. m) /\ Cardinality(1 .. m) = m
  <2> SUFFICES ASSUME NEW m \in Nat PROVE IsFiniteSet(1 .. m) /\ Cardinality(1 .. m) = m OBVIOUS
  <2>1. 1 \in Int /\ m \in Int OBVIOUS
  <2>2. IsFiniteSet(1 .. m) /\ Cardinality(1 .. m) = IF 1 > m THEN 0 ELSE m - 1 + 1
    BY <2>1, FS_Interval
  <2> QED BY <2>2
<1>2. CASE D = {}
  <2>1. Cardinality(D) = 0 /\ 1 .. 0 = {} BY <1>2, FS_EmptySet
  <2> QED BY <1>2, <2>1
<1>3. CASE D # {}
  <2>1. D \in SUBSET (0 .. n) OBVIOUS
  <2>2. PICK m : m = Max(D) OBVIOUS
  <2>3. m \in D /\ \A i \in D : i <= m BY <1>3, <2>1, <2>2, MaxIs
  <2>4. \A j : j \in D <=> j \in 1 .. m
    <3>1. ASSUME NEW j \in D PROVE j \in 1 .. m BY <2>3
    <3>2. ASSUME NEW j \in 1 .. m PROVE j \in D
      <4>1. CASE j = m BY <2>3, <4>1
      <4>2. CASE j # m
        <5>1. m \in 1 .. n BY <2>3
        <5>2. j \in 1 .. n /\ j < m BY <3>2, <4>2, <5>1
        <5> QED BY <2>3, <5>2
      <4> QED BY <4>1, <4>2
    <3> QED BY <3>1, <3>2
  <2>5. D = 1 .. m BY <2>4
  <2>6. m \in 1 .. n BY <2>3
  <2>7. Cardinality(D) = m BY <1>1, <2>5, <2>6
  <2> QED BY <2>5, <2>6, <2>7
<1> QED BY <1>2, <1>3

LEMMA PlaceIs ==
    ASSUME NEW bins, Ordered(bins), NEW v \in Int, NEW k, k = Place(bins, v)
    PROVE  /\ Len(bins) \in Nat /\ DOMAIN bins = 1 .. Len(bins) /\ k \in 1 .. Len(bins) + 1
           /\ \A i \in 1 .. Len(bins) : bins[i][1] \in Int /\ bins[i][2] \in Nat \ {0}
           /\ \A i \in 1 .. Len(bins) : i < k <=> bins[i][1] < v
<1> DEFINE D == {i \in DOMAIN bins : bins[i][1] < v}
           n == Len(bins)
<1>1. bins \in Seq(Int \X Nat) BY DEF Ordered
<1>2. n \in Nat /\ DOMAIN bins = 1 .. n /\ \A i \in 1 .. n : bins[i] \in Int \X Nat
  BY <1>1, LenProperties, ElementOfSeq
<1>3. \A i \in 1 .. n : bins[i][1] \in Int /\ bins[i][2] \in Nat BY <1>2
<1>4. \A i \in 1 .. n : bins[i][2] > 0 BY <1>2 DEF Ordered
<1>5. \A i \in 1 .. n, j \in 1 .. n : i < j => bins[i][1] < bins[j][1] BY <1>2 DEF Ordered
<1>6. D \in SUBSET (1 .. n) BY <1>2
<1>7. \A i \in D : \A j \in 1 .. n : j < i => j \in D
  <2> SUFFICES ASSUME NEW i \in D, NEW j \in 1 .. n, j < i PROVE j \in D OBVIOUS
  <2>1. i \in 1 .. n /\ bins[i][1] < v BY <1>6
  <2>2. bins[j][1] < bins[i][1] BY <1>5, <2>1
  <2>3. PICK a, b : a = bins[j][1] /\ b = bins[i][1] OBVIOUS
  <2>4. a \in Int /\ b \in Int /\ a < b /\ b < v BY <1>3, <2>1, <2>2, <2>3
  <2>5. a < v BY <2>4
  <2> QED BY <1>2, <2>3, <2>5
<1>8. k = Cardinality(D) + 1 BY DEF Place
<1> HIDE DEF D
<1>9. Cardinality(D) \in 0 .. n /\ D = 1 .. Cardinality(D) BY <1>2, <1>6, <1>7, Beginning
<1>10. k \in 1 .. n + 1 /\ D = 1 .. (k - 1) BY <1>2, <1>8, <1>9
<1>11. \A i \in 1 .. n : i < k <=> bins[i][1] < v
  <2> SUFFICES ASSUME NEW i \in 1 .. n PROVE i < k <=> i \in D BY <1>2 DEF D
  <2> QED BY <1>2, <1>10
<1>12. \A i \in 1 .. n : bins[i][2] \in Nat \ {0} BY <1>3, <1>4
<1> QED BY <1>2, <1>3, <1>10, <1>11, <1>12

LEMMA CountOf ==
    ASSUME NEW bins, Ordered(bins)
    PROVE  /\ \A i \in DOMAIN bins : CountIn(bins, bins[i][1]) = bins[i][2]
           /\ \A v : (\A i \in DOMAIN bins : bins[i][1] # v) => CountIn(bins, v) = 0
<1>1. ASSUME NEW i \in DOMAIN bins PROVE CountIn(bins, bins[i][1]) = bins[i][2]
  <2> DEFINE v == bins[i][1]
             P(j) == j \in DOMAIN bins /\ bins[j][1] = v
             c == CHOOSE j \in DOMAIN bins : bins[j][1] = v
  <2>1. c \in DOMAIN bins /\ bins[c][1] = v BY <1>1
  <2> HIDE DEF c
  <2>2. c = i
    <3>1. bins \in Seq(Int \X Nat) BY DEF Ordered
    <3>2. Len(bins) \in Nat /\ DOMAIN bins = 1 .. Len(bins) BY <3>1, LenProperties
    <3>3. bins[i][1] \in Int
      <4>1. bins[i] \in Int \X Nat BY <1>1, <3>1, <3>2, ElementOfSeq
      <4> QED BY <4>1
    <3>4. ~(c < i) /\ ~(i < c)
      <4>1. c < i => bins[c][1] < bins[i][1] BY <1>1, <2>1 DEF Ordered
      <4>2. i < c => bins[i][1] < bins[c][1] BY <1>1, <2>1 DEF Ordered
      <4>3. PICK a : a = bins[i][1] OBVIOUS
      <4>4. a \in Int /\ ~(a < a) BY <3>3, <4>3
      <4> QED BY <2>1, <4>1, <4>2, <4>3, <4>4
    <3> QED BY <1>1, <2>1, <3>2, <3>4
  <2>3. \E j \in DOMAIN bins : bins[j][1] = v BY <1>1
  <2>4. CountIn(bins, v) = bins[c][2] BY <2>3 DEF CountIn, c
  <2> QED BY <2>2, <2>4
<1>2. ASSUME NEW v, \A i \in DOMAIN bins : bins[i][1] # v PROVE CountIn(bins, v) = 0
  BY <1>2 DEF CountIn
<1> QED BY <1>1, <1>2

-----------------------------------------------------------------------------
(* What one occurrence more does to the bins.                              *)
Hit(bins, b, v, k) ==
    /\ k \in 1 .. Len(bins) /\ bins[k][1] = v
    /\ Len(b) = Len(bins)
    /\ b[k] = <<v, bins[k][2] + 1>>
    /\ \A i \in 1 .. Len(bins) : i # k => b[i] = bins[i]

Inserted(bins, b, v, k) ==
    /\ \A i \in 1 .. Len(bins) : bins[i][1] # v
    /\ Len(b) = Len(bins) + 1
    /\ b[k] = <<v, 1>>
    /\ \A i \in 1 .. Len(bins) : i < k => b[i] = bins[i]
    /\ \A i \in 1 .. Len(bins) : i >= k => b[i + 1] = bins[i]

LEMMA IncrementedIs ==
    ASSUME NEW bins, Ordered(bins), NEW v \in Int, NEW k, k = Place(bins, v),
           NEW b, b = Incremented(bins, v)
    PROVE  b \in Seq(Int \X Nat) /\ (Hit(bins, b, v, k) \/ Inserted(bins, b, v, k))
<1> DEFINE n == Len(bins)
<1>1. /\ n \in Nat /\ DOMAIN bins = 1 .. n /\ k \in 1 .. n + 1
      /\ \A i \in 1 .. n : bins[i][1] \in Int /\ bins[i][2] \in Nat \ {0}
      /\ \A i \in 1 .. n : i < k <=> bins[i][1] < v
  BY PlaceIs
<1>2. bins \in Seq(Int \X Nat) BY DEF Ordered
<1>3. CASE k \in 1 .. n /\ bins[k][1] = v
  <2>1. b = [bins EXCEPT ![k] = <<v, bins[k][2] + 1>>] BY <1>1, <1>3 DEF Incremented
  <2>2. <<v, bins[k][2] + 1>> \in Int \X Nat BY <1>1, <1>3
  <2>3. b \in Seq(Int \X Nat) /\ Len(b) = n
    BY <1>2, <1>3, <2>1, <2>2, ExceptSeq
  <2>4. b[k] = <<v, bins[k][2] + 1>> /\ \A i \in 1 .. n : i # k => b[i] = bins[i]
    BY <1>1, <1>3, <2>1
  <2>5. Hit(bins, b, v, k) BY <1>3, <2>3, <2>4 DEF Hit
  <2> QED BY <2>3, <2>5
<1>4. CASE ~ (k \in 1 .. n /\ bins[k][1] = v)
  <2> DEFINE l == SubSeq(bins, 1, k - 1)
             r == SubSeq(bins, k, n)
             m == << <<v, 1>> >>
  <2>1. b = (l \o m) \o r BY <1>1, <1>4 DEF Incremented, InsertAt
  <2>2. /\ l \in Seq(Int \X Nat) /\ Len(l) = k - 1
        /\ \A i \in 1 .. k - 1 : l[i] = bins[i]
    <3>1. 1 \in 1 .. n + 1 /\ k - 1 \in 1 - 1 .. n BY <1>1
    <3>2. /\ l \in Seq(Int \X Nat)
          /\ Len(l) = IF 1 <= k - 1 THEN k - 1 - 1 + 1 ELSE 0
          /\ \A i \in 1 .. k - 1 - 1 + 1 : l[i] = bins[1 + i - 1]
      BY <1>2, <3>1, SubSeqProperties
    <3>3. Len(l) = k - 1 /\ \A i \in 1 .. k - 1 : 1 + i - 1 = i /\ i \in 1 .. k - 1 - 1 + 1
      BY <1>1, <3>2
    <3> QED BY <3>2, <3>3
  <2>3. /\ r \in Seq(Int \X Nat) /\ Len(r) = n - k + 1
        /\ \A i \in 1 .. n - k + 1 : r[i] = bins[k + i - 1]
    <3>1. k \in 1 .. n + 1 /\ n \in k - 1 .. n BY <1>1
    <3>2. /\ r \in Seq(Int \X Nat)
          /\ Len(r) = IF k <= n THEN n - k + 1 ELSE 0
          /\ \A i \in 1 .. n - k + 1 : r[i] = bins[k + i - 1]
      BY <1>2, <3>1, SubSeqProperties
    <3>3. Len(r) = n - k + 1 BY <1>1, <3>2
    <3> QED BY <3>2, <3>3
  <2>4. m \in Seq(Int \X Nat) /\ Len(m) = 1 /\ m[1] = <<v, 1>>
    <3>1. <<v, 1>> \in Int \X Nat OBVIOUS
    <3> QED BY <3>1
  <2> HIDE DEF l, m, r, n
  <2>5. /\ l \o m \in Seq(Int \X Nat) /\ Len(l \o m) = k
        /\ (\A i \in 1 .. k - 1 : (l \o m)[i] = bins[i]) /\ (l \o m)[k] = <<v, 1>>
    <3>1. /\ l \o m \in Seq(Int \X Nat) /\ Len(l \o m) = Len(l) + Len(m)
          /\ \A i \in 1 .. Len(l) + Len(m) : (l \o m)[i] = IF i <= Len(l) THEN l[i] ELSE m[i - Len(l)]
      BY <2>2, <2>4, ConcatProperties
    <3>2. Len(l) + Len(m) = k /\ k - (k - 1) = 1 BY <1>1, <2>2, <2>4
    <3>3. \A i \in 1 .. k - 1 : i \in 1 .. k /\ i <= k - 1 BY <1>1
    <3>4. k \in 1 .. k /\ ~(k <= k - 1) BY <1>1
    <3>5. \A i \in 1 .. k - 1 : (l \o m)[i] = bins[i] BY <2>2, <3>1, <3>2, <3>3
    <3>6. (l \o m)[k] = m[1] BY <2>2, <3>1, <3>2, <3>4
    <3> QED BY <2>4, <3>1, <3>2, <3>5, <3>6
  <2>6. PICK q : q = l \o m OBVIOUS
  <2>7. /\ b \in Seq(Int \X Nat) /\ Len(b) = Len(q) + Len(r)
        /\ \A i \in 1 .. Len(q) + Len(r) : b[i] = IF i <= Len(q) THEN q[i] ELSE r[i - Len(q)]
    <3>1. b = q \o r /\ q \in Seq(Int \X Nat) /\ r \in Seq(Int \X Nat) BY <2>1, <2>3, <2>5, <2>6
    <3>2. /\ q \o r \in Seq(Int \X Nat) /\ Len(q \o r) = Len(q) + Len(r)
          /\ \A i \in 1 .. Len(q) + Len(r) : (q \o r)[i] = IF i <= Len(q) THEN q[i] ELSE r[i - Len(q)]
      BY <3>1, ConcatProperties
    <3> QED BY <3>1, <3>2
  <2>8. Len(q) = k /\ Len(r) = n - k + 1 BY <2>3, <2>5, <2>6
  <2>9. Len(q) + Len(r) = n + 1 BY <1>1, <2>8
  <2>10. \A i \in 1 .. k : b[i] = q[i]
    <3>1. \A i \in 1 .. k : i \in 1 .. n + 1 /\ i <= k BY <1>1
    <3> QED BY <2>7, <2>8, <2>9, <3>1
  <2>11. ASSUME NEW i \in 1 .. n, i < k PROVE b[i] = bins[i]
    <3>1. i \in 1 .. k /\ i \in 1 .. k - 1 BY <1>1, <2>11
    <3> QED BY <2>5, <2>6, <2>10, <3>1
  <2>12. b[k] = <<v, 1>>
    <3>1. k \in 1 .. k BY <1>1
    <3> QED BY <2>5, <2>6, <2>10, <3>1
  <2>13. ASSUME NEW i \in 1 .. n, i >= k PROVE b[i + 1] = bins[i]
    <3>1. /\ i + 1 \in 1 .. n + 1 /\ ~(i + 1 <= k) /\ (i + 1) - k \in 1 .. n - k + 1
          /\ k + ((i + 1) - k) - 1 = i
      BY <1>1, <2>13
    <3>2. b[i + 1] = r[(i + 1) - k] BY <2>7, <2>8, <2>9, <3>1
    <3> QED BY <2>3, <3>1, <3>2
  <2>14. ASSUME NEW i \in 1 .. n PROVE bins[i][1] # v
    <3>1. CASE i < k
      <4>1. bins[i][1] < v /\ ~(v < v) BY <1>1, <3>1
      <4> QED BY <4>1
    <3>2. CASE i = k BY <1>4, <3>2
    <3>3. CASE i > k
      <4>0. k \in 1 .. n /\ k < i BY <1>1, <3>3
      <4>1. k \in 1 .. n /\ bins[k][1] < bins[i][1] BY <1>1, <4>0 DEF Ordered
      <4>2. ~(k < k) BY <4>1
      <4>3. ~(bins[k][1] < v) BY <1>1, <4>1, <4>2
      <4>4. PICK a, c : a = bins[k][1] /\ c = bins[i][1] OBVIOUS
      <4>5. a \in Int /\ c \in Int /\ a < c /\ ~(a < v) BY <1>1, <4>1, <4>3, <4>4
      <4>6. c # v BY <4>5
      <4> QED BY <4>4, <4>6
    <3> QED BY <1>1, <3>1, <3>2, <3>3
  <2>15. Inserted(bins, b, v, k) BY <2>7, <2>9, <2>11, <2>12, <2>13, <2>14 DEF Inserted, n
  <2> QED BY <2>7, <2>15
<1> QED BY <1>3, <1>4

-----------------------------------------------------------------------------
LEMMA IncrementedCounts ==
    ASSUME NEW bins, Ordered(bins), NEW v \in Int, NEW b, b = Incremented(bins, v)
    PROVE  /\ Ordered(b)
           /\ CountIn(b, v) = CountIn(bins, v) + 1
           /\ \A w : w # v => CountIn(b, w) = CountIn(bins, w)
           /\ \E i \in DOMAIN b : b[i][1] = v
           /\ \A i \in DOMAIN bins : \E j \in DOMAIN b : b[j][1] = bins[i][1]
<1> DEFINE n == Len(bins)
<1>1. PICK k : k = Place(bins, v) OBVIOUS
<1>2. /\ n \in Nat /\ DOMAIN bins = 1 .. n /\ k \in 1 .. n + 1
      /\ \A i \in 1 .. n : bins[i][1] \in Int /\ bins[i][2] \in Nat \ {0}
      /\ \A i \in 1 .. n : i < k <=> bins[i][1] < v
  BY <1>1, PlaceIs
<1>3. b \in Seq(Int \X Nat) /\ (Hit(bins, b, v, k) \/ Inserted(bins, b, v, k))
  BY <1>1, IncrementedIs
<1>4. DOMAIN b = 1 .. Len(b) BY <1>3, LenProperties
<1>5. /\ \A i \in DOMAIN bins : CountIn(bins, bins[i][1]) = bins[i][2]
      /\ \A w : (\A i \in DOMAIN bins : bins[i][1] # w) => CountIn(bins, w) = 0
  BY CountOf
<1>6. \A i \in 1 .. n, j \in 1 .. n : i < j => bins[i][1] < bins[j][1] BY <1>2 DEF Ordered
<1> SUFFICES /\ Ordered(b)
             /\ \E i \in DOMAIN b : b[i] = <<v, CountIn(bins, v) + 1>>
             /\ \A i \in DOMAIN bins : bins[i][1] # v => \E j \in DOMAIN b : b[j] = bins[i]
             /\ \A j \in DOMAIN b : b[j][1] # v => \E i \in DOMAIN bins : b[j] = bins[i]
  <2>1. ASSUME Ordered(b)
        PROVE  /\ \A i \in DOMAIN b : CountIn(b, b[i][1]) = b[i][2]
               /\ \A w : (\A i \in DOMAIN b : b[i][1] # w) => CountIn(b, w) = 0
    BY <2>1, CountOf
  <2>2. PICK i \in DOMAIN b : b[i] = <<v, CountIn(bins, v) + 1>> OBVIOUS
  <2>3. b[i][1] = v /\ b[i][2] = CountIn(bins, v) + 1 BY <2>2
  <2>4. CountIn(b, v) = CountIn(bins, v) + 1 BY <2>1, <2>3
  <2>5. ASSUME NEW w, w # v PROVE CountIn(b, w) = CountIn(bins, w)
    <3>1. CASE \E j \in DOMAIN bins : bins[j][1] = w
      <4>1. PICK j \in DOMAIN bins : bins[j][1] = w BY <3>1
      <4>2. PICK m \in DOMAIN b : b[m] = bins[j] BY <2>5, <4>1
      <4> QED BY <1>5, <2>1, <4>1, <4>2
    <3>2. CASE ~ \E j \in DOMAIN bins : bins[j][1] = w
      <4>1. \A j \in DOMAIN b : b[j][1] # w BY <2>5, <3>2
      <4> QED BY <1>5, <2>1, <3>2, <4>1
    <3> QED BY <3>1, <3>2
  <2>6. ASSUME NEW j \in DOMAIN bins PROVE \E m \in DOMAIN b : b[m][1] = bins[j][1]
    <3>1. CASE bins[j][1] = v BY <2>3, <3>1
    <3>2. CASE bins[j][1] # v BY <3>2
    <3> QED BY <3>1, <3>2
  <2> QED BY <2>3, <2>4, <2>5, <2>6
<1>7. CASE Hit(bins, b, v, k)
  <2>1. /\ k \in 1 .. n /\ bins[k][1] = v /\ Len(b) = n /\ b[k] = <<v, bins[k][2] + 1>>
        /\ \A i \in 1 .. n : i # k => b[i] = bins[i]
    BY <1>7 DEF Hit
  <2>2. b[k][1] = v /\ b[k][2] = bins[k][2] + 1 BY <2>1
  <2>3. \A i \in 1 .. n : b[i][1] = bins[i][1] BY <2>1, <2>2
  <2>4. \A i \in 1 .. n : b[i][2] > 0
    <3> SUFFICES ASSUME NEW i \in 1 .. n PROVE b[i][2] > 0 OBVIOUS
    <3>1. bins[i][2] > 0 /\ bins[i][2] + 1 > 0 BY <1>2
    <3> QED BY <2>1, <2>2, <3>1
  <2>0. DOMAIN b = 1 .. n BY <1>4, <2>1
  <2>10. \A i \in 1 .. n, j \in 1 .. n : i < j => b[i][1] < b[j][1] BY <1>6, <2>3
  <2>5. Ordered(b) BY <1>3, <2>0, <2>4, <2>10 DEF Ordered
  <2>6. CountIn(bins, v) = bins[k][2] BY <1>2, <1>5, <2>1
  <2>7. \A i \in DOMAIN b : b[i][1] # v => i \in DOMAIN bins /\ b[i] = bins[i]
    BY <1>2, <1>4, <2>1, <2>3
  <2>8. \A i \in DOMAIN bins : bins[i][1] # v => i \in DOMAIN b /\ b[i] = bins[i]
    BY <1>2, <1>4, <2>1
  <2>9. k \in DOMAIN b /\ b[k] = <<v, CountIn(bins, v) + 1>> BY <1>4, <2>1, <2>6
  <2> QED BY <2>5, <2>7, <2>8, <2>9
<1>8. CASE Inserted(bins, b, v, k)
  <2>1. /\ \A i \in 1 .. n : bins[i][1] # v
        /\ Len(b) = n + 1
        /\ b[k] = <<v, 1>>
        /\ \A i \in 1 .. n : i < k => b[i] = bins[i]
        /\ \A i \in 1 .. n : i >= k => b[i + 1] = bins[i]
    BY <1>8 DEF Inserted
  <2>2. b[k][1] = v /\ b[k][2] = 1 BY <2>1
  <2>3. \A j \in 1 .. n + 1 : j < k => j \in 1 .. n /\ b[j] = bins[j] /\ bins[j][1] < v
    <3> SUFFICES ASSUME NEW j \in 1 .. n + 1, j < k PROVE j \in 1 .. n /\ b[j] = bins[j] /\ bins[j][1] < v
      OBVIOUS
    <3>1. j \in 1 .. n BY <1>2
    <3> QED BY <1>2, <2>1, <3>1
  <2>4. \A j \in 1 .. n + 1 : j > k => j - 1 \in 1 .. n /\ b[j] = bins[j - 1] /\ v < bins[j - 1][1]
    <3> SUFFICES ASSUME NEW j \in 1 .. n + 1, j > k
                 PROVE j - 1 \in 1 .. n /\ b[j] = bins[j - 1] /\ v < bins[j - 1][1]
      OBVIOUS
    <3>1. PICK i : i = j - 1 OBVIOUS
    <3>2. i \in 1 .. n /\ i >= k /\ i + 1 = j /\ ~(i < k) BY <1>2, <3>1
    <3>3. PICK a : a = bins[i][1] OBVIOUS
    <3>4. a \in Int /\ ~(a < v) /\ a # v BY <1>2, <2>1, <3>2, <3>3
    <3>5. v < a BY <3>4
    <3>6. b[i + 1] = bins[i] BY <2>1, <3>2
    <3> QED BY <3>1, <3>2, <3>3, <3>5, <3>6
  <2>5. DOMAIN b = 1 .. n + 1 BY <1>4, <2>1
  <2>6. \A j \in 1 .. n + 1 : b[j][2] > 0
    <3> SUFFICES ASSUME NEW j \in 1 .. n + 1 PROVE b[j][2] > 0 OBVIOUS
    <3>1. CASE j = k
      <4>1. 1 > 0 OBVIOUS
      <4> QED BY <2>2, <3>1, <4>1
    <3>2. CASE j < k
      <4>1. bins[j][2] > 0 BY <1>2, <2>3, <3>2
      <4> QED BY <2>3, <3>2, <4>1
    <3>3. CASE j > k
      <4>1. PICK i \in 1 .. n : b[j] = bins[i] BY <2>4, <3>3
      <4>2. bins[i][2] > 0 BY <1>2
      <4> QED BY <4>1, <4>2
    <3> QED BY <1>2, <3>1, <3>2, <3>3
  <2>7. ASSUME NEW i \in 1 .. n + 1, NEW j \in 1 .. n + 1, i < j PROVE b[i][1] < b[j][1]
    <3>1. CASE j < k
      <4>1. i < k BY <1>2, <2>7, <3>1
      <4> QED BY <1>6, <2>3, <2>7, <3>1, <4>1
    <3>2. CASE j = k
      <4>1. i < k BY <2>7, <3>2
      <4> QED BY <2>2, <2>3, <3>2, <4>1
    <3>3. CASE i = k
      <4>1. j > k BY <2>7, <3>3
      <4> QED BY <2>2, <2>4, <3>3, <4>1
    <3>4. CASE i > k
      <4>1. j > k /\ i - 1 < j - 1 BY <1>2, <2>7, <3>4
      <4> QED BY <1>6, <2>4, <3>4, <4>1
    <3>5. CASE i < k /\ j > k
      <4>1. PICK a, c : a = b[i][1] /\ c = b[j][1] OBVIOUS
      <4>2. b[i] = bins[i] /\ i \in 1 .. n /\ a < v BY <2>3, <3>5, <4>1
      <4>3. b[j] = bins[j - 1] /\ j - 1 \in 1 .. n /\ v < c BY <2>4, <3>5, <4>1
      <4>4. a \in Int /\ c \in Int BY <1>2, <4>1, <4>2, <4>3
      <4> QED BY <4>1, <4>2, <4>3, <4>4
    <3> QED BY <1>2, <3>1, <3>2, <3>3, <3>4, <3>5
  <2>8. Ordered(b) BY <1>3, <2>5, <2>6, <2>7 DEF Ordered
  <2>9. CountIn(bins, v) = 0 BY <1>2, <1>5, <2>1
  <2>10. k \in DOMAIN b /\ b[k] = <<v, CountIn(bins, v) + 1>> BY <1>2, <2>1, <2>5, <2>9
  <2>11. ASSUME NEW i \in DOMAIN bins PROVE \E j \in DOMAIN b : b[j] = bins[i]
    <3>1. CASE i < k
      <4>1. i \in DOMAIN b /\ b[i] = bins[i] BY <1>2, <2>1, <2>5, <3>1
      <4> QED BY <4>1
    <3>2. CASE i >= k
      <4>1. i + 1 \in DOMAIN b /\ b[i + 1] = bins[i] BY <1>2, <2>1, <2>5, <3>2
      <4> QED BY <4>1
    <3> QED BY <1>2, <3>1, <3>2
  <2>12. ASSUME NEW j \in DOMAIN b, b[j][1] # v PROVE \E i \in DOMAIN bins : b[j] = bins[i]
    <3>1. j # k /\ j \in 1 .. n + 1 BY <2>2, <2>5, <2>12
    <3>2. j < k \/ j > k BY <1>2, <3>1
    <3> QED BY <1>2, <2>3, <2>4, <3>1, <3>2
  <2> QED BY <2>8, <2>10, <2>11, <2>12
<1> QED BY <1>3, <1>7, <1>8

LEMMA HoldsNone == Holds(NoBins, {})
<1>1. NoBins \in Seq(Int \X Nat) /\ DOMAIN NoBins = {} BY DEF NoBins
<1>2. Ordered(NoBins) BY <1>1 DEF Ordered
<1>3. IsFiniteSet({}) /\ Cardinality({}) = 0 BY FS_EmptySet
<1>4. \A v : Fiber({}, v) = {} BY DEF Fiber
<1>5. \A v : CountIn(NoBins, v) = 0 BY <1>1 DEF CountIn
<1> QED BY <1>2, <1>3, <1>4, <1>5 DEF Holds

LEMMA HoldsMore ==
    ASSUME NEW bins, NEW P, Holds(bins, P), NEW e, e \notin P, NEW v \in Int, e[2] = v
    PROVE  Holds(Incremented(bins, v), P \cup {e})
<1>1. PICK b : b = Incremented(bins, v) OBVIOUS
<1>2. Ordered(bins) /\ IsFiniteSet(P) /\ (\A p \in P : p[2] \in Int)
  BY DEF Holds
<1>3. /\ Ordered(b) /\ CountIn(b, v) = CountIn(bins, v) + 1
      /\ \A w : w # v => CountIn(b, w) = CountIn(bins, w)
  BY <1>1, <1>2, IncrementedCounts
<1>4. PICK Q : Q = P \cup {e} OBVIOUS
<1>5. IsFiniteSet(Q) BY <1>2, <1>4, FS_AddElement
<1>6. \A p \in Q : p[2] \in Int BY <1>2, <1>4
<1>7. ASSUME NEW w \in Int PROVE CountIn(b, w) = Cardinality(Fiber(Q, w))
  <2>1. IsFiniteSet(Fiber(P, w))
    <3>1. Fiber(P, w) \subseteq P BY DEF Fiber
    <3> QED BY <1>2, <3>1, FS_Subset
  <2>2. CountIn(bins, w) = Cardinality(Fiber(P, w)) BY DEF Holds
  <2>3. CASE w = v
    <3>1. Fiber(Q, w) = Fiber(P, w) \cup {e} BY <1>4, <2>3 DEF Fiber
    <3>2. e \notin Fiber(P, w) BY DEF Fiber
    <3>3. Cardinality(Fiber(Q, w)) = Cardinality(Fiber(P, w)) + 1 BY <2>1, <3>1, <3>2, FS_AddElement
    <3> QED BY <1>3, <2>2, <2>3, <3>3
  <2>4. CASE w # v
    <3>1. Fiber(Q, w) = Fiber(P, w) BY <1>4, <2>4 DEF Fiber
    <3> QED BY <1>3, <2>2, <2>4, <3>1
  <2> QED BY <2>3, <2>4
<1>8. Holds(b, Q) BY <1>3, <1>5, <1>6, <1>7 DEF Holds
<1> QED BY <1>1, <1>4, <1>8

-----------------------------------------------------------------------------
LEMMA SumIs ==
    ASSUME NEW g, IsFiniteSet(DOMAIN g), \A i \in DOMAIN g : g[i] \in Int
    PROVE  Sum(g) = SumOf(g, DOMAIN g)
<1> DEFINE S == DOMAIN g
<1>1. PICK h \in [SUBSET S -> Int] : Sums(h, g, S) BY SumsExist
<1>2. \A s \in SUBSET S : s # {} => g[Pick(s)] = g[Pick(s)] OBVIOUS
<1>3. h = [s \in SUBSET S |-> IF s = {} THEN 0 ELSE g[Pick(s)] + h[s \ {Pick(s)}]]
  BY <1>1 DEF Sums
<1> DEFINE Is(i) == i = [s \in SUBSET S |-> IF s = {} THEN 0 ELSE g[Pick(s)] + i[s \ {Pick(s)}]]
           iter == CHOOSE i : Is(i)
<1>4. Sum(g) = iter[S]
  BY DEF Sum, MapThenSumSet, MapThenFoldSet, Pick
<1>5. Is(iter)
  <2> HIDE DEF Is
  <2>1. Is(h) BY <1>3 DEF Is
  <2> QED BY <2>1, Zenon
<1>6. Sums(iter, g, S)
  <2> HIDE DEF iter
  <2> QED BY <1>5 DEF Sums
<1>7. SumOf(g, S) = iter[S]
  <2> HIDE DEF iter
  <2> QED BY <1>6, SumOfIs
<1> QED BY <1>4, <1>7

LEMMA FiberFinite ==
    ASSUME NEW P, IsFiniteSet(P), NEW v
    PROVE  IsFiniteSet(Fiber(P, v)) /\ Cardinality(Fiber(P, v)) \in Nat
<1>1. Fiber(P, v) \subseteq P BY DEF Fiber
<1> QED BY <1>1, FS_Subset, FS_CardinalityType

(* Each pair is in one bin.                                                *)
LEMMA HoldsTotal ==
    ASSUME NEW bins, NEW P, Holds(bins, P)
    PROVE  Total(bins) = Cardinality(P)
<1> DEFINE n == Len(bins)
           g == [i \in DOMAIN bins |-> bins[i][2]]
           Q(k) == {p \in P : \E i \in 1 .. k : bins[i][1] = p[2]}
           T == {k \in 0 .. n : SumOf(g, 1 .. k) = Cardinality(Q(k))}
<1>1. /\ Ordered(bins) /\ IsFiniteSet(P) /\ (\A p \in P : p[2] \in Int)
      /\ \A v \in Int : CountIn(bins, v) = Cardinality(Fiber(P, v))
  BY DEF Holds
<1>2. bins \in Seq(Int \X Nat) BY <1>1 DEF Ordered
<1>3. n \in Nat /\ DOMAIN bins = 1 .. n /\ \A i \in 1 .. n : bins[i] \in Int \X Nat
  BY <1>2, LenProperties, ElementOfSeq
<1>4. \A i \in 1 .. n : bins[i][1] \in Int /\ bins[i][2] \in Nat BY <1>3
<1>5. \A i \in 1 .. n, j \in 1 .. n : i < j => bins[i][1] < bins[j][1] BY <1>1, <1>3 DEF Ordered
<1>6. \A k : IsFiniteSet(Q(k)) /\ Cardinality(Q(k)) \in Nat
  <2> SUFFICES ASSUME NEW k PROVE IsFiniteSet(Q(k)) /\ Cardinality(Q(k)) \in Nat OBVIOUS
  <2>1. Q(k) \subseteq P OBVIOUS
  <2> HIDE DEF Q
  <2> QED BY <1>1, <2>1, FS_Subset, FS_CardinalityType
<1>7. 0 \in T
  <2>1. 1 .. 0 = {} OBVIOUS
  <2>2. Q(0) = {} BY <2>1
  <2>3. SumOf(g, {}) = 0 BY SumOfNone
  <2>4. Cardinality({}) = 0 BY FS_EmptySet
  <2>5. SumOf(g, 1 .. 0) = SumOf(g, {}) BY <2>1
  <2>6. Cardinality(Q(0)) = 0 BY <2>2, <2>4
  <2> HIDE DEF g, Q, n
  <2>7. SumOf(g, 1 .. 0) = Cardinality(Q(0)) BY <2>3, <2>5, <2>6
  <2>8. 0 \in 0 .. n BY <1>3
  <2> QED BY <2>7, <2>8
<1>8. ASSUME NEW k \in 1 .. n, k - 1 \in T PROVE k \in T
  <2> DEFINE S == 1 .. (k - 1)
             v == bins[k][1]
  <2>1. 1 .. k = S \cup {k} /\ k \notin S /\ S \subseteq 1 .. n
    <3>1. k \in Nat \ {0} BY <1>3
    <3> QED BY <1>3, <3>1, LastOfInterval
  <2>2. SumOf(g, S \cup {k}) = SumOf(g, S) + g[k]
    <3>1. IsFiniteSet(S)
      <4>1. 1 \in Int /\ k - 1 \in Int BY <1>3
      <4> QED BY <4>1, FS_Interval
    <3>2. \A i \in 1 .. n : g[i] = bins[i][2] BY <1>3
    <3>3. \A i \in S : g[i] \in Int /\ g[i] = g[i] BY <1>4, <2>1, <3>2
    <3>4. g[k] \in Int BY <1>4, <3>2
    <3> HIDE DEF g, S
    <3> QED BY <2>1, <3>1, <3>3, <3>4, SumOfMore
  <2>3. g[k] = Cardinality(Fiber(P, v))
    <3>1. g[k] = bins[k][2] /\ v \in Int BY <1>3, <1>4
    <3>2. CountIn(bins, v) = bins[k][2] BY <1>1, <1>3, CountOf
    <3> QED BY <1>1, <3>1, <3>2
  <2>4. Q(k) = Q(k - 1) \cup Fiber(P, v)
    <3>1. \A p \in P : p \in Q(k) <=> p \in Q(k - 1) \/ p[2] = v BY <2>1
    <3> HIDE DEF v
    <3>2. Q(k) \subseteq P /\ Q(k - 1) \subseteq P OBVIOUS
    <3> HIDE DEF Q
    <3> QED BY <3>1, <3>2 DEF Fiber
  <2>5. Q(k - 1) \cap Fiber(P, v) = {}
    <3> SUFFICES ASSUME NEW i \in S PROVE bins[i][1] # v BY DEF Fiber
    <3>1. i \in 1 .. n /\ i < k BY <1>3, <2>1
    <3>2. bins[i][1] < bins[k][1] BY <1>5, <3>1
    <3>3. PICK a, c : a = bins[i][1] /\ c = bins[k][1] OBVIOUS
    <3>4. a \in Int /\ c \in Int /\ a < c BY <1>4, <3>1, <3>2, <3>3
    <3>5. a # c BY <3>4
    <3> QED BY <3>3, <3>5
  <2>6. Cardinality(Q(k)) = Cardinality(Q(k - 1)) + Cardinality(Fiber(P, v))
    <3>1. IsFiniteSet(Fiber(P, v)) /\ Cardinality(Fiber(P, v)) \in Nat BY <1>1, FiberFinite
    <3>2. IsFiniteSet(Q(k - 1)) /\ Cardinality(Q(k - 1)) \in Nat BY <1>6
    <3>3. PICK A, B : A = Q(k - 1) /\ B = Fiber(P, v) OBVIOUS
    <3>4. Cardinality(A \cup B) = Cardinality(A) + Cardinality(B) - Cardinality(A \cap B)
      BY <3>1, <3>2, <3>3, FS_Union
    <3>5. Cardinality({}) = 0 BY FS_EmptySet
    <3>6. Cardinality(Q(k)) = Cardinality(A) + Cardinality(B) - 0 BY <2>4, <2>5, <3>3, <3>4, <3>5
    <3> QED BY <3>1, <3>2, <3>3, <3>6
  <2>7. SumOf(g, S) = Cardinality(Q(k - 1)) BY <1>8
  <2> HIDE DEF g, Q, S
  <2>8. SumOf(g, 1 .. k) = Cardinality(Q(k)) BY <2>1, <2>2, <2>3, <2>6, <2>7
  <2>9. k \in 0 .. n BY <1>3
  <2> QED BY <2>8, <2>9
<1>9. SumOf(g, 1 .. n) = Cardinality(Q(n))
  <2>1. \A k \in 1 .. n : k - 1 \in T => k \in T BY <1>8
  <2> HIDE DEF T, n
  <2>2. \A k \in 0 .. n : k \in T BY <1>3, <1>7, <2>1, Upwards
  <2>3. n \in T BY <1>3, <2>2
  <2> QED BY <2>3 DEF T
<1>10. Q(n) = P
  <2> SUFFICES ASSUME NEW p \in P PROVE \E i \in 1 .. n : bins[i][1] = p[2] OBVIOUS
  <2>1. CountIn(bins, p[2]) = Cardinality(Fiber(P, p[2])) BY <1>1
  <2>2. p \in Fiber(P, p[2]) BY DEF Fiber
  <2>3. Cardinality(Fiber(P, p[2])) # 0 BY <1>1, <2>2, FiberFinite, FS_EmptySet
  <2>4. (\A i \in DOMAIN bins : bins[i][1] # p[2]) => CountIn(bins, p[2]) = 0 BY <1>1, CountOf
  <2> QED BY <1>3, <2>1, <2>3, <2>4
<1>11. Total(bins) = SumOf(g, 1 .. n)
  <2>1. DOMAIN g = 1 .. n BY <1>3
  <2>2. IsFiniteSet(1 .. n)
    <3>1. 1 \in Int /\ n \in Int BY <1>3
    <3> QED BY <3>1, FS_Interval
  <2>3. \A i \in 1 .. n : g[i] \in Int BY <1>3, <1>4
  <2>4. Total(bins) = Sum(g) BY DEF Total
  <2> HIDE DEF g, n
  <2> QED BY <2>1, <2>2, <2>3, <2>4, SumIs
<1> QED BY <1>9, <1>10, <1>11

LEMMA HoldsTallies ==
    ASSUME NEW bins, NEW P, Holds(bins, P)
    PROVE  Tallies(bins, P)
<1>1. Total(bins) = Cardinality(P) BY HoldsTotal
<1>2. \A p \in P : CountIn(bins, p[2]) = Cardinality({o \in P : o[2] = p[2]}) BY DEF Holds, Fiber
<1> QED BY <1>1, <1>2 DEF Tallies

-----------------------------------------------------------------------------
Histogram == {b \in Seq(Int \X Nat) : Ordered(b)}

LEMMA IncrementedType ==
    ASSUME NEW b \in Histogram, NEW v \in Int
    PROVE  Incremented(b, v) \in Histogram
<1>1. PICK c : c = Incremented(b, v) OBVIOUS
<1>2. Ordered(b) BY DEF Histogram
<1>3. Ordered(c) BY <1>1, <1>2, IncrementedCounts
<1>4. c \in Seq(Int \X Nat) BY <1>3 DEF Ordered
<1> QED BY <1>1, <1>3, <1>4 DEF Histogram

(* The histograms that a loop over places goes through.                    *)
Counts(c, bins, values, places, n) ==
    /\ c[0] = bins
    /\ \A i \in 1 .. n : c[i] = IF i \in places THEN Incremented(c[i - 1], values[i]) ELSE c[i - 1]

LEMMA CountingIs ==
    ASSUME NEW bins \in Histogram, NEW values, NEW n \in Nat, Len(values) = n, NEW places,
           \A i \in 1 .. n : i \in places => values[i] \in Int
    PROVE  \E c : Counts(c, bins, values, places, n) /\ Counting(bins, values, places) = c[n]
<1> DEFINE step == [i \in 1 .. n |-> [b \in Histogram |->
                        IF i \in places THEN Incremented(b, values[i]) ELSE b]]
<1>1. step \in [1 .. n -> [Histogram -> Histogram]]
  <2> SUFFICES ASSUME NEW i \in 1 .. n, NEW b \in Histogram, i \in places
               PROVE  Incremented(b, values[i]) \in Histogram
    OBVIOUS
  <2>1. PICK v : v = values[i] OBVIOUS
  <2>2. v \in Int BY <2>1
  <2>3. Incremented(b, v) \in Histogram BY <2>2, IncrementedType
  <2> QED BY <2>1, <2>3
<1>2. \A i \in 1 .. n : \A b \in Histogram :
          step[i][b] = IF i \in places THEN Incremented(b, values[i]) ELSE b
  OBVIOUS
<1> HIDE DEF step
<1>3. PICK g \in [0 .. n -> Histogram] : g[0] = bins /\ \A k \in 1 .. n : g[k] = step[k][g[k - 1]]
  <2>1. Iterated(n, Histogram, bins, step) BY <1>1, Iteration
  <2> QED BY <2>1 DEF Iterated
<1>4. \A i \in 1 .. n : g[i - 1] \in Histogram
  <2>1. \A i \in 1 .. n : i - 1 \in 0 .. n OBVIOUS
  <2> QED BY <2>1
<1>5. \A i \in 1 .. n : g[i] = IF i \in places THEN Incremented(g[i - 1], values[i]) ELSE g[i - 1]
  BY <1>2, <1>3, <1>4
<1>6. \A i \in 0 .. n : i # 0 => i \in 1 .. n OBVIOUS
<1> DEFINE Is(c) == c = [i \in 0 .. n |->
                           IF i = 0 THEN bins
                           ELSE IF i \in places THEN Incremented(c[i - 1], values[i]) ELSE c[i - 1]]
           counted == CHOOSE c : Is(c)
<1>7. Is(g) BY <1>3, <1>5, <1>6
<1>8. Is(counted)
  <2> HIDE DEF Is
  <2> QED BY <1>7, Zenon
<1>9. Counting(bins, values, places) = counted[n] BY DEF Counting
<1> HIDE DEF counted
<1>10. Counts(counted, bins, values, places, n)
  <2>1. 0 \in 0 .. n OBVIOUS
  <2>2. counted[0] = bins BY <1>8, <2>1
  <2>3. \A i \in 1 .. n : i \in 0 .. n /\ i # 0 OBVIOUS
  <2>4. \A i \in 1 .. n : counted[i] = IF i \in places THEN Incremented(counted[i - 1], values[i])
                                       ELSE counted[i - 1]
    BY <1>8, <2>3
  <2> QED BY <2>2, <2>4 DEF Counts
<1> QED BY <1>9, <1>10

(* The pairs <<<<n, place>>, value>> that a loop adds.                     *)
PlacesOf(n, values, places) == {<< <<n, j>>, values[j]>> : j \in places}

LEMMA CountingHolds ==
    ASSUME NEW bins, NEW P, Holds(bins, P), NEW values, NEW N \in Nat, Len(values) = N,
           NEW places \in SUBSET (1 .. N), \A i \in places : values[i] \in Int,
           NEW n, \A p \in P : \A j \in 1 .. N : p[1] # <<n, j>>
    PROVE  Holds(Counting(bins, values, places), P \cup PlacesOf(n, values, places))
<1>1. bins \in Histogram
  <2>1. Ordered(bins) BY DEF Holds
  <2> QED BY <2>1 DEF Ordered, Histogram
<1>2. PICK c : Counts(c, bins, values, places, N) /\ Counting(bins, values, places) = c[N]
  <2>1. \A i \in 1 .. N : i \in places => values[i] \in Int OBVIOUS
  <2> QED BY <1>1, <2>1, CountingIs
<1> DEFINE Upto(k) == {j \in places : j <= k}
           Q(k) == P \cup PlacesOf(n, values, Upto(k))
           T == {k \in 0 .. N : Holds(c[k], Q(k))}
<1>3. 0 \in T
  <2>0. \A j \in places : j \in 1 .. N /\ ~(j <= 0) OBVIOUS
  <2>1. Upto(0) = {} BY <2>0
  <2>2. Q(0) = P BY <2>1 DEF PlacesOf
  <2>3. c[0] = bins BY <1>2 DEF Counts
  <2>4. 0 \in 0 .. N OBVIOUS
  <2> HIDE DEF Q
  <2> QED BY <2>2, <2>3, <2>4
<1>4. ASSUME NEW k \in 1 .. N, k - 1 \in T PROVE k \in T
  <2>1. c[k] = IF k \in places THEN Incremented(c[k - 1], values[k]) ELSE c[k - 1]
    BY <1>2 DEF Counts
  <2>2. Holds(c[k - 1], Q(k - 1)) BY <1>4
  <2>3. k \in 0 .. N OBVIOUS
  <2>4. CASE k \notin places
    <3>1. \A j \in places : j <= k <=> j <= k - 1
      <4> SUFFICES ASSUME NEW j \in places PROVE j <= k <=> j <= k - 1 OBVIOUS
      <4>1. j \in 1 .. N /\ j # k BY <2>4
      <4> QED BY <4>1
    <3>2. Upto(k) = Upto(k - 1) BY <3>1
    <3>3. Q(k) = Q(k - 1) BY <3>2
    <3> HIDE DEF Q
    <3> QED BY <2>1, <2>2, <2>3, <2>4, <3>3
  <2>5. CASE k \in places
    <3> DEFINE e == << <<n, k>>, values[k]>>
    <3>1. \A j \in places : j <= k <=> j <= k - 1 \/ j = k
      <4> SUFFICES ASSUME NEW j \in places PROVE j <= k <=> j <= k - 1 \/ j = k OBVIOUS
      <4>1. j \in 1 .. N OBVIOUS
      <4> QED BY <4>1
    <3>2. Upto(k) = Upto(k - 1) \cup {k} BY <2>5, <3>1
    <3>3. k \notin Upto(k - 1)
      <4>1. ~(k <= k - 1) OBVIOUS
      <4> QED BY <4>1
    <3> HIDE DEF Upto
    <3>4. Q(k) = Q(k - 1) \cup {e} BY <3>2 DEF PlacesOf
    <3>5. e \notin Q(k - 1)
      <4>1. e \notin P BY <2>5
      <4>2. e \notin PlacesOf(n, values, Upto(k - 1))
        <5> SUFFICES ASSUME NEW j \in Upto(k - 1), << <<n, j>>, values[j]>> = e PROVE FALSE
          BY DEF PlacesOf
        <5>1. j = k OBVIOUS
        <5> QED BY <3>3, <5>1
      <4> QED BY <4>1, <4>2
    <3>6. PICK v : v = values[k] OBVIOUS
    <3>7. v \in Int /\ e[2] = v BY <2>5, <3>6
    <3> HIDE DEF e, Q
    <3>8. Holds(Incremented(c[k - 1], v), Q(k - 1) \cup {e})
      <4>1. PICK b, R, x : b = c[k - 1] /\ R = Q(k - 1) /\ x = e OBVIOUS
      <4>2. Holds(b, R) /\ x \notin R /\ x[2] = v BY <2>2, <3>5, <3>7, <4>1
      <4>3. Holds(Incremented(b, v), R \cup {x}) BY <3>7, <4>2, HoldsMore
      <4> QED BY <4>1, <4>3
    <3>9. c[k] = Incremented(c[k - 1], v) BY <2>1, <2>5, <3>6
    <3>10. Holds(c[k], Q(k)) BY <3>4, <3>8, <3>9
    <3> QED BY <2>3, <3>10
  <2> QED BY <2>4, <2>5
<1>5. Holds(c[N], Q(N))
  <2>1. \A k \in 1 .. N : k - 1 \in T => k \in T BY <1>4
  <2> HIDE DEF T
  <2>2. \A k \in 0 .. N : k \in T BY <1>3, <2>1, Upwards
  <2>3. N \in T BY <2>2
  <2> QED BY <2>3 DEF T
<1>6. Q(N) = P \cup PlacesOf(n, values, places)
  <2>0. \A j \in places : j \in 1 .. N /\ j <= N OBVIOUS
  <2>1. Upto(N) = places BY <2>0
  <2> HIDE DEF Upto
  <2> QED BY <2>1
<1> HIDE DEF Q
<1> QED BY <1>2, <1>5, <1>6

-----------------------------------------------------------------------------
(* A function that tells the elements of a finite set apart has as many    *)
(* values.                                                                 *)
LEMMA AsMany ==
    ASSUME NEW S, IsFiniteSet(S), NEW f, \A x \in S, y \in S : f[x] = f[y] => x = y
    PROVE  IsFiniteSet({f[x] : x \in S}) /\ Cardinality({f[x] : x \in S}) = Cardinality(S)
<1> DEFINE T == {f[x] : x \in S}
           g == [x \in S |-> f[x]]
<1>1. g \in [S -> T] OBVIOUS
<1>2. IsInjective(g) BY DEF IsInjective
<1>3. g \in Injection(S, T) BY <1>1, <1>2 DEF Injection
<1>4. g \in Surjection(S, T) BY <1>1 DEF Surjection
<1>5. ExistsBijection(S, T) BY <1>3, <1>4 DEF ExistsBijection, Bijection
<1> HIDE DEF T
<1>6. IsFiniteSet(T) /\ Cardinality(T) = Cardinality(S) BY <1>5, FS_Bijection
<1> QED BY <1>6 DEF T

(* Several occurrences more.                                               *)
LEMMA HoldsTogether ==
    ASSUME NEW b, NEW P, Holds(b, P), NEW c, Ordered(c), NEW E, IsFiniteSet(E), E \cap P = {},
           NEW v \in Int, \A e \in E : e[2] = v,
           CountIn(c, v) = CountIn(b, v) + Cardinality(E),
           \A w : w # v => CountIn(c, w) = CountIn(b, w)
    PROVE  Holds(c, P \cup E)
<1>1. IsFiniteSet(P) /\ (\A p \in P : p[2] \in Int)
      /\ \A w \in Int : CountIn(b, w) = Cardinality(Fiber(P, w))
  BY DEF Holds
<1>2. PICK Q : Q = P \cup E OBVIOUS
<1>3. IsFiniteSet(Q) /\ \A p \in Q : p[2] \in Int BY <1>1, <1>2, FS_Union
<1>4. ASSUME NEW w \in Int PROVE CountIn(c, w) = Cardinality(Fiber(Q, w))
  <2>1. IsFiniteSet(Fiber(P, w)) BY <1>1, FiberFinite
  <2>2. CASE w = v
    <3>1. Fiber(Q, w) = Fiber(P, w) \cup E BY <1>2, <2>2 DEF Fiber
    <3>2. Fiber(P, w) \cap E = {} BY DEF Fiber
    <3>3. PICK A : A = Fiber(P, w) OBVIOUS
    <3>4. Cardinality(A \cup E) = Cardinality(A) + Cardinality(E) - Cardinality(A \cap E)
      BY <2>1, <3>3, FS_Union
    <3>5. Cardinality({}) = 0 BY FS_EmptySet
    <3>6. Cardinality(A) \in Nat /\ Cardinality(E) \in Nat BY <2>1, <3>3, FS_CardinalityType
    <3>8. Cardinality(A \cap E) = 0 BY <3>2, <3>3, <3>5
    <3>9. Cardinality(A \cup E) = Cardinality(A) + Cardinality(E) BY <3>4, <3>6, <3>8
    <3>7. Cardinality(Fiber(Q, w)) = Cardinality(A) + Cardinality(E) BY <3>1, <3>3, <3>9
    <3> QED BY <1>1, <2>2, <3>3, <3>7
  <2>3. CASE w # v
    <3>1. Fiber(Q, w) = Fiber(P, w) BY <1>2, <2>3 DEF Fiber
    <3> QED BY <1>1, <2>3, <3>1
  <2> QED BY <2>2, <2>3
<1>5. Holds(c, Q) BY <1>3, <1>4 DEF Holds
<1> QED BY <1>2, <1>5

(* m occurrences more of the greatest value.                               *)
Raised(b, t, m) ==
    LET n == Len(b)
    IN IF n > 0 /\ b[n][1] = t THEN [b EXCEPT ![n] = <<t, b[n][2] + m>>] ELSE Append(b, <<t, m>>)

LEMMA RaisedCounts ==
    ASSUME NEW b, Ordered(b), NEW t \in Int, NEW m \in Nat \ {0},
           Len(b) > 0 => b[Len(b)][1] <= t, NEW c, c = Raised(b, t, m)
    PROVE  /\ Ordered(c)
           /\ CountIn(c, t) = CountIn(b, t) + m
           /\ \A w : w # t => CountIn(c, w) = CountIn(b, w)
           /\ Len(c) > 0 /\ c[Len(c)][1] = t
<1> DEFINE n == Len(b)
<1>1. b \in Seq(Int \X Nat) BY DEF Ordered
<1>2. n \in Nat /\ DOMAIN b = 1 .. n /\ \A i \in 1 .. n : b[i] \in Int \X Nat
  BY <1>1, LenProperties, ElementOfSeq
<1>3. \A i \in 1 .. n : b[i][1] \in Int /\ b[i][2] \in Nat BY <1>2
<1>4. \A i \in 1 .. n : b[i][2] > 0 BY <1>2 DEF Ordered
<1>5. \A i \in 1 .. n, j \in 1 .. n : i < j => b[i][1] < b[j][1] BY <1>2 DEF Ordered
<1>6. /\ \A i \in DOMAIN b : CountIn(b, b[i][1]) = b[i][2]
      /\ \A w : (\A i \in DOMAIN b : b[i][1] # w) => CountIn(b, w) = 0
  BY CountOf
<1> SUFFICES /\ Ordered(c) /\ Len(c) > 0 /\ c[Len(c)] = <<t, CountIn(b, t) + m>>
             /\ \A i \in DOMAIN b : b[i][1] # t => i \in DOMAIN c /\ c[i] = b[i]
             /\ \A i \in DOMAIN c : c[i][1] # t => i \in DOMAIN b /\ c[i] = b[i]
  <2>1. ASSUME Ordered(c)
        PROVE  /\ \A i \in DOMAIN c : CountIn(c, c[i][1]) = c[i][2]
               /\ \A w : (\A i \in DOMAIN c : c[i][1] # w) => CountIn(c, w) = 0
               /\ Len(c) \in Nat /\ DOMAIN c = 1 .. Len(c)
    <3>1. c \in Seq(Int \X Nat) BY <2>1 DEF Ordered
    <3> QED BY <2>1, <3>1, CountOf, LenProperties
  <2>2. PICK l : l = Len(c) OBVIOUS
  <2>3. l \in DOMAIN c BY <2>1, <2>2
  <2>4. c[l][1] = t /\ c[l][2] = CountIn(b, t) + m BY <2>2
  <2>5. CountIn(c, t) = CountIn(b, t) + m BY <2>1, <2>3, <2>4
  <2>6. ASSUME NEW w, w # t PROVE CountIn(c, w) = CountIn(b, w)
    <3>1. CASE \E j \in DOMAIN b : b[j][1] = w
      <4>1. PICK j \in DOMAIN b : b[j][1] = w BY <3>1
      <4>2. j \in DOMAIN c /\ c[j] = b[j] BY <2>6, <4>1
      <4> QED BY <1>6, <2>1, <4>1, <4>2
    <3>2. CASE ~ \E j \in DOMAIN b : b[j][1] = w
      <4>1. \A j \in DOMAIN c : c[j][1] # w BY <2>6, <3>2
      <4> QED BY <1>6, <2>1, <3>2, <4>1
    <3> QED BY <3>1, <3>2
  <2> QED BY <2>2, <2>4, <2>5, <2>6
<1>7. CASE n > 0 /\ b[n][1] = t
  <2>1. c = [b EXCEPT ![n] = <<t, b[n][2] + m>>] BY <1>7 DEF Raised
  <2>2. n \in 1 .. n BY <1>2, <1>7
  <2>3. b[n][2] + m \in Nat /\ b[n][2] + m > 0 BY <1>3, <2>2
  <2>4. <<t, b[n][2] + m>> \in Int \X Nat BY <2>3
  <2>5. /\ c \in Seq(Int \X Nat) /\ Len(c) = n
        /\ \A j \in 1 .. n : c[j] = IF j = n THEN <<t, b[n][2] + m>> ELSE b[j]
    BY <1>1, <2>1, <2>2, <2>4, ExceptSeq
  <2>6. DOMAIN c = 1 .. n BY <2>5, LenProperties
  <2>7. c[n] = <<t, b[n][2] + m>> BY <2>2, <2>5
  <2>8. c[n][1] = t /\ c[n][2] = b[n][2] + m BY <2>7
  <2>9. \A j \in 1 .. n : j # n => c[j] = b[j] BY <2>5
  <2>10. \A j \in 1 .. n : c[j][1] = b[j][1] BY <1>7, <2>8, <2>9
  <2>11. \A j \in 1 .. n : c[j][2] > 0 BY <1>4, <2>3, <2>8, <2>9
  <2>12. \A i \in 1 .. n, j \in 1 .. n : i < j => c[i][1] < c[j][1] BY <1>5, <2>10
  <2>13. Ordered(c) BY <2>5, <2>6, <2>11, <2>12 DEF Ordered
  <2>14. CountIn(b, t) = b[n][2] BY <1>2, <1>6, <1>7, <2>2
  <2>15. \A i \in 1 .. n : b[i][1] # t => c[i] = b[i] BY <1>7, <2>9
  <2> QED BY <1>2, <1>7, <2>5, <2>6, <2>7, <2>10, <2>13, <2>14, <2>15
<1>8. CASE ~(n > 0 /\ b[n][1] = t)
  <2>1. c = Append(b, <<t, m>>) BY <1>8 DEF Raised
  <2>2. <<t, m>> \in Int \X Nat OBVIOUS
  <2>3. PICK x : x = <<t, m>> OBVIOUS
  <2>4. /\ c \in Seq(Int \X Nat) /\ Len(c) = n + 1
        /\ DOMAIN c = (1 .. n) \cup {n + 1} /\ c[n + 1] = x
        /\ \A i \in 1 .. n : c[i] = b[i]
    BY <1>1, <2>1, <2>2, <2>3, AppendOne
  <2>5. c[n + 1][1] = t /\ c[n + 1][2] = m BY <2>3, <2>4
  <2>6. \A i \in 1 .. n : b[i][1] < t
    <3> SUFFICES ASSUME NEW i \in 1 .. n PROVE b[i][1] < t OBVIOUS
    <3>1. n > 0 /\ n \in 1 .. n BY <1>2
    <3>2. PICK a, z : a = b[i][1] /\ z = b[n][1] OBVIOUS
    <3>3. a \in Int /\ z \in Int /\ z <= t /\ z # t BY <1>3, <1>8, <3>1, <3>2
    <3>4. i < n => a < z BY <1>5, <3>1, <3>2
    <3>5. i = n => a = z BY <3>2
    <3>0. n \in Nat BY <1>2
    <3> HIDE DEF n
    <3>7. i < n \/ i = n BY <3>0
    <3>6. a < t BY <3>3, <3>4, <3>5, <3>7
    <3> QED BY <3>2, <3>6
  <2>7. \A i \in 1 .. n : b[i][1] # t
    <3> SUFFICES ASSUME NEW i \in 1 .. n PROVE b[i][1] # t OBVIOUS
    <3>1. PICK a : a = b[i][1] OBVIOUS
    <3>2. a \in Int /\ a < t BY <1>3, <2>6, <3>1
    <3> QED BY <3>1, <3>2
  <2>8. \A i \in DOMAIN c : c[i][2] > 0
    <3>1. m > 0 OBVIOUS
    <3> QED BY <1>4, <2>4, <2>5, <3>1
  <2>9. ASSUME NEW i \in DOMAIN c, NEW j \in DOMAIN c, i < j PROVE c[i][1] < c[j][1]
    <3>1. i \in 1 .. n BY <1>2, <2>4, <2>9
    <3>2. CASE j \in 1 .. n BY <1>5, <2>4, <2>9, <3>1, <3>2
    <3>3. CASE j = n + 1 BY <2>4, <2>5, <2>6, <3>1, <3>3
    <3> QED BY <2>4, <3>2, <3>3
  <2>10. Ordered(c) BY <2>4, <2>8, <2>9 DEF Ordered
  <2>11. CountIn(b, t) = 0 BY <1>2, <1>6, <2>7
  <2>12. c[n + 1] = <<t, CountIn(b, t) + m>> BY <2>3, <2>4, <2>11
  <2>13. Len(c) > 0 BY <1>2, <2>4
  <2>14. \A i \in DOMAIN c : c[i][1] # t => i \in DOMAIN b /\ c[i] = b[i] BY <1>2, <2>4, <2>5
  <2>15. \A i \in DOMAIN b : i \in DOMAIN c /\ c[i] = b[i] BY <1>2, <2>4
  <2> QED BY <2>4, <2>10, <2>12, <2>13, <2>14, <2>15
<1> QED BY <1>7, <1>8

-----------------------------------------------------------------------------
TypesCounted(c, bins, n) ==
    /\ c[0] = NoBins
    /\ \A i \in 1 .. n : c[i] = Raised(c[i - 1], bins[i][1] \div 256, bins[i][2])

LEMMA TypeCountsIs ==
    ASSUME NEW bins \in Seq(Int \X Nat)
    PROVE  \E c : TypesCounted(c, bins, Len(bins)) /\ TypeCounts(bins) = c[Len(bins)]
<1> DEFINE n == Len(bins)
           B == Seq(Int \X Nat)
           step == [i \in 1 .. n |-> [b \in B |-> Raised(b, bins[i][1] \div 256, bins[i][2])]]
<1>1. n \in Nat /\ \A i \in 1 .. n : bins[i] \in Int \X Nat
  BY LenProperties, ElementOfSeq
<1>2. step \in [1 .. n -> [B -> B]]
  <2> SUFFICES ASSUME NEW i \in 1 .. n, NEW b \in B
               PROVE  Raised(b, bins[i][1] \div 256, bins[i][2]) \in B
    OBVIOUS
  <2>1. bins[i][1] \in Int /\ bins[i][2] \in Nat BY <1>1
  <2>2. PICK t, m : t = bins[i][1] \div 256 /\ m = bins[i][2] OBVIOUS
  <2>3. t \in Int /\ m \in Nat
    <3>1. PICK a : a = bins[i][1] OBVIOUS
    <3>2. a \in Int /\ t = a \div 256 BY <2>1, <2>2, <3>1
    <3>3. t \in Int BY <3>2
    <3> QED BY <2>1, <2>2, <3>3
  <2>4. CASE Len(b) > 0 /\ b[Len(b)][1] = t
    <3>1. Raised(b, t, m) = [b EXCEPT ![Len(b)] = <<t, b[Len(b)][2] + m>>] BY <2>4 DEF Raised
    <3>2. Len(b) \in Nat /\ Len(b) \in 1 .. Len(b) BY <2>4, LenProperties
    <3>3. b[Len(b)] \in Int \X Nat BY <3>2, ElementOfSeq
    <3>6. PICK a : a = b[Len(b)][2] OBVIOUS
    <3>7. a \in Nat BY <3>3, <3>6
    <3>8. a + m \in Nat BY <2>3, <3>7
    <3>4. <<t, b[Len(b)][2] + m>> \in Int \X Nat BY <2>3, <3>6, <3>8
    <3>5. [b EXCEPT ![Len(b)] = <<t, b[Len(b)][2] + m>>] \in B BY <3>2, <3>4, ExceptSeq
    <3> QED BY <2>2, <3>1, <3>5
  <2>5. CASE ~(Len(b) > 0 /\ b[Len(b)][1] = t)
    <3>1. Raised(b, t, m) = Append(b, <<t, m>>) BY <2>5 DEF Raised
    <3>2. <<t, m>> \in Int \X Nat BY <2>3
    <3>3. Append(b, <<t, m>>) \in B BY <3>2, AppendProperties
    <3> QED BY <2>2, <3>1, <3>3
  <2> QED BY <2>4, <2>5
<1>3. \A i \in 1 .. n : \A b \in B : step[i][b] = Raised(b, bins[i][1] \div 256, bins[i][2])
  OBVIOUS
<1>4. NoBins \in B BY DEF NoBins
<1> HIDE DEF step, B
<1>5. PICK g \in [0 .. n -> B] : g[0] = NoBins /\ \A k \in 1 .. n : g[k] = step[k][g[k - 1]]
  <2>1. Iterated(n, B, NoBins, step) BY <1>1, <1>2, <1>4, Iteration
  <2> QED BY <2>1 DEF Iterated
<1>6. \A i \in 1 .. n : g[i - 1] \in B
  <2>1. \A i \in 1 .. n : i - 1 \in 0 .. n BY <1>1
  <2> QED BY <2>1
<1>7. \A i \in 1 .. n : g[i] = Raised(g[i - 1], bins[i][1] \div 256, bins[i][2])
  BY <1>3, <1>5, <1>6
<1>8. \A i \in 0 .. n : i # 0 => i \in 1 .. n BY <1>1
<1> DEFINE Is(c) == c = [i \in 0 .. n |->
               IF i = 0 THEN NoBins
               ELSE LET prev == c[i - 1]
                        type == bins[i][1] \div 256
                        l == Len(prev)
                    IN IF l > 0 /\ prev[l][1] = type
                       THEN [prev EXCEPT ![l] = <<type, @[2] + bins[i][2]>>]
                       ELSE Append(prev, <<type, bins[i][2]>>)]
           Is2(c) == c = [i \in 0 .. n |->
               IF i = 0 THEN NoBins ELSE Raised(c[i - 1], bins[i][1] \div 256, bins[i][2])]
           counted == CHOOSE c : Is(c)
<1>9. \A c : Is(c) <=> Is2(c) BY DEF Raised
<1>10. Is2(g) BY <1>5, <1>7, <1>8
<1>11. Is(counted)
  <2> HIDE DEF Is, Is2
  <2>1. Is(g) BY <1>9, <1>10
  <2> QED BY <2>1, Zenon
<1>12. TypeCounts(bins) = counted[n] BY DEF TypeCounts
<1> HIDE DEF counted
<1>13. TypesCounted(counted, bins, n)
  <2>1. Is2(counted)
    <3> HIDE DEF Is, Is2
    <3> QED BY <1>9, <1>11
  <2>2. 0 \in 0 .. n /\ \A i \in 1 .. n : i \in 0 .. n /\ i # 0 BY <1>1
  <2>3. counted[0] = NoBins BY <2>1, <2>2
  <2>4. \A i \in 1 .. n : counted[i] = Raised(counted[i - 1], bins[i][1] \div 256, bins[i][2])
    BY <2>1, <2>2
  <2> QED BY <2>3, <2>4 DEF TypesCounted
<1> QED BY <1>12, <1>13

(* Pairs of which no two have the same first part.                         *)
Functional(P) ==
    /\ \A p \in P : p = <<p[1], p[2]>>
    /\ \A p \in P, q \in P : p[1] = q[1] => p = q

TypesOf(P) == {<<p[1], p[2] \div 256>> : p \in P}

LEMMA TypeCountsHold ==
    ASSUME NEW bins, NEW P, Holds(bins, P), Functional(P)
    PROVE  Holds(TypeCounts(bins), TypesOf(P))
<1> DEFINE n == Len(bins)
<1>1. /\ Ordered(bins) /\ IsFiniteSet(P) /\ (\A p \in P : p[2] \in Int)
      /\ \A v \in Int : CountIn(bins, v) = Cardinality(Fiber(P, v))
  BY DEF Holds
<1>2. bins \in Seq(Int \X Nat) BY <1>1 DEF Ordered
<1>3. n \in Nat /\ DOMAIN bins = 1 .. n /\ \A i \in 1 .. n : bins[i] \in Int \X Nat
  BY <1>2, LenProperties, ElementOfSeq
<1>4. \A i \in 1 .. n : bins[i][1] \in Int /\ bins[i][2] \in Nat BY <1>3
<1>5. \A i \in 1 .. n : bins[i][2] > 0 BY <1>1, <1>3 DEF Ordered
<1>6. \A i \in 1 .. n, j \in 1 .. n : i < j => bins[i][1] < bins[j][1] BY <1>1, <1>3 DEF Ordered
<1>7. \A i \in 1 .. n : bins[i][2] = Cardinality(Fiber(P, bins[i][1]))
  <2>1. \A i \in 1 .. n : CountIn(bins, bins[i][1]) = bins[i][2] BY <1>1, <1>3, CountOf
  <2> QED BY <1>1, <1>4, <2>1
<1>8. PICK c : TypesCounted(c, bins, n) /\ TypeCounts(bins) = c[n] BY <1>2, TypeCountsIs
<1> DEFINE Q(k) == {p \in P : \E i \in 1 .. k : bins[i][1] = p[2]}
           Final(b, t) == Len(b) > 0 => b[Len(b)][1] = t
           Is(k) == /\ Holds(c[k], TypesOf(Q(k)))
                    /\ k > 0 => Final(c[k], bins[k][1] \div 256)
                    /\ k = 0 => Len(c[k]) = 0
           T == {k \in 0 .. n : Is(k)}
<1>9. 0 \in T
  <2>1. 1 .. 0 = {} OBVIOUS
  <2>2. Q(0) = {} BY <2>1
  <2>3. TypesOf({}) = {} BY DEF TypesOf
  <2>4. c[0] = NoBins /\ Len(NoBins) = 0 BY <1>8 DEF TypesCounted, NoBins
  <2>5. Holds(c[0], TypesOf(Q(0))) BY <2>2, <2>3, <2>4, HoldsNone
  <2>6. 0 \in 0 .. n /\ ~(0 > 0) BY <1>3
  <2> HIDE DEF Q, Final, n
  <2> QED BY <2>4, <2>5, <2>6
<1>10. ASSUME NEW k \in 1 .. n, k - 1 \in T PROVE k \in T
  <2>1. PICK b, d : b = c[k - 1] /\ d = c[k] OBVIOUS
  <2>2. PICK v, t, m : v = bins[k][1] /\ t = v \div 256 /\ m = bins[k][2] OBVIOUS
  <2>3. v \in Int /\ t \in Int /\ m \in Nat \ {0}
    <3>1. v \in Int /\ m \in Nat /\ m > 0 BY <1>4, <1>5, <2>2
    <3> QED BY <2>2, <3>1
  <2>4. d = Raised(b, t, m) BY <1>8, <2>1, <2>2 DEF TypesCounted
  <2>5. Is(k - 1) BY <1>10
  <2>6. Holds(b, TypesOf(Q(k - 1)))
    <3> HIDE DEF Q, Final
    <3> QED BY <2>1, <2>5
  <2>7. Ordered(b) BY <2>6 DEF Holds
  <2>8. Len(b) > 0 => b[Len(b)][1] <= t
    <3> SUFFICES ASSUME Len(b) > 0 PROVE b[Len(b)][1] <= t OBVIOUS
    <3>1. k - 1 > 0
      <4>1. k - 1 # 0 BY <2>1, <2>5
      <4> QED BY <1>3, <4>1
    <3>2. b[Len(b)][1] = bins[k - 1][1] \div 256 BY <2>1, <2>5, <3>1
    <3>3. k - 1 \in 1 .. n /\ k - 1 < k BY <1>3, <3>1
    <3>4. PICK u : u = bins[k - 1][1] OBVIOUS
    <3>5. u \in Int /\ u < v BY <1>4, <1>6, <2>2, <3>3, <3>4
    <3>6. u \div 256 <= v \div 256 BY <2>3, <3>5
    <3> QED BY <2>2, <3>2, <3>4, <3>6
  <2>9. /\ Ordered(d)
        /\ CountIn(d, t) = CountIn(b, t) + m
        /\ \A w : w # t => CountIn(d, w) = CountIn(b, w)
        /\ Len(d) > 0 /\ d[Len(d)][1] = t
    BY <2>3, <2>4, <2>7, <2>8, RaisedCounts
  <2> DEFINE F == Fiber(P, v)
             E == TypesOf(F)
  <2>10. IsFiniteSet(E) /\ Cardinality(E) = m
    <3> DEFINE f == [p \in F |-> <<p[1], p[2] \div 256>>]
    <3>1. F \subseteq P /\ \A p \in F : p[2] = v BY DEF Fiber
    <3>2. IsFiniteSet(F) BY <1>1, FiberFinite
    <3>3. \A p \in F, q \in F : f[p] = f[q] => p = q BY <3>1 DEF Functional
    <3>4. E = {f[p] : p \in F} BY DEF TypesOf
    <3>5. Cardinality(F) = m BY <1>7, <2>2
    <3> HIDE DEF E, F, f
    <3> QED BY <3>2, <3>3, <3>4, <3>5, AsMany
  <2>11. \A e \in E : e[2] = t BY <2>2 DEF TypesOf, Fiber
  <2>12. TypesOf(Q(k)) = TypesOf(Q(k - 1)) \cup E
    <3>1. 1 .. k = (1 .. (k - 1)) \cup {k} BY <1>3
    <3>2. \A p \in P : p \in Q(k) <=> p \in Q(k - 1) \/ p \in F BY <2>2, <3>1 DEF Fiber
    <3>3. F \subseteq P /\ Q(k) \subseteq P /\ Q(k - 1) \subseteq P BY DEF Fiber
    <3> HIDE DEF Q, F
    <3>4. Q(k) = Q(k - 1) \cup F BY <3>2, <3>3
    <3> QED BY <3>4 DEF TypesOf
  <2>13. E \cap TypesOf(Q(k - 1)) = {}
    <3> SUFFICES ASSUME NEW p \in F, NEW q \in Q(k - 1), p[1] = q[1] PROVE FALSE BY DEF TypesOf
    <3>1. p \in P /\ p[2] = v /\ q \in P BY DEF Fiber
    <3>2. p = q BY <3>1 DEF Functional
    <3>3. PICK i \in 1 .. (k - 1) : bins[i][1] = v BY <3>1, <3>2
    <3>4. i \in 1 .. n /\ i < k BY <1>3
    <3>5. v < v BY <1>6, <2>2, <3>3, <3>4
    <3> QED BY <2>3, <3>5
  <2>14. Holds(d, TypesOf(Q(k)))
    <3>1. PICK A, B : A = TypesOf(Q(k - 1)) /\ B = E OBVIOUS
    <3> HIDE DEF E, Q
    <3>2. Holds(b, A) /\ IsFiniteSet(B) /\ B \cap A = {} /\ (\A e \in B : e[2] = t)
          /\ CountIn(d, t) = CountIn(b, t) + Cardinality(B)
      BY <2>6, <2>9, <2>10, <2>11, <2>13, <3>1
    <3>3. Holds(d, A \cup B) BY <2>3, <2>9, <3>2, HoldsTogether
    <3> QED BY <2>12, <3>1, <3>3
  <2>15. Final(d, bins[k][1] \div 256) BY <2>2, <2>9
  <2>16. k \in 0 .. n /\ k # 0 BY <1>3
  <2> HIDE DEF Q, Final, n
  <2> QED BY <2>1, <2>14, <2>15, <2>16
<1>11. Holds(c[n], TypesOf(Q(n)))
  <2>1. \A k \in 1 .. n : k - 1 \in T => k \in T BY <1>10
  <2> HIDE DEF T, n
  <2>2. \A k \in 0 .. n : k \in T BY <1>3, <1>9, <2>1, Upwards
  <2>3. n \in T BY <1>3, <2>2
  <2> HIDE DEF Q
  <2> QED BY <2>3 DEF T
<1>12. Q(n) = P
  <2> SUFFICES ASSUME NEW p \in P PROVE \E i \in 1 .. n : bins[i][1] = p[2] OBVIOUS
  <2>1. CountIn(bins, p[2]) = Cardinality(Fiber(P, p[2])) BY <1>1
  <2>2. p \in Fiber(P, p[2]) BY DEF Fiber
  <2>3. Cardinality(Fiber(P, p[2])) # 0 BY <1>1, <2>2, FiberFinite, FS_EmptySet
  <2>4. (\A i \in DOMAIN bins : bins[i][1] # p[2]) => CountIn(bins, p[2]) = 0 BY <1>1, CountOf
  <2> QED BY <1>3, <2>1, <2>3, <2>4
<1> QED BY <1>8, <1>11, <1>12

-----------------------------------------------------------------------------
ValuesIn(P) == {p[2] : p \in P}

(* There is a bin for each value.                                          *)
LEMMA HoldsValues ==
    ASSUME NEW bins, NEW P, Holds(bins, P)
    PROVE  /\ IsFiniteSet(ValuesIn(P)) /\ Cardinality(ValuesIn(P)) = Len(bins) /\ Len(bins) \in Nat
           /\ \A v \in Int : CountIn(bins, v) = 0 <=> v \notin ValuesIn(P)
<1> DEFINE n == Len(bins)
           f == [i \in 1 .. n |-> bins[i][1]]
<1>1. /\ Ordered(bins) /\ IsFiniteSet(P) /\ (\A p \in P : p[2] \in Int)
      /\ \A v \in Int : CountIn(bins, v) = Cardinality(Fiber(P, v))
  BY DEF Holds
<1>2. bins \in Seq(Int \X Nat) BY <1>1 DEF Ordered
<1>3. n \in Nat /\ DOMAIN bins = 1 .. n /\ \A i \in 1 .. n : bins[i] \in Int \X Nat
  BY <1>2, LenProperties, ElementOfSeq
<1>4. \A i \in 1 .. n : bins[i][1] \in Int /\ bins[i][2] \in Nat BY <1>3
<1>5. \A i \in 1 .. n : bins[i][2] > 0 BY <1>1, <1>3 DEF Ordered
<1>6. \A i \in 1 .. n, j \in 1 .. n : i < j => bins[i][1] < bins[j][1] BY <1>1, <1>3 DEF Ordered
<1>7. IsFiniteSet(1 .. n) /\ Cardinality(1 .. n) = n
  <2>1. 1 \in Int /\ n \in Int BY <1>3
  <2>2. IsFiniteSet(1 .. n) /\ Cardinality(1 .. n) = IF 1 > n THEN 0 ELSE n - 1 + 1
    BY <2>1, FS_Interval
  <2> HIDE DEF n
  <2> QED BY <1>3, <2>2
<1>8. ASSUME NEW i \in 1 .. n, NEW j \in 1 .. n, f[i] = f[j] PROVE i = j
  <2>1. PICK a : a = bins[i][1] /\ a = bins[j][1] BY <1>8
  <2>2. a \in Int /\ ~(a < a) BY <1>4, <2>1
  <2>3. ~(i < j) /\ ~(j < i) BY <1>6, <2>1, <2>2
  <2> QED BY <1>3, <2>3
<1>9. \A v \in Int : CountIn(bins, v) = 0 <=> v \notin ValuesIn(P)
  <2> SUFFICES ASSUME NEW v \in Int PROVE Cardinality(Fiber(P, v)) = 0 <=> v \notin ValuesIn(P)
    BY <1>1
  <2>1. Cardinality(Fiber(P, v)) = 0 <=> Fiber(P, v) = {} BY <1>1, FiberFinite, FS_EmptySet
  <2>2. Fiber(P, v) = {} <=> v \notin ValuesIn(P) BY DEF Fiber, ValuesIn
  <2> QED BY <2>1, <2>2
<1>10. {f[i] : i \in 1 .. n} = ValuesIn(P)
  <2>1. ASSUME NEW i \in 1 .. n PROVE f[i] \in ValuesIn(P)
    <3>1. PICK a : a = bins[i][1] OBVIOUS
    <3>2. CountIn(bins, a) = bins[i][2] BY <1>1, <1>3, <3>1, CountOf
    <3>3. a \in Int /\ CountIn(bins, a) # 0
      <4>1. PICK m : m = bins[i][2] OBVIOUS
      <4>2. m > 0 /\ m \in Nat BY <1>4, <1>5, <4>1
      <4> QED BY <1>4, <3>1, <3>2, <4>1, <4>2
    <3> QED BY <1>9, <3>1, <3>3
  <2>2. ASSUME NEW v \in ValuesIn(P) PROVE \E i \in 1 .. n : f[i] = v
    <3>1. v \in Int BY <1>1 DEF ValuesIn
    <3>2. CountIn(bins, v) # 0 BY <1>9, <3>1
    <3>3. (\A i \in DOMAIN bins : bins[i][1] # v) => CountIn(bins, v) = 0 BY <1>1, CountOf
    <3> QED BY <1>3, <3>2, <3>3
  <2> HIDE DEF f
  <2> QED BY <2>1, <2>2
<1>11. IsFiniteSet(ValuesIn(P)) /\ Cardinality(ValuesIn(P)) = n
  <2>1. PICK S, g : S = 1 .. n /\ g = f OBVIOUS
  <2>2. IsFiniteSet(S) /\ \A i \in S, j \in S : g[i] = g[j] => i = j BY <1>7, <1>8, <2>1
  <2>3. IsFiniteSet({g[i] : i \in S}) /\ Cardinality({g[i] : i \in S}) = Cardinality(S)
    BY <2>2, AsMany
  <2> HIDE DEF f, n
  <2> QED BY <1>7, <1>10, <2>1, <2>3
<1> QED BY <1>3, <1>9, <1>11

(* The labels of the pairs, or no bins any more.                           *)
Labels(s, P) ==
    /\ s = [bins |-> s.bins, saturated |-> s.saturated]
    /\ IsFiniteSet(P) /\ \A p \in P : p[2] \in Int
    /\ IF Cardinality(ValuesIn(P)) <= MaxLabelBins
       THEN Holds(s.bins, P) /\ s.saturated = 0
       ELSE s.bins = NoBins /\ s.saturated = Cardinality(P)

LEMMA LabelsNone == Labels(NoFlowLabels, {})
<1>1. IsFiniteSet({}) /\ Cardinality({}) = 0 BY FS_EmptySet
<1>2. ValuesIn({}) = {} BY DEF ValuesIn
<1>3. 0 <= MaxLabelBins BY LabelBinsAssumption
<1> QED BY <1>1, <1>2, <1>3, HoldsNone DEF Labels, NoFlowLabels

LEMMA LabelsMore ==
    ASSUME NEW s, NEW P, Labels(s, P), NEW e, e \notin P, NEW ip, ip.flow_label \in Int,
           e[2] = ip.flow_label
    PROVE  Labels(FlowLabelsUpdated(s, ip), P \cup {e})
<1>1. PICK v, t, Q : v = ip.flow_label /\ t = FlowLabelsUpdated(s, ip) /\ Q = P \cup {e} OBVIOUS
<1>2. v \in Int /\ e[2] = v BY <1>1
<1>3. IsFiniteSet(P) /\ \A p \in P : p[2] \in Int BY DEF Labels
<1>4. IsFiniteSet(Q) /\ (\A p \in Q : p[2] \in Int) /\ Cardinality(Q) = Cardinality(P) + 1
  BY <1>1, <1>2, <1>3, FS_AddElement
<1>5. Cardinality(P) \in Nat BY <1>3, FS_CardinalityType
<1>6. ValuesIn(Q) = ValuesIn(P) \cup {v} BY <1>1, <1>2 DEF ValuesIn
<1>7. IsFiniteSet(ValuesIn(P))
  <2> DEFINE f == [p \in P |-> p[2]]
  <2>1. ValuesIn(P) = {f[p] : p \in P} BY DEF ValuesIn
  <2>2. f \in Surjection(P, ValuesIn(P)) BY DEF ValuesIn, Surjection
  <2> QED BY <1>3, <2>2, FS_Surjection
<1>8. Cardinality(ValuesIn(P)) \in Nat BY <1>7, FS_CardinalityType
<1>9. Cardinality(ValuesIn(Q)) = Cardinality(ValuesIn(P)) + (IF v \in ValuesIn(P) THEN 0 ELSE 1)
  <2>1. CASE v \in ValuesIn(P)
    <3>1. ValuesIn(Q) = ValuesIn(P) BY <1>6, <2>1
    <3> QED BY <1>8, <2>1, <3>1
  <2>2. CASE v \notin ValuesIn(P) BY <1>6, <1>7, <2>2, FS_AddElement
  <2> QED BY <2>1, <2>2
<1>10. MaxLabelBins \in Nat BY LabelBinsAssumption
<1> SUFFICES /\ t = [bins |-> t.bins, saturated |-> t.saturated]
             /\ IF Cardinality(ValuesIn(Q)) <= MaxLabelBins
                THEN Holds(t.bins, Q) /\ t.saturated = 0
                ELSE t.bins = NoBins /\ t.saturated = Cardinality(Q)
  BY <1>1, <1>4 DEF Labels
<1>13. s = [bins |-> s.bins, saturated |-> s.saturated] BY DEF Labels
<1>14. t = [bins |-> t.bins, saturated |-> t.saturated]
  BY <1>1, <1>13 DEF FlowLabelsUpdated
<1>11. CASE Cardinality(ValuesIn(P)) > MaxLabelBins
  <2>1. s.bins = NoBins /\ s.saturated = Cardinality(P) BY <1>8, <1>10, <1>11 DEF Labels
  <2>2. Cardinality(P) > 0
    <3>1. CASE P = {}
      <4>1. ValuesIn(P) = {} BY <3>1 DEF ValuesIn
      <4>2. Cardinality(ValuesIn(P)) = 0 BY <4>1, FS_EmptySet
      <4> QED BY <1>10, <1>11, <4>2
    <3>2. CASE P # {} BY <1>3, <1>5, <3>2, FS_EmptySet
    <3> QED BY <3>1, <3>2
  <2>3. FlowLabelsUpdated(s, ip) = [s EXCEPT !.saturated = @ + 1]
    BY <2>1, <2>2 DEF FlowLabelsUpdated
  <2>4. t.bins = NoBins /\ t.saturated = Cardinality(P) + 1
    <3>1. s = [bins |-> NoBins, saturated |-> Cardinality(P)] BY <2>1 DEF Labels
    <3>2. t = [bins |-> NoBins, saturated |-> Cardinality(P) + 1] BY <1>1, <2>3, <3>1
    <3> QED BY <3>2
  <2>5. ~(Cardinality(ValuesIn(Q)) <= MaxLabelBins) BY <1>8, <1>9, <1>10, <1>11
  <2> QED BY <1>4, <1>14, <2>4, <2>5
<1>12. CASE Cardinality(ValuesIn(P)) <= MaxLabelBins
  <2>1. Holds(s.bins, P) /\ s.saturated = 0 BY <1>12 DEF Labels
  <2>2. PICK b : b = s.bins OBVIOUS
  <2>3. Cardinality(ValuesIn(P)) = Len(b) /\ (CountIn(b, v) = 0 <=> v \notin ValuesIn(P))
    BY <1>2, <2>1, <2>2, HoldsValues
  <2>4. ~(s.saturated > 0) BY <2>1
  <2>5. CASE v \notin ValuesIn(P) /\ Len(b) = MaxLabelBins
    <3>1. FlowLabelsUpdated(s, ip) = [bins |-> NoBins, saturated |-> FlowLabelPackets(s) + 1]
      BY <1>1, <2>1, <2>2, <2>3, <2>4, <2>5 DEF FlowLabelsUpdated
    <3>2. FlowLabelPackets(s) = Cardinality(P) + 0
      BY <2>1, HoldsTotal DEF FlowLabelPackets
    <3>3. t.bins = NoBins /\ t.saturated = Cardinality(P) + 1 BY <1>1, <1>5, <3>1, <3>2
    <3>4. ~(Cardinality(ValuesIn(Q)) <= MaxLabelBins) BY <1>9, <1>10, <2>3, <2>5
    <3> QED BY <1>4, <1>14, <3>3, <3>4
  <2>6. CASE ~(v \notin ValuesIn(P) /\ Len(b) = MaxLabelBins)
    <3>1. FlowLabelsUpdated(s, ip) = [s EXCEPT !.bins = Incremented(@, ip.flow_label)]
      BY <1>1, <2>1, <2>2, <2>3, <2>4, <2>6 DEF FlowLabelsUpdated
    <3>2. Holds(Incremented(b, v), Q) BY <1>1, <1>2, <2>1, <2>2, HoldsMore
    <3>3. t.bins = Incremented(b, v) /\ t.saturated = 0
      <4>1. s = [bins |-> b, saturated |-> 0] BY <2>1, <2>2 DEF Labels
      <4>2. t = [bins |-> Incremented(b, v), saturated |-> 0] BY <1>1, <3>1, <4>1
      <4> QED BY <4>2
    <3>4. Cardinality(ValuesIn(Q)) <= MaxLabelBins BY <1>8, <1>9, <1>10, <1>12, <2>3, <2>6
    <3> QED BY <1>14, <3>2, <3>3, <3>4
  <2> QED BY <2>5, <2>6
<1> QED BY <1>8, <1>10, <1>11, <1>12

-----------------------------------------------------------------------------
(* The fields of a decoded packet.                                         *)
ObservationTyped(p) ==
    /\ p.direction \in Directions
    /\ p.observation.at \in Int /\ p.observation.captured \in Nat
    /\ p.observation.original \in Nat \cup {None}

NetworkTyped(p) ==
    /\ p.ip.version \in {4, 6} /\ p.ip.hop_limit \in Nat /\ p.ip_payload \in Int
    /\ p.ip.version = 4 => /\ p.ip.header_length \in Int /\ p.ip.dscp \in Nat /\ p.ip.ecn \in Nat
    /\ p.ip.version = 6 =>
         /\ p.ip.traffic_class \in Nat /\ p.ip.flow_label \in Nat /\ p.ip.next_header \in Nat
         /\ Len(p.ip.headers) \in Nat /\ DOMAIN p.ip.headers = 1 .. Len(p.ip.headers)
         /\ p.ip.headers = <<>> <=> Len(p.ip.headers) = 0
         /\ \A i \in DOMAIN p.ip.headers : p.ip.headers[i].type \in Nat /\ p.ip.headers[i].next \in Nat

TransportTyped(p) ==
    /\ p.identity.protocol \in {TCP, UDP} \cup ICMP
    /\ p.identity.protocol = TCP =>
         /\ p.transport.area \in Int
         /\ p.transport.options \in Seq(OptionFields)
         /\ \A i \in DOMAIN p.transport.options :
                p.transport.options[i].kind \in {2, 3} => p.transport.options[i].value \in Nat
    /\ p.identity.protocol = UDP => p.transport.length \in Nat
    /\ p.identity.protocol \in ICMP => p.transport.type \in Nat /\ p.transport.code \in Nat

Analyzed == {f \in Frames : Decoding!Outcome(f) = "analyzed" /\ Decoding!HasIdentity(f)}

LEMMA HeadersAreFirst ==
    ASSUME NEW f, f.ip.headers \in Seq(ExtensionFields)
    PROVE  LET m == Cardinality(Decoding!HeadersTaken(f))
           IN m \in 0 .. Len(f.ip.headers) /\ Decoding!HeadersTaken(f) = 1 .. m
<1> DEFINE n == Len(f.ip.headers)
           D == Decoding!HeadersTaken(f)
<1>1. n \in Nat /\ DOMAIN f.ip.headers = 1 .. n BY LenProperties
<1>2. D \in SUBSET (1 .. n) BY <1>1 DEF Decoding!HeadersTaken
<1>3. ASSUME NEW i \in D, NEW j \in 1 .. n, j < i PROVE j \in D
  <2>1. /\ \A k \in 1 .. i : Decoding!HeaderType(f, k) \in Decoding!ExtensionTypes
        /\ \A k \in 1 .. (i - 1) :
              ~(Decoding!HeaderType(f, k) = 44 /\ f.ip.headers[k].fragment_offset > 0)
    BY DEF Decoding!HeadersTaken, Decoding!HeadersReached
  <2>2. i \in 1 .. n BY <1>2
  <2>3. 1 .. j \subseteq 1 .. i /\ 1 .. (j - 1) \subseteq 1 .. (i - 1) /\ j \in 1 .. (n + 1)
    BY <1>1, <1>3, <2>2
  <2>4. j \in Decoding!HeadersReached(f) BY <1>1, <2>1, <2>3 DEF Decoding!HeadersReached
  <2> QED BY <1>1, <2>4 DEF Decoding!HeadersTaken
<1>4. \A i \in D : \A j \in 1 .. n : j < i => j \in D BY <1>3
<1> HIDE DEF D, n
<1>5. Cardinality(D) \in 0 .. n /\ D = 1 .. Cardinality(D) BY <1>1, <1>2, <1>4, Beginning
<1> QED BY <1>5 DEF D, n

LEMMA ByteIsNat == ASSUME NEW a \in 0 .. 255 PROVE a \in Nat
OBVIOUS

LEMMA CardinalityThere == ASSUME NEW S PROVE Decoding!Cardinality(S) = Cardinality(S)
BY Zenon DEF Decoding!Cardinality, Cardinality

LEMMA HeaderFieldsAt ==
    ASSUME NEW f, f.ip.headers \in Seq(ExtensionFields), f.ip.next_header \in Nat
    PROVE  /\ Len(f.ip.headers) \in Nat /\ DOMAIN f.ip.headers = 1 .. Len(f.ip.headers)
           /\ \A i \in 1 .. Len(f.ip.headers) :
                  /\ Decoding!HeaderType(f, i) \in Nat
                  /\ f.ip.headers[i].next \in Nat /\ f.ip.headers[i].length \in Nat
<1> DEFINE n == Len(f.ip.headers)
<1>1. n \in Nat /\ DOMAIN f.ip.headers = 1 .. n
      /\ \A i \in 1 .. n : f.ip.headers[i] \in ExtensionFields
  BY LenProperties, ElementOfSeq
<1>2. \A i \in 1 .. n : f.ip.headers[i].next \in Nat /\ f.ip.headers[i].length \in Nat
  <2> SUFFICES ASSUME NEW i \in 1 .. n
               PROVE  f.ip.headers[i].next \in Nat /\ f.ip.headers[i].length \in Nat
    OBVIOUS
  <2>1. PICK h : h = f.ip.headers[i] OBVIOUS
  <2>2. h \in ExtensionFields BY <1>1, <2>1
  <2>3. h.next \in 0 .. 255 /\ h.length \in Nat BY <2>2 DEF ExtensionFields
  <2>4. h.next \in Nat BY <2>3, ByteIsNat
  <2> QED BY <2>1, <2>3, <2>4
<1>3. ASSUME NEW i \in 1 .. n PROVE Decoding!HeaderType(f, i) \in Nat
  <2>1. CASE i = 1 BY <2>1 DEF Decoding!HeaderType
  <2>2. CASE i # 1
    <3>1. i - 1 \in 1 .. n BY <1>1, <2>2
    <3> QED BY <1>2, <2>2, <3>1 DEF Decoding!HeaderType
  <2> QED BY <2>1, <2>2
<1> QED BY <1>1, <1>2, <1>3

LEMMA HeaderOffsetType ==
    ASSUME NEW f, f.ip.headers \in Seq(ExtensionFields), f.ip.next_header \in Nat,
           NEW i \in 1 .. Len(f.ip.headers)
    PROVE  Decoding!HeaderOffset(f, i) \in Int /\ Decoding!HeaderEnd(f, i) \in Int
<1> DEFINE n == Len(f.ip.headers)
           size(j) == IF Decoding!HeaderType(f, j) = 44 THEN 8 ELSE f.ip.headers[j].length
           N == i - 1
           step == [j \in 1 .. N |-> [v \in Int |-> v + size(j)]]
<1>1. /\ n \in Nat
      /\ \A j \in 1 .. n : f.ip.headers[j].length \in Nat
  BY HeaderFieldsAt
<1>2. \A j \in 1 .. n : size(j) \in Int
  <2> SUFFICES ASSUME NEW j \in 1 .. n PROVE f.ip.headers[j].length \in Int OBVIOUS
  <2>1. f.ip.headers[j].length \in Nat BY <1>1
  <2> QED BY <2>1
<1>3. N \in Nat /\ i \in Nat \ {0} /\ \A j \in 1 .. N : j \in 1 .. n BY <1>1
<1> HIDE DEF size
<1>4. step \in [1 .. N -> [Int -> Int]]
  <2> SUFFICES ASSUME NEW j \in 1 .. N, NEW v \in Int PROVE v + size(j) \in Int OBVIOUS
  <2>1. size(j) \in Int BY <1>2, <1>3
  <2> QED BY <2>1
<1>5. \A j \in 1 .. N : \A v \in Int : step[j][v] = v + size(j) OBVIOUS
<1>6. 40 \in Int OBVIOUS
<1> HIDE DEF step, N
<1>7. PICK g \in [0 .. N -> Int] : g[0] = 40 /\ \A k \in 1 .. N : g[k] = step[k][g[k - 1]]
  <2>1. Iterated(N, Int, 40, step) BY <1>3, <1>4, <1>6, Iteration
  <2> QED BY <2>1 DEF Iterated
<1> DEFINE h == [j \in 1 .. i |-> g[j - 1]]
           Is(o) == o = [j \in 1 .. i |-> IF j = 1 THEN 40 ELSE o[j - 1] + size(j - 1)]
           offset == CHOOSE o : Is(o)
<1>8. Is(h)
  <2>1. ASSUME NEW j \in 1 .. i, j # 1 PROVE h[j] = h[j - 1] + size(j - 1)
    <3>1. PICK k : k = j - 1 OBVIOUS
    <3>2. k \in 1 .. N /\ k \in 1 .. i /\ k - 1 \in 0 .. N BY <1>3, <2>1, <3>1 DEF N
    <3>3. h[j] = g[k] /\ h[k] = g[k - 1] BY <3>1, <3>2
    <3>4. g[k] = step[k][g[k - 1]] /\ g[k - 1] \in Int BY <1>7, <3>2
    <3> HIDE DEF h
    <3> QED BY <1>5, <3>1, <3>2, <3>3, <3>4
  <2>2. 1 \in 1 .. i /\ h[1] = 40
    <3>1. 1 \in 1 .. i /\ 1 - 1 = 0 BY <1>3
    <3> QED BY <1>7, <3>1
  <2>3. h = [j \in 1 .. i |-> h[j]] OBVIOUS
  <2> HIDE DEF h
  <2> QED BY <2>1, <2>2, <2>3
<1>9. Is(offset)
  <2> HIDE DEF Is
  <2> QED BY <1>8, Zenon
<1>10. Decoding!HeaderOffset(f, i) = offset[i] BY DEF Decoding!HeaderOffset, size
<1> HIDE DEF offset, h
<1> DEFINE T == {k \in 0 .. N : offset[k + 1] \in Int}
<1>11. 0 \in T
  <2>1. 1 \in 1 .. i /\ 0 \in 0 .. N /\ 0 + 1 = 1 BY <1>3 DEF N
  <2>2. offset[1] = 40 BY <1>9, <2>1
  <2> QED BY <2>1, <2>2
<1>12. ASSUME NEW k \in 1 .. N, k - 1 \in T PROVE k \in T
  <2>1. k + 1 \in 1 .. i /\ k + 1 # 1 /\ (k + 1) - 1 = k /\ (k - 1) + 1 = k /\ k \in 0 .. N
    BY <1>3 DEF N
  <2>2. offset[k + 1] = offset[k] + size(k) BY <1>9, <2>1
  <2>3. offset[k] \in Int BY <1>12, <2>1
  <2>4. size(k) \in Int BY <1>2, <1>3
  <2>5. PICK a, b : a = offset[k] /\ b = size(k) OBVIOUS
  <2>6. a + b \in Int BY <2>3, <2>4, <2>5
  <2> QED BY <2>1, <2>2, <2>5, <2>6
<1>13. offset[i] \in Int
  <2>1. \A k \in 1 .. N : k - 1 \in T => k \in T BY <1>12
  <2> HIDE DEF T
  <2>2. \A k \in 0 .. N : k \in T BY <1>3, <1>11, <2>1, Upwards
  <2>3. N \in T /\ N + 1 = i BY <1>3, <2>2 DEF N
  <2> QED BY <2>3 DEF T
<1>14. Decoding!HeaderEnd(f, i) = offset[i] + size(i)
  BY <1>10 DEF Decoding!HeaderEnd, size
<1> QED BY <1>2, <1>10, <1>13, <1>14

-----------------------------------------------------------------------------
LEMMA ChainTyped ==
    ASSUME NEW f, f.ip.headers \in Seq(ExtensionFields), f.ip.next_header \in Nat,
           f.ip.payload_length \in Nat
    PROVE  LET chain == Decoding!Chain(f)
           IN /\ Len(chain) \in Nat /\ DOMAIN chain = 1 .. Len(chain)
              /\ \A i \in DOMAIN chain : chain[i].type \in Nat /\ chain[i].next \in Nat
              /\ Decoding!IPv6Payload(f) \in Int
              /\ chain = <<>> <=> Len(chain) = 0
<1> DEFINE chain == Decoding!Chain(f)
           n == Len(f.ip.headers)
<1>1. PICK m : m = Cardinality(Decoding!HeadersTaken(f)) OBVIOUS
<1>0. m = Decoding!Cardinality(Decoding!HeadersTaken(f)) BY <1>1, CardinalityThere
<1>2. n \in Nat /\ \A i \in 1 .. n : Decoding!HeaderType(f, i) \in Nat /\ f.ip.headers[i].next \in Nat
  BY HeaderFieldsAt
<1>3. m \in 0 .. n BY <1>1, HeadersAreFirst
<1>4. m \in Nat /\ \A i \in 1 .. m : i \in 1 .. n BY <1>2, <1>3
<1>5. DOMAIN chain = 1 .. m
      /\ \A i \in 1 .. m : chain[i].type = Decoding!HeaderType(f, i)
                           /\ chain[i].next = f.ip.headers[i].next
  BY <1>0 DEF Decoding!Chain
<1>9. chain = [i \in 1 .. m |-> chain[i]] BY <1>0 DEF Decoding!Chain
<1>10. chain = <<>> <=> Len(chain) = 0
  <2> HIDE DEF chain
  <2>1. PICK S : S = {chain[i] : i \in 1 .. m} OBVIOUS
  <2>2. chain \in Seq(S)
    <3>1. \A i \in 1 .. m : chain[i] \in S BY <2>1
    <3> QED BY <1>4, <1>9, <3>1
  <2> QED BY <2>2, EmptySeq
<1>6. Len(chain) = m
  <2>1. chain = [i \in 1 .. m |-> chain[i]] BY <1>9
  <2> HIDE DEF chain
  <2> QED BY <1>4, <1>5, <2>1
<1>7. Decoding!IPv6Payload(f) \in Int
  <2>1. CASE m = 0 BY <1>0, <2>1 DEF Decoding!IPv6Payload
  <2>2. CASE m # 0
    <3>1. m \in 1 .. n BY <1>3, <2>2
    <3>2. Decoding!HeaderEnd(f, m) \in Int BY <3>1, HeaderOffsetType
    <3> QED BY <1>0, <2>2, <3>2 DEF Decoding!IPv6Payload
  <2> QED BY <2>1, <2>2
<1> HIDE DEF chain
<1>8. \A i \in 1 .. m : chain[i].type \in Nat /\ chain[i].next \in Nat BY <1>2, <1>4, <1>5
<1> QED BY <1>4, <1>5, <1>6, <1>7, <1>8, <1>10 DEF chain

LEMMA OptionsTyped ==
    ASSUME NEW options \in Seq(OptionFields), NEW area
    PROVE  LET taken == SubSeq(options, 1, Cardinality(Decoding!OptionsIn(options, area)))
           IN /\ taken \in Seq(OptionFields)
              /\ \A i \in DOMAIN taken : i \in DOMAIN options /\ taken[i] = options[i]
<1> DEFINE n == Len(options)
<1>1. n \in Nat /\ DOMAIN options = 1 .. n /\ \A i \in 1 .. n : options[i] \in OptionFields
  BY LenProperties, ElementOfSeq
<1>2. PICK D : D = Decoding!OptionsIn(options, area) OBVIOUS
<1>3. D \subseteq 1 .. n BY <1>1, <1>2 DEF Decoding!OptionsIn
<1>4. Cardinality(D) \in 0 .. n
  <2>1. 1 \in Int /\ n \in Int BY <1>1
  <2>2. IsFiniteSet(1 .. n) /\ Cardinality(1 .. n) = IF 1 > n THEN 0 ELSE n - 1 + 1
    BY <2>1, FS_Interval
  <2>3. Cardinality(1 .. n) = n
    <3> HIDE DEF n
    <3> QED BY <1>1, <2>2
  <2>4. IsFiniteSet(D) /\ Cardinality(D) <= n BY <1>3, <2>2, <2>3, FS_Subset
  <2>5. Cardinality(D) \in Nat BY <2>4, FS_CardinalityType
  <2> QED BY <1>1, <2>4, <2>5
<1>5. PICK m : m = Cardinality(D) OBVIOUS
<1>6. m \in 0 .. n /\ 1 \in Int /\ m \in Int BY <1>4, <1>5
<1>7. PICK t : t = SubSeq(options, 1, m) OBVIOUS
<1>8. \A i \in 1 .. m : i \in 1 .. n /\ options[i] \in OptionFields BY <1>1, <1>6
<1>9. /\ t \in Seq(OptionFields) /\ Len(t) = IF 1 <= m THEN m - 1 + 1 ELSE 0
      /\ \A i \in 1 .. m - 1 + 1 : t[i] = options[1 + i - 1]
  BY <1>6, <1>7, <1>8, SubSeqProperties
<1>10. Len(t) = m
  <2> HIDE DEF n
  <2> QED BY <1>1, <1>6, <1>9
<1>11. DOMAIN t = 1 .. m BY <1>9, <1>10, LenProperties
<1>12. \A i \in 1 .. m : i \in 1 .. m - 1 + 1 /\ 1 + i - 1 = i BY <1>6
<1>13. \A i \in 1 .. m : t[i] = options[i] BY <1>9, <1>12
<1> QED BY <1>1, <1>2, <1>5, <1>7, <1>8, <1>9, <1>11, <1>13

LEMMA PacketTyped ==
    ASSUME NEW f \in Analyzed, NEW p, p = Decoding!Packet(f)
    PROVE  /\ ObservationTyped(p) /\ NetworkTyped(p) /\ TransportTyped(p)
           /\ p.identity = Decoding!Identity(f)
<1>1. /\ f.at \in Int /\ f.bytes \in Nat /\ f.original \in Nat \cup {None}
      /\ NetworkFields(f) /\ TransportFields(f) /\ f \in Frames
      /\ Decoding!TransportDecoded(f)
  BY FieldsAssumption DEF Analyzed, Decoding!HasIdentity
<1>2. /\ p.identity = Decoding!Identity(f) /\ p.direction = Decoding!Direction(f)
      /\ p.observation = Decoding!Observation(f) /\ p.ip = Decoding!Network(f)
      /\ p.ip_payload = Decoding!IPPayload(f) /\ p.transport = Decoding!Transport(f)
  BY DEF Decoding!Packet
<1>3. p.identity.protocol = Decoding!Protocol(f) BY <1>2 DEF Decoding!Identity
<1>4. ObservationTyped(p)
  <2>1. p.direction \in Directions BY <1>2 DEF Decoding!Direction, Directions
  <2>2. /\ p.observation.at = f.at /\ p.observation.captured = f.bytes
        /\ p.observation.original = f.original
    BY <1>2 DEF Decoding!Observation
  <2> QED BY <1>1, <2>1, <2>2 DEF ObservationTyped
<1>5. NetworkTyped(p)
  <2>1. CASE Decoding!EtherType(f) = "IPv4"
    <3>1. /\ p.ip.version = 4 /\ p.ip.hop_limit = f.ip.ttl /\ p.ip.dscp = f.ip.dscp
          /\ p.ip.ecn = f.ip.ecn /\ p.ip.header_length = 4 * f.ip.ihl
      BY <1>2, <2>1 DEF Decoding!Network
    <3>2. /\ f.ip.ihl \in Nat /\ f.ip.total_length \in Nat /\ f.ip.ttl \in Nat
          /\ f.ip.dscp \in Nat /\ f.ip.ecn \in Nat
      BY <1>1, <2>1 DEF NetworkFields
    <3>3. p.ip_payload = f.ip.total_length - 4 * f.ip.ihl
      BY <1>2, <2>1 DEF Decoding!IPPayload, Decoding!IPv4Payload
    <3>4. 4 * f.ip.ihl \in Int /\ f.ip.total_length - 4 * f.ip.ihl \in Int
      <4>1. PICK a, b : a = f.ip.ihl /\ b = f.ip.total_length OBVIOUS
      <4>2. 4 * a \in Int /\ b - 4 * a \in Int BY <3>2, <4>1
      <4> QED BY <4>1, <4>2
    <3> QED BY <3>1, <3>2, <3>3, <3>4 DEF NetworkTyped
  <2>2. CASE Decoding!EtherType(f) # "IPv4"
    <3>1. /\ p.ip.version = 6 /\ p.ip.hop_limit = f.ip.hop_limit
          /\ p.ip.traffic_class = f.ip.traffic_class /\ p.ip.flow_label = f.ip.flow_label
          /\ p.ip.next_header = f.ip.next_header /\ p.ip.headers = Decoding!Chain(f)
      BY <1>2, <2>2 DEF Decoding!Network
    <3>2. /\ f.ip.payload_length \in Nat /\ f.ip.next_header \in Nat /\ f.ip.hop_limit \in Nat
          /\ f.ip.traffic_class \in Nat /\ f.ip.flow_label \in Nat
          /\ f.ip.headers \in Seq(ExtensionFields)
      BY <1>1, <2>2 DEF NetworkFields
    <3>3. p.ip_payload = Decoding!IPv6Payload(f) BY <1>2, <2>2 DEF Decoding!IPPayload
    <3>4. PICK c : c = Decoding!Chain(f) OBVIOUS
    <3>5. /\ Len(c) \in Nat /\ DOMAIN c = 1 .. Len(c)
          /\ \A i \in DOMAIN c : c[i].type \in Nat /\ c[i].next \in Nat
          /\ Decoding!IPv6Payload(f) \in Int
          /\ c = <<>> <=> Len(c) = 0
      BY <3>2, <3>4, ChainTyped
    <3> QED BY <3>1, <3>2, <3>3, <3>4, <3>5 DEF NetworkTyped
  <2> QED BY <2>1, <2>2
<1>6. TransportTyped(p)
  <2>1. Decoding!Protocol(f) \in {6, 17, 1, 58}
    BY <1>1 DEF Decoding!TransportDecoded, Decoding!Protocol, Decoding!IPv6Transport
  <2>2. ASSUME Decoding!Protocol(f) = 6
        PROVE  /\ p.transport.area \in Int
               /\ p.transport.options \in Seq(OptionFields)
               /\ \A i \in DOMAIN p.transport.options :
                      p.transport.options[i].kind \in {2, 3} => p.transport.options[i].value \in Nat
    <3>1. /\ f.transport.data_offset \in Nat /\ f.transport.options \in Seq(OptionFields)
          /\ \A i \in DOMAIN f.transport.options :
               f.transport.options[i].kind \in {2, 3} => f.transport.options[i].value \in Nat
      BY <1>1, <2>2 DEF TransportFields
    <3>2. PICK a, o : a = 4 * f.transport.data_offset - 20 /\ o = f.transport.options OBVIOUS
    <3>3. a \in Int
      <4>1. PICK b : b = f.transport.data_offset OBVIOUS
      <4>2. b \in Nat /\ a = 4 * b - 20 BY <3>1, <3>2, <4>1
      <4> QED BY <4>2
    <3>4. /\ p.transport.area = a
          /\ p.transport.options = SubSeq(o, 1, Cardinality(Decoding!OptionsIn(o, a)))
      BY <1>2, <2>2, <3>2, CardinalityThere DEF Decoding!Transport
    <3>5. o \in Seq(OptionFields) BY <3>1, <3>2
    <3>6. PICK t : t = SubSeq(o, 1, Cardinality(Decoding!OptionsIn(o, a))) OBVIOUS
    <3>7. t \in Seq(OptionFields) /\ \A i \in DOMAIN t : i \in DOMAIN o /\ t[i] = o[i]
      BY <3>5, <3>6, OptionsTyped
    <3> QED BY <3>1, <3>2, <3>3, <3>4, <3>6, <3>7
  <2>3. ASSUME Decoding!Protocol(f) = 17 PROVE p.transport.length \in Nat
    <3>1. p.transport.length = f.transport.length BY <1>2, <2>3 DEF Decoding!Transport
    <3> QED BY <1>1, <2>3, <3>1 DEF TransportFields
  <2>4. ASSUME Decoding!Protocol(f) \in {1, 58}
        PROVE  p.transport.type \in Nat /\ p.transport.code \in Nat
    <3>1. p.transport.type = f.transport.type /\ p.transport.code = f.transport.code
      BY <1>2, <2>4 DEF Decoding!Transport
    <3> QED BY <1>1, <2>4, <3>1 DEF TransportFields
  <2> QED BY <1>3, <2>1, <2>2, <2>3, <2>4 DEF TransportTyped, TCP, UDP, ICMP
<1> QED BY <1>2, <1>4, <1>5, <1>6

-----------------------------------------------------------------------------
Among(s, P) == {i \in DOMAIN s : s[i] \in P}

(* The packets of a sequence that a set holds, when one more comes.        *)
LEMMA AmongTyped ==
    ASSUME NEW S, NEW s \in Seq(S), NEW P
    PROVE  /\ Len(s) \in Nat /\ DOMAIN s = 1 .. Len(s) /\ \A i \in 1 .. Len(s) : s[i] \in S
           /\ Among(s, P) \in SUBSET (1 .. Len(s))
           /\ IsFiniteSet(Among(s, P)) /\ Cardinality(Among(s, P)) \in Nat
           /\ Len(s) + 1 \notin 1 .. Len(s)
<1>1. Len(s) \in Nat /\ DOMAIN s = 1 .. Len(s) /\ \A i \in 1 .. Len(s) : s[i] \in S
  BY LenProperties, ElementOfSeq
<1>2. 1 \in Int /\ Len(s) \in Int BY <1>1
<1>3. IsFiniteSet(1 .. Len(s)) BY <1>2, FS_Interval
<1>4. Among(s, P) \subseteq 1 .. Len(s) BY <1>1 DEF Among
<1>5. IsFiniteSet(Among(s, P)) BY <1>3, <1>4, FS_Subset
<1>6. Len(s) + 1 \notin 1 .. Len(s) BY <1>1
<1> QED BY <1>1, <1>4, <1>5, <1>6, FS_CardinalityType

LEMMA AmongNext ==
    ASSUME NEW S, NEW s \in Seq(S), NEW x \in S, NEW P
    PROVE  Among(Append(s, x), P) = IF x \in P THEN Among(s, P) \cup {Len(s) + 1} ELSE Among(s, P)
<1>1. PICK t : t = Append(s, x) OBVIOUS
<1>2. PICK n : n = Len(s) + 1 OBVIOUS
<1>3. /\ DOMAIN t = DOMAIN s \cup {n} /\ t[n] = x
      /\ \A i \in DOMAIN s : t[i] = s[i]
  BY <1>1, <1>2, AppendOne
<1>4. Among(t, P) = IF x \in P THEN Among(s, P) \cup {n} ELSE Among(s, P)
  BY <1>3 DEF Among
<1> QED BY <1>1, <1>2, <1>4

LEMMA AmongCounts ==
    ASSUME NEW S, NEW s \in Seq(S), NEW x \in S, NEW P
    PROVE  Cardinality(Among(Append(s, x), P))
             = Cardinality(Among(s, P)) + (IF x \in P THEN 1 ELSE 0)
<1>1. PICK A, n : A = Among(s, P) /\ n = Len(s) + 1 OBVIOUS
<1>2. IsFiniteSet(A) /\ Cardinality(A) \in Nat /\ n \notin A
  <2>1. A \in SUBSET (1 .. Len(s)) /\ n \notin 1 .. Len(s) BY <1>1, AmongTyped
  <2> QED BY <1>1, <2>1, AmongTyped
<1>3. Among(Append(s, x), P) = IF x \in P THEN A \cup {n} ELSE A BY <1>1, AmongNext
<1>4. Cardinality(A \cup {n}) = Cardinality(A) + 1 BY <1>2, FS_AddElement
<1> QED BY <1>1, <1>2, <1>3, <1>4

(* A value of each packet that a set holds.                                *)
PairsOf(s, g, P) == {<<i, g[s[i]]>> : i \in Among(s, P)}

LEMMA PairsTyped ==
    ASSUME NEW S, NEW s \in Seq(S), NEW g, NEW P
    PROVE  /\ IsFiniteSet(PairsOf(s, g, P)) /\ Functional(PairsOf(s, g, P))
           /\ \A y : <<Len(s) + 1, y>> \notin PairsOf(s, g, P)
<1>1. PICK A : A = Among(s, P) OBVIOUS
<1>2. IsFiniteSet(A) /\ A \in SUBSET (1 .. Len(s)) /\ Len(s) + 1 \notin 1 .. Len(s)
  BY <1>1, AmongTyped
<1>3. PICK f : f = [i \in A |-> <<i, g[s[i]]>>] OBVIOUS
<1>4. PairsOf(s, g, P) = {f[i] : i \in A} BY <1>1, <1>3 DEF PairsOf
<1>5. IsFiniteSet({f[i] : i \in A})
  <2>1. \A i \in A, j \in A : f[i] = f[j] => i = j BY <1>3
  <2> QED BY <1>2, <2>1, AsMany
<1>6. Functional(PairsOf(s, g, P)) BY DEF PairsOf, Functional
<1>7. \A y : <<Len(s) + 1, y>> \notin PairsOf(s, g, P)
  <2> SUFFICES ASSUME NEW y, <<Len(s) + 1, y>> \in PairsOf(s, g, P) PROVE FALSE OBVIOUS
  <2>1. PICK i \in Among(s, P) : <<Len(s) + 1, y>> = <<i, g[s[i]]>> BY DEF PairsOf
  <2> QED BY <1>1, <1>2, <2>1
<1> QED BY <1>4, <1>5, <1>6, <1>7

LEMMA PairsNext ==
    ASSUME NEW S, NEW s \in Seq(S), NEW x \in S, NEW g, NEW P
    PROVE  PairsOf(Append(s, x), g, P)
             = IF x \in P THEN PairsOf(s, g, P) \cup {<<Len(s) + 1, g[x]>>} ELSE PairsOf(s, g, P)
<1>1. PICK t, n, A : t = Append(s, x) /\ n = Len(s) + 1 /\ A = Among(s, P) OBVIOUS
<1>2. t[n] = x /\ \A i \in A : t[i] = s[i]
  <2>1. t[n] = x /\ \A i \in 1 .. Len(s) : t[i] = s[i] BY <1>1, AppendOne
  <2>2. A \in SUBSET (1 .. Len(s)) BY <1>1, AmongTyped
  <2> QED BY <2>1, <2>2
<1>3. Among(t, P) = IF x \in P THEN A \cup {n} ELSE A BY <1>1, AmongNext
<1>4. PairsOf(t, g, P) = {<<i, g[t[i]]>> : i \in Among(t, P)} BY DEF PairsOf
<1>5. PairsOf(s, g, P) = {<<i, g[s[i]]>> : i \in A} BY <1>1 DEF PairsOf
<1>6. CASE x \in P
  <2>1. PairsOf(t, g, P) = {<<i, g[t[i]]>> : i \in A \cup {n}} BY <1>3, <1>4, <1>6
  <2>2. {<<i, g[t[i]]>> : i \in A \cup {n}} = {<<i, g[s[i]]>> : i \in A} \cup {<<n, g[x]>>}
    BY <1>2
  <2> QED BY <1>1, <1>5, <1>6, <2>1, <2>2
<1>7. CASE x \notin P
  <2>1. PairsOf(t, g, P) = {<<i, g[t[i]]>> : i \in A} BY <1>3, <1>4, <1>7
  <2>2. {<<i, g[t[i]]>> : i \in A} = {<<i, g[s[i]]>> : i \in A} BY <1>2
  <2> QED BY <1>1, <1>5, <1>7, <2>1, <2>2
<1> QED BY <1>6, <1>7

LEMMA PairsHeld ==
    ASSUME NEW S, NEW s \in Seq(S), NEW x \in S, NEW g, NEW P, NEW bins,
           Holds(bins, PairsOf(s, g, P)), x \in P => g[x] \in Int
    PROVE  Holds(IF x \in P THEN Incremented(bins, g[x]) ELSE bins, PairsOf(Append(s, x), g, P))
<1>1. CASE x \in P
  <2>1. PICK e : e = <<Len(s) + 1, g[x]>> OBVIOUS
  <2>2. PICK Q : Q = PairsOf(s, g, P) OBVIOUS
  <2>3. PICK v : v = g[x] OBVIOUS
  <2>4. e \notin Q /\ e[2] = v /\ v \in Int BY <1>1, <2>1, <2>2, <2>3, PairsTyped
  <2>5. Holds(Incremented(bins, v), Q \cup {e}) BY <2>2, <2>4, HoldsMore
  <2>6. PairsOf(Append(s, x), g, P) = Q \cup {e} BY <1>1, <2>1, <2>2, PairsNext
  <2> QED BY <1>1, <2>3, <2>5, <2>6
<1>2. CASE x \notin P
  <2>1. PairsOf(Append(s, x), g, P) = PairsOf(s, g, P) BY <1>2, PairsNext
  <2> QED BY <1>2, <2>1
<1> QED BY <1>1, <1>2

(* The sum of a value of each packet that a set holds.                     *)
TotalOf(s, g, P) == SumOf([i \in Among(s, P) |-> g[s[i]]], Among(s, P))

LEMMA TotalNext ==
    ASSUME NEW S, NEW s \in Seq(S), NEW x \in S, NEW g, NEW P, \A p \in S : g[p] \in Int
    PROVE  /\ TotalOf(s, g, P) \in Int
           /\ TotalOf(Append(s, x), g, P) = TotalOf(s, g, P) + (IF x \in P THEN g[x] ELSE 0)
<1>1. PICK t, n, A : t = Append(s, x) /\ n = Len(s) + 1 /\ A = Among(s, P) OBVIOUS
<1>2. IsFiniteSet(A) /\ n \notin A /\ A \in SUBSET (1 .. Len(s))
  BY <1>1, AmongTyped
<1>3. t[n] = x /\ \A i \in A : t[i] = s[i] /\ s[i] \in S
  <2>1. t[n] = x /\ \A i \in 1 .. Len(s) : t[i] = s[i] BY <1>1, AppendOne
  <2>2. \A i \in 1 .. Len(s) : s[i] \in S BY AmongTyped
  <2> QED BY <1>2, <2>1, <2>2
<1>4. PICK a, b : a = [i \in A |-> g[s[i]]] /\ b = [i \in Among(t, P) |-> g[t[i]]] OBVIOUS
<1>5. TotalOf(s, g, P) = SumOf(a, A) /\ TotalOf(t, g, P) = SumOf(b, Among(t, P))
  BY <1>1, <1>4 DEF TotalOf
<1>6. \A i \in A : a[i] \in Int BY <1>3, <1>4
<1>7. SumOf(a, A) \in Int BY <1>2, <1>6, SumOfType
<1>8. Among(t, P) = IF x \in P THEN A \cup {n} ELSE A BY <1>1, AmongNext
<1>9. CASE x \in P
  <2>1. \A i \in A : a[i] \in Int /\ a[i] = b[i] BY <1>3, <1>4, <1>6, <1>8, <1>9
  <2>2. b[n] = g[x] /\ b[n] \in Int BY <1>3, <1>4, <1>8, <1>9
  <2>3. SumOf(b, A \cup {n}) = SumOf(a, A) + b[n]
    <3>1. IsFiniteSet(A) /\ n \notin A /\ b[n] \in Int BY <1>2, <2>2
    <3> QED BY <2>1, <3>1, SumOfMore
  <2> QED BY <1>1, <1>5, <1>7, <1>8, <1>9, <2>2, <2>3
<1>10. CASE x \notin P
  <2>1. \A i \in A : a[i] \in Int /\ a[i] = b[i] BY <1>3, <1>4, <1>6, <1>8, <1>10
  <2>2. SumOf(b, A) = SumOf(a, A) BY <1>2, <2>1, SumOfSame
  <2> QED BY <1>1, <1>5, <1>7, <1>8, <1>10, <2>2
<1> QED BY <1>9, <1>10

(* The values at some places of each packet that a set holds.              *)
PlacesIn(s, values, places, P) ==
    UNION {PlacesOf(i, values[s[i]], places[s[i]]) : i \in Among(s, P)}

LEMMA PlacesNext ==
    ASSUME NEW S, NEW s \in Seq(S), NEW x \in S, NEW values, NEW places, NEW P
    PROVE  /\ PlacesIn(Append(s, x), values, places, P)
                = IF x \in P
                  THEN PlacesIn(s, values, places, P)
                         \cup PlacesOf(Len(s) + 1, values[x], places[x])
                  ELSE PlacesIn(s, values, places, P)
           /\ \A p \in PlacesIn(s, values, places, P) : \A j : p[1] # <<Len(s) + 1, j>>
<1>1. PICK t, n, A : t = Append(s, x) /\ n = Len(s) + 1 /\ A = Among(s, P) OBVIOUS
<1>2. t[n] = x /\ \A i \in A : t[i] = s[i]
  <2>1. t[n] = x /\ \A i \in 1 .. Len(s) : t[i] = s[i] BY <1>1, AppendOne
  <2>2. A \in SUBSET (1 .. Len(s)) BY <1>1, AmongTyped
  <2> QED BY <2>1, <2>2
<1>3. Among(t, P) = IF x \in P THEN A \cup {n} ELSE A BY <1>1, AmongNext
<1>4. PICK w : w = [i \in A \cup {n} |-> PlacesOf(i, values[t[i]], places[t[i]])] OBVIOUS
<1>5. PICK W, V : W = {w[i] : i \in A} /\ V = {w[i] : i \in A \cup {n}} OBVIOUS
<1>6. PlacesIn(s, values, places, P) = UNION W
  <2>1. \A i \in A : w[i] = PlacesOf(i, values[s[i]], places[s[i]]) BY <1>2, <1>4
  <2>2. {PlacesOf(i, values[s[i]], places[s[i]]) : i \in A} = W BY <1>5, <2>1
  <2> QED BY <1>1, <2>2 DEF PlacesIn
<1>7. PlacesIn(t, values, places, P) = IF x \in P THEN UNION V ELSE UNION W
  <2>1. \A i \in Among(t, P) : w[i] = PlacesOf(i, values[t[i]], places[t[i]]) BY <1>3, <1>4
  <2>2. {PlacesOf(i, values[t[i]], places[t[i]]) : i \in Among(t, P)}
          = IF x \in P THEN V ELSE W
    BY <1>3, <1>5, <2>1
  <2> QED BY <2>2 DEF PlacesIn
<1>11. UNION V = (UNION W) \cup w[n]
  <2>1. V = W \cup {w[n]} BY <1>5
  <2> QED BY <2>1
<1>10. w[n] = PlacesOf(n, values[x], places[x]) BY <1>2, <1>4
<1>9. PlacesIn(t, values, places, P)
        = IF x \in P THEN PlacesIn(s, values, places, P) \cup PlacesOf(n, values[x], places[x])
          ELSE PlacesIn(s, values, places, P)
  BY <1>6, <1>7, <1>10, <1>11
<1>8. ASSUME NEW p \in PlacesIn(s, values, places, P), NEW j PROVE p[1] # <<n, j>>
  <2>1. PICK i \in A : p \in PlacesOf(i, values[s[i]], places[s[i]]) BY <1>1 DEF PlacesIn
  <2>2. PICK k : p[1] = <<i, k>> BY <2>1 DEF PlacesOf
  <2>3. i # n
    <3>1. A \in SUBSET (1 .. Len(s)) /\ n \notin 1 .. Len(s) BY <1>1, AmongTyped
    <3> QED BY <3>1
  <2> QED BY <2>2, <2>3
<1> QED BY <1>1, <1>8, <1>9

LEMMA PlacesHeld ==
    ASSUME NEW S, NEW s \in Seq(S), NEW x \in S, NEW values, NEW places, NEW P, NEW bins,
           Holds(bins, PlacesIn(s, values, places, P)),
           x \in P => /\ Len(values[x]) \in Nat /\ places[x] \in SUBSET (1 .. Len(values[x]))
                      /\ \A i \in places[x] : values[x][i] \in Int
    PROVE  Holds(IF x \in P THEN Counting(bins, values[x], places[x]) ELSE bins,
                 PlacesIn(Append(s, x), values, places, P))
<1>1. CASE x \in P
  <2>1. PICK v, q, n, Q : /\ v = values[x] /\ q = places[x] /\ n = Len(s) + 1
                          /\ Q = PlacesIn(s, values, places, P)
    OBVIOUS
  <2>2. PICK N : N = Len(v) OBVIOUS
  <2>3. N \in Nat /\ q \in SUBSET (1 .. N) /\ \A i \in q : v[i] \in Int
    BY <1>1, <2>1, <2>2
  <2>4. \A p \in Q : \A j \in 1 .. N : p[1] # <<n, j>> BY <2>1, PlacesNext
  <2>5. Holds(Counting(bins, v, q), Q \cup PlacesOf(n, v, q))
    BY <2>1, <2>2, <2>3, <2>4, CountingHolds
  <2>6. PlacesIn(Append(s, x), values, places, P) = Q \cup PlacesOf(n, v, q)
    BY <1>1, <2>1, PlacesNext
  <2> QED BY <1>1, <2>1, <2>5, <2>6
<1>2. CASE x \notin P
  <2>1. PlacesIn(Append(s, x), values, places, P) = PlacesIn(s, values, places, P)
    BY <1>2, PlacesNext
  <2> QED BY <1>2, <2>1
<1> QED BY <1>1, <1>2

-----------------------------------------------------------------------------
(* The packets that a flow can take.                                       *)
Taken == {p \in {Decoding!Packet(f) : f \in Analyzed} : p.observation.original # None}

Identities ==
    {Decoding!Identity(f) : f \in {g \in Frames : Decoding!Outcome(g) = "analyzed"}}

LEMMA TakenTyped ==
    ASSUME NEW p \in Taken
    PROVE  /\ ObservationTyped(p) /\ NetworkTyped(p) /\ TransportTyped(p)
           /\ p.observation.at \in Int /\ p.observation.captured \in Int
           /\ p.observation.original \in Int /\ p.direction \in Directions
           /\ p.identity \in Identities
<1>1. PICK f \in Analyzed : p = Decoding!Packet(f) BY DEF Taken
<1>2. /\ ObservationTyped(p) /\ NetworkTyped(p) /\ TransportTyped(p)
      /\ p.identity = Decoding!Identity(f)
  BY <1>1, PacketTyped
<1>3. p.observation.original # None BY DEF Taken
<1>4. p.identity \in Identities BY <1>2 DEF Analyzed, Identities
<1> QED BY <1>2, <1>3, <1>4 DEF ObservationTyped

Going(d) == {p \in Taken : p.direction = d}

Scopes == Directions \cup {"all"}

Scope(scope) == IF scope = "all" THEN Taken ELSE Going(scope)

(* The sizes of the packets, all and of each direction.                    *)
SizesOf(z, s) ==
    /\ z \in PacketSizes
    /\ \A scope \in Scopes, l \in Lengths :
           Summary(z[scope][l], LengthsAt(s, l, Among(s, Scope(scope))))

LEMMA LengthsNext ==
    ASSUME NEW S, NEW s \in Seq(S), NEW x \in S, NEW l, NEW P, NEW a,
           Summary(a, LengthsAt(s, l, Among(s, P))), x.observation[l] \in Int
    PROVE  Summary(IF x \in P THEN Sampled(a, x.observation[l]) ELSE a,
                   LengthsAt(Append(s, x), l, Among(Append(s, x), P)))
<1>1. PICK I, n, v, Q : /\ I = Among(s, P) /\ n = Len(s) + 1 /\ v = x.observation[l]
                        /\ Q = LengthsAt(s, l, I)
  OBVIOUS
<1>2. I \in SUBSET (1 .. Len(s)) BY <1>1, AmongTyped
<1>3. /\ LengthsAt(Append(s, x), l, I) = Q
      /\ LengthsAt(Append(s, x), l, I \cup {n}) = Q \cup {<<n, v>>}
      /\ <<n, v>> \notin Q
  <2>1. /\ LengthsAt(Append(s, x), l, I) = LengthsAt(s, l, I)
        /\ LengthsAt(Append(s, x), l, I \cup {Len(s) + 1})
             = LengthsAt(s, l, I) \cup {<<Len(s) + 1, x.observation[l]>>}
        /\ \A y : <<Len(s) + 1, y>> \notin LengthsAt(s, l, I)
    BY <1>2, LengthsMore
  <2> QED BY <1>1, <2>1
<1>4. Among(Append(s, x), P) = IF x \in P THEN I \cup {n} ELSE I BY <1>1, AmongNext
<1>5. Summary(Sampled(a, v), Q \cup {<<n, v>>})
  <2>1. Summary(a, Q) /\ v \in Int BY <1>1
  <2> QED BY <1>3, <2>1, SampledMore
<1>6. CASE x \in P BY <1>1, <1>3, <1>4, <1>5, <1>6
<1>7. CASE x \notin P BY <1>1, <1>3, <1>4, <1>7
<1> QED BY <1>6, <1>7

LEMMA SizesNext ==
    ASSUME NEW s \in Seq(Taken), NEW p \in Taken, NEW z, SizesOf(z, s)
    PROVE  SizesOf(PacketSizesUpdated(z, p.observation, p.direction), Append(s, p))
<1>1. PICK y : y = PacketSizesUpdated(z, p.observation, p.direction) OBVIOUS
<1>2. DOMAIN z = Scopes /\ \A scope \in Scopes : z[scope] = [l \in Lengths |-> z[scope][l]]
  BY DEF SizesOf, PacketSizes, Scopes
<1>3. /\ DOMAIN y = Scopes
      /\ \A scope \in Scopes :
           y[scope] = IF scope \in {"all", p.direction}
                      THEN [l \in Lengths |-> Sampled(z[scope][l], p.observation[l])]
                      ELSE z[scope]
      /\ y = [scope \in Scopes |-> y[scope]]
  BY <1>1, <1>2 DEF PacketSizesUpdated
<1>4. ASSUME NEW scope \in Scopes
      PROVE  (p \in Scope(scope)) <=> (scope \in {"all", p.direction})
  BY DEF Scope, Going
<1>5. ASSUME NEW scope \in Scopes
      PROVE  /\ y[scope] = [l \in Lengths |-> y[scope][l]]
             /\ \A l \in Lengths :
                  y[scope][l] = IF p \in Scope(scope)
                                THEN Sampled(z[scope][l], p.observation[l]) ELSE z[scope][l]
  <2>1. CASE p \in Scope(scope)
    <3>1. y[scope] = [l \in Lengths |-> Sampled(z[scope][l], p.observation[l])]
      BY <1>3, <1>4, <2>1
    <3> QED BY <2>1, <3>1
  <2>2. CASE p \notin Scope(scope)
    <3>1. y[scope] = z[scope] BY <1>3, <1>4, <2>2
    <3> QED BY <1>2, <2>2, <3>1
  <2> QED BY <2>1, <2>2
<1>6. ASSUME NEW l \in Lengths PROVE p.observation[l] \in Int
  BY TakenTyped DEF Lengths
<1>7. ASSUME NEW scope \in Scopes, NEW l \in Lengths
      PROVE  /\ y[scope][l] \in Samples
             /\ Summary(y[scope][l], LengthsAt(Append(s, p), l, Among(Append(s, p), Scope(scope))))
  <2>1. PICK a, P, b : a = z[scope][l] /\ P = Scope(scope) /\ b = y[scope][l] OBVIOUS
  <2>2. Summary(a, LengthsAt(s, l, Among(s, P))) BY <2>1 DEF SizesOf
  <2>3. Summary(IF p \in P THEN Sampled(a, p.observation[l]) ELSE a,
                LengthsAt(Append(s, p), l, Among(Append(s, p), P)))
    BY <1>6, <2>2, LengthsNext
  <2>4. Summary(b, LengthsAt(Append(s, p), l, Among(Append(s, p), P))) BY <1>5, <2>1, <2>3
  <2> QED BY <2>1, <2>4 DEF Summary
<1>8. y \in PacketSizes
  <2>1. ASSUME NEW scope \in Scopes PROVE y[scope] \in [Lengths -> Samples]
    BY <1>5, <1>7
  <2> QED BY <1>3, <2>1 DEF PacketSizes, Scopes
<1> QED BY <1>1, <1>7, <1>8 DEF SizesOf

LEMMA SizesStart == SizesOf(NoPacketSizes, <<>>)
<1>1. NoPacketSizes \in PacketSizes BY DEF NoPacketSizes, PacketSizes, NoSamples, Samples
<1>2. ASSUME NEW scope \in Scopes, NEW l \in Lengths
      PROVE  Summary(NoPacketSizes[scope][l], LengthsAt(<<>>, l, Among(<<>>, Scope(scope))))
  <2>1. NoPacketSizes[scope][l] = NoSamples BY DEF NoPacketSizes, Scopes
  <2>2. \A P : LengthsAt(<<>>, l, Among(<<>>, P)) = {} BY DEF LengthsAt, Among
  <2> QED BY <2>1, <2>2, SummaryOfNone
<1> QED BY <1>1, <1>2 DEF SizesOf

(* The volume of some packets.                                             *)
Captured == [p \in Taken |-> p.observation.captured]
Original == [p \in Taken |-> p.observation.original]

VolumeOf(v, s, P) ==
    /\ v.packet_count = Cardinality(Among(s, P))
    /\ v.captured = TotalOf(s, Captured, P)
    /\ v.original = TotalOf(s, Original, P)

LEMMA VolumeNext ==
    ASSUME NEW s \in Seq(Taken), NEW p \in Taken, NEW v, NEW P, VolumeOf(v, s, P),
           NEW w,
           IF p \in P THEN /\ w.packet_count = v.packet_count + 1
                           /\ w.captured = v.captured + p.observation.captured
                           /\ w.original = v.original + p.observation.original
           ELSE w = v
    PROVE  /\ v.packet_count \in Nat /\ v.captured \in Int /\ v.original \in Int
           /\ VolumeOf(w, Append(s, p), P)
<1>1. PICK t : t = Append(s, p) OBVIOUS
<1>2. /\ \A q \in Taken : Captured[q] \in Int /\ Original[q] \in Int
      /\ Captured[p] = p.observation.captured /\ Original[p] = p.observation.original
  BY TakenTyped DEF Captured, Original
<1>3. /\ Cardinality(Among(t, P)) = Cardinality(Among(s, P)) + (IF p \in P THEN 1 ELSE 0)
      /\ Cardinality(Among(s, P)) \in Nat
  BY <1>1, AmongCounts, AmongTyped
<1>4. PICK g, h : g = Captured /\ h = Original OBVIOUS
<1>5. /\ TotalOf(s, g, P) \in Int
      /\ TotalOf(t, g, P) = TotalOf(s, g, P) + (IF p \in P THEN g[p] ELSE 0)
  <2>1. \A q \in Taken : g[q] \in Int BY <1>2, <1>4
  <2> QED BY <1>1, <2>1, TotalNext
<1>6. /\ TotalOf(s, h, P) \in Int
      /\ TotalOf(t, h, P) = TotalOf(s, h, P) + (IF p \in P THEN h[p] ELSE 0)
  <2>1. \A q \in Taken : h[q] \in Int BY <1>2, <1>4
  <2> QED BY <1>1, <2>1, TotalNext
<1>7. /\ v.packet_count = Cardinality(Among(s, P)) /\ v.captured = TotalOf(s, g, P)
      /\ v.original = TotalOf(s, h, P)
  BY <1>4 DEF VolumeOf
<1>8. g[p] = p.observation.captured /\ h[p] = p.observation.original BY <1>2, <1>4
<1>9. CASE p \in P
  <2>1. /\ w.packet_count = v.packet_count + 1 /\ w.captured = v.captured + g[p]
        /\ w.original = v.original + h[p]
    BY <1>8, <1>9
  <2>2. /\ w.packet_count = Cardinality(Among(t, P)) /\ w.captured = TotalOf(t, g, P)
        /\ w.original = TotalOf(t, h, P)
    BY <1>3, <1>5, <1>6, <1>7, <1>9, <2>1
  <2> QED BY <1>1, <1>3, <1>4, <1>5, <1>6, <1>7, <2>2 DEF VolumeOf
<1>10. CASE p \notin P
  <2>1. /\ w.packet_count = Cardinality(Among(t, P)) /\ w.captured = TotalOf(t, g, P)
        /\ w.original = TotalOf(t, h, P)
    BY <1>3, <1>5, <1>6, <1>7, <1>10
  <2> QED BY <1>1, <1>3, <1>4, <1>5, <1>6, <1>7, <2>1 DEF VolumeOf
<1> QED BY <1>9, <1>10

LEMMA VolumeStart ==
    ASSUME NEW v, v.packet_count = 0, v.captured = 0, v.original = 0, NEW P
    PROVE  VolumeOf(v, <<>>, P)
<1>1. Among(<<>>, P) = {} BY DEF Among
<1>2. Cardinality({}) = 0 BY FS_EmptySet
<1>3. \A g : SumOf(g, {}) = 0 BY SumOfNone
<1>4. \A g : TotalOf(<<>>, g, P) = 0 BY <1>1, <1>3 DEF TotalOf
<1> QED BY <1>1, <1>2, <1>4 DEF VolumeOf

(* The volume of a flow, and the times of its first and last packet.       *)
EndsOf(v, s) ==
    /\ s # <<>> => v.first = s[1].observation.at /\ v.last = s[Len(s)].observation.at
    /\ v.packet_count = Len(s)

FlowOf(v, s) ==
    /\ s # <<>> => v \in FlowVolumes
    /\ VolumeOf(v, s, Taken) /\ EndsOf(v, s)

LEMMA LengthIsCount ==
    ASSUME NEW S, NEW s \in Seq(S)
    PROVE  /\ Among(s, S) = 1 .. Len(s) /\ Cardinality(Among(s, S)) = Len(s)
           /\ Among(s, S) = DOMAIN s
           /\ s = <<>> <=> Len(s) = 0
<1>1. PICK n : n = Len(s) OBVIOUS
<1>2. n \in Nat /\ DOMAIN s = 1 .. n /\ \A i \in 1 .. n : s[i] \in S BY <1>1, AmongTyped
<1>3. Among(s, S) = 1 .. n BY <1>2 DEF Among
<1>4. Cardinality(1 .. n) = n
  <2>1. 1 \in Int /\ n \in Int BY <1>2
  <2>2. Cardinality(1 .. n) = IF 1 > n THEN 0 ELSE n - 1 + 1 BY <2>1, FS_Interval
  <2> QED BY <1>2, <2>2
<1>5. s = <<>> <=> Len(s) = 0 BY EmptySeq
<1> QED BY <1>1, <1>2, <1>3, <1>4, <1>5

LEMMA FlowNext ==
    ASSUME NEW s \in Seq(Taken), NEW p \in Taken, NEW v, FlowOf(v, s)
    PROVE  FlowOf(FlowStatisticsUpdated(v, p.observation), Append(s, p))
<1>1. PICK w, t, n, o : /\ w = FlowStatisticsUpdated(v, p.observation) /\ t = Append(s, p)
                        /\ n = Len(s) + 1 /\ o = p.observation
  OBVIOUS
<1>2. /\ w = [packet_count |-> v.packet_count + 1, captured |-> v.captured + o.captured,
              original |-> v.original + o.original,
              first |-> IF v.packet_count = 0 THEN o.at ELSE v.first, last |-> o.at]
  BY <1>1 DEF FlowStatisticsUpdated
<1>3. o.at \in Int /\ o.captured \in Int /\ o.original \in Int BY <1>1, TakenTyped
<1>4. /\ v.packet_count \in Nat /\ v.captured \in Int /\ v.original \in Int
      /\ VolumeOf(w, t, Taken)
  <2>1. VolumeOf(v, s, Taken) BY DEF FlowOf
  <2>2. IF p \in Taken THEN /\ w.packet_count = v.packet_count + 1
                            /\ w.captured = v.captured + p.observation.captured
                            /\ w.original = v.original + p.observation.original
        ELSE w = v
    BY <1>1, <1>2
  <2> QED BY <1>1, <2>1, <2>2, VolumeNext
<1>5. /\ t # <<>> /\ Len(t) = n /\ t[n] = p /\ n \in Nat
      /\ s # <<>> => t[1] = s[1]
      /\ s = <<>> => n = 1
      /\ s = <<>> <=> v.packet_count = 0
      /\ v.packet_count = Len(s)
  <2>1. /\ Len(t) = n /\ t[n] = p /\ Len(s) \in Nat /\ \A i \in 1 .. Len(s) : t[i] = s[i]
        /\ t \in Seq(Taken)
    BY <1>1, AppendOne
  <2>2. s = <<>> <=> Len(s) = 0 BY LengthIsCount
  <2>3. t = <<>> <=> Len(t) = 0 BY <2>1, LengthIsCount
  <2>4. v.packet_count = Len(s) BY DEF FlowOf, EndsOf
  <2>5. Len(s) # 0 => 1 \in 1 .. Len(s) BY <2>1
  <2> QED BY <1>1, <2>1, <2>2, <2>3, <2>4, <2>5
<1>6. EndsOf(w, t)
  <2>1. w.last = t[Len(t)].observation.at BY <1>1, <1>2, <1>5
  <2>2. w.first = t[1].observation.at
    <3>1. CASE s = <<>> BY <1>1, <1>2, <1>5, <3>1
    <3>2. CASE s # <<>>
      <4>1. v.first = s[1].observation.at BY <3>2 DEF FlowOf, EndsOf
      <4> QED BY <1>2, <1>5, <3>2, <4>1
    <3> QED BY <3>1, <3>2
  <2>3. w.packet_count = Len(t) BY <1>1, <1>2, <1>5
  <2> QED BY <2>1, <2>2, <2>3 DEF EndsOf
<1>7. w \in FlowVolumes
  <2>1. s # <<>> => v.first \in Int BY DEF FlowOf, FlowVolumes
  <2>2. w.first \in Int BY <1>2, <1>3, <1>5, <2>1
  <2>3. /\ v.packet_count + 1 \in Nat /\ v.captured + o.captured \in Int
        /\ v.original + o.original \in Int
    BY <1>3, <1>4
  <2>4. w = [packet_count |-> v.packet_count + 1, captured |-> v.captured + o.captured,
             original |-> v.original + o.original, first |-> w.first, last |-> o.at]
    BY <1>2
  <2> QED BY <1>3, <2>2, <2>3, <2>4 DEF FlowVolumes
<1> QED BY <1>1, <1>4, <1>6, <1>7 DEF FlowOf

LEMMA FlowStart == FlowOf(NoFlowStatistics, <<>>)
<1>1. VolumeOf(NoFlowStatistics, <<>>, Taken) BY VolumeStart DEF NoFlowStatistics
<1>2. Len(<<>>) = 0 OBVIOUS
<1> QED BY <1>1, <1>2 DEF FlowOf, EndsOf, NoFlowStatistics

(* The volume of each direction.                                           *)
VolumesOf(z, s) ==
    /\ z \in DirectionalVolumes
    /\ \A d \in Directions : VolumeOf(z[d], s, Going(d))

LEMMA VolumesNext ==
    ASSUME NEW s \in Seq(Taken), NEW p \in Taken, NEW z, VolumesOf(z, s)
    PROVE  VolumesOf(DirectionalStatisticsUpdated(z, p.observation, p.direction), Append(s, p))
<1>1. PICK y, k, o : /\ y = DirectionalStatisticsUpdated(z, o, k)
                     /\ o = p.observation /\ k = p.direction
  OBVIOUS
<1>2. k \in Directions /\ o.captured \in Int /\ o.original \in Int BY <1>1, TakenTyped
<1>3. z \in [Directions -> [packet_count : Nat, captured : Int, original : Int]]
  BY DEF VolumesOf, DirectionalVolumes
<1>4. PICK new : new = [packet_count |-> z[k].packet_count + 1,
                        captured |-> z[k].captured + o.captured,
                        original |-> z[k].original + o.original]
  OBVIOUS
<1>5. y = [z EXCEPT ![k] = new] BY <1>1, <1>4 DEF DirectionalStatisticsUpdated
<1>6. new \in [packet_count : Nat, captured : Int, original : Int]
  <2>1. PICK a, b, c : a = z[k].packet_count /\ b = z[k].captured /\ c = z[k].original OBVIOUS
  <2>2. a \in Nat /\ b \in Int /\ c \in Int BY <1>2, <1>3, <2>1
  <2>3. a + 1 \in Nat /\ b + o.captured \in Int /\ c + o.original \in Int BY <1>2, <2>2
  <2> QED BY <1>4, <2>1, <2>3
<1>7. y \in DirectionalVolumes BY <1>3, <1>5, <1>6 DEF DirectionalVolumes
<1>8. ASSUME NEW d \in Directions PROVE VolumeOf(y[d], Append(s, p), Going(d))
  <2>1. PICK v, w, P : v = z[d] /\ w = y[d] /\ P = Going(d) OBVIOUS
  <2>2. VolumeOf(v, s, P) BY <2>1 DEF VolumesOf
  <2>3. p \in P <=> d = k BY <1>1, <2>1 DEF Going
  <2>4. w = IF d = k THEN new ELSE v BY <1>2, <1>3, <1>5, <2>1
  <2>5. IF p \in P THEN /\ w.packet_count = v.packet_count + 1
                        /\ w.captured = v.captured + p.observation.captured
                        /\ w.original = v.original + p.observation.original
        ELSE w = v
    BY <1>1, <1>4, <2>1, <2>3, <2>4
  <2>6. VolumeOf(w, Append(s, p), P) BY <2>2, <2>5, VolumeNext
  <2> QED BY <2>1, <2>6
<1> QED BY <1>1, <1>7, <1>8 DEF VolumesOf

LEMMA VolumesStart == VolumesOf(NoDirectionalStatistics, <<>>)
<1>1. NoDirectionalStatistics \in DirectionalVolumes
  BY DEF NoDirectionalStatistics, DirectionalVolumes
<1>2. ASSUME NEW d \in Directions PROVE VolumeOf(NoDirectionalStatistics[d], <<>>, Going(d))
  <2>1. PICK v, P : v = NoDirectionalStatistics[d] /\ P = Going(d) OBVIOUS
  <2>2. v.packet_count = 0 /\ v.captured = 0 /\ v.original = 0
    BY <2>1 DEF NoDirectionalStatistics
  <2> QED BY <2>1, <2>2, VolumeStart
<1> QED BY <1>1, <1>2 DEF VolumesOf

-----------------------------------------------------------------------------
(* The times of the packets that a set holds.                              *)
LatestAt(s, P) == IF Among(s, P) = {} THEN None ELSE s[Max(Among(s, P))].observation.at

LEMMA LatestNext ==
    ASSUME NEW s \in Seq(Taken), NEW x \in Taken, NEW P
    PROVE  /\ LatestAt(s, P) \in Int \cup {None}
           /\ LatestAt(s, P) = None <=> Among(s, P) = {}
           /\ LatestAt(Append(s, x), P) = IF x \in P THEN x.observation.at ELSE LatestAt(s, P)
<1>1. PICK t, n, A : t = Append(s, x) /\ n = Len(s) + 1 /\ A = Among(s, P) OBVIOUS
<1>2. /\ Len(s) \in Nat /\ A \in SUBSET (1 .. Len(s)) /\ n \notin A
      /\ \A i \in 1 .. Len(s) : s[i] \in Taken
  <2>1. /\ Len(s) \in Nat /\ A \in SUBSET (1 .. Len(s)) /\ n \notin 1 .. Len(s)
        /\ \A i \in 1 .. Len(s) : s[i] \in Taken
    BY <1>1, AmongTyped
  <2> QED BY <2>1
<1>3. t[n] = x /\ \A i \in A : t[i] = s[i]
  <2>1. t[n] = x /\ \A i \in 1 .. Len(s) : t[i] = s[i] BY <1>1, AppendOne
  <2> QED BY <1>2, <2>1
<1>4. A # {} => Max(A) \in A
  <2>1. A \in SUBSET (0 .. Len(s)) BY <1>2
  <2> QED BY <1>2, <2>1, MaxIs
<1>5. /\ LatestAt(s, P) \in Int \cup {None}
      /\ LatestAt(s, P) = None <=> A = {}
  <2>1. CASE A = {} BY <1>1, <2>1 DEF LatestAt
  <2>2. CASE A # {}
    <3>1. LatestAt(s, P) = s[Max(A)].observation.at BY <1>1, <2>2 DEF LatestAt
    <3>2. PICK i \in A : i = Max(A) BY <1>4, <2>2
    <3>3. s[i] \in Taken BY <1>2, <3>2
    <3>4. s[i].observation.at \in Int BY <3>3, TakenTyped
    <3> QED BY <2>2, <3>1, <3>2, <3>4, NoneAssumption
  <2> QED BY <2>1, <2>2
<1>6. Among(t, P) = IF x \in P THEN A \cup {n} ELSE A BY <1>1, AmongNext
<1>7. LatestAt(t, P) = IF x \in P THEN x.observation.at ELSE LatestAt(s, P)
  <2>1. CASE x \in P
    <3>1. PICK B : B = A \cup {n} OBVIOUS
    <3>2. n \in B /\ B \subseteq Int /\ \A m \in B : m <= n BY <1>1, <1>2, <3>1
    <3>3. Max(B) = n BY <3>2, MaxUnique
    <3>4. Among(t, P) = B /\ B # {} BY <1>6, <2>1, <3>1
    <3> QED BY <1>3, <2>1, <3>3, <3>4 DEF LatestAt
  <2>2. CASE x \notin P
    <3>1. Among(t, P) = A BY <1>6, <2>2
    <3>2. A # {} => t[Max(A)] = s[Max(A)] BY <1>3, <1>4
    <3> QED BY <1>1, <2>2, <3>1, <3>2 DEF LatestAt
  <2> QED BY <2>1, <2>2
<1> QED BY <1>1, <1>5, <1>7

LEMMA GapsNext ==
    ASSUME NEW s \in Seq(Taken), NEW x \in Taken, NEW P, NEW a,
           Summary(a, GapsAt(s, Among(s, P)))
    PROVE  Summary(IF x \in P /\ Among(s, P) # {}
                   THEN Sampled(a, x.observation.at - LatestAt(s, P)) ELSE a,
                   GapsAt(Append(s, x), Among(Append(s, x), P)))
<1>1. PICK t, n, A, Q : /\ t = Append(s, x) /\ n = Len(s) + 1 /\ A = Among(s, P)
                        /\ Q = GapsAt(s, A)
  OBVIOUS
<1>2. A \in SUBSET (1 .. Len(s)) BY <1>1, AmongTyped
<1>3. /\ GapsAt(t, A) = Q
      /\ GapsAt(t, A \cup {n})
           = IF A = {} THEN {} ELSE Q \cup {<<n, x.observation.at - s[Max(A)].observation.at>>}
      /\ \A y : <<n, y>> \notin Q
  <2>1. /\ GapsAt(Append(s, x), A) = GapsAt(s, A)
        /\ GapsAt(Append(s, x), A \cup {Len(s) + 1})
             = IF A = {} THEN {}
               ELSE GapsAt(s, A)
                      \cup {<<Len(s) + 1, x.observation.at - s[Max(A)].observation.at>>}
        /\ \A y : <<Len(s) + 1, y>> \notin GapsAt(s, A)
    BY <1>2, GapsMore
  <2> QED BY <1>1, <2>1
<1>4. Among(t, P) = IF x \in P THEN A \cup {n} ELSE A BY <1>1, AmongNext
<1>5. CASE x \notin P BY <1>1, <1>3, <1>4, <1>5
<1>6. CASE x \in P /\ A = {}
  <2>1. Q = {} BY <1>1, <1>6 DEF GapsAt
  <2> QED BY <1>1, <1>3, <1>4, <1>6, <2>1
<1>7. CASE x \in P /\ A # {}
  <2>1. PICK v : v = x.observation.at - LatestAt(s, P) OBVIOUS
  <2>2. v = x.observation.at - s[Max(A)].observation.at BY <1>1, <1>7, <2>1 DEF LatestAt
  <2>3. v \in Int
    <3>1. x.observation.at \in Int BY TakenTyped
    <3>2. LatestAt(s, P) \in Int BY <1>1, <1>7, LatestNext
    <3> QED BY <2>1, <3>1, <3>2
  <2>4. Summary(a, Q) /\ <<n, v>> \notin Q BY <1>1, <1>3
  <2>5. Summary(Sampled(a, v), Q \cup {<<n, v>>}) BY <2>3, <2>4, SampledMore
  <2> QED BY <1>1, <1>3, <1>4, <1>7, <2>1, <2>2, <2>5
<1> QED BY <1>5, <1>6, <1>7

(* The first and the last time.                                            *)
LEMMA EndsNext ==
    ASSUME NEW s \in Seq(Taken), NEW p \in Taken, NEW v, EndsOf(v, s), NEW w,
           w.packet_count = v.packet_count + 1,
           w.first = IF v.packet_count = 0 THEN p.observation.at ELSE v.first,
           w.last = p.observation.at
    PROVE  /\ EndsOf(w, Append(s, p)) /\ w.packet_count \in Nat /\ w.first \in Int /\ w.last \in Int
           /\ v.packet_count = Len(s) /\ Len(s) \in Nat
           /\ v.packet_count # 0 => v.first \in Int /\ v.last = LatestAt(s, Taken)
           /\ v.packet_count = 0 <=> Among(s, Taken) = {}
<1>1. PICK t, n, o : t = Append(s, p) /\ n = Len(s) + 1 /\ o = p.observation OBVIOUS
<1>2. o.at \in Int BY <1>1, TakenTyped
<1>3. /\ Len(t) = n /\ t[n] = p /\ n \in Nat /\ Len(s) \in Nat
      /\ s # <<>> => t[1] = s[1] /\ s[1] \in Taken
      /\ s = <<>> <=> Len(s) = 0
      /\ t # <<>>
  <2>1. /\ Len(t) = n /\ t[n] = p /\ Len(s) \in Nat /\ \A i \in 1 .. Len(s) : t[i] = s[i]
        /\ t \in Seq(Taken)
    BY <1>1, AppendOne
  <2>2. \A i \in 1 .. Len(s) : s[i] \in Taken BY AmongTyped
  <2>3. s = <<>> <=> Len(s) = 0 BY LengthIsCount
  <2>4. t = <<>> <=> Len(t) = 0 BY <2>1, LengthIsCount
  <2>5. Len(s) # 0 => 1 \in 1 .. Len(s) BY <2>1
  <2> QED BY <1>1, <2>1, <2>2, <2>3, <2>4, <2>5
<1>4. v.packet_count = Len(s) /\ (s # <<>> => v.first = s[1].observation.at
                                               /\ v.last = s[Len(s)].observation.at)
  BY DEF EndsOf
<1>5. s # <<>> => v.first \in Int
  <2>1. s # <<>> => s[1].observation.at \in Int BY <1>3, TakenTyped
  <2> QED BY <1>4, <2>1
<1>6. Among(s, Taken) = 1 .. Len(s) BY LengthIsCount
<1>7. Len(s) # 0 => Max(1 .. Len(s)) = Len(s) /\ 1 .. Len(s) # {} BY <1>3, LastOfInterval
<1>8. v.packet_count = 0 <=> Among(s, Taken) = {} 
  <2>1. Len(s) = 0 => 1 .. Len(s) = {} BY <1>3
  <2> QED BY <1>4, <1>6, <1>7, <2>1
<1>9. v.packet_count # 0 => v.last = LatestAt(s, Taken)
  BY <1>3, <1>4, <1>6, <1>7 DEF LatestAt
<1>10. w.packet_count = Len(t) /\ w.packet_count \in Nat BY <1>1, <1>3, <1>4
<1>11. w.last = t[Len(t)].observation.at BY <1>1, <1>3
<1>12. w.first = t[1].observation.at /\ w.first \in Int
  <2>1. CASE s = <<>>
    <3>1. n = 1 /\ v.packet_count = 0 BY <1>1, <1>3, <1>4, <2>1
    <3> QED BY <1>1, <1>2, <1>3, <3>1
  <2>2. CASE s # <<>>
    <3>1. v.packet_count # 0 BY <1>3, <1>4, <2>2
    <3> QED BY <1>3, <1>4, <1>5, <2>2, <3>1
  <2> QED BY <2>1, <2>2
<1> QED BY <1>1, <1>2, <1>3, <1>4, <1>5, <1>8, <1>9, <1>10, <1>11, <1>12 DEF EndsOf

(* The intervals between the packets.                                      *)
IntervalsOf(v, s) ==
    /\ s # <<>> => v \in Intervals
    /\ EndsOf(v, s)
    /\ Summary(v.gaps, GapsAt(s, Among(s, Taken)))

LEMMA IntervalsNext ==
    ASSUME NEW s \in Seq(Taken), NEW p \in Taken, NEW v, IntervalsOf(v, s),
           v = [packet_count |-> v.packet_count, first |-> v.first, last |-> v.last,
                gaps |-> v.gaps]
    PROVE  /\ IntervalsOf(IntervalsUpdated(v, p.observation), Append(s, p))
           /\ IntervalsUpdated(v, p.observation) \in Intervals
<1>1. PICK w, o, A : /\ w = IntervalsUpdated(v, p.observation) /\ o = p.observation
                     /\ A = Among(s, Taken)
  OBVIOUS
<1>2. w = [packet_count |-> v.packet_count + 1,
           first |-> IF v.packet_count = 0 THEN o.at ELSE v.first, last |-> o.at,
           gaps |-> IF v.packet_count = 0 THEN NoSamples ELSE Sampled(v.gaps, o.at - v.last)]
  <2>1. CASE v.packet_count = 0 BY <1>1, <2>1 DEF IntervalsUpdated
  <2>2. CASE v.packet_count # 0 BY <1>1, <2>2 DEF IntervalsUpdated
  <2> QED BY <2>1, <2>2
<1>3. EndsOf(v, s) /\ Summary(v.gaps, GapsAt(s, A)) BY <1>1 DEF IntervalsOf
<1>4. /\ EndsOf(w, Append(s, p)) /\ w.packet_count \in Nat /\ w.first \in Int /\ w.last \in Int
      /\ v.packet_count # 0 => v.last = LatestAt(s, Taken)
      /\ v.packet_count = 0 <=> A = {}
  <2>1. /\ w.packet_count = v.packet_count + 1
        /\ w.first = IF v.packet_count = 0 THEN p.observation.at ELSE v.first
        /\ w.last = p.observation.at
    BY <1>1, <1>2
  <2> QED BY <1>1, <1>3, <2>1, EndsNext
<1>5. Summary(w.gaps, GapsAt(Append(s, p), Among(Append(s, p), Taken)))
  <2>1. Summary(IF p \in Taken /\ A # {} THEN Sampled(v.gaps, p.observation.at - LatestAt(s, Taken))
                ELSE v.gaps, GapsAt(Append(s, p), Among(Append(s, p), Taken)))
    BY <1>1, <1>3, GapsNext
  <2>2. CASE A = {}
    <3>1. GapsAt(s, A) = {} BY <2>2 DEF GapsAt
    <3>2. v.gaps = NoSamples BY <1>3, <3>1 DEF Summary
    <3> QED BY <1>2, <1>4, <2>1, <2>2, <3>2
  <2>3. CASE A # {} BY <1>1, <1>2, <1>4, <2>1, <2>3
  <2> QED BY <2>2, <2>3
<1>6. w.gaps \in Samples BY <1>5 DEF Summary
<1>7. w = [packet_count |-> w.packet_count, first |-> w.first, last |-> w.last, gaps |-> w.gaps]
  BY <1>2
<1>8. w \in Intervals BY <1>4, <1>6, <1>7 DEF Intervals
<1> QED BY <1>1, <1>4, <1>5, <1>8 DEF IntervalsOf

LEMMA IntervalsStart == IntervalsOf(NoIntervals, <<>>)
<1>1. GapsAt(<<>>, Among(<<>>, Taken)) = {} BY DEF GapsAt, Among
<1>2. NoIntervals.gaps = NoSamples /\ NoIntervals.packet_count = 0 BY DEF NoIntervals
<1>3. Len(<<>>) = 0 OBVIOUS
<1> QED BY <1>1, <1>2, <1>3, SummaryOfNone DEF IntervalsOf, EndsOf

(* The intervals between the packets of each direction.                    *)
DirectionalOf(v, s) ==
    /\ s # <<>> => v \in DirectionalIntervals
    /\ v = [packet_count |-> v.packet_count, first |-> v.first, last |-> v.last,
            latest |-> v.latest, gaps |-> v.gaps]
    /\ v.latest \in [Directions -> Int \cup {None}] /\ v.gaps \in [Directions -> Samples]
    /\ EndsOf(v, s)
    /\ \A d \in Directions : /\ v.latest[d] = LatestAt(s, Going(d))
                             /\ Summary(v.gaps[d], GapsAt(s, Among(s, Going(d))))

LEMMA DirectionalNext ==
    ASSUME NEW s \in Seq(Taken), NEW p \in Taken, NEW v, DirectionalOf(v, s)
    PROVE  /\ DirectionalOf(DirectionalIntervalsUpdated(v, p.observation, p.direction),
                            Append(s, p))
           /\ DirectionalIntervalsUpdated(v, p.observation, p.direction) \in DirectionalIntervals
<1>1. PICK w, o, k, t : /\ w = DirectionalIntervalsUpdated(v, o, k) /\ o = p.observation
                        /\ k = p.direction /\ t = Append(s, p)
  OBVIOUS
<1>2. k \in Directions /\ o.at \in Int BY <1>1, TakenTyped
<1>3. PICK new : new = Sampled(v.gaps[k], o.at - v.latest[k]) OBVIOUS
<1>4. w = [packet_count |-> v.packet_count + 1,
           first |-> IF v.packet_count = 0 THEN o.at ELSE v.first, last |-> o.at,
           latest |-> [v.latest EXCEPT ![k] = o.at],
           gaps |-> IF v.latest[k] = None THEN v.gaps ELSE [v.gaps EXCEPT ![k] = new]]
  BY <1>1, <1>3 DEF DirectionalIntervalsUpdated
<1>5. /\ EndsOf(v, s) /\ v.latest \in [Directions -> Int \cup {None}]
      /\ v.gaps \in [Directions -> Samples]
      /\ \A d \in Directions : /\ v.latest[d] = LatestAt(s, Going(d))
                               /\ Summary(v.gaps[d], GapsAt(s, Among(s, Going(d))))
  BY DEF DirectionalOf
<1>6. EndsOf(w, t) /\ w.packet_count \in Nat /\ w.first \in Int /\ w.last \in Int
  <2>1. /\ w.packet_count = v.packet_count + 1
        /\ w.first = IF v.packet_count = 0 THEN p.observation.at ELSE v.first
        /\ w.last = p.observation.at
    BY <1>1, <1>4
  <2> QED BY <1>1, <1>5, <2>1, EndsNext
<1>7. ASSUME NEW d \in Directions
      PROVE  /\ w.latest[d] = LatestAt(t, Going(d))
             /\ Summary(w.gaps[d], GapsAt(t, Among(t, Going(d))))
             /\ w.latest[d] \in Int \cup {None}
  <2>1. PICK P : P = Going(d) OBVIOUS
  <2>2. p \in P <=> d = k BY <1>1, <2>1 DEF Going
  <2>3. /\ v.latest[d] = LatestAt(s, P) /\ Summary(v.gaps[d], GapsAt(s, Among(s, P)))
    BY <1>5, <2>1
  <2>4. /\ LatestAt(s, P) = None <=> Among(s, P) = {}
        /\ LatestAt(t, P) = IF p \in P THEN p.observation.at ELSE LatestAt(s, P)
        /\ LatestAt(s, P) \in Int \cup {None}
    BY <1>1, LatestNext
  <2>5. w.latest[d] = IF d = k THEN o.at ELSE v.latest[d] BY <1>2, <1>4, <1>5
  <2>6. w.latest[d] = LatestAt(t, P) /\ w.latest[d] \in Int \cup {None}
    BY <1>1, <1>2, <2>2, <2>3, <2>4, <2>5
  <2>7. PICK a : a = v.gaps[d] OBVIOUS
  <2>8. Summary(IF p \in P /\ Among(s, P) # {} THEN Sampled(a, p.observation.at - LatestAt(s, P))
                ELSE a, GapsAt(t, Among(t, P)))
    BY <1>1, <2>3, <2>7, GapsNext
  <2>9. w.gaps[d] = IF p \in P /\ Among(s, P) # {}
                    THEN Sampled(a, p.observation.at - LatestAt(s, P)) ELSE a
    <3>1. CASE d = k /\ v.latest[k] # None
      <4>1. w.gaps = [v.gaps EXCEPT ![k] = new] BY <1>4, <3>1
      <4>2. w.gaps[d] = new BY <1>2, <1>5, <3>1, <4>1
      <4> QED BY <1>1, <1>3, <2>2, <2>3, <2>4, <2>7, <3>1, <4>2
    <3>2. CASE d = k /\ v.latest[k] = None BY <1>4, <2>2, <2>3, <2>4, <2>7, <3>2
    <3>3. CASE d # k
      <4>1. w.gaps[d] = v.gaps[d] BY <1>2, <1>4, <1>5, <3>3
      <4> QED BY <2>2, <2>7, <3>3, <4>1
    <3> QED BY <3>1, <3>2, <3>3
  <2> QED BY <2>1, <2>6, <2>8, <2>9
<1>8. w.latest \in [Directions -> Int \cup {None}]
  <2>1. w.latest = [v.latest EXCEPT ![k] = o.at] BY <1>4
  <2> QED BY <1>2, <1>5, <2>1
<1>9. w.gaps \in [Directions -> Samples]
  <2>1. \A d \in Directions : w.gaps[d] \in Samples BY <1>7 DEF Summary
  <2>2. w.gaps = [d \in Directions |-> w.gaps[d]]
    <3>1. v.gaps = [d \in Directions |-> v.gaps[d]] BY <1>5
    <3> QED BY <1>4, <3>1
  <2> QED BY <2>1, <2>2
<1>10. w = [packet_count |-> w.packet_count, first |-> w.first, last |-> w.last,
            latest |-> w.latest, gaps |-> w.gaps]
  BY <1>4
<1>11. w \in DirectionalIntervals BY <1>6, <1>8, <1>9, <1>10 DEF DirectionalIntervals
<1> QED BY <1>1, <1>6, <1>7, <1>8, <1>9, <1>10, <1>11 DEF DirectionalOf

LEMMA DirectionalStart == DirectionalOf(NoDirectionalIntervals, <<>>)
<1>1. PICK v : v = NoDirectionalIntervals OBVIOUS
<1>2. v = [packet_count |-> 0, first |-> None, last |-> None,
           latest |-> [d \in Directions |-> None], gaps |-> [d \in Directions |-> NoSamples]]
  BY <1>1 DEF NoDirectionalIntervals
<1>3. NoSamples \in Samples BY DEF NoSamples, Samples
<1>4. \A P : Among(<<>>, P) = {} BY DEF Among
<1>5. \A P : GapsAt(<<>>, Among(<<>>, P)) = {} /\ LatestAt(<<>>, P) = None
  BY <1>4 DEF GapsAt, LatestAt
<1>6. \A d \in Directions : /\ v.latest[d] = LatestAt(<<>>, Going(d))
                            /\ Summary(v.gaps[d], GapsAt(<<>>, Among(<<>>, Going(d))))
  BY <1>2, <1>5, SummaryOfNone
<1>7. v.latest \in [Directions -> Int \cup {None}] /\ v.gaps \in [Directions -> Samples]
  BY <1>2, <1>3
<1>8. v = [packet_count |-> v.packet_count, first |-> v.first, last |-> v.last,
           latest |-> v.latest, gaps |-> v.gaps]
  BY <1>2
<1>9. v.packet_count = Len(<<>>) BY <1>2
<1> QED BY <1>1, <1>6, <1>7, <1>8, <1>9 DEF DirectionalOf, EndsOf

(* The packets of each direction that carry a flag.                        *)
Carrying(d, flags) == {p \in Taken : p.direction = d /\ flags \subseteq p.transport.flags}

ControlOf(c, s) ==
    /\ c \in TCPControls
    /\ \A d \in Directions :
         /\ \A f \in TCPFlags : c.direction[d].flag[f] = Cardinality(Among(s, Carrying(d, {f})))
         /\ c.direction[d].syn_ack = Cardinality(Among(s, Carrying(d, {"syn", "ack"})))

LEMMA ControlNext ==
    ASSUME NEW s \in Seq(Taken), NEW p \in Taken, NEW c, ControlOf(c, s)
    PROVE  ControlOf(TCPControlUpdated(c, p.transport.flags, p.direction), Append(s, p))
<1>1. PICK w, k, F, t : /\ w = TCPControlUpdated(c, F, k) /\ F = p.transport.flags
                        /\ k = p.direction /\ t = Append(s, p)
  OBVIOUS
<1>2. k \in Directions BY <1>1, TakenTyped
<1>3. c \in TCPControls BY DEF ControlOf
<1>4. PICK old, D : old = c.direction[k] /\ D = c.direction OBVIOUS
<1>5. /\ D \in [Directions -> [packet_count : Nat, syn_ack : Nat, flag : [TCPFlags -> Nat]]]
      /\ c.packet_count \in Nat
  BY <1>3, <1>4 DEF TCPControls
<1>6. old \in [packet_count : Nat, syn_ack : Nat, flag : [TCPFlags -> Nat]] BY <1>2, <1>4, <1>5
<1>7. PICK new : new = [packet_count |-> old.packet_count + 1,
                        syn_ack |-> old.syn_ack + One({"syn", "ack"} \subseteq F),
                        flag |-> [f \in TCPFlags |-> old.flag[f] + One(f \in F)]]
  OBVIOUS
<1>8. w = [packet_count |-> c.packet_count + 1, direction |-> [D EXCEPT ![k] = new]]
  BY <1>1, <1>4, <1>7 DEF TCPControlUpdated
<1>9. new \in [packet_count : Nat, syn_ack : Nat, flag : [TCPFlags -> Nat]]
  <2>1. old.packet_count + 1 \in Nat BY <1>6
  <2>2. \A b : One(b) \in Nat BY DEF One
  <2>3. old.syn_ack + One({"syn", "ack"} \subseteq F) \in Nat
    <3>1. PICK m : m = One({"syn", "ack"} \subseteq F) OBVIOUS
    <3>2. m \in Nat BY <3>1 DEF One
    <3> QED BY <1>6, <3>1, <3>2
  <2>4. ASSUME NEW f \in TCPFlags PROVE old.flag[f] + One(f \in F) \in Nat
    <3>1. PICK m, n : m = One(f \in F) /\ n = old.flag[f] OBVIOUS
    <3>2. m \in Nat /\ n \in Nat BY <1>6, <3>1 DEF One
    <3> QED BY <3>1, <3>2
  <2> QED BY <1>7, <2>1, <2>3, <2>4
<1>10. [D EXCEPT ![k] = new]
          \in [Directions -> [packet_count : Nat, syn_ack : Nat, flag : [TCPFlags -> Nat]]]
  BY <1>5, <1>9
<1>11. w \in TCPControls BY <1>5, <1>8, <1>10 DEF TCPControls
<1>12. ASSUME NEW d \in Directions
       PROVE  /\ \A f \in TCPFlags : w.direction[d].flag[f] = Cardinality(Among(t, Carrying(d, {f})))
              /\ w.direction[d].syn_ack = Cardinality(Among(t, Carrying(d, {"syn", "ack"})))
  <2>1. w.direction[d] = IF d = k THEN new ELSE D[d] BY <1>2, <1>5, <1>8
  <2>2. \A f \in TCPFlags : D[d].flag[f] = Cardinality(Among(s, Carrying(d, {f})))
    BY <1>4 DEF ControlOf
  <2>3. D[d].syn_ack = Cardinality(Among(s, Carrying(d, {"syn", "ack"})))
    BY <1>4 DEF ControlOf
  <2>4. ASSUME NEW P
        PROVE  /\ Cardinality(Among(t, P)) = Cardinality(Among(s, P)) + (IF p \in P THEN 1 ELSE 0)
               /\ Cardinality(Among(s, P)) \in Nat
    BY <1>1, AmongCounts, AmongTyped
  <2>5. ASSUME NEW fs PROVE (p \in Carrying(d, fs)) <=> (d = k /\ fs \subseteq F)
    BY <1>1 DEF Carrying
  <2>6. ASSUME NEW f \in TCPFlags
        PROVE  w.direction[d].flag[f] = Cardinality(Among(t, Carrying(d, {f})))
    <3>1. PICK P, m : P = Carrying(d, {f}) /\ m = Cardinality(Among(s, P)) OBVIOUS
    <3>2. m \in Nat /\ Cardinality(Among(t, P)) = m + (IF p \in P THEN 1 ELSE 0) BY <2>4, <3>1
    <3>3. p \in P <=> d = k /\ f \in F BY <2>5, <3>1
    <3>4. D[d].flag[f] = m BY <2>2, <3>1
    <3>5. CASE d = k
      <4>1. w.direction[d].flag[f] = m + One(f \in F) BY <1>4, <1>7, <2>1, <3>4, <3>5
      <4> QED BY <3>1, <3>2, <3>3, <3>5, <4>1 DEF One
    <3>6. CASE d # k BY <2>1, <3>1, <3>2, <3>3, <3>4, <3>6
    <3> QED BY <3>5, <3>6
  <2>7. w.direction[d].syn_ack = Cardinality(Among(t, Carrying(d, {"syn", "ack"})))
    <3>1. PICK P, m : P = Carrying(d, {"syn", "ack"}) /\ m = Cardinality(Among(s, P)) OBVIOUS
    <3>2. m \in Nat /\ Cardinality(Among(t, P)) = m + (IF p \in P THEN 1 ELSE 0) BY <2>4, <3>1
    <3>3. p \in P <=> d = k /\ {"syn", "ack"} \subseteq F BY <2>5, <3>1
    <3>4. D[d].syn_ack = m BY <2>3, <3>1
    <3>5. CASE d = k
      <4>1. w.direction[d].syn_ack = m + One({"syn", "ack"} \subseteq F)
        BY <1>4, <1>7, <2>1, <3>4, <3>5
      <4> QED BY <3>1, <3>2, <3>3, <3>5, <4>1 DEF One
    <3>6. CASE d # k BY <2>1, <3>1, <3>2, <3>3, <3>4, <3>6
    <3> QED BY <3>5, <3>6
  <2> QED BY <2>6, <2>7
<1> QED BY <1>1, <1>11, <1>12 DEF ControlOf

LEMMA ControlStart == ControlOf(NoTCPControl, <<>>)
<1>1. NoTCPControl \in TCPControls BY DEF NoTCPControl, TCPControls
<1>2. \A P : Cardinality(Among(<<>>, P)) = 0
  <2>1. \A P : Among(<<>>, P) = {} BY DEF Among
  <2> QED BY <2>1, FS_EmptySet
<1>3. \A d \in Directions : /\ \A f \in TCPFlags : NoTCPControl.direction[d].flag[f] = 0
                            /\ NoTCPControl.direction[d].syn_ack = 0
  BY DEF NoTCPControl
<1> QED BY <1>1, <1>2, <1>3 DEF ControlOf

-----------------------------------------------------------------------------
Versioned(d, version) == {p \in Taken : p.direction = d /\ p.ip.version = version}
Speaking(d, protocols) == {p \in Taken : p.direction = d /\ p.identity.protocol \in protocols}

HopLimit == [p \in Taken |-> p.ip.hop_limit]
TrafficClass == [p \in Taken |-> p.ip.traffic_class]
FlowLabel == [p \in Taken |-> p.ip.flow_label]
ServiceCode == [p \in Taken |-> p.ip.dscp]
Congestion == [p \in Taken |-> p.ip.ecn]
LastNext == [p \in Taken |-> Terminal(p.ip)]
MessageCode == [p \in Taken |-> TypeAndCode(p.transport)]
Payload == [p \in Taken |-> p.ip_payload - 8]

HeaderTypes == [p \in Taken |-> [i \in 1 .. Len(p.ip.headers) |-> p.ip.headers[i].type]]
HeaderPlaces == [p \in Taken |-> 1 .. Len(p.ip.headers)]

LEMMA ImageFinite ==
    ASSUME NEW S, IsFiniteSet(S), NEW f
    PROVE  IsFiniteSet({f[x] : x \in S}) /\ Cardinality({f[x] : x \in S}) \in Nat
<1>1. PICK T, g : T = {f[x] : x \in S} /\ g = [x \in S |-> f[x]] OBVIOUS
<1>2. g \in Surjection(S, T) BY <1>1 DEF Surjection
<1>3. IsFiniteSet(T) BY <1>2, FS_Surjection
<1> QED BY <1>1, <1>3, FS_CardinalityType

LEMMA HistogramBins ==
    ASSUME NEW b, NEW P, Holds(b, P)
    PROVE  b \in Bins
BY DEF Holds, Ordered, Bins

LEMMA NatPlus == ASSUME NEW a \in Nat, NEW b \in Nat PROVE a + b \in Nat
OBVIOUS

LEMMA IntPlus == ASSUME NEW a \in Int, NEW b \in Int PROVE a + b \in Int
OBVIOUS

LEMMA OneType == ASSUME NEW c PROVE One(c) \in Nat
BY DEF One

(* The labels.                                                             *)
LEMMA LabelsTyped ==
    ASSUME NEW v, NEW P, Labels(v, P)
    PROVE  v \in FlowLabels
<1>1. v = [bins |-> v.bins, saturated |-> v.saturated] /\ IsFiniteSet(P) BY DEF Labels
<1>2. v.bins \in Bins /\ v.saturated \in Nat
  <2>1. CASE Cardinality(ValuesIn(P)) <= MaxLabelBins
    <3>1. Holds(v.bins, P) /\ v.saturated = 0 BY <2>1 DEF Labels
    <3> QED BY <3>1, HistogramBins
  <2>2. CASE ~(Cardinality(ValuesIn(P)) <= MaxLabelBins)
    <3>1. v.bins = NoBins /\ v.saturated = Cardinality(P) BY <2>2 DEF Labels
    <3>2. Cardinality(P) \in Nat BY <1>1, FS_CardinalityType
    <3>3. \A S : <<>> \in Seq(S) OBVIOUS
    <3> QED BY <3>1, <3>2, <3>3 DEF NoBins, Bins
  <2> QED BY <2>1, <2>2
<1> QED BY <1>1, <1>2 DEF FlowLabels

LEMMA LabelsNext ==
    ASSUME NEW s \in Seq(Taken), NEW p \in Taken, NEW P, NEW v,
           Labels(v, PairsOf(s, FlowLabel, P)), p \in P => p.ip.flow_label \in Int
    PROVE  Labels(IF p \in P THEN FlowLabelsUpdated(v, p.ip) ELSE v,
                  PairsOf(Append(s, p), FlowLabel, P))
<1>1. PICK g : g = FlowLabel OBVIOUS
<1>2. PairsOf(Append(s, p), g, P) =
        IF p \in P THEN PairsOf(s, g, P) \cup {<<Len(s) + 1, g[p]>>} ELSE PairsOf(s, g, P)
  BY PairsNext
<1>3. CASE p \in P
  <2>1. PICK e, Q, ip : e = <<Len(s) + 1, g[p]>> /\ Q = PairsOf(s, g, P) /\ ip = p.ip OBVIOUS
  <2>2. e \notin Q BY <2>1, PairsTyped
  <2>3. e[2] = ip.flow_label /\ ip.flow_label \in Int BY <1>1, <1>3, <2>1 DEF FlowLabel
  <2>4. Labels(v, Q) BY <1>1, <2>1
  <2>5. Labels(FlowLabelsUpdated(v, ip), Q \cup {e}) BY <2>2, <2>3, <2>4, LabelsMore
  <2> QED BY <1>1, <1>2, <1>3, <2>1, <2>5
<1>4. CASE p \notin P BY <1>1, <1>2, <1>4
<1> QED BY <1>3, <1>4

(* The IPv4 header.                                                        *)
IPv4Of(h, s, P) ==
    /\ h \in IPv4Headers
    /\ Holds(h.dscp, PairsOf(s, ServiceCode, P))
    /\ Holds(h.ecn, PairsOf(s, Congestion, P))

LEMMA IPv4Next ==
    ASSUME NEW s \in Seq(Taken), NEW p \in Taken, NEW P, NEW h, IPv4Of(h, s, P),
           p \in P => p.ip.version = 4
    PROVE  IPv4Of(IF p \in P THEN IPv4HeadersUpdated(h, p.ip) ELSE h, Append(s, p), P)
<1>1. PICK w, t : /\ w = (IF p \in P THEN IPv4HeadersUpdated(h, p.ip) ELSE h)
                  /\ t = Append(s, p)
  OBVIOUS
<1>2. PICK a, b : a = ServiceCode /\ b = Congestion OBVIOUS
<1>3. a[p] = p.ip.dscp /\ b[p] = p.ip.ecn BY <1>2 DEF ServiceCode, Congestion
<1>4. p \in P => p.ip.dscp \in Int /\ p.ip.ecn \in Int /\ p.ip.header_length \in Int
  BY TakenTyped DEF NetworkTyped
<1>5. Holds(h.dscp, PairsOf(s, a, P)) /\ Holds(h.ecn, PairsOf(s, b, P)) BY <1>2 DEF IPv4Of
<1>6. Holds(IF p \in P THEN Incremented(h.dscp, a[p]) ELSE h.dscp, PairsOf(t, a, P))
  <2>1. p \in P => a[p] \in Int BY <1>3, <1>4
  <2>2. PICK bins : bins = h.dscp OBVIOUS
  <2>3. Holds(IF p \in P THEN Incremented(bins, a[p]) ELSE bins, PairsOf(Append(s, p), a, P))
    BY <1>5, <2>1, <2>2, PairsHeld
  <2> QED BY <1>1, <2>2, <2>3
<1>7. Holds(IF p \in P THEN Incremented(h.ecn, b[p]) ELSE h.ecn, PairsOf(t, b, P))
  <2>1. p \in P => b[p] \in Int BY <1>3, <1>4
  <2>2. PICK bins : bins = h.ecn OBVIOUS
  <2>3. Holds(IF p \in P THEN Incremented(bins, b[p]) ELSE bins, PairsOf(Append(s, p), b, P))
    BY <1>5, <2>1, <2>2, PairsHeld
  <2> QED BY <1>1, <2>2, <2>3
<1>8. w.dscp = (IF p \in P THEN Incremented(h.dscp, a[p]) ELSE h.dscp)
      /\ w.ecn = (IF p \in P THEN Incremented(h.ecn, b[p]) ELSE h.ecn)
  <2>1. CASE p \in P
    <3>1. w = IPv4HeadersUpdated(h, p.ip) BY <1>1, <2>1
    <3> QED BY <1>3, <2>1, <3>1 DEF IPv4HeadersUpdated
  <2>2. CASE p \notin P BY <1>1, <2>2
  <2> QED BY <2>1, <2>2
<1>9. w.dscp \in Bins /\ w.ecn \in Bins BY <1>6, <1>7, <1>8, HistogramBins
<1>10. w \in IPv4Headers
  <2>1. h \in IPv4Headers BY DEF IPv4Of
  <2>2. CASE p \in P
    <3>1. PICK x, y, z, o, l : /\ x = One("df" \in p.ip.flags) /\ y = One("mf" \in p.ip.flags)
                               /\ z = One("reserved" \in p.ip.flags) /\ l = p.ip.header_length - 20
                               /\ o = One(l > 0)
      OBVIOUS
    <3>2. x \in Nat /\ y \in Nat /\ z \in Nat /\ o \in Nat /\ l \in Int
      BY <1>4, <2>2, <3>1, OneType
    <3>3. w = [dscp |-> w.dscp, ecn |-> w.ecn, df |-> h.df + x, mf |-> h.mf + y,
               reserved |-> h.reserved + z, options_packets |-> h.options_packets + o,
               options_length |-> h.options_length + l]
      <4>1. w = IPv4HeadersUpdated(h, p.ip) BY <1>1, <2>2
      <4> QED BY <3>1, <4>1 DEF IPv4HeadersUpdated
    <3>4. /\ h.df \in Nat /\ h.mf \in Nat /\ h.reserved \in Nat /\ h.options_packets \in Nat
          /\ h.options_length \in Int
      BY <2>1 DEF IPv4Headers
    <3>5. /\ h.df + x \in Nat /\ h.mf + y \in Nat /\ h.reserved + z \in Nat
          /\ h.options_packets + o \in Nat /\ h.options_length + l \in Int
      BY <3>2, <3>4, NatPlus, IntPlus
    <3> QED BY <1>9, <3>3, <3>5 DEF IPv4Headers
  <2>3. CASE p \notin P BY <1>1, <2>1, <2>3
  <2> QED BY <2>2, <2>3
<1> QED BY <1>1, <1>2, <1>6, <1>7, <1>8, <1>10 DEF IPv4Of

LEMMA NothingAmong ==
    /\ \A P : Among(<<>>, P) = {}
    /\ \A g, P : PairsOf(<<>>, g, P) = {} /\ TotalOf(<<>>, g, P) = 0
    /\ \A v, q, P : PlacesIn(<<>>, v, q, P) = {}
    /\ NoBins \in Bins
<1>1. \A P : Among(<<>>, P) = {} BY DEF Among
<1>2. \A g, P : PairsOf(<<>>, g, P) = {} BY <1>1 DEF PairsOf
<1>3. \A g : SumOf(g, {}) = 0 BY SumOfNone
<1>4. \A g, P : TotalOf(<<>>, g, P) = 0 BY <1>1, <1>3 DEF TotalOf
<1>5. \A v, q, P : PlacesIn(<<>>, v, q, P) = {} BY <1>1 DEF PlacesIn
<1>6. NoBins \in Bins BY HoldsNone, HistogramBins
<1> QED BY <1>1, <1>2, <1>4, <1>5, <1>6

LEMMA IPv4Start == ASSUME NEW P PROVE IPv4Of(NoIPv4Headers, <<>>, P)
<1>1. NoIPv4Headers \in IPv4Headers BY NothingAmong DEF NoIPv4Headers, IPv4Headers
<1>2. NoIPv4Headers.dscp = NoBins /\ NoIPv4Headers.ecn = NoBins BY DEF NoIPv4Headers
<1> QED BY <1>1, <1>2, NothingAmong, HoldsNone DEF IPv4Of

(* The extension headers.                                                  *)
LEMMA TerminalType ==
    ASSUME NEW p \in Taken, p.ip.version = 6
    PROVE  Terminal(p.ip) \in Nat
<1>1. /\ p.ip.next_header \in Nat /\ Len(p.ip.headers) \in Nat
      /\ DOMAIN p.ip.headers = 1 .. Len(p.ip.headers)
      /\ p.ip.headers = <<>> <=> Len(p.ip.headers) = 0
      /\ \A i \in DOMAIN p.ip.headers : p.ip.headers[i].next \in Nat
  BY TakenTyped DEF NetworkTyped
<1>2. CASE p.ip.headers = <<>> BY <1>1, <1>2 DEF Terminal
<1>3. CASE p.ip.headers # <<>>
  <2>1. PICK n : n = Len(p.ip.headers) OBVIOUS
  <2>2. n \in 1 .. n BY <1>1, <1>3, <2>1
  <2>3. p.ip.headers[n].next \in Nat BY <1>1, <2>1, <2>2
  <2> QED BY <1>3, <2>1, <2>3 DEF Terminal
<1> QED BY <1>2, <1>3

ExtensionOf(e, s, P) ==
    /\ e \in ExtensionHeaders
    /\ Holds(e.types, PlacesIn(s, HeaderTypes, HeaderPlaces, P))
    /\ Holds(e.terminals, PairsOf(s, LastNext, P))

LEMMA ExtensionNext ==
    ASSUME NEW s \in Seq(Taken), NEW p \in Taken, NEW P, NEW e, ExtensionOf(e, s, P),
           p \in P => p.ip.version = 6
    PROVE  ExtensionOf(IF p \in P THEN ExtensionHeadersUpdated(e, p.ip) ELSE e, Append(s, p), P)
<1>1. PICK w, t : /\ w = (IF p \in P THEN ExtensionHeadersUpdated(e, p.ip) ELSE e)
                  /\ t = Append(s, p)
  OBVIOUS
<1>2. PICK a, b, c : a = HeaderTypes /\ b = HeaderPlaces /\ c = LastNext OBVIOUS
<1>3. PICK n, T : n = Len(p.ip.headers) /\ T = [i \in 1 .. n |-> p.ip.headers[i].type] OBVIOUS
<1>4. a[p] = T /\ b[p] = 1 .. n /\ c[p] = Terminal(p.ip)
  BY <1>2, <1>3 DEF HeaderTypes, HeaderPlaces, LastNext
<1>5. p \in P => n \in Nat /\ \A i \in 1 .. n : T[i] \in Nat
  <2>1. p \in P => /\ Len(p.ip.headers) \in Nat /\ DOMAIN p.ip.headers = 1 .. Len(p.ip.headers)
                   /\ \A i \in DOMAIN p.ip.headers : p.ip.headers[i].type \in Nat
    BY TakenTyped DEF NetworkTyped
  <2> QED BY <1>3, <2>1
<1>6. p \in P => Len(T) = n /\ DOMAIN T = 1 .. n BY <1>3, <1>5
<1>7. Holds(e.types, PlacesIn(s, a, b, P)) /\ Holds(e.terminals, PairsOf(s, c, P))
      /\ e \in ExtensionHeaders
  BY <1>2 DEF ExtensionOf
<1>8. Holds(IF p \in P THEN Counting(e.types, a[p], b[p]) ELSE e.types, PlacesIn(t, a, b, P))
  <2>1. p \in P => /\ Len(a[p]) \in Nat /\ b[p] \in SUBSET (1 .. Len(a[p]))
                   /\ \A i \in b[p] : a[p][i] \in Int
    BY <1>4, <1>5, <1>6
  <2>2. PICK bins : bins = e.types OBVIOUS
  <2>3. Holds(IF p \in P THEN Counting(bins, a[p], b[p]) ELSE bins, PlacesIn(Append(s, p), a, b, P))
    BY <1>7, <2>1, <2>2, PlacesHeld
  <2> QED BY <1>1, <2>2, <2>3
<1>9. Holds(IF p \in P THEN Incremented(e.terminals, c[p]) ELSE e.terminals, PairsOf(t, c, P))
  <2>1. p \in P => c[p] \in Int BY <1>4, TerminalType
  <2>2. PICK bins : bins = e.terminals OBVIOUS
  <2>3. Holds(IF p \in P THEN Incremented(bins, c[p]) ELSE bins, PairsOf(Append(s, p), c, P))
    BY <1>7, <2>1, <2>2, PairsHeld
  <2> QED BY <1>1, <2>2, <2>3
<1>10. CASE p \in P
  <2>1. w = ExtensionHeadersUpdated(e, p.ip) BY <1>1, <1>10
  <2>2. PICK m : m = Cardinality({T[i] : i \in 1 .. n}) OBVIOUS
  <2>3. w = [packets |-> e.packets + 1, with_headers |-> e.with_headers + One(n > 0),
             least |-> IF e.least = None \/ n < e.least THEN n ELSE e.least,
             greatest |-> IF e.greatest = None \/ n > e.greatest THEN n ELSE e.greatest,
             total |-> e.total + n,
             types |-> Counting(e.types, T, DOMAIN T),
             terminals |-> Incremented(e.terminals, Terminal(p.ip)),
             duplicates |-> e.duplicates + n - m]
    BY <1>3, <2>1, <2>2 DEF ExtensionHeadersUpdated
  <2>4. w.types = Counting(e.types, a[p], b[p]) /\ w.terminals = Incremented(e.terminals, c[p])
    BY <1>4, <1>6, <1>10, <2>3
  <2>5. Holds(w.types, PlacesIn(t, a, b, P)) /\ Holds(w.terminals, PairsOf(t, c, P))
    BY <1>8, <1>9, <1>10, <2>4
  <2>6. w.types \in Bins /\ w.terminals \in Bins BY <2>5, HistogramBins
  <2>7. m \in Nat
    <3>1. n \in Nat /\ 1 \in Int BY <1>5, <1>10
    <3>2. IsFiniteSet(1 .. n)
      <4>1. n \in Int BY <3>1
      <4> QED BY <3>1, <4>1, FS_Interval
    <3>3. PICK I : I = 1 .. n OBVIOUS
    <3>4. Cardinality({T[i] : i \in I}) \in Nat BY <3>2, <3>3, ImageFinite
    <3> QED BY <2>2, <3>3, <3>4
  <2>8. /\ e.packets \in Nat /\ e.with_headers \in Nat /\ e.least \in Nat \cup {None}
        /\ e.greatest \in Nat \cup {None} /\ e.total \in Nat /\ e.duplicates \in Int
    BY <1>7 DEF ExtensionHeaders
  <2>9. PICK y : y = One(n > 0) OBVIOUS
  <2>10. y \in Nat /\ n \in Nat BY <1>5, <1>10, <2>9, OneType
  <2>11. /\ e.packets + 1 \in Nat /\ e.with_headers + y \in Nat /\ e.total + n \in Nat
         /\ e.duplicates + n - m \in Int
    <3>1. e.packets + 1 \in Nat /\ e.with_headers + y \in Nat /\ e.total + n \in Nat
      BY <2>8, <2>10, NatPlus
    <3>2. PICK u : u = e.duplicates OBVIOUS
    <3>3. u + n - m \in Int BY <2>7, <2>8, <2>10, <3>2
    <3> QED BY <3>1, <3>2, <3>3
  <2>12. w.least \in Nat \cup {None} /\ w.greatest \in Nat \cup {None} BY <2>3, <2>8, <2>10
  <2>13. w = [packets |-> e.packets + 1, with_headers |-> e.with_headers + y,
              least |-> w.least, greatest |-> w.greatest, total |-> e.total + n,
              types |-> w.types, terminals |-> w.terminals, duplicates |-> e.duplicates + n - m]
    BY <2>3, <2>9
  <2>14. w \in ExtensionHeaders BY <2>6, <2>11, <2>12, <2>13 DEF ExtensionHeaders
  <2> QED BY <1>1, <1>2, <1>10, <2>5, <2>14 DEF ExtensionOf
<1>11. CASE p \notin P
  <2>1. w = e BY <1>1, <1>11
  <2> QED BY <1>1, <1>2, <1>7, <1>8, <1>9, <1>11, <2>1 DEF ExtensionOf
<1> QED BY <1>10, <1>11

LEMMA ExtensionStart == ASSUME NEW P PROVE ExtensionOf(NoExtensionHeaders, <<>>, P)
<1>1. NoExtensionHeaders \in ExtensionHeaders BY NothingAmong DEF NoExtensionHeaders, ExtensionHeaders
<1>2. NoExtensionHeaders.types = NoBins /\ NoExtensionHeaders.terminals = NoBins
  BY DEF NoExtensionHeaders
<1> QED BY <1>1, <1>2, NothingAmong, HoldsNone DEF ExtensionOf

-----------------------------------------------------------------------------
(* The Fragment headers.                                                   *)
FragmentOf(f, s, P) ==
    /\ f \in IPv6Fragments
    /\ f.first + f.atomic = Cardinality(Fiber(PlacesIn(s, HeaderTypes, HeaderPlaces, P), 44))

LEMMA FragmentNext ==
    ASSUME NEW s \in Seq(Taken), NEW p \in Taken, NEW P, NEW f, FragmentOf(f, s, P),
           IsFiniteSet(PlacesIn(s, HeaderTypes, HeaderPlaces, P)),
           p \in P => p.ip.version = 6
    PROVE  FragmentOf(IF p \in P THEN IPv6FragmentsUpdated(f, p.ip) ELSE f, Append(s, p), P)
<1>1. PICK w, t : w = (IF p \in P THEN IPv6FragmentsUpdated(f, p.ip) ELSE f) /\ t = Append(s, p)
  OBVIOUS
<1>2. PICK a, b : a = HeaderTypes /\ b = HeaderPlaces OBVIOUS
<1>3. PICK Q : Q = PlacesIn(s, a, b, P) OBVIOUS
<1>4. IsFiniteSet(Q) /\ f \in IPv6Fragments /\ f.first + f.atomic = Cardinality(Fiber(Q, 44))
  BY <1>2, <1>3 DEF FragmentOf
<1>5. PICK k : k = Len(s) + 1 OBVIOUS
<1>6. /\ PlacesIn(t, a, b, P) = IF p \in P THEN Q \cup PlacesOf(k, a[p], b[p]) ELSE Q
      /\ \A q \in Q : \A j : q[1] # <<k, j>>
  BY <1>1, <1>3, <1>5, PlacesNext
<1>7. CASE p \in P
  <2>1. PICK n, T, H : /\ n = Len(p.ip.headers) /\ T = [i \in 1 .. n |-> p.ip.headers[i].type]
                       /\ H = FragmentHeaders(p.ip)
    OBVIOUS
  <2>2. a[p] = T /\ b[p] = 1 .. n BY <1>2, <2>1 DEF HeaderTypes, HeaderPlaces
  <2>3. n \in Nat /\ DOMAIN p.ip.headers = 1 .. n
    BY <1>7, <2>1, TakenTyped DEF NetworkTyped
  <2>4. H = {j \in 1 .. n : T[j] = 44} BY <2>1, <2>3 DEF FragmentHeaders
  <2>5. IsFiniteSet(1 .. n)
    <3>1. 1 \in Int /\ n \in Int BY <2>3
    <3> QED BY <3>1, FS_Interval
  <2>6. IsFiniteSet(H) /\ \A X \in SUBSET H : IsFiniteSet(X) /\ Cardinality(X) \in Nat
    <3>1. H \subseteq 1 .. n BY <2>4
    <3>2. IsFiniteSet(H) BY <2>5, <3>1, FS_Subset
    <3> QED BY <3>2, FS_Subset, FS_CardinalityType
  <2>7. PICK g, E : g = [j \in H |-> <<<<k, j>>, 44>>] /\ E = {g[j] : j \in H} OBVIOUS
  <2>8. IsFiniteSet(E) /\ Cardinality(E) = Cardinality(H)
    <3>1. \A i \in H, j \in H : g[i] = g[j] => i = j BY <2>7
    <3>2. IsFiniteSet(H) BY <2>6
    <3>3. IsFiniteSet({g[j] : j \in H}) /\ Cardinality({g[j] : j \in H}) = Cardinality(H)
      BY <3>1, <3>2, AsMany
    <3>4. E = {g[j] : j \in H} BY <2>7
    <3> QED BY <3>3, <3>4
  <2>9. Fiber(PlacesIn(t, a, b, P), 44) = Fiber(Q, 44) \cup E
    <3>1. PICK R : R = PlacesOf(k, T, 1 .. n) OBVIOUS
    <3>2. PlacesIn(t, a, b, P) = Q \cup R BY <1>6, <1>7, <2>2, <3>1
    <3>3. Fiber(R, 44) = E
      <4>1. R = {<<<<k, j>>, T[j]>> : j \in 1 .. n} BY <3>1 DEF PlacesOf
      <4>2. ASSUME NEW e \in Fiber(R, 44) PROVE e \in E
        <5>1. PICK j \in 1 .. n : e = <<<<k, j>>, T[j]>> /\ e[2] = 44 BY <4>1 DEF Fiber
        <5>2. j \in H /\ e = <<<<k, j>>, 44>> BY <2>4, <5>1
        <5> QED BY <2>7, <5>2
      <4>3. ASSUME NEW e \in E PROVE e \in Fiber(R, 44)
        <5>1. PICK j \in H : e = <<<<k, j>>, 44>> BY <2>7
        <5>2. j \in 1 .. n /\ T[j] = 44 BY <2>4
        <5>3. e \in R BY <4>1, <5>1, <5>2
        <5> QED BY <5>1, <5>3 DEF Fiber
      <4> QED BY <4>2, <4>3
    <3>4. Fiber(Q \cup R, 44) = Fiber(Q, 44) \cup Fiber(R, 44) BY DEF Fiber
    <3> QED BY <3>2, <3>3, <3>4
  <2>10. Fiber(Q, 44) \cap E = {}
    <3>1. \A e \in E : \E j : e[1] = <<k, j>> BY <2>7
    <3> QED BY <1>6, <3>1 DEF Fiber
  <2>11. Cardinality(Fiber(Q, 44) \cup E) = Cardinality(Fiber(Q, 44)) + Cardinality(H)
    <3>1. PICK F : F = Fiber(Q, 44) OBVIOUS
    <3>2. IsFiniteSet(F) /\ Cardinality(F) \in Nat BY <1>4, <3>1, FiberFinite
    <3>3. F \cap E = {} BY <2>10, <3>1
    <3>4. Cardinality(F \cup E) = Cardinality(F) + Cardinality(E) - Cardinality(F \cap E)
      BY <2>8, <3>2, FS_Union
    <3>5. Cardinality(F \cap E) = 0 BY <3>3, FS_EmptySet
    <3>6. Cardinality(H) \in Nat BY <2>6
    <3> QED BY <2>8, <3>1, <3>2, <3>4, <3>5, <3>6
  <2>12. PICK M, R, B : /\ M = {i \in H : p.ip.headers[i].more}
                        /\ R = {i \in H : p.ip.headers[i].reserved > 0}
                        /\ B = {i \in H : p.ip.headers[i].reserved_bits > 0}
    OBVIOUS
  <2>13. M \in SUBSET H /\ R \in SUBSET H /\ B \in SUBSET H /\ H \in SUBSET H BY <2>12
  <2>14. PICK h, m, r, z : /\ h = Cardinality(H) /\ m = Cardinality(M) /\ r = Cardinality(R)
                           /\ z = Cardinality(B)
    OBVIOUS
  <2>15. h \in Nat /\ m \in Nat /\ r \in Nat /\ z \in Nat BY <2>6, <2>13, <2>14
  <2>16. PICK u, v, y : u = One(H # {}) /\ v = One(m > 0) /\ y = One(h > 1) OBVIOUS
  <2>17. u \in Nat /\ v \in Nat /\ y \in Nat BY <2>16, OneType
  <2>18. w = [packets |-> f.packets + 1, with_headers |-> f.with_headers + u,
              fragmented |-> f.fragmented + v, repeated |-> f.repeated + y,
              first |-> f.first + m, atomic |-> f.atomic + h - m,
              reserved |-> f.reserved + r, reserved_bits |-> f.reserved_bits + z]
    <3>1. w = IPv6FragmentsUpdated(f, p.ip) BY <1>1, <1>7
    <3> QED BY <2>1, <2>12, <2>14, <2>16, <3>1 DEF IPv6FragmentsUpdated
  <2>19. /\ f.packets \in Nat /\ f.with_headers \in Nat /\ f.fragmented \in Nat
         /\ f.repeated \in Nat /\ f.first \in Nat /\ f.atomic \in Int /\ f.reserved \in Nat
         /\ f.reserved_bits \in Nat
    BY <1>4 DEF IPv6Fragments
  <2>20. /\ f.packets + 1 \in Nat /\ f.with_headers + u \in Nat /\ f.fragmented + v \in Nat
         /\ f.repeated + y \in Nat /\ f.first + m \in Nat /\ f.reserved + r \in Nat
         /\ f.reserved_bits + z \in Nat
    BY <2>15, <2>17, <2>19, NatPlus
  <2>21. PICK x, c : x = f.first /\ c = f.atomic OBVIOUS
  <2>22. c + h - m \in Int /\ (x + m) + (c + h - m) = (x + c) + h
    <3>1. x \in Int /\ c \in Int BY <2>19, <2>21
    <3> QED BY <2>15, <3>1
  <2>23. w \in IPv6Fragments BY <2>18, <2>20, <2>21, <2>22 DEF IPv6Fragments
  <2>24. w.first + w.atomic = Cardinality(Fiber(PlacesIn(t, a, b, P), 44))
    <3>1. w.first + w.atomic = (x + c) + h BY <2>18, <2>21, <2>22
    <3> QED BY <1>4, <2>9, <2>11, <2>14, <2>21, <3>1
  <2> QED BY <1>1, <1>2, <1>7, <2>23, <2>24 DEF FragmentOf
<1>8. CASE p \notin P
  <2>1. w = f BY <1>1, <1>8
  <2> QED BY <1>1, <1>2, <1>4, <1>6, <1>8, <2>1 DEF FragmentOf
<1> QED BY <1>7, <1>8

LEMMA FragmentStart == ASSUME NEW P PROVE FragmentOf(NoIPv6Fragments, <<>>, P)
<1>1. NoIPv6Fragments \in IPv6Fragments BY DEF NoIPv6Fragments, IPv6Fragments
<1>2. NoIPv6Fragments.first + NoIPv6Fragments.atomic = 0 BY DEF NoIPv6Fragments
<1>3. Fiber({}, 44) = {} BY DEF Fiber
<1> QED BY <1>1, <1>2, <1>3, NothingAmong, FS_EmptySet DEF FragmentOf

(* The UDP datagrams.                                                      *)
DatagramsOf(u, s, P) ==
    /\ u \in Datagrams
    /\ u.count = Cardinality(Among(s, P))
    /\ u.total + u.surplus = TotalOf(s, Payload, P)

LEMMA DatagramsNext ==
    ASSUME NEW s \in Seq(Taken), NEW p \in Taken, NEW P, NEW u, DatagramsOf(u, s, P),
           p \in P => p.identity.protocol = UDP
    PROVE  DatagramsOf(IF p \in P THEN DatagramsUpdated(u, p) ELSE u, Append(s, p), P)
<1>1. PICK w, t : w = (IF p \in P THEN DatagramsUpdated(u, p) ELSE u) /\ t = Append(s, p) OBVIOUS
<1>2. PICK g : g = Payload OBVIOUS
<1>3. \A q \in Taken : g[q] \in Int
  <2> SUFFICES ASSUME NEW q \in Taken PROVE g[q] \in Int OBVIOUS
  <2>1. q.ip_payload \in Int BY TakenTyped DEF NetworkTyped
  <2>2. PICK x : x = q.ip_payload OBVIOUS
  <2>3. x - 8 \in Int BY <2>1, <2>2
  <2> QED BY <1>2, <2>2, <2>3 DEF Payload
<1>4. /\ TotalOf(s, g, P) \in Int
      /\ TotalOf(t, g, P) = TotalOf(s, g, P) + (IF p \in P THEN g[p] ELSE 0)
  BY <1>1, <1>3, TotalNext
<1>5. /\ Cardinality(Among(t, P)) = Cardinality(Among(s, P)) + (IF p \in P THEN 1 ELSE 0)
      /\ Cardinality(Among(s, P)) \in Nat
  BY <1>1, AmongCounts, AmongTyped
<1>6. u \in Datagrams /\ u.count = Cardinality(Among(s, P))
      /\ u.total + u.surplus = TotalOf(s, g, P)
  BY <1>2 DEF DatagramsOf
<1>7. CASE p \in P
  <2>1. PICK l, i : l = p.transport.length /\ i = p.ip_payload OBVIOUS
  <2>2. l \in Int /\ i \in Int /\ g[p] = i - 8
    <3>1. p.transport.length \in Nat BY <1>7, TakenTyped DEF TransportTyped
    <3>2. p.ip_payload \in Int BY TakenTyped DEF NetworkTyped
    <3>3. g[p] = i - 8 BY <1>2, <2>1 DEF Payload
    <3> QED BY <2>1, <3>1, <3>2, <3>3
  <2>3. PICK m, e, f : m = l - 8 /\ e = One(m = 0) /\ f = One(i - l > 0) OBVIOUS
  <2>4. m \in Int /\ e \in Nat /\ f \in Nat /\ i - l \in Int BY <2>2, <2>3, OneType
  <2>5. w = [count |-> u.count + 1, empty |-> u.empty + e,
             least |-> IF u.count = 0 \/ m < u.least THEN m ELSE u.least,
             greatest |-> IF u.count = 0 \/ m > u.greatest THEN m ELSE u.greatest,
             total |-> u.total + m, surplus_count |-> u.surplus_count + f,
             surplus |-> u.surplus + (i - l)]
    <3>1. w = DatagramsUpdated(u, p) BY <1>1, <1>7
    <3> QED BY <2>1, <2>3, <3>1 DEF DatagramsUpdated, Surplus
  <2>6. /\ u.count \in Nat /\ u.empty \in Nat /\ u.least \in Int \cup {None}
        /\ u.greatest \in Int \cup {None} /\ u.total \in Int /\ u.surplus_count \in Nat
        /\ u.surplus \in Int
    BY <1>6 DEF Datagrams
  <2>7. /\ u.count + 1 \in Nat /\ u.empty + e \in Nat /\ u.surplus_count + f \in Nat
        /\ u.total + m \in Int /\ u.surplus + (i - l) \in Int
    BY <2>4, <2>6, NatPlus, IntPlus
  <2>8. w.least \in Int \cup {None} /\ w.greatest \in Int \cup {None} BY <2>4, <2>5, <2>6
  <2>9. w = [count |-> u.count + 1, empty |-> u.empty + e, least |-> w.least,
             greatest |-> w.greatest, total |-> u.total + m,
             surplus_count |-> u.surplus_count + f, surplus |-> u.surplus + (i - l)]
    BY <2>5
  <2>10. w \in Datagrams BY <2>7, <2>8, <2>9 DEF Datagrams
  <2>11. w.count = Cardinality(Among(t, P)) BY <1>5, <1>6, <1>7, <2>5
  <2>12. w.total + w.surplus = TotalOf(t, g, P)
    <3>1. PICK x, y : x = u.total /\ y = u.surplus OBVIOUS
    <3>2. (x + m) + (y + (i - l)) = (x + y) + (i - 8) BY <2>2, <2>3, <2>6, <3>1
    <3>3. TotalOf(t, g, P) = (x + y) + (i - 8) BY <1>4, <1>6, <1>7, <2>2, <3>1
    <3> QED BY <2>5, <3>1, <3>2, <3>3
  <2> QED BY <1>1, <1>2, <1>7, <2>10, <2>11, <2>12 DEF DatagramsOf
<1>8. CASE p \notin P
  <2>1. w = u BY <1>1, <1>8
  <2>2. w.count = Cardinality(Among(t, P)) BY <1>5, <1>6, <1>8, <2>1
  <2>3. w.total + w.surplus = TotalOf(t, g, P) BY <1>4, <1>6, <1>8, <2>1
  <2> QED BY <1>1, <1>2, <1>6, <1>8, <2>1, <2>2, <2>3 DEF DatagramsOf
<1> QED BY <1>7, <1>8

LEMMA DatagramsStart == ASSUME NEW P PROVE DatagramsOf(NoDatagrams, <<>>, P)
<1>1. NoDatagrams \in Datagrams BY DEF NoDatagrams, Datagrams
<1>2. NoDatagrams.total + NoDatagrams.surplus = 0 /\ NoDatagrams.count = 0 BY DEF NoDatagrams
<1> QED BY <1>1, <1>2, NothingAmong, FS_EmptySet DEF DatagramsOf

-----------------------------------------------------------------------------
(* The options of a segment, of which none counts when one is malformed.   *)
Broken(p) == \E i \in 1 .. Len(p.transport.options) : Malformed(p.transport.options[i])

OptionKinds ==
    [p \in Taken |-> [i \in 1 .. Len(p.transport.options) |-> p.transport.options[i].kind]]
OptionValues ==
    [p \in Taken |-> [i \in 1 .. Len(p.transport.options) |-> p.transport.options[i].value]]
OptionPlaces ==
    [p \in Taken |-> IF Broken(p) THEN {} ELSE 1 .. Len(p.transport.options)]
PlacesOfKind(kind) ==
    [p \in Taken |-> IF Broken(p) THEN {} ELSE OfKind(p.transport.options, kind)]

OptionsOf(o, s, P) ==
    /\ o \in TCPOptions
    /\ Holds(o.kinds, PlacesIn(s, OptionKinds, OptionPlaces, P))
    /\ Holds(o.mss, PlacesIn(s, OptionValues, PlacesOfKind(2), P))
    /\ Holds(o.scales, PlacesIn(s, OptionValues, PlacesOfKind(3), P))

LEMMA SegmentTyped ==
    ASSUME NEW p \in Taken, p.identity.protocol = TCP,
           NEW o, o = p.transport.options, NEW n, n = Len(o)
    PROVE  /\ n \in Nat /\ DOMAIN o = 1 .. n /\ p.transport.area \in Int
           /\ \A i \in 1 .. n : o[i].kind \in Nat /\ o[i].length \in Nat
           /\ \A i \in 1 .. n : o[i].kind \in {2, 3} => o[i].value \in Nat
<1>1. /\ p.transport.area \in Int /\ o \in Seq(OptionFields)
      /\ \A i \in DOMAIN o : o[i].kind \in {2, 3} => o[i].value \in Nat
  BY TakenTyped DEF TransportTyped
<1>2. n \in Nat /\ DOMAIN o = 1 .. n /\ \A i \in 1 .. n : o[i] \in OptionFields
  BY <1>1, LenProperties, ElementOfSeq
<1>3. ASSUME NEW i \in 1 .. n PROVE o[i].kind \in Nat /\ o[i].length \in Nat
  <2>1. PICK h : h = o[i] OBVIOUS
  <2>2. h \in OptionFields BY <1>2, <2>1
  <2>3. h.kind \in 0 .. 255 /\ h.length \in Nat BY <2>2 DEF OptionFields
  <2>4. h.kind \in Nat BY <2>3, ByteIsNat
  <2> QED BY <2>1, <2>3, <2>4
<1> QED BY <1>1, <1>2, <1>3

LEMMA SubsetsCounted ==
    ASSUME NEW n \in Nat
    PROVE  \A X \in SUBSET (1 .. n) : IsFiniteSet(X) /\ Cardinality(X) \in Nat
<1>1. 1 \in Int /\ n \in Int OBVIOUS
<1>2. IsFiniteSet(1 .. n) BY <1>1, FS_Interval
<1> QED BY <1>2, FS_Subset, FS_CardinalityType

LEMMA BlocksType ==
    ASSUME NEW n \in Nat, NEW o, \A i \in 1 .. n : o[i].length \in Nat,
           NEW b, b = [i \in 1 .. n |-> IF o[i].kind = 5 THEN (o[i].length - 2) \div 8 ELSE 0]
    PROVE  Sum(b) \in Int
<1>1. \A i \in 1 .. n : b[i] \in Int
  <2> SUFFICES ASSUME NEW i \in 1 .. n PROVE b[i] \in Int OBVIOUS
  <2>1. PICK l : l = o[i].length OBVIOUS
  <2>2. l \in Int BY <2>1
  <2>3. (l - 2) \div 8 \in Int BY <2>2
  <2>4. b[i] = IF o[i].kind = 5 THEN (l - 2) \div 8 ELSE 0 BY <2>1
  <2> QED BY <2>3, <2>4
<1>2. DOMAIN b = 1 .. n OBVIOUS
<1>3. IsFiniteSet(DOMAIN b) BY <1>2, SubsetsCounted
<1>4. Sum(b) = SumOf(b, DOMAIN b) BY <1>1, <1>2, <1>3, SumIs
<1> HIDE DEF Sum
<1>5. \A i \in DOMAIN b : b[i] \in Int BY <1>1, <1>2
<1>6. SumOf(b, DOMAIN b) \in Int BY <1>3, <1>5, SumOfType
<1> QED BY <1>4, <1>6

LEMMA PlacesNoneMore ==
    ASSUME NEW s \in Seq(Taken), NEW p \in Taken, NEW v, NEW q, NEW P
    PROVE  q[p] = {} => PlacesIn(Append(s, p), v, q, P) = PlacesIn(s, v, q, P)
<1>1. PICK Q, R, n : /\ Q = PlacesIn(s, v, q, P) /\ R = PlacesIn(Append(s, p), v, q, P)
                     /\ n = Len(s) + 1
  OBVIOUS
<1>2. R = IF p \in P THEN Q \cup PlacesOf(n, v[p], q[p]) ELSE Q
  BY <1>1, PlacesNext
<1>3. PlacesOf(n, v[p], {}) = {} BY DEF PlacesOf
<1>4. ASSUME q[p] = {} PROVE R = Q
  <2>1. q[p] = {} BY <1>4
  <2>2. PICK e : e = q[p] OBVIOUS
  <2>3. PlacesOf(n, v[p], e) = {} BY <1>3, <2>1, <2>2
  <2> QED BY <1>2, <2>2, <2>3
<1> QED BY <1>1, <1>4

LEMMA OptionsNext ==
    ASSUME NEW s \in Seq(Taken), NEW p \in Taken, NEW P, NEW c, OptionsOf(c, s, P),
           p \in P => p.identity.protocol = TCP
    PROVE  OptionsOf(IF p \in P THEN TCPOptionsUpdated(c, p.transport) ELSE c, Append(s, p), P)
<1>1. PICK w, t : w = (IF p \in P THEN TCPOptionsUpdated(c, p.transport) ELSE c) /\ t = Append(s, p)
  OBVIOUS
<1>2. PICK a, b, e, f, g : /\ a = OptionKinds /\ b = OptionPlaces /\ e = OptionValues
                           /\ f = PlacesOfKind(2) /\ g = PlacesOfKind(3)
  OBVIOUS
<1>3. PICK o, n : o = p.transport.options /\ n = Len(o) OBVIOUS
<1>4. /\ c \in TCPOptions /\ Holds(c.kinds, PlacesIn(s, a, b, P))
      /\ Holds(c.mss, PlacesIn(s, e, f, P)) /\ Holds(c.scales, PlacesIn(s, e, g, P))
  BY <1>2 DEF OptionsOf
<1>5. /\ c.packets \in Nat /\ c.malformed \in Nat /\ c.with_options \in Nat /\ c.bytes \in Int
      /\ c.duplicates \in Nat /\ c.sack_blocks \in Int
  BY <1>4 DEF TCPOptions
<1>6. CASE p \in P /\ Broken(p)
  <2>1. b[p] = {} /\ f[p] = {} /\ g[p] = {} BY <1>2, <1>6 DEF OptionPlaces, PlacesOfKind
  <2>2. /\ PlacesIn(t, a, b, P) = PlacesIn(s, a, b, P) /\ PlacesIn(t, e, f, P) = PlacesIn(s, e, f, P)
        /\ PlacesIn(t, e, g, P) = PlacesIn(s, e, g, P)
    BY <1>1, <2>1, PlacesNoneMore
  <2>3. w = [c EXCEPT !.packets = @ + 1, !.malformed = @ + 1]
    <3>1. w = TCPOptionsUpdated(c, p.transport) BY <1>1, <1>6
    <3>2. \E i \in 1 .. Len(p.transport.options) : Malformed(p.transport.options[i])
      BY <1>6 DEF Broken
    <3> QED BY <3>1, <3>2 DEF TCPOptionsUpdated
  <2>4. /\ w = [packets |-> c.packets + 1, malformed |-> c.malformed + 1,
                with_options |-> c.with_options, bytes |-> c.bytes, kinds |-> c.kinds,
                duplicates |-> c.duplicates, mss |-> c.mss, scales |-> c.scales,
                sack_blocks |-> c.sack_blocks]
    <3>1. c = [packets |-> c.packets, malformed |-> c.malformed,
               with_options |-> c.with_options, bytes |-> c.bytes, kinds |-> c.kinds,
               duplicates |-> c.duplicates, mss |-> c.mss, scales |-> c.scales,
               sack_blocks |-> c.sack_blocks]
      BY <1>4 DEF TCPOptions
    <3> QED BY <2>3, <3>1
  <2>5. c.packets + 1 \in Nat /\ c.malformed + 1 \in Nat BY <1>5, NatPlus
  <2>6. c.kinds \in Bins /\ c.mss \in Bins /\ c.scales \in Bins BY <1>4 DEF TCPOptions
  <2>7. w \in TCPOptions BY <1>5, <2>4, <2>5, <2>6 DEF TCPOptions
  <2>8. w.kinds = c.kinds /\ w.mss = c.mss /\ w.scales = c.scales BY <2>4
  <2> QED BY <1>1, <1>2, <1>4, <1>6, <2>2, <2>7, <2>8 DEF OptionsOf
<1>7. CASE p \in P /\ ~Broken(p)
  <2>1. /\ n \in Nat /\ DOMAIN o = 1 .. n /\ p.transport.area \in Int
        /\ \A i \in 1 .. n : o[i].kind \in Nat /\ o[i].length \in Nat
        /\ \A i \in 1 .. n : o[i].kind \in {2, 3} => o[i].value \in Nat
    BY <1>3, <1>7, SegmentTyped
  <2>2. PICK K, V, B : /\ K = [i \in 1 .. n |-> o[i].kind] /\ V = [i \in 1 .. n |-> o[i].value]
                       /\ B = [i \in 1 .. n |-> IF o[i].kind = 5 THEN (o[i].length - 2) \div 8
                                                ELSE 0]
    OBVIOUS
  <2>3. /\ a[p] = K /\ e[p] = V /\ b[p] = 1 .. n /\ f[p] = OfKind(o, 2) /\ g[p] = OfKind(o, 3)
    BY <1>2, <1>3, <1>7, <2>2 DEF OptionKinds, OptionValues, OptionPlaces, PlacesOfKind
  <2>4. Len(K) = n /\ Len(V) = n BY <2>1, <2>2
  <2>5. /\ \A i \in 1 .. n : K[i] \in Int
        /\ OfKind(o, 2) \in SUBSET (1 .. n) /\ OfKind(o, 3) \in SUBSET (1 .. n)
        /\ \A i \in OfKind(o, 2) \cup OfKind(o, 3) : V[i] \in Int
    <3>1. \A i \in 1 .. n : K[i] \in Nat BY <2>1, <2>2
    <3>2. OfKind(o, 2) \in SUBSET (1 .. n) /\ OfKind(o, 3) \in SUBSET (1 .. n)
      BY <2>1 DEF OfKind
    <3>3. \A i \in OfKind(o, 2) \cup OfKind(o, 3) : V[i] \in Nat BY <2>1, <2>2 DEF OfKind
    <3> QED BY <3>1, <3>2, <3>3
  <2>6. Holds(Counting(c.kinds, K, 1 .. n), PlacesIn(t, a, b, P))
    <3>1. PICK bins : bins = c.kinds OBVIOUS
    <3>2. /\ Len(a[p]) \in Nat /\ b[p] \in SUBSET (1 .. Len(a[p]))
          /\ \A i \in b[p] : a[p][i] \in Int
      BY <2>1, <2>3, <2>4, <2>5
    <3>3. Holds(bins, PlacesIn(s, a, b, P)) BY <1>4, <3>1
    <3>4. Holds(IF p \in P THEN Counting(bins, a[p], b[p]) ELSE bins,
                PlacesIn(Append(s, p), a, b, P))
      BY <3>2, <3>3, PlacesHeld
    <3> QED BY <1>1, <1>7, <2>3, <3>1, <3>4
  <2>7. Holds(Counting(c.mss, V, OfKind(o, 2)), PlacesIn(t, e, f, P))
    <3>1. PICK bins : bins = c.mss OBVIOUS
    <3>2. /\ Len(e[p]) \in Nat /\ f[p] \in SUBSET (1 .. Len(e[p]))
          /\ \A i \in f[p] : e[p][i] \in Int
      BY <2>1, <2>3, <2>4, <2>5
    <3>3. Holds(bins, PlacesIn(s, e, f, P)) BY <1>4, <3>1
    <3>4. Holds(IF p \in P THEN Counting(bins, e[p], f[p]) ELSE bins,
                PlacesIn(Append(s, p), e, f, P))
      BY <3>2, <3>3, PlacesHeld
    <3> QED BY <1>1, <1>7, <2>3, <3>1, <3>4
  <2>8. Holds(Counting(c.scales, V, OfKind(o, 3)), PlacesIn(t, e, g, P))
    <3>1. PICK bins : bins = c.scales OBVIOUS
    <3>2. /\ Len(e[p]) \in Nat /\ g[p] \in SUBSET (1 .. Len(e[p]))
          /\ \A i \in g[p] : e[p][i] \in Int
      BY <2>1, <2>3, <2>4, <2>5
    <3>3. Holds(bins, PlacesIn(s, e, g, P)) BY <1>4, <3>1
    <3>4. Holds(IF p \in P THEN Counting(bins, e[p], g[p]) ELSE bins,
                PlacesIn(Append(s, p), e, g, P))
      BY <3>2, <3>3, PlacesHeld
    <3> QED BY <1>1, <1>7, <2>3, <3>1, <3>4
  <2>9. PICK x, d, m : /\ x = One(p.transport.area > 0) /\ d = Cardinality(Repeated(o))
                       /\ m = Sum(B)
    OBVIOUS
  <2>10. x \in Nat /\ d \in Nat /\ m \in Int
    <3>1. Repeated(o) \in SUBSET (1 .. n) BY <2>1 DEF Repeated
    <3>2. d \in Nat BY <2>1, <2>9, <3>1, SubsetsCounted
    <3>3. m \in Int
      <4>1. \A i \in 1 .. n : o[i].length \in Nat BY <2>1
      <4>2. Sum(B) \in Int BY <2>1, <2>2, <4>1, BlocksType
      <4> QED BY <2>9, <4>2
    <3> QED BY <2>9, <3>2, <3>3, OneType
  <2>11. w = [packets |-> c.packets + 1, malformed |-> c.malformed,
              with_options |-> c.with_options + x, bytes |-> c.bytes + p.transport.area,
              kinds |-> Counting(c.kinds, K, 1 .. n), duplicates |-> c.duplicates + d,
              mss |-> Counting(c.mss, V, OfKind(o, 2)),
              scales |-> Counting(c.scales, V, OfKind(o, 3)), sack_blocks |-> c.sack_blocks + m]
    <3>1. w = TCPOptionsUpdated(c, p.transport) BY <1>1, <1>7
    <3>2. ~\E i \in 1 .. n : Malformed(o[i]) BY <1>3, <1>7 DEF Broken
    <3>3. B = [i \in 1 .. n |-> IF K[i] = 5 THEN (o[i].length - 2) \div 8 ELSE 0] BY <2>2
    <3> QED BY <1>3, <2>2, <2>9, <3>1, <3>2, <3>3 DEF TCPOptionsUpdated
  <2>12. /\ c.packets + 1 \in Nat /\ c.with_options + x \in Nat /\ c.duplicates + d \in Nat
         /\ c.bytes + p.transport.area \in Int /\ c.sack_blocks + m \in Int
    BY <1>5, <2>1, <2>10, NatPlus, IntPlus
  <2>13. /\ Counting(c.kinds, K, 1 .. n) \in Bins /\ Counting(c.mss, V, OfKind(o, 2)) \in Bins
         /\ Counting(c.scales, V, OfKind(o, 3)) \in Bins
    BY <2>6, <2>7, <2>8, HistogramBins
  <2>14. w \in TCPOptions BY <1>5, <2>11, <2>12, <2>13 DEF TCPOptions
  <2>15. /\ w.kinds = Counting(c.kinds, K, 1 .. n) /\ w.mss = Counting(c.mss, V, OfKind(o, 2))
         /\ w.scales = Counting(c.scales, V, OfKind(o, 3))
    BY <2>11
  <2> QED BY <1>1, <1>2, <1>7, <2>6, <2>7, <2>8, <2>14, <2>15 DEF OptionsOf
<1>8. CASE p \notin P
  <2>1. w = c BY <1>1, <1>8
  <2>2. /\ PlacesIn(t, a, b, P) = PlacesIn(s, a, b, P) /\ PlacesIn(t, e, f, P) = PlacesIn(s, e, f, P)
        /\ PlacesIn(t, e, g, P) = PlacesIn(s, e, g, P)
    BY <1>1, <1>8, PlacesNext
  <2> QED BY <1>1, <1>2, <1>4, <1>8, <2>1, <2>2 DEF OptionsOf
<1> QED BY <1>6, <1>7, <1>8

LEMMA OptionsStart == ASSUME NEW P PROVE OptionsOf(NoTCPOptions, <<>>, P)
<1>1. NoTCPOptions \in TCPOptions BY NothingAmong DEF NoTCPOptions, TCPOptions
<1>2. NoTCPOptions.kinds = NoBins /\ NoTCPOptions.mss = NoBins /\ NoTCPOptions.scales = NoBins
  BY DEF NoTCPOptions
<1> QED BY <1>1, <1>2, NothingAmong, HoldsNone DEF OptionsOf

-----------------------------------------------------------------------------
(* The headers of the packets of a direction.                              *)
HeadersOf(h, s, d) ==
    /\ h \in HeaderStates
    /\ Holds(h.hop_limit, PairsOf(s, HopLimit, Going(d)))
    /\ Holds(h.traffic_class, PairsOf(s, TrafficClass, Versioned(d, 6)))
    /\ Labels(h.flow_label, PairsOf(s, FlowLabel, Versioned(d, 6)))
    /\ IPv4Of(h.ipv4, s, Versioned(d, 4))
    /\ ExtensionOf(h.extension, s, Versioned(d, 6))
    /\ FragmentOf(h.fragment, s, Versioned(d, 6))
    /\ DatagramsOf(h.udp, s, Speaking(d, {UDP}))
    /\ Holds(h.icmp, PairsOf(s, MessageCode, Speaking(d, ICMP)))
    /\ OptionsOf(h.options, s, Speaking(d, {TCP}))

LEMMA HeadersKept ==
    ASSUME NEW h, NEW s, NEW d, HeadersOf(h, s, d)
    PROVE  h = [hop_limit |-> h.hop_limit, traffic_class |-> h.traffic_class,
                flow_label |-> h.flow_label, ipv4 |-> h.ipv4, extension |-> h.extension,
                fragment |-> h.fragment, udp |-> h.udp, icmp |-> h.icmp, options |-> h.options]
BY DEF HeadersOf, HeaderStates

LEMMA HeadersNext ==
    ASSUME NEW s \in Seq(Taken), NEW p \in Taken, NEW d, NEW h, HeadersOf(h, s, d),
           NEW w, w = IF p.direction = d THEN HeadersUpdated(h, p) ELSE h
    PROVE  HeadersOf(w, Append(s, p), d)
<1>1. PICK t : t = Append(s, p) OBVIOUS
<1>2. PICK G, F, S, D, M, O : /\ G = Going(d) /\ F = Versioned(d, 4) /\ S = Versioned(d, 6)
                              /\ D = Speaking(d, {UDP}) /\ M = Speaking(d, ICMP)
                              /\ O = Speaking(d, {TCP})
  OBVIOUS
<1>3. /\ p \in G <=> p.direction = d
      /\ p \in F <=> p.direction = d /\ p.ip.version = 4
      /\ p \in S <=> p.direction = d /\ p.ip.version # 4
      /\ p \in D <=> p.direction = d /\ p.identity.protocol = UDP
      /\ p \in M <=> p.direction = d /\ p.identity.protocol \in ICMP
      /\ p \in O <=> p.direction = d /\ p.identity.protocol = TCP
  <2>1. p.ip.version \in {4, 6} BY TakenTyped DEF NetworkTyped
  <2> QED BY <1>2, <2>1 DEF Going, Versioned, Speaking
<1>4. /\ w.hop_limit = IF p \in G THEN HopLimitsUpdated(h.hop_limit, p.ip) ELSE h.hop_limit
      /\ w.traffic_class = IF p \in S THEN TrafficClassesUpdated(h.traffic_class, p.ip)
                           ELSE h.traffic_class
      /\ w.flow_label = IF p \in S THEN FlowLabelsUpdated(h.flow_label, p.ip) ELSE h.flow_label
      /\ w.ipv4 = IF p \in F THEN IPv4HeadersUpdated(h.ipv4, p.ip) ELSE h.ipv4
      /\ w.extension = IF p \in S THEN ExtensionHeadersUpdated(h.extension, p.ip)
                       ELSE h.extension
      /\ w.fragment = IF p \in S THEN IPv6FragmentsUpdated(h.fragment, p.ip) ELSE h.fragment
      /\ w.udp = IF p \in D THEN DatagramsUpdated(h.udp, p) ELSE h.udp
      /\ w.icmp = IF p \in M THEN ICMPUpdated(h.icmp, p.transport) ELSE h.icmp
      /\ w.options = IF p \in O THEN TCPOptionsUpdated(h.options, p.transport) ELSE h.options
      /\ w = [hop_limit |-> w.hop_limit, traffic_class |-> w.traffic_class,
              flow_label |-> w.flow_label, ipv4 |-> w.ipv4, extension |-> w.extension,
              fragment |-> w.fragment, udp |-> w.udp, icmp |-> w.icmp, options |-> w.options]
  <2>1. CASE p.direction = d
    <3>1. w = HeadersUpdated(h, p) BY <2>1
    <3> QED BY <1>3, <2>1, <3>1 DEF HeadersUpdated
  <2>2. CASE p.direction # d BY <1>3, <2>2, HeadersKept
  <2> QED BY <2>1, <2>2
<1>5. /\ Holds(h.hop_limit, PairsOf(s, HopLimit, G))
      /\ Holds(h.traffic_class, PairsOf(s, TrafficClass, S))
      /\ Labels(h.flow_label, PairsOf(s, FlowLabel, S))
      /\ IPv4Of(h.ipv4, s, F) /\ ExtensionOf(h.extension, s, S) /\ FragmentOf(h.fragment, s, S)
      /\ DatagramsOf(h.udp, s, D) /\ Holds(h.icmp, PairsOf(s, MessageCode, M))
      /\ OptionsOf(h.options, s, O)
  BY <1>2 DEF HeadersOf
<1>6. /\ p.ip.hop_limit \in Int
      /\ p \in S => p.ip.version = 6 /\ p.ip.traffic_class \in Int /\ p.ip.flow_label \in Int
      /\ p \in M => TypeAndCode(p.transport) \in Int
  <2>1. /\ p.ip.hop_limit \in Nat /\ p.ip.version \in {4, 6}
        /\ p.ip.version = 6 => p.ip.traffic_class \in Nat /\ p.ip.flow_label \in Nat
    BY TakenTyped DEF NetworkTyped
  <2>2. ASSUME p \in M PROVE TypeAndCode(p.transport) \in Int
    <3>1. p.transport.type \in Nat /\ p.transport.code \in Nat
      BY <1>3, <2>2, TakenTyped DEF TransportTyped
    <3>2. PICK a, b : a = p.transport.type /\ b = p.transport.code OBVIOUS
    <3>3. 256 * a + b \in Int BY <3>1, <3>2
    <3> QED BY <3>2, <3>3 DEF TypeAndCode
  <2> QED BY <1>3, <2>1, <2>2
<1>7. Holds(w.hop_limit, PairsOf(t, HopLimit, G))
  <2>1. PICK b, g : b = h.hop_limit /\ g = HopLimit OBVIOUS
  <2>2. g[p] = p.ip.hop_limit BY <2>1 DEF HopLimit
  <2>3. Holds(b, PairsOf(s, g, G)) /\ g[p] \in Int BY <1>5, <1>6, <2>1, <2>2
  <2>4. Holds(IF p \in G THEN Incremented(b, g[p]) ELSE b, PairsOf(Append(s, p), g, G))
    BY <2>3, PairsHeld
  <2>5. w.hop_limit = IF p \in G THEN Incremented(b, g[p]) ELSE b
    BY <1>4, <2>1, <2>2 DEF HopLimitsUpdated
  <2> QED BY <1>1, <2>1, <2>4, <2>5
<1>8. Holds(w.traffic_class, PairsOf(t, TrafficClass, S))
  <2>1. PICK b, g : b = h.traffic_class /\ g = TrafficClass OBVIOUS
  <2>2. g[p] = p.ip.traffic_class BY <2>1 DEF TrafficClass
  <2>3. Holds(b, PairsOf(s, g, S)) /\ (p \in S => g[p] \in Int) BY <1>5, <1>6, <2>1, <2>2
  <2>4. Holds(IF p \in S THEN Incremented(b, g[p]) ELSE b, PairsOf(Append(s, p), g, S))
    BY <2>3, PairsHeld
  <2>5. w.traffic_class = IF p \in S THEN Incremented(b, g[p]) ELSE b
    BY <1>4, <2>1, <2>2 DEF TrafficClassesUpdated
  <2> QED BY <1>1, <2>1, <2>4, <2>5
<1>9. Holds(w.icmp, PairsOf(t, MessageCode, M))
  <2>1. PICK b, g : b = h.icmp /\ g = MessageCode OBVIOUS
  <2>2. g[p] = TypeAndCode(p.transport) BY <2>1 DEF MessageCode
  <2>3. Holds(b, PairsOf(s, g, M)) /\ (p \in M => g[p] \in Int) BY <1>5, <1>6, <2>1, <2>2
  <2>4. Holds(IF p \in M THEN Incremented(b, g[p]) ELSE b, PairsOf(Append(s, p), g, M))
    BY <2>3, PairsHeld
  <2>5. w.icmp = IF p \in M THEN Incremented(b, g[p]) ELSE b
    BY <1>4, <2>1, <2>2 DEF ICMPUpdated
  <2> QED BY <1>1, <2>1, <2>4, <2>5
<1>10. Labels(w.flow_label, PairsOf(t, FlowLabel, S))
  <2>1. PICK v : v = h.flow_label OBVIOUS
  <2>2. Labels(v, PairsOf(s, FlowLabel, S)) /\ (p \in S => p.ip.flow_label \in Int)
    BY <1>5, <1>6, <2>1
  <2>3. Labels(IF p \in S THEN FlowLabelsUpdated(v, p.ip) ELSE v,
               PairsOf(Append(s, p), FlowLabel, S))
    BY <2>2, LabelsNext
  <2> QED BY <1>1, <1>4, <2>1, <2>3
<1>11. IPv4Of(w.ipv4, t, F)
  <2>1. PICK v : v = h.ipv4 OBVIOUS
  <2>2. IPv4Of(v, s, F) /\ (p \in F => p.ip.version = 4) BY <1>3, <1>5, <2>1
  <2>3. IPv4Of(IF p \in F THEN IPv4HeadersUpdated(v, p.ip) ELSE v, Append(s, p), F)
    BY <2>2, IPv4Next
  <2> QED BY <1>1, <1>4, <2>1, <2>3
<1>12. ExtensionOf(w.extension, t, S)
  <2>1. PICK v : v = h.extension OBVIOUS
  <2>2. ExtensionOf(v, s, S) /\ (p \in S => p.ip.version = 6) BY <1>5, <1>6, <2>1
  <2>3. ExtensionOf(IF p \in S THEN ExtensionHeadersUpdated(v, p.ip) ELSE v, Append(s, p), S)
    BY <2>2, ExtensionNext
  <2> QED BY <1>1, <1>4, <2>1, <2>3
<1>13. FragmentOf(w.fragment, t, S)
  <2>1. PICK v : v = h.fragment OBVIOUS
  <2>2. FragmentOf(v, s, S) /\ (p \in S => p.ip.version = 6) BY <1>5, <1>6, <2>1
  <2>3. IsFiniteSet(PlacesIn(s, HeaderTypes, HeaderPlaces, S))
    <3>1. Holds(h.extension.types, PlacesIn(s, HeaderTypes, HeaderPlaces, S))
      BY <1>5 DEF ExtensionOf
    <3> QED BY <3>1 DEF Holds
  <2>4. FragmentOf(IF p \in S THEN IPv6FragmentsUpdated(v, p.ip) ELSE v, Append(s, p), S)
    BY <2>2, <2>3, FragmentNext
  <2> QED BY <1>1, <1>4, <2>1, <2>4
<1>14. DatagramsOf(w.udp, t, D)
  <2>1. PICK v : v = h.udp OBVIOUS
  <2>2. DatagramsOf(v, s, D) /\ (p \in D => p.identity.protocol = UDP) BY <1>3, <1>5, <2>1
  <2>3. DatagramsOf(IF p \in D THEN DatagramsUpdated(v, p) ELSE v, Append(s, p), D)
    BY <2>2, DatagramsNext
  <2> QED BY <1>1, <1>4, <2>1, <2>3
<1>15. OptionsOf(w.options, t, O)
  <2>1. PICK v : v = h.options OBVIOUS
  <2>2. OptionsOf(v, s, O) /\ (p \in O => p.identity.protocol = TCP) BY <1>3, <1>5, <2>1
  <2>3. OptionsOf(IF p \in O THEN TCPOptionsUpdated(v, p.transport) ELSE v, Append(s, p), O)
    BY <2>2, OptionsNext
  <2> QED BY <1>1, <1>4, <2>1, <2>3
<1>16. w \in HeaderStates
  <2>1. w.hop_limit \in Bins /\ w.traffic_class \in Bins /\ w.icmp \in Bins
    BY <1>7, <1>8, <1>9, HistogramBins
  <2>2. w.flow_label \in FlowLabels BY <1>10, LabelsTyped
  <2>3. /\ w.ipv4 \in IPv4Headers /\ w.extension \in ExtensionHeaders
        /\ w.fragment \in IPv6Fragments /\ w.udp \in Datagrams /\ w.options \in TCPOptions
    BY <1>11, <1>12, <1>13, <1>14, <1>15
    DEF IPv4Of, ExtensionOf, FragmentOf, DatagramsOf, OptionsOf
  <2> QED BY <1>4, <2>1, <2>2, <2>3 DEF HeaderStates
<1> QED
  BY <1>1, <1>2, <1>7, <1>8, <1>9, <1>10, <1>11, <1>12, <1>13, <1>14, <1>15, <1>16
  DEF HeadersOf

LEMMA HeadersStart == ASSUME NEW d PROVE HeadersOf(NoHeaders, <<>>, d)
<1>1. PICK h : h = NoHeaders OBVIOUS
<1>2. /\ h.hop_limit = NoBins /\ h.traffic_class = NoBins /\ h.icmp = NoBins
      /\ h.flow_label = NoFlowLabels /\ h.ipv4 = NoIPv4Headers
      /\ h.extension = NoExtensionHeaders /\ h.fragment = NoIPv6Fragments
      /\ h.udp = NoDatagrams /\ h.options = NoTCPOptions
      /\ h = [hop_limit |-> h.hop_limit, traffic_class |-> h.traffic_class,
              flow_label |-> h.flow_label, ipv4 |-> h.ipv4, extension |-> h.extension,
              fragment |-> h.fragment, udp |-> h.udp, icmp |-> h.icmp, options |-> h.options]
  BY <1>1 DEF NoHeaders
<1>3. /\ \A P : Labels(NoFlowLabels, PairsOf(<<>>, FlowLabel, P))
  BY NothingAmong, LabelsNone
<1>4. /\ \A P : IPv4Of(NoIPv4Headers, <<>>, P) /\ ExtensionOf(NoExtensionHeaders, <<>>, P)
      /\ \A P : FragmentOf(NoIPv6Fragments, <<>>, P) /\ DatagramsOf(NoDatagrams, <<>>, P)
      /\ \A P : OptionsOf(NoTCPOptions, <<>>, P)
  BY IPv4Start, ExtensionStart, FragmentStart, DatagramsStart, OptionsStart
<1>5. \A g, P : Holds(NoBins, PairsOf(<<>>, g, P)) BY NothingAmong, HoldsNone
<1>6. h \in HeaderStates
  <2>1. /\ h.ipv4 \in IPv4Headers /\ h.extension \in ExtensionHeaders
        /\ h.fragment \in IPv6Fragments /\ h.udp \in Datagrams /\ h.options \in TCPOptions
    BY <1>2, <1>4 DEF IPv4Of, ExtensionOf, FragmentOf, DatagramsOf, OptionsOf
  <2>2. h.flow_label \in FlowLabels BY <1>2, <1>3, LabelsTyped
  <2>3. NoBins \in Bins BY NothingAmong
  <2> QED BY <1>2, <2>1, <2>2, <2>3 DEF HeaderStates
<1>7. HeadersOf(h, <<>>, d)
  BY <1>2, <1>3, <1>4, <1>5, <1>6 DEF HeadersOf
<1> QED BY <1>1, <1>7

-----------------------------------------------------------------------------
Message(p) == p.transport.type \in 0 .. 255 /\ p.transport.code \in 0 .. 255

(* What a flow has accumulated stands for the packets it took.             *)
StateOf(st, s) ==
    /\ st.identity \in Identities
    /\ \A i \in DOMAIN s : s[i].identity = st.identity
    /\ \A i \in DOMAIN s : s[i].identity.protocol \in ICMP => Message(s[i])
    /\ FlowOf(st.flow, s) /\ VolumesOf(st.directional, s) /\ SizesOf(st.sizes, s)
    /\ IntervalsOf(st.intervals, s) /\ DirectionalOf(st.directional_intervals, s)
    /\ st.intervals = [packet_count |-> st.intervals.packet_count, first |-> st.intervals.first,
                       last |-> st.intervals.last, gaps |-> st.intervals.gaps]
    /\ IF st.identity.protocol = TCP THEN ControlOf(st.control, s) ELSE st.control = None
    /\ st.headers \in [Directions -> HeaderStates]
    /\ \A d \in Directions : HeadersOf(st.headers[d], s, d)
    /\ st.icmp_protocol \in ICMP \cup {None}

LEMMA StateNext ==
    ASSUME NEW s \in Seq(Taken), NEW p \in Taken, NEW st, StateOf(st, s),
           st.identity = p.identity, p.identity.protocol \in ICMP => Message(p),
           NEW w, w = Updated(st, p)
    PROVE  StateOf(w, Append(s, p)) /\ w \in CoordinatedStates
<1>1. PICK t, o, k : t = Append(s, p) /\ o = p.observation /\ k = p.direction OBVIOUS
<1>2. /\ w.identity = st.identity
      /\ w.flow = FlowStatisticsUpdated(st.flow, o)
      /\ w.directional = DirectionalStatisticsUpdated(st.directional, o, k)
      /\ w.sizes = PacketSizesUpdated(st.sizes, o, k)
      /\ w.intervals = IntervalsUpdated(st.intervals, o)
      /\ w.directional_intervals = DirectionalIntervalsUpdated(st.directional_intervals, o, k)
      /\ w.control = IF st.identity.protocol = TCP
                     THEN TCPControlUpdated(st.control, p.transport.flags, k) ELSE None
      /\ w.headers = [st.headers EXCEPT ![k] = HeadersUpdated(@, p)]
      /\ w.icmp_protocol = IF st.identity.protocol \in ICMP THEN st.identity.protocol
                           ELSE st.icmp_protocol
      /\ w = [identity |-> w.identity, flow |-> w.flow, directional |-> w.directional,
              sizes |-> w.sizes, intervals |-> w.intervals,
              directional_intervals |-> w.directional_intervals, control |-> w.control,
              headers |-> w.headers, icmp_protocol |-> w.icmp_protocol]
  BY <1>1 DEF Updated
<1>3. k \in Directions /\ p.identity \in Identities BY <1>1, TakenTyped
<1>4. t # <<>> /\ DOMAIN t = DOMAIN s \cup {Len(s) + 1} /\ t[Len(s) + 1] = p
      /\ \A i \in DOMAIN s : t[i] = s[i]
  BY <1>1, AppendOne
<1>5. /\ \A i \in DOMAIN t : t[i].identity = w.identity
      /\ \A i \in DOMAIN t : t[i].identity.protocol \in ICMP => Message(t[i])
  BY <1>2, <1>4 DEF StateOf
<1>6. FlowOf(w.flow, t)
  <2>1. FlowOf(st.flow, s) BY DEF StateOf
  <2> QED BY <1>1, <1>2, <2>1, FlowNext
<1>7. VolumesOf(w.directional, t)
  <2>1. VolumesOf(st.directional, s) BY DEF StateOf
  <2> QED BY <1>1, <1>2, <2>1, VolumesNext
<1>8. SizesOf(w.sizes, t)
  <2>1. SizesOf(st.sizes, s) BY DEF StateOf
  <2> QED BY <1>1, <1>2, <2>1, SizesNext
<1>9. IntervalsOf(w.intervals, t) /\ w.intervals \in Intervals
  <2>1. PICK v : v = st.intervals OBVIOUS
  <2>2. /\ IntervalsOf(v, s)
        /\ v = [packet_count |-> v.packet_count, first |-> v.first, last |-> v.last,
                gaps |-> v.gaps]
    BY <2>1 DEF StateOf
  <2>3. /\ IntervalsOf(IntervalsUpdated(v, p.observation), Append(s, p))
        /\ IntervalsUpdated(v, p.observation) \in Intervals
    BY <2>2, IntervalsNext
  <2> QED BY <1>1, <1>2, <2>1, <2>3
<1>10. DirectionalOf(w.directional_intervals, t) /\ w.directional_intervals \in DirectionalIntervals
  <2>1. PICK v : v = st.directional_intervals OBVIOUS
  <2>2. DirectionalOf(v, s) BY <2>1 DEF StateOf
  <2>3. /\ DirectionalOf(DirectionalIntervalsUpdated(v, p.observation, p.direction), Append(s, p))
        /\ DirectionalIntervalsUpdated(v, p.observation, p.direction) \in DirectionalIntervals
    BY <2>2, DirectionalNext
  <2> QED BY <1>1, <1>2, <2>1, <2>3
<1>11. IF w.identity.protocol = TCP THEN ControlOf(w.control, t) ELSE w.control = None
  <2>1. CASE st.identity.protocol = TCP
    <3>1. PICK c : c = st.control OBVIOUS
    <3>2. ControlOf(c, s) BY <2>1, <3>1 DEF StateOf
    <3>3. ControlOf(TCPControlUpdated(c, p.transport.flags, p.direction), Append(s, p))
      BY <3>2, ControlNext
    <3> QED BY <1>1, <1>2, <2>1, <3>1, <3>3
  <2>2. CASE st.identity.protocol # TCP BY <1>2, <2>2
  <2> QED BY <2>1, <2>2
<1>12. /\ w.headers \in [Directions -> HeaderStates]
       /\ \A d \in Directions : HeadersOf(w.headers[d], t, d)
  <2>1. PICK g, h : g = st.headers /\ h = w.headers OBVIOUS
  <2>2. g \in [Directions -> HeaderStates] /\ \A d \in Directions : HeadersOf(g[d], s, d)
    BY <2>1 DEF StateOf
  <2>3. h = [g EXCEPT ![k] = HeadersUpdated(g[k], p)] BY <1>2, <2>1
  <2>4. ASSUME NEW d \in Directions PROVE HeadersOf(h[d], t, d)
    <3>1. PICK a, b : a = g[d] /\ b = h[d] OBVIOUS
    <3>2. HeadersOf(a, s, d) BY <2>2, <3>1
    <3>3. b = IF p.direction = d THEN HeadersUpdated(a, p) ELSE a
      BY <1>1, <2>2, <2>3, <3>1
    <3>4. HeadersOf(b, Append(s, p), d) BY <3>2, <3>3, HeadersNext
    <3> QED BY <1>1, <3>1, <3>4
  <2>5. \A d \in Directions : h[d] \in HeaderStates BY <2>4 DEF HeadersOf
  <2>6. h = [d \in Directions |-> h[d]] BY <2>2, <2>3
  <2> QED BY <2>1, <2>4, <2>5, <2>6
<1>13. w.icmp_protocol \in ICMP \cup {None} BY <1>2 DEF StateOf
<1>14. w.intervals = [packet_count |-> w.intervals.packet_count, first |-> w.intervals.first,
                      last |-> w.intervals.last, gaps |-> w.intervals.gaps]
  BY <1>9 DEF Intervals
<1>15. w.identity \in Identities BY <1>2 DEF StateOf
<1>16. StateOf(w, t)
  BY <1>5, <1>6, <1>7, <1>8, <1>9, <1>10, <1>11, <1>12, <1>13, <1>14, <1>15 DEF StateOf
<1>17. w \in CoordinatedStates
  <2>1. w.flow \in FlowVolumes BY <1>4, <1>6 DEF FlowOf
  <2>2. w.directional \in DirectionalVolumes /\ w.sizes \in PacketSizes
    BY <1>7, <1>8 DEF VolumesOf, SizesOf
  <2>3. w.control \in TCPControls \cup {None} BY <1>11 DEF ControlOf
  <2>4. w.identity
          \in {Decoding!Identity(f) : f \in {g \in Frames : Decoding!Outcome(g) = "analyzed"}}
    BY <1>15 DEF Identities
  <2> QED
    BY <1>2, <1>9, <1>10, <1>12, <1>13, <2>1, <2>2, <2>3, <2>4 DEF CoordinatedStates
<1> QED BY <1>1, <1>16, <1>17

LEMMA StateStart ==
    ASSUME NEW identity \in Identities, NEW st, st = Empty(identity)
    PROVE  StateOf(st, <<>>) /\ st.identity = identity
<1>1. /\ st.identity = identity /\ st.flow = NoFlowStatistics
      /\ st.directional = NoDirectionalStatistics /\ st.sizes = NoPacketSizes
      /\ st.intervals = NoIntervals /\ st.directional_intervals = NoDirectionalIntervals
      /\ st.control = IF identity.protocol = TCP THEN NoTCPControl ELSE None
      /\ st.headers = [d \in Directions |-> NoHeaders] /\ st.icmp_protocol = None
  BY DEF Empty
<1>2. /\ FlowOf(st.flow, <<>>) /\ VolumesOf(st.directional, <<>>) /\ SizesOf(st.sizes, <<>>)
      /\ IntervalsOf(st.intervals, <<>>) /\ DirectionalOf(st.directional_intervals, <<>>)
  BY <1>1, FlowStart, VolumesStart, SizesStart, IntervalsStart, DirectionalStart
<1>3. IF st.identity.protocol = TCP THEN ControlOf(st.control, <<>>) ELSE st.control = None
  BY <1>1, ControlStart
<1>4. \A d \in Directions : HeadersOf(st.headers[d], <<>>, d) BY <1>1, HeadersStart
<1>5. st.headers \in [Directions -> HeaderStates]
  <2>1. NoHeaders \in HeaderStates
    <3>1. HeadersOf(NoHeaders, <<>>, "forward") BY HeadersStart
    <3> QED BY <3>1 DEF HeadersOf
  <2> QED BY <1>1, <2>1
<1>6. st.intervals = [packet_count |-> st.intervals.packet_count, first |-> st.intervals.first,
                      last |-> st.intervals.last, gaps |-> st.intervals.gaps]
  BY <1>1 DEF NoIntervals
<1>7. DOMAIN <<>> = {} OBVIOUS
<1> QED BY <1>1, <1>2, <1>3, <1>4, <1>5, <1>6, <1>7 DEF StateOf

(* The invariant.                                                          *)
Held ==
    /\ accepted \in Seq(Taken)
    /\ IF state = None THEN accepted = <<>>
       ELSE /\ accepted # <<>> /\ state \in CoordinatedStates /\ StateOf(state, accepted)
            /\ ValuesValid(state) /\ CoordinatedValid(state)

LEMMA HeldStarts == Init => Held
BY EmptySeq DEF Init, Held

LEMMA VerdictRecords ==
    ASSUME NEW s, NEW p, Verdict(s, p) = "recorded"
    PROVE  /\ ~Refuse(s, p) /\ ~HeadersRefuse(s, p)
           /\ ValuesValid(Updated(s, p)) /\ CoordinatedValid(Updated(s, p))
<1>1. PICK A, B, C : /\ A \in BOOLEAN /\ B \in BOOLEAN /\ C \in BOOLEAN
                     /\ (A <=> Refuse(s, p)) /\ (B <=> HeadersRefuse(s, p))
                     /\ (C <=> (ValuesValid(Updated(s, p)) /\ CoordinatedValid(Updated(s, p))))
  OBVIOUS
<1>2. Verdict(s, p) = CASE A -> "refused" [] ~A /\ B -> "header refused"
                        [] ~A /\ ~B /\ ~C -> "inconsistent" [] OTHER -> "recorded"
  <2>1. (\E new \in {Updated(s, p)} : ~(ValuesValid(new) /\ CoordinatedValid(new))) <=> ~C
    BY <1>1
  <2>2. PICK D \in BOOLEAN :
          D <=> (\E new \in {Updated(s, p)} : ~(ValuesValid(new) /\ CoordinatedValid(new)))
    OBVIOUS
  <2> QED BY <1>1, <2>1, <2>2 DEF Verdict
<1>3. ~A BY <1>2
<1>4. ~B BY <1>2, <1>3
<1>5. C BY <1>2, <1>3, <1>4
<1> QED BY <1>1, <1>3, <1>4, <1>5

LEMMA HeldRecord ==
    ASSUME Held, NEW f \in Frames, Record(f)
    PROVE  Held'
<1>1. PICK p \in {Decoding!Packet(f)} :
        /\ Verdict(Current(p), p) = "recorded"
        /\ state' = Updated(Current(p), p) /\ accepted' = Append(accepted, p)
  BY DEF Record
<1>2. PICK st, w : st = Current(p) /\ w = Updated(st, p) OBVIOUS
<1>3. ~Refuse(st, p) /\ ~HeadersRefuse(st, p) /\ ValuesValid(w) /\ CoordinatedValid(w)
  BY <1>1, <1>2, VerdictRecords
<1>4. f \in Analyzed BY DEF Record, Analyzed
<1>5. p \in Taken
  <2>1. p.observation.original # None BY <1>3 DEF Refuse, PacketSizesRefuse
  <2> QED BY <1>1, <1>4, <2>1 DEF Taken
<1>6. st.identity = p.identity BY <1>3 DEF Refuse
<1>7. p.identity.protocol \in ICMP => Message(p) BY <1>3 DEF HeadersRefuse, ICMPRefuses, Message
<1>8. accepted \in Seq(Taken) /\ StateOf(st, accepted)
  <2>1. CASE state = None
    <3>1. st = Empty(p.identity) /\ accepted = <<>> BY <1>2, <2>1 DEF Current, Held
    <3>2. p.identity \in Identities BY <1>5, TakenTyped
    <3>3. StateOf(st, <<>>) BY <3>1, <3>2, StateStart
    <3> QED BY <3>1, <3>3 DEF Held
  <2>2. CASE state # None BY <1>2, <2>2 DEF Current, Held
  <2> QED BY <2>1, <2>2
<1>9. StateOf(w, Append(accepted, p)) /\ w \in CoordinatedStates
  BY <1>2, <1>5, <1>6, <1>7, <1>8, StateNext
<1>10. w # None BY <1>9, NoneAssumption
<1>11. Append(accepted, p) \in Seq(Taken) /\ Append(accepted, p) # <<>>
  BY <1>5, <1>8, AppendOne
<1> QED BY <1>1, <1>2, <1>3, <1>9, <1>10, <1>11 DEF Held

LEMMA HeldNext == Held /\ [Next]_vars => Held'
<1> SUFFICES ASSUME Held, [Next]_vars PROVE Held' OBVIOUS
<1>1. CASE Next
  <2>1. PICK f \in Frames : Observe(f) BY <1>1 DEF Next
  <2>2. CASE Record(f) BY <2>2, HeldRecord
  <2>3. CASE ~Record(f)
    <3>1. state' = state /\ accepted' = accepted
      BY <2>1, <2>3 DEF Observe, Undecoded, WithoutIdentity, Refused
    <3> QED BY <3>1 DEF Held, ValuesValid, CoordinatedValid
  <2> QED BY <2>2, <2>3
<1>2. CASE UNCHANGED vars
  <2>1. state' = state /\ accepted' = accepted BY <1>2 DEF vars
  <2> QED BY <2>1 DEF Held
<1> QED BY <1>1, <1>2

(* Whatever frames are observed, in whatever order, and wherever the       *)
(* coordinator refuses one, every value it holds of the flow describes the *)
(* packets that it accepted and no other (flow_state_coordinator.py,       *)
(* observe).                                                               *)
THEOREM Holding == Spec => []Held
<1> QED BY HeldStarts, HeldNext, PTL DEF Spec

-----------------------------------------------------------------------------
(* The sums of the library over a value of the packets taken.              *)
LEMMA SumOfCaptured ==
    ASSUME NEW S, IsFiniteSet(S), \A i \in S : accepted[i].observation["captured"] \in Int
    PROVE  MapThenSumSet(LAMBDA i : Length(i, "captured"), S) = SumOf([i \in S |-> accepted[i].observation["captured"]], S)
<1> DEFINE g == [i \in S |-> accepted[i].observation["captured"]]
<1>0. \A i \in S : g[i] \in Int OBVIOUS
<1>1. PICK h \in [SUBSET S -> Int] : Sums(h, g, S)
  <2> HIDE DEF g
  <2> QED BY <1>0, SumsExist
<1>2. \A s \in SUBSET S : s # {} => g[Pick(s)] = accepted[Pick(s)].observation["captured"] BY DEF Pick
<1>3. h = [s \in SUBSET S |-> IF s = {} THEN 0
                              ELSE accepted[Pick(s)].observation["captured"] + h[s \ {Pick(s)}]]
  BY <1>1, <1>2 DEF Sums
<1> DEFINE Is(k) == k = [s \in SUBSET S |-> IF s = {} THEN 0
                                ELSE accepted[Pick(s)].observation["captured"] + k[s \ {Pick(s)}]]
           iter == CHOOSE k : Is(k)
<1>4. MapThenSumSet(LAMBDA i : Length(i, "captured"), S) = iter[S]
  BY DEF MapThenSumSet, MapThenFoldSet, Pick, Length
<1>5. Is(iter)
  <2> HIDE DEF Is
  <2>1. Is(h) BY <1>3 DEF Is
  <2> QED BY <2>1, Zenon
<1>6. Sums(iter, g, S)
  <2> HIDE DEF iter, g
  <2> QED BY <1>2, <1>5 DEF Sums
<1>7. SumOf(g, S) = iter[S]
  <2> HIDE DEF iter, g
  <2> QED BY <1>6, SumOfIs
<1> QED BY <1>4, <1>7

LEMMA SumOfOriginal ==
    ASSUME NEW S, IsFiniteSet(S), \A i \in S : accepted[i].observation["original"] \in Int
    PROVE  MapThenSumSet(LAMBDA i : Length(i, "original"), S) = SumOf([i \in S |-> accepted[i].observation["original"]], S)
<1> DEFINE g == [i \in S |-> accepted[i].observation["original"]]
<1>0. \A i \in S : g[i] \in Int OBVIOUS
<1>1. PICK h \in [SUBSET S -> Int] : Sums(h, g, S)
  <2> HIDE DEF g
  <2> QED BY <1>0, SumsExist
<1>2. \A s \in SUBSET S : s # {} => g[Pick(s)] = accepted[Pick(s)].observation["original"] BY DEF Pick
<1>3. h = [s \in SUBSET S |-> IF s = {} THEN 0
                              ELSE accepted[Pick(s)].observation["original"] + h[s \ {Pick(s)}]]
  BY <1>1, <1>2 DEF Sums
<1> DEFINE Is(k) == k = [s \in SUBSET S |-> IF s = {} THEN 0
                                ELSE accepted[Pick(s)].observation["original"] + k[s \ {Pick(s)}]]
           iter == CHOOSE k : Is(k)
<1>4. MapThenSumSet(LAMBDA i : Length(i, "original"), S) = iter[S]
  BY DEF MapThenSumSet, MapThenFoldSet, Pick, Length
<1>5. Is(iter)
  <2> HIDE DEF Is
  <2>1. Is(h) BY <1>3 DEF Is
  <2> QED BY <2>1, Zenon
<1>6. Sums(iter, g, S)
  <2> HIDE DEF iter, g
  <2> QED BY <1>2, <1>5 DEF Sums
<1>7. SumOf(g, S) = iter[S]
  <2> HIDE DEF iter, g
  <2> QED BY <1>6, SumOfIs
<1> QED BY <1>4, <1>7

(* The places of some packets, and a value of them.                        *)
LEMMA AmongAccepted ==
    ASSUME Held
    PROVE  /\ Packets = Among(accepted, Taken) /\ Packets = DOMAIN accepted
           /\ \A d : Toward(d) = Among(accepted, Going(d))
           /\ \A scope \in Scopes : InScope(scope) = Among(accepted, Scope(scope))
           /\ \A i \in Packets : accepted[i] \in Taken
           /\ \A P : IsFiniteSet(Among(accepted, P)) /\ Among(accepted, P) \subseteq Packets
<1>1. accepted \in Seq(Taken) BY DEF Held
<1>2. \A i \in Packets : accepted[i] \in Taken BY <1>1, AmongTyped DEF Packets
<1>3. Packets = Among(accepted, Taken) BY <1>2 DEF Among, Packets
<1>4. \A d : Toward(d) = Among(accepted, Going(d)) BY <1>2 DEF Toward, Among, Going, Packets
<1>5. \A scope \in Scopes : InScope(scope) = Among(accepted, Scope(scope))
  BY <1>3, <1>4 DEF InScope, Scope
<1>6. \A P : IsFiniteSet(Among(accepted, P)) /\ Among(accepted, P) \subseteq Packets
  <2> SUFFICES ASSUME NEW P
               PROVE  IsFiniteSet(Among(accepted, P)) /\ Among(accepted, P) \subseteq Packets
    OBVIOUS
  <2>1. IsFiniteSet(Among(accepted, P)) BY <1>1, AmongTyped
  <2>2. Among(accepted, P) \subseteq Packets BY DEF Among, Packets
  <2> QED BY <2>1, <2>2
<1> QED BY <1>2, <1>3, <1>4, <1>5, <1>6 DEF Packets

LEMMA VolumeHeld ==
    ASSUME Held, NEW d \in Directions, NEW v, VolumeOf(v, accepted, Going(d)),
           v \in [packet_count : Nat, captured : Int, original : Int]
    PROVE  v = [packet_count |-> Cardinality(Toward(d)),
                captured |-> MapThenSumSet(LAMBDA i : Length(i, "captured"), Toward(d)),
                original |-> MapThenSumSet(LAMBDA i : Length(i, "original"), Toward(d))]
<1>1. PICK S : S = Toward(d) OBVIOUS
<1>2. /\ S = Among(accepted, Going(d)) /\ IsFiniteSet(S)
      /\ \A i \in S : accepted[i] \in Taken
  BY <1>1, AmongAccepted
<1>3. /\ \A i \in S : accepted[i].observation["captured"] \in Int
      /\ \A i \in S : accepted[i].observation["original"] \in Int
  BY <1>2, TakenTyped
<1>4. v.captured = MapThenSumSet(LAMBDA i : Length(i, "captured"), S)
  <2>1. MapThenSumSet(LAMBDA i : Length(i, "captured"), S)
          = SumOf([i \in S |-> accepted[i].observation["captured"]], S)
    BY <1>2, <1>3, SumOfCaptured
  <2>2. \A i \in S : Captured[accepted[i]] = accepted[i].observation["captured"]
    BY <1>2 DEF Captured
  <2>3. [i \in S |-> Captured[accepted[i]]] = [i \in S |-> accepted[i].observation["captured"]]
    BY <2>2
  <2>4. TotalOf(accepted, Captured, Going(d))
          = SumOf([i \in S |-> accepted[i].observation["captured"]], S)
    BY <1>2, <2>3 DEF TotalOf
  <2> QED BY <2>1, <2>4 DEF VolumeOf
<1>5. v.original = MapThenSumSet(LAMBDA i : Length(i, "original"), S)
  <2>1. MapThenSumSet(LAMBDA i : Length(i, "original"), S)
          = SumOf([i \in S |-> accepted[i].observation["original"]], S)
    BY <1>2, <1>3, SumOfOriginal
  <2>2. \A i \in S : Original[accepted[i]] = accepted[i].observation["original"]
    BY <1>2 DEF Original
  <2>3. [i \in S |-> Original[accepted[i]]] = [i \in S |-> accepted[i].observation["original"]]
    BY <2>2
  <2>4. TotalOf(accepted, Original, Going(d))
          = SumOf([i \in S |-> accepted[i].observation["original"]], S)
    BY <1>2, <2>3 DEF TotalOf
  <2> QED BY <2>1, <2>4 DEF VolumeOf
<1>6. v.packet_count = Cardinality(S) BY <1>2 DEF VolumeOf
<1>7. v = [packet_count |-> v.packet_count, captured |-> v.captured, original |-> v.original]
  OBVIOUS
<1> QED BY <1>1, <1>4, <1>5, <1>6, <1>7

LEMMA HeldCounters == Held => CountersOfPackets
<1> SUFFICES ASSUME Held, state # None PROVE CountersOfPackets
  BY DEF CountersOfPackets
<1>1. /\ accepted \in Seq(Taken) /\ accepted # <<>> /\ StateOf(state, accepted)
      /\ state \in CoordinatedStates
  BY DEF Held
<1>2. ASSUME NEW scope \in Directions \cup {"all"}, NEW l \in Lengths
      PROVE  Summarizes(state.sizes[scope][l], {<<i, Length(i, l)>> : i \in InScope(scope)})
  <2>1. PICK a : a = state.sizes[scope][l] OBVIOUS
  <2>2. PICK Q : Q = LengthsAt(accepted, l, Among(accepted, Scope(scope))) OBVIOUS
  <2>3. scope \in Scopes BY DEF Scopes
  <2>4. Summary(a, Q) BY <1>1, <2>1, <2>2, <2>3 DEF StateOf, SizesOf
  <2>5. InScope(scope) = Among(accepted, Scope(scope)) BY <2>3, AmongAccepted
  <2>6. {<<i, Length(i, l)>> : i \in InScope(scope)} = Q
    BY <2>2, <2>5 DEF LengthsAt, Length
  <2>7. Summarizes(a, Q) BY <2>4, SummarySummarizes
  <2> QED BY <2>1, <2>6, <2>7
<1>3. state.flow.first = Time(1) /\ state.flow.last = Time(Len(accepted))
  BY <1>1 DEF StateOf, FlowOf, EndsOf, Time
<1>4. ASSUME NEW S PROVE Gaps(S) = GapsAt(accepted, S)
  BY DEF Gaps, GapsAt, Time
<1>5. Summarizes(state.intervals.gaps, Gaps(Packets))
  <2>1. PICK a, Q : a = state.intervals.gaps /\ Q = GapsAt(accepted, Among(accepted, Taken))
    OBVIOUS
  <2>2. Summary(a, Q) BY <1>1, <2>1 DEF StateOf, IntervalsOf
  <2>3. Gaps(Packets) = Q BY <1>4, <2>1, AmongAccepted
  <2>4. Summarizes(a, Q) BY <2>2, SummarySummarizes
  <2> QED BY <2>1, <2>3, <2>4
<1>6. ASSUME NEW d \in Directions
      PROVE  Summarizes(state.directional_intervals.gaps[d], Gaps(Toward(d)))
  <2>1. PICK a, Q : /\ a = state.directional_intervals.gaps[d]
                    /\ Q = GapsAt(accepted, Among(accepted, Going(d)))
    OBVIOUS
  <2>2. Summary(a, Q) BY <1>1, <2>1 DEF StateOf, DirectionalOf
  <2>3. Gaps(Toward(d)) = Q BY <1>4, <2>1, AmongAccepted
  <2>4. Summarizes(a, Q) BY <2>2, SummarySummarizes
  <2> QED BY <2>1, <2>3, <2>4
<1>7. ASSUME NEW d \in Directions
      PROVE  state.directional[d] =
               [packet_count |-> Cardinality(Toward(d)),
                captured |-> MapThenSumSet(LAMBDA i : Length(i, "captured"), Toward(d)),
                original |-> MapThenSumSet(LAMBDA i : Length(i, "original"), Toward(d))]
  <2>1. PICK v : v = state.directional[d] OBVIOUS
  <2>2. /\ VolumeOf(v, accepted, Going(d))
        /\ v \in [packet_count : Nat, captured : Int, original : Int]
    BY <1>1, <2>1 DEF StateOf, VolumesOf, DirectionalVolumes
  <2>3. v = [packet_count |-> Cardinality(Toward(d)),
             captured |-> MapThenSumSet(LAMBDA i : Length(i, "captured"), Toward(d)),
             original |-> MapThenSumSet(LAMBDA i : Length(i, "original"), Toward(d))]
    BY <2>2, VolumeHeld
  <2> QED BY <2>1, <2>3
<1>8. ASSUME NEW d \in Directions, state.control # None
      PROVE  LET carrying(F) == Cardinality({i \in Toward(d) : F \subseteq accepted[i].transport.flags})
             IN /\ \A f \in TCPFlags : state.control.direction[d].flag[f] = carrying({f})
                /\ state.control.direction[d].syn_ack = carrying({"syn", "ack"})
  <2>1. ASSUME NEW F
        PROVE  {i \in Toward(d) : F \subseteq accepted[i].transport.flags}
                 = Among(accepted, Carrying(d, F))
    BY AmongAccepted DEF Toward, Among, Carrying, Packets
  <2>2. ControlOf(state.control, accepted) BY <1>1, <1>8 DEF StateOf
  <2>3. /\ \A f \in TCPFlags :
             state.control.direction[d].flag[f] = Cardinality(Among(accepted, Carrying(d, {f})))
        /\ state.control.direction[d].syn_ack
             = Cardinality(Among(accepted, Carrying(d, {"syn", "ack"})))
    BY <2>2 DEF ControlOf
  <2> QED BY <2>1, <2>3
<1> QED BY <1>2, <1>3, <1>5, <1>6, <1>7, <1>8 DEF CountersOfPackets

(* The counters of a flow agree with each other and with the packets       *)
(* accepted: what each tracker counted separately is of one and the same   *)
(* sequence of packets (flow_statistics.py,                                *)
(* directional_flow_statistics.py, flow_packet_size_statistics.py,         *)
(* flow_inter_arrival_statistics.py,                                       *)
(* directional_inter_arrival_statistics.py, tcp_control_statistics.py).    *)
THEOREM CountersAreOfPackets == Spec => []CountersOfPackets
<1> QED BY HeldStarts, HeldNext, HeldCounters, PTL DEF Spec

-----------------------------------------------------------------------------
LEMMA SumOfPayloads ==
    ASSUME NEW S, IsFiniteSet(S), \A i \in S : (accepted[i].ip_payload - 8) \in Int
    PROVE  MapThenSumSet(LAMBDA i : accepted[i].ip_payload - 8, S) = SumOf([i \in S |-> (accepted[i].ip_payload - 8)], S)
<1> DEFINE g == [i \in S |-> (accepted[i].ip_payload - 8)]
<1>0. \A i \in S : g[i] \in Int OBVIOUS
<1>1. PICK h \in [SUBSET S -> Int] : Sums(h, g, S)
  <2> HIDE DEF g
  <2> QED BY <1>0, SumsExist
<1>2. \A s \in SUBSET S : s # {} => g[Pick(s)] = (accepted[Pick(s)].ip_payload - 8) BY DEF Pick
<1>3. h = [s \in SUBSET S |-> IF s = {} THEN 0
                              ELSE (accepted[Pick(s)].ip_payload - 8) + h[s \ {Pick(s)}]]
  BY <1>1, <1>2 DEF Sums
<1> DEFINE Is(k) == k = [s \in SUBSET S |-> IF s = {} THEN 0
                                ELSE (accepted[Pick(s)].ip_payload - 8) + k[s \ {Pick(s)}]]
           iter == CHOOSE k : Is(k)
<1>4. MapThenSumSet(LAMBDA i : accepted[i].ip_payload - 8, S) = iter[S]
  BY DEF MapThenSumSet, MapThenFoldSet, Pick, Length
<1>5. Is(iter)
  <2> HIDE DEF Is
  <2>1. Is(h) BY <1>3 DEF Is
  <2> QED BY <2>1, Zenon
<1>6. Sums(iter, g, S)
  <2> HIDE DEF iter, g
  <2> QED BY <1>2, <1>5 DEF Sums
<1>7. SumOf(g, S) = iter[S]
  <2> HIDE DEF iter, g
  <2> QED BY <1>6, SumOfIs
<1> QED BY <1>4, <1>7


LEMMA PlacesMember ==
    ASSUME NEW s, NEW v, NEW q, NEW P, NEW x
    PROVE  x \in PlacesIn(s, v, q, P)
             <=> \E i \in Among(s, P) : \E j \in q[s[i]] : x = << <<i, j>>, v[s[i]][j]>>
<1>1. x \in PlacesIn(s, v, q, P) <=> \E i \in Among(s, P) : x \in PlacesOf(i, v[s[i]], q[s[i]])
  BY DEF PlacesIn
<1> QED BY <1>1 DEF PlacesOf

LEMMA OfVersionIs ==
    ASSUME Held, NEW d
    PROVE  /\ \A version : OfVersion(d, version) = Among(accepted, Versioned(d, version))
           /\ Toward(d) = OfVersion(d, 4) \cup OfVersion(d, 6)
<1>1. Packets = DOMAIN accepted /\ \A i \in Packets : accepted[i] \in Taken BY AmongAccepted
<1>2. \A version : OfVersion(d, version) = Among(accepted, Versioned(d, version))
  BY <1>1 DEF OfVersion, Toward, Among, Versioned
<1>3. \A i \in Packets : accepted[i].ip.version \in {4, 6}
  BY <1>1, TakenTyped DEF NetworkTyped
<1>4. Toward(d) = OfVersion(d, 4) \cup OfVersion(d, 6) BY <1>3 DEF OfVersion, Toward
<1> QED BY <1>2, <1>4

(* The pairs of a field of the header.                                     *)
LEMMA FieldPairs ==
    ASSUME Held, NEW d
    PROVE  /\ \A v : HeaderField(d, v, LAMBDA ip : ip.hop_limit)
                       = PairsOf(accepted, HopLimit, Versioned(d, v))
           /\ \A v : HeaderField(d, v, LAMBDA ip : ip.traffic_class)
                       = PairsOf(accepted, TrafficClass, Versioned(d, v))
           /\ \A v : HeaderField(d, v, LAMBDA ip : ip.flow_label)
                       = PairsOf(accepted, FlowLabel, Versioned(d, v))
           /\ \A v : HeaderField(d, v, LAMBDA ip : ip.dscp)
                       = PairsOf(accepted, ServiceCode, Versioned(d, v))
           /\ \A v : HeaderField(d, v, LAMBDA ip : ip.ecn)
                       = PairsOf(accepted, Congestion, Versioned(d, v))
           /\ \A v : HeaderField(d, v, Terminal) = PairsOf(accepted, LastNext, Versioned(d, v))
<1>1. \A v : OfVersion(d, v) = Among(accepted, Versioned(d, v)) BY OfVersionIs
<1>2. \A v : \A i \in Among(accepted, Versioned(d, v)) : accepted[i] \in Taken
  BY AmongAccepted
<1>3. ASSUME NEW v
      PROVE  HeaderField(d, v, LAMBDA ip : ip.hop_limit)
               = PairsOf(accepted, HopLimit, Versioned(d, v))
  BY <1>1, <1>2 DEF HeaderField, PairsOf, HopLimit
<1>4. ASSUME NEW v
      PROVE  HeaderField(d, v, LAMBDA ip : ip.traffic_class)
               = PairsOf(accepted, TrafficClass, Versioned(d, v))
  BY <1>1, <1>2 DEF HeaderField, PairsOf, TrafficClass
<1>5. ASSUME NEW v
      PROVE  HeaderField(d, v, LAMBDA ip : ip.flow_label)
               = PairsOf(accepted, FlowLabel, Versioned(d, v))
  BY <1>1, <1>2 DEF HeaderField, PairsOf, FlowLabel
<1>6. ASSUME NEW v
      PROVE  HeaderField(d, v, LAMBDA ip : ip.dscp)
               = PairsOf(accepted, ServiceCode, Versioned(d, v))
  BY <1>1, <1>2 DEF HeaderField, PairsOf, ServiceCode
<1>7. ASSUME NEW v
      PROVE  HeaderField(d, v, LAMBDA ip : ip.ecn)
               = PairsOf(accepted, Congestion, Versioned(d, v))
  BY <1>1, <1>2 DEF HeaderField, PairsOf, Congestion
<1>8. ASSUME NEW v
      PROVE  HeaderField(d, v, Terminal) = PairsOf(accepted, LastNext, Versioned(d, v))
  BY <1>1, <1>2 DEF HeaderField, PairsOf, LastNext
<1> QED BY <1>3, <1>4, <1>5, <1>6, <1>7, <1>8

LEMMA HopLimitPairs ==
    ASSUME Held, NEW d
    PROVE  PairsOf(accepted, HopLimit, Versioned(d, 4)) \cup PairsOf(accepted, HopLimit, Versioned(d, 6))
             = PairsOf(accepted, HopLimit, Going(d))
<1>1. Among(accepted, Versioned(d, 4)) \cup Among(accepted, Versioned(d, 6))
        = Among(accepted, Going(d))
  BY OfVersionIs, AmongAccepted
<1> QED BY <1>1 DEF PairsOf

(* The pairs of the extension headers.                                     *)
LEMMA ExtensionPairs ==
    ASSUME Held, NEW d, NEW E, E = Places(d, 6, LAMBDA p : p.ip.headers), NEW Q,
           Q = PlacesIn(accepted, HeaderTypes, HeaderPlaces, Versioned(d, 6)), IsFiniteSet(Q)
    PROVE  /\ {<<item[1], item[2].type>> : item \in E} = Q
           /\ Cardinality({item \in E : item[2].type = 44}) = Cardinality(Fiber(Q, 44))
<1>1. PICK I : I = OfVersion(d, 6) OBVIOUS
<1>2. I = Among(accepted, Versioned(d, 6)) BY <1>1, OfVersionIs
<1>3. \A i \in I : /\ accepted[i] \in Taken /\ accepted[i].ip.version = 6
  BY <1>1, <1>2, AmongAccepted DEF OfVersion
<1>4. \A i \in I : /\ DOMAIN accepted[i].ip.headers = 1 .. Len(accepted[i].ip.headers)
                   /\ HeaderPlaces[accepted[i]] = DOMAIN accepted[i].ip.headers
                   /\ \A j \in DOMAIN accepted[i].ip.headers :
                        HeaderTypes[accepted[i]][j] = accepted[i].ip.headers[j].type
  <2> SUFFICES ASSUME NEW i \in I
               PROVE  /\ DOMAIN accepted[i].ip.headers = 1 .. Len(accepted[i].ip.headers)
                      /\ HeaderPlaces[accepted[i]] = DOMAIN accepted[i].ip.headers
                      /\ \A j \in DOMAIN accepted[i].ip.headers :
                           HeaderTypes[accepted[i]][j] = accepted[i].ip.headers[j].type
    OBVIOUS
  <2>1. PICK p : p = accepted[i] OBVIOUS
  <2>2. p \in Taken /\ p.ip.version = 6 BY <1>3, <2>1
  <2>3. DOMAIN p.ip.headers = 1 .. Len(p.ip.headers) BY <2>2, TakenTyped DEF NetworkTyped
  <2>4. /\ HeaderPlaces[p] = 1 .. Len(p.ip.headers)
        /\ \A j \in 1 .. Len(p.ip.headers) : HeaderTypes[p][j] = p.ip.headers[j].type
    BY <2>2 DEF HeaderPlaces, HeaderTypes
  <2> QED BY <2>1, <2>3, <2>4
<1>5. ASSUME NEW x
      PROVE  x \in E <=> \E i \in I : \E j \in DOMAIN accepted[i].ip.headers :
                            x = << <<i, j>>, accepted[i].ip.headers[j]>>
  BY <1>1 DEF Places
<1>6. ASSUME NEW x
      PROVE  x \in Q <=> \E i \in I : \E j \in DOMAIN accepted[i].ip.headers :
                            x = << <<i, j>>, accepted[i].ip.headers[j].type>>
  <2>1. x \in Q <=> \E i \in Among(accepted, Versioned(d, 6)) : \E j \in HeaderPlaces[accepted[i]] :
                       x = << <<i, j>>, HeaderTypes[accepted[i]][j]>>
    BY PlacesMember
  <2> QED BY <1>2, <1>4, <2>1
<1>7. {<<item[1], item[2].type>> : item \in E} = Q
  <2>1. ASSUME NEW x \in Q PROVE x \in {<<item[1], item[2].type>> : item \in E}
    <3>1. PICK i \in I : \E j \in DOMAIN accepted[i].ip.headers :
                            x = << <<i, j>>, accepted[i].ip.headers[j].type>>
      BY <1>6
    <3>2. PICK j \in DOMAIN accepted[i].ip.headers :
            x = << <<i, j>>, accepted[i].ip.headers[j].type>>
      BY <3>1
    <3>3. PICK h, k : h = accepted[i].ip.headers[j] /\ k = <<i, j>> OBVIOUS
    <3>4. <<k, h>> \in E BY <1>5, <3>3
    <3>5. x = <<k, h.type>> BY <3>2, <3>3
    <3>6. PICK e \in E : e = <<k, h>> BY <3>4
    <3>7. x = <<e[1], e[2].type>> BY <3>5, <3>6
    <3> QED BY <3>7
  <2>2. ASSUME NEW e \in E PROVE <<e[1], e[2].type>> \in Q
    <3>1. PICK i \in I : \E j \in DOMAIN accepted[i].ip.headers :
                            e = << <<i, j>>, accepted[i].ip.headers[j]>>
      BY <1>5
    <3>2. PICK j \in DOMAIN accepted[i].ip.headers :
            e = << <<i, j>>, accepted[i].ip.headers[j]>>
      BY <3>1
    <3>3. <<e[1], e[2].type>> = << <<i, j>>, accepted[i].ip.headers[j].type>> BY <3>2
    <3> QED BY <1>6, <3>3
  <2> QED BY <2>1, <2>2
<1>8. Cardinality({item \in E : item[2].type = 44}) = Cardinality(Fiber(Q, 44))
  <2>1. PICK F : F = Fiber(Q, 44) OBVIOUS
  <2>2. IsFiniteSet(F) BY <2>1, FiberFinite
  <2>3. PICK g : g = [x \in F |-> <<x[1], accepted[x[1][1]].ip.headers[x[1][2]]>>] OBVIOUS
  <2>4. ASSUME NEW x \in F, NEW y \in F, g[x] = g[y] PROVE x = y
    <3>1. x[1] = y[1] BY <2>3, <2>4
    <3>2. x[2] = 44 /\ y[2] = 44 /\ x \in Q /\ y \in Q BY <2>1 DEF Fiber
    <3>3. x = <<x[1], x[2]>> /\ y = <<y[1], y[2]>> BY <1>6, <3>2
    <3> QED BY <3>1, <3>2, <3>3
  <2>5. Cardinality({g[x] : x \in F}) = Cardinality(F) BY <2>2, <2>4, AsMany
  <2>6. {g[x] : x \in F} = {item \in E : item[2].type = 44}
    <3>1. ASSUME NEW x \in F PROVE g[x] \in E /\ g[x][2].type = 44
      <4>1. x \in Q /\ x[2] = 44 BY <2>1 DEF Fiber
      <4>2. PICK i \in I : \E j \in DOMAIN accepted[i].ip.headers :
                              x = << <<i, j>>, accepted[i].ip.headers[j].type>>
        BY <1>6, <4>1
      <4>3. PICK j \in DOMAIN accepted[i].ip.headers :
              x = << <<i, j>>, accepted[i].ip.headers[j].type>>
        BY <4>2
      <4>4. g[x] = << <<i, j>>, accepted[i].ip.headers[j]>> BY <2>3, <4>3
      <4> QED BY <1>5, <4>1, <4>3, <4>4
    <3>2. ASSUME NEW e \in E, e[2].type = 44 PROVE e \in {g[x] : x \in F}
      <4>1. PICK i \in I : \E j \in DOMAIN accepted[i].ip.headers :
                              e = << <<i, j>>, accepted[i].ip.headers[j]>>
        BY <1>5
      <4>2. PICK j \in DOMAIN accepted[i].ip.headers :
              e = << <<i, j>>, accepted[i].ip.headers[j]>>
        BY <4>1
      <4>3. accepted[i].ip.headers[j].type = 44 BY <3>2, <4>2
      <4>4. PICK x : x = << <<i, j>>, 44>> OBVIOUS
      <4>5. x \in Q BY <1>6, <4>3, <4>4
      <4>6. x \in F BY <2>1, <4>4, <4>5 DEF Fiber
      <4>7. g[x] = e BY <2>3, <4>2, <4>4, <4>6
      <4> QED BY <4>6, <4>7
    <3>3. PICK A, B : A = {g[x] : x \in F} /\ B = {item \in E : item[2].type = 44} OBVIOUS
    <3>4. \A x \in F : g[x] \in B BY <3>1, <3>3
    <3>5. A \subseteq B BY <3>3, <3>4
    <3>6. \A e \in B : e \in A BY <3>2, <3>3
    <3> QED BY <3>3, <3>5, <3>6
  <2> QED BY <2>1, <2>5, <2>6
<1> QED BY <1>7, <1>8

-----------------------------------------------------------------------------
(* The pairs of the options.                                               *)
LEMMA CountedIs ==
    ASSUME NEW p \in Taken, p.identity.protocol = TCP, NEW c, c = CountedOptions(p)
    PROVE  /\ DOMAIN c = OptionPlaces[p]
           /\ \A j \in DOMAIN c : OptionKinds[p][j] = c[j].kind /\ OptionValues[p][j] = c[j].value
           /\ \A kind : PlacesOfKind(kind)[p] = {j \in DOMAIN c : c[j].kind = kind}
<1>1. PICK o, n : o = p.transport.options /\ n = Len(o) OBVIOUS
<1>2. n \in Nat /\ DOMAIN o = 1 .. n BY <1>1, SegmentTyped
<1>3. CASE Broken(p)
  <2>1. c = <<>> BY <1>1, <1>2, <1>3 DEF Broken, CountedOptions
  <2>2. DOMAIN c = {} BY <2>1
  <2> QED BY <1>3, <2>2 DEF OptionPlaces, PlacesOfKind
<1>4. CASE ~Broken(p)
  <2>1. c = o BY <1>1, <1>2, <1>4 DEF Broken, CountedOptions
  <2> QED BY <1>1, <1>2, <1>4, <2>1 DEF OptionPlaces, PlacesOfKind, OptionKinds, OptionValues, OfKind
<1> QED BY <1>3, <1>4

LEMMA OptionPairs ==
    ASSUME Held, NEW d, \A i \in Packets : accepted[i].identity.protocol = TCP,
           NEW E, E = Places(d, 4, CountedOptions) \cup Places(d, 6, CountedOptions)
    PROVE  /\ {<<item[1], item[2].kind>> : item \in E}
                = PlacesIn(accepted, OptionKinds, OptionPlaces, Speaking(d, {TCP}))
           /\ \A kind : ValuesOfOption(E, kind)
                          = PlacesIn(accepted, OptionValues, PlacesOfKind(kind), Speaking(d, {TCP}))
<1>0. PICK P : P = Speaking(d, {TCP}) OBVIOUS
<1>1. PICK I : I = Toward(d) OBVIOUS
<1>2. I = OfVersion(d, 4) \cup OfVersion(d, 6) BY <1>1, OfVersionIs
<1>3. \A i \in I : accepted[i] \in Taken /\ accepted[i].identity.protocol = TCP
  BY <1>1, AmongAccepted DEF Toward
<1>4. I = Among(accepted, P)
  <2>1. I = Among(accepted, Going(d)) BY <1>1, AmongAccepted
  <2> QED BY <1>0, <1>3, <2>1 DEF Among, Going, Speaking
<1>5. PICK c : c = [i \in I |-> CountedOptions(accepted[i])] OBVIOUS
<1>6. ASSUME NEW x
      PROVE  x \in E <=> \E i \in I : \E j \in DOMAIN c[i] : x = << <<i, j>>, c[i][j]>>
  <2>1. ASSUME NEW v \in {4, 6}
        PROVE  x \in Places(d, v, CountedOptions)
                 <=> \E i \in OfVersion(d, v) : \E j \in DOMAIN c[i] : x = << <<i, j>>, c[i][j]>>
    <3>1. \A i \in OfVersion(d, v) : c[i] = CountedOptions(accepted[i]) BY <1>2, <1>5
    <3>2. x \in Places(d, v, CountedOptions)
            <=> \E i \in OfVersion(d, v) : \E j \in DOMAIN CountedOptions(accepted[i]) :
                   x = << <<i, j>>, CountedOptions(accepted[i])[j]>>
      BY DEF Places
    <3> QED BY <3>1, <3>2
  <2> QED BY <1>2, <2>1
<1>7. \A i \in I : /\ DOMAIN c[i] = OptionPlaces[accepted[i]]
                   /\ \A j \in DOMAIN c[i] : /\ OptionKinds[accepted[i]][j] = c[i][j].kind
                                             /\ OptionValues[accepted[i]][j] = c[i][j].value
                   /\ \A kind : PlacesOfKind(kind)[accepted[i]]
                                  = {j \in DOMAIN c[i] : c[i][j].kind = kind}
  BY <1>3, <1>5, CountedIs
<1>8. {<<item[1], item[2].kind>> : item \in E} = PlacesIn(accepted, OptionKinds, OptionPlaces, P)
  <2>1. ASSUME NEW x
        PROVE  x \in PlacesIn(accepted, OptionKinds, OptionPlaces, P)
                 <=> \E i \in I : \E j \in DOMAIN c[i] : x = << <<i, j>>, c[i][j].kind>>
    <3>1. PICK v, q, s : v = OptionKinds /\ q = OptionPlaces /\ s = accepted OBVIOUS
    <3>2. x \in PlacesIn(s, v, q, P)
            <=> \E i \in Among(s, P) : \E j \in q[s[i]] : x = << <<i, j>>, v[s[i]][j]>>
      BY PlacesMember
    <3>3. /\ Among(s, P) = I
          /\ \A i \in I : q[s[i]] = DOMAIN c[i] /\ \A j \in DOMAIN c[i] : v[s[i]][j] = c[i][j].kind
      BY <1>4, <1>7, <3>1
    <3>4. x \in PlacesIn(s, v, q, P)
            <=> \E i \in I : \E j \in DOMAIN c[i] : x = << <<i, j>>, c[i][j].kind>>
      <4>1. \A i \in I : \A j : (j \in q[s[i]] <=> j \in DOMAIN c[i])
        BY <3>3
      <4>2. \A i \in I : \A j \in DOMAIN c[i] : v[s[i]][j] = c[i][j].kind BY <3>3
      <4> QED BY <3>2, <3>3, <4>1, <4>2
    <3> QED BY <3>1, <3>4
  <2>2. ASSUME NEW x
        PROVE  x \in {<<item[1], item[2].kind>> : item \in E}
                 <=> \E i \in I : \E j \in DOMAIN c[i] : x = << <<i, j>>, c[i][j].kind>>
    <3>1. ASSUME NEW e \in E, x = <<e[1], e[2].kind>>
          PROVE  \E i \in I : \E j \in DOMAIN c[i] : x = << <<i, j>>, c[i][j].kind>>
      <4>1. PICK i \in I : \E j \in DOMAIN c[i] : e = << <<i, j>>, c[i][j]>> BY <1>6
      <4>2. PICK j \in DOMAIN c[i] : e = << <<i, j>>, c[i][j]>> BY <4>1
      <4>3. x = << <<i, j>>, c[i][j].kind>> BY <3>1, <4>2
      <4> QED BY <4>3
    <3>2. ASSUME NEW i \in I, NEW j \in DOMAIN c[i], x = << <<i, j>>, c[i][j].kind>>
          PROVE  \E e \in E : x = <<e[1], e[2].kind>>
      <4>1. PICK e : e = << <<i, j>>, c[i][j]>> OBVIOUS
      <4>2. e \in E BY <1>6, <4>1
      <4>3. x = <<e[1], e[2].kind>> BY <3>2, <4>1
      <4> QED BY <4>2, <4>3
    <3> QED BY <3>1, <3>2
  <2> QED BY <2>1, <2>2
<1>9. ASSUME NEW kind
      PROVE  ValuesOfOption(E, kind) = PlacesIn(accepted, OptionValues, PlacesOfKind(kind), P)
  <2>1. ASSUME NEW x
        PROVE  x \in PlacesIn(accepted, OptionValues, PlacesOfKind(kind), P)
                 <=> \E i \in I : \E j \in DOMAIN c[i] :
                        c[i][j].kind = kind /\ x = << <<i, j>>, c[i][j].value>>
    <3>1. PICK v, q, s : v = OptionValues /\ q = PlacesOfKind(kind) /\ s = accepted OBVIOUS
    <3>2. x \in PlacesIn(s, v, q, P)
            <=> \E i \in Among(s, P) : \E j \in q[s[i]] : x = << <<i, j>>, v[s[i]][j]>>
      BY PlacesMember
    <3>3. /\ Among(s, P) = I
          /\ \A i \in I : /\ q[s[i]] = {j \in DOMAIN c[i] : c[i][j].kind = kind}
                         /\ \A j \in DOMAIN c[i] : v[s[i]][j] = c[i][j].value
      BY <1>4, <1>7, <3>1
    <3>4. x \in PlacesIn(s, v, q, P)
            <=> \E i \in I : \E j \in DOMAIN c[i] :
                   c[i][j].kind = kind /\ x = << <<i, j>>, c[i][j].value>>
      BY <3>2, <3>3
    <3> QED BY <3>1, <3>4
  <2>2. ASSUME NEW x
        PROVE  x \in ValuesOfOption(E, kind)
                 <=> \E i \in I : \E j \in DOMAIN c[i] :
                        c[i][j].kind = kind /\ x = << <<i, j>>, c[i][j].value>>
    <3>0. x \in ValuesOfOption(E, kind)
            <=> \E e \in E : e[2].kind = kind /\ x = <<e[1], e[2].value>>
      BY DEF ValuesOfOption
    <3>1. ASSUME NEW e \in E, e[2].kind = kind, x = <<e[1], e[2].value>>
          PROVE  \E i \in I : \E j \in DOMAIN c[i] :
                    c[i][j].kind = kind /\ x = << <<i, j>>, c[i][j].value>>
      <4>1. PICK i \in I : \E j \in DOMAIN c[i] : e = << <<i, j>>, c[i][j]>> BY <1>6
      <4>2. PICK j \in DOMAIN c[i] : e = << <<i, j>>, c[i][j]>> BY <4>1
      <4>3. x = << <<i, j>>, c[i][j].value>> /\ c[i][j].kind = kind BY <3>1, <4>2
      <4> QED BY <4>3
    <3>2. ASSUME NEW i \in I, NEW j \in DOMAIN c[i], c[i][j].kind = kind,
                 x = << <<i, j>>, c[i][j].value>>
          PROVE  \E e \in E : e[2].kind = kind /\ x = <<e[1], e[2].value>>
      <4>1. PICK e : e = << <<i, j>>, c[i][j]>> OBVIOUS
      <4>2. e \in E BY <1>6, <4>1
      <4>3. x = <<e[1], e[2].value>> /\ e[2].kind = kind BY <3>2, <4>1
      <4> QED BY <4>2, <4>3
    <3> QED BY <3>0, <3>1, <3>2
  <2> QED BY <2>1, <2>2
<1> QED BY <1>0, <1>8, <1>9

(* The pairs of the messages, and the sum of the datagrams.                *)
LEMMA MessagePairs ==
    ASSUME Held, NEW d,
           \A i \in Packets : accepted[i].identity.protocol \in ICMP /\ Message(accepted[i])
    PROVE  {<<i, accepted[i].transport.type>> : i \in Toward(d)}
             = TypesOf(PairsOf(accepted, MessageCode, Speaking(d, ICMP)))
<1>1. PICK I : I = Toward(d) OBVIOUS
<1>2. \A i \in I : /\ accepted[i] \in Taken /\ accepted[i].identity.protocol \in ICMP
                   /\ Message(accepted[i])
  BY <1>1, AmongAccepted DEF Toward
<1>3. I = Among(accepted, Speaking(d, ICMP))
  <2>1. I = Among(accepted, Going(d)) BY <1>1, AmongAccepted
  <2> QED BY <1>2, <2>1 DEF Among, Going, Speaking
<1>4. ASSUME NEW i \in I PROVE MessageCode[accepted[i]] \div 256 = accepted[i].transport.type
  <2>1. PICK a, b : a = accepted[i].transport.type /\ b = accepted[i].transport.code OBVIOUS
  <2>2. a \in 0 .. 255 /\ b \in 0 .. 255 BY <1>2, <2>1 DEF Message
  <2>3. (256 * a + b) \div 256 = a BY <2>2
  <2>4. MessageCode[accepted[i]] = 256 * a + b BY <1>2, <2>1 DEF MessageCode, TypeAndCode
  <2> QED BY <2>1, <2>3, <2>4
<1>5. PICK Q : Q = PairsOf(accepted, MessageCode, Speaking(d, ICMP)) OBVIOUS
<1>6. Q = {<<i, MessageCode[accepted[i]]>> : i \in I} BY <1>3, <1>5 DEF PairsOf
<1>7. TypesOf(Q) = {<<i, MessageCode[accepted[i]] \div 256>> : i \in I}
  <2>1. PICK f : f = [i \in I |-> MessageCode[accepted[i]]] OBVIOUS
  <2>2. Q = {<<i, f[i]>> : i \in I} BY <1>6, <2>1
  <2>3. TypesOf(Q) = {<<i, f[i] \div 256>> : i \in I}
    <3>1. ASSUME NEW p \in Q PROVE \E i \in I : <<p[1], p[2] \div 256>> = <<i, f[i] \div 256>>
      <4>1. PICK i \in I : p = <<i, f[i]>> BY <2>2
      <4>2. p[1] = i /\ p[2] = f[i] BY <4>1
      <4>3. <<p[1], p[2] \div 256>> = <<i, f[i] \div 256>> BY <4>2
      <4> QED BY <4>3
    <3>2. ASSUME NEW i \in I PROVE \E p \in Q : <<i, f[i] \div 256>> = <<p[1], p[2] \div 256>>
      <4>1. PICK p : p = <<i, f[i]>> OBVIOUS
      <4>2. p \in Q BY <2>2, <4>1
      <4>3. p[1] = i /\ p[2] = f[i] BY <4>1
      <4>4. <<i, f[i] \div 256>> = <<p[1], p[2] \div 256>> BY <4>3
      <4> QED BY <4>2, <4>4
    <3>3. ASSUME NEW y
          PROVE  y \in TypesOf(Q) <=> \E p \in Q : y = <<p[1], p[2] \div 256>>
      BY DEF TypesOf
    <3>4. ASSUME NEW y
          PROVE  y \in TypesOf(Q) <=> \E i \in I : y = <<i, f[i] \div 256>>
      BY <3>1, <3>2, <3>3
    <3> QED BY <3>4
  <2> QED BY <2>1, <2>3
<1> QED BY <1>1, <1>4, <1>5, <1>7

LEMMA PayloadTotal ==
    ASSUME Held, NEW d, \A i \in Packets : accepted[i].identity.protocol = UDP
    PROVE  /\ Toward(d) = Among(accepted, Speaking(d, {UDP}))
           /\ MapThenSumSet(LAMBDA i : accepted[i].ip_payload - 8, Toward(d))
                = TotalOf(accepted, Payload, Speaking(d, {UDP}))
<1>1. PICK S : S = Toward(d) OBVIOUS
<1>2. \A i \in S : accepted[i] \in Taken /\ accepted[i].identity.protocol = UDP
  BY <1>1, AmongAccepted DEF Toward
<1>3. S = Among(accepted, Going(d)) /\ IsFiniteSet(S) BY <1>1, AmongAccepted
<1>4. S = Among(accepted, Speaking(d, {UDP})) BY <1>2, <1>3 DEF Among, Going, Speaking
<1>5. \A i \in S : (accepted[i].ip_payload - 8) \in Int
  <2> SUFFICES ASSUME NEW i \in S PROVE (accepted[i].ip_payload - 8) \in Int OBVIOUS
  <2>1. PICK a : a = accepted[i].ip_payload OBVIOUS
  <2>2. a \in Int BY <1>2, <2>1, TakenTyped DEF NetworkTyped
  <2>3. a - 8 \in Int BY <2>2
  <2> QED BY <2>1, <2>3
<1>6. MapThenSumSet(LAMBDA i : accepted[i].ip_payload - 8, S)
        = SumOf([i \in S |-> (accepted[i].ip_payload - 8)], S)
  BY <1>3, <1>5, SumOfPayloads
<1>7. [i \in S |-> Payload[accepted[i]]] = [i \in S |-> (accepted[i].ip_payload - 8)]
  <2>1. \A i \in S : Payload[accepted[i]] = accepted[i].ip_payload - 8 BY <1>2 DEF Payload
  <2> QED BY <2>1
<1> QED BY <1>1, <1>4, <1>6, <1>7 DEF TotalOf

-----------------------------------------------------------------------------
LEMMA HeldLabels == Held => LabelsUntilSaturation
<1> SUFFICES ASSUME Held, state # None, NEW d \in Directions
             PROVE  LET labels == HeaderField(d, 6, LAMBDA ip : ip.flow_label)
                        s == state.headers[d].flow_label
                    IN IF Cardinality({pair[2] : pair \in labels}) <= MaxLabelBins
                       THEN Tallies(s.bins, labels) /\ s.saturated = 0
                       ELSE s.bins = NoBins /\ s.saturated = Cardinality(labels)
  BY DEF LabelsUntilSaturation
<1>1. PICK Q, s : Q = PairsOf(accepted, FlowLabel, Versioned(d, 6)) /\ s = state.headers[d].flow_label
  OBVIOUS
<1>2. HeaderField(d, 6, LAMBDA ip : ip.flow_label) = Q BY <1>1, FieldPairs
<1>3. Labels(s, Q)
  <2>1. HeadersOf(state.headers[d], accepted, d) BY DEF Held, StateOf
  <2> QED BY <1>1, <2>1 DEF HeadersOf
<1>4. IF Cardinality({pair[2] : pair \in Q}) <= MaxLabelBins
      THEN Holds(s.bins, Q) /\ s.saturated = 0
      ELSE s.bins = NoBins /\ s.saturated = Cardinality(Q)
  BY <1>3 DEF Labels, ValuesIn
<1>5. Holds(s.bins, Q) => Tallies(s.bins, Q)
  <2>1. PICK b : b = s.bins OBVIOUS
  <2>2. Holds(b, Q) => Tallies(b, Q) BY HoldsTallies
  <2> QED BY <2>1, <2>2
<1> QED BY <1>1, <1>2, <1>4, <1>5


LEMMA HeldHistograms == Held => HistogramsOfPackets
<1>0. Held => LabelsUntilSaturation BY HeldLabels
<1> SUFFICES ASSUME Held, state # None, NEW d \in Directions
             PROVE
    LET h == state.headers[d]
        Extension == Places(d, 6, LAMBDA p : p.ip.headers)
    IN /\ Tallies(h.hop_limit, HeaderField(d, 4, LAMBDA ip : ip.hop_limit)
                                 \cup HeaderField(d, 6, LAMBDA ip : ip.hop_limit))
       /\ Tallies(h.traffic_class, HeaderField(d, 6, LAMBDA ip : ip.traffic_class))
       /\ Tallies(h.ipv4.dscp, HeaderField(d, 4, LAMBDA ip : ip.dscp))
       /\ Tallies(h.ipv4.ecn, HeaderField(d, 4, LAMBDA ip : ip.ecn))
       /\ Tallies(h.extension.terminals, HeaderField(d, 6, Terminal))
       /\ Tallies(h.extension.types, {<<item[1], item[2].type>> : item \in Extension})
       /\ h.fragment.first + h.fragment.atomic
            = Cardinality({item \in Extension : item[2].type = 44})
       /\ state.identity.protocol \in ICMP =>
            Tallies(TypeCounts(h.icmp), {<<i, accepted[i].transport.type>> : i \in Toward(d)})
       /\ state.identity.protocol = UDP =>
            /\ h.udp.count = Cardinality(Toward(d))
            /\ h.udp.total + h.udp.surplus
                 = MapThenSumSet(LAMBDA i : accepted[i].ip_payload - 8, Toward(d))
       /\ state.identity.protocol = TCP =>
            LET options == Places(d, 4, CountedOptions) \cup Places(d, 6, CountedOptions)
            IN /\ Tallies(h.options.kinds, {<<item[1], item[2].kind>> : item \in options})
               /\ Tallies(h.options.mss, ValuesOfOption(options, 2))
               /\ Tallies(h.options.scales, ValuesOfOption(options, 3))
  BY <1>0 DEF HistogramsOfPackets
<1>1. PICK h : h = state.headers[d] OBVIOUS
<1>2. HeadersOf(h, accepted, d) BY <1>1 DEF Held, StateOf
<1>3. /\ \A i \in Packets : accepted[i].identity = state.identity
      /\ \A i \in Packets : accepted[i].identity.protocol \in ICMP => Message(accepted[i])
      /\ accepted \in Seq(Taken)
  BY DEF Held, StateOf, Packets
<1>4. Tallies(h.hop_limit, HeaderField(d, 4, LAMBDA ip : ip.hop_limit)
                             \cup HeaderField(d, 6, LAMBDA ip : ip.hop_limit))
  <2>1. HeaderField(d, 4, LAMBDA ip : ip.hop_limit) \cup HeaderField(d, 6, LAMBDA ip : ip.hop_limit)
          = PairsOf(accepted, HopLimit, Going(d))
    <3>1. HeaderField(d, 4, LAMBDA ip : ip.hop_limit) = PairsOf(accepted, HopLimit, Versioned(d, 4))
      BY FieldPairs
    <3>2. HeaderField(d, 6, LAMBDA ip : ip.hop_limit) = PairsOf(accepted, HopLimit, Versioned(d, 6))
      BY FieldPairs
    <3> QED BY <3>1, <3>2, HopLimitPairs
  <2>2. Holds(h.hop_limit, PairsOf(accepted, HopLimit, Going(d))) BY <1>2 DEF HeadersOf
  <2>3. PICK b, P : b = h.hop_limit /\ P = PairsOf(accepted, HopLimit, Going(d)) OBVIOUS
  <2>4. Tallies(b, P) BY <2>2, <2>3, HoldsTallies
  <2> QED BY <2>1, <2>3, <2>4
<1>5. Tallies(h.traffic_class, HeaderField(d, 6, LAMBDA ip : ip.traffic_class))
  <2>1. HeaderField(d, 6, LAMBDA ip : ip.traffic_class)
          = PairsOf(accepted, TrafficClass, Versioned(d, 6))
    BY FieldPairs
  <2>2. Holds(h.traffic_class, PairsOf(accepted, TrafficClass, Versioned(d, 6)))
    BY <1>2 DEF HeadersOf
  <2>3. PICK b, P : b = h.traffic_class /\ P = PairsOf(accepted, TrafficClass, Versioned(d, 6))
    OBVIOUS
  <2>4. Tallies(b, P) BY <2>2, <2>3, HoldsTallies
  <2> QED BY <2>1, <2>3, <2>4
<1>6. Tallies(h.ipv4.dscp, HeaderField(d, 4, LAMBDA ip : ip.dscp))
  <2>1. HeaderField(d, 4, LAMBDA ip : ip.dscp) = PairsOf(accepted, ServiceCode, Versioned(d, 4))
    BY FieldPairs
  <2>2. Holds(h.ipv4.dscp, PairsOf(accepted, ServiceCode, Versioned(d, 4)))
    BY <1>2 DEF HeadersOf, IPv4Of
  <2>3. PICK b, P : b = h.ipv4.dscp /\ P = PairsOf(accepted, ServiceCode, Versioned(d, 4)) OBVIOUS
  <2>4. Tallies(b, P) BY <2>2, <2>3, HoldsTallies
  <2> QED BY <2>1, <2>3, <2>4
<1>7. Tallies(h.ipv4.ecn, HeaderField(d, 4, LAMBDA ip : ip.ecn))
  <2>1. HeaderField(d, 4, LAMBDA ip : ip.ecn) = PairsOf(accepted, Congestion, Versioned(d, 4))
    BY FieldPairs
  <2>2. Holds(h.ipv4.ecn, PairsOf(accepted, Congestion, Versioned(d, 4)))
    BY <1>2 DEF HeadersOf, IPv4Of
  <2>3. PICK b, P : b = h.ipv4.ecn /\ P = PairsOf(accepted, Congestion, Versioned(d, 4)) OBVIOUS
  <2>4. Tallies(b, P) BY <2>2, <2>3, HoldsTallies
  <2> QED BY <2>1, <2>3, <2>4
<1>8. Tallies(h.extension.terminals, HeaderField(d, 6, Terminal))
  <2>1. HeaderField(d, 6, Terminal) = PairsOf(accepted, LastNext, Versioned(d, 6)) BY FieldPairs
  <2>2. Holds(h.extension.terminals, PairsOf(accepted, LastNext, Versioned(d, 6)))
    BY <1>2 DEF HeadersOf, ExtensionOf
  <2>3. PICK b, P : b = h.extension.terminals /\ P = PairsOf(accepted, LastNext, Versioned(d, 6))
    OBVIOUS
  <2>4. Tallies(b, P) BY <2>2, <2>3, HoldsTallies
  <2> QED BY <2>1, <2>3, <2>4
<1>9. PICK E : E = Places(d, 6, LAMBDA p : p.ip.headers) OBVIOUS
<1>10. /\ Tallies(h.extension.types, {<<item[1], item[2].type>> : item \in E})
       /\ h.fragment.first + h.fragment.atomic = Cardinality({item \in E : item[2].type = 44})
  <2>1. PICK Q : Q = PlacesIn(accepted, HeaderTypes, HeaderPlaces, Versioned(d, 6)) OBVIOUS
  <2>2. PICK b : b = h.extension.types OBVIOUS
  <2>3. Holds(b, Q) BY <1>2, <2>1, <2>2 DEF HeadersOf, ExtensionOf
  <2>4. IsFiniteSet(Q) BY <2>3 DEF Holds
  <2>5. /\ {<<item[1], item[2].type>> : item \in E} = Q
        /\ Cardinality({item \in E : item[2].type = 44}) = Cardinality(Fiber(Q, 44))
    BY <1>9, <2>1, <2>4, ExtensionPairs
  <2>6. h.fragment.first + h.fragment.atomic = Cardinality(Fiber(Q, 44))
    BY <1>2, <2>1 DEF HeadersOf, FragmentOf
  <2>7. Tallies(b, Q) BY <2>3, HoldsTallies
  <2> QED BY <2>2, <2>5, <2>6, <2>7
<1>11. ASSUME state.identity.protocol \in ICMP
       PROVE  Tallies(TypeCounts(h.icmp), {<<i, accepted[i].transport.type>> : i \in Toward(d)})
  <2>1. PICK Q, b : Q = PairsOf(accepted, MessageCode, Speaking(d, ICMP)) /\ b = h.icmp OBVIOUS
  <2>2. Holds(b, Q) BY <1>2, <2>1 DEF HeadersOf
  <2>3. Functional(Q) BY <1>3, <2>1, PairsTyped
  <2>4. Holds(TypeCounts(b), TypesOf(Q)) BY <2>2, <2>3, TypeCountsHold
  <2>5. PICK c, R : c = TypeCounts(b) /\ R = TypesOf(Q) OBVIOUS
  <2>6. Tallies(c, R) BY <2>4, <2>5, HoldsTallies
  <2>7. \A i \in Packets : accepted[i].identity.protocol \in ICMP /\ Message(accepted[i])
    BY <1>3, <1>11
  <2>8. {<<i, accepted[i].transport.type>> : i \in Toward(d)} = R
    BY <2>1, <2>5, <2>7, MessagePairs
  <2> QED BY <2>1, <2>5, <2>6, <2>8
<1>12. ASSUME state.identity.protocol = UDP
       PROVE  /\ h.udp.count = Cardinality(Toward(d))
              /\ h.udp.total + h.udp.surplus
                   = MapThenSumSet(LAMBDA i : accepted[i].ip_payload - 8, Toward(d))
  <2>1. \A i \in Packets : accepted[i].identity.protocol = UDP BY <1>3, <1>12
  <2>2. /\ Toward(d) = Among(accepted, Speaking(d, {UDP}))
        /\ MapThenSumSet(LAMBDA i : accepted[i].ip_payload - 8, Toward(d))
             = TotalOf(accepted, Payload, Speaking(d, {UDP}))
    BY <2>1, PayloadTotal
  <2>3. DatagramsOf(h.udp, accepted, Speaking(d, {UDP})) BY <1>2 DEF HeadersOf
  <2> QED BY <2>2, <2>3 DEF DatagramsOf
<1>13. PICK O : O = Places(d, 4, CountedOptions) \cup Places(d, 6, CountedOptions) OBVIOUS
<1>14. ASSUME state.identity.protocol = TCP
       PROVE  /\ Tallies(h.options.kinds, {<<item[1], item[2].kind>> : item \in O})
              /\ Tallies(h.options.mss, ValuesOfOption(O, 2))
              /\ Tallies(h.options.scales, ValuesOfOption(O, 3))
  <2>1. \A i \in Packets : accepted[i].identity.protocol = TCP BY <1>3, <1>14
  <2>2. /\ {<<item[1], item[2].kind>> : item \in O}
             = PlacesIn(accepted, OptionKinds, OptionPlaces, Speaking(d, {TCP}))
        /\ \A kind : ValuesOfOption(O, kind)
                       = PlacesIn(accepted, OptionValues, PlacesOfKind(kind), Speaking(d, {TCP}))
    BY <1>13, <2>1, OptionPairs
  <2>3. PICK a, b, c : a = h.options.kinds /\ b = h.options.mss /\ c = h.options.scales OBVIOUS
  <2>4. PICK A, B, C : /\ A = {<<item[1], item[2].kind>> : item \in O}
                       /\ B = ValuesOfOption(O, 2) /\ C = ValuesOfOption(O, 3)
    OBVIOUS
  <2>5. OptionsOf(h.options, accepted, Speaking(d, {TCP})) BY <1>2 DEF HeadersOf
  <2>6. Holds(a, A) /\ Holds(b, B) /\ Holds(c, C) BY <2>2, <2>3, <2>4, <2>5 DEF OptionsOf
  <2>7. Tallies(a, A) /\ Tallies(b, B) /\ Tallies(c, C) BY <2>6, HoldsTallies
  <2> QED BY <2>3, <2>4, <2>7
<1> QED
  BY <1>1, <1>4, <1>5, <1>6, <1>7, <1>8, <1>9, <1>10, <1>11, <1>12, <1>13, <1>14

(* Every histogram of header values is one of the packets of its           *)
(* direction: no packet is counted twice or in another's bin, and the bins *)
(* of the flow labels are given up only for a count of all the packets     *)
(* (ip_hop_limit_statistics.py, ipv4_header_statistics.py,                 *)
(* ipv6_extension_header_statistics.py, ipv6_flow_label_statistics.py,     *)
(* icmp_statistics.py, udp_statistics.py, tcp_option_statistics.py).       *)
THEOREM HistogramsAreOfPackets == Spec => []HistogramsOfPackets
<1> QED BY HeldStarts, HeldNext, HeldHistograms, PTL DEF Spec

-----------------------------------------------------------------------------
(* The fragments of the capture.  A later fragment is decoded a second time, *)
(* and that this finds exactly the sound ones needs that no option of IPv4   *)
(* that fails is taken for an unsupported packet.                            *)

(* The first of three checks that fails names its message.                   *)
LEMMA FirstOfThree ==
    ASSUME NEW a, NEW b, NEW c, NEW x, NEW y, NEW z
    PROVE  Decoding!First(<< <<a, x>>, <<b, y>>, <<c, z>> >>) \in {a, b, c, None}
<1>1. PICK u, v, w : u = <<a, x>> /\ v = <<b, y>> /\ w = <<c, z>> OBVIOUS
<1>2. u[1] = a /\ v[1] = b /\ w[1] = c BY <1>1
<1>3. PICK checks : checks = <<u, v, w>> OBVIOUS
<1>4. DOMAIN checks = 1 .. 3 /\ checks[1] = u /\ checks[2] = v /\ checks[3] = w BY <1>3
<1>5. PICK failing : failing = {i \in DOMAIN checks : checks[i][2]} OBVIOUS
<1>6. failing \in SUBSET (1 .. 3) BY <1>4, <1>5
<1>7. failing = {} => Decoding!First(checks) = None BY <1>5 DEF Decoding!First
<1>8. ASSUME failing # {} PROVE Decoding!First(checks) \in {a, b, c, None}
  <2>1. PICK i : i = CHOOSE k \in failing : \A j \in failing : k <= j OBVIOUS
  <2>2. \E k \in failing : \A j \in failing : k <= j
    <3>1. CASE 1 \in failing BY <1>6, <3>1
    <3>2. CASE 1 \notin failing /\ 2 \in failing BY <1>6, <3>2
    <3>3. CASE 1 \notin failing /\ 2 \notin failing
      <4>1. \A j \in failing : j = 3 BY <1>6, <3>3
      <4> QED BY <1>8, <4>1
    <3> QED BY <3>1, <3>2, <3>3
  <2>3. i \in 1 .. 3 BY <1>6, <2>1, <2>2
  <2>4. Decoding!First(checks) = checks[i][1] BY <1>5, <1>8, <2>1 DEF Decoding!First
  <2>5. i = 1 \/ i = 2 \/ i = 3 BY <2>3
  <2>6. checks[i][1] \in {a, b, c} BY <1>2, <1>4, <2>5
  <2> QED BY <2>4, <2>6
<1>9. Decoding!First(checks) \in {a, b, c, None} BY <1>7, <1>8
<1> QED BY <1>1, <1>3, <1>9, Zenon

(* An IPv4 option that is malformed is a structural failure.                 *)
LEMMA EnvelopesAreStructural ==
    ASSUME NEW options, NEW area, NEW padding
    PROVE  Decoding!EnvelopeFailure(options, area, padding, "IPv4")
             \in Decoding!StructuralMessages \cup {None}
<1> DEFINE S == Decoding!StructuralMessages
           Check(i) ==
             LET o == options[i]
                 left == area - Decoding!OptionOffset(options, i)
             IN IF o.kind \in {0, 1}
                THEN IF o.kind = 0 /\ ~padding THEN "IPv4" \o " option padding" ELSE None
                ELSE Decoding!First(<< <<"IPv4" \o " option length field", left < 2>>,
                                       <<"IPv4" \o " option length", o.length < 2>>,
                                       <<"IPv4" \o " option area", o.length > left>> >>)
           failing == {i \in Decoding!OptionsIn(options, area) : Check(i) # None}
<1>1. \A field \in {" option padding", " option length field", " option length", " option area"} :
         "IPv4" \o field \in S
  BY Zenon DEF Decoding!StructuralMessages, Decoding!OptionMessages
<1>2. ASSUME NEW i PROVE Check(i) \in S \cup {None}
  <2>1. PICK a, b, c, d : /\ a = "IPv4" \o " option length field" /\ b = "IPv4" \o " option length"
                          /\ c = "IPv4" \o " option area" /\ d = "IPv4" \o " option padding"
    BY Zenon
  <2>2. a \in S /\ b \in S /\ c \in S /\ d \in S BY <1>1, <2>1, Zenon
  <2>3. PICK x, y, z : /\ x = (area - Decoding!OptionOffset(options, i) < 2)
                       /\ y = (options[i].length < 2)
                       /\ z = (options[i].length > area - Decoding!OptionOffset(options, i))
    OBVIOUS
  <2>4. Check(i) = IF options[i].kind \in {0, 1}
                   THEN IF options[i].kind = 0 /\ ~padding THEN d ELSE None
                   ELSE Decoding!First(<< <<a, x>>, <<b, y>>, <<c, z>> >>)
    BY <2>1, <2>3, Zenon
  <2>5. Decoding!First(<< <<a, x>>, <<b, y>>, <<c, z>> >>) \in {a, b, c, None} BY FirstOfThree
  <2> HIDE DEF S, Check
  <2> QED BY <2>2, <2>4, <2>5, Zenon
<1>3. Decoding!EnvelopeFailure(options, area, padding, "IPv4")
        = IF failing = {} THEN None ELSE Check(CHOOSE i \in failing : \A j \in failing : i <= j)
  BY Zenon DEF Decoding!EnvelopeFailure
<1> HIDE DEF S, Check, failing
<1>4. Check(CHOOSE i \in failing : \A j \in failing : i <= j) \in S \cup {None} BY <1>2
<1>5. Decoding!EnvelopeFailure(options, area, padding, "IPv4") \in S \cup {None} BY <1>3, <1>4
<1> QED BY <1>5 DEF S

LEMMA OptionsAreStructural ==
    ASSUME NEW f
    PROVE  Decoding!IPv4OptionFailure(f) \in Decoding!StructuralMessages \cup {None}
BY EnvelopesAreStructural DEF Decoding!IPv4OptionFailure

(* A frame counts as IPv4 exactly if its header is sound and it is a later   *)
(* fragment, or analyzed.                                                    *)
LEMMA CountsAreToCount == \A f \in Frames : Decoding!CountsAsIPv4(f) <=> f \in ToCount
<1> SUFFICES ASSUME NEW f \in Frames PROVE Decoding!CountsAsIPv4(f) <=> f \in ToCount OBVIOUS
<1> DEFINE options == Decoding!IPv4OptionFailure(f)
<1>1. options \in Decoding!StructuralMessages \cup {None} BY OptionsAreStructural
<1>2. options \notin Decoding!UnsupportedMessages
  BY <1>1, MessagesAssumption, NoneAssumption
<1>3. "initial IPv4 fragment" \in Decoding!UnsupportedMessages
      /\ "initial IPv4 fragment" # None
  <2>1. "initial IPv4 fragment" \in Decoding!UnsupportedMessages
    BY DEF Decoding!UnsupportedMessages
  <2> QED BY <2>1, NoneAssumption, Zenon
<1>4. \A m : Decoding!Classification(m) # "analyzed"
              /\ (Decoding!Classification(m) = "unsupported" <=> m \in Decoding!UnsupportedMessages)
  <2> TAKE m
  <2>1. CASE m \in Decoding!UnsupportedMessages
    <3>1. m \notin Decoding!IncompleteMessages /\ m \notin Decoding!StructuralMessages
      BY <2>1, MessagesAssumption
    <3>2. Decoding!Classification(m) = "unsupported" BY <2>1, <3>1 DEF Decoding!Classification
    <3> QED BY <2>1, <3>2
  <2>2. CASE m \notin Decoding!UnsupportedMessages
    <3>1. Decoding!Classification(m)
            \in {"incomplete", "structural_failure", "unclassified"}
      BY <2>2 DEF Decoding!Classification
    <3> QED BY <2>2, <3>1
  <2> QED BY <2>1, <2>2
<1>5. /\ Decoding!Outcome(f) = "analyzed" <=>
             Decoding!DecodeFailure(f) = None /\ ~Decoding!IntegrityFailure(f)
      /\ Decoding!Outcome(f) = "unsupported" <=>
             /\ Decoding!DecodeFailure(f) # None
             /\ Decoding!DecodeFailure(f) \in Decoding!UnsupportedMessages
  BY <1>4 DEF Decoding!Outcome
<1>6. ASSUME Decoding!First(Decoding!LinkChecks(f)) = None, Decoding!EtherType(f) = "IPv4"
      PROVE  Decoding!DecodeFailure(f) = Decoding!IPv4Failure(f)
  BY <1>6 DEF Decoding!DecodeFailure
<1>7. ASSUME Decoding!CountsAsIPv4(f) PROVE f \in ToCount
  <2>1. f.ip.fragment_offset # 0 /\ Decoding!EtherType(f) = "IPv4" => LaterFragment(f)
    <3>1. ASSUME Decoding!EtherType(f) = "IPv4", f.ip.fragment_offset # 0
          PROVE  f.ip.fragment_offset > 0
      <4>1. Decoding!Network(f).fragment_offset \in Nat BY <1>7, OffsetAssumption
      <4>2. Decoding!Network(f).fragment_offset = f.ip.fragment_offset
        BY <3>1 DEF Decoding!Network
      <4> QED BY <3>1, <4>1, <4>2
    <3> QED BY <3>1 DEF LaterFragment
  <2>2. CASE Decoding!Outcome(f) = "analyzed" /\ Decoding!EtherType(f) = "IPv4"
    <3>1. Decoding!DecodeFailure(f) = None /\ ~Decoding!IntegrityFailure(f) BY <1>5, <2>2
    <3>2. Decoding!First(Decoding!LinkChecks(f)) = None
      BY <3>1, Zenon DEF Decoding!DecodeFailure
    <3>3. Decoding!IPv4Failure(f) = None BY <1>6, <2>2, <3>1, <3>2
    <3>4. Decoding!First(Decoding!IPv4Checks(f)) = None /\ options = None
      BY <3>3 DEF Decoding!IPv4Failure
    <3>5. f.ip.checksum_valid BY <2>2, <3>1 DEF Decoding!IntegrityFailure
    <3> QED BY <2>2, <3>2, <3>4, <3>5 DEF SoundIPv4, ToCount
  <2>3. CASE Decoding!NonInitialFragment(f)
    <3>1. /\ Decoding!Outcome(f) = "unsupported"
          /\ Decoding!First(Decoding!LinkChecks(f)) = None /\ Decoding!EtherType(f) = "IPv4"
          /\ Decoding!First(Decoding!IPv4Checks(f)) = None
          /\ f.ip.fragment_offset # 0 /\ f.ip.checksum_valid
      BY <2>3 DEF Decoding!NonInitialFragment
    <3>2. Decoding!IPv4Failure(f) \in Decoding!UnsupportedMessages BY <1>5, <1>6, <3>1
    <3>3. options = None
      <4>1. options # None => Decoding!IPv4Failure(f) = options
        BY <3>1 DEF Decoding!IPv4Failure
      <4> QED BY <1>2, <3>2, <4>1
    <3> QED BY <2>1, <3>1, <3>3 DEF SoundIPv4, ToCount
  <2> QED BY <1>7, <2>2, <2>3 DEF Decoding!CountsAsIPv4
<1>8. ASSUME f \in ToCount PROVE Decoding!CountsAsIPv4(f)
  <2>1. /\ Decoding!First(Decoding!LinkChecks(f)) = None /\ Decoding!EtherType(f) = "IPv4"
        /\ Decoding!First(Decoding!IPv4Checks(f)) = None /\ options = None
        /\ f.ip.checksum_valid
        /\ LaterFragment(f) \/ Decoding!Outcome(f) = "analyzed"
    BY <1>8 DEF ToCount, SoundIPv4
  <2>2. Decoding!DecodeFailure(f) = Decoding!IPv4TransportFailure(f)
    <3>1. Decoding!IPv4Failure(f) = Decoding!IPv4TransportFailure(f)
      BY <2>1 DEF Decoding!IPv4Failure
    <3> QED BY <1>6, <2>1, <3>1
  <2>3. CASE Decoding!Outcome(f) = "analyzed" BY <2>1, <2>3 DEF Decoding!CountsAsIPv4
  <2>4. CASE LaterFragment(f) /\ f.ip.protocol \in {1, 6, 17}
    <3>1. f.ip.fragment_offset # 0 BY <2>4 DEF LaterFragment
    <3>2. Decoding!IPv4TransportFailure(f) = "initial IPv4 fragment"
      BY <2>4, <3>1, Zenon DEF Decoding!IPv4TransportFailure
    <3>3. Decoding!Outcome(f) = "unsupported"
      <4>1. PICK m : m = "initial IPv4 fragment" BY Zenon
      <4>2. Decoding!DecodeFailure(f) = m BY <2>2, <3>2, <4>1, Zenon
      <4>3. m # None /\ m \in Decoding!UnsupportedMessages BY <1>3, <4>1, Zenon
      <4> QED BY <1>5, <4>2, <4>3, Zenon
    <3> QED BY <2>1, <2>4, <3>1, <3>3 DEF Decoding!NonInitialFragment, Decoding!CountsAsIPv4
  <2>5. CASE f.ip.protocol \notin {1, 6, 17}
    <3>1. Decoding!IPv4TransportFailure(f) = None
      BY <2>5 DEF Decoding!IPv4TransportFailure
    <3>2. ~Decoding!IntegrityFailure(f) BY <2>1, <2>5 DEF Decoding!IntegrityFailure
    <3>3. Decoding!Outcome(f) = "analyzed" BY <1>5, <2>2, <3>1, <3>2
    <3> QED BY <2>1, <3>3 DEF Decoding!CountsAsIPv4
  <2> QED BY <2>1, <2>3, <2>4, <2>5
<1> QED BY <1>7, <1>8

OfCategory(c) == {f \in Frames : Decoding!CountsAsIPv4(f) /\ Category(Decoding!Network(f)) = c}
Unfragmentable(c) == {f \in OfCategory(c) : "df" \in Decoding!Network(f).flags}

Counted ==
    /\ seen \in Seq(Frames)
    /\ fragments \in [packets : [Categories -> Nat], df : [Categories -> Nat], reserved : Nat]
    /\ \A c \in Categories :
           /\ fragments.packets[c] = Cardinality(Among(seen, OfCategory(c)))
           /\ fragments.df[c] = Cardinality(Among(seen, Unfragmentable(c)))
    /\ FragmentsValid(fragments)

LEMMA HeaderTyped ==
    ASSUME NEW f \in Frames, Decoding!CountsAsIPv4(f)
    PROVE  /\ Decoding!Network(f).flags = f.ip.flags
           /\ Decoding!Network(f).fragment_offset = f.ip.fragment_offset
           /\ f.ip.fragment_offset \in Nat
           /\ Category(Decoding!Network(f)) \in Categories
<1>1. Decoding!EtherType(f) = "IPv4"
  BY DEF Decoding!CountsAsIPv4, Decoding!NonInitialFragment
<1>2. /\ Decoding!Network(f).flags = f.ip.flags
      /\ Decoding!Network(f).fragment_offset = f.ip.fragment_offset
  BY <1>1 DEF Decoding!Network
<1>3. f.ip.fragment_offset \in Nat BY <1>2, OffsetAssumption
<1>4. \A ip : Category(ip) \in Categories BY DEF Category, Categories
<1> QED BY <1>2, <1>3, <1>4

LEMMA CountedStarts == Init => Counted
<1> SUFFICES ASSUME Init PROVE Counted OBVIOUS
<1>1. seen = <<>> /\ fragments = NoFragments BY DEF Init
<1>2. seen \in Seq(Frames)
  <2>1. \A S : <<>> \in Seq(S) OBVIOUS
  <2> QED BY <1>1, <2>1
<1>3. fragments \in [packets : [Categories -> Nat], df : [Categories -> Nat], reserved : Nat]
  BY <1>1 DEF NoFragments
<1>4. \A P : Cardinality(Among(seen, P)) = 0
  <2>1. \A P : Among(seen, P) = {} BY <1>1 DEF Among
  <2> QED BY <2>1, FS_EmptySet
<1>5. \A c \in Categories : fragments.packets[c] = 0 /\ fragments.df[c] = 0
  BY <1>1 DEF NoFragments
<1>6. FragmentsValid(fragments)
  <2>1. fragments.reserved = 0 BY <1>1 DEF NoFragments
  <2>2. {"unfragmented", "initial", "intermediate", "final"} \subseteq Categories
    BY DEF Categories
  <2> QED BY <1>5, <2>1, <2>2 DEF FragmentsValid
<1> QED BY <1>2, <1>3, <1>4, <1>5, <1>6 DEF Counted

(* Adding to the count of one category adds as much to their sum.            *)
All(p) == p["unfragmented"] + p["initial"] + p["intermediate"] + p["final"]

LEMMA AllMore ==
    ASSUME NEW p \in [Categories -> Nat], NEW q \in [Categories -> Nat], NEW k \in Categories,
           \A c \in Categories : q[c] = p[c] + (IF c = k THEN 1 ELSE 0)
    PROVE  All(p) \in Nat /\ All(q) = All(p) + 1
<1> DEFINE a == p["unfragmented"] b == p["initial"] c == p["intermediate"] d == p["final"]
<1>1. a \in Nat /\ b \in Nat /\ c \in Nat /\ d \in Nat BY DEF Categories
<1>2. /\ q["unfragmented"] = a + (IF k = "unfragmented" THEN 1 ELSE 0)
      /\ q["initial"] = b + (IF k = "initial" THEN 1 ELSE 0)
      /\ q["intermediate"] = c + (IF k = "intermediate" THEN 1 ELSE 0)
      /\ q["final"] = d + (IF k = "final" THEN 1 ELSE 0)
  BY DEF Categories
<1>3. k \in {"unfragmented", "initial", "intermediate", "final"} BY DEF Categories
<1>4. All(p) = a + b + c + d BY DEF All
<1> HIDE DEF a, b, c, d
<1> QED BY <1>1, <1>2, <1>3, <1>4 DEF All

(* What a frame that counts adds.                                            *)
LEMMA CountedMore ==
    ASSUME Counted, NEW f \in Frames, Decoding!CountsAsIPv4(f), NEW ip, ip = Decoding!Network(f),
           fragments' = FragmentsUpdated(fragments, ip), seen' = Append(seen, f)
    PROVE  Counted'
<1> DEFINE k == Category(ip)
           u == One("df" \in ip.flags)
           r == One("reserved" \in ip.flags)
<1>1. k \in Categories BY HeaderTyped
<1>2. u \in {0, 1} /\ r \in {0, 1} /\ (u = 1 <=> "df" \in ip.flags) BY DEF One
<1>3. /\ fragments'.packets = [fragments.packets EXCEPT ![k] = fragments.packets[k] + 1]
      /\ fragments'.df = [fragments.df EXCEPT ![k] = fragments.df[k] + u]
      /\ fragments'.reserved = fragments.reserved + r
  BY DEF FragmentsUpdated
<1>4. /\ seen \in Seq(Frames)
      /\ fragments.packets \in [Categories -> Nat] /\ fragments.df \in [Categories -> Nat]
      /\ fragments.reserved \in Nat
      /\ \A c \in Categories :
             /\ fragments.packets[c] = Cardinality(Among(seen, OfCategory(c)))
             /\ fragments.df[c] = Cardinality(Among(seen, Unfragmentable(c)))
      /\ FragmentsValid(fragments)
  BY DEF Counted
<1>5. \A P : Cardinality(Among(seen', P)) =
                 Cardinality(Among(seen, P)) + (IF f \in P THEN 1 ELSE 0)
  BY <1>4, AmongCounts
<1>6. \A c \in Categories : (f \in OfCategory(c) <=> c = k)
                            /\ (f \in Unfragmentable(c) <=> c = k /\ u = 1)
  BY <1>2 DEF OfCategory, Unfragmentable
<1> HIDE DEF k, u, r
<1>7. /\ fragments'.packets \in [Categories -> Nat]
      /\ \A c \in Categories :
             fragments'.packets[c] = fragments.packets[c] + (IF c = k THEN 1 ELSE 0)
  <2>1. fragments.packets \in [Categories -> Nat] BY <1>4
  <2>2. fragments'.packets = [fragments.packets EXCEPT ![k] = fragments.packets[k] + 1] BY <1>3
  <2> QED BY <1>1, <2>1, <2>2
<1>8. /\ fragments'.df \in [Categories -> Nat]
      /\ \A c \in Categories : fragments'.df[c] = fragments.df[c] + (IF c = k THEN u ELSE 0)
  <2>1. fragments.df \in [Categories -> Nat] BY <1>4
  <2>2. fragments'.df = [fragments.df EXCEPT ![k] = fragments.df[k] + u] BY <1>3
  <2>3. u \in Nat BY <1>2
  <2> QED BY <1>1, <2>1, <2>2, <2>3
<1>9. /\ seen' \in Seq(Frames)
      /\ fragments' \in [packets : [Categories -> Nat], df : [Categories -> Nat], reserved : Nat]
  <2>1. seen' \in Seq(Frames) BY <1>4, AppendProperties
  <2>2. fragments' = [packets |-> fragments'.packets, df |-> fragments'.df,
                      reserved |-> fragments'.reserved]
    BY DEF FragmentsUpdated
  <2>3. fragments'.reserved = fragments.reserved + r /\ fragments.reserved \in Nat /\ r \in Nat
    BY <1>2, <1>3, <1>4
  <2>4. fragments'.reserved \in Nat BY <2>3
  <2> QED BY <1>7, <1>8, <2>1, <2>2, <2>4
<1>10. ASSUME NEW c \in Categories
       PROVE  /\ fragments'.packets[c] = Cardinality(Among(seen', OfCategory(c)))
              /\ fragments'.df[c] = Cardinality(Among(seen', Unfragmentable(c)))
  <2>1. /\ Cardinality(Among(seen', OfCategory(c))) =
               fragments.packets[c] + (IF c = k THEN 1 ELSE 0)
    BY <1>4, <1>5, <1>6
  <2>2. Cardinality(Among(seen', Unfragmentable(c))) =
            fragments.df[c] + (IF c = k /\ u = 1 THEN 1 ELSE 0)
    BY <1>4, <1>5, <1>6
  <2>3. /\ fragments'.packets[c] = fragments.packets[c] + (IF c = k THEN 1 ELSE 0)
        /\ fragments'.df[c] = fragments.df[c] + (IF c = k THEN u ELSE 0)
        /\ fragments.df[c] \in Nat /\ u \in {0, 1}
    BY <1>2, <1>4, <1>7, <1>8
  <2> QED BY <2>1, <2>2, <2>3
<1>11. FragmentsValid(fragments')
  <2>1. ASSUME NEW c \in Categories PROVE fragments'.df[c] \in 0 .. fragments'.packets[c]
    <3>1. fragments.df[c] \in Nat /\ fragments.packets[c] \in Nat BY <1>4
    <3>2. fragments.df[c] \in 0 .. fragments.packets[c] BY <1>4 DEF FragmentsValid
    <3>3. /\ fragments'.packets[c] = fragments.packets[c] + (IF c = k THEN 1 ELSE 0)
          /\ fragments'.df[c] = fragments.df[c] + (IF c = k THEN u ELSE 0)
      BY <1>7, <1>8
    <3>4. u \in {0, 1} BY <1>2
    <3> QED BY <3>1, <3>2, <3>3, <3>4
  <2>2. fragments'.reserved \in 0 .. (fragments'.packets["unfragmented"] + fragments'.packets["initial"]
                                      + fragments'.packets["intermediate"] + fragments'.packets["final"])
    <3>1. fragments.reserved \in 0 .. All(fragments.packets)
      BY <1>4 DEF FragmentsValid, All
    <3>2. All(fragments.packets) \in Nat /\ All(fragments'.packets) = All(fragments.packets) + 1
      BY <1>1, <1>4, <1>7, AllMore
    <3>3. r \in {0, 1} BY <1>2
    <3>4. fragments'.reserved = fragments.reserved + r BY <1>3
    <3> DEFINE old == All(fragments.packets)
               new == All(fragments'.packets)
               was == fragments.reserved
    <3>5. was \in 0 .. old /\ old \in Nat /\ new = old + 1 BY <3>1, <3>2
    <3> HIDE DEF old, new, was
    <3>6. was + r \in 0 .. new BY <3>3, <3>5
    <3>7. fragments'.reserved \in 0 .. All(fragments'.packets) BY <3>4, <3>6 DEF new, was
    <3> QED BY <3>7 DEF All
  <2> QED BY <2>1, <2>2 DEF FragmentsValid
<1> QED BY <1>9, <1>10, <1>11 DEF Counted

(* A frame that does not count adds nothing.                                 *)
LEMMA CountedSame ==
    ASSUME Counted, NEW f \in Frames, ~Decoding!CountsAsIPv4(f), fragments' = fragments,
           seen' = Append(seen, f)
    PROVE  Counted'
<1>1. seen \in Seq(Frames) /\ seen' \in Seq(Frames) BY AppendProperties DEF Counted
<1>2. \A P : Cardinality(Among(seen', P)) =
                 Cardinality(Among(seen, P)) + (IF f \in P THEN 1 ELSE 0)
  BY <1>1, AmongCounts
<1>3. \A c : f \notin OfCategory(c) /\ f \notin Unfragmentable(c)
  BY DEF OfCategory, Unfragmentable
<1>4. /\ fragments \in [packets : [Categories -> Nat], df : [Categories -> Nat], reserved : Nat]
      /\ \A c \in Categories :
             /\ fragments.packets[c] = Cardinality(Among(seen, OfCategory(c)))
             /\ fragments.df[c] = Cardinality(Among(seen, Unfragmentable(c)))
             /\ fragments.packets[c] \in Nat /\ fragments.df[c] \in Nat
      /\ FragmentsValid(fragments)
  BY DEF Counted
<1>5. \A c \in Categories :
         /\ fragments.packets[c] = Cardinality(Among(seen', OfCategory(c)))
         /\ fragments.df[c] = Cardinality(Among(seen', Unfragmentable(c)))
  BY <1>2, <1>3, <1>4
<1> QED BY <1>1, <1>4, <1>5 DEF Counted

LEMMA CountedStep == Counted /\ [Next]_vars => Counted'
<1> SUFFICES ASSUME Counted, [Next]_vars PROVE Counted' OBVIOUS
<1>1. CASE Next
  <2>1. PICK f \in Frames : CountFragment(f) /\ seen' = Append(seen, f)
    BY <1>1 DEF Next, Observe
  <2>2. CASE Decoding!CountsAsIPv4(f)
    <3>1. PICK ip : ip = Decoding!Network(f) OBVIOUS
    <3>2. fragments' = FragmentsUpdated(fragments, ip) BY <2>1, <2>2, <3>1 DEF CountFragment
    <3> QED BY <2>1, <2>2, <3>1, <3>2, CountedMore
  <2>3. CASE ~Decoding!CountsAsIPv4(f)
    <3>1. fragments' = fragments BY <2>1, <2>3 DEF CountFragment
    <3> QED BY <2>1, <2>3, <3>1, CountedSame
  <2> QED BY <2>2, <2>3
<1>2. CASE UNCHANGED vars BY <1>2 DEF vars, Counted
<1> QED BY <1>1, <1>2

(* Of the frames of the capture exactly those with a sound IPv4 header that  *)
(* are later fragments or can be analyzed are counted, each once, by its     *)
(* flags and offset, whether or not a flow takes it                          *)
(* (capture_fragmentation.py, ipv4_fragmentation_statistics.py).             *)
THEOREM Fragments == Spec => []FragmentsOfCapture
<1>1. ASSUME Counted PROVE FragmentsOfCapture
  <2> SUFFICES ASSUME NEW more \in BOOLEAN, NEW later \in BOOLEAN
               PROVE  LET those == {i \in DOMAIN seen : /\ seen[i] \in ToCount
                                                        /\ ("mf" \in seen[i].ip.flags) = more
                                                        /\ LaterFragment(seen[i]) = later}
                          category == CASE more /\ later -> "intermediate"
                                        [] more /\ ~later -> "initial"
                                        [] ~more /\ later -> "final" [] OTHER -> "unfragmented"
                      IN /\ fragments.packets[category] = Cardinality(those)
                         /\ fragments.df[category] =
                                Cardinality({i \in those : "df" \in seen[i].ip.flags})
    <3>1. FragmentsValid(fragments) BY <1>1 DEF Counted
    <3> QED BY <3>1, Zenon DEF FragmentsOfCapture
  <2> DEFINE those == {i \in DOMAIN seen : /\ seen[i] \in ToCount
                                           /\ ("mf" \in seen[i].ip.flags) = more
                                           /\ LaterFragment(seen[i]) = later}
             category == CASE more /\ later -> "intermediate" [] more /\ ~later -> "initial"
                           [] ~more /\ later -> "final" [] OTHER -> "unfragmented"
  <2>1. category \in Categories BY DEF Categories
  <2>2. ASSUME NEW f \in Frames
        PROVE  /\ f \in OfCategory(category) <=>
                     /\ f \in ToCount
                     /\ ("mf" \in f.ip.flags) = more /\ LaterFragment(f) = later
               /\ f \in Unfragmentable(category) <=>
                     f \in OfCategory(category) /\ "df" \in f.ip.flags
    <3>1. CASE ~Decoding!CountsAsIPv4(f)
      BY <3>1, CountsAreToCount DEF OfCategory, Unfragmentable
    <3>2. CASE Decoding!CountsAsIPv4(f)
      <4>1. PICK ip : ip = Decoding!Network(f) OBVIOUS
      <4>2. /\ ip.flags = f.ip.flags /\ ip.fragment_offset = f.ip.fragment_offset
            /\ ip.fragment_offset \in Nat
        BY <3>2, <4>1, HeaderTyped
      <4>3. LaterFragment(f) <=> ip.fragment_offset # 0 BY <4>2 DEF LaterFragment
      <4>4. Category(ip) = category <=>
                ("mf" \in ip.flags) = more /\ LaterFragment(f) = later
        <5>1. LaterFragment(f) \in BOOLEAN /\ ("mf" \in ip.flags) \in BOOLEAN
          BY DEF LaterFragment
        <5>2. CASE "mf" \in ip.flags /\ ip.fragment_offset # 0
          <6>1. Category(ip) = "intermediate" BY <5>2 DEF Category
          <6> QED BY <4>3, <5>2, <6>1
        <5>3. CASE "mf" \in ip.flags /\ ip.fragment_offset = 0
          <6>1. Category(ip) = "initial" BY <5>3 DEF Category
          <6> QED BY <4>3, <5>1, <5>3, <6>1
        <5>4. CASE "mf" \notin ip.flags /\ ip.fragment_offset # 0
          <6>1. Category(ip) = "final" BY <5>4 DEF Category
          <6> QED BY <4>3, <5>1, <5>4, <6>1
        <5>5. CASE "mf" \notin ip.flags /\ ip.fragment_offset = 0
          <6>1. Category(ip) = "unfragmented" BY <5>5 DEF Category
          <6> QED BY <4>3, <5>1, <5>5, <6>1
        <5> QED BY <5>2, <5>3, <5>4, <5>5
      <4> HIDE DEF category
      <4>5. f \in OfCategory(category) <=> Category(ip) = category
        BY <3>2, <4>1 DEF OfCategory
      <4>6. f \in Unfragmentable(category) <=>
                f \in OfCategory(category) /\ "df" \in f.ip.flags
        BY <4>1, <4>2 DEF Unfragmentable
      <4>7. f \in ToCount BY <3>2, CountsAreToCount
      <4> QED BY <4>2, <4>4, <4>5, <4>6, <4>7
    <3> QED BY <3>1, <3>2
  <2>3. \A i \in DOMAIN seen : seen[i] \in Frames BY <1>1 DEF Counted
  <2> HIDE DEF category
  <2>4. those = Among(seen, OfCategory(category)) BY <2>2, <2>3 DEF Among
  <2>5. {i \in those : "df" \in seen[i].ip.flags} = Among(seen, Unfragmentable(category))
    BY <2>2, <2>3 DEF Among
  <2> HIDE DEF those
  <2>6. fragments.packets[category] = Cardinality(those) BY <1>1, <2>1, <2>4 DEF Counted
  <2>7. fragments.df[category] = Cardinality({i \in those : "df" \in seen[i].ip.flags})
    BY <1>1, <2>1, <2>5 DEF Counted
  <2> QED BY <2>6, <2>7 DEF those, category
<1> QED BY <1>1, CountedStarts, CountedStep, PTL DEF Spec
=============================================================================
