----------------------------- MODULE InductionLemmas -----------------------------
(***************************************************************************)
(* Induction over naturals and finite sets.  The induction theorems of the *)
(* library take an operator as a parameter; here what is to hold of each   *)
(* element is given as the set of the elements of which it holds.          *)
(***************************************************************************)
EXTENDS Integers, FiniteSets, FiniteSetsExt, FiniteSetTheorems, WellFoundedInduction, TLAPS

(* Induction.  Of every set of naturals there is a least element: sets of    *)
(* smaller numbers are strict subsets, whose ordering is well-founded.       *)
LEMMA LeastNat ==
    ASSUME NEW S \in SUBSET Nat, S # {}
    PROVE  \E n \in S : \A m \in S : n <= m
<1> DEFINE T == {0 .. n : n \in S}
<1>1. T \subseteq FiniteSubsetsOf(Nat) /\ T # {}
  <2>1. ASSUME NEW n \in S PROVE 0 .. n \in FiniteSubsetsOf(Nat)
    <3>1. n \in Int /\ 0 \in Int OBVIOUS
    <3>2. IsFiniteSet(0 .. n) BY <3>1, FS_Interval
    <3> QED BY <3>2 DEF FiniteSubsetsOf
  <2> QED BY <2>1
<1>2. PICK x \in T : \A y \in T : ~ (<<y, x>> \in StrictSubsetOrdering(Nat))
  <2> HIDE DEF T
  <2> QED BY <1>1, WFMin, FS_StrictSubsetOrderingWellFounded
<1>3. PICK n \in S : x = 0 .. n BY <1>2
<1>4. ASSUME NEW m \in S, m < n PROVE FALSE
  <2>1. 0 .. m \subseteq 0 .. n /\ 0 .. m # 0 .. n BY <1>4
  <2>2. 0 .. m \in SUBSET Nat /\ 0 .. n \in SUBSET Nat BY <1>3, <1>4
  <2>3. <<0 .. m, 0 .. n>> \in StrictSubsetOrdering(Nat) BY <2>1, <2>2 DEF StrictSubsetOrdering
  <2> QED BY <1>2, <1>3, <2>3
<1> QED BY <1>4

(* A set of the naturals up to N that contains 0, and with each number the   *)
(* next, contains them all.                                                  *)
LEMMA Upwards ==
    ASSUME NEW N \in Nat, NEW S, 0 \in S,
           \A n \in 1 .. N : n - 1 \in S => n \in S
    PROVE  \A n \in 0 .. N : n \in S
<1> DEFINE T == (0 .. N) \ S
<1> SUFFICES ASSUME T # {} PROVE FALSE OBVIOUS
<1>1. T \in SUBSET Nat OBVIOUS
<1>2. PICK n \in T : \A m \in T : n <= m
  <2> HIDE DEF T
  <2> QED BY <1>1, LeastNat
<1>3. n # 0 /\ n \in 1 .. N /\ n - 1 \in 0 .. N /\ ~(n <= n - 1) BY <1>2
<1>4. n - 1 \in S BY <1>2, <1>3
<1> QED BY <1>2, <1>3, <1>4

(* A value that each step takes from the one before it exists at every step. *)
Iterated(N, S, a, step) ==
    \E g \in [0 .. N -> S] : g[0] = a /\ \A k \in 1 .. N : g[k] = step[k][g[k - 1]]

LEMMA Iteration ==
    ASSUME NEW N \in Nat, NEW S, NEW a \in S, NEW step \in [1 .. N -> [S -> S]]
    PROVE  Iterated(N, S, a, step)
<1> DEFINE Upto(n) == \E g \in [0 .. n -> S] : g[0] = a /\ \A k \in 1 .. n : g[k] = step[k][g[k - 1]]
           T == {n \in 0 .. N : Upto(n)}
<1>1. 0 \in T
  <2>1. [k \in 0 .. 0 |-> a] \in [0 .. 0 -> S] /\ [k \in 0 .. 0 |-> a][0] = a OBVIOUS
  <2>2. \A k \in 1 .. 0 : FALSE OBVIOUS
  <2> DEFINE h == [k \in 0 .. 0 |-> a]
  <2>3. h \in [0 .. 0 -> S] /\ h[0] = a BY <2>1
  <2> HIDE DEF h
  <2>4. Upto(0) BY <2>2, <2>3
  <2> QED BY <2>4
<1>2. ASSUME NEW n \in 1 .. N, n - 1 \in T PROVE n \in T
  <2>1. PICK g \in [0 .. n - 1 -> S] : g[0] = a /\ \A k \in 1 .. n - 1 : g[k] = step[k][g[k - 1]] BY <1>2
  <2> DEFINE h == [k \in 0 .. n |-> IF k = n THEN step[n][g[n - 1]] ELSE g[k]]
  <2>2. step[n][g[n - 1]] \in S BY <2>1
  <2>3. h \in [0 .. n -> S] BY <2>1, <2>2
  <2>4. h[0] = a BY <2>1
  <2>5. \A k \in 1 .. n : h[k] = step[k][h[k - 1]] BY <2>1
  <2> HIDE DEF h
  <2>6. Upto(n) BY <2>3, <2>4, <2>5
  <2>7. n \in 0 .. N OBVIOUS
  <2> HIDE DEF Upto
  <2> QED BY <2>6, <2>7
<1>3. \A n \in 1 .. N : n - 1 \in T => n \in T BY <1>2
<1>4. N \in T
  <2> HIDE DEF T
  <2>1. \A n \in 0 .. N : n \in T BY <1>1, <1>3, Upwards
  <2> QED BY <2>1
<1> QED BY <1>4 DEF Iterated

(* A value that is built up over the subsets of a finite set, by taking one  *)
(* element out of each, exists for all of them.                              *)
BuiltUp(S, V, base, pick, step) ==
    \E g \in [SUBSET S -> V] :
        \A s \in SUBSET S : g[s] = IF s = {} THEN base ELSE step[pick[s]][g[s \ {pick[s]}]]

LEMMA SubsetRecursion ==
    ASSUME NEW S, IsFiniteSet(S), NEW V, NEW base \in V,
           NEW pick, \A s \in SUBSET S : s # {} => pick[s] \in s,
           NEW step, \A x \in S : \A v \in V : step[x][v] \in V
    PROVE  BuiltUp(S, V, base, pick, step)
<1> DEFINE Size(s) == Cardinality(s)
           N == Cardinality(S)
           Holds(g, s) == g[s] = IF s = {} THEN base ELSE step[pick[s]][g[s \ {pick[s]}]]
           T == {n \in 0 .. N : \E g \in [SUBSET S -> V] :
                                    \A s \in SUBSET S : Size(s) <= n => Holds(g, s)}
<1>1. /\ N \in Nat
      /\ \A s \in SUBSET S : IsFiniteSet(s) /\ Size(s) \in 0 .. N
  <2>1. N \in Nat BY FS_CardinalityType
  <2>2. ASSUME NEW s \in SUBSET S PROVE IsFiniteSet(s) /\ Size(s) \in 0 .. N
    BY <2>1, FS_Subset, FS_CardinalityType
  <2> QED BY <2>1, <2>2
<1>2. \A s \in SUBSET S : s # {} => /\ s \ {pick[s]} \in SUBSET S
                                    /\ Size(s \ {pick[s]}) = Size(s) - 1
                                    /\ Size(s) # 0
  <2> SUFFICES ASSUME NEW s \in SUBSET S, s # {}
               PROVE  /\ s \ {pick[s]} \in SUBSET S
                      /\ Size(s \ {pick[s]}) = Size(s) - 1
                      /\ Size(s) # 0
    OBVIOUS
  <2>1. pick[s] \in s /\ IsFiniteSet(s) BY <1>1
  <2> QED BY <2>1, FS_RemoveElement, FS_EmptySet
<1>3. 0 \in T
  <2> DEFINE g == [s \in SUBSET S |-> base]
  <2>1. g \in [SUBSET S -> V] OBVIOUS
  <2>2. ASSUME NEW s \in SUBSET S, Size(s) <= 0 PROVE Holds(g, s)
    <3>1. s = {}
      <4> SUFFICES ASSUME s # {} PROVE FALSE OBVIOUS
      <4>1. Size(s) \in 0 .. N /\ Size(s) # 0 BY <1>1, <1>2
      <4> HIDE DEF Size, N
      <4> QED BY <1>1, <2>2, <4>1
    <3> QED BY <3>1
  <2> HIDE DEF g, Size, Holds
  <2> QED BY <1>1, <2>1, <2>2
<1>4. ASSUME NEW n \in 1 .. N, n - 1 \in T PROVE n \in T
  <2>1. PICK h \in [SUBSET S -> V] : \A s \in SUBSET S : Size(s) <= n - 1 => Holds(h, s)
    BY <1>4
  <2> DEFINE g == [s \in SUBSET S |-> IF s = {} THEN base ELSE step[pick[s]][h[s \ {pick[s]}]]]
  <2>2. g \in [SUBSET S -> V]
    <3> SUFFICES ASSUME NEW s \in SUBSET S, s # {}
                 PROVE  step[pick[s]][h[s \ {pick[s]}]] \in V
      OBVIOUS
    <3>1. pick[s] \in S /\ h[s \ {pick[s]}] \in V BY <1>2
    <3> QED BY <3>1
  <2>3. ASSUME NEW s \in SUBSET S, Size(s) <= n - 1 PROVE g[s] = h[s]
    BY <2>1, <2>3
  <2>4. ASSUME NEW s \in SUBSET S, Size(s) <= n PROVE Holds(g, s)
    <3>1. CASE s = {} BY <3>1
    <3>2. CASE s # {}
      <4> DEFINE r == s \ {pick[s]}
      <4>1. r \in SUBSET S /\ Size(r) <= n - 1
        <5>1. r \in SUBSET S /\ Size(r) = Size(s) - 1 /\ Size(s) \in 0 .. N BY <1>1, <1>2, <3>2
        <5> HIDE DEF Size, r
        <5> QED BY <1>1, <2>4, <5>1
      <4>2. g[r] = h[r] BY <2>3, <4>1
      <4> QED BY <3>2, <4>2
    <3> QED BY <3>1, <3>2
  <2> HIDE DEF g, Size, Holds
  <2>5. n \in 0 .. N OBVIOUS
  <2> QED BY <2>2, <2>4, <2>5
<1>5. N \in T
  <2> HIDE DEF T, N
  <2>1. \A n \in 0 .. N : n \in T BY <1>1, <1>3, <1>4, Upwards
  <2> QED BY <1>1, <2>1
<1>6. PICK g \in [SUBSET S -> V] : \A s \in SUBSET S : Size(s) <= N => Holds(g, s) BY <1>5
<1>7. \A s \in SUBSET S : Holds(g, s)
  <2> SUFFICES ASSUME NEW s \in SUBSET S PROVE Holds(g, s) OBVIOUS
  <2>1. Size(s) <= N
    <3>1. Size(s) \in 0 .. N BY <1>1
    <3> HIDE DEF Size, N
    <3> QED BY <1>1, <3>1
  <2> HIDE DEF Size, N, Holds
  <2> QED BY <1>6, <2>1
<1> QED BY <1>7 DEF BuiltUp

-----------------------------------------------------------------------------
(* The greatest element of a finite set of naturals.                         *)
LEMMA MaxIs ==
    ASSUME NEW n \in Nat, NEW S \in SUBSET (0 .. n), S # {}
    PROVE  Max(S) \in S /\ \A m \in S : m <= Max(S)
<1> DEFINE T == {n - m : m \in S}
<1>1. T \in SUBSET Nat /\ T # {}
  <2>1. \A m \in S : m \in Int /\ n - m \in Nat OBVIOUS
  <2> QED BY <2>1
<1>2. PICK t \in T : \A u \in T : t <= u
  <2> HIDE DEF T
  <2> QED BY <1>1, LeastNat
<1>3. PICK x \in S : t = n - x BY <1>2
<1>4. \A m \in S : x >= m
  <2> SUFFICES ASSUME NEW m \in S PROVE x >= m OBVIOUS
  <2>1. n - m \in T OBVIOUS
  <2>2. n - x <= n - m BY <1>2, <1>3, <2>1
  <2> QED BY <2>2
<1>5. Max(S) \in S /\ \A m \in S : Max(S) >= m BY <1>4, Zenon DEF Max
<1> QED BY <1>5

LEMMA MaxUnique ==
    ASSUME NEW S, NEW x \in S, S \subseteq Int, \A m \in S : m <= x
    PROVE  Max(S) = x
<1>1. \A m \in S : x >= m OBVIOUS
<1>2. Max(S) \in S /\ \A m \in S : Max(S) >= m BY <1>1, Zenon DEF Max
<1>3. Max(S) \in Int /\ x \in Int /\ Max(S) >= x /\ Max(S) <= x BY <1>2
<1> HIDE DEF Max
<1> QED BY <1>3

LEMMA LastOfInterval ==
    ASSUME NEW k \in Nat \ {0}
    PROVE  Max(1 .. k) = k /\ (1 .. k) \ {k} = 1 .. (k - 1) /\ 1 .. k # {}
<1>1. k \in 1 .. k /\ 1 .. k \subseteq Int /\ \A m \in 1 .. k : m <= k OBVIOUS
<1>2. Max(1 .. k) = k BY <1>1, MaxUnique
<1>3. ASSUME NEW m PROVE m \in (1 .. k) \ {k} <=> m \in 1 .. (k - 1)
  <2>1. CASE m \in Int BY <2>1
  <2>2. CASE m \notin Int BY <2>2
  <2> QED BY <2>1, <2>2
<1>4. (1 .. k) \ {k} = 1 .. (k - 1) BY <1>3
<1> QED BY <1>1, <1>2, <1>4

(* A value that is built up over the sets of the numbers up to n, by taking  *)
(* the greatest out of each, exists for all of them: what folds of sequences *)
(* are made of.                                                              *)
Folding(n, C, start, step) ==
    \E g \in [SUBSET (1 .. n) -> C] :
        \A s \in SUBSET (1 .. n) :
            /\ s # {} => Max(s) \in s
            /\ g[s] = IF s = {} THEN start ELSE step[Max(s)][g[s \ {Max(s)}]]

LEMMA FoldRecursion ==
    ASSUME NEW n \in Nat, NEW C, NEW start \in C, NEW step,
           \A k \in 1 .. n : \A v \in C : step[k][v] \in C
    PROVE  Folding(n, C, start, step)
<1> DEFINE S == 1 .. n
           pick == [s \in SUBSET S |-> Max(s)]
<1>1. \A s \in SUBSET S : s # {} => Max(s) \in s
  <2> SUFFICES ASSUME NEW s \in SUBSET S, s # {} PROVE Max(s) \in s OBVIOUS
  <2>1. s \in SUBSET (0 .. n) OBVIOUS
  <2> QED BY <2>1, MaxIs
<1>2. \A s \in SUBSET S : pick[s] = Max(s) OBVIOUS
<1>3. IsFiniteSet(S) BY FS_Interval
<1> HIDE DEF pick
<1>4. BuiltUp(S, C, start, pick, step)
  <2>1. \A s \in SUBSET S : s # {} => pick[s] \in s BY <1>1, <1>2
  <2> HIDE DEF S
  <2>2. \A x \in S : \A v \in C : step[x][v] \in C BY DEF S
  <2> QED BY <1>3, <2>1, <2>2, SubsetRecursion
<1>5. PICK g \in [SUBSET S -> C] :
          \A s \in SUBSET S : g[s] = IF s = {} THEN start ELSE step[pick[s]][g[s \ {pick[s]}]]
  BY <1>4 DEF BuiltUp
<1>6. \A s \in SUBSET S : g[s] = IF s = {} THEN start ELSE step[Max(s)][g[s \ {Max(s)}]]
  BY <1>2, <1>5
<1> QED BY <1>1, <1>6 DEF Folding

(* The values on the way from the first to the last of n steps.              *)
Passing(a, C, start, n) == a \in [0 .. n -> C] /\ a[0] = start

-----------------------------------------------------------------------------
(* A value for each place of an interval, taken from the one at a later place *)
(* to which the place jumps, exists; a place that does not jump has its own. *)
Jumping(lo, hi, V, next, join, last) ==
    \E g \in [lo .. hi -> V] :
        \A o \in lo .. hi : g[o] = IF next[o] \in (o + 1) .. hi THEN join[o][g[next[o]]] ELSE last[o]

LEMMA JumpRecursion ==
    ASSUME NEW lo \in Int, NEW hi \in Int, lo <= hi, NEW V, NEW next, NEW join, NEW last,
           \A o \in lo .. hi : last[o] \in V,
           \A o \in lo .. hi : \A v \in V : join[o][v] \in V
    PROVE  Jumping(lo, hi, V, next, join, last)
<1> DEFINE N == hi - lo
           D == lo .. hi
           Holds(g, o) == g[o] = IF next[o] \in (o + 1) .. hi THEN join[o][g[next[o]]] ELSE last[o]
           T == {n \in 0 .. N : \E g \in [D -> V] : \A o \in D : o >= hi - n => Holds(g, o)}
<1>1. N \in Nat OBVIOUS
<1>2. ASSUME NEW n \in 0 .. N, NEW h \in [D -> V],
             \A o \in D : o >= hi - n + 1 => Holds(h, o)
      PROVE  n \in T
  <2> DEFINE g == [o \in D |-> IF next[o] \in (o + 1) .. hi THEN join[o][h[next[o]]] ELSE last[o]]
  <2>1. g \in [D -> V]
    <3> SUFFICES ASSUME NEW o \in D PROVE g[o] \in V OBVIOUS
    <3>1. CASE next[o] \in (o + 1) .. hi
      <4>1. next[o] \in D BY <3>1
      <4> QED BY <3>1, <4>1
    <3>2. CASE next[o] \notin (o + 1) .. hi BY <3>2
    <3> QED BY <3>1, <3>2
  <2>2. \A o \in D : o >= hi - n + 1 => g[o] = h[o] BY <1>2
  <2>3. ASSUME NEW o \in D, o >= hi - n PROVE Holds(g, o)
    <3>1. CASE next[o] \in (o + 1) .. hi
      <4>1. next[o] \in D /\ next[o] >= hi - n + 1 BY <1>1, <2>3, <3>1
      <4>2. g[next[o]] = h[next[o]] BY <2>2, <4>1
      <4> QED BY <3>1, <4>2
    <3>2. CASE next[o] \notin (o + 1) .. hi BY <3>2
    <3> QED BY <3>1, <3>2
  <2> HIDE DEF g, Holds, D
  <2> QED BY <2>1, <2>3
<1>3. 0 \in T
  <2> DEFINE h == [o \in D |-> last[o]]
  <2>1. h \in [D -> V] OBVIOUS
  <2>2. \A o \in D : ~ (o >= hi - 0 + 1) OBVIOUS
  <2>3. 0 \in 0 .. N BY <1>1
  <2> HIDE DEF T, h, Holds, D, N
  <2> QED BY <1>2, <2>1, <2>2, <2>3
<1>4. ASSUME NEW n \in 1 .. N, n - 1 \in T PROVE n \in T
  <2>1. PICK h \in [D -> V] : \A o \in D : o >= hi - (n - 1) => Holds(h, o) BY <1>4
  <2>2. \A o \in D : o >= hi - n + 1 => o >= hi - (n - 1) BY <1>1
  <2>3. n \in 0 .. N BY <1>1
  <2>4. \A o \in D : o >= hi - n + 1 => Holds(h, o)
    <3> HIDE DEF Holds, D
    <3> QED BY <2>1, <2>2
  <2> HIDE DEF T, Holds, D, N
  <2> QED BY <1>2, <2>1, <2>3, <2>4
<1>5. N \in T
  <2> HIDE DEF T, N
  <2>1. \A n \in 0 .. N : n \in T BY <1>1, <1>3, <1>4, Upwards
  <2> QED BY <1>1, <2>1
<1>6. PICK g \in [D -> V] : \A o \in D : o >= hi - N => Holds(g, o) BY <1>5
<1>7. \A o \in D : o >= hi - N OBVIOUS
<1>8. \A o \in D : Holds(g, o)
  <2> HIDE DEF D, N, Holds
  <2> QED BY <1>6, <1>7
<1> QED BY <1>8 DEF Jumping

(* To show something of every place, from the last one down.                 *)
LEMMA Downwards ==
    ASSUME NEW lo \in Int, NEW hi \in Int, lo <= hi, NEW S,
           \A o \in lo .. hi : (\A p \in (o + 1) .. hi : p \in S) => o \in S
    PROVE  \A o \in lo .. hi : o \in S
<1> DEFINE N == hi - lo
           T == {n \in 0 .. N : \A o \in lo .. hi : o >= hi - n => o \in S}
<1>1. N \in Nat OBVIOUS
<1>2. 0 \in T
  <2>1. hi \in S
    <3>1. hi \in lo .. hi /\ \A p \in (hi + 1) .. hi : FALSE OBVIOUS
    <3> QED BY <3>1
  <2>2. \A o \in lo .. hi : o >= hi - 0 => o = hi OBVIOUS
  <2> QED BY <1>1, <2>1, <2>2
<1>3. ASSUME NEW n \in 1 .. N, n - 1 \in T PROVE n \in T
  <2>1. ASSUME NEW o \in lo .. hi, o >= hi - n PROVE o \in S
    <3>1. \A p \in (o + 1) .. hi : p \in lo .. hi /\ p >= hi - (n - 1) BY <2>1
    <3>2. \A p \in (o + 1) .. hi : p \in S BY <1>3, <3>1
    <3> QED BY <3>2
  <2> QED BY <2>1
<1>4. N \in T
  <2> HIDE DEF T, N
  <2>1. \A n \in 0 .. N : n \in T BY <1>1, <1>2, <1>3, Upwards
  <2> QED BY <1>1, <2>1
<1>5. \A o \in lo .. hi : o >= hi - N OBVIOUS
<1> QED BY <1>4, <1>5

-----------------------------------------------------------------------------
(* The sum of the values that a function has on a finite set, which is     *)
(* built up by taking out an element at a time.                            *)
Pick(s) == CHOOSE x \in s : TRUE

Sums(h, g, S) ==
    \A s \in SUBSET S : h[s] = IF s = {} THEN 0 ELSE g[Pick(s)] + h[s \ {Pick(s)}]

SumOf(g, S) == CHOOSE v : \E h : Sums(h, g, S) /\ v = h[S]

LEMMA SumsExist ==
    ASSUME NEW S, IsFiniteSet(S), NEW g, \A x \in S : g[x] \in Int
    PROVE  \E h \in [SUBSET S -> Int] : Sums(h, g, S)
<1> DEFINE pick == [s \in SUBSET S |-> Pick(s)]
           step == [x \in S |-> [v \in Int |-> g[x] + v]]
<1>1. \A s \in SUBSET S : s # {} => pick[s] \in s BY DEF Pick
<1>2. \A x \in S : \A v \in Int : step[x][v] \in Int OBVIOUS
<1>3. BuiltUp(S, Int, 0, pick, step)
  <2>1. 0 \in Int OBVIOUS
  <2> HIDE DEF pick, step
  <2> QED BY <1>1, <1>2, <2>1, SubsetRecursion
<1>4. PICK h \in [SUBSET S -> Int] :
         \A s \in SUBSET S : h[s] = IF s = {} THEN 0 ELSE step[pick[s]][h[s \ {pick[s]}]]
  BY <1>3 DEF BuiltUp
<1>5. ASSUME NEW s \in SUBSET S PROVE h[s] = IF s = {} THEN 0 ELSE g[Pick(s)] + h[s \ {Pick(s)}]
  <2>1. CASE s = {} BY <1>4, <2>1
  <2>2. CASE s # {}
    <3>1. pick[s] = Pick(s) /\ Pick(s) \in S /\ s \ {Pick(s)} \in SUBSET S BY <1>1, <2>2
    <3>2. h[s \ {Pick(s)}] \in Int BY <3>1
    <3>3. step[Pick(s)][h[s \ {Pick(s)}]] = g[Pick(s)] + h[s \ {Pick(s)}] BY <3>1, <3>2
    <3> HIDE DEF pick, step
    <3> QED BY <1>4, <2>2, <3>1, <3>3
  <2> QED BY <2>1, <2>2
<1> QED BY <1>5 DEF Sums

(* Sums of functions that agree on the subset are the same.                *)
LEMMA SumsAgree ==
    ASSUME NEW S, IsFiniteSet(S), NEW T, S \subseteq T, NEW g, NEW f, NEW h, NEW k,
           Sums(h, g, T), Sums(k, f, S), \A x \in S : f[x] = g[x]
    PROVE  \A s \in SUBSET S : h[s] = k[s]
<1> DEFINE N == Cardinality(S)
           H == {n \in 0 .. N : \A s \in SUBSET S : Cardinality(s) = n => h[s] = k[s]}
<1>1. N \in Nat /\ \A s \in SUBSET S : IsFiniteSet(s) /\ Cardinality(s) \in 0 .. N
  BY FS_CardinalityType, FS_Subset
<1>2. 0 \in H
  <2> SUFFICES ASSUME NEW s \in SUBSET S, Cardinality(s) = 0 PROVE h[s] = k[s] BY <1>1
  <2>1. s = {} BY <1>1, FS_EmptySet
  <2> QED BY <2>1 DEF Sums
<1>3. ASSUME NEW n \in 1 .. N, n - 1 \in H PROVE n \in H
  <2> SUFFICES ASSUME NEW s \in SUBSET S, Cardinality(s) = n PROVE h[s] = k[s] BY <1>1
  <2> DEFINE c == Pick(s)
             r == s \ {c}
  <2>1. s # {} BY <1>1, FS_EmptySet
  <2>2. c \in s BY <2>1 DEF Pick
  <2>3. r \in SUBSET S /\ Cardinality(r) = n - 1 BY <1>1, <2>2, FS_RemoveElement
  <2>4. h[r] = k[r] BY <1>3, <2>3
  <2>5. h[s] = g[c] + h[r] /\ k[s] = f[c] + k[r] BY <2>1 DEF Sums
  <2>6. f[c] = g[c] BY <2>2
  <2> QED BY <2>4, <2>5, <2>6
<1>4. \A n \in 0 .. N : n \in H
  <2>1. \A n \in 1 .. N : n - 1 \in H => n \in H BY <1>3
  <2> HIDE DEF H, N
  <2> QED BY <1>1, <1>2, <2>1, Upwards
<1> QED BY <1>1, <1>4

LEMMA SumsTyped ==
    ASSUME NEW S, IsFiniteSet(S), NEW g, \A x \in S : g[x] \in Int, NEW h, Sums(h, g, S)
    PROVE  \A s \in SUBSET S : h[s] \in Int
<1>1. PICK k : Sums(k, g, S) /\ \A s \in SUBSET S : k[s] \in Int
  <2>1. PICK k \in [SUBSET S -> Int] : Sums(k, g, S) BY SumsExist
  <2> QED BY <2>1
<1>2. S \subseteq S /\ \A x \in S : g[x] = g[x] OBVIOUS
<1>3. \A s \in SUBSET S : h[s] = k[s] BY <1>1, <1>2, SumsAgree
<1> QED BY <1>1, <1>3

(* Any element can be the one taken out.                                   *)
LEMMA SumsRemove ==
    ASSUME NEW S, IsFiniteSet(S), NEW g, \A x \in S : g[x] \in Int, NEW h, Sums(h, g, S),
           NEW e \in S
    PROVE  h[S] = g[e] + h[S \ {e}]
<1> DEFINE N == Cardinality(S)
           H == {n \in 0 .. N : \A s \in SUBSET S : Cardinality(s) = n =>
                                  \A x \in s : h[s] = g[x] + h[s \ {x}]}
<1>1. N \in Nat /\ \A s \in SUBSET S : IsFiniteSet(s) /\ Cardinality(s) \in 0 .. N
  BY FS_CardinalityType, FS_Subset
<1>0. \A s \in SUBSET S : h[s] \in Int BY SumsTyped
<1>2. 0 \in H
  <2> SUFFICES ASSUME NEW s \in SUBSET S, Cardinality(s) = 0 PROVE s = {} BY <1>1
  <2> QED BY <1>1, FS_EmptySet
<1>3. ASSUME NEW n \in 1 .. N, n - 1 \in H PROVE n \in H
  <2> SUFFICES ASSUME NEW s \in SUBSET S, Cardinality(s) = n, NEW x \in s
               PROVE h[s] = g[x] + h[s \ {x}] BY <1>1
  <2> DEFINE c == Pick(s)
             r == s \ {c}
             q == s \ {x}
  <2>1. s # {} /\ c \in s /\ c \in S /\ x \in S BY DEF Pick
  <2>2. r \in SUBSET S /\ Cardinality(r) = n - 1 BY <1>1, <2>1, FS_RemoveElement
  <2>3. q \in SUBSET S /\ Cardinality(q) = n - 1 BY <1>1, FS_RemoveElement
  <2>4. h[s] = g[c] + h[r] BY <2>1 DEF Sums
  <2>5. CASE x = c BY <2>4, <2>5
  <2>6. CASE x # c
    <3>1. h[r] = g[x] + h[r \ {x}] BY <1>3, <2>2, <2>6
    <3>2. h[q] = g[c] + h[q \ {c}] BY <1>3, <2>3, <2>6, <2>1
    <3>3. r \ {x} = q \ {c} OBVIOUS
    <3> DEFINE a == g[c] b == g[x] m == h[q \ {c}]
    <3>4. a \in Int /\ b \in Int BY <2>1
    <3>5. m \in Int
      <4>1. q \ {c} \in SUBSET S OBVIOUS
      <4> QED BY <1>0, <4>1
    <3>6. h[s] = a + (b + m) /\ h[q] = a + m BY <2>4, <3>1, <3>2, <3>3
    <3> HIDE DEF a, b, m
    <3>7. h[s] = b + h[q] BY <3>4, <3>5, <3>6
    <3> QED BY <3>7 DEF b
  <2> QED BY <2>5, <2>6
<1>4. \A n \in 0 .. N : n \in H
  <2>1. \A n \in 1 .. N : n - 1 \in H => n \in H BY <1>3
  <2> HIDE DEF H, N
  <2> QED BY <1>1, <1>2, <2>1, Upwards
<1>5. N \in H /\ S \in SUBSET S
  <2> HIDE DEF H, N
  <2> QED BY <1>1, <1>4
<1> QED BY <1>5

LEMMA SumOfIs ==
    ASSUME NEW S, IsFiniteSet(S), NEW g, NEW h, Sums(h, g, S)
    PROVE  SumOf(g, S) = h[S]
<1>1. \A k : Sums(k, g, S) => k[S] = h[S]
  <2> SUFFICES ASSUME NEW k, Sums(k, g, S) PROVE k[S] = h[S] OBVIOUS
  <2> QED BY SumsAgree
<1> DEFINE P(v) == \E k : Sums(k, g, S) /\ v = k[S]
<1>2. P(h[S]) OBVIOUS
<1>3. P(SumOf(g, S)) BY <1>2, Zenon DEF SumOf
<1> QED BY <1>1, <1>3

LEMMA SumOfType ==
    ASSUME NEW S, IsFiniteSet(S), NEW g, \A x \in S : g[x] \in Int
    PROVE  SumOf(g, S) \in Int
<1>1. PICK h \in [SUBSET S -> Int] : Sums(h, g, S) BY SumsExist
<1>2. SumOf(g, S) = h[S] BY <1>1, SumOfIs
<1> QED BY <1>1, <1>2

LEMMA SumOfNone ==
    ASSUME NEW g
    PROVE  SumOf(g, {}) = 0
<1>1. IsFiniteSet({}) BY FS_EmptySet
<1>2. PICK h : Sums(h, g, {}) BY <1>1, SumsExist
<1>3. SumOf(g, {}) = h[{}] BY <1>1, <1>2, SumOfIs
<1> QED BY <1>2, <1>3 DEF Sums

LEMMA SumOfMore ==
    ASSUME NEW S, IsFiniteSet(S), NEW e, e \notin S, NEW f, NEW g,
           \A x \in S : f[x] \in Int /\ f[x] = g[x], g[e] \in Int
    PROVE  SumOf(g, S \cup {e}) = SumOf(f, S) + g[e]
<1> DEFINE T == S \cup {e}
<1>1. IsFiniteSet(T) BY FS_AddElement
<1>2. \A x \in T : g[x] \in Int OBVIOUS
<1>3. e \in T /\ T \ {e} = S /\ S \subseteq T OBVIOUS
<1> HIDE DEF T
<1>4. PICK h : Sums(h, g, T) BY <1>1, <1>2, SumsExist
<1>5. PICK k : Sums(k, f, S) BY SumsExist
<1>6. h[T] = g[e] + h[T \ {e}] BY <1>1, <1>2, <1>3, <1>4, SumsRemove
<1>7. h[S] = k[S]
  <2>1. \A x \in S : f[x] = g[x] OBVIOUS
  <2>2. \A s \in SUBSET S : h[s] = k[s] BY <1>3, <1>4, <1>5, <2>1, SumsAgree
  <2> QED BY <2>2
<1>8. SumOf(g, T) = h[T] /\ SumOf(f, S) = k[S] BY <1>1, <1>4, <1>5, SumOfIs
<1>9. g[e] \in Int /\ k[S] \in Int
  <2>1. SumOf(f, S) \in Int BY SumOfType
  <2> QED BY <1>8, <2>1
<1>10. SumOf(g, T) = SumOf(f, S) + g[e]
  <2>1. SumOf(g, T) = g[e] + k[S] BY <1>3, <1>6, <1>7, <1>8
  <2> QED BY <1>8, <1>9, <2>1
<1> QED BY <1>10 DEF T

LEMMA SumOfSame ==
    ASSUME NEW S, IsFiniteSet(S), NEW f, NEW g, \A x \in S : f[x] \in Int /\ f[x] = g[x]
    PROVE  SumOf(g, S) = SumOf(f, S)
<1>1. PICK h : Sums(h, g, S)
  <2>1. \A x \in S : g[x] \in Int OBVIOUS
  <2> QED BY <2>1, SumsExist
<1>2. PICK k : Sums(k, f, S) BY SumsExist
<1>3. h[S] = k[S] BY <1>1, <1>2, SumsAgree
<1>4. SumOf(g, S) = h[S] BY <1>1, SumOfIs
<1>5. SumOf(f, S) = k[S] BY <1>2, SumOfIs
<1> QED BY <1>3, <1>4, <1>5

(* The sums of the library over the values that an operator gives.         *)
LEMMA SumOfSeconds ==
    ASSUME NEW S, IsFiniteSet(S), \A x \in S : x[2] \in Int
    PROVE  MapThenSumSet(LAMBDA x : x[2], S) = SumOf([x \in S |-> x[2]], S)
<1> DEFINE g == [x \in S |-> x[2]]
<1>1. PICK h \in [SUBSET S -> Int] : Sums(h, g, S) BY SumsExist
<1>2. SumOf(g, S) = h[S] BY <1>1, SumOfIs
<1>3. \A s \in SUBSET S : s # {} => g[Pick(s)] = (Pick(s))[2] BY DEF Pick
<1>4. h = [s \in SUBSET S |-> IF s = {} THEN 0 ELSE (Pick(s))[2] + h[s \ {Pick(s)}]]
  BY <1>1, <1>3 DEF Sums
<1> DEFINE Is(i) == i = [s \in SUBSET S |-> IF s = {} THEN 0 ELSE (Pick(s))[2] + i[s \ {Pick(s)}]]
           iter == CHOOSE i : Is(i)
<1>5. MapThenSumSet(LAMBDA x : x[2], S) = iter[S]
  BY DEF MapThenSumSet, MapThenFoldSet, Pick
<1>6. Is(iter) 
  <2> HIDE DEF Is
  <2>1. Is(h) BY <1>4 DEF Is
  <2> QED BY <2>1, Zenon
<1>7. Sums(iter, g, S)
  <2> HIDE DEF iter, g
  <2> QED BY <1>3, <1>6 DEF Sums
<1>8. SumOf(g, S) = iter[S]
  <2> HIDE DEF iter, g
  <2> QED BY <1>7, SumOfIs
<1> QED BY <1>5, <1>8

LEMMA MinUnique ==
    ASSUME NEW S, NEW x \in S, S \subseteq Int, \A m \in S : x <= m
    PROVE  Min(S) = x
<1>1. Min(S) \in S /\ \A m \in S : Min(S) <= m BY Zenon DEF Min
<1>2. Min(S) \in Int /\ x \in Int /\ Min(S) <= x /\ x <= Min(S) BY <1>1
<1> HIDE DEF Min
<1> QED BY <1>2
=============================================================================
