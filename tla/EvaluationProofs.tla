----------------------------- MODULE EvaluationProofs -----------------------------
(***************************************************************************)
(* The incremental evaluation of findings gives what the batch evaluation  *)
(* gives, for every set of targets, every choice of expectations and every *)
(* sequence of findings and failures.  The argument: an assignment that    *)
(* wastes nothing (Greedy) is unique; the three phases of the batch        *)
(* matching compute one, and so does matching findings as they come.       *)
(***************************************************************************)
EXTENDS StreamingEvaluation, InductionLemmas, SequenceTheorems, TLAPS

-----------------------------------------------------------------------------
(* The least of a set of naturals.                                           *)
LEMMA LeastIs ==
    ASSUME NEW S \in SUBSET Nat, S # {}
    PROVE  Least(S) \in S /\ \A m \in S : Least(S) <= m
<1>1. \E n \in S : \A m \in S : n <= m BY LeastNat
<1> QED BY <1>1, Zenon DEF Least

-----------------------------------------------------------------------------
(* Findings, expectations and the order in which an expectation would take   *)
(* the findings of its identity.                                             *)
Identities == [position : Nat, target : Targets]
Findings == [identity : Identities, decision : Decisions]
Expectations == [identity : Identities, positive : BOOLEAN]

Given(F, E) == F \in Seq(Findings) /\ E \in Seq(Expectations) /\ Admissible(E)

Rank(x, decision) ==
    IF decision = Wanted(x, 1) THEN 1 ELSE IF decision = Wanted(x, 2) THEN 2 ELSE 3

RankOf(F, E, a, e) == Rank(E[e], F[a].decision)

Meets(F, E, a, e) == F[a].identity = E[e].identity

Sooner(F, E, b, a, e) ==
    \/ RankOf(F, E, b, e) < RankOf(F, E, a, e)
    \/ RankOf(F, E, b, e) = RankOf(F, E, a, e) /\ b < a

LEMMA WantedDecisions ==
    ASSUME NEW x \in Expectations
    PROVE  /\ Wanted(x, 1) = Required(x) /\ Wanted(x, 2) = Opposite(x)
           /\ Wanted(x, 3) = "not_evaluable"
           /\ {Required(x), Opposite(x)} = {"match", "no_match"}
           /\ Required(x) # Opposite(x)
<1>1. x.positive \in BOOLEAN BY DEF Expectations
<1>2. /\ Wanted(x, 1) = Required(x) /\ Wanted(x, 2) = Opposite(x)
      /\ Wanted(x, 3) = "not_evaluable"
  BY DEF Wanted
<1>3. CASE x.positive = TRUE
  <2>1. Required(x) = "match" /\ Opposite(x) = "no_match" BY <1>3 DEF Required, Opposite
  <2> QED BY <1>2, <2>1
<1>4. CASE x.positive = FALSE
  <2>1. Required(x) = "no_match" /\ Opposite(x) = "match" BY <1>4 DEF Required, Opposite
  <2> QED BY <1>2, <2>1
<1> QED BY <1>1, <1>3, <1>4

LEMMA RankIs ==
    ASSUME NEW x \in Expectations, NEW decision \in Decisions
    PROVE  /\ Rank(x, decision) \in 1 .. 3
           /\ \A p \in 1 .. 3 : decision = Wanted(x, p) <=> Rank(x, decision) = p
           /\ Rank(x, decision) = 1 <=> decision = Required(x)
<1>1. /\ Wanted(x, 1) = Required(x) /\ Wanted(x, 2) = Opposite(x)
      /\ Wanted(x, 3) = "not_evaluable"
      /\ {Required(x), Opposite(x)} = {"match", "no_match"}
      /\ Required(x) # Opposite(x)
  BY WantedDecisions
<1>2. decision \in {Wanted(x, 1), Wanted(x, 2), Wanted(x, 3)} BY <1>1 DEF Decisions
<1>3. Wanted(x, 1) # Wanted(x, 2) /\ Wanted(x, 1) # Wanted(x, 3) /\ Wanted(x, 2) # Wanted(x, 3)
  BY <1>1
<1>4. /\ Rank(x, decision) \in {1, 2, 3}
      /\ decision = Wanted(x, 1) <=> Rank(x, decision) = 1
      /\ decision = Wanted(x, 2) <=> Rank(x, decision) = 2
      /\ decision = Wanted(x, 3) <=> Rank(x, decision) = 3
  BY <1>2, <1>3 DEF Rank
<1>5. \A p \in 1 .. 3 : p = 1 \/ p = 2 \/ p = 3 OBVIOUS
<1> QED BY <1>1, <1>4, <1>5

(* Expectations of one identity would take findings in the same order.       *)
LEMMA SameRank ==
    ASSUME NEW E \in Seq(Expectations), Admissible(E), NEW e \in DOMAIN E, NEW g \in DOMAIN E,
           E[e].identity = E[g].identity, NEW decision
    PROVE  Rank(E[e], decision) = Rank(E[g], decision)
<1>1. E[e].positive = E[g].positive BY Zenon DEF Admissible
<1>2. Required(E[e]) = Required(E[g]) BY <1>1, Zenon DEF Required
<1>3. Opposite(E[e]) = Opposite(E[g]) BY <1>1, Zenon DEF Opposite
<1>4. E[e] \in Expectations /\ E[g] \in Expectations OBVIOUS
<1>5. Wanted(E[e], 1) = Wanted(E[g], 1) /\ Wanted(E[e], 2) = Wanted(E[g], 2)
  BY <1>2, <1>3, <1>4, WantedDecisions
<1> QED BY <1>5, Zenon DEF Rank

(* What is known of the numbers and ranks of findings and expectations.      *)
LEMMA Ranks ==
    ASSUME NEW F, NEW E, Given(F, E)
    PROVE  /\ Len(E) \in Nat /\ DOMAIN E = 1 .. Len(E)
           /\ Len(F) \in Nat /\ DOMAIN F = 1 .. Len(F)
           /\ \A a \in DOMAIN F, e \in DOMAIN E :
                  /\ RankOf(F, E, a, e) \in 1 .. 3
                  /\ \A p \in 1 .. 3 : F[a].decision = Wanted(E[e], p) <=> RankOf(F, E, a, e) = p
                  /\ RankOf(F, E, a, e) = 1 <=> F[a].decision = Required(E[e])
           /\ \A a, b \in DOMAIN F, e, g \in DOMAIN E :
                  Meets(F, E, a, e) /\ Meets(F, E, a, g) =>
                      /\ RankOf(F, E, b, e) = RankOf(F, E, b, g)
                      /\ Meets(F, E, b, e) <=> Meets(F, E, b, g)
<1>1. F \in Seq(Findings) /\ E \in Seq(Expectations) /\ Admissible(E) BY DEF Given
<1>2. /\ Len(E) \in Nat /\ DOMAIN E = 1 .. Len(E)
      /\ Len(F) \in Nat /\ DOMAIN F = 1 .. Len(F)
  BY <1>1
<1>3. ASSUME NEW a \in DOMAIN F, NEW e \in DOMAIN E
      PROVE  /\ RankOf(F, E, a, e) \in 1 .. 3
             /\ \A p \in 1 .. 3 : F[a].decision = Wanted(E[e], p) <=> RankOf(F, E, a, e) = p
             /\ RankOf(F, E, a, e) = 1 <=> F[a].decision = Required(E[e])
  <2>1. F[a] \in Findings /\ E[e] \in Expectations BY <1>1
  <2>2. F[a].decision \in Decisions BY <2>1 DEF Findings
  <2> QED BY <2>1, <2>2, RankIs DEF RankOf
<1>4. ASSUME NEW a \in DOMAIN F, NEW b \in DOMAIN F, NEW e \in DOMAIN E, NEW g \in DOMAIN E,
             Meets(F, E, a, e), Meets(F, E, a, g)
      PROVE  /\ RankOf(F, E, b, e) = RankOf(F, E, b, g)
             /\ Meets(F, E, b, e) <=> Meets(F, E, b, g)
  <2>1. E[e].identity = E[g].identity BY <1>4 DEF Meets
  <2>2. RankOf(F, E, b, e) = RankOf(F, E, b, g) BY <1>1, <2>1, SameRank DEF RankOf
  <2> QED BY <2>1, <2>2 DEF Meets
<1> QED BY <1>2, <1>3, <1>4

LEMMA RankOne ==
    ASSUME NEW F, NEW E, Given(F, E), NEW a \in DOMAIN F, NEW e \in DOMAIN E,
           F[a].decision = Required(E[e])
    PROVE  RankOf(F, E, a, e) = 1
BY Ranks

-----------------------------------------------------------------------------
(* One phase of the batch matching.                                          *)
Assignments(F, E) == [DOMAIN F -> 0 .. Len(E)]

LEMMA AssignedIn ==
    ASSUME NEW F, NEW E, Given(F, E), NEW A \in Assignments(F, E), NEW e \in DOMAIN E
    PROVE  e \in Assigned(A) <=> \E a \in DOMAIN F : A[a] = e
<1>1. DOMAIN A = DOMAIN F BY DEF Assignments
<1>2. e # 0 BY Ranks
<1> QED BY <1>1, <1>2 DEF Assigned

LEMMA CandidatesIn ==
    ASSUME NEW F, NEW E, Given(F, E), NEW A \in Assignments(F, E), NEW e \in DOMAIN E,
           NEW p \in 1 .. 3
    PROVE  LET S == Candidates(F, E[e], p, A) IN
           /\ S \in SUBSET Nat /\ S \subseteq DOMAIN F
           /\ \A a \in DOMAIN F :
                  a \in S <=> A[a] = 0 /\ Meets(F, E, a, e) /\ RankOf(F, E, a, e) = p
<1>1. DOMAIN F = 1 .. Len(F) /\ Len(F) \in Nat BY Ranks
<1>2. Candidates(F, E[e], p, A) \subseteq DOMAIN F BY DEF Candidates
<1>3. \A a \in DOMAIN F : F[a].decision = Wanted(E[e], p) <=> RankOf(F, E, a, e) = p
  BY Ranks
<1>4. \A a \in DOMAIN F :
          a \in Candidates(F, E[e], p, A)
              <=> A[a] = 0 /\ Meets(F, E, a, e) /\ RankOf(F, E, a, e) = p
  BY <1>3 DEF Candidates, Meets
<1> QED BY <1>1, <1>2, <1>4

LEMMA TurnType ==
    ASSUME NEW F, NEW E, Given(F, E), NEW U, NEW p \in 1 .. 3,
           NEW A \in Assignments(F, E), NEW e \in DOMAIN E
    PROVE  Turn(F, E, U, p, A, e) \in Assignments(F, E)
<1> DEFINE S == Candidates(F, E[e], p, A)
<1>1. Turn(F, E, U, p, A, e) = A \/ Turn(F, E, U, p, A, e) = [A EXCEPT ![Least(S)] = e]
  BY DEF Turn
<1>2. e \in 0 .. Len(E) BY Ranks
<1>3. [A EXCEPT ![Least(S)] = e] \in Assignments(F, E)
  <2> HIDE DEF S
  <2> QED BY <1>2 DEF Assignments
<1> QED BY <1>1, <1>3

AfterTurns(F, E, U, p, B, g) ==
    /\ g[0] = B
    /\ \A e \in 1 .. Len(E) : g[e] = Turn(F, E, U, p, g[e - 1], e)

LEMMA TurnsDef ==
    ASSUME NEW F, NEW E, Given(F, E), NEW U, NEW p \in 1 .. 3,
           NEW B \in Assignments(F, E)
    PROVE  AfterTurns(F, E, U, p, B, Turns(F, E, U, p, B))
<1> DEFINE n == Len(E)
           S == Assignments(F, E)
           step == [e \in 1 .. n |-> [A \in S |-> Turn(F, E, U, p, A, e)]]
           T == Turns(F, E, U, p, B)
<1>1. n \in Nat /\ DOMAIN E = 1 .. n BY Ranks
<1>2. \A e \in 1 .. n : \A A \in S : Turn(F, E, U, p, A, e) \in S BY <1>1, TurnType
<1>3. step \in [1 .. n -> [S -> S]] BY <1>2
<1>4. PICK g \in [0 .. n -> S] : g[0] = B /\ \A k \in 1 .. n : g[k] = step[k][g[k - 1]]
  <2> HIDE DEF step, S, n
  <2>1. B \in S BY DEF S
  <2>2. n \in Nat BY <1>1
  <2>3. Iterated(n, S, B, step) BY <1>3, <2>1, <2>2, Iteration
  <2> QED BY <2>3, Zenon DEF Iterated
<1>5. ASSUME NEW k \in 1 .. n PROVE g[k] = Turn(F, E, U, p, g[k - 1], k)
  <2>1. k - 1 \in 0 .. n BY <1>1
  <2>2. g[k - 1] \in S BY <1>4, <2>1
  <2>3. step[k][g[k - 1]] = Turn(F, E, U, p, g[k - 1], k) BY <2>2
  <2> QED BY <1>4, <2>3
<1>6. g = [e \in 0 .. n |-> IF e = 0 THEN B ELSE Turn(F, E, U, p, g[e - 1], e)]
  <2> HIDE DEF step, S
  <2>1. \A e \in 0 .. n : e = 0 \/ e \in 1 .. n BY <1>1
  <2>2. \A e \in 0 .. n : g[e] = IF e = 0 THEN B ELSE Turn(F, E, U, p, g[e - 1], e)
    BY <1>4, <1>5, <2>1
  <2> QED BY <1>4, <2>2
<1>7. T = [e \in 0 .. n |-> IF e = 0 THEN B ELSE Turn(F, E, U, p, T[e - 1], e)]
  BY <1>6, Zenon DEF Turns
<1> HIDE DEF T
<1>8. T[0] = B
  <2>1. 0 \in 0 .. n BY <1>1
  <2> QED BY <1>7, <2>1
<1>9. \A e \in 1 .. n : T[e] = Turn(F, E, U, p, T[e - 1], e)
  <2>1. \A e \in 1 .. n : e \in 0 .. n /\ e # 0 BY <1>1
  <2> QED BY <1>7, <2>1
<1> QED BY <1>8, <1>9 DEF T, AfterTurns

(* The state of the matching after n turns of phase p.  The findings of one  *)
(* identity are assigned in the order of their ranks and then their own, to  *)
(* the expectations in theirs.                                               *)
Proper(F, E, U, A) ==
    /\ A \in Assignments(F, E)
    /\ \A a \in DOMAIN F : A[a] # 0 => A[a] \notin U /\ Meets(F, E, a, A[a])
    /\ \A a, b \in DOMAIN F : A[a] # 0 /\ A[a] = A[b] => a = b

InOrder(F, E, A) ==
    \A a, b \in DOMAIN F :
        A[a] # 0 /\ Meets(F, E, b, A[a]) /\ Sooner(F, E, b, a, A[a]) => A[b] # 0 /\ A[b] < A[a]

Done(F, E, p, n, A) ==
    \A a \in DOMAIN F : A[a] # 0 =>
        \/ RankOf(F, E, a, A[a]) < p
        \/ RankOf(F, E, a, A[a]) = p /\ A[a] <= n

Passed(F, E, U, p, n, A) ==
    \A e \in DOMAIN E \ U, a \in DOMAIN F :
        /\ \A b \in DOMAIN F : A[b] # e
        /\ Meets(F, E, a, e)
        /\ RankOf(F, E, a, e) < p \/ (RankOf(F, E, a, e) = p /\ e <= n)
        => A[a] # 0 /\ A[a] < e

Matching(F, E, U, p, n, A) ==
    Proper(F, E, U, A) /\ InOrder(F, E, A) /\ Done(F, E, p, n, A) /\ Passed(F, E, U, p, n, A)

(* The turn leaves the assignment as it is: the expectation is used or met,  *)
(* or every finding it could take has been taken.                            *)
LEMMA TurnPassed ==
    ASSUME NEW F, NEW E, Given(F, E), NEW U, NEW p \in 1 .. 3, NEW n \in DOMAIN E, NEW A,
           Matching(F, E, U, p, n - 1, A),
           n \in U \cup Assigned(A) \/ Candidates(F, E[n], p, A) = {}
    PROVE  Matching(F, E, U, p, n, A)
<1>1. /\ A \in Assignments(F, E) /\ DOMAIN E = 1 .. Len(E) /\ Len(E) \in Nat /\ n \in Nat
      /\ \A a \in DOMAIN F : A[a] \in 0 .. Len(E)
  BY Ranks DEF Matching, Proper, Assignments
<1>2. \A a \in DOMAIN F : A[a] # 0 => A[a] \in DOMAIN E BY <1>1
<1>3. Done(F, E, p, n, A)
  <2>1. \A a \in DOMAIN F : A[a] <= n - 1 => A[a] <= n BY <1>1
  <2> QED BY <2>1, Zenon DEF Matching, Done
<1>4. ASSUME NEW e \in DOMAIN E \ U, NEW a \in DOMAIN F, \A b \in DOMAIN F : A[b] # e,
             Meets(F, E, a, e), RankOf(F, E, a, e) < p \/ (RankOf(F, E, a, e) = p /\ e <= n)
      PROVE  A[a] # 0 /\ A[a] < e
  <2>1. CASE RankOf(F, E, a, e) < p \/ (RankOf(F, E, a, e) = p /\ e <= n - 1)
    BY <1>4, <2>1, Zenon DEF Matching, Passed
  <2>2. CASE RankOf(F, E, a, e) = p /\ e = n
    <3>1. n \notin U \cup Assigned(A) BY <1>1, <1>4, <2>2, AssignedIn
    <3>2. Candidates(F, E[n], p, A) = {} BY <3>1
    <3>3. A[a] # 0 BY <1>1, <1>4, <2>2, <3>2, CandidatesIn
    <3>4. A[a] \in DOMAIN E /\ Meets(F, E, a, A[a])
      BY <1>2, <3>3 DEF Matching, Proper
    <3>5. RankOf(F, E, a, A[a]) = p BY <1>4, <2>2, <3>4, Ranks
    <3>6. A[a] <= n - 1
      <4>1. \/ RankOf(F, E, a, A[a]) < p
            \/ RankOf(F, E, a, A[a]) = p /\ A[a] <= n - 1
        BY <3>3, Zenon DEF Matching, Done
      <4> QED BY <3>5, <4>1
    <3> QED BY <1>1, <2>2, <3>3, <3>4, <3>6
  <2> QED BY <1>1, <1>4, <2>1, <2>2
<1>5. Passed(F, E, U, p, n, A) BY <1>4, Zenon DEF Passed
<1> QED BY <1>3, <1>5 DEF Matching

(* The turn gives the expectation the first of its candidates.               *)
LEMMA TurnTaken ==
    ASSUME NEW F, NEW E, Given(F, E), NEW U, NEW p \in 1 .. 3, NEW n \in DOMAIN E, NEW A,
           Matching(F, E, U, p, n - 1, A), n \notin U \cup Assigned(A),
           NEW c \in Candidates(F, E[n], p, A), \A a \in Candidates(F, E[n], p, A) : c <= a
    PROVE  Matching(F, E, U, p, n, [A EXCEPT ![c] = n])
<1> DEFINE B == [A EXCEPT ![c] = n]
<1>1. /\ A \in Assignments(F, E) /\ DOMAIN E = 1 .. Len(E) /\ Len(E) \in Nat /\ n \in Nat
      /\ DOMAIN F = 1 .. Len(F) /\ Len(F) \in Nat
      /\ \A a \in DOMAIN F : A[a] \in 0 .. Len(E)
  BY Ranks DEF Matching, Proper, Assignments
<1>2. \A a \in DOMAIN F : A[a] # 0 => A[a] \in DOMAIN E /\ A[a] \notin U /\ Meets(F, E, a, A[a])
  BY <1>1 DEF Matching, Proper
<1>3. c \in DOMAIN F /\ A[c] = 0 /\ Meets(F, E, c, n) /\ RankOf(F, E, c, n) = p
  BY <1>1, CandidatesIn
<1>4. \A a \in DOMAIN F : A[a] = 0 /\ Meets(F, E, a, n) /\ RankOf(F, E, a, n) = p => c <= a
  BY <1>1, CandidatesIn
<1>5. n \notin U /\ \A a \in DOMAIN F : A[a] # n BY <1>1, AssignedIn
<1>6. /\ B \in Assignments(F, E) /\ B[c] = n
      /\ \A a \in DOMAIN F : a # c => B[a] = A[a]
  BY <1>1, <1>3 DEF Assignments
<1> HIDE DEF B
<1>7. Proper(F, E, U, B)
  <2>1. \A a \in DOMAIN F : B[a] # 0 => B[a] \notin U /\ Meets(F, E, a, B[a])
    BY <1>2, <1>3, <1>5, <1>6
  <2>2. \A a, b \in DOMAIN F : B[a] # 0 /\ B[a] = B[b] => a = b
    <3>1. \A a, b \in DOMAIN F : A[a] # 0 /\ A[a] = A[b] => a = b BY DEF Matching, Proper
    <3> QED BY <1>5, <1>6, <3>1
  <2> QED BY <1>6, <2>1, <2>2, Zenon DEF Proper
<1>8. ASSUME NEW a \in DOMAIN F, a # c, A[a] # 0
      PROVE  \/ RankOf(F, E, a, A[a]) < p
             \/ RankOf(F, E, a, A[a]) = p /\ A[a] <= n - 1
  BY <1>8, Zenon DEF Matching, Done
<1>9. Done(F, E, p, n, B)
  <2>1. ASSUME NEW a \in DOMAIN F, B[a] # 0
        PROVE  \/ RankOf(F, E, a, B[a]) < p
               \/ RankOf(F, E, a, B[a]) = p /\ B[a] <= n
    BY <1>1, <1>3, <1>6, <1>8, <2>1
  <2> QED BY <2>1, Zenon DEF Done
<1>10. InOrder(F, E, B)
  <2>1. ASSUME NEW b \in DOMAIN F, Meets(F, E, b, n), Sooner(F, E, b, c, n)
        PROVE  A[b] # 0 /\ A[b] < n
    <3>1. RankOf(F, E, b, n) < p \/ (RankOf(F, E, b, n) = p /\ b < c)
      BY <1>3, <2>1 DEF Sooner
    <3>2. CASE RankOf(F, E, b, n) < p
      <4>1. n \in DOMAIN E \ U BY <1>5
      <4> QED BY <1>5, <2>1, <3>2, <4>1, Zenon DEF Matching, Passed
    <3>3. CASE RankOf(F, E, b, n) = p /\ b < c
      <4>1. A[b] # 0 BY <1>1, <1>3, <1>4, <2>1, <3>3
      <4>2. A[b] \in DOMAIN E /\ Meets(F, E, b, A[b]) BY <1>2, <4>1
      <4>3. RankOf(F, E, b, A[b]) = p BY <2>1, <3>3, <4>2, Ranks
      <4>4. A[b] <= n - 1 BY <1>3, <1>8, <4>1, <4>3
      <4> QED BY <1>1, <4>1, <4>2, <4>4
    <3> QED BY <3>1, <3>2, <3>3
  <2>2. ASSUME NEW a \in DOMAIN F, NEW b \in DOMAIN F, B[a] # 0,
               Meets(F, E, b, B[a]), Sooner(F, E, b, a, B[a])
        PROVE  B[b] # 0 /\ B[b] < B[a]
    <3>1. CASE a = c
      <4>1. A[b] # 0 /\ A[b] < n BY <1>6, <2>1, <2>2, <3>1
      <4>2. b # c BY <1>3, <4>1
      <4> QED BY <1>6, <3>1, <4>1, <4>2
    <3>2. CASE a # c
      <4>1. B[a] = A[a] BY <1>6, <3>2
      <4>2. A[b] # 0 /\ A[b] < A[a] BY <2>2, <4>1, Zenon DEF Matching, InOrder
      <4>3. b # c BY <1>3, <4>2
      <4> QED BY <1>6, <4>1, <4>2, <4>3
    <3> QED BY <3>1, <3>2
  <2> QED BY <2>2, Zenon DEF InOrder
<1>11. Passed(F, E, U, p, n, B)
  <2>1. ASSUME NEW e \in DOMAIN E \ U, NEW a \in DOMAIN F, \A b \in DOMAIN F : B[b] # e,
               Meets(F, E, a, e), RankOf(F, E, a, e) < p \/ (RankOf(F, E, a, e) = p /\ e <= n)
        PROVE  B[a] # 0 /\ B[a] < e
    <3>1. e # n BY <1>3, <1>6, <2>1
    <3>2. \A b \in DOMAIN F : A[b] # e
      <4>1. A[c] # e BY <1>1, <1>3
      <4> QED BY <1>6, <2>1, <4>1
    <3>3. RankOf(F, E, a, e) < p \/ (RankOf(F, E, a, e) = p /\ e <= n - 1)
      BY <1>1, <2>1, <3>1
    <3>4. A[a] # 0 /\ A[a] < e BY <2>1, <3>2, <3>3, Zenon DEF Matching, Passed
    <3>5. a # c BY <1>3, <3>4
    <3> QED BY <1>6, <3>4, <3>5
  <2> QED BY <2>1, Zenon DEF Passed
<1>12. Matching(F, E, U, p, n, B) BY <1>7, <1>9, <1>10, <1>11 DEF Matching
<1> QED BY <1>12 DEF B

LEMMA TurnMatches ==
    ASSUME NEW F, NEW E, Given(F, E), NEW U, NEW p \in 1 .. 3, NEW n \in DOMAIN E, NEW A,
           Matching(F, E, U, p, n - 1, A)
    PROVE  Matching(F, E, U, p, n, Turn(F, E, U, p, A, n))
<1> DEFINE S == Candidates(F, E[n], p, A)
<1>1. CASE n \in U \cup Assigned(A) \/ S = {}
  <2>1. Turn(F, E, U, p, A, n) = A BY <1>1, Zenon DEF Turn
  <2> QED BY <1>1, <2>1, TurnPassed
<1>2. CASE ~(n \in U \cup Assigned(A) \/ S = {})
  <2>1. Turn(F, E, U, p, A, n) = [A EXCEPT ![Least(S)] = n] BY <1>2, Zenon DEF Turn
  <2>2. A \in Assignments(F, E) BY DEF Matching, Proper
  <2>3. S \in SUBSET Nat /\ S # {} BY <1>2, <2>2, CandidatesIn
  <2>4. Least(S) \in S /\ \A a \in S : Least(S) <= a
    <3> HIDE DEF S
    <3> QED BY <2>3, LeastIs
  <2>5. n \notin U \cup Assigned(A) BY <1>2
  <2>6. Matching(F, E, U, p, n, [A EXCEPT ![Least(S)] = n]) BY <2>4, <2>5, TurnTaken
  <2> QED BY <2>1, <2>6
<1> QED BY <1>1, <1>2

LEMMA PhaseMatches ==
    ASSUME NEW F, NEW E, Given(F, E), NEW U, NEW p \in 1 .. 3, NEW A,
           Matching(F, E, U, p, 0, A)
    PROVE  Matching(F, E, U, p, Len(E), Phase(F, E, U, p, A))
<1> DEFINE T == Turns(F, E, U, p, A)
           R == {n \in 0 .. Len(E) : Matching(F, E, U, p, n, T[n])}
<1>1. Len(E) \in Nat /\ DOMAIN E = 1 .. Len(E) /\ A \in Assignments(F, E)
  BY Ranks DEF Matching, Proper
<1>2. T[0] = A /\ \A n \in 1 .. Len(E) : T[n] = Turn(F, E, U, p, T[n - 1], n)
  <2>1. AfterTurns(F, E, U, p, A, T) BY <1>1, TurnsDef
  <2> QED BY <2>1, Zenon DEF AfterTurns
<1> HIDE DEF T
<1>3. 0 \in R BY <1>1, <1>2
<1>4. \A n \in 1 .. Len(E) : n - 1 \in R => n \in R
  <2>1. ASSUME NEW n \in 1 .. Len(E), n - 1 \in R PROVE n \in R
    <3>1. Matching(F, E, U, p, n - 1, T[n - 1]) BY <2>1
    <3>2. Matching(F, E, U, p, n, Turn(F, E, U, p, T[n - 1], n)) BY <1>1, <3>1, TurnMatches
    <3> QED BY <1>1, <1>2, <3>2
  <2> QED BY <2>1
<1> HIDE DEF R
<1>5. Len(E) \in R
  <2>1. \A n \in 0 .. Len(E) : n \in R BY <1>1, <1>3, <1>4, Upwards
  <2> QED BY <1>1, <2>1
<1> QED BY <1>5 DEF R, T, Phase

LEMMA NextPhase ==
    ASSUME NEW F, NEW E, Given(F, E), NEW U, NEW p \in 1 .. 3, NEW A,
           Matching(F, E, U, p, Len(E), A)
    PROVE  Matching(F, E, U, p + 1, 0, A)
<1>1. /\ Len(E) \in Nat /\ DOMAIN E = 1 .. Len(E)
      /\ \A a \in DOMAIN F : A[a] \in 0 .. Len(E)
  BY Ranks DEF Matching, Proper, Assignments
<1>2. \A a \in DOMAIN F, e \in DOMAIN E : RankOf(F, E, a, e) \in 1 .. 3 BY Ranks
<1>3. Done(F, E, p + 1, 0, A)
  <2>1. ASSUME NEW a \in DOMAIN F, A[a] # 0
        PROVE  RankOf(F, E, a, A[a]) < p + 1
    <3>1. A[a] \in DOMAIN E BY <1>1, <2>1
    <3>2. RankOf(F, E, a, A[a]) < p \/ RankOf(F, E, a, A[a]) = p
      BY <2>1, Zenon DEF Matching, Done
    <3> QED BY <1>2, <3>1, <3>2
  <2> QED BY <2>1, Zenon DEF Done
<1>4. Passed(F, E, U, p + 1, 0, A)
  <2>1. ASSUME NEW e \in DOMAIN E \ U, NEW a \in DOMAIN F, \A b \in DOMAIN F : A[b] # e,
               Meets(F, E, a, e),
               RankOf(F, E, a, e) < p + 1 \/ (RankOf(F, E, a, e) = p + 1 /\ e <= 0)
        PROVE  A[a] # 0 /\ A[a] < e
    <3>1. RankOf(F, E, a, e) < p \/ (RankOf(F, E, a, e) = p /\ e <= Len(E))
      BY <1>1, <1>2, <2>1
    <3> QED BY <2>1, <3>1, Zenon DEF Matching, Passed
  <2> QED BY <2>1, Zenon DEF Passed
<1> QED BY <1>3, <1>4 DEF Matching

-----------------------------------------------------------------------------
(* An assignment that wastes nothing, and that there is only one.            *)
Greedy(F, E, U, A) ==
    /\ Proper(F, E, U, A)
    /\ InOrder(F, E, A)
    /\ \A e \in DOMAIN E \ U, a \in DOMAIN F :
           (\A b \in DOMAIN F : A[b] # e) /\ Meets(F, E, a, e) => A[a] # 0 /\ A[a] < e

(* The batch matching wastes nothing.                                        *)
LEMMA MatchFindingsGreedy ==
    ASSUME NEW F, NEW E, Given(F, E), NEW U
    PROVE  Greedy(F, E, U, MatchFindings(F, E, U))
<1> DEFINE A0 == [a \in DOMAIN F |-> 0]
           A1 == Phase(F, E, U, 1, A0)
           A2 == Phase(F, E, U, 2, A1)
           A3 == Phase(F, E, U, 3, A2)
<1>1. /\ Len(E) \in Nat /\ DOMAIN E = 1 .. Len(E)
      /\ \A a \in DOMAIN F, e \in DOMAIN E : RankOf(F, E, a, e) \in 1 .. 3
  BY Ranks
<1>2. Matching(F, E, U, 1, 0, A0)
  <2>1. A0 \in Assignments(F, E) /\ \A a \in DOMAIN F : A0[a] = 0 BY <1>1 DEF Assignments
  <2> HIDE DEF A0
  <2>2. Proper(F, E, U, A0) /\ InOrder(F, E, A0) /\ Done(F, E, 1, 0, A0)
    BY <2>1, Zenon DEF Proper, InOrder, Done
  <2>3. \A a \in DOMAIN F, e \in DOMAIN E : ~(RankOf(F, E, a, e) < 1) /\ ~(e <= 0) BY <1>1
  <2>4. Passed(F, E, U, 1, 0, A0) BY <2>3, Zenon DEF Passed
  <2> QED BY <2>2, <2>4 DEF Matching
<1> HIDE DEF A0
<1>3. Matching(F, E, U, 1, Len(E), A1) BY <1>2, PhaseMatches
<1>4. Matching(F, E, U, 2, 0, A1)
  <2> HIDE DEF A1
  <2> QED BY <1>3, NextPhase
<1> HIDE DEF A1
<1>5. Matching(F, E, U, 2, Len(E), A2) BY <1>4, PhaseMatches
<1>6. Matching(F, E, U, 3, 0, A2)
  <2> HIDE DEF A2
  <2> QED BY <1>5, NextPhase
<1> HIDE DEF A2
<1>7. Matching(F, E, U, 3, Len(E), A3) BY <1>6, PhaseMatches
<1>8. A3 = MatchFindings(F, E, U) BY Zenon DEF A0, A1, A2, A3, MatchFindings
<1> HIDE DEF A3
<1>9. ASSUME NEW e \in DOMAIN E \ U, NEW a \in DOMAIN F, \A b \in DOMAIN F : A3[b] # e,
             Meets(F, E, a, e)
      PROVE  A3[a] # 0 /\ A3[a] < e
  <2>1. RankOf(F, E, a, e) < 3 \/ (RankOf(F, E, a, e) = 3 /\ e <= Len(E)) BY <1>1
  <2> QED BY <1>7, <1>9, <2>1, Zenon DEF Matching, Passed
<1>10. Greedy(F, E, U, A3) BY <1>7, <1>9, Zenon DEF Greedy, Matching
<1> QED BY <1>8, <1>10

(* Of two such assignments the first expectation on which they differ would  *)
(* be met in one of them by a finding that the other one has passed over.    *)
LEMMA GreedyMeets ==
    ASSUME NEW F, NEW E, Given(F, E), NEW U, NEW A, Greedy(F, E, U, A), NEW B, Greedy(F, E, U, B),
           NEW e \in DOMAIN E, NEW a \in DOMAIN F, A[a] = e,
           \A b \in DOMAIN F : (A[b] # 0 /\ A[b] < e) \/ (B[b] # 0 /\ B[b] < e) => A[b] = B[b]
    PROVE  B[a] = e
<1> SUFFICES ASSUME B[a] # e PROVE FALSE OBVIOUS
<1>1. /\ DOMAIN E = 1 .. Len(E) /\ Len(E) \in Nat /\ DOMAIN F = 1 .. Len(F) /\ Len(F) \in Nat
      /\ \A b \in DOMAIN F : A[b] \in 0 .. Len(E) /\ B[b] \in 0 .. Len(E)
  BY Ranks DEF Greedy, Proper, Assignments
<1>2. e # 0 /\ e \notin U /\ Meets(F, E, a, e) /\ e \in Nat BY <1>1 DEF Greedy, Proper
<1>3. CASE \E b \in DOMAIN F : B[b] = e
  <2>1. PICK b \in DOMAIN F : B[b] = e BY <1>3
  <2>2. a # b /\ Meets(F, E, b, e) BY <1>2, <2>1 DEF Greedy, Proper
  <2>3. RankOf(F, E, a, e) \in 1 .. 3 /\ RankOf(F, E, b, e) \in 1 .. 3 BY Ranks
  <2>4. Sooner(F, E, a, b, e) \/ Sooner(F, E, b, a, e) BY <1>1, <2>2, <2>3 DEF Sooner
  <2>5. CASE Sooner(F, E, a, b, e)
    <3>0. InOrder(F, E, B) /\ B[b] # 0 /\ Meets(F, E, a, B[b]) /\ Sooner(F, E, a, b, B[b])
      BY <1>2, <2>1, <2>5 DEF Greedy
    <3>1. B[a] # 0 /\ B[a] < e BY <2>1, <3>0, Zenon DEF InOrder
    <3>2. A[a] = B[a] BY <3>1
    <3> QED BY <3>2
  <2>6. CASE Sooner(F, E, b, a, e)
    <3>1. A[b] # 0 /\ A[b] < e BY <1>2, <2>2, <2>6, Zenon DEF Greedy, InOrder
    <3>2. A[b] = B[b] BY <3>1
    <3> QED BY <1>1, <2>1, <3>1, <3>2
  <2> QED BY <2>4, <2>5, <2>6
<1>4. CASE ~ \E b \in DOMAIN F : B[b] = e
  <2>1. e \in DOMAIN E \ U BY <1>2
  <2>2. B[a] # 0 /\ B[a] < e BY <1>2, <1>4, <2>1, Zenon DEF Greedy
  <2>3. A[a] = B[a] BY <2>2
  <2> QED BY <2>3
<1> QED BY <1>3, <1>4

LEMMA GreedyUnique ==
    ASSUME NEW F, NEW E, Given(F, E), NEW U, NEW A, Greedy(F, E, U, A), NEW B, Greedy(F, E, U, B)
    PROVE  A = B
<1> DEFINE Same(e) == \A a \in DOMAIN F : A[a] = e <=> B[a] = e
           T == {e \in DOMAIN E : ~Same(e)}
<1>1. /\ DOMAIN E = 1 .. Len(E) /\ Len(E) \in Nat
      /\ \A b \in DOMAIN F : A[b] \in 0 .. Len(E) /\ B[b] \in 0 .. Len(E)
      /\ A \in Assignments(F, E) /\ B \in Assignments(F, E)
  BY Ranks DEF Greedy, Proper, Assignments
<1>2. T = {}
  <2> SUFFICES ASSUME T # {} PROVE FALSE OBVIOUS
  <2>1. T \in SUBSET Nat BY <1>1
  <2>2. PICK e \in T : \A g \in T : e <= g
    <3> HIDE DEF T
    <3> QED BY <2>1, LeastNat
  <2>3. e \in DOMAIN E /\ ~Same(e) BY <2>2
  <2>4. \A g \in DOMAIN E : g < e => Same(g)
    <3>1. \A g \in DOMAIN E : g < e => g \notin T BY <1>1, <2>1, <2>2
    <3> QED BY <3>1
  <2>5. \A b \in DOMAIN F : (A[b] # 0 /\ A[b] < e) \/ (B[b] # 0 /\ B[b] < e) => A[b] = B[b]
    <3>1. \A b \in DOMAIN F : A[b] # 0 => A[b] \in DOMAIN E BY <1>1
    <3>2. \A b \in DOMAIN F : B[b] # 0 => B[b] \in DOMAIN E BY <1>1
    <3> QED BY <2>4, <3>1, <3>2
  <2>6. \A b \in DOMAIN F : (B[b] # 0 /\ B[b] < e) \/ (A[b] # 0 /\ A[b] < e) => B[b] = A[b]
    BY <2>5
  <2>7. \A a \in DOMAIN F : A[a] = e => B[a] = e BY <2>3, <2>5, GreedyMeets
  <2>8. \A a \in DOMAIN F : B[a] = e => A[a] = e BY <2>3, <2>6, GreedyMeets
  <2> QED BY <2>3, <2>7, <2>8
<1>3. \A a \in DOMAIN F : A[a] = B[a]
  <2>1. ASSUME NEW a \in DOMAIN F PROVE A[a] = B[a]
    <3>1. A[a] \in DOMAIN E => B[a] = A[a] BY <1>2
    <3>2. B[a] \in DOMAIN E => A[a] = B[a] BY <1>2
    <3> QED BY <1>1, <3>1, <3>2
  <2> QED BY <2>1
<1> QED BY <1>1, <1>3 DEF Assignments

(* What is settled of the first m findings, each by the first expectation of *)
(* its identity that is left, is settled for good: B[a] is what finding a    *)
(* met.                                                                      *)
Settled(F, E, U, B, m) ==
    /\ m \in 0 .. Len(F)
    /\ U = {B[a] : a \in 1 .. m} \ {0}
    /\ \A a \in 1 .. m : B[a] \in 0 .. Len(E) /\ (B[a] # 0 => Meets(F, E, a, B[a]))
    /\ \A a, b \in 1 .. m : B[a] # 0 /\ B[a] = B[b] => a = b
    /\ \A a, b \in 1 .. m :
           B[a] # 0 /\ b < a /\ Meets(F, E, b, B[a]) => B[b] # 0 /\ B[b] < B[a]
    /\ \A e \in DOMAIN E \ U, a \in 1 .. m :
           Meets(F, E, a, e) => B[a] # 0 /\ B[a] < e

(* No later finding is better for the expectation that a settled one met.    *)
Firm(F, E, B, m) ==
    \/ \A a \in DOMAIN F : F[a].identity.position = a
    \/ \A a \in 1 .. m : B[a] # 0 => RankOf(F, E, a, B[a]) = 1

LEMMA SettledMore ==
    ASSUME NEW F, NEW E, Given(F, E), NEW U, NEW m, NEW B, Settled(F, E, U, B, m),
           NEW x \in Findings
    PROVE  Settled(Append(F, x), E, U, B, m)
<1> DEFINE G == Append(F, x)
<1>1. F \in Seq(Findings) BY DEF Given
<1>2. Len(G) = Len(F) + 1 /\ Len(F) \in Nat /\ m \in 0 .. Len(F) /\ \A a \in 1 .. Len(F) : G[a] = F[a]
  BY <1>1, AppendProperties DEF Settled
<1> HIDE DEF G
<1>3. m \in 0 .. Len(G) /\ \A a \in 1 .. m : G[a] = F[a] BY <1>2
<1>4. \A a \in 1 .. m : \A e : Meets(G, E, a, e) <=> Meets(F, E, a, e) BY <1>3 DEF Meets
<1>5. Settled(G, E, U, B, m) BY <1>3, <1>4, Zenon DEF Settled
<1> QED BY <1>5 DEF G

(* One more finding is settled.                                              *)
LEMMA SettledNext ==
    ASSUME NEW F, NEW E, Given(F, E), NEW U, NEW m, NEW B, Settled(F, E, U, B, m),
           m + 1 \in DOMAIN F, NEW C, \A a \in 1 .. m : C[a] = B[a],
           C[m + 1] = LET free == {e \in DOMAIN E : e \notin U /\ Meets(F, E, m + 1, e)}
                      IN IF free = {} THEN 0 ELSE Least(free)
    PROVE  Settled(F, E, U \cup ({C[m + 1]} \ {0}), C, m + 1)
<1> DEFINE free == {e \in DOMAIN E : e \notin U /\ Meets(F, E, m + 1, e)}
           V == U \cup ({C[m + 1]} \ {0})
           n == m + 1
<1>1. /\ DOMAIN E = 1 .. Len(E) /\ Len(E) \in Nat /\ DOMAIN F = 1 .. Len(F) /\ Len(F) \in Nat
      /\ m \in Nat /\ n \in 0 .. Len(F) /\ 1 .. n = (1 .. m) \cup {n} /\ n \notin 1 .. m
  <2>1. DOMAIN E = 1 .. Len(E) /\ Len(E) \in Nat /\ DOMAIN F = 1 .. Len(F) /\ Len(F) \in Nat
    BY Ranks
  <2>2. m \in Nat /\ n \in 1 .. Len(F) BY <2>1 DEF Settled
  <2> QED BY <2>1, <2>2
<1>2. \/ C[n] = 0 /\ free = {}
      \/ C[n] \in free /\ \A e \in free : C[n] <= e
  <2>1. C[n] = IF free = {} THEN 0 ELSE Least(free) BY Zenon
  <2>2. free \in SUBSET Nat BY <1>1
  <2> HIDE DEF free, n
  <2> QED BY <2>1, <2>2, LeastIs
<1>3. \A e \in DOMAIN E : e \in free <=> e \notin U /\ Meets(F, E, n, e) OBVIOUS
<1>4. C[n] \in 0 .. Len(E) /\ (C[n] # 0 => C[n] \notin U /\ Meets(F, E, n, C[n]))
  <2>1. \A e \in free : e \in DOMAIN E OBVIOUS
  <2> HIDE DEF free, n
  <2> QED BY <1>1, <1>2, <1>3, <2>1
<1>5. \A e \in DOMAIN E \ U : Meets(F, E, n, e) => C[n] # 0 /\ C[n] <= e
  <2>1. 0 \notin free BY <1>1
  <2> HIDE DEF free, n
  <2> QED BY <1>1, <1>2, <1>3, <2>1
<1>6. /\ U = {B[a] : a \in 1 .. m} \ {0}
      /\ \A a \in 1 .. m : B[a] \in 0 .. Len(E) /\ (B[a] # 0 => Meets(F, E, a, B[a]))
      /\ \A a, b \in 1 .. m : B[a] # 0 /\ B[a] = B[b] => a = b
      /\ \A a, b \in 1 .. m :
             B[a] # 0 /\ b < a /\ Meets(F, E, b, B[a]) => B[b] # 0 /\ B[b] < B[a]
      /\ \A e \in DOMAIN E \ U, a \in 1 .. m : Meets(F, E, a, e) => B[a] # 0 /\ B[a] < e
  BY Zenon DEF Settled
<1> HIDE DEF free
<1>7. V = {C[a] : a \in 1 .. n} \ {0}
  <2> HIDE DEF n
  <2>1. {C[a] : a \in 1 .. n} = {B[a] : a \in 1 .. m} \cup {C[n]} BY <1>1
  <2> QED BY <1>6, <2>1 DEF n
<1>8. \A a \in 1 .. n : C[a] \in 0 .. Len(E) /\ (C[a] # 0 => Meets(F, E, a, C[a]))
  <2> HIDE DEF n
  <2> QED BY <1>1, <1>4, <1>6
<1>9. \A a \in 1 .. m : B[a] # 0 => B[a] \in U BY <1>6
<1>10. \A a, b \in 1 .. n : C[a] # 0 /\ C[a] = C[b] => a = b
  <2> HIDE DEF n
  <2> QED BY <1>1, <1>4, <1>6, <1>9
<1>11. ASSUME NEW a \in 1 .. n, NEW b \in 1 .. n, C[a] # 0, b < a, Meets(F, E, b, C[a])
       PROVE  C[b] # 0 /\ C[b] < C[a]
  <2>1. b \in 1 .. m /\ C[b] = B[b] BY <1>1, <1>11
  <2> HIDE DEF n
  <2>2. CASE a = n
    <3>1. C[n] \in DOMAIN E \ U BY <1>1, <1>4, <1>11, <2>2
    <3> QED BY <1>6, <1>11, <2>1, <2>2, <3>1
  <2>3. CASE a # n
    <3>1. a \in 1 .. m /\ C[a] = B[a] BY <1>1, <2>3
    <3> QED BY <1>6, <1>11, <2>1, <3>1
  <2> QED BY <2>2, <2>3
<1>12. ASSUME NEW e \in DOMAIN E \ V, NEW a \in 1 .. n, Meets(F, E, a, e)
       PROVE  C[a] # 0 /\ C[a] < e
  <2> HIDE DEF n
  <2>1. e \in DOMAIN E \ U /\ (C[n] # 0 => e # C[n]) BY DEF n
  <2>2. CASE a = n
    <3>1. C[n] # 0 /\ C[n] <= e BY <1>5, <1>12, <2>1, <2>2
    <3>2. e \in Int /\ C[n] \in Int BY <1>1, <1>4
    <3> QED BY <2>1, <2>2, <3>1, <3>2
  <2>3. CASE a # n
    <3>1. a \in 1 .. m /\ C[a] = B[a] BY <1>1, <2>3
    <3> QED BY <1>6, <1>12, <2>1, <3>1
  <2> QED BY <2>2, <2>3
<1> HIDE DEF V, n
<1>13. n \in 0 .. Len(F) BY <1>1
<1>14. Settled(F, E, V, C, n) BY <1>7, <1>8, <1>10, <1>11, <1>12, <1>13, Zenon DEF Settled
<1> QED BY <1>14 DEF V, n

(* The findings after the first m, and a whole assignment put together.      *)
RestOf(F, m, W) ==
    W \in Seq(Findings) /\ Len(F) = m + Len(W) /\ \A i \in DOMAIN W : W[i] = F[m + i]

Whole(F, B, m, A) == [a \in DOMAIN F |-> IF a <= m THEN B[a] ELSE A[a - m]]

(* What is settled early is settled as the batch matching would: matching    *)
(* the rest against what is left completes the batch assignment.             *)
LEMMA SettledIsBatch ==
    ASSUME NEW F, NEW E, Given(F, E), NEW U, NEW m, NEW B, Settled(F, E, U, B, m), Firm(F, E, B, m),
           NEW W, RestOf(F, m, W)
    PROVE  /\ Given(W, E)
           /\ Whole(F, B, m, MatchFindings(W, E, U)) = MatchFindings(F, E, {})
<1> DEFINE A == MatchFindings(W, E, U)
           C == Whole(F, B, m, A)
<1>1. Given(W, E) BY DEF Given, RestOf
<1>2. Greedy(W, E, U, A) BY <1>1, MatchFindingsGreedy
<1>3. /\ DOMAIN E = 1 .. Len(E) /\ Len(E) \in Nat /\ DOMAIN F = 1 .. Len(F) /\ Len(F) \in Nat
      /\ \A a \in DOMAIN F, e \in DOMAIN E : RankOf(F, E, a, e) \in 1 .. 3
  BY Ranks
<1>4. DOMAIN W = 1 .. Len(W) /\ Len(W) \in Nat BY <1>1, Ranks
<1>5. m \in Nat /\ Len(F) = m + Len(W) /\ \A i \in DOMAIN W : W[i] = F[m + i]
  BY <1>3 DEF RestOf, Settled
<1>6. /\ U = {B[a] : a \in 1 .. m} \ {0}
      /\ \A a \in 1 .. m : B[a] \in 0 .. Len(E) /\ (B[a] # 0 => Meets(F, E, a, B[a]))
      /\ \A a, b \in 1 .. m : B[a] # 0 /\ B[a] = B[b] => a = b
      /\ \A a, b \in 1 .. m :
             B[a] # 0 /\ b < a /\ Meets(F, E, b, B[a]) => B[b] # 0 /\ B[b] < B[a]
      /\ \A e \in DOMAIN E \ U, a \in 1 .. m : Meets(F, E, a, e) => B[a] # 0 /\ B[a] < e
  BY Zenon DEF Settled
<1>7. /\ \A i \in DOMAIN W : A[i] \in 0 .. Len(E)
      /\ \A i \in DOMAIN W : A[i] # 0 => A[i] \notin U /\ Meets(W, E, i, A[i])
      /\ \A i, j \in DOMAIN W : A[i] # 0 /\ A[i] = A[j] => i = j
  <2>1. A \in Assignments(W, E) BY <1>2, Zenon DEF Greedy, Proper
  <2>2. \A i \in DOMAIN W : A[i] \in 0 .. Len(E)
    <3> HIDE DEF A
    <3> QED BY <2>1 DEF Assignments
  <2> QED BY <1>2, <2>2, Zenon DEF Greedy, Proper
<1> HIDE DEF A
<1>8. \A i \in DOMAIN W : \A e :
          /\ Meets(W, E, i, e) <=> Meets(F, E, m + i, e)
          /\ RankOf(W, E, i, e) = RankOf(F, E, m + i, e)
  BY <1>5, Zenon DEF Meets, RankOf
<1>9. /\ \A a \in 1 .. m : a \in DOMAIN F /\ C[a] = B[a]
      /\ \A i \in DOMAIN W : m + i \in DOMAIN F /\ C[m + i] = A[i]
  <2>1. \A a \in 1 .. m : a \in DOMAIN F /\ a <= m BY <1>3, <1>4, <1>5
  <2>2. \A i \in DOMAIN W : m + i \in DOMAIN F /\ ~(m + i <= m) /\ (m + i) - m = i
    BY <1>3, <1>4, <1>5
  <2> QED BY <2>1, <2>2 DEF Whole
<1>10. \A a \in DOMAIN F : \/ a \in 1 .. m
                           \/ a \notin 1 .. m /\ \E i \in DOMAIN W : a = m + i
  <2>1. ASSUME NEW a \in DOMAIN F, ~(a <= m) PROVE a - m \in DOMAIN W /\ a = m + (a - m)
    BY <1>3, <1>4, <1>5, <2>1
  <2>2. ASSUME NEW a \in DOMAIN F, a <= m PROVE a \in 1 .. m
    BY <1>3, <1>5, <2>2
  <2>3. ASSUME NEW a \in DOMAIN F, ~(a <= m) PROVE a \notin 1 .. m
    BY <1>5, <2>3
  <2> QED BY <2>1, <2>2, <2>3
<1>11. C = [a \in DOMAIN F |-> C[a]] BY DEF Whole
<1> HIDE DEF C
<1>12. \A a \in DOMAIN F : C[a] \in 0 .. Len(E) /\ (C[a] # 0 => Meets(F, E, a, C[a]))
  BY <1>6, <1>7, <1>8, <1>9, <1>10
<1>13. \A a \in 1 .. m : B[a] # 0 => B[a] \in U BY <1>6
<1>14. ASSUME NEW a \in DOMAIN F, NEW b \in DOMAIN F, C[a] # 0, C[a] = C[b] PROVE a = b
  <2>1. CASE a \in 1 .. m /\ b \in 1 .. m BY <1>6, <1>9, <1>14, <2>1
  <2>2. CASE a \in 1 .. m /\ b \notin 1 .. m
    <3>1. PICK j \in DOMAIN W : b = m + j BY <1>10, <2>2
    <3> QED BY <1>7, <1>9, <1>13, <1>14, <2>2, <3>1
  <2>3. CASE a \notin 1 .. m /\ b \in 1 .. m
    <3>1. PICK i \in DOMAIN W : a = m + i BY <1>10, <2>3
    <3> QED BY <1>7, <1>9, <1>13, <1>14, <2>3, <3>1
  <2>4. CASE a \notin 1 .. m /\ b \notin 1 .. m
    <3>1. PICK i \in DOMAIN W : a = m + i BY <1>10, <2>4
    <3>2. PICK j \in DOMAIN W : b = m + j BY <1>10, <2>4
    <3>3. i = j BY <1>7, <1>9, <1>14, <3>1, <3>2
    <3> QED BY <3>1, <3>2, <3>3
  <2> QED BY <2>1, <2>2, <2>3, <2>4
<1>15. Proper(F, E, {}, C)
  <2>1. C \in Assignments(F, E) BY <1>11, <1>12 DEF Assignments
  <2> QED BY <1>12, <1>14, <2>1, Zenon DEF Proper
<1>16. ASSUME NEW a \in DOMAIN F, NEW b \in DOMAIN F, C[a] # 0,
              Meets(F, E, b, C[a]), Sooner(F, E, b, a, C[a])
       PROVE  C[b] # 0 /\ C[b] < C[a]
  <2>0. C[a] \in DOMAIN E /\ Meets(F, E, a, C[a]) BY <1>3, <1>12, <1>16
  <2>1. CASE a \in 1 .. m
    <3>1. b < a
      <4>1. CASE \A x \in DOMAIN F : F[x].identity.position = x
        <5>1. F[a].identity = F[b].identity BY <1>16, <2>0 DEF Meets
        <5>2. a = b BY <4>1, <5>1
        <5>3. ~Sooner(F, E, b, a, C[a]) BY <1>3, <2>0, <5>2 DEF Sooner
        <5> QED BY <1>16, <5>3
      <4>2. CASE \A x \in 1 .. m : B[x] # 0 => RankOf(F, E, x, B[x]) = 1
        <5>1. RankOf(F, E, a, C[a]) = 1 BY <1>9, <1>16, <2>1, <4>2
        <5>2. RankOf(F, E, b, C[a]) \in 1 .. 3 BY <1>3, <2>0
        <5> QED BY <1>16, <5>1, <5>2 DEF Sooner
      <4> QED BY <4>1, <4>2 DEF Firm
    <3>2. b \in 1 .. m BY <1>3, <1>5, <2>1, <3>1
    <3> QED BY <1>6, <1>9, <1>16, <2>1, <3>1, <3>2
  <2>2. CASE a \notin 1 .. m /\ b \in 1 .. m
    <3>1. PICK i \in DOMAIN W : a = m + i BY <1>10, <2>2
    <3>2. C[a] \in DOMAIN E \ U BY <1>7, <1>9, <1>16, <2>0, <3>1
    <3> QED BY <1>6, <1>9, <1>16, <2>2, <3>2
  <2>3. CASE a \notin 1 .. m /\ b \notin 1 .. m
    <3>1. PICK i \in DOMAIN W : a = m + i BY <1>10, <2>3
    <3>2. PICK j \in DOMAIN W : b = m + j BY <1>10, <2>3
    <3>3. C[a] = A[i] /\ C[b] = A[j] BY <1>9, <3>1, <3>2
    <3>4. j < i <=> b < a BY <1>4, <1>5, <3>1, <3>2
    <3>5. Meets(W, E, j, A[i]) /\ Sooner(W, E, j, i, A[i])
      BY <1>8, <1>16, <3>1, <3>2, <3>3, <3>4 DEF Sooner
    <3> QED BY <1>2, <1>16, <3>3, <3>5, Zenon DEF Greedy, InOrder
  <2> QED BY <2>1, <2>2, <2>3
<1>17. ASSUME NEW e \in DOMAIN E, NEW a \in DOMAIN F, \A b \in DOMAIN F : C[b] # e, Meets(F, E, a, e)
       PROVE  C[a] # 0 /\ C[a] < e
  <2>1. e \in DOMAIN E \ U BY <1>6, <1>9, <1>17
  <2>2. CASE a \in 1 .. m BY <1>6, <1>9, <1>17, <2>1, <2>2
  <2>3. CASE a \notin 1 .. m
    <3>1. PICK i \in DOMAIN W : a = m + i BY <1>10, <2>3
    <3>2. \A j \in DOMAIN W : A[j] # e BY <1>9, <1>17
    <3>3. Meets(W, E, i, e) BY <1>8, <1>17, <3>1
    <3>4. A[i] # 0 /\ A[i] < e BY <1>2, <2>1, <3>2, <3>3, Zenon DEF Greedy
    <3> QED BY <1>9, <3>1, <3>4
  <2> QED BY <2>2, <2>3
<1>18. Greedy(F, E, {}, C) BY <1>15, <1>16, <1>17, Zenon DEF Greedy, InOrder
<1>19. Greedy(F, E, {}, MatchFindings(F, E, {})) BY MatchFindingsGreedy
<1>20. C = MatchFindings(F, E, {}) BY <1>18, <1>19, GreedyUnique
<1> QED BY <1>1, <1>20 DEF A, C

-----------------------------------------------------------------------------
(* Nth numbers the elements of a finite set of naturals in their order.      *)
Below(S, n) == {m \in S : m < n}

LEMMA BelowCounts ==
    ASSUME NEW S \in SUBSET Nat, IsFiniteSet(S)
    PROVE  /\ \A n \in S : Cardinality(Below(S, n)) \in 0 .. Cardinality(S) - 1
           /\ \A n, k \in S : n < k => Cardinality(Below(S, n)) < Cardinality(Below(S, k))
<1>1. Cardinality(S) \in Nat BY FS_CardinalityType
<1>2. ASSUME NEW n \in S
      PROVE  /\ IsFiniteSet(Below(S, n)) /\ Cardinality(Below(S, n)) \in Nat
             /\ Cardinality(Below(S, n)) <= Cardinality(S) - 1
  <2>1. Below(S, n) \in SUBSET (S \ {n}) BY DEF Below
  <2>2. IsFiniteSet(S \ {n}) /\ Cardinality(S \ {n}) = Cardinality(S) - 1 BY FS_RemoveElement
  <2>3. IsFiniteSet(Below(S, n)) /\ Cardinality(Below(S, n)) <= Cardinality(S \ {n})
    BY <2>1, <2>2, FS_Subset
  <2>4. Cardinality(Below(S, n)) \in Nat BY <2>3, FS_CardinalityType
  <2> QED BY <2>2, <2>3, <2>4
<1>3. ASSUME NEW n \in S, NEW k \in S, n < k
      PROVE  Cardinality(Below(S, n)) < Cardinality(Below(S, k))
  <2>1. Below(S, n) \in SUBSET Below(S, k) /\ n \in Below(S, k) /\ n \notin Below(S, n)
    <3>1. n \in Nat /\ k \in Nat /\ \A m \in S : m \in Nat OBVIOUS
    <3>2. \A m \in S : m < n => m < k BY <1>3, <3>1
    <3>3. n \in Below(S, k) BY <1>3 DEF Below
    <3>4. n \notin Below(S, n)
      <4>1. ~(n < n) BY <3>1
      <4> QED BY <4>1 DEF Below
    <3>5. Below(S, n) \in SUBSET Below(S, k) BY <3>2 DEF Below
    <3> QED BY <3>3, <3>4, <3>5
  <2>2. IsFiniteSet(Below(S, k)) /\ Below(S, n) # Below(S, k) BY <1>2, <2>1
  <2>3. /\ Cardinality(Below(S, n)) <= Cardinality(Below(S, k))
        /\ Cardinality(Below(S, k)) = Cardinality(Below(S, n)) => Below(S, k) = Below(S, n)
    BY <2>1, <2>2, FS_Subset
  <2>4. Cardinality(Below(S, n)) # Cardinality(Below(S, k)) BY <2>2, <2>3
  <2>5. Cardinality(Below(S, n)) \in Nat /\ Cardinality(Below(S, k)) \in Nat BY <1>2
  <2> QED BY <2>3, <2>4, <2>5
<1> QED BY <1>1, <1>2, <1>3

LEMMA NthNumbers ==
    ASSUME NEW S \in SUBSET Nat, IsFiniteSet(S)
    PROVE  /\ Cardinality(S) \in Nat
           /\ \A i \in 1 .. Cardinality(S) : Nth(S, i) \in S
           /\ \A i, j \in 1 .. Cardinality(S) : Nth(S, i) = Nth(S, j) => i = j
           /\ \A n \in S : \E i \in 1 .. Cardinality(S) : Nth(S, i) = n
<1> DEFINE c == Cardinality(S)
           f == [n \in S |-> Cardinality(Below(S, n)) + 1]
<1>1. c \in Nat BY FS_CardinalityType
<1>2. \A n \in S : Cardinality(Below(S, n)) \in 0 .. c - 1 BY BelowCounts
<1>3. f \in [S -> 1 .. c] BY <1>1, <1>2
<1>4. \A n, k \in S : f[n] = f[k] => n = k
  <2> SUFFICES ASSUME NEW n \in S, NEW k \in S, f[n] = f[k], n # k PROVE FALSE OBVIOUS
  <2>1. n \in Nat /\ k \in Nat /\ (n < k \/ k < n) OBVIOUS
  <2>2. Cardinality(Below(S, n)) = Cardinality(Below(S, k)) BY <1>1, <1>2
  <2> QED BY <1>1, <1>2, <2>1, <2>2, BelowCounts
<1>5. \A n \in S, i \in 1 .. c : f[n] = i <=> Cardinality({m \in S : m < n}) = i - 1
  BY <1>1, <1>2 DEF Below
<1> HIDE DEF f
<1>6. f \in Injection(S, 1 .. c) BY <1>3, <1>4 DEF Injection, IsInjective
<1>7. IsFiniteSet(1 .. c) /\ Cardinality(1 .. c) = c
  <2>1. 1 \in Int /\ c \in Int BY <1>1
  <2>2. IsFiniteSet(1 .. c) /\ Cardinality(1 .. c) = IF 1 > c THEN 0 ELSE c - 1 + 1
    BY <2>1, FS_Interval
  <2> QED BY <1>1, <2>2
<1>8. f \in Surjection(S, 1 .. c) BY <1>6, <1>7, FS_Injection
<1>9. \A i \in 1 .. c : \E n \in S : f[n] = i BY <1>8 DEF Surjection
<1>10. \A i \in 1 .. c : Nth(S, i) \in S /\ f[Nth(S, i)] = i
  <2> SUFFICES ASSUME NEW i \in 1 .. c PROVE Nth(S, i) \in S /\ f[Nth(S, i)] = i OBVIOUS
  <2>1. \E n \in S : Cardinality({m \in S : m < n}) = i - 1 BY <1>5, <1>9
  <2>2. Nth(S, i) \in S /\ Cardinality({m \in S : m < Nth(S, i)}) = i - 1
    BY <2>1, Zenon DEF Nth
  <2> QED BY <1>5, <2>2
<1>11. \A n \in S : f[n] \in 1 .. c /\ Nth(S, f[n]) = n BY <1>3, <1>4, <1>10
<1> QED BY <1>1, <1>10, <1>11

-----------------------------------------------------------------------------
(* The entries of an evaluation.                                             *)
Entries == [class : Classifications, expected : Nat, actual : Nat]

LEMMA FunctionSeq ==
    ASSUME NEW n \in Nat, NEW S, NEW f \in [1 .. n -> S]
    PROVE  f \in Seq(S) /\ Len(f) = n
OBVIOUS

LEMMA EntryIs ==
    ASSUME NEW F, NEW E, NEW e \in Nat, NEW a \in Nat
    PROVE  /\ Entry(E, e, F, a) \in Entries
           /\ Entry(E, e, F, a).expected = e /\ Entry(E, e, F, a).actual = a
<1>1. Classification(E, e, F, a) \in Classifications
  BY Zenon DEF Classification, Classifications
<1> QED BY <1>1 DEF Entry, Entries

LEMMA MissingIs ==
    ASSUME NEW E \in Seq(Expectations), NEW U
    PROVE  LET unmet == DOMAIN E \ U IN
           /\ Missing(E, U) \in Seq(Entries) /\ Len(Missing(E, U)) = Cardinality(unmet)
           /\ \A i \in 1 .. Cardinality(unmet) : Missing(E, U)[i] = Entry(E, Nth(unmet, i), <<>>, 0)
           /\ unmet \in SUBSET Nat /\ IsFiniteSet(unmet)
<1> DEFINE unmet == DOMAIN E \ U
           c == Cardinality(unmet)
<1>1. Len(E) \in Nat /\ DOMAIN E = 1 .. Len(E) OBVIOUS
<1>2. unmet \in SUBSET Nat /\ IsFiniteSet(unmet)
  <2>1. 1 \in Int /\ Len(E) \in Int BY <1>1
  <2>2. IsFiniteSet(1 .. Len(E)) BY <2>1, FS_Interval
  <2>3. unmet \in SUBSET (1 .. Len(E)) BY <1>1
  <2>4. IsFiniteSet(unmet)
    <3> HIDE DEF unmet
    <3> QED BY <2>2, <2>3, FS_Subset
  <2> QED BY <1>1, <2>3, <2>4
<1>3. Missing(E, U) = [i \in 1 .. c |-> Entry(E, Nth(unmet, i), <<>>, 0)] BY Zenon DEF Missing
<1> HIDE DEF unmet
<1>4. c \in Nat /\ \A i \in 1 .. c : Nth(unmet, i) \in Nat BY <1>2, NthNumbers
<1>5. \A i \in 1 .. c : Entry(E, Nth(unmet, i), <<>>, 0) \in Entries BY <1>4, EntryIs
<1>6. Missing(E, U) \in [1 .. c -> Entries] BY <1>3, <1>5
<1>7. Missing(E, U) \in Seq(Entries) /\ Len(Missing(E, U)) = c BY <1>4, <1>6, FunctionSeq
<1> QED BY <1>2, <1>3, <1>7 DEF unmet

(* An entry speaks of its finding alone, whatever that finding's number.     *)
LEMMA EntriesOfIs ==
    ASSUME NEW F, NEW E, Given(F, E), NEW A, \A a \in DOMAIN F : A[a] \in 0 .. Len(E),
           NEW m \in Nat, NEW G, \A a \in DOMAIN F : F[a] = G[m + a]
    PROVE  /\ EntriesOf(F, E, A, m) \in Seq(Entries) /\ Len(EntriesOf(F, E, A, m)) = Len(F)
           /\ \A a \in DOMAIN F : EntriesOf(F, E, A, m)[a] = Entry(E, A[a], G, m + a)
<1>1. /\ Len(E) \in Nat /\ Len(F) \in Nat /\ DOMAIN F = 1 .. Len(F) BY Ranks
<1>2. ASSUME NEW a \in DOMAIN F
      PROVE  [Entry(E, A[a], F, a) EXCEPT !.actual = m + a] = Entry(E, A[a], G, m + a)
  <2>1. a # 0 /\ m + a # 0 BY <1>1
  <2>2. Classification(E, A[a], F, a) = Classification(E, A[a], G, m + a)
    BY <2>1, Zenon DEF Classification
  <2> QED BY <2>2 DEF Entry
<1>3. ASSUME NEW a \in DOMAIN F PROVE Entry(E, A[a], G, m + a) \in Entries
  <2>1. m + a \in Nat /\ A[a] \in Nat BY <1>1
  <2> QED BY <2>1, EntryIs
<1>4. EntriesOf(F, E, A, m) = [a \in DOMAIN F |-> Entry(E, A[a], G, m + a)]
  BY <1>2, Zenon DEF EntriesOf
<1>5. EntriesOf(F, E, A, m) \in [1 .. Len(F) -> Entries] BY <1>1, <1>3, <1>4
<1> QED BY <1>1, <1>4, <1>5, FunctionSeq

(* The batch evaluation: an entry for each finding, then one for each        *)
(* expectation that nothing met.                                             *)
LEMMA BatchIs ==
    ASSUME NEW F, NEW E, Given(F, E)
    PROVE  LET C == MatchFindings(F, E, {})
               unmet == DOMAIN E \ Assigned(C)
               batch == EvaluateChannel(F, E)
           IN /\ C \in Assignments(F, E)
              /\ batch \in Seq(Entries) /\ Len(batch) = Len(F) + Cardinality(unmet)
              /\ \A a \in 1 .. Len(F) : batch[a] = Entry(E, C[a], F, a)
              /\ \A i \in 1 .. Cardinality(unmet) :
                     batch[Len(F) + i] = Entry(E, Nth(unmet, i), <<>>, 0)
              /\ unmet \in SUBSET Nat /\ IsFiniteSet(unmet) /\ Cardinality(unmet) \in Nat
<1> DEFINE C == MatchFindings(F, E, {})
           unmet == DOMAIN E \ Assigned(C)
           c == Cardinality(unmet)
           X == EntriesOf(F, E, C, 0)
           Y == Missing(E, Assigned(C))
           batch == EvaluateChannel(F, E)
<1>1. /\ Len(E) \in Nat /\ Len(F) \in Nat /\ DOMAIN F = 1 .. Len(F) BY Ranks
<1>2. C \in Assignments(F, E) BY MatchFindingsGreedy DEF Greedy, Proper
<1>3. E \in Seq(Expectations) BY DEF Given
<1>4. batch = X \o Y BY Zenon DEF EvaluateChannel
<1> HIDE DEF C
<1>5. \A a \in DOMAIN F : C[a] \in 0 .. Len(E) BY <1>2 DEF Assignments
<1>6. /\ X \in Seq(Entries) /\ Len(X) = Len(F)
      /\ \A a \in DOMAIN F : X[a] = Entry(E, C[a], F, 0 + a)
  <2>1. 0 \in Nat /\ \A a \in DOMAIN F : F[a] = F[0 + a] BY <1>1
  <2> QED BY <1>5, <2>1, EntriesOfIs
<1>7. \A a \in 1 .. Len(F) : X[a] = Entry(E, C[a], F, a)
  <2>1. \A a \in 1 .. Len(F) : 0 + a = a BY <1>1
  <2> HIDE DEF X
  <2> QED BY <1>1, <1>6, <2>1
<1>8. /\ Y \in Seq(Entries) /\ Len(Y) = c
      /\ \A i \in 1 .. c : Y[i] = Entry(E, Nth(unmet, i), <<>>, 0)
      /\ unmet \in SUBSET Nat /\ IsFiniteSet(unmet)
  BY <1>3, MissingIs
<1>9. c \in Nat BY <1>8, FS_CardinalityType
<1> HIDE DEF X, Y, batch, unmet
<1>10. /\ batch \in Seq(Entries) /\ Len(batch) = Len(F) + c
       /\ \A i \in 1 .. Len(F) + c : batch[i] = IF i <= Len(F) THEN X[i] ELSE Y[i - Len(F)]
  <2>1. /\ X \o Y \in Seq(Entries) /\ Len(X \o Y) = Len(X) + Len(Y)
        /\ \A i \in 1 .. Len(X) + Len(Y) : (X \o Y)[i] = IF i <= Len(X) THEN X[i] ELSE Y[i - Len(X)]
    <3>1. X \in Seq(Entries) /\ Y \in Seq(Entries) BY <1>6, <1>8
    <3> QED BY <3>1, ConcatProperties
  <2> QED BY <1>4, <1>6, <1>8, <2>1
<1>11. \A a \in 1 .. Len(F) : batch[a] = X[a]
  <2>1. \A a \in 1 .. Len(F) : a \in 1 .. Len(F) + c /\ a <= Len(F) BY <1>1, <1>9
  <2> QED BY <1>10, <2>1
<1>12. \A i \in 1 .. c : batch[Len(F) + i] = Y[i]
  <2>1. \A i \in 1 .. c : /\ Len(F) + i \in 1 .. Len(F) + c /\ ~(Len(F) + i <= Len(F))
                          /\ (Len(F) + i) - Len(F) = i
    BY <1>1, <1>9
  <2> QED BY <1>10, <2>1
<1>13. \A a \in 1 .. Len(F) : batch[a] = Entry(E, C[a], F, a) BY <1>7, <1>11
<1>14. \A i \in 1 .. c : batch[Len(F) + i] = Entry(E, Nth(unmet, i), <<>>, 0) BY <1>8, <1>12
<1> QED BY <1>2, <1>8, <1>9, <1>10, <1>13, <1>14 DEF C, unmet, batch

(* The entries settled early are the beginning of the batch evaluation, and  *)
(* finishing the channel adds what is missing.                               *)
Due(W, E, U, m) ==
    EntriesOf(W, E, MatchFindings(W, E, U), m) \o Missing(E, U \cup Assigned(MatchFindings(W, E, U)))

LEMMA EarlyIsBatch ==
    ASSUME NEW F, NEW E, Given(F, E), NEW U, NEW m, NEW B, Settled(F, E, U, B, m), Firm(F, E, B, m),
           NEW W, RestOf(F, m, W),
           NEW H \in Seq(Entries), Len(H) = m, \A a \in 1 .. m : H[a] = Entry(E, B[a], F, a)
    PROVE  /\ PrefixOf(H, EvaluateChannel(F, E))
           /\ Due(W, E, U, m) \in Seq(Entries) /\ Len(W) <= Len(Due(W, E, U, m))
           /\ H \o Due(W, E, U, m) = EvaluateChannel(F, E)
<1> DEFINE A == MatchFindings(W, E, U)
           C == MatchFindings(F, E, {})
           met == U \cup Assigned(A)
           unmet == DOMAIN E \ met
           c == Cardinality(unmet)
           X == EntriesOf(W, E, A, m)
           Y == Missing(E, met)
           D == Due(W, E, U, m)
           batch == EvaluateChannel(F, E)
<1>1. Given(W, E) /\ Whole(F, B, m, A) = C BY SettledIsBatch
<1>2. /\ DOMAIN E = 1 .. Len(E) /\ Len(E) \in Nat /\ DOMAIN F = 1 .. Len(F) /\ Len(F) \in Nat
  BY Ranks
<1>3. /\ DOMAIN W = 1 .. Len(W) /\ Len(W) \in Nat BY <1>1, Ranks
<1>4. m \in Nat /\ Len(F) = m + Len(W) /\ \A i \in DOMAIN W : W[i] = F[m + i]
  BY <1>2 DEF RestOf, Settled
<1>5. E \in Seq(Expectations) BY DEF Given
<1>6. D = X \o Y BY Zenon DEF Due
<1>7. A \in Assignments(W, E) BY <1>1, MatchFindingsGreedy DEF Greedy, Proper
<1>8. /\ C \in Assignments(F, E)
      /\ batch \in Seq(Entries) /\ Len(batch) = Len(F) + Cardinality(DOMAIN E \ Assigned(C))
      /\ \A a \in 1 .. Len(F) : batch[a] = Entry(E, C[a], F, a)
      /\ \A i \in 1 .. Cardinality(DOMAIN E \ Assigned(C)) :
             batch[Len(F) + i] = Entry(E, Nth(DOMAIN E \ Assigned(C), i), <<>>, 0)
  BY BatchIs
<1> HIDE DEF A, C
<1>9. /\ \A a \in 1 .. m : C[a] = B[a]
      /\ \A i \in 1 .. Len(W) : C[m + i] = A[i]
  <2>1. \A a \in 1 .. m : a \in DOMAIN F /\ a <= m BY <1>2, <1>3, <1>4
  <2>2. \A i \in 1 .. Len(W) : m + i \in DOMAIN F /\ ~(m + i <= m) /\ (m + i) - m = i
    BY <1>2, <1>3, <1>4
  <2> QED BY <1>1, <2>1, <2>2 DEF Whole
<1>10. Assigned(C) = met
  <2>1. DOMAIN C = 1 .. Len(F) /\ DOMAIN A = 1 .. Len(W) BY <1>2, <1>3, <1>7, <1>8 DEF Assignments
  <2>2. U = {B[a] : a \in 1 .. m} \ {0} BY Zenon DEF Settled
  <2>3. Assigned(C) = {C[a] : a \in 1 .. Len(F)} \ {0} /\ Assigned(A) = {A[a] : a \in 1 .. Len(W)} \ {0}
    BY <2>1, Zenon DEF Assigned
  <2>4. ASSUME NEW x \in Assigned(C) PROVE x \in met
    <3>1. PICK a \in 1 .. Len(F) : x = C[a] /\ x # 0 BY <2>3, <2>4
    <3>2. CASE a <= m
      <4>1. a \in 1 .. m BY <1>4, <3>2
      <4> QED BY <1>9, <2>2, <3>1, <4>1
    <3>3. CASE ~(a <= m)
      <4>1. a - m \in 1 .. Len(W) /\ m + (a - m) = a BY <1>2, <1>3, <1>4, <3>3
      <4>2. C[a] = A[a - m] BY <1>9, <4>1
      <4> QED BY <2>3, <3>1, <4>1, <4>2
    <3> QED BY <3>2, <3>3
  <2>5. ASSUME NEW x \in met PROVE x \in Assigned(C)
    <3>1. CASE x \in U
      <4>1. PICK a \in 1 .. m : x = B[a] /\ x # 0 BY <2>2, <3>1
      <4>2. a \in 1 .. Len(F) BY <1>2, <1>3, <1>4
      <4> QED BY <1>9, <2>3, <4>1, <4>2
    <3>2. CASE x \in Assigned(A)
      <4>1. PICK i \in 1 .. Len(W) : x = A[i] /\ x # 0 BY <2>3, <3>2
      <4>2. m + i \in 1 .. Len(F) /\ C[m + i] = A[i] BY <1>3, <1>4, <1>9
      <4> QED BY <2>3, <4>1, <4>2
    <3> QED BY <2>5, <3>1, <3>2
  <2> QED BY <2>4, <2>5
<1>11. /\ Y \in Seq(Entries) /\ Len(Y) = c
       /\ \A i \in 1 .. c : Y[i] = Entry(E, Nth(unmet, i), <<>>, 0)
       /\ unmet \in SUBSET Nat /\ IsFiniteSet(unmet)
  BY <1>5, MissingIs
<1>12. c \in Nat BY <1>11, FS_CardinalityType
<1>13. \A i \in DOMAIN W : A[i] \in 0 .. Len(E) BY <1>7 DEF Assignments
<1>14. /\ X \in Seq(Entries) /\ Len(X) = Len(W)
       /\ \A i \in DOMAIN W : X[i] = Entry(E, A[i], F, m + i)
  <2>1. Given(W, E) BY <1>1
  <2>2. m \in Nat /\ \A i \in DOMAIN W : W[i] = F[m + i] BY <1>4
  <2> QED BY <1>13, <2>1, <2>2, EntriesOfIs
<1>15. \A i \in 1 .. Len(W) : X[i] = batch[m + i]
  <2> SUFFICES ASSUME NEW i \in 1 .. Len(W) PROVE X[i] = batch[m + i] OBVIOUS
  <2>1. m + i \in 1 .. Len(F) BY <1>3, <1>4
  <2>2. batch[m + i] = Entry(E, A[i], F, m + i) BY <1>8, <1>9, <2>1
  <2> QED BY <1>3, <1>14, <2>2
<1>16. \A a \in 1 .. m : H[a] = batch[a]
  <2>1. \A a \in 1 .. m : a \in 1 .. Len(F) BY <1>2, <1>3, <1>4
  <2> QED BY <1>8, <1>9, <2>1
<1>17. Len(batch) = m + (Len(W) + c) /\ \A i \in 1 .. c : batch[(m + Len(W)) + i] = Y[i]
  <2>1. DOMAIN E \ Assigned(C) = unmet BY <1>10
  <2>2. Len(batch) = Len(F) + c /\ \A i \in 1 .. c : batch[Len(F) + i] = Entry(E, Nth(unmet, i), <<>>, 0)
    BY <1>8, <2>1
  <2>3. Len(F) + c = m + (Len(W) + c) BY <1>3, <1>4, <1>12
  <2> QED BY <1>4, <1>11, <2>2, <2>3
<1> HIDE DEF X, Y, D, batch, unmet, met
<1>18. /\ D \in Seq(Entries) /\ Len(D) = Len(W) + c
       /\ \A i \in 1 .. Len(W) + c : D[i] = IF i <= Len(W) THEN X[i] ELSE Y[i - Len(W)]
  <2>1. /\ X \o Y \in Seq(Entries) /\ Len(X \o Y) = Len(X) + Len(Y)
        /\ \A i \in 1 .. Len(X) + Len(Y) : (X \o Y)[i] = IF i <= Len(X) THEN X[i] ELSE Y[i - Len(X)]
    <3>1. X \in Seq(Entries) /\ Y \in Seq(Entries) BY <1>11, <1>14
    <3> QED BY <3>1, ConcatProperties
  <2> QED BY <1>6, <1>11, <1>14, <2>1
<1>19. \A i \in 1 .. Len(W) + c : D[i] = batch[m + i]
  <2> SUFFICES ASSUME NEW i \in 1 .. Len(W) + c PROVE D[i] = batch[m + i] OBVIOUS
  <2>1. CASE i <= Len(W)
    <3>1. i \in 1 .. Len(W) BY <1>3, <2>1
    <3> QED BY <1>15, <1>18, <2>1, <3>1
  <2>2. CASE ~(i <= Len(W))
    <3>1. i - Len(W) \in 1 .. c /\ (m + Len(W)) + (i - Len(W)) = m + i BY <1>3, <1>4, <1>12, <2>2
    <3>2. batch[m + i] = Y[i - Len(W)] BY <1>17, <3>1
    <3> QED BY <1>18, <2>2, <3>2
  <2> QED BY <2>1, <2>2
<1>20. H \o D = batch
  <2>1. /\ H \o D \in Seq(Entries) /\ Len(H \o D) = Len(H) + Len(D)
        /\ \A i \in 1 .. Len(H) + Len(D) : (H \o D)[i] = IF i <= Len(H) THEN H[i] ELSE D[i - Len(H)]
    BY <1>18, ConcatProperties, Zenon
  <2>2. Len(H \o D) = Len(batch) BY <1>17, <1>18, <2>1
  <2>3. \A i \in 1 .. Len(H \o D) : (H \o D)[i] = batch[i]
    <3> SUFFICES ASSUME NEW i \in 1 .. m + (Len(W) + c) PROVE (H \o D)[i] = batch[i]
      BY <1>18, <2>1
    <3>1. CASE i <= m
      <4>1. i \in 1 .. m BY <1>4, <3>1
      <4> QED BY <1>16, <1>18, <2>1, <3>1, <4>1
    <3>2. CASE ~(i <= m)
      <4>1. i - m \in 1 .. Len(W) + c /\ m + (i - m) = i BY <1>3, <1>4, <1>12, <3>2
      <4>2. D[i - m] = batch[i] BY <1>19, <4>1
      <4> QED BY <1>18, <2>1, <3>2, <4>2
    <3> QED BY <3>1, <3>2
  <2> QED BY <1>8, <2>1, <2>2, <2>3, SeqEqual DEF batch
<1>21. PrefixOf(H, batch)
  <2>1. Len(H) <= Len(batch) BY <1>3, <1>4, <1>12, <1>17
  <2>2. DOMAIN H = 1 .. m OBVIOUS
  <2> QED BY <1>16, <2>1, <2>2 DEF PrefixOf
<1>22. Len(W) <= Len(D) BY <1>3, <1>12, <1>18
<1> QED BY <1>18, <1>20, <1>21, <1>22 DEF batch, D

-----------------------------------------------------------------------------
(* What a channel that may still be recorded has settled: H are its entries, *)
(* P the findings that wait.                                                 *)
Met(H) == [a \in DOMAIN H |-> H[a].expected]

Follows(F, E, U, P, H, ch) ==
    /\ RestOf(F, Len(H), P)
    /\ Settled(F, E, U, Met(H), Len(H))
    /\ \A a \in 1 .. Len(H) : H[a] = Entry(E, H[a].expected, F, a)
    /\ ch = "packet" => \A a \in DOMAIN F : F[a].identity.position = a
    /\ ch = "flow" =>
           \A a \in 1 .. Len(H) : H[a].expected # 0 => RankOf(F, E, a, H[a].expected) = 1

LEMMA GivenMore ==
    ASSUME NEW F, NEW E, Given(F, E), NEW x \in Findings
    PROVE  /\ Given(Append(F, x), E)
           /\ Len(Append(F, x)) = Len(F) + 1 /\ Len(F) \in Nat
           /\ DOMAIN F = 1 .. Len(F) /\ DOMAIN Append(F, x) = 1 .. Len(F) + 1
           /\ \A a \in 1 .. Len(F) : Append(F, x)[a] = F[a]
           /\ Append(F, x)[Len(F) + 1] = x
<1>1. F \in Seq(Findings) BY DEF Given
<1>2. /\ Append(F, x) \in Seq(Findings) /\ Len(Append(F, x)) = Len(F) + 1
      /\ \A a \in 1 .. Len(F) : Append(F, x)[a] = F[a]
      /\ Append(F, x)[Len(F) + 1] = x
  BY <1>1, AppendProperties
<1>3. Len(F) \in Nat /\ DOMAIN F = 1 .. Len(F) BY <1>1, LenProperties
<1>4. DOMAIN Append(F, x) = 1 .. Len(F) + 1 BY <1>2, LenProperties
<1> QED BY <1>2, <1>3, <1>4 DEF Given

(* A finding that comes changes nothing for those before it.                 *)
LEMMA SameEntries ==
    ASSUME NEW F, NEW E, NEW G, NEW a \in Nat \ {0}, G[a] = F[a], NEW e
    PROVE  Entry(E, e, G, a) = Entry(E, e, F, a) /\ RankOf(G, E, a, e) = RankOf(F, E, a, e)
<1>1. Classification(E, e, G, a) = Classification(E, e, F, a) BY Zenon DEF Classification
<1> QED BY <1>1 DEF Entry, RankOf

LEMMA FollowsMore ==
    ASSUME NEW F, NEW E, Given(F, E), NEW U, NEW P, NEW H \in Seq(Entries), NEW ch,
           Follows(F, E, U, P, H, ch), NEW x \in Findings,
           ch = "packet" => x.identity.position = Len(F) + 1
    PROVE  Follows(Append(F, x), E, U, Append(P, x), H, ch)
<1> DEFINE G == Append(F, x)
           Q == Append(P, x)
           m == Len(H)
<1>1. /\ Given(G, E) /\ Len(G) = Len(F) + 1 /\ Len(F) \in Nat
      /\ DOMAIN F = 1 .. Len(F) /\ DOMAIN G = 1 .. Len(F) + 1
      /\ \A a \in 1 .. Len(F) : G[a] = F[a]
      /\ G[Len(F) + 1] = x
  BY GivenMore
<1>2. /\ P \in Seq(Findings) /\ Len(F) = m + Len(P) /\ \A i \in DOMAIN P : P[i] = F[m + i]
  BY DEF Follows, RestOf
<1>3. /\ Q \in Seq(Findings) /\ Len(Q) = Len(P) + 1 /\ DOMAIN Q = 1 .. Len(P) + 1
      /\ \A i \in 1 .. Len(P) : Q[i] = P[i]
      /\ Q[Len(P) + 1] = x /\ DOMAIN P = 1 .. Len(P) /\ Len(P) \in Nat
  <2>1. /\ Q \in Seq(Findings) /\ Len(Q) = Len(P) + 1
        /\ \A i \in 1 .. Len(P) : Q[i] = P[i]
        /\ Q[Len(P) + 1] = x
    BY <1>2, AppendProperties
  <2> QED BY <1>2, <2>1, LenProperties
<1>4. m \in Nat BY LenProperties
<1>5. Settled(G, E, U, Met(H), m) BY SettledMore DEF Follows
<1> HIDE DEF G, Q
<1>6. RestOf(G, m, Q)
  <2>1. Len(G) = m + Len(Q) BY <1>1, <1>2, <1>3, <1>4
  <2>2. ASSUME NEW i \in DOMAIN Q PROVE Q[i] = G[m + i]
    <3>1. CASE i \in 1 .. Len(P)
      <4>1. m + i \in 1 .. Len(F) BY <1>1, <1>2, <1>3, <1>4, <3>1
      <4> QED BY <1>1, <1>2, <1>3, <3>1, <4>1
    <3>2. CASE i \notin 1 .. Len(P)
      <4>1. i = Len(P) + 1 BY <1>3, <3>2
      <4>2. m + i = Len(F) + 1 BY <1>2, <1>3, <1>4, <4>1
      <4> QED BY <1>1, <1>3, <4>1, <4>2
    <3> QED BY <3>1, <3>2
  <2> QED BY <1>3, <2>1, <2>2 DEF RestOf
<1>7. \A a \in 1 .. m : a \in Nat \ {0} /\ G[a] = F[a]
  <2>1. \A a \in 1 .. m : a \in 1 .. Len(F) BY <1>1, <1>2, <1>3, <1>4
  <2> QED BY <1>1, <2>1
<1>8. \A a \in 1 .. m : \A e :
          Entry(E, e, G, a) = Entry(E, e, F, a) /\ RankOf(G, E, a, e) = RankOf(F, E, a, e)
  BY <1>7, SameEntries
<1>9. \A a \in 1 .. m : H[a] = Entry(E, H[a].expected, G, a) BY <1>8, Zenon DEF Follows
<1>10. ch = "packet" => \A a \in DOMAIN G : G[a].identity.position = a
  <2> SUFFICES ASSUME ch = "packet", NEW a \in DOMAIN G PROVE G[a].identity.position = a OBVIOUS
  <2>1. CASE a \in 1 .. Len(F)
    <3>1. F[a].identity.position = a BY <1>1, <2>1 DEF Follows
    <3> QED BY <1>1, <2>1, <3>1
  <2>2. CASE a \notin 1 .. Len(F)
    <3>1. a = Len(F) + 1 BY <1>1, <2>2
    <3> QED BY <1>1, <3>1
  <2> QED BY <2>1, <2>2
<1>11. ch = "flow" => \A a \in 1 .. m : H[a].expected # 0 => RankOf(G, E, a, H[a].expected) = 1
  BY <1>8, Zenon DEF Follows
<1>12. Follows(G, E, U, Q, H, ch) BY <1>5, <1>6, <1>9, <1>10, <1>11, Zenon DEF Follows
<1> QED BY <1>12 DEF G, Q

(* The first free expectation of the finding's identity.                     *)
FirstFree(E, U, x) ==
    LET free == {e \in DOMAIN E : e \notin U /\ E[e].identity = x.identity}
    IN IF free = {} THEN 0 ELSE Least(free)

LEMMA FollowsSettled ==
    ASSUME NEW F, NEW E, Given(F, E), NEW U, NEW H \in Seq(Entries), NEW ch,
           Follows(F, E, U, <<>>, H, ch), NEW x \in Findings,
           ch = "packet" => x.identity.position = Len(F) + 1,
           NEW e, e = FirstFree(E, U, x), ch = "flow" /\ e # 0 => x.decision = Required(E[e]),
           NEW entry, entry = Entry(E, e, Append(F, x), Len(F) + 1)
    PROVE  /\ entry \in Entries
           /\ Follows(Append(F, x), E, U \cup ({e} \ {0}), <<>>, Append(H, entry), ch)
<1> DEFINE G == Append(F, x)
           K == Append(H, entry)
           m == Len(H)
<1>1. /\ Given(G, E) /\ Len(G) = Len(F) + 1 /\ Len(F) \in Nat
      /\ DOMAIN F = 1 .. Len(F) /\ DOMAIN G = 1 .. Len(F) + 1
      /\ \A a \in 1 .. Len(F) : G[a] = F[a]
      /\ G[Len(F) + 1] = x
  BY GivenMore
<1>2. m \in Nat /\ m = Len(F)
  <2>1. m \in Nat BY LenProperties
  <2>2. Len(F) = m + Len(<<>>) BY DEF Follows, RestOf
  <2>3. Len(<<>>) = 0 OBVIOUS
  <2> QED BY <2>1, <2>2, <2>3
<1>3. ch = "packet" => \A a \in 1 .. Len(F) : F[a].identity.position = a
  BY <1>1 DEF Follows
<1>4. Settled(F, E, U, Met(H), m) BY DEF Follows
<1>5. Settled(G, E, U, Met(H), m) BY <1>4, SettledMore
<1> HIDE DEF G
<1>6. G[m + 1] = x /\ m + 1 \in DOMAIN G BY <1>1, <1>2
<1>7. /\ DOMAIN E = 1 .. Len(E) /\ Len(E) \in Nat BY <1>1, Ranks
<1>8. e = LET free == {g \in DOMAIN E : g \notin U /\ Meets(G, E, m + 1, g)}
          IN IF free = {} THEN 0 ELSE Least(free)
  <2>1. {g \in DOMAIN E : g \notin U /\ E[g].identity = x.identity}
          = {g \in DOMAIN E : g \notin U /\ Meets(G, E, m + 1, g)}
    BY <1>6 DEF Meets
  <2> QED BY <2>1, Zenon DEF FirstFree
<1>9. e \in 0 .. Len(E) /\ (e # 0 => e \in DOMAIN E)
  <2> DEFINE free == {g \in DOMAIN E : g \notin U /\ Meets(G, E, m + 1, g)}
  <2>1. free \in SUBSET Nat /\ free \subseteq 1 .. Len(E) BY <1>7
  <2>2. e = IF free = {} THEN 0 ELSE Least(free) BY <1>8, Zenon
  <2> HIDE DEF free
  <2>3. free # {} => Least(free) \in free BY <2>1, LeastIs
  <2> QED BY <1>7, <2>1, <2>2, <2>3
<1>10. /\ entry \in Entries /\ entry.expected = e /\ entry = Entry(E, e, G, m + 1)
  <2>1. e \in Nat /\ m + 1 \in Nat /\ Len(F) + 1 = m + 1 BY <1>2, <1>7, <1>9
  <2>2. entry = Entry(E, e, G, m + 1) BY <2>1 DEF G
  <2> QED BY <2>1, <2>2, EntryIs
<1>11. /\ K \in Seq(Entries) /\ Len(K) = m + 1 /\ DOMAIN K = 1 .. m + 1
       /\ \A a \in 1 .. m : K[a] = H[a]
       /\ K[m + 1] = entry
  <2>1. /\ K \in Seq(Entries) /\ Len(K) = m + 1
        /\ \A a \in 1 .. m : K[a] = H[a]
        /\ K[m + 1] = entry
    BY <1>10, AppendProperties
  <2> QED BY <2>1, LenProperties
<1> HIDE DEF K
<1>12. /\ Met(K)[m + 1] = e /\ \A a \in 1 .. m : Met(K)[a] = Met(H)[a]
  <2>1. DOMAIN H = 1 .. m BY LenProperties
  <2>2. \A a \in 1 .. m : a \in 1 .. m + 1 BY <1>2
  <2>3. m + 1 \in 1 .. m + 1 BY <1>2
  <2> QED BY <1>10, <1>11, <2>1, <2>2, <2>3 DEF Met
<1>13. Settled(G, E, U \cup ({e} \ {0}), Met(K), m + 1)
  <2> DEFINE C == Met(K)
  <2>1. \A a \in 1 .. m : C[a] = Met(H)[a] BY <1>12
  <2>2. C[m + 1] = LET free == {g \in DOMAIN E : g \notin U /\ Meets(G, E, m + 1, g)}
                   IN IF free = {} THEN 0 ELSE Least(free)
    BY <1>8, <1>12, Zenon
  <2>3. C[m + 1] = e BY <1>12
  <2> HIDE DEF C
  <2>4. Settled(G, E, U \cup ({C[m + 1]} \ {0}), C, m + 1) BY <1>1, <1>5, <1>6, <2>1, <2>2, SettledNext
  <2>5. Settled(G, E, U \cup ({e} \ {0}), C, m + 1) BY <2>3, <2>4, Zenon
  <2> QED BY <2>5 DEF C
<1>14. \A a \in 1 .. m : \A g :
           Entry(E, g, G, a) = Entry(E, g, F, a) /\ RankOf(G, E, a, g) = RankOf(F, E, a, g)
  <2>1. \A a \in 1 .. m : a \in Nat \ {0} /\ G[a] = F[a] BY <1>1, <1>2
  <2> QED BY <2>1, SameEntries
<1>15. \A a \in 1 .. m + 1 : a \in 1 .. m \/ a = m + 1 BY <1>2
<1>16. \A a \in 1 .. m + 1 : K[a] = Entry(E, K[a].expected, G, a)
  <2>1. \A a \in 1 .. m : H[a] = Entry(E, H[a].expected, F, a) BY DEF Follows
  <2> QED BY <1>10, <1>11, <1>14, <1>15, <2>1
<1>17. ch = "packet" => \A a \in DOMAIN G : G[a].identity.position = a
  BY <1>1, <1>2, <1>3, <1>15
<1>18. ch = "flow" => \A a \in 1 .. m + 1 : K[a].expected # 0 => RankOf(G, E, a, K[a].expected) = 1
  <2> SUFFICES ASSUME ch = "flow", NEW a \in 1 .. m + 1, K[a].expected # 0
               PROVE  RankOf(G, E, a, K[a].expected) = 1
    OBVIOUS
  <2>1. CASE a \in 1 .. m
    <3>1. H[a].expected # 0 => RankOf(F, E, a, H[a].expected) = 1 BY <2>1 DEF Follows
    <3> QED BY <1>11, <1>14, <2>1, <3>1
  <2>2. CASE a = m + 1
    <3>1. K[a].expected = e /\ e # 0 BY <1>10, <1>11, <2>2
    <3>2. G[a].decision = Required(E[e]) BY <1>6, <2>2, <3>1
    <3>3. a \in DOMAIN G /\ e \in DOMAIN E BY <1>6, <1>9, <2>2, <3>1
    <3>4. Given(G, E) BY <1>1
    <3>5. RankOf(G, E, a, e) = 1 BY <3>2, <3>3, <3>4, RankOne
    <3> QED BY <3>1, <3>5
  <2> QED BY <1>15, <2>1, <2>2
<1>19. RestOf(G, Len(K), <<>>)
  <2>1. Len(<<>>) = 0 /\ <<>> \in Seq(Findings) /\ DOMAIN <<>> = {} OBVIOUS
  <2>2. Len(G) = Len(K) + Len(<<>>) BY <1>1, <1>2, <1>11, <2>1
  <2> QED BY <2>1, <2>2 DEF RestOf
<1>20. Follows(G, E, U \cup ({e} \ {0}), <<>>, K, ch)
  BY <1>11, <1>13, <1>16, <1>17, <1>18, <1>19, Zenon DEF Follows
<1> QED BY <1>10, <1>20 DEF G, K

LEMMA FollowsBatch ==
    ASSUME NEW F, NEW E, Given(F, E), NEW U, NEW P, NEW H \in Seq(Entries), NEW ch \in Channels,
           Follows(F, E, U, P, H, ch)
    PROVE  /\ PrefixOf(H, EvaluateChannel(F, E))
           /\ Due(P, E, U, Len(H)) \in Seq(Entries) /\ Len(P) <= Len(Due(P, E, U, Len(H)))
           /\ H \o Due(P, E, U, Len(H)) = EvaluateChannel(F, E)
<1>1. RestOf(F, Len(H), P) /\ Settled(F, E, U, Met(H), Len(H)) BY DEF Follows
<1>2. DOMAIN H = 1 .. Len(H) BY LenProperties
<1>3. \A a \in 1 .. Len(H) : Met(H)[a] = H[a].expected BY <1>2 DEF Met
<1>4. \A a \in 1 .. Len(H) : H[a] = Entry(E, Met(H)[a], F, a) BY <1>3, Zenon DEF Follows
<1>5. Firm(F, E, Met(H), Len(H))
  <2>1. CASE ch = "packet" BY <2>1 DEF Follows, Firm
  <2>2. CASE ch = "flow"
    <3>1. \A a \in 1 .. Len(H) : H[a].expected # 0 => RankOf(F, E, a, H[a].expected) = 1
      BY <2>2 DEF Follows
    <3>2. \A a \in 1 .. Len(H) : Met(H)[a] # 0 => RankOf(F, E, a, Met(H)[a]) = 1
      BY <1>3, <3>1
    <3> QED BY <3>2 DEF Firm
  <2> QED BY <2>1, <2>2 DEF Channels
<1> QED BY <1>1, <1>4, <1>5, EarlyIsBatch

-----------------------------------------------------------------------------
(* The states of the evaluator.                                              *)
EvaluatorType ==
    /\ expected \in [Channels -> Seq(Expectations)]
    /\ \A ch \in Channels : Admissible(expected[ch])
    /\ recorded \in [Channels -> Seq(Findings)]
    /\ used \in [Channels -> SUBSET Nat]
    /\ pending \in [Channels -> Seq(Findings)]
    /\ evaluator \in {"open", "busy", "failed", "finished"}
    /\ call \in [kind : {"none", "record", "finish"}, channel : Channels]
    /\ due \in Seq(Entries)
    /\ published \in [Channels -> Seq(Entries)]
    /\ evaluator # "busy" => due = <<>> /\ call = Idle
    /\ evaluator = "busy" => call.kind # "none"

(* The entries a channel has settled, handed over or about to be.            *)
Handed(ch) == published[ch] \o (IF call.channel = ch THEN due ELSE <<>>)

Finishing(ch) ==
    evaluator = "busy" /\ call.kind = "finish" /\ (ch = "packet" \/ call.channel = "flow")

Online(ch) == evaluator \in {"open", "busy"} /\ ~Finishing(ch)

Progress(ch) ==
    /\ Online(ch) => Follows(recorded[ch], expected[ch], used[ch], pending[ch], Handed(ch), ch)
    /\ Finishing(ch) => Handed(ch) = Batch(ch)
    /\ evaluator = "finished" => published[ch] = Batch(ch)
    /\ evaluator = "failed" => PrefixOf(published[ch], Batch(ch))

(* A finished channel has emptied its suffix.                                *)
Emptied(ch) ==
    /\ Finishing(ch) => Len(pending[ch]) <= IF call.channel = ch THEN Len(due) ELSE 0
    /\ evaluator \in {"failed", "finished"} => pending[ch] = <<>>

EvaluatorInv == EvaluatorType /\ \A ch \in Channels : Progress(ch) /\ Emptied(ch)

LEMMA HandedType ==
    ASSUME EvaluatorType, NEW ch \in Channels
    PROVE  /\ Handed(ch) \in Seq(Entries) /\ Given(recorded[ch], expected[ch])
           /\ published[ch] \in Seq(Entries) /\ PrefixOf(published[ch], Handed(ch))
           /\ due = <<>> \/ call.channel # ch => Handed(ch) = published[ch]
<1> DEFINE s == published[ch]
           t == IF call.channel = ch THEN due ELSE <<>>
<1>1. s \in Seq(Entries) BY DEF EvaluatorType
<1>2. t \in Seq(Entries)
  <2>1. due \in Seq(Entries) /\ <<>> \in Seq(Entries) BY DEF EvaluatorType
  <2> QED BY <2>1
<1>3. Given(recorded[ch], expected[ch]) BY DEF EvaluatorType, Given
<1>4. Handed(ch) = s \o t BY Zenon DEF Handed
<1>5. (due = <<>> \/ call.channel # ch) => t = <<>> OBVIOUS
<1> HIDE DEF s, t
<1>6. /\ s \o t \in Seq(Entries) /\ Len(s \o t) = Len(s) + Len(t)
      /\ \A i \in 1 .. Len(s) + Len(t) : (s \o t)[i] = IF i <= Len(s) THEN s[i] ELSE t[i - Len(s)]
  BY <1>1, <1>2, ConcatProperties
<1>7. Len(s) \in Nat /\ Len(t) \in Nat /\ DOMAIN s = 1 .. Len(s) BY <1>1, <1>2, LenProperties
<1>8. PrefixOf(s, s \o t)
  <2>1. Len(s) <= Len(s \o t) BY <1>6, <1>7
  <2>2. \A i \in DOMAIN s : i \in 1 .. Len(s) + Len(t) /\ i <= Len(s) BY <1>7
  <2>3. \A i \in DOMAIN s : s[i] = (s \o t)[i] BY <1>6, <2>2
  <2> QED BY <2>1, <2>3 DEF PrefixOf
<1>9. t = <<>> => s \o t = s BY <1>1, ConcatEmptySeq
<1> QED BY <1>1, <1>3, <1>4, <1>5, <1>6, <1>8, <1>9 DEF s

LEMMA PrefixTransitive ==
    ASSUME NEW S, NEW r \in Seq(S), NEW s \in Seq(S), NEW t \in Seq(S), PrefixOf(r, s), PrefixOf(s, t)
    PROVE  PrefixOf(r, t)
<1>1. /\ DOMAIN r = 1 .. Len(r) /\ DOMAIN s = 1 .. Len(s)
      /\ Len(r) \in Nat /\ Len(s) \in Nat /\ Len(t) \in Nat
  BY LenProperties
<1>2. Len(r) <= Len(s) /\ Len(s) <= Len(t) BY DEF PrefixOf
<1>3. \A i \in DOMAIN r : i \in DOMAIN s BY <1>1, <1>2
<1>4. \A i \in DOMAIN r : r[i] = t[i] BY <1>3 DEF PrefixOf
<1> QED BY <1>1, <1>2, <1>4 DEF PrefixOf

(* Whatever has been settled is the beginning of the batch evaluation.       *)
LEMMA HandedPrefix ==
    ASSUME EvaluatorInv, NEW ch \in Channels
    PROVE  /\ Batch(ch) \in Seq(Entries)
           /\ evaluator \in {"open", "busy"} => PrefixOf(Handed(ch), Batch(ch))
           /\ PrefixOf(published[ch], Batch(ch))
<1>1. EvaluatorType /\ Progress(ch) BY DEF EvaluatorInv
<1>2. /\ Handed(ch) \in Seq(Entries) /\ Given(recorded[ch], expected[ch])
      /\ published[ch] \in Seq(Entries) /\ PrefixOf(published[ch], Handed(ch))
  BY <1>1, HandedType
<1>3. Batch(ch) \in Seq(Entries) BY <1>2, BatchIs DEF Batch
<1>4. \A s \in Seq(Entries) : PrefixOf(s, s) BY LenProperties DEF PrefixOf
<1>5. CASE Online(ch)
  <2>1. PrefixOf(Handed(ch), Batch(ch)) BY <1>1, <1>2, <1>5, FollowsBatch DEF Progress, Batch
  <2> QED BY <1>2, <1>3, <2>1, PrefixTransitive
<1>6. CASE Finishing(ch)
  <2>1. Handed(ch) = Batch(ch) BY <1>1, <1>6 DEF Progress
  <2>2. PrefixOf(Handed(ch), Batch(ch)) BY <1>3, <1>4, <2>1
  <2>3. PrefixOf(published[ch], Batch(ch)) BY <1>2, <2>1
  <2> QED BY <1>3, <2>2, <2>3
<1>7. CASE evaluator = "finished"
  <2>1. PrefixOf(published[ch], Batch(ch)) BY <1>1, <1>3, <1>4, <1>7 DEF Progress
  <2> QED BY <1>3, <1>7, <2>1
<1>8. CASE evaluator = "failed"
  BY <1>1, <1>3, <1>8 DEF Progress
<1> QED BY <1>1, <1>5, <1>6, <1>7, <1>8 DEF EvaluatorType, Online

-----------------------------------------------------------------------------
LEMMA EvaluatorStarts ==
    ASSUME EvaluationInit
    PROVE  EvaluatorInv
<1>1. expected \in [Channels -> Seq(Expectations)] /\ \A ch \in Channels : Admissible(expected[ch])
  <2>1. /\ expected \in [Channels -> UNION {ExpectationsOf(ch) : ch \in Channels}]
        /\ \A ch \in Channels : expected[ch] \in ExpectationsOf(ch)
    BY DEF EvaluationInit
  <2>2. ASSUME NEW ch \in Channels, NEW s \in ExpectationsOf(ch)
        PROVE  s \in Seq(Expectations) /\ Admissible(s)
    <3>1. PICK n \in 0 .. MaxExpectations :
              s \in [1 .. n -> [identity : [position : PositionsOf(ch), target : Targets],
                                positive : BOOLEAN]]
      BY DEF ExpectationsOf
    <3>2. PositionsOf(ch) \subseteq Nat BY EvaluationBounds DEF PositionsOf
    <3>3. [identity : [position : PositionsOf(ch), target : Targets], positive : BOOLEAN]
              \subseteq Expectations
      BY <3>2 DEF Expectations, Identities
    <3>4. n \in Nat BY EvaluationBounds
    <3>5. s \in [1 .. n -> Expectations] BY <3>1, <3>3
    <3>6. s \in Seq(Expectations) BY <3>4, <3>5, FunctionSeq
    <3> QED BY <2>2, <3>6 DEF ExpectationsOf
  <2> QED BY <2>1, <2>2
<1>2. \A S : <<>> \in Seq(S) OBVIOUS
<1>3. EvaluatorType
  <2>1. /\ recorded = [ch \in Channels |-> <<>>] /\ used = [ch \in Channels |-> {}]
        /\ pending = [ch \in Channels |-> <<>>] /\ evaluator = "open" /\ call = Idle /\ due = <<>>
        /\ published = [ch \in Channels |-> <<>>]
    BY DEF EvaluationInit
  <2>2. call \in [kind : {"none", "record", "finish"}, channel : Channels]
    BY <2>1 DEF Idle, Channels
  <2>3. /\ recorded \in [Channels -> Seq(Findings)] /\ used \in [Channels -> SUBSET Nat]
        /\ pending \in [Channels -> Seq(Findings)] /\ due \in Seq(Entries)
        /\ published \in [Channels -> Seq(Entries)]
    BY <1>2, <2>1
  <2> QED BY <1>1, <2>1, <2>2, <2>3 DEF EvaluatorType
<1>4. ASSUME NEW ch \in Channels PROVE Progress(ch) /\ Emptied(ch)
  <2>1. /\ recorded[ch] = <<>> /\ used[ch] = {} /\ pending[ch] = <<>> /\ evaluator = "open"
        /\ due = <<>> /\ published[ch] = <<>>
    BY DEF EvaluationInit
  <2>2. Handed(ch) = <<>> BY <1>3, <2>1, HandedType
  <2>3. Len(<<>>) = 0 /\ <<>> \in Seq(Findings) /\ DOMAIN <<>> = {} OBVIOUS
  <2>4. \A a \in 1 .. 0 : FALSE OBVIOUS
  <2>5. RestOf(<<>>, Len(<<>>), <<>>) BY <2>3 DEF RestOf
  <2>6. \A B : Settled(<<>>, expected[ch], {}, B, 0)
    <3>1. 0 \in 0 .. Len(<<>>) BY <2>3
    <3>2. \A B : {} = {B[a] : a \in 1 .. 0} \ {0} BY <2>4
    <3> QED BY <2>4, <3>1, <3>2, Zenon DEF Settled
  <2>7. Follows(<<>>, expected[ch], {}, <<>>, <<>>, ch)
    BY <2>3, <2>4, <2>5, <2>6, Zenon DEF Follows
  <2> QED BY <2>1, <2>2, <2>7 DEF Progress, Emptied, Finishing, Online
<1> QED BY <1>3, <1>4 DEF EvaluatorInv

(* A channel that a step leaves alone.                                       *)
LEMMA ChannelKept ==
    ASSUME NEW ch \in Channels, Progress(ch),
           evaluator \in {"open", "busy"}, evaluator' \in {"open", "busy"},
           recorded'[ch] = recorded[ch], expected'[ch] = expected[ch], used'[ch] = used[ch],
           pending'[ch] = pending[ch], Handed(ch)' = Handed(ch), Finishing(ch)' <=> Finishing(ch)
    PROVE  Progress(ch)'
<1>1. Online(ch)' <=> Online(ch) BY DEF Online
<1>2. Batch(ch)' = Batch(ch) BY DEF Batch
<1>3. Online(ch)' => Follows(recorded[ch], expected[ch], used[ch], pending[ch], Handed(ch), ch)'
  BY <1>1 DEF Progress
<1> QED BY <1>2, <1>3 DEF Progress

LEMMA FindingsComing ==
    ASSUME EvaluatorType, NEW ch \in Channels, NEW x \in FindingsNow(ch)
    PROVE  /\ x \in Findings
           /\ ch = "packet" => x.identity.position = Len(recorded[ch]) + 1
           /\ MatchCurrent(ch, x) = FirstFree(expected[ch], used[ch], x)
           /\ MatchCurrent(ch, x) \in Nat
           /\ MatchCurrent(ch, x) # 0 => MatchCurrent(ch, x) \in DOMAIN expected[ch]
<1>1. Len(recorded[ch]) \in Nat BY DEF EvaluatorType
<1>2. /\ x \in Findings
      /\ ch = "packet" => x.identity.position = Len(recorded[ch]) + 1
  BY <1>1 DEF FindingsNow, Findings, Identities
<1> DEFINE free == {e \in DOMAIN expected[ch] :
                       e \notin used[ch] /\ expected[ch][e].identity = x.identity}
<1>3. MatchCurrent(ch, x) = IF free = {} THEN 0 ELSE Least(free) BY Zenon DEF MatchCurrent
<1>4. expected[ch] \in Seq(Expectations) BY DEF EvaluatorType
<1>5. free \in SUBSET Nat /\ free \subseteq DOMAIN expected[ch] BY <1>4
<1>6. MatchCurrent(ch, x) = FirstFree(expected[ch], used[ch], x) BY Zenon DEF MatchCurrent, FirstFree
<1> HIDE DEF free
<1>7. free # {} => Least(free) \in free BY <1>5, LeastIs
<1>8. MatchCurrent(ch, x) = 0 \/ MatchCurrent(ch, x) \in free BY <1>3, <1>7
<1>9. MatchCurrent(ch, x) \in Nat
  <2>1. 0 \in Nat /\ \A g \in free : g \in Nat BY <1>5
  <2> QED BY <1>8, <2>1, Zenon
<1>10. MatchCurrent(ch, x) # 0 => MatchCurrent(ch, x) \in DOMAIN expected[ch] BY <1>5, <1>8
<1> QED BY <1>2, <1>6, <1>9, <1>10

(* A finding waits, behind others or for want of a better one.               *)
Waits(c, x) ==
    /\ evaluator = "open"
    /\ Index(c, x)
    /\ pending' = [pending EXCEPT ![c] = Append(@, x)]
    /\ UNCHANGED <<expected, used, evaluator, call, due, published>>

LEMMA WaitsStep ==
    ASSUME EvaluatorInv, NEW c \in Channels, NEW x \in FindingsNow(c), Waits(c, x)
    PROVE  EvaluatorInv'
<1>1. EvaluatorType /\ \A ch \in Channels : Progress(ch) /\ Emptied(ch) BY DEF EvaluatorInv
<1>2. /\ x \in Findings
      /\ c = "packet" => x.identity.position = Len(recorded[c]) + 1
  BY <1>1, FindingsComing
<1>3. /\ evaluator = "open" /\ evaluator' = "open"
      /\ expected' = expected /\ used' = used /\ call' = call /\ due' = due /\ published' = published
      /\ pending' = [pending EXCEPT ![c] = Append(pending[c], x)]
      /\ recorded' = [recorded EXCEPT ![c] = Append(recorded[c], x)]
  BY DEF Waits, Index
<1>4. recorded \in [Channels -> Seq(Findings)] /\ pending \in [Channels -> Seq(Findings)]
  BY <1>1 DEF EvaluatorType
<1>5. Append(recorded[c], x) \in Seq(Findings) /\ Append(pending[c], x) \in Seq(Findings)
  BY <1>2, <1>4, AppendProperties
<1>6. EvaluatorType'
  <2>1. recorded' \in [Channels -> Seq(Findings)] /\ pending' \in [Channels -> Seq(Findings)]
    BY <1>3, <1>4, <1>5
  <2> QED BY <1>1, <1>3, <2>1 DEF EvaluatorType
<1>7. \A ch \in Channels : ~Finishing(ch) /\ ~Finishing(ch)' BY <1>3 DEF Finishing
<1>8. \A ch \in Channels : Handed(ch)' = Handed(ch) BY <1>3 DEF Handed
<1>9. ASSUME NEW ch \in Channels, ch # c PROVE Progress(ch)'
  <2>1. recorded'[ch] = recorded[ch] /\ pending'[ch] = pending[ch] BY <1>3, <1>4, <1>9
  <2> QED BY <1>1, <1>3, <1>7, <1>8, <2>1, ChannelKept
<1>10. Progress(c)'
  <2>1. recorded'[c] = Append(recorded[c], x) /\ pending'[c] = Append(pending[c], x)
    BY <1>3, <1>4
  <2>2. Handed(c) \in Seq(Entries) /\ Given(recorded[c], expected[c]) BY <1>1, HandedType
  <2>3. Follows(recorded[c], expected[c], used[c], pending[c], Handed(c), c)
    BY <1>1, <1>3, <1>7 DEF Progress, Online
  <2>4. Follows(Append(recorded[c], x), expected[c], used[c], Append(pending[c], x), Handed(c), c)
    BY <1>2, <2>2, <2>3, FollowsMore
  <2>5. Follows(recorded[c], expected[c], used[c], pending[c], Handed(c), c)'
    BY <1>3, <1>8, <2>1, <2>4
  <2> QED BY <1>3, <1>7, <2>5 DEF Progress
<1>11. ASSUME NEW ch \in Channels PROVE Emptied(ch)'
  BY <1>3, <1>7 DEF Emptied
<1> QED BY <1>6, <1>9, <1>10, <1>11 DEF EvaluatorInv

LEMMA WaitingFindings ==
    ASSUME EvaluatorType, NEW c \in Channels, NEW x,
           RecordBehind(c, x) \/ RecordDeferred(c, x)
    PROVE  Waits(c, x)
<1>1. pending \in [Channels -> Seq(Findings)] BY DEF EvaluatorType
<1>2. CASE RecordBehind(c, x) BY <1>2 DEF RecordBehind, MayRecord, Waits
<1>3. CASE RecordDeferred(c, x)
  <2>1. Append(<<>>, x) = <<x>> OBVIOUS
  <2>2. pending' = [pending EXCEPT ![c] = Append(pending[c], x)]
    BY <1>3, <2>1 DEF RecordDeferred
  <2> QED BY <1>3, <2>2 DEF RecordDeferred, MayRecord, Waits
<1> QED BY <1>2, <1>3

LEMMA SettledStep ==
    ASSUME EvaluatorInv, NEW c \in Channels, NEW x \in FindingsNow(c), RecordSettled(c, x)
    PROVE  EvaluatorInv'
<1> DEFINE e == MatchCurrent(c, x)
           F == recorded[c]
           G == Append(F, x)
           entry == Entry(expected[c], e, G, Len(F) + 1)
<1>1. EvaluatorType /\ \A ch \in Channels : Progress(ch) /\ Emptied(ch) BY DEF EvaluatorInv
<1>2. /\ x \in Findings
      /\ c = "packet" => x.identity.position = Len(recorded[c]) + 1
      /\ e = FirstFree(expected[c], used[c], x)
      /\ e \in Nat
      /\ e # 0 => e \in DOMAIN expected[c]
  BY <1>1, FindingsComing
<1>3. recorded \in [Channels -> Seq(Findings)] /\ used \in [Channels -> SUBSET Nat]
      /\ published \in [Channels -> Seq(Entries)]
  BY <1>1 DEF EvaluatorType
<1>4. G \in Seq(Findings) /\ Len(G) = Len(F) + 1 /\ Len(F) \in Nat BY <1>2, <1>3, AppendProperties
<1>5. recorded' = [recorded EXCEPT ![c] = G] /\ recorded'[c] = G
  BY <1>3 DEF RecordSettled, Index
<1>6. /\ evaluator = "open" /\ evaluator' = "busy" /\ call' = [kind |-> "record", channel |-> c]
      /\ expected' = expected /\ pending' = pending /\ published' = published
      /\ pending[c] = <<>>
      /\ used' = [used EXCEPT ![c] = used[c] \cup ({e} \ {0})]
      /\ due' = <<Entry(expected[c], e, recorded'[c], Len(recorded'[c]))>>
  BY DEF RecordSettled, MayRecord
<1>7. due' = <<entry>> BY <1>4, <1>5, <1>6
<1>8. call'.kind = "record" /\ call'.channel = c BY <1>6
<1>9. c = "flow" /\ e # 0 => x.decision = Required(expected[c][e])
  BY DEF RecordSettled, Displaceable
<1>10. due = <<>> BY <1>1, <1>6 DEF EvaluatorType
<1>11. /\ Handed(c) \in Seq(Entries) /\ Given(F, expected[c]) /\ Handed(c) = published[c]
  BY <1>1, <1>10, HandedType
<1>12. \A ch \in Channels : ~Finishing(ch) /\ ~Finishing(ch)' BY <1>6, <1>8 DEF Finishing
<1>13. Follows(F, expected[c], used[c], <<>>, Handed(c), c)
  BY <1>1, <1>6, <1>12 DEF Progress, Online
<1>14. /\ entry \in Entries
       /\ Follows(G, expected[c], used[c] \cup ({e} \ {0}), <<>>, Append(Handed(c), entry), c)
  <2> HIDE DEF e
  <2>1. c = "packet" => x.identity.position = Len(F) + 1 BY <1>2
  <2>2. e = FirstFree(expected[c], used[c], x) BY <1>2
  <2>3. x \in Findings BY <1>2
  <2>4. Given(F, expected[c]) /\ Handed(c) \in Seq(Entries) BY <1>11
  <2> HIDE DEF F
  <2> QED BY <1>9, <1>13, <2>1, <2>2, <2>3, <2>4, FollowsSettled
<1> HIDE DEF e, G, entry
<1>15. EvaluatorType'
  <2>1. recorded' \in [Channels -> Seq(Findings)] /\ used' \in [Channels -> SUBSET Nat]
    BY <1>2, <1>3, <1>4, <1>5, <1>6
  <2>2. due' \in Seq(Entries) BY <1>7, <1>14
  <2>3. call' \in [kind : {"none", "record", "finish"}, channel : Channels] BY <1>6
  <2> QED BY <1>1, <1>6, <1>8, <2>1, <2>2, <2>3 DEF EvaluatorType
<1>16. ASSUME NEW ch \in Channels, ch # c PROVE Progress(ch)'
  <2>1. recorded'[ch] = recorded[ch] /\ used'[ch] = used[ch] BY <1>3, <1>5, <1>6, <1>16
  <2>2. Handed(ch) = published[ch] BY <1>1, <1>10, HandedType
  <2>3. Handed(ch)' = published[ch]
    <3>1. published'[ch] = published[ch] /\ published[ch] \in Seq(Entries) BY <1>3, <1>6
    <3>2. published[ch] \o <<>> = published[ch] BY <3>1, ConcatEmptySeq
    <3> QED BY <1>8, <1>16, <3>1, <3>2 DEF Handed
  <2> QED BY <1>1, <1>6, <1>12, <2>1, <2>2, <2>3, ChannelKept
<1>17. Progress(c)'
  <2>1. Handed(c)' = Append(Handed(c), entry)
    <3>1. Handed(c)' = published[c] \o <<entry>> BY <1>6, <1>7, <1>8 DEF Handed
    <3>2. published[c] \o <<entry>> = Append(published[c], entry) BY <1>3, <1>14
    <3> QED BY <1>11, <3>1, <3>2
  <2>2. used'[c] = used[c] \cup ({e} \ {0}) BY <1>3, <1>6
  <2>3. Follows(recorded[c], expected[c], used[c], pending[c], Handed(c), c)'
    BY <1>5, <1>6, <1>14, <2>1, <2>2
  <2> QED BY <1>6, <1>12, <2>3 DEF Progress
<1>18. ASSUME NEW ch \in Channels PROVE Emptied(ch)'
  BY <1>6, <1>12 DEF Emptied
<1> QED BY <1>15, <1>16, <1>17, <1>18 DEF EvaluatorInv

(* The evaluator fails: what was published stays a beginning.                *)
LEMMA FailStep ==
    ASSUME EvaluatorInv, Fail, published' \in [Channels -> Seq(Entries)],
           \A ch \in Channels : PrefixOf(published'[ch], Batch(ch))
    PROVE  EvaluatorInv'
<1>1. EvaluatorType BY DEF EvaluatorInv
<1>2. /\ evaluator' = "failed" /\ pending' = [ch \in Channels |-> <<>>]
      /\ call' = Idle /\ due' = <<>>
      /\ expected' = expected /\ recorded' = recorded /\ used' = used
  BY DEF Fail
<1>3. \A S : <<>> \in Seq(S) OBVIOUS
<1>4. EvaluatorType'
  <2>1. Idle \in [kind : {"none", "record", "finish"}, channel : Channels] BY DEF Idle, Channels
  <2>2. pending' \in [Channels -> Seq(Findings)] /\ due' \in Seq(Entries) BY <1>2, <1>3
  <2> QED BY <1>1, <1>2, <2>1, <2>2 DEF EvaluatorType
<1>5. \A ch \in Channels : Batch(ch)' = Batch(ch) BY <1>2 DEF Batch
<1>6. ASSUME NEW ch \in Channels PROVE Progress(ch)' /\ Emptied(ch)'
  <2>1. ~Online(ch)' /\ ~Finishing(ch)' /\ evaluator' # "finished" BY <1>2 DEF Online, Finishing
  <2>2. PrefixOf(published[ch], Batch(ch))' BY <1>5
  <2>3. pending'[ch] = <<>> BY <1>2
  <2> QED BY <2>1, <2>2, <2>3 DEF Progress, Emptied
<1> QED BY <1>4, <1>6 DEF EvaluatorInv

LEMMA QuietFailStep ==
    ASSUME EvaluatorInv, Fail, UNCHANGED published
    PROVE  EvaluatorInv'
<1>1. published' = published /\ published \in [Channels -> Seq(Entries)]
  BY DEF EvaluatorInv, EvaluatorType
<1>2. \A ch \in Channels : PrefixOf(published'[ch], Batch(ch)) BY <1>1, HandedPrefix
<1> QED BY <1>1, <1>2, FailStep

(* The next entry goes from what is due to what is published.                *)
LEMMA HandOverMoves ==
    ASSUME NEW S, NEW s \in Seq(S), NEW t \in Seq(S), t # <<>>
    PROVE  /\ Head(t) \in S /\ Tail(t) \in Seq(S) /\ Len(Tail(t)) = Len(t) - 1
           /\ Append(s, Head(t)) \in Seq(S)
           /\ Append(s, Head(t)) \o Tail(t) = s \o t
           /\ PrefixOf(Append(s, Head(t)), s \o t)
<1> DEFINE h == Head(t)
           u == Tail(t)
           r == Append(s, h)
           z == s \o t
<1>1. /\ h \in S /\ u \in Seq(S) /\ Len(u) = Len(t) - 1
      /\ \A i \in 1 .. Len(u) : u[i] = t[i + 1]
  BY HeadTailProperties
<1>2. h = t[1] OBVIOUS
<1>3. Len(s) \in Nat /\ Len(t) \in Nat /\ Len(t) # 0
  BY EmptySeq, LenProperties
<1> HIDE DEF h, u
<1>4. /\ r \in Seq(S) /\ Len(r) = Len(s) + 1
      /\ \A i \in 1 .. Len(s) : r[i] = s[i]
      /\ r[Len(s) + 1] = h
  BY <1>1, AppendProperties
<1>5. /\ z \in Seq(S) /\ Len(z) = Len(s) + Len(t)
      /\ \A i \in 1 .. Len(s) + Len(t) : z[i] = IF i <= Len(s) THEN s[i] ELSE t[i - Len(s)]
  BY ConcatProperties
<1> HIDE DEF r, z
<1>6. /\ r \o u \in Seq(S) /\ Len(r \o u) = Len(r) + Len(u)
      /\ \A i \in 1 .. Len(r) + Len(u) : (r \o u)[i] = IF i <= Len(r) THEN r[i] ELSE u[i - Len(r)]
  BY <1>1, <1>4, ConcatProperties
<1>7. \A i \in 1 .. Len(s) + 1 : r[i] = z[i]
  <2> SUFFICES ASSUME NEW i \in 1 .. Len(s) + 1 PROVE r[i] = z[i] OBVIOUS
  <2>1. CASE i <= Len(s)
    <3>1. i \in 1 .. Len(s) /\ i \in 1 .. Len(s) + Len(t) BY <1>3, <2>1
    <3> QED BY <1>4, <1>5, <2>1, <3>1
  <2>2. CASE ~(i <= Len(s))
    <3>1. i = Len(s) + 1 /\ i \in 1 .. Len(s) + Len(t) /\ i - Len(s) = 1 BY <1>3, <2>2
    <3> QED BY <1>2, <1>4, <1>5, <2>2, <3>1
  <2> QED BY <2>1, <2>2
<1>8. r \o u = z
  <2>1. Len(r \o u) = Len(z) BY <1>1, <1>3, <1>4, <1>5, <1>6
  <2>2. \A i \in 1 .. Len(r \o u) : (r \o u)[i] = z[i]
    <3> SUFFICES ASSUME NEW i \in 1 .. Len(s) + Len(t) PROVE (r \o u)[i] = z[i] BY <1>5, <2>1
    <3>0. i \in 1 .. Len(r) + Len(u) BY <1>5, <1>6, <2>1
    <3>1. CASE i <= Len(s) + 1
      <4>1. i \in 1 .. Len(s) + 1 BY <1>3, <3>1
      <4>2. (r \o u)[i] = r[i] BY <1>4, <1>6, <3>0, <3>1
      <4> QED BY <1>7, <4>1, <4>2
    <3>2. CASE ~(i <= Len(s) + 1)
      <4>1. /\ i - (Len(s) + 1) \in 1 .. Len(u) /\ (i - (Len(s) + 1)) + 1 = i - Len(s)
            /\ ~(i <= Len(s))
        BY <1>1, <1>3, <3>2
      <4>2. (r \o u)[i] = u[i - (Len(s) + 1)] BY <1>4, <1>6, <3>0, <3>2
      <4>3. u[i - (Len(s) + 1)] = t[i - Len(s)] BY <1>1, <4>1
      <4>4. z[i] = t[i - Len(s)] BY <1>5, <4>1
      <4> QED BY <4>2, <4>3, <4>4
    <3> QED BY <3>1, <3>2
  <2> QED BY <1>5, <1>6, <2>1, <2>2, SeqEqual
<1>9. PrefixOf(r, z)
  <2>1. DOMAIN r = 1 .. Len(s) + 1 BY <1>4, LenProperties
  <2>2. Len(r) <= Len(z) BY <1>3, <1>4, <1>5
  <2> QED BY <1>7, <2>1, <2>2 DEF PrefixOf
<1> QED BY <1>1, <1>4, <1>8, <1>9 DEF h, u, r, z

LEMMA HandOverType ==
    ASSUME EvaluatorType, HandOver
    PROVE  LET c == call.channel IN
           /\ c \in Channels /\ evaluator = "busy" /\ due # <<>>
           /\ due \in Seq(Entries) /\ Tail(due) \in Seq(Entries) /\ Len(Tail(due)) = Len(due) - 1
           /\ published' \in [Channels -> Seq(Entries)]
           /\ \A ch \in Channels : ch # c => published'[ch] = published[ch]
           /\ published'[c] \o Tail(due) = Handed(c)
           /\ PrefixOf(published'[c], Handed(c))
<1> DEFINE c == call.channel
           s == published[c]
<1>1. /\ c \in Channels /\ due \in Seq(Entries) /\ published \in [Channels -> Seq(Entries)]
      /\ s \in Seq(Entries)
  BY DEF EvaluatorType
<1>2. /\ evaluator = "busy" /\ due # <<>>
      /\ published' = [published EXCEPT ![c] = Append(s, Head(due))]
  BY DEF HandOver
<1>3. Handed(c) = s \o due BY DEF Handed
<1> HIDE DEF s
<1>4. /\ Head(due) \in Entries /\ Tail(due) \in Seq(Entries) /\ Len(Tail(due)) = Len(due) - 1
      /\ Append(s, Head(due)) \in Seq(Entries)
      /\ Append(s, Head(due)) \o Tail(due) = s \o due
      /\ PrefixOf(Append(s, Head(due)), s \o due)
  BY <1>1, <1>2, HandOverMoves
<1> HIDE DEF c
<1>5. /\ published'[c] = Append(s, Head(due)) /\ published' \in [Channels -> Seq(Entries)]
      /\ \A ch \in Channels : ch # c => published'[ch] = published[ch]
  BY <1>1, <1>2, <1>4
<1> QED BY <1>1, <1>2, <1>3, <1>4, <1>5 DEF c

LEMMA RaisesStep ==
    ASSUME EvaluatorInv, ConsumerRaises
    PROVE  EvaluatorInv'
<1> DEFINE c == call.channel
<1>1. EvaluatorType /\ HandOver /\ Fail BY DEF EvaluatorInv, ConsumerRaises
<1>2. /\ c \in Channels /\ evaluator = "busy"
      /\ published' \in [Channels -> Seq(Entries)]
      /\ \A ch \in Channels : ch # c => published'[ch] = published[ch]
      /\ PrefixOf(published'[c], Handed(c))
  BY <1>1, HandOverType
<1> HIDE DEF c
<1>3. PrefixOf(published'[c], Batch(c))
  <2>1. Batch(c) \in Seq(Entries) /\ PrefixOf(Handed(c), Batch(c)) BY <1>2, HandedPrefix
  <2>2. Handed(c) \in Seq(Entries) BY <1>1, <1>2, HandedType
  <2>3. published'[c] \in Seq(Entries) BY <1>2
  <2> QED BY <1>2, <2>1, <2>2, <2>3, PrefixTransitive
<1>4. ASSUME NEW ch \in Channels PROVE PrefixOf(published'[ch], Batch(ch))
  <2>1. PrefixOf(published[ch], Batch(ch)) BY HandedPrefix
  <2> QED BY <1>2, <1>3, <2>1
<1> QED BY <1>1, <1>2, <1>4, FailStep

LEMMA ReturnsStep ==
    ASSUME EvaluatorInv, ConsumerReturns
    PROVE  EvaluatorInv'
<1>0. PICK c \in Channels : c = call.channel BY DEF EvaluatorInv, EvaluatorType
<1>1. EvaluatorType /\ HandOver /\ \A ch \in Channels : Progress(ch) /\ Emptied(ch)
  BY DEF EvaluatorInv, ConsumerReturns
<1>2. /\ evaluator = "busy" /\ due # <<>>
      /\ due \in Seq(Entries) /\ Tail(due) \in Seq(Entries) /\ Len(Tail(due)) = Len(due) - 1
      /\ published' \in [Channels -> Seq(Entries)]
      /\ \A ch \in Channels : ch # c => published'[ch] = published[ch]
      /\ published'[c] \o Tail(due) = Handed(c)
  BY <1>0, <1>1, HandOverType
<1>3. /\ expected' = expected /\ recorded' = recorded /\ used' = used
      /\ evaluator' = evaluator /\ call' = call /\ due' = Tail(due)
      /\ pending' = IF call.kind = "finish" /\ pending[c] # <<>>
                    THEN [pending EXCEPT ![c] = Tail(pending[c])] ELSE pending
  BY <1>0 DEF ConsumerReturns
<1>4. pending \in [Channels -> Seq(Findings)] BY <1>1 DEF EvaluatorType
<1>5. /\ pending' \in [Channels -> Seq(Findings)]
      /\ \A ch \in Channels : ch # c \/ call.kind # "finish" => pending'[ch] = pending[ch]
      /\ Len(pending'[c]) <= Len(pending[c]) /\ (pending[c] # <<>> /\ call.kind = "finish" =>
            Len(pending'[c]) = Len(pending[c]) - 1)
  <2>1. CASE call.kind = "finish" /\ pending[c] # <<>>
    <3>1. Tail(pending[c]) \in Seq(Findings) /\ Len(Tail(pending[c])) = Len(pending[c]) - 1
      BY <1>2, <1>4, <2>1, HeadTailProperties
    <3>2. Len(pending[c]) \in Nat BY <1>2, <1>4, LenProperties
    <3>3. pending' = [pending EXCEPT ![c] = Tail(pending[c])] BY <1>3, <2>1
    <3>4. pending'[c] = Tail(pending[c]) BY <1>2, <1>4, <3>3
    <3>5. pending' \in [Channels -> Seq(Findings)] BY <1>4, <3>1, <3>3
    <3>6. \A ch \in Channels : ch # c => pending'[ch] = pending[ch] BY <1>4, <3>3
    <3> QED BY <2>1, <3>1, <3>2, <3>4, <3>5, <3>6
  <2>2. CASE ~(call.kind = "finish" /\ pending[c] # <<>>)
    <3>1. pending' = pending BY <1>3, <2>2
    <3>2. Len(pending[c]) \in Nat BY <1>2, <1>4, LenProperties
    <3>3. ~(pending[c] # <<>> /\ call.kind = "finish") BY <2>2
    <3>4. pending' \in [Channels -> Seq(Findings)]
          /\ \A ch \in Channels : ch # c \/ call.kind # "finish" => pending'[ch] = pending[ch]
      BY <1>4, <3>1
    <3>5. Len(pending'[c]) <= Len(pending[c]) BY <3>1, <3>2
    <3> QED BY <3>3, <3>4, <3>5
  <2> QED BY <2>1, <2>2
<1>6. EvaluatorType'
  <2>1. due' \in Seq(Entries) BY <1>2, <1>3
  <2> QED BY <1>1, <1>2, <1>3, <1>5, <2>1 DEF EvaluatorType
<1>7. ASSUME NEW ch \in Channels PROVE Handed(ch)' = Handed(ch)
  <2>1. CASE ch = c
    <3>1. Handed(c)' = published'[c] \o Tail(due) BY <1>0, <1>3 DEF Handed
    <3> QED BY <1>2, <2>1, <3>1
  <2>2. CASE ch # c
    <3>1. published'[ch] = published[ch] BY <1>2, <2>2
    <3>2. call'.channel # ch /\ call.channel # ch BY <1>0, <1>3, <2>2
    <3> QED BY <3>1, <3>2 DEF Handed
  <2> QED BY <2>1, <2>2
<1>8. \A ch \in Channels : Finishing(ch)' <=> Finishing(ch) BY <1>3 DEF Finishing
<1>9. ASSUME NEW ch \in Channels PROVE Progress(ch)'
  <2>1. CASE Online(ch)
    <3>1. pending'[ch] = pending[ch]
      <4>1. ch # c \/ call.kind # "finish" BY <1>0, <1>2, <2>1 DEF Online, Finishing, Channels
      <4> QED BY <1>5, <4>1
    <3> QED BY <1>1, <1>2, <1>3, <1>7, <1>8, <3>1, ChannelKept
  <2>2. CASE ~Online(ch)
    <3>1. Finishing(ch) /\ ~Online(ch)' BY <1>2, <1>3, <1>8, <2>2 DEF Online
    <3>2. Batch(ch)' = Batch(ch) BY <1>3 DEF Batch
    <3>3. Handed(ch) = Batch(ch) BY <1>1, <3>1 DEF Progress
    <3>4. Handed(ch)' = Batch(ch)' BY <1>7, <3>2, <3>3
    <3> QED BY <1>2, <1>3, <3>1, <3>4 DEF Progress
  <2> QED BY <2>1, <2>2
<1>10. ASSUME NEW ch \in Channels PROVE Emptied(ch)'
  <2>1. ASSUME Finishing(ch), call.channel = ch PROVE Len(pending'[ch]) <= Len(due')
    <3>1. ch = c /\ call.kind = "finish" BY <1>0, <2>1 DEF Finishing
    <3>2. Len(pending[ch]) <= Len(due) BY <1>1, <2>1 DEF Emptied
    <3>3. Len(due) \in Nat /\ Len(due) # 0 BY <1>2, EmptySeq, LenProperties
    <3>4. Len(pending[ch]) \in Nat BY <1>4, LenProperties
    <3>5. CASE pending[ch] # <<>>
      <4>1. Len(pending'[ch]) = Len(pending[ch]) - 1 BY <1>5, <3>1, <3>5
      <4> QED BY <1>2, <1>3, <3>2, <3>3, <3>4, <4>1
    <3>6. CASE pending[ch] = <<>>
      <4>1. Len(pending[ch]) = 0 BY <3>6, EmptySeq
      <4>2. Len(pending'[ch]) <= 0 BY <1>5, <3>1, <4>1
      <4>3. Len(pending'[ch]) \in Nat /\ Len(due') \in Nat
        BY <1>2, <1>3, <1>5, LenProperties
      <4> QED BY <4>2, <4>3
    <3> QED BY <3>5, <3>6
  <2>2. ASSUME Finishing(ch), call.channel # ch PROVE Len(pending'[ch]) <= 0
    <3>1. Len(pending[ch]) <= 0 BY <1>1, <2>2 DEF Emptied
    <3>2. pending'[ch] = pending[ch] BY <1>0, <1>5, <2>2
    <3> QED BY <3>1, <3>2
  <2>3. Finishing(ch)' => Len(pending'[ch]) <= IF call'.channel = ch THEN Len(due') ELSE 0
    BY <1>3, <1>8, <2>1, <2>2
  <2>4. evaluator' \notin {"failed", "finished"} BY <1>2, <1>3
  <2> QED BY <2>3, <2>4 DEF Emptied
<1> QED BY <1>6, <1>9, <1>10 DEF EvaluatorInv

LEMMA HandedTypeNext ==
    ASSUME EvaluatorType', NEW ch \in Channels, due' = <<>> \/ call'.channel # ch
    PROVE  Handed(ch)' = published'[ch]
<1>1. published'[ch] \in Seq(Entries) BY DEF EvaluatorType
<1>2. published'[ch] \o <<>> = published'[ch] BY <1>1, ConcatEmptySeq
<1> QED BY <1>2 DEF Handed

LEMMA RecordReturnsStep ==
    ASSUME EvaluatorInv, RecordReturns
    PROVE  EvaluatorInv'
<1>1. EvaluatorType /\ \A ch \in Channels : Progress(ch) /\ Emptied(ch) BY DEF EvaluatorInv
<1>2. /\ evaluator = "busy" /\ evaluator' = "open" /\ call.kind = "record" /\ due = <<>>
      /\ call' = Idle /\ due' = <<>> /\ expected' = expected /\ recorded' = recorded
      /\ used' = used /\ pending' = pending /\ published' = published
  BY DEF RecordReturns
<1>3. EvaluatorType'
  <2>1. Idle \in [kind : {"none", "record", "finish"}, channel : Channels] BY DEF Idle, Channels
  <2> QED BY <1>1, <1>2, <2>1 DEF EvaluatorType
<1>4. ASSUME NEW ch \in Channels PROVE Progress(ch)' /\ Emptied(ch)'
  <2>1. ~Finishing(ch) /\ ~Finishing(ch)' BY <1>2 DEF Finishing
  <2>2. Handed(ch)' = Handed(ch)
    <3>1. Handed(ch) = published[ch] BY <1>1, <1>2, HandedType
    <3>2. Handed(ch)' = published'[ch] BY <1>2, <1>3, HandedTypeNext
    <3> QED BY <1>2, <3>1, <3>2
  <2>3. Progress(ch)' BY <1>1, <1>2, <2>1, <2>2, ChannelKept
  <2> QED BY <1>2, <2>1, <2>3 DEF Emptied
<1> QED BY <1>3, <1>4 DEF EvaluatorInv

(* Finishing a channel: what is due completes the batch.                     *)
LEMMA FinishDue ==
    ASSUME EvaluatorInv, NEW c \in Channels, Online(c), due = <<>>, FinishChannel(c)
    PROVE  /\ due' \in Seq(Entries) /\ Len(pending[c]) <= Len(due')
           /\ published[c] \o due' = Batch(c)
           /\ used' \in [Channels -> SUBSET Nat] /\ \A ch \in Channels : ch # c => used'[ch] = used[ch]
           /\ call' = [kind |-> "finish", channel |-> c]
<1> DEFINE F == recorded[c]
           E == expected[c]
           U == used[c]
           P == pending[c]
           H == Handed(c)
           A == MatchFindings(P, E, U)
<1>1. EvaluatorType /\ Progress(c) BY DEF EvaluatorInv
<1>2. /\ H \in Seq(Entries) /\ Given(F, E) /\ H = published[c] BY <1>1, HandedType
<1>3. Follows(F, E, U, P, H, c) BY <1>1 DEF Progress
<1>4. used \in [Channels -> SUBSET Nat] BY <1>1 DEF EvaluatorType
<1>5. /\ due' = EntriesOf(P, E, A, Len(F) - Len(P)) \o Missing(E, U \cup Assigned(A))
      /\ used' = [used EXCEPT ![c] = U \cup Assigned(A)]
      /\ call' = [kind |-> "finish", channel |-> c]
  BY DEF FinishChannel
<1>6. Batch(c) = EvaluateChannel(F, E) BY DEF Batch
<1> HIDE DEF F, E, U, P, H
<1>7. Len(F) = Len(H) + Len(P) /\ P \in Seq(Findings) BY <1>3 DEF Follows, RestOf
<1>8. Len(F) - Len(P) = Len(H)
  <2>1. Len(H) \in Nat /\ Len(P) \in Nat BY <1>2, <1>7, LenProperties
  <2> QED BY <1>7, <2>1
<1>9. due' = Due(P, E, U, Len(H)) BY <1>5, <1>8, Zenon DEF Due
<1>10. /\ Due(P, E, U, Len(H)) \in Seq(Entries) /\ Len(P) <= Len(Due(P, E, U, Len(H)))
       /\ H \o Due(P, E, U, Len(H)) = EvaluateChannel(F, E)
  BY <1>2, <1>3, FollowsBatch
<1>11. Assigned(A) \subseteq Nat
  <2>1. Given(P, E) BY <1>2, <1>7 DEF Given
  <2>2. A \in Assignments(P, E) /\ Len(E) \in Nat
    BY <2>1, MatchFindingsGreedy, Ranks DEF Greedy, Proper
  <2> HIDE DEF A
  <2> QED BY <2>2 DEF Assignments, Assigned
<1>12. U \subseteq Nat BY <1>4 DEF U
<1> HIDE DEF A
<1>13. used' \in [Channels -> SUBSET Nat] /\ \A ch \in Channels : ch # c => used'[ch] = used[ch]
  BY <1>4, <1>5, <1>11, <1>12
<1> QED BY <1>2, <1>5, <1>6, <1>9, <1>10, <1>13 DEF P, H

LEMMA FinishStep ==
    ASSUME EvaluatorInv, Finish
    PROVE  EvaluatorInv'
<1>1. EvaluatorType /\ \A ch \in Channels : Progress(ch) /\ Emptied(ch) BY DEF EvaluatorInv
<1>2. /\ evaluator = "open" /\ evaluator' = "busy" /\ FinishChannel("packet")
      /\ expected' = expected /\ recorded' = recorded /\ pending' = pending /\ published' = published
  BY DEF Finish
<1>3. due = <<>> BY <1>1, <1>2 DEF EvaluatorType
<1>4. \A ch \in Channels : Online(ch) /\ ~Finishing(ch) BY <1>2 DEF Online, Finishing
<1>5. "packet" \in Channels /\ "flow" \in Channels BY DEF Channels
<1>6. /\ due' \in Seq(Entries) /\ Len(pending["packet"]) <= Len(due')
      /\ published["packet"] \o due' = Batch("packet")
      /\ used' \in [Channels -> SUBSET Nat]
      /\ \A ch \in Channels : ch # "packet" => used'[ch] = used[ch]
      /\ call' = [kind |-> "finish", channel |-> "packet"]
  BY <1>2, <1>3, <1>4, <1>5, FinishDue
<1>7. call'.kind = "finish" /\ call'.channel = "packet" BY <1>6
<1>8. EvaluatorType'
  <2>1. call' \in [kind : {"none", "record", "finish"}, channel : Channels] BY <1>5, <1>6
  <2> QED BY <1>1, <1>2, <1>6, <1>7, <2>1 DEF EvaluatorType
<1>9. Progress("packet")' /\ Emptied("packet")'
  <2>1. Finishing("packet")' /\ ~Online("packet")' BY <1>2, <1>7 DEF Finishing, Online
  <2>2. Handed("packet")' = Batch("packet")'
    <3>1. Handed("packet")' = published["packet"] \o due' BY <1>2, <1>7 DEF Handed
    <3>2. Batch("packet")' = Batch("packet") BY <1>2 DEF Batch
    <3> QED BY <1>6, <3>1, <3>2
  <2> QED BY <1>2, <1>6, <1>7, <2>1, <2>2 DEF Progress, Emptied
<1>10. Progress("flow")' /\ Emptied("flow")'
  <2>1. ~Finishing("flow")' BY <1>7 DEF Finishing
  <2>2. Handed("flow") = published["flow"] BY <1>1, <1>3, <1>5, HandedType
  <2>3. Handed("flow")' = published'["flow"] BY <1>5, <1>7, <1>8, HandedTypeNext
  <2>4. used'["flow"] = used["flow"] BY <1>5, <1>6
  <2>5. Progress("flow")' BY <1>1, <1>2, <1>4, <1>5, <2>1, <2>2, <2>3, <2>4, ChannelKept
  <2> QED BY <1>2, <2>1, <2>5 DEF Emptied
<1>11. \A ch \in Channels : ch = "packet" \/ ch = "flow" BY DEF Channels
<1> QED BY <1>8, <1>9, <1>10, <1>11 DEF EvaluatorInv

LEMMA FinishFlowsStep ==
    ASSUME EvaluatorInv, FinishFlows
    PROVE  EvaluatorInv'
<1>1. EvaluatorType /\ \A ch \in Channels : Progress(ch) /\ Emptied(ch) BY DEF EvaluatorInv
<1>2. /\ evaluator = "busy" /\ evaluator' = "busy" /\ FinishChannel("flow") /\ due = <<>>
      /\ call = [kind |-> "finish", channel |-> "packet"]
      /\ expected' = expected /\ recorded' = recorded /\ pending' = pending /\ published' = published
  BY DEF FinishFlows
<1>3. call.kind = "finish" /\ call.channel = "packet" BY <1>2
<1>4. Online("flow") /\ Finishing("packet") BY <1>2, <1>3 DEF Online, Finishing
<1>5. "packet" \in Channels /\ "flow" \in Channels BY DEF Channels
<1>6. /\ due' \in Seq(Entries) /\ Len(pending["flow"]) <= Len(due')
      /\ published["flow"] \o due' = Batch("flow")
      /\ used' \in [Channels -> SUBSET Nat]
      /\ call' = [kind |-> "finish", channel |-> "flow"]
  BY <1>2, <1>4, <1>5, FinishDue
<1>7. call'.kind = "finish" /\ call'.channel = "flow" BY <1>6
<1>8. EvaluatorType'
  <2>1. call' \in [kind : {"none", "record", "finish"}, channel : Channels] BY <1>5, <1>6
  <2> QED BY <1>1, <1>2, <1>6, <1>7, <2>1 DEF EvaluatorType
<1>9. ASSUME NEW ch \in Channels PROVE Finishing(ch)' /\ ~Online(ch)' /\ Batch(ch)' = Batch(ch)
  BY <1>2, <1>7 DEF Finishing, Online, Batch
<1>10. Progress("flow")' /\ Emptied("flow")'
  <2>1. Handed("flow")' = published["flow"] \o due' BY <1>2, <1>7 DEF Handed
  <2> QED BY <1>2, <1>5, <1>6, <1>7, <1>9, <2>1 DEF Progress, Emptied
<1>11. Progress("packet")' /\ Emptied("packet")'
  <2>1. Handed("packet") = published["packet"] BY <1>1, <1>2, <1>5, HandedType
  <2>2. Handed("packet")' = published'["packet"] BY <1>5, <1>7, <1>8, HandedTypeNext
  <2>3. Handed("packet")' = Batch("packet")' BY <1>1, <1>2, <1>4, <1>5, <1>9, <2>1, <2>2 DEF Progress
  <2>4. Len(pending["packet"]) <= 0
    <3>1. Len(pending["packet"]) <= Len(due) BY <1>1, <1>3, <1>4, <1>5 DEF Emptied
    <3>2. Len(due) = 0 BY <1>2, EmptySeq
    <3> QED BY <3>1, <3>2
  <2>5. Emptied("packet")' BY <1>2, <1>7, <2>4 DEF Emptied
  <2> QED BY <1>2, <1>5, <1>9, <2>3, <2>5 DEF Progress
<1>12. \A ch \in Channels : ch = "packet" \/ ch = "flow" BY DEF Channels
<1> QED BY <1>8, <1>10, <1>11, <1>12 DEF EvaluatorInv

LEMMA FinishReturnsStep ==
    ASSUME EvaluatorInv, FinishReturns
    PROVE  EvaluatorInv'
<1>1. EvaluatorType /\ \A ch \in Channels : Progress(ch) /\ Emptied(ch) BY DEF EvaluatorInv
<1>2. /\ evaluator = "busy" /\ evaluator' = "finished" /\ due = <<>>
      /\ call = [kind |-> "finish", channel |-> "flow"]
      /\ call' = Idle /\ due' = <<>> /\ expected' = expected /\ recorded' = recorded
      /\ used' = used /\ pending' = pending /\ published' = published
  BY DEF FinishReturns
<1>3. call.kind = "finish" /\ call.channel = "flow" BY <1>2
<1>4. EvaluatorType'
  <2>1. Idle \in [kind : {"none", "record", "finish"}, channel : Channels] BY DEF Idle, Channels
  <2> QED BY <1>1, <1>2, <2>1 DEF EvaluatorType
<1>5. ASSUME NEW ch \in Channels PROVE Progress(ch)' /\ Emptied(ch)'
  <2>1. Finishing(ch) /\ ~Finishing(ch)' /\ ~Online(ch)' /\ Batch(ch)' = Batch(ch)
    BY <1>2, <1>3 DEF Finishing, Online, Batch
  <2>2. Handed(ch) = published[ch] BY <1>1, <1>2, HandedType
  <2>3. published'[ch] = Batch(ch)' BY <1>1, <1>2, <2>1, <2>2 DEF Progress
  <2>4. pending[ch] = <<>>
    <3>1. Len(pending[ch]) <= IF call.channel = ch THEN Len(due) ELSE 0 BY <1>1, <2>1 DEF Emptied
    <3>2. Len(due) = 0 BY <1>2, EmptySeq
    <3>3. pending[ch] \in Seq(Findings) BY <1>1 DEF EvaluatorType
    <3>4. Len(pending[ch]) <= 0 BY <3>1, <3>2
    <3> QED BY <3>3, <3>4, EmptySeq
  <2> QED BY <1>2, <2>1, <2>3, <2>4 DEF Progress, Emptied
<1> QED BY <1>4, <1>5 DEF EvaluatorInv

LEMMA QuietStep ==
    ASSUME EvaluatorInv, UNCHANGED evaluatorVars
    PROVE  EvaluatorInv'
BY DEF EvaluatorInv, EvaluatorType, Progress, Emptied, Online, Finishing, Handed, Batch, evaluatorVars

LEMMA EvaluatorStep ==
    ASSUME EvaluatorInv, [EvaluationNext]_evaluatorVars
    PROVE  EvaluatorInv'
<1>1. EvaluatorType BY DEF EvaluatorInv
<1>2. ASSUME NEW ch \in Channels, Record(ch) PROVE EvaluatorInv'
  <2>1. PICK x \in FindingsNow(ch) : \/ RecordBehind(ch, x) \/ RecordDeferred(ch, x)
                                     \/ RecordSettled(ch, x)
    BY <1>2 DEF Record
  <2>2. CASE RecordBehind(ch, x) \/ RecordDeferred(ch, x) BY <1>1, <2>2, WaitingFindings, WaitsStep
  <2>3. CASE RecordSettled(ch, x) BY <2>3, SettledStep
  <2> QED BY <2>1, <2>2, <2>3
<1>3. CASE RecordRejected \/ FinishRejected \/ Abort
  BY <1>3, QuietFailStep DEF RecordRejected, FinishRejected, Abort
<1>4. CASE ConsumerReturns BY <1>4, ReturnsStep
<1>5. CASE ConsumerRaises BY <1>5, RaisesStep
<1>6. CASE RecordReturns BY <1>6, RecordReturnsStep
<1>7. CASE Finish BY <1>7, FinishStep
<1>8. CASE FinishFlows BY <1>8, FinishFlowsStep
<1>9. CASE FinishReturns BY <1>9, FinishReturnsStep
<1>10. CASE FinishAgain \/ UNCHANGED evaluatorVars BY <1>10, QuietStep DEF FinishAgain
<1> QED BY <1>2, <1>3, <1>4, <1>5, <1>6, <1>7, <1>8, <1>9, <1>10 DEF EvaluationNext

(* The evaluator keeps the batch evaluation of what it has recorded.         *)
THEOREM EvaluatorInvariant == EvaluationSpec => []EvaluatorInv
BY EvaluatorStarts, EvaluatorStep, PTL DEF EvaluationSpec

(* Whatever is recorded, raised or aborted, the consumers are given the      *)
(* beginning of the batch evaluation, and all of it by a finished evaluator. *)
THEOREM IncrementalIsBatch == EvaluationSpec => []PublishedIsBatch
<1>1. EvaluatorInv => PublishedIsBatch
  BY HandedPrefix DEF EvaluatorInv, Progress, PublishedIsBatch
<1> QED BY <1>1, EvaluatorInvariant, PTL

-----------------------------------------------------------------------------
(* Counting.  A set that a function maps one to one into another finite set  *)
(* is no larger, and as large when every element of the other is met.        *)
LEMMA OneToOne ==
    ASSUME NEW S, NEW T, IsFiniteSet(T), NEW f \in [S -> T], \A x, y \in S : f[x] = f[y] => x = y
    PROVE  /\ IsFiniteSet(S) /\ Cardinality(S) <= Cardinality(T)
           /\ (\A y \in T : \E x \in S : f[x] = y) => Cardinality(S) = Cardinality(T)
<1>1. f \in Injection(S, T) BY DEF Injection, IsInjective
<1>2. /\ IsFiniteSet(S) /\ Cardinality(S) <= Cardinality(T)
      /\ Cardinality(S) = Cardinality(T) <=> f \in Surjection(S, T)
  BY <1>1, FS_Injection
<1>3. (\A y \in T : \E x \in S : f[x] = y) => f \in Surjection(S, T) BY DEF Surjection
<1> QED BY <1>2, <1>3

LEMMA IndicesFinite ==
    ASSUME NEW n \in Nat, NEW S \in SUBSET (1 .. n)
    PROVE  IsFiniteSet(S) /\ Cardinality(S) \in Nat
<1>1. 1 \in Int /\ n \in Int OBVIOUS
<1>2. IsFiniteSet(1 .. n) BY <1>1, FS_Interval
<1>3. IsFiniteSet(S) BY <1>2, FS_Subset
<1> QED BY <1>3, FS_CardinalityType

Same(E, e) == {x \in DOMAIN E : E[x].identity = E[e].identity}
Right(F, E, e) ==
    {a \in DOMAIN F : F[a].identity = E[e].identity /\ F[a].decision = Required(E[e])}
MetRight(F, E, e) ==
    {i \in DOMAIN EvaluateChannel(F, E) :
        /\ EvaluateChannel(F, E)[i].expected \in Same(E, e)
        /\ EvaluateChannel(F, E)[i].actual \in Right(F, E, e)}

LEMMA BatchAgreements ==
    ASSUME NEW F, NEW E, Given(F, E), NEW e \in DOMAIN E
    PROVE  Cardinality(MetRight(F, E, e)) =
               IF Cardinality(Right(F, E, e)) < Cardinality(Same(E, e))
               THEN Cardinality(Right(F, E, e)) ELSE Cardinality(Same(E, e))
<1> DEFINE C == MatchFindings(F, E, {})
           batch == EvaluateChannel(F, E)
           unmet == DOMAIN E \ Assigned(C)
           c == Cardinality(unmet)
           S == Same(E, e)
           R == Right(F, E, e)
           M == MetRight(F, E, e)
<1>1. Greedy(F, E, {}, C) BY MatchFindingsGreedy
<1>2. /\ Len(E) \in Nat /\ DOMAIN E = 1 .. Len(E)
      /\ Len(F) \in Nat /\ DOMAIN F = 1 .. Len(F)
      /\ \A a \in DOMAIN F, g \in DOMAIN E :
             /\ RankOf(F, E, a, g) \in 1 .. 3
             /\ RankOf(F, E, a, g) = 1 <=> F[a].decision = Required(E[g])
      /\ \A a, b \in DOMAIN F, g, h \in DOMAIN E :
             Meets(F, E, a, g) /\ Meets(F, E, a, h) => RankOf(F, E, b, g) = RankOf(F, E, b, h)
  BY Ranks
<1>3. /\ batch \in Seq(Entries) /\ Len(batch) = Len(F) + c
      /\ \A a \in 1 .. Len(F) : batch[a] = Entry(E, C[a], F, a)
      /\ \A i \in 1 .. c : batch[Len(F) + i] = Entry(E, Nth(unmet, i), <<>>, 0)
      /\ C \in Assignments(F, E) /\ unmet \in SUBSET Nat /\ IsFiniteSet(unmet) /\ c \in Nat
  BY BatchIs
<1> HIDE DEF C, batch, unmet
<1>4. \A a \in DOMAIN F : C[a] \in 0 .. Len(E) /\ (C[a] # 0 => C[a] \in DOMAIN E)
  BY <1>2, <1>3 DEF Assignments
<1>5. \A a \in 1 .. Len(F) : batch[a].expected = C[a] /\ batch[a].actual = a
  <2>1. \A a \in 1 .. Len(F) : a \in Nat /\ C[a] \in Nat BY <1>2, <1>4
  <2> QED BY <1>3, <2>1, EntryIs
<1>6. \A i \in 1 .. c : batch[Len(F) + i].actual = 0
  <2>1. \A i \in 1 .. c : Nth(unmet, i) \in Nat BY <1>3, NthNumbers
  <2>2. 0 \in Nat OBVIOUS
  <2> QED BY <1>3, <2>1, <2>2, EntryIs
<1>7. DOMAIN batch = 1 .. Len(F) + c BY <1>3, LenProperties
<1>8. \A a \in R : a \in DOMAIN F /\ Meets(F, E, a, e) /\ RankOf(F, E, a, e) = 1
  BY <1>2 DEF Right, Meets
<1>9. \A a \in DOMAIN F : Meets(F, E, a, e) /\ RankOf(F, E, a, e) = 1 => a \in R
  BY <1>2 DEF Right, Meets
<1>10. M = {a \in R : C[a] # 0}
  <2>1. ASSUME NEW a \in R, C[a] # 0 PROVE a \in M
    <3>1. a \in 1 .. Len(F) /\ a \in DOMAIN batch BY <1>2, <1>3, <1>7, <1>8
    <3>2. Meets(F, E, a, C[a]) /\ Meets(F, E, a, e)
      BY <1>1, <1>8, <2>1 DEF Greedy, Proper
    <3>3. C[a] \in S BY <1>4, <1>8, <2>1, <3>2 DEF Meets, Same
    <3> QED BY <1>5, <3>1, <3>3 DEF MetRight, batch
  <2>2. ASSUME NEW i \in M PROVE i \in R /\ C[i] # 0
    <3>1. i \in DOMAIN batch /\ batch[i].expected \in S /\ batch[i].actual \in R
      BY DEF MetRight, batch
    <3>2. CASE i <= Len(F)
      <4>1. i \in 1 .. Len(F) BY <1>2, <1>3, <1>7, <3>1, <3>2
      <4>2. 0 \notin S BY <1>2 DEF Same
      <4> QED BY <1>5, <3>1, <4>1, <4>2
    <3>3. CASE ~(i <= Len(F))
      <4>1. i - Len(F) \in 1 .. c /\ Len(F) + (i - Len(F)) = i BY <1>2, <1>3, <1>7, <3>1, <3>3
      <4>2. batch[i].actual = 0 BY <1>6, <4>1
      <4>3. 0 \notin R BY <1>2, <1>8
      <4> QED BY <3>1, <4>2, <4>3
    <3> QED BY <3>2, <3>3
  <2> QED BY <2>1, <2>2
<1> HIDE DEF M
<1>11. /\ IsFiniteSet(S) /\ Cardinality(S) \in Nat /\ IsFiniteSet(R) /\ Cardinality(R) \in Nat
       /\ IsFiniteSet(M) /\ Cardinality(M) \in Nat /\ Cardinality(M) <= Cardinality(R)
  <2>1. S \in SUBSET (1 .. Len(E)) /\ R \in SUBSET (1 .. Len(F)) BY <1>2 DEF Same, Right
  <2>2. M \in SUBSET R BY <1>10
  <2>3. IsFiniteSet(S) /\ Cardinality(S) \in Nat /\ IsFiniteSet(R) /\ Cardinality(R) \in Nat
    BY <1>2, <2>1, IndicesFinite
  <2>4. IsFiniteSet(M) /\ Cardinality(M) <= Cardinality(R) BY <2>2, <2>3, FS_Subset
  <2> QED BY <2>3, <2>4, FS_CardinalityType
<1> DEFINE f == [a \in M |-> C[a]]
<1>12. f \in [M -> S] /\ \A x, y \in M : f[x] = f[y] => x = y
  <2>1. ASSUME NEW a \in M PROVE C[a] \in S
    <3>1. a \in DOMAIN F /\ C[a] # 0 /\ Meets(F, E, a, C[a]) /\ Meets(F, E, a, e)
      BY <1>1, <1>8, <1>10 DEF Greedy, Proper
    <3> QED BY <1>4, <3>1 DEF Meets, Same
  <2>2. \A x, y \in M : C[x] = C[y] => x = y
    BY <1>1, <1>8, <1>10 DEF Greedy, Proper
  <2> QED BY <2>1, <2>2
<1>13. \A a \in M : f[a] = C[a] OBVIOUS
<1> HIDE DEF f
<1>14. /\ Cardinality(M) <= Cardinality(S)
       /\ (\A y \in S : \E x \in M : f[x] = y) => Cardinality(M) = Cardinality(S)
  <2> HIDE DEF S
  <2> QED BY <1>11, <1>12, OneToOne
<1>15. CASE \A a \in R : C[a] # 0
  <2>1. M = R BY <1>10, <1>15
  <2>2. Cardinality(M) = Cardinality(R) /\ Cardinality(R) <= Cardinality(S) BY <1>14, <2>1
  <2> QED BY <1>11, <2>2 DEF M
<1>16. CASE ~ \A a \in R : C[a] # 0
  <2>1. PICK a \in R : C[a] = 0 BY <1>16
  <2>2. ASSUME NEW g \in S PROVE \E b \in M : f[b] = g
    <3>1. g \in DOMAIN E /\ g \in DOMAIN E \ {} /\ Meets(F, E, a, g)
      BY <1>8, <2>1 DEF Same, Meets
    <3>2. a \in DOMAIN F /\ C[a] = 0 BY <1>8, <2>1
    <3>3. PICK b \in DOMAIN F : C[b] = g BY <1>1, <3>1, <3>2, Zenon DEF Greedy
    <3>4. C[b] # 0 /\ Meets(F, E, b, g) BY <1>1, <1>2, <3>1, <3>3 DEF Greedy, Proper
    <3>5. RankOf(F, E, a, g) = 1 BY <1>2, <1>8, <2>1, <3>1, <3>2
    <3>6. ~Sooner(F, E, a, b, g)
      <4>1. ~(Meets(F, E, a, C[b]) /\ Sooner(F, E, a, b, C[b]))
        BY <1>1, <3>2, <3>4, Zenon DEF Greedy, InOrder
      <4> QED BY <3>1, <3>3, <4>1
    <3>7. RankOf(F, E, b, g) = 1
      <4>1. RankOf(F, E, b, g) \in 1 .. 3 /\ ~(1 < RankOf(F, E, b, g))
        BY <1>2, <3>1, <3>5, <3>6 DEF Sooner
      <4> QED BY <4>1
    <3>8. Meets(F, E, b, e) /\ RankOf(F, E, b, e) = 1
      <4>1. Meets(F, E, b, e) BY <3>4 DEF Same, Meets
      <4> QED BY <1>2, <3>1, <3>4, <3>7, <4>1
    <3>9. b \in M BY <1>9, <1>10, <3>4, <3>8
    <3> QED BY <1>13, <3>3, <3>9
  <2>3. Cardinality(M) = Cardinality(S) BY <1>14, <2>2
  <2>4. Cardinality(S) <= Cardinality(R) BY <1>11, <2>3
  <2> QED BY <1>11, <2>3, <2>4 DEF M
<1> QED BY <1>15, <1>16

(* Of every identity, as many expectations are met by their own decision as  *)
(* there are of such findings and expectations, of whichever are fewer       *)
(* (incremental_detection_evaluation.py: _match_findings).                   *)
THEOREM Agreements == EvaluationSpec => []AgreementsMaximal
<1>1. ASSUME EvaluatorInv PROVE AgreementsMaximal
  <2> SUFFICES ASSUME evaluator = "finished", NEW ch \in Channels, NEW e \in DOMAIN expected[ch]
               PROVE  LET same == Same(expected[ch], e)
                          right == Right(recorded[ch], expected[ch], e)
                          met == {i \in DOMAIN published[ch] :
                                     /\ published[ch][i].expected \in same
                                     /\ published[ch][i].actual \in right}
                      IN Cardinality(met) = IF Cardinality(right) < Cardinality(same)
                                            THEN Cardinality(right) ELSE Cardinality(same)
    BY Zenon DEF AgreementsMaximal, Same, Right
  <2>1. Given(recorded[ch], expected[ch]) BY <1>1 DEF EvaluatorInv, EvaluatorType, Given
  <2>2. published[ch] = EvaluateChannel(recorded[ch], expected[ch])
    BY <1>1 DEF EvaluatorInv, Progress, Batch
  <2> DEFINE same == Same(expected[ch], e)
             right == Right(recorded[ch], expected[ch], e)
             met == {i \in DOMAIN published[ch] :
                        /\ published[ch][i].expected \in same
                        /\ published[ch][i].actual \in right}
  <2>3. met = MetRight(recorded[ch], expected[ch], e) BY <2>2, Zenon DEF MetRight
  <2>4. Cardinality(MetRight(recorded[ch], expected[ch], e)) =
            IF Cardinality(right) < Cardinality(same) THEN Cardinality(right) ELSE Cardinality(same)
    BY <2>1, BatchAgreements
  <2>5. Cardinality(met) =
            IF Cardinality(right) < Cardinality(same) THEN Cardinality(right) ELSE Cardinality(same)
    <3> HIDE DEF same, right, met
    <3> QED BY <2>3, <2>4
  <2> QED BY <2>5, Zenon
<1> QED BY <1>1, EvaluatorInvariant, PTL

-----------------------------------------------------------------------------
(* The counts of entries.                                                    *)
OfClass(entries, c) == {i \in DOMAIN entries : entries[i].class = c}

LEMMA OfClassFinite ==
    ASSUME NEW s \in Seq(Entries), NEW c
    PROVE  IsFiniteSet(OfClass(s, c)) /\ Cardinality(OfClass(s, c)) \in Nat
<1>1. Len(s) \in Nat /\ DOMAIN s = 1 .. Len(s) BY LenProperties
<1>2. OfClass(s, c) \in SUBSET (1 .. Len(s)) BY <1>1 DEF OfClass
<1> QED BY <1>1, <1>2, IndicesFinite

LEMMA AggregateIs ==
    ASSUME NEW s \in Seq(Entries)
    PROVE  /\ Aggregate(s) \in [Classifications -> Nat]
           /\ \A c \in Classifications : Aggregate(s)[c] = Cardinality(OfClass(s, c))
<1>1. Aggregate(s) = [c \in Classifications |-> Cardinality(OfClass(s, c))]
  BY Zenon DEF Aggregate, OfClass
<1>2. \A c \in Classifications : Cardinality(OfClass(s, c)) \in Nat BY OfClassFinite
<1> QED BY <1>1, <1>2

LEMMA AggregateMore ==
    ASSUME NEW s \in Seq(Entries), NEW x \in Entries
    PROVE  Aggregate(Append(s, x)) = [Aggregate(s) EXCEPT ![x.class] = Aggregate(s)[x.class] + 1]
<1> DEFINE t == Append(s, x)
           A == Aggregate(s)
           B == Aggregate(t)
<1>1. /\ t \in Seq(Entries) /\ Len(t) = Len(s) + 1 /\ t[Len(s) + 1] = x
      /\ \A i \in 1 .. Len(s) : t[i] = s[i]
  BY AppendProperties
<1>2. Len(s) \in Nat /\ DOMAIN s = 1 .. Len(s) BY LenProperties
<1>3. x.class \in Classifications BY DEF Entries
<1> HIDE DEF t
<1>4. DOMAIN t = (1 .. Len(s)) \cup {Len(s) + 1} /\ Len(s) + 1 \notin 1 .. Len(s)
  <2>1. DOMAIN t = 1 .. Len(t) BY <1>1, LenProperties
  <2> QED BY <1>1, <1>2, <2>1
<1>5. /\ A \in [Classifications -> Nat] /\ B \in [Classifications -> Nat]
      /\ \A c \in Classifications : /\ A[c] = Cardinality(OfClass(s, c))
                                    /\ B[c] = Cardinality(OfClass(t, c))
  BY <1>1, AggregateIs
<1> HIDE DEF A, B
<1>6. ASSUME NEW c \in Classifications PROVE B[c] = IF c = x.class THEN A[c] + 1 ELSE A[c]
  <2>1. CASE c = x.class
    <3>1. OfClass(t, c) = OfClass(s, c) \cup {Len(s) + 1}
      BY <1>1, <1>2, <1>4, <2>1 DEF OfClass
    <3>2. Len(s) + 1 \notin OfClass(s, c) BY <1>2, <1>4 DEF OfClass
    <3>3. IsFiniteSet(OfClass(s, c)) BY OfClassFinite
    <3>4. Cardinality(OfClass(t, c)) = Cardinality(OfClass(s, c)) + 1
      BY <3>1, <3>2, <3>3, FS_AddElement
    <3> QED BY <1>5, <2>1, <3>4
  <2>2. CASE c # x.class
    <3>1. OfClass(t, c) = OfClass(s, c) BY <1>1, <1>2, <1>4, <2>2 DEF OfClass
    <3> QED BY <1>5, <2>2, <3>1
  <2> QED BY <2>1, <2>2
<1>7. B = [A EXCEPT ![x.class] = A[x.class] + 1] BY <1>3, <1>5, <1>6
<1> QED BY <1>7 DEF A, B, t

LEMMA AggregateNone == Aggregate(<<>>) = NoCounts
<1>1. \A c \in Classifications : OfClass(<<>>, c) = {} BY DEF OfClass
<1>2. Aggregate(<<>>) = [c \in Classifications |-> Cardinality(OfClass(<<>>, c))]
  BY Zenon DEF Aggregate, OfClass
<1>3. \A c \in Classifications : Cardinality(OfClass(<<>>, c)) = 0 BY <1>1, FS_EmptySet
<1> QED BY <1>2, <1>3 DEF NoCounts

-----------------------------------------------------------------------------
(* The states of a streaming evaluation.                                     *)
Counting ==
    /\ counts \in [Channels -> [Classifications -> Nat]]
    /\ evaluator # "failed" => \A ch \in Channels : counts[ch] = Aggregate(published[ch])

Staged ==
    /\ stage \in {"evaluating", "measuring", "returned"} => streamed = "returned"
    /\ stage \in {"measuring", "returned"} => evaluator = "finished"
    /\ metrics = "finished" => stage = "returned"
    /\ stage = "raised" => metrics = "failed" /\ evaluator \in {"failed", "finished"}

StreamingInv == EvaluatorInv /\ Counting /\ Staged

LEMMA StreamingStarts == StreamingInit => StreamingInv
<1> SUFFICES ASSUME StreamingInit PROVE StreamingInv OBVIOUS
<1>1. EvaluatorInv BY EvaluatorStarts DEF StreamingInit
<1>2. /\ counts = [ch \in Channels |-> NoCounts] /\ metrics = "open" /\ stage = "streaming"
      /\ published = [ch \in Channels |-> <<>>]
  BY DEF StreamingInit, EvaluationInit
<1>3. Counting
  <2>1. NoCounts \in [Classifications -> Nat] BY DEF NoCounts
  <2>2. counts \in [Channels -> [Classifications -> Nat]] BY <1>2, <2>1
  <2>3. \A ch \in Channels : counts[ch] = NoCounts /\ published[ch] = <<>> BY <1>2
  <2> QED BY <2>2, <2>3, AggregateNone DEF Counting
<1>4. Staged BY <1>2 DEF Staged
<1> QED BY <1>1, <1>3, <1>4 DEF StreamingInv

(* Every step is one of the evaluator's, or leaves it alone.                 *)
LEMMA StreamingEvaluates ==
    ASSUME [StreamingNext]_streamingVars
    PROVE  [EvaluationNext]_evaluatorVars
<1>1. CASE StreamRecords BY <1>1 DEF StreamRecords, EvaluationNext
<1>2. CASE MetricsRecord \/ MetricsRecordRaises
  BY <1>2 DEF MetricsRecord, MetricsRecordRaises, EvaluationNext
<1>3. CASE EvaluatorRecordReturns \/ EvaluatorRecordRaises
  BY <1>3 DEF EvaluatorRecordReturns, EvaluatorRecordRaises, EvaluationNext
<1>4. CASE EvaluatorFinishes \/ EvaluatorFinishRaises
  BY <1>4 DEF EvaluatorFinishes, EvaluatorFinishRaises, EvaluationNext
<1>5. CASE StreamEnds \/ MetricsFinish BY <1>5 DEF StreamEnds, MetricsFinish
<1>6. CASE Handle BY <1>6, Zenon DEF Handle, EvaluationNext
<1>7. CASE Over \/ UNCHANGED streamingVars BY <1>7 DEF Over, streamingVars
<1> QED BY <1>1, <1>2, <1>3, <1>4, <1>5, <1>6, <1>7 DEF StreamingNext

(* A step that the metrics do not see keeps the counts of what is published, *)
(* unless it fails the evaluator.                                            *)
LEMMA CountingKept ==
    ASSUME Counting, counts' = counts,
           evaluator' = "failed" \/ (published' = published /\ evaluator # "failed")
    PROVE  Counting'
BY DEF Counting

(* The metrics count the entry that the evaluator hands them.                *)
LEMMA MetricsCount ==
    ASSUME EvaluatorInv, Counting, MetricsRecord
    PROVE  Counting'
<1>1. EvaluatorType /\ HandOver /\ evaluator' = evaluator
  BY DEF EvaluatorInv, MetricsRecord, ConsumerReturns
<1>2. PICK c \in Channels : c = call.channel BY <1>1 DEF EvaluatorType
<1>3. /\ evaluator = "busy" /\ due # <<>> /\ due \in Seq(Entries)
      /\ published \in [Channels -> Seq(Entries)]
      /\ published' = [published EXCEPT ![c] = Append(published[c], Head(due))]
  BY <1>1, <1>2 DEF HandOver, EvaluatorType
<1>4. PICK x \in Entries : x = Head(due) BY <1>3, HeadTailProperties
<1>5. x.class \in Classifications BY DEF Entries
<1>6. /\ counts \in [Channels -> [Classifications -> Nat]]
      /\ \A ch \in Channels : counts[ch] = Aggregate(published[ch])
  BY <1>3 DEF Counting
<1>7. counts' = [counts EXCEPT ![c] = [counts[c] EXCEPT ![x.class] = counts[c][x.class] + 1]]
  BY <1>2, <1>4 DEF MetricsRecord
<1>8. Aggregate(Append(published[c], x)) =
          [counts[c] EXCEPT ![x.class] = counts[c][x.class] + 1]
  <2>1. published[c] \in Seq(Entries) /\ Aggregate(published[c]) = counts[c] BY <1>3, <1>6
  <2> QED BY <2>1, AggregateMore
<1>9. [counts[c] EXCEPT ![x.class] = counts[c][x.class] + 1] \in [Classifications -> Nat]
  <2>1. counts[c] \in [Classifications -> Nat] BY <1>6
  <2> QED BY <1>5, <2>1
<1>10. /\ counts' \in [Channels -> [Classifications -> Nat]]
       /\ counts'[c] = Aggregate(Append(published[c], x))
       /\ \A ch \in Channels : ch # c => counts'[ch] = counts[ch]
  <2> DEFINE k == [counts[c] EXCEPT ![x.class] = counts[c][x.class] + 1]
  <2>1. k \in [Classifications -> Nat] /\ counts' = [counts EXCEPT ![c] = k]
        /\ Aggregate(Append(published[c], x)) = k
    BY <1>7, <1>8, <1>9
  <2> HIDE DEF k
  <2> QED BY <1>6, <2>1
<1>11. /\ published'[c] = Append(published[c], x)
       /\ \A ch \in Channels : ch # c => published'[ch] = published[ch]
  BY <1>3, <1>4
<1>12. \A ch \in Channels : counts'[ch] = Aggregate(published'[ch]) BY <1>6, <1>10, <1>11
<1> QED BY <1>10, <1>12 DEF Counting

LEMMA StreamingStep ==
    ASSUME StreamingInv, [StreamingNext]_streamingVars
    PROVE  StreamingInv'
<1>1. EvaluatorInv /\ Counting /\ Staged BY DEF StreamingInv
<1>2. EvaluatorInv' BY <1>1, StreamingEvaluates, EvaluatorStep
<1>3. Counting' /\ Staged'
  <2>1. CASE StreamRecords
    <3>1. /\ evaluator = "open" /\ published' = published /\ counts' = counts
          /\ metrics' = metrics /\ stage' = stage /\ streamed' = streamed
      BY <2>1 DEF StreamRecords, Record, RecordBehind, RecordDeferred, RecordSettled, MayRecord
    <3>2. stage = "streaming" BY <2>1 DEF StreamRecords
    <3> QED BY <1>1, <3>1, <3>2, CountingKept DEF Staged
  <2>2. CASE MetricsRecord
    <3>1. /\ evaluator = "busy" /\ evaluator' = evaluator
          /\ metrics' = metrics /\ stage' = stage /\ streamed' = streamed
      BY <2>2 DEF MetricsRecord, ConsumerReturns, HandOver
    <3>2. Staged' BY <1>1, <3>1 DEF Staged
    <3> QED BY <1>1, <2>2, <3>2, MetricsCount
  <2>3. CASE MetricsRecordRaises
    <3>1. /\ evaluator' = "failed" /\ counts' = counts /\ metrics' = "failed"
          /\ stage' = "handling"
      BY <2>3 DEF MetricsRecordRaises, ConsumerRaises, Fail
    <3> QED BY <1>1, <3>1, CountingKept DEF Staged
  <2>4. CASE EvaluatorRecordReturns
    <3>1. /\ evaluator = "busy" /\ published' = published /\ counts' = counts
          /\ metrics' = metrics /\ stage' = stage /\ streamed' = streamed
      BY <2>4 DEF EvaluatorRecordReturns, RecordReturns
    <3> QED BY <1>1, <3>1, CountingKept DEF Staged
  <2>5. CASE EvaluatorRecordRaises
    <3>1. /\ evaluator' = "failed" /\ counts' = counts /\ metrics' = metrics
          /\ stage = "streaming" /\ stage' = "handling"
      BY <2>5 DEF EvaluatorRecordRaises, RecordRejected, Fail
    <3> QED BY <1>1, <3>1, CountingKept DEF Staged
  <2>6. CASE StreamEnds
    <3>1. /\ evaluator = "open" /\ evaluator' = evaluator /\ published' = published
          /\ counts' = counts /\ metrics' = metrics /\ stage = "streaming"
          /\ \/ streamed' = "returned" /\ stage' = "evaluating"
             \/ stage' = "handling"
      BY <2>6 DEF StreamEnds, evaluatorVars
    <3> QED BY <1>1, <3>1, CountingKept DEF Staged
  <2>7. CASE EvaluatorFinishes
    <3>1. /\ evaluator # "failed" /\ published' = published /\ counts' = counts
          /\ metrics' = metrics /\ stage = "evaluating" /\ streamed' = streamed
          /\ stage' = stage \/ (stage' = "measuring" /\ evaluator' = "finished")
      BY <2>7 DEF EvaluatorFinishes, Finish, FinishFlows, FinishReturns
    <3> QED BY <1>1, <3>1, CountingKept DEF Staged
  <2>8. CASE EvaluatorFinishRaises
    <3>1. /\ evaluator' = "failed" /\ counts' = counts /\ metrics' = metrics
          /\ stage = "evaluating" /\ stage' = "handling"
      BY <2>8 DEF EvaluatorFinishRaises, FinishRejected, Fail
    <3> QED BY <1>1, <3>1, CountingKept DEF Staged
  <2>9. CASE MetricsFinish
    <3>1. /\ evaluator' = evaluator /\ published' = published /\ counts' = counts
          /\ stage = "measuring" /\ streamed' = streamed
          /\ \/ metrics' = "finished" /\ stage' = "returned"
             \/ metrics' = "failed" /\ stage' = "handling"
      BY <2>9 DEF MetricsFinish, evaluatorVars
    <3>2. evaluator = "finished" /\ streamed = "returned" BY <1>1, <3>1 DEF Staged
    <3> QED BY <1>1, <3>1, <3>2, CountingKept DEF Staged
  <2>10. CASE Handle
    <3>1. /\ counts' = counts /\ metrics' = "failed" /\ stage' = "raised"
          /\ \/ evaluator' = "failed"
             \/ evaluator = "finished" /\ evaluator' = evaluator /\ published' = published
      BY <2>10 DEF Handle, Abort, Fail, evaluatorVars
    <3> QED BY <1>1, <3>1, CountingKept DEF Staged
  <2>11. CASE Over \/ UNCHANGED streamingVars
    <3>1. /\ counts' = counts /\ metrics' = metrics /\ stage' = stage /\ streamed' = streamed
          /\ evaluator' = evaluator /\ published' = published
      BY <2>11 DEF Over, streamingVars, evaluatorVars
    <3> QED BY <1>1, <3>1 DEF Counting, Staged
  <2> QED BY <2>1, <2>2, <2>3, <2>4, <2>5, <2>6, <2>7, <2>8, <2>9, <2>10, <2>11 DEF StreamingNext
<1> QED BY <1>2, <1>3 DEF StreamingInv

(* A streaming evaluation is at every step an evaluation of what has been    *)
(* recorded, and its metrics count what was published                        *)
(* (streaming_evaluation.py: run_streaming_evaluation).                      *)
THEOREM StreamingInvariant == StreamingSpec => []StreamingInv
<1>1. StreamingInv /\ [StreamingNext]_streamingVars => StreamingInv' BY StreamingStep
<1> QED BY <1>1, StreamingStarts, PTL DEF StreamingSpec

(* Metrics are those of the batch evaluation of a complete stream, or there  *)
(* are none and nothing is left to complete them from                        *)
(* (streaming_evaluation.py: run_streaming_evaluation and its handler).      *)
THEOREM Metrics == StreamingSpec => []MetricsOrNothing
<1>1. ASSUME StreamingInv PROVE MetricsOrNothing
  <2>1. EvaluatorInv /\ Counting /\ Staged BY <1>1 DEF StreamingInv
  <2>2. ASSUME metrics = "finished" \/ stage = "returned"
        PROVE  streamed = "returned" /\ \A ch \in Channels : counts[ch] = Aggregate(Batch(ch))
    <3>1. stage = "returned" /\ streamed = "returned" /\ evaluator = "finished"
      BY <2>1, <2>2 DEF Staged
    <3>2. \A ch \in Channels : published[ch] = Batch(ch)
      BY <2>1, <3>1 DEF EvaluatorInv, Progress
    <3> QED BY <2>1, <3>1, <3>2 DEF Counting
  <2>3. ASSUME stage = "raised"
        PROVE  /\ metrics = "failed" /\ evaluator \in {"failed", "finished"}
               /\ \A ch \in Channels : pending[ch] = <<>>
    <3>1. metrics = "failed" /\ evaluator \in {"failed", "finished"} BY <2>1, <2>3 DEF Staged
    <3> QED BY <2>1, <3>1 DEF EvaluatorInv, Emptied
  <2> QED BY <2>2, <2>3 DEF MetricsOrNothing
<1> QED BY <1>1, StreamingInvariant, PTL

-----------------------------------------------------------------------------
(* The entries of the batch evaluation that recall is taken over are one for *)
(* each positive expectation.                                                *)
Truth(E) == {e \in DOMAIN E : E[e].positive}
Recalled(s) == OfClass(s, "true_positive") \cup OfClass(s, "false_negative")

LEMMA RecalledClass ==
    ASSUME NEW E, NEW F, NEW e, NEW a
    PROVE  Entry(E, e, F, a).class \in {"true_positive", "false_negative"}
           <=> e # 0 /\ E[e].positive
<1>1. Entry(E, e, F, a).class = Classification(E, e, F, a) BY DEF Entry
<1>2. ASSUME e # 0, E[e].positive
      PROVE  Classification(E, e, F, a) \in {"true_positive", "false_negative"}
  BY <1>2, Zenon DEF Classification
<1>3. ASSUME ~(e # 0 /\ E[e].positive)
      PROVE  Classification(E, e, F, a) \in {"false_positive", "true_negative", "unclassified"}
  BY <1>3, Zenon DEF Classification
<1>4. \A c \in {"false_positive", "true_negative", "unclassified"} :
          c \notin {"true_positive", "false_negative"}
  OBVIOUS
<1> QED BY <1>1, <1>2, <1>3, <1>4, Zenon

LEMMA BatchRecall ==
    ASSUME NEW F, NEW E, Given(F, E)
    PROVE  Cardinality(Recalled(EvaluateChannel(F, E))) = Cardinality(Truth(E))
<1> DEFINE C == MatchFindings(F, E, {})
           batch == EvaluateChannel(F, E)
           unmet == DOMAIN E \ Assigned(C)
           c == Cardinality(unmet)
           R == Recalled(batch)
           T == Truth(E)
<1>1. Greedy(F, E, {}, C) BY MatchFindingsGreedy
<1>2. /\ Len(E) \in Nat /\ DOMAIN E = 1 .. Len(E)
      /\ Len(F) \in Nat /\ DOMAIN F = 1 .. Len(F)
  BY Ranks
<1>3. /\ batch \in Seq(Entries) /\ Len(batch) = Len(F) + c
      /\ \A a \in 1 .. Len(F) : batch[a] = Entry(E, C[a], F, a)
      /\ \A i \in 1 .. c : batch[Len(F) + i] = Entry(E, Nth(unmet, i), <<>>, 0)
      /\ C \in Assignments(F, E) /\ unmet \in SUBSET Nat /\ IsFiniteSet(unmet) /\ c \in Nat
  BY BatchIs
<1>4. \A a \in DOMAIN F, b \in DOMAIN F : C[a] # 0 /\ C[a] = C[b] => a = b
  BY <1>1 DEF Greedy, Proper
<1>5. \A a \in DOMAIN F : C[a] \in Nat /\ C[a] \in 0 .. Len(E) BY <1>2, <1>3 DEF Assignments
<1>6. ASSUME NEW e \in DOMAIN E PROVE e \in unmet <=> ~\E a \in DOMAIN F : C[a] = e
  <2>1. e \in Assigned(C) <=> \E a \in DOMAIN F : C[a] = e BY <1>3, AssignedIn
  <2> QED BY <2>1
<1>7. /\ \A i \in 1 .. c : Nth(unmet, i) \in unmet
      /\ \A i, j \in 1 .. c : Nth(unmet, i) = Nth(unmet, j) => i = j
      /\ \A n \in unmet : \E i \in 1 .. c : Nth(unmet, i) = n
  BY <1>3, NthNumbers
<1>8. unmet \subseteq DOMAIN E OBVIOUS
<1>9. T \in SUBSET (1 .. Len(E)) /\ \A e : e \in T <=> e \in DOMAIN E /\ E[e].positive
  BY <1>2 DEF Truth
<1>10. DOMAIN batch = 1 .. (Len(F) + c)
       /\ \A i : i \in R <=> i \in DOMAIN batch
                              /\ batch[i].class \in {"true_positive", "false_negative"}
  BY <1>3, LenProperties DEF Recalled, OfClass
<1> HIDE DEF C, batch, unmet, c, R, T
<1>11. \A a \in 1 .. Len(F) : batch[a].expected = C[a] BY <1>2, <1>3, <1>5, EntryIs
<1>12. \A i \in 1 .. c : batch[Len(F) + i].expected = Nth(unmet, i)
  <2> SUFFICES ASSUME NEW i \in 1 .. c PROVE batch[Len(F) + i].expected = Nth(unmet, i) OBVIOUS
  <2> DEFINE n == Nth(unmet, i)
  <2>1. n \in Nat BY <1>3, <1>7
  <2>2. batch[Len(F) + i] = Entry(E, n, <<>>, 0) BY <1>3
  <2> HIDE DEF n
  <2>3. Entry(E, n, <<>>, 0).expected = n BY <2>1, EntryIs
  <2> QED BY <2>2, <2>3 DEF n
<1>13. \A i \in DOMAIN batch : i \in 1 .. Len(F) \/ \E j \in 1 .. c : i = Len(F) + j
  <2> SUFFICES ASSUME NEW i \in 1 .. (Len(F) + c), i \notin 1 .. Len(F)
               PROVE  \E j \in 1 .. c : i = Len(F) + j
    BY <1>10
  <2>1. i - Len(F) \in 1 .. c /\ i = Len(F) + (i - Len(F)) BY <1>2, <1>3
  <2> QED BY <2>1
<1>14. \A a \in 1 .. Len(F) : a \in DOMAIN batch BY <1>2, <1>3, <1>10
<1>15. \A j \in 1 .. c : Len(F) + j \in DOMAIN batch BY <1>2, <1>3, <1>10
(* Which entries are taken, by what they expected.                           *)
<1>16. ASSUME NEW i \in DOMAIN batch PROVE i \in R <=> batch[i].expected \in T
  <2>1. CASE i \in 1 .. Len(F)
    <3>1. batch[i].expected = C[i] /\ C[i] \in 0 .. Len(E) BY <1>2, <1>5, <1>11, <2>1
    <3>2. batch[i] = Entry(E, C[i], F, i) BY <1>3, <2>1
    <3> DEFINE n == C[i]
    <3> HIDE DEF n
    <3>5. Entry(E, n, F, i).class \in {"true_positive", "false_negative"} <=> n # 0 /\ E[n].positive
      BY RecalledClass
    <3>3. batch[i].class \in {"true_positive", "false_negative"} <=> C[i] # 0 /\ E[C[i]].positive
      BY <3>2, <3>5, Zenon DEF n
    <3>4. C[i] # 0 <=> C[i] \in DOMAIN E BY <1>2, <3>1
    <3> QED BY <1>9, <1>10, <3>1, <3>3, <3>4, Zenon
  <2>2. ASSUME NEW j \in 1 .. c, i = Len(F) + j PROVE i \in R <=> batch[i].expected \in T
    <3> DEFINE n == Nth(unmet, j)
    <3>1. batch[i].expected = n /\ n \in DOMAIN E BY <1>7, <1>8, <1>12, <2>2
    <3>2. batch[i] = Entry(E, n, <<>>, 0) BY <1>3, <2>2
    <3> HIDE DEF n
    <3>5. Entry(E, n, <<>>, 0).class \in {"true_positive", "false_negative"} <=> n # 0 /\ E[n].positive
      BY RecalledClass
    <3>3. batch[i].class \in {"true_positive", "false_negative"} <=> n # 0 /\ E[n].positive
      BY <3>2, <3>5, Zenon
    <3>4. n # 0 BY <1>2, <3>1
    <3> QED BY <1>9, <1>10, <3>1, <3>3, <3>4, Zenon
  <2> QED BY <1>13, <2>1, <2>2
(* No two of them expected the same.                                         *)
<1>17. ASSUME NEW a \in 1 .. Len(F), NEW j \in 1 .. c
       PROVE  batch[a].expected # batch[Len(F) + j].expected
  <2>1. batch[a].expected = C[a] /\ batch[Len(F) + j].expected = Nth(unmet, j)
    BY <1>11, <1>12
  <2>2. Nth(unmet, j) \in unmet /\ Nth(unmet, j) \in DOMAIN E BY <1>7, <1>8
  <2> QED BY <1>2, <1>6, <2>1, <2>2
<1>18. ASSUME NEW i \in R, NEW k \in R, batch[i].expected = batch[k].expected PROVE i = k
  <2>0. i \in DOMAIN batch /\ k \in DOMAIN batch /\ batch[i].expected \in T BY <1>10, <1>16
  <2>1. CASE i \in 1 .. Len(F) /\ k \in 1 .. Len(F)
    <3>1. C[i] = C[k] /\ C[i] # 0 BY <1>9, <1>11, <1>18, <2>0, <2>1
    <3> QED BY <1>2, <1>4, <2>1, <3>1
  <2>2. ASSUME NEW x \in 1 .. c, NEW y \in 1 .. c, i = Len(F) + x, k = Len(F) + y PROVE i = k
    BY <1>7, <1>12, <1>18, <2>2
  <2> QED BY <1>13, <1>17, <1>18, <2>0, <2>1, <2>2
(* Every expectation is the expectation of an entry.                         *)
<1>19. ASSUME NEW e \in T PROVE \E i \in R : batch[i].expected = e
  <2>1. e \in DOMAIN E BY <1>9
  <2>2. CASE e \in unmet
    <3>1. PICK j \in 1 .. c : Nth(unmet, j) = e BY <1>7, <2>2
    <3> QED BY <1>12, <1>15, <1>16, <3>1
  <2>3. CASE e \notin unmet
    <3>1. PICK a \in DOMAIN F : C[a] = e BY <1>6, <2>1, <2>3
    <3> QED BY <1>2, <1>11, <1>14, <1>16, <3>1
  <2> QED BY <2>2, <2>3
<1> DEFINE f == [i \in R |-> batch[i].expected]
<1>20. f \in [R -> T] /\ \A i \in R : f[i] = batch[i].expected
  <2>1. \A i \in R : batch[i].expected \in T BY <1>10, <1>16
  <2> QED BY <2>1
<1> HIDE DEF f
<1>21. IsFiniteSet(T) BY <1>2, <1>9, IndicesFinite
<1>22. \A i, k \in R : f[i] = f[k] => i = k BY <1>18, <1>20
<1>23. \A e \in T : \E i \in R : f[i] = e BY <1>19, <1>20
<1>24. Cardinality(R) = Cardinality(T) BY <1>20, <1>21, <1>22, <1>23, OneToOne
<1> QED BY <1>24 DEF R, T, batch

LEMMA RecalledAdds ==
    ASSUME NEW s \in Seq(Entries)
    PROVE  Aggregate(s)["true_positive"] + Aggregate(s)["false_negative"] = Cardinality(Recalled(s))
<1> DEFINE S == OfClass(s, "true_positive")
           T == OfClass(s, "false_negative")
<1>1. /\ IsFiniteSet(S) /\ IsFiniteSet(T) /\ Cardinality(S) \in Nat /\ Cardinality(T) \in Nat
  BY OfClassFinite
<1>2. S \cap T = {} BY DEF OfClass
<1>3. "true_positive" \in Classifications /\ "false_negative" \in Classifications
  BY DEF Classifications
<1>4. Aggregate(s)["true_positive"] = Cardinality(S) /\ Aggregate(s)["false_negative"] = Cardinality(T)
  BY <1>3, AggregateIs
<1>5. Recalled(s) = S \cup T BY DEF Recalled
<1> HIDE DEF S, T
<1>6. Cardinality(S \cup T) = Cardinality(S) + Cardinality(T) - Cardinality(S \cap T)
  BY <1>1, FS_Union
<1>7. Cardinality(S \cap T) = 0 BY <1>2, FS_EmptySet
<1> QED BY <1>1, <1>4, <1>5, <1>6, <1>7

(* The metrics of a run that returns count as many true positives and false  *)
(* negatives of each channel as the ground truth has positive records        *)
(* (detection_metrics.py: _aggregate).                                       *)
THEOREM Recall == StreamingSpec => []RecallOverTruth
<1>1. ASSUME StreamingInv PROVE RecallOverTruth
  <2>1. EvaluatorInv /\ Counting /\ Staged BY <1>1 DEF StreamingInv
  <2> SUFFICES ASSUME stage = "returned", NEW ch \in Channels
               PROVE  counts[ch]["true_positive"] + counts[ch]["false_negative"] =
                          Cardinality({e \in DOMAIN expected[ch] : expected[ch][e].positive})
    BY Zenon DEF RecallOverTruth
  <2>2. evaluator = "finished" BY <2>1 DEF Staged
  <2>3. published[ch] = EvaluateChannel(recorded[ch], expected[ch])
    BY <2>1, <2>2 DEF EvaluatorInv, Progress, Batch
  <2>4. Given(recorded[ch], expected[ch]) /\ published[ch] \in Seq(Entries)
    BY <2>1, HandedType DEF EvaluatorInv
  <2>5. counts[ch] = Aggregate(published[ch]) BY <2>1, <2>2 DEF Counting
  <2>6. counts[ch]["true_positive"] + counts[ch]["false_negative"] = Cardinality(Recalled(published[ch]))
    BY <2>4, <2>5, RecalledAdds
  <2>7. Cardinality(Recalled(published[ch])) = Cardinality(Truth(expected[ch]))
    BY <2>3, <2>4, BatchRecall
  <2>8. Truth(expected[ch]) = {e \in DOMAIN expected[ch] : expected[ch][e].positive}
    BY DEF Truth
  <2> QED BY <2>6, <2>7, <2>8
<1> QED BY <1>1, StreamingInvariant, PTL
===============================================================================
