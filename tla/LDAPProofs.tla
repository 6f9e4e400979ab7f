------------------------------- MODULE LDAPProofs ------------------------------
(***************************************************************************)
(* Proofs about the correlation of an LDAP flow: whatever the two sides    *)
(* send and however it is cut into segments and lost, the table of pending *)
(* requests gives each message the outcome that the exchange of messages   *)
(* implies, and the messages themselves are those of the bytes.            *)
(***************************************************************************)
EXTENDS LDAPCorrelation, InductionLemmas, SequenceTheorems

-----------------------------------------------------------------------------
(* The envelope of a message.                                                *)

(* A byte that is read is a byte, also where nothing is there to read.       *)
LEMMA ByteIs ==
    ASSUME NEW data \in Seq(Bytes), NEW p \in Int
    PROVE  Byte(data, p) \in Bytes /\ Byte(data, p) \in Nat
<1>1. \A i \in DOMAIN data : data[i] \in Bytes OBVIOUS
<1>2. 0 \in Bytes BY DEF Bytes
<1>3. Byte(data, p) \in Bytes BY <1>1, <1>2 DEF Byte
<1>4. \A b \in Bytes : b \in Nat BY DEF Bytes
<1> QED BY <1>3, <1>4

(* A number is taken from each octet in turn.                                *)
NumberAt(data, p, value, count) ==
    /\ value[0] = 0
    /\ \A i \in 1 .. count : value[i] = value[i - 1] * 256 + Byte(data, p + i - 1)

(* A number is reached in as many steps as it has bytes.                    *)
LEMMA NumberSteps ==
    ASSUME NEW data \in Seq(Bytes), NEW p \in Int, NEW count \in Nat
    PROVE  \E value : NumberAt(data, p, value, count) /\ Number(data, p, count) = value[count]
<1> DEFINE step == [i \in 1 .. count |-> [v \in Nat |-> v * 256 + Byte(data, p + i - 1)]]
           value[i \in 0 .. count] == IF i = 0 THEN 0 ELSE value[i - 1] * 256 + Byte(data, p + i - 1)
           Follows(f) == f = [i \in 0 .. count |->
                                 IF i = 0 THEN 0 ELSE f[i - 1] * 256 + Byte(data, p + i - 1)]
<1>1. \A i \in 1 .. count : Byte(data, p + i - 1) \in Nat
  <2>1. \A q \in Int : Byte(data, q) \in Nat BY ByteIs
  <2>2. \A i \in 1 .. count : p + i - 1 \in Int OBVIOUS
  <2> HIDE DEF step, value, Follows
  <2> QED BY <2>1, <2>2
<1>2. step \in [1 .. count -> [Nat -> Nat]]
  <2>1. ASSUME NEW i \in 1 .. count, NEW v \in Nat PROVE v * 256 + Byte(data, p + i - 1) \in Nat
    <3>1. Byte(data, p + i - 1) \in Nat BY <1>1
    <3> HIDE DEF step, value, Follows
    <3> QED BY <3>1
  <2> HIDE DEF value, Follows
  <2> QED BY <2>1
<1>3. PICK g \in [0 .. count -> Nat] : g[0] = 0 /\ \A k \in 1 .. count : g[k] = step[k][g[k - 1]]
  <2> HIDE DEF step
  <2>1. Iterated(count, Nat, 0, step) BY <1>2, Iteration
  <2> QED BY <2>1 DEF Iterated
<1>4. Follows(g)
  <2>1. ASSUME NEW i \in 0 .. count, i # 0 PROVE g[i] = g[i - 1] * 256 + Byte(data, p + i - 1)
    <3>1. i \in 1 .. count /\ i - 1 \in 0 .. count BY <2>1
    <3>2. step[i][g[i - 1]] = g[i - 1] * 256 + Byte(data, p + i - 1) BY <3>1
    <3> QED BY <1>3, <3>1, <3>2
  <2> HIDE DEF step
  <2> QED BY <1>3, <2>1
<1>5. Follows(value)
  <2>1. value = CHOOSE f : Follows(f) OBVIOUS
  <2> HIDE DEF value, Follows
  <2> QED BY <1>4, <2>1
<1>7. Number(data, p, count) = value[count] BY DEF Number
<1> HIDE DEF value
<1>8. NumberAt(data, p, value, count)
  <2>1. 0 \in 0 .. count /\ \A i \in 1 .. count : i \in 0 .. count /\ i # 0 OBVIOUS
  <2> QED BY <1>5, <2>1 DEF NumberAt
<1> QED BY <1>7, <1>8

(* An unsigned number of any length is a natural.                            *)
LEMMA NumberIs ==
    ASSUME NEW data \in Seq(Bytes), NEW p \in Int, NEW count \in Nat
    PROVE  Number(data, p, count) \in Nat
<1>1. \A i \in 1 .. count : Byte(data, p + i - 1) \in Nat
  <2>1. \A q \in Int : Byte(data, q) \in Nat BY ByteIs
  <2>2. \A i \in 1 .. count : p + i - 1 \in Int OBVIOUS
  <2> QED BY <2>1, <2>2
<1>2. PICK value : NumberAt(data, p, value, count) /\ Number(data, p, count) = value[count] BY NumberSteps
<1> DEFINE H == {i \in 0 .. count : value[i] \in Nat}
<1>3. 0 \in H BY <1>2 DEF NumberAt
<1>4. ASSUME NEW i \in 1 .. count, i - 1 \in H PROVE i \in H
  <2>1. value[i] = value[i - 1] * 256 + Byte(data, p + i - 1) BY <1>2 DEF NumberAt
  <2>2. value[i - 1] * 256 + Byte(data, p + i - 1) \in Nat BY <1>1, <1>4, SMTT(30)
  <2> QED BY <2>1, <2>2
<1>5. \A i \in 0 .. count : i \in H
  <2> HIDE DEF H
  <2> QED BY <1>3, <1>4, Upwards
<1> QED BY <1>2, <1>5

(* Of checks of which each gives None or a failure, the first failure.       *)
Verdicts == Failures \cup {None}

(* The checks that pass are the ones before the first that does not.         *)
LEMMA PassedIs ==
    ASSUME NEW checks \in Seq(Verdicts)
    PROVE  /\ Passed(checks) \in 0 .. Len(checks)
           /\ \A i \in 1 .. Passed(checks) : checks[i] = None
           /\ Passed(checks) < Len(checks) => checks[Passed(checks) + 1] # None
<1> DEFINE T == {n \in 1 .. Len(checks) : checks[n] # None}
           Good(n) == (\A i \in 1 .. n : checks[i] = None) /\ (n < Len(checks) => checks[n + 1] # None)
<1>1. Len(checks) \in Nat /\ DOMAIN checks = 1 .. Len(checks) BY LenProperties
<1>2. \E n \in 0 .. Len(checks) : Good(n)
  <2>1. CASE T = {}
    <3>1. \A i \in 1 .. Len(checks) : checks[i] = None BY <2>1
    <3>2. Len(checks) \in 0 .. Len(checks) /\ ~ (Len(checks) < Len(checks)) BY <1>1
    <3> QED BY <3>1, <3>2
  <2>2. CASE T # {}
    <3>1. T \in SUBSET Nat BY <1>1
    <3>2. PICK n \in T : \A m \in T : n <= m
      <4> HIDE DEF T
      <4> QED BY <2>2, <3>1, LeastNat
    <3>3. n - 1 \in 0 .. Len(checks) /\ n - 1 + 1 = n BY <1>1
    <3>4. ASSUME NEW i \in 1 .. (n - 1) PROVE checks[i] = None
      <4>1. i \in 1 .. Len(checks) /\ ~ (n <= i) BY <1>1, <3>2, <3>3
      <4> QED BY <3>2, <4>1
    <3> QED BY <3>2, <3>3, <3>4
  <2> QED BY <2>1, <2>2
<1>3. Passed(checks) \in 0 .. Len(checks) /\ Good(Passed(checks))
  <2>1. Passed(checks) = CHOOSE n \in 0 .. Len(checks) : Good(n) BY DEF Passed
  <2> HIDE DEF Good
  <2> QED BY <1>2, <2>1
<1> QED BY <1>3

(* The checks fail with the first that fails; without a failure all of them  *)
(* passed.                                                                   *)
LEMMA FailureIs ==
    ASSUME NEW checks \in Seq(Verdicts)
    PROVE  /\ Passed(checks) \in 0 .. Len(checks) /\ Failure(checks) \in Verdicts
           /\ Failure(checks) = None => /\ Passed(checks) = Len(checks)
                                        /\ \A i \in 1 .. Len(checks) : checks[i] = None
<1>1. Len(checks) \in Nat /\ DOMAIN checks = 1 .. Len(checks) BY LenProperties
<1>2. /\ Passed(checks) \in 0 .. Len(checks)
      /\ \A i \in 1 .. Passed(checks) : checks[i] = None
      /\ Passed(checks) < Len(checks) => checks[Passed(checks) + 1] # None
  BY PassedIs
<1>3. Failure(checks) \in Verdicts
  <2>1. CASE Passed(checks) = Len(checks) BY <2>1 DEF Failure, Verdicts
  <2>2. CASE Passed(checks) # Len(checks)
    <3>1. Passed(checks) + 1 \in 1 .. Len(checks) BY <1>1, <1>2, <2>2
    <3>2. checks[Passed(checks) + 1] \in Verdicts BY <1>1, <3>1
    <3> QED BY <2>2, <3>2 DEF Failure
  <2> QED BY <2>1, <2>2
<1>4. ASSUME Failure(checks) = None PROVE Passed(checks) = Len(checks)
  <2> SUFFICES ASSUME Passed(checks) # Len(checks) PROVE FALSE OBVIOUS
  <2>1. Passed(checks) < Len(checks) BY <1>1, <1>2
  <2>2. checks[Passed(checks) + 1] # None BY <1>2, <2>1
  <2> QED BY <1>4, <2>2 DEF Failure
<1> QED BY <1>2, <1>3, <1>4

(* Every check gives a verdict: none, or a way to fail.                      *)
LEMMA VerdictsAre ==
    /\ \A p, count, available, boundary : Need(p, count, available, boundary) \in Verdicts
    /\ \A condition, status : status \in Failures => If(condition, status) \in Verdicts
    /\ \A condition : \A v \in Verdicts : If(condition, v) \in Verdicts
<1>1. None \in Verdicts /\ Failures \subseteq Verdicts BY DEF Verdicts
<1>2. \A condition : \A v \in Verdicts : If(condition, v) \in Verdicts BY <1>1 DEF If
<1>3. {"malformed", "incomplete", "unsupported"} \subseteq Failures BY DEF Failures
<1>4. \A p, count, available, boundary : Need(p, count, available, boundary) \in Verdicts
  BY <1>1, <1>2, <1>3 DEF Need
<1> QED BY <1>1, <1>2, <1>4

(* An envelope lies behind the two bytes that it has at least.               *)
LEMMA EnvelopeIs ==
    ASSUME NEW data \in Seq(Bytes), NEW p \in Nat, NEW available, NEW boundary
    PROVE  LET e == Envelope(data, p, available, boundary)
           IN /\ e.tag \in Bytes /\ e.start \in Nat /\ e.end \in Nat /\ p + 2 <= e.start /\ e.start <= e.end
              /\ e.failure \in Verdicts
<1> DEFINE first == Byte(data, p + 1)
           count == IF first \in 129..132 THEN first - 128 ELSE 0
           start == p + 2 + count
           end == start + (IF first < 128 THEN first ELSE Number(data, p + 2, count))
           checks == <<Need(p, 1, available, boundary),
                       If(Byte(data, p) % 32 = 31, "unsupported"),
                       Need(p + 1, 1, available, boundary),
                       If(first = 255, "malformed"),
                       If(first = 128, "unsupported"),
                       If(first > 132, "unsupported"),
                       Need(p + 2, count, available, boundary),
                       If(boundary # None /\ end > boundary, "malformed")>>
           e == Envelope(data, p, available, boundary)
<1>1. e = [tag |-> Byte(data, p), start |-> start, end |-> end, failure |-> Failure(checks)]
  BY DEF Envelope
<1>2. first \in Nat /\ Byte(data, p) \in Bytes
  <2>1. \A q \in Int : Byte(data, q) \in Bytes /\ Byte(data, q) \in Nat BY ByteIs
  <2>2. p \in Int /\ p + 1 \in Int OBVIOUS
  <2> QED BY <2>1, <2>2
<1>3. count \in Nat BY <1>2
<1>4. Number(data, p + 2, count) \in Nat
  <2>1. p + 2 \in Int OBVIOUS
  <2> HIDE DEF count
  <2> QED BY <1>3, <2>1, NumberIs
<1>5. start \in Nat /\ end \in Nat /\ p + 2 <= start /\ start <= end
  <2> HIDE DEF count, first
  <2> QED BY <1>2, <1>3, <1>4
<1>6. Failure(checks) \in Verdicts
  <2>1. {"malformed", "incomplete", "unsupported"} \subseteq Failures BY DEF Failures
  <2>2. \A c, s : s \in Failures => If(c, s) \in Verdicts BY VerdictsAre
  <2>3. checks \in Seq(Verdicts)
    <3> HIDE DEF first, count, start, end
    <3>1. /\ Need(p, 1, available, boundary) \in Verdicts
          /\ If(Byte(data, p) % 32 = 31, "unsupported") \in Verdicts
          /\ Need(p + 1, 1, available, boundary) \in Verdicts
          /\ If(first = 255, "malformed") \in Verdicts
          /\ If(first = 128, "unsupported") \in Verdicts
          /\ If(first > 132, "unsupported") \in Verdicts
          /\ Need(p + 2, count, available, boundary) \in Verdicts
          /\ If(boundary # None /\ end > boundary, "malformed") \in Verdicts
      BY <2>1, VerdictsAre
    <3> QED BY <3>1
  <2> HIDE DEF checks
  <2> QED BY <2>3, FailureIs
<1> HIDE DEF first, count, start, end, checks, e
<1> QED BY <1>1, <1>2, <1>5, <1>6 DEF e

(* The envelopes of a message lie one behind the other.                      *)
LEMMA EnvelopesFollow ==
    ASSUME NEW data \in Seq(Bytes), NEW offset \in Nat, NEW available
    PROVE  LET e == Envelopes(data, offset, available)
           IN /\ e.outer = Envelope(data, offset, available, None)
              /\ e.id = Envelope(data, e.outer.start, available, e.outer.end)
              /\ e.op = Envelope(data, e.id.end, available, e.outer.end)
              /\ e.controls = Envelope(data, e.op.end, available, e.outer.end)
              /\ e.outer.start \in Nat /\ e.outer.end \in Nat /\ offset + 2 <= e.outer.end
              /\ e.id.start \in Nat /\ e.id.end \in Nat /\ e.id.start <= e.id.end
              /\ e.op.start \in Nat /\ e.op.end \in Nat /\ e.op.start <= e.op.end
              /\ e.controls.start \in Nat /\ e.controls.end \in Nat
              /\ e.outer.failure \in Verdicts /\ e.id.failure \in Verdicts
              /\ e.op.failure \in Verdicts /\ e.controls.failure \in Verdicts
<1> DEFINE outer == Envelope(data, offset, available, None)
           E(p) == Envelope(data, p, available, outer.end)
           inner[i \in 1..3] == Envelope(data, IF i = 1 THEN outer.start ELSE inner[i - 1].end, available, outer.end)
           Follows(g) == g = [i \in 1..3 |-> Envelope(data, IF i = 1 THEN outer.start ELSE g[i - 1].end, available, outer.end)]
           e == Envelopes(data, offset, available)
<1>1. /\ outer.start \in Nat /\ outer.end \in Nat /\ offset + 2 <= outer.end
      /\ outer.failure \in Verdicts
  <2>1. LET x == Envelope(data, offset, available, None)
        IN /\ x.start \in Nat /\ x.end \in Nat /\ offset + 2 <= x.start /\ x.start <= x.end
           /\ x.failure \in Verdicts
    BY EnvelopeIs
  <2>2. /\ outer.start \in Nat /\ outer.end \in Nat /\ offset + 2 <= outer.start
        /\ outer.start <= outer.end /\ outer.failure \in Verdicts
    BY <2>1
  <2> HIDE DEF outer, inner, Follows, e
  <2> QED BY <2>2
<1>2. ASSUME NEW p \in Nat
      PROVE  E(p).start \in Nat /\ E(p).end \in Nat /\ E(p).start <= E(p).end /\ E(p).failure \in Verdicts
  <2> HIDE DEF outer, inner, Follows, e
  <2> QED BY EnvelopeIs
<1>3. e = [outer |-> outer, id |-> inner[1], op |-> inner[2], controls |-> inner[3]]
  BY DEF Envelopes
<1>4. \E g : Follows(g)
  <2> DEFINE a == E(outer.start)
             b == E(a.end)
             c == E(b.end)
             g == [i \in 1..3 |-> IF i = 1 THEN a ELSE IF i = 2 THEN b ELSE c]
  <2>1. /\ g[1] = a /\ g[2] = b /\ g[3] = c
        /\ g = [i \in 1..3 |-> g[i]]
    <3> HIDE DEF a, b, c
    <3> QED OBVIOUS
  <2>2. ASSUME NEW i \in 1..3
        PROVE  g[i] = Envelope(data, IF i = 1 THEN outer.start ELSE g[i - 1].end, available, outer.end)
    <3>1. i = 1 \/ i = 2 \/ i = 3 OBVIOUS
    <3>2. CASE i = 1 BY <2>1, <3>2
    <3>3. CASE i = 2
      <4>1. g[i] = E(g[1].end) /\ i - 1 = 1 BY <2>1, <3>3
      <4> HIDE DEF g, outer, inner
      <4> QED BY <3>3, <4>1
    <3>4. CASE i = 3
      <4>1. g[i] = E(g[2].end) /\ i - 1 = 2 BY <2>1, <3>4
      <4> HIDE DEF g, outer, inner
      <4> QED BY <3>4, <4>1
    <3> QED BY <3>1, <3>2, <3>3, <3>4
  <2>3. Follows(g)
    <3> HIDE DEF g, outer, inner
    <3> QED BY <2>1, <2>2
  <2> QED BY <2>3
<1>5. Follows(inner)
  <2>1. inner = CHOOSE g : Follows(g) OBVIOUS
  <2> HIDE DEF inner, Follows
  <2> QED BY <1>4, <2>1
<1> HIDE DEF inner, outer, e
<1>6. /\ inner[1] = E(outer.start) /\ inner[2] = E(inner[1].end) /\ inner[3] = E(inner[2].end)
  <2>1. 1 \in 1..3 /\ 2 \in 1..3 /\ 3 \in 1..3 /\ 2 # 1 /\ 3 # 1 /\ 2 - 1 = 1 /\ 3 - 1 = 2 OBVIOUS
  <2> QED BY <1>5, <2>1
<1>11. /\ e.outer = outer /\ e.id = E(e.outer.start) /\ e.op = E(e.id.end) /\ e.controls = E(e.op.end)
       /\ outer = Envelope(data, offset, available, None)
  BY <1>3, <1>6 DEF outer
<1>12. /\ e.id = Envelope(data, e.outer.start, available, e.outer.end)
       /\ e.op = Envelope(data, e.id.end, available, e.outer.end)
       /\ e.controls = Envelope(data, e.op.end, available, e.outer.end)
       /\ e.outer = Envelope(data, offset, available, None)
  BY <1>11
<1> HIDE DEF E, Follows
<1>7. e.outer.start \in Nat /\ e.outer.end \in Nat /\ offset + 2 <= e.outer.end /\ e.outer.failure \in Verdicts
  BY <1>1, <1>11
<1>8. e.id.start \in Nat /\ e.id.end \in Nat /\ e.id.start <= e.id.end /\ e.id.failure \in Verdicts
  BY <1>2, <1>7, <1>11
<1>9. e.op.start \in Nat /\ e.op.end \in Nat /\ e.op.start <= e.op.end /\ e.op.failure \in Verdicts
  BY <1>2, <1>8, <1>11
<1>10. e.controls.start \in Nat /\ e.controls.end \in Nat /\ e.controls.failure \in Verdicts
  BY <1>2, <1>9, <1>11
<1> QED BY <1>7, <1>8, <1>9, <1>10, <1>12 DEF e

(* A sequence of as many checks as a message has.                           *)
LEMMA Eighteen ==
    ASSUME NEW S, NEW s, s = [i \in 1 .. 18 |-> s[i]],
           s[1] \in S /\ s[2] \in S /\ s[3] \in S /\ s[4] \in S /\ s[5] \in S /\ s[6] \in S,
           s[7] \in S /\ s[8] \in S /\ s[9] \in S /\ s[10] \in S /\ s[11] \in S /\ s[12] \in S,
           s[13] \in S /\ s[14] \in S /\ s[15] \in S /\ s[16] \in S /\ s[17] \in S /\ s[18] \in S
    PROVE  s \in Seq(S) /\ Len(s) = 18
<1>1. ASSUME NEW i \in 1 .. 18 PROVE s[i] \in S
  <2>1. \/ i = 1 \/ i = 2 \/ i = 3 \/ i = 4 \/ i = 5 \/ i = 6 \/ i = 7 \/ i = 8 \/ i = 9
        \/ i = 10 \/ i = 11 \/ i = 12 \/ i = 13 \/ i = 14 \/ i = 15 \/ i = 16 \/ i = 17 \/ i = 18
    BY <1>1
  <2> QED BY <2>1
<1>2. [i \in 1 .. 18 |-> s[i]] \in Seq(S) BY <1>1
<1>3. Len([i \in 1 .. 18 |-> s[i]]) = 18 OBVIOUS
<1> QED BY <1>2, <1>3

(* The checks of a message, one by one.                                      *)
Listed(checks, data, offset, available, e) ==
    /\ checks \in Seq(Verdicts) /\ Len(checks) = 18
    /\ checks[1] = Need(offset, 1, available, None)
    /\ checks[2] = If(Byte(data, offset) # 48, "malformed")
    /\ checks[3] = e.outer.failure
    /\ checks[4] = If(e.outer.end - offset > MaxMessage, "unsupported")
    /\ checks[5] = e.id.failure
    /\ checks[6] = If(e.id.tag # 2, "malformed")
    /\ checks[7] = If(e.id.end - e.id.start \notin 1..4, "malformed")
    /\ checks[8] = Need(e.id.start, e.id.end - e.id.start, available, e.outer.end)
    /\ checks[9] = If(\/ Byte(data, e.id.start) >= 128
                      \/ /\ e.id.end - e.id.start > 1 /\ Byte(data, e.id.start) = 0
                         /\ Byte(data, e.id.start + 1) < 128, "malformed")
    /\ checks[10] = Need(e.id.end, 1, available, e.outer.end)
    /\ checks[11] = e.op.failure
    /\ checks[12] = Need(e.op.start, e.op.end - e.op.start, available, e.outer.end)
    /\ checks[13] = If(e.op.end < e.outer.end, Need(e.op.end, 1, available, e.outer.end))
    /\ checks[14] = If(e.op.end < e.outer.end /\ Byte(data, e.op.end) # 160, "unsupported")
    /\ checks[15] = If(e.op.end < e.outer.end, e.controls.failure)
    /\ checks[16] = If(e.op.end < e.outer.end,
                       Need(e.controls.start, e.controls.end - e.controls.start, available, e.outer.end))
    /\ checks[17] = If(e.op.end < e.outer.end /\ e.controls.end # e.outer.end, "unsupported")
    /\ checks[18] = If(Byte(data, e.id.end) \notin Operations, "unsupported")

(* The eighteen checks of a message are verdicts, in their order.           *)
LEMMA ChecksAre ==
    ASSUME NEW data, NEW offset, NEW available, NEW e,
           e.outer.failure \in Verdicts, e.id.failure \in Verdicts, e.op.failure \in Verdicts,
           e.controls.failure \in Verdicts
    PROVE  Listed(Checks(data, offset, available, e), data, offset, available, e)
<1> DEFINE checks == Checks(data, offset, available, e)
           size == e.id.end - e.id.start
           trailing == e.op.end < e.outer.end
           first == Byte(data, e.id.start)
           nine == If(\/ Byte(data, e.id.start) >= 128
                      \/ /\ size > 1 /\ Byte(data, e.id.start) = 0
                         /\ Byte(data, e.id.start + 1) < 128, "malformed")
<1>1. {"malformed", "incomplete", "unsupported"} \subseteq Failures BY DEF Failures
<1>2. /\ \A p, q, a, b : Need(p, q, a, b) \in Verdicts
      /\ \A c, status : status \in Failures => If(c, status) \in Verdicts
      /\ \A c : \A v \in Verdicts : If(c, v) \in Verdicts
  BY VerdictsAre
<1>3. \A c : If(c, "malformed") \in Verdicts /\ If(c, "unsupported") \in Verdicts BY <1>1, <1>2
<1>4. /\ If(trailing, Need(e.op.end, 1, available, e.outer.end)) \in Verdicts
      /\ If(trailing /\ Byte(data, e.op.end) # 160, "unsupported") \in Verdicts
      /\ If(trailing, e.controls.failure) \in Verdicts
  BY <1>2, <1>3, Zenon
<1>8. checks = [i \in 1 .. 18 |-> checks[i]] BY DEF Checks
<1>9. /\ checks[1] = Need(offset, 1, available, None)
      /\ checks[2] = If(Byte(data, offset) # 48, "malformed")
      /\ checks[3] = e.outer.failure
  BY DEF Checks
<1>10. /\ checks[4] = If(e.outer.end - offset > MaxMessage, "unsupported")
      /\ checks[5] = e.id.failure
      /\ checks[6] = If(e.id.tag # 2, "malformed")
  BY DEF Checks
<1>11. /\ checks[7] = If(size \notin 1..4, "malformed")
      /\ checks[8] = Need(e.id.start, size, available, e.outer.end)
      /\ checks[9] = nine
  BY DEF Checks
<1>12. /\ checks[10] = Need(e.id.end, 1, available, e.outer.end)
      /\ checks[11] = e.op.failure
      /\ checks[12] = Need(e.op.start, e.op.end - e.op.start, available, e.outer.end)
  BY DEF Checks
<1>13. /\ checks[13] = If(trailing, Need(e.op.end, 1, available, e.outer.end))
      /\ checks[14] = If(trailing /\ Byte(data, e.op.end) # 160, "unsupported")
      /\ checks[15] = If(trailing, e.controls.failure)
  BY DEF Checks
<1>14. /\ checks[16] = If(trailing, Need(e.controls.start, e.controls.end - e.controls.start,
                                        available, e.outer.end))
      /\ checks[17] = If(trailing /\ e.controls.end # e.outer.end, "unsupported")
      /\ checks[18] = If(Byte(data, e.id.end) \notin Operations, "unsupported")
  BY DEF Checks
<1> HIDE DEF checks
<1>15. checks[1] \in Verdicts /\ checks[2] \in Verdicts /\ checks[3] \in Verdicts
  BY <1>2, <1>3, <1>9, Zenon
<1>16. checks[4] \in Verdicts /\ checks[5] \in Verdicts /\ checks[6] \in Verdicts
  BY <1>2, <1>3, <1>10, Zenon
<1>17. checks[7] \in Verdicts /\ checks[8] \in Verdicts /\ checks[9] \in Verdicts
  BY <1>2, <1>3, <1>11, Zenon
<1>18. checks[10] \in Verdicts /\ checks[11] \in Verdicts /\ checks[12] \in Verdicts
  BY <1>2, <1>12, Zenon
<1>19. checks[13] \in Verdicts /\ checks[14] \in Verdicts /\ checks[15] \in Verdicts
  BY <1>4, <1>13
<1>20. checks[16] \in Verdicts /\ checks[17] \in Verdicts /\ checks[18] \in Verdicts
  BY <1>2, <1>3, <1>14, Zenon
<1> HIDE DEF size, trailing, first, nine
<1>21. checks \in Seq(Verdicts) /\ Len(checks) = 18
  BY <1>8, <1>15, <1>16, <1>17, <1>18, <1>19, <1>20, Eighteen
<1> QED BY <1>9, <1>10, <1>11, <1>12, <1>13, <1>14, <1>21, Zenon DEF Listed, checks, size, trailing, nine

(* A message that is whole ends beyond where it starts, and within the data. *)
LEMMA MessageIs ==
    ASSUME NEW data \in Seq(Bytes), NEW offset \in Nat, NEW available \in Nat
    PROVE  LET m == Message(data, offset, available)
           IN /\ m \in Messages /\ m.offset = offset
              /\ m.whole => /\ m.length \in Nat /\ offset < offset + m.length
                            /\ offset + m.length <= available
              /\ m.status = "complete" => m.whole
<1> DEFINE e == Envelopes(data, offset, available)
           checks == Checks(data, offset, available, e)
           m == Message(data, offset, available)
           failure == Failure(checks)
           passed == Passed(checks)
<1>1. /\ e.outer.end \in Nat /\ offset + 2 <= e.outer.end /\ e.outer.failure \in Verdicts
      /\ e.id.start \in Nat /\ e.id.end \in Nat /\ e.id.start <= e.id.end
      /\ e.id.failure \in Verdicts
      /\ e.op.start \in Nat /\ e.op.end \in Nat /\ e.op.failure \in Verdicts
      /\ e.controls.start \in Nat /\ e.controls.failure \in Verdicts
  <2>1. LET x == Envelopes(data, offset, available)
        IN /\ x.outer.end \in Nat /\ offset + 2 <= x.outer.end /\ x.outer.failure \in Verdicts
           /\ x.id.start \in Nat /\ x.id.end \in Nat /\ x.id.start <= x.id.end
           /\ x.id.failure \in Verdicts
           /\ x.op.start \in Nat /\ x.op.end \in Nat /\ x.op.failure \in Verdicts
           /\ x.controls.start \in Nat /\ x.controls.failure \in Verdicts
    BY EnvelopesFollow
  <2> QED BY <2>1
<1>2. m = Decoded(data, offset, available, e, failure, passed) BY DEF Message
<1> HIDE DEF e, m
<1>3. checks \in Seq(Verdicts) /\ Len(checks) = 18
  <2>1. Listed(checks, data, offset, available, e) BY <1>1, ChecksAre
  <2> QED BY <2>1 DEF Listed
<1>4. passed \in 0..18 /\ failure \in Verdicts BY <1>3, FailureIs
<1>5. /\ Number(data, e.id.start, e.id.end - e.id.start) \in Nat
      /\ Byte(data, e.id.end) \in Nat
  <2>1. e.id.start \in Int /\ e.id.end \in Int /\ e.id.end - e.id.start \in Nat BY <1>1
  <2> HIDE DEF passed, failure, checks
  <2> QED BY <2>1, NumberIs, ByteIs
<1> DEFINE length == If(passed >= 3, e.outer.end - offset)
           whole == passed >= 3 /\ e.outer.end <= available
           id == If(passed >= 9, Number(data, e.id.start, e.id.end - e.id.start))
           operation == If(passed >= 10 /\ Byte(data, e.id.end) \in Operations, Byte(data, e.id.end))
           last == passed >= 11 /\ e.op.end >= e.outer.end
           status == IF failure = None THEN "complete" ELSE failure
<1>6. m = [offset |-> offset, status |-> status, length |-> length, whole |-> whole,
           id |-> id, operation |-> operation, last |-> last]
  <2> HIDE DEF passed, failure, checks
  <2> QED BY <1>2 DEF Decoded
<1>7. status \in {"complete"} \cup Failures
  <2> HIDE DEF failure
  <2> QED BY <1>4 DEF Verdicts
<1>8. length \in Nat \cup {None} /\ (whole => length = e.outer.end - offset)
  <2>1. e.outer.end - offset \in Nat BY <1>1
  <2> HIDE DEF passed
  <2> QED BY <2>1 DEF If
<1>9. id \in Nat \cup {None}
  <2> HIDE DEF passed
  <2> QED BY <1>5 DEF If
<1>10. operation \in Operations \cup {None}
  <2> HIDE DEF passed
  <2> QED BY DEF If
<1>11. whole \in BOOLEAN /\ last \in BOOLEAN OBVIOUS
<1>12. whole => e.outer.end <= available
  <2> HIDE DEF passed
  <2> QED OBVIOUS
<1>16. status = "complete" => whole
  <2> SUFFICES ASSUME status = "complete" PROVE whole OBVIOUS
  <2>1. failure = None
    <3>1. "complete" \notin Failures BY DEF Failures
    <3> HIDE DEF failure
    <3> QED BY <1>4, <3>1 DEF Verdicts
  <2>2. passed = 18 /\ \A i \in 1 .. 18 : checks[i] = None
    <3> HIDE DEF checks
    <3> QED BY <1>3, <2>1, FailureIs
  <2>3. /\ checks[12] = Need(e.op.start, e.op.end - e.op.start, available, e.outer.end)
        /\ checks[16] = If(e.op.end < e.outer.end,
                           Need(e.controls.start, e.controls.end - e.controls.start,
                                available, e.outer.end))
        /\ checks[17] = If(e.op.end < e.outer.end /\ e.controls.end # e.outer.end, "unsupported")
    BY DEF Checks
  <2>4. checks[12] = None /\ checks[16] = None /\ checks[17] = None BY <2>2
  <2> HIDE DEF checks, passed
  <2>5. {"malformed", "incomplete", "unsupported"} \subseteq Failures /\ None \notin Failures
    BY NoneAssumption DEF Failures
  <2>6. ASSUME NEW q, NEW c, Need(q, c, available, e.outer.end) = None PROVE ~ (q + c > available)
    BY <2>5, <2>6 DEF Need, If
  <2>7. CASE e.op.end < e.outer.end
    <3>1. Need(e.controls.start, e.controls.end - e.controls.start, available, e.outer.end) = None
      BY <2>3, <2>4, <2>7 DEF If
    <3>2. e.controls.end = e.outer.end BY <2>3, <2>4, <2>5, <2>7 DEF If
    <3>3. ~ (e.controls.start + (e.controls.end - e.controls.start) > available) BY <2>6, <3>1
    <3> QED BY <1>1, <2>2, <3>2, <3>3, SMTT(30)
  <2>8. CASE ~ (e.op.end < e.outer.end)
    <3>1. ~ (e.op.start + (e.op.end - e.op.start) > available) BY <2>3, <2>4, <2>6
    <3>2. e.op.end <= available BY <1>1, <3>1
    <3>3. e.outer.end <= e.op.end BY <1>1, <2>8
    <3>4. e.outer.end <= available
      <4>1. e.outer.end \in Nat /\ e.op.end \in Nat BY <1>1
      <4> HIDE DEF status, length, whole, id, operation, last
      <4> QED BY <3>2, <3>3, <4>1
    <3> QED BY <2>2, <3>4
  <2> QED BY <2>7, <2>8
<1> HIDE DEF status, length, whole, id, operation, last
<1>13. m \in Messages
  <2>1. DOMAIN m = {"offset", "status", "length", "whole", "id", "operation", "last"} BY <1>6
  <2> QED BY <1>6, <1>7, <1>8, <1>9, <1>10, <1>11, Zenon DEF Messages
<1>14. m.offset = offset /\ m.whole = whole /\ m.length = length /\ m.status = status BY <1>6
<1>15. whole => /\ length \in Nat /\ offset < offset + length /\ offset + length <= available
  <2> SUFFICES ASSUME whole PROVE /\ length \in Nat /\ offset < offset + length /\ offset + length <= available
    OBVIOUS
  <2> QED BY <1>1, <1>8, <1>12
<1> QED BY <1>13, <1>14, <1>15, <1>16 DEF m

-----------------------------------------------------------------------------
(* Bytes that are followed by more.                                          *)

(* Bytes that are received are followed by more, and never change.           *)
Begins(data, more) ==
    /\ data \in Seq(Bytes) /\ more \in Seq(Bytes) /\ Len(data) <= Len(more)
    /\ \A i \in 1 .. Len(data) : more[i] = data[i]

(* More bytes behind leave those before where they are.                     *)
LEMMA SameByte ==
    ASSUME NEW data, NEW more, Begins(data, more), NEW p \in Nat, p < Len(data)
    PROVE  Byte(more, p) = Byte(data, p)
<1>1. /\ Len(data) \in Nat /\ Len(more) \in Nat /\ Len(data) <= Len(more)
      /\ DOMAIN data = 1 .. Len(data) /\ DOMAIN more = 1 .. Len(more)
  BY LenProperties DEF Begins
<1>2. p + 1 \in 1 .. Len(data) /\ p + 1 \in 1 .. Len(more) BY <1>1
<1> QED BY <1>1, <1>2 DEF Byte, Begins

(* The same of the numbers that bytes spell.                                *)
LEMMA SameNumber ==
    ASSUME NEW data, NEW more, Begins(data, more), NEW p \in Nat, NEW count \in Nat, p + count <= Len(data)
    PROVE  Number(more, p, count) = Number(data, p, count)
<1>1. data \in Seq(Bytes) /\ more \in Seq(Bytes) /\ p \in Int /\ Len(data) \in Nat
  BY LenProperties DEF Begins
<1>2. PICK v : NumberAt(data, p, v, count) /\ Number(data, p, count) = v[count] BY <1>1, NumberSteps
<1>3. PICK w : NumberAt(more, p, w, count) /\ Number(more, p, count) = w[count] BY <1>1, NumberSteps
<1> DEFINE H == {i \in 0 .. count : v[i] = w[i]}
<1>4. 0 \in H BY <1>2, <1>3 DEF NumberAt
<1>5. ASSUME NEW i \in 1 .. count, i - 1 \in H PROVE i \in H
  <2>1. p + i - 1 \in Nat /\ p + i - 1 < Len(data) /\ i \in 0 .. count BY <1>1
  <2>2. Byte(more, p + i - 1) = Byte(data, p + i - 1) BY <2>1, SameByte
  <2>3. v[i - 1] = w[i - 1] BY <1>5
  <2> QED BY <1>2, <1>3, <2>1, <2>2, <2>3 DEF NumberAt
<1>6. \A i \in 0 .. count : i \in H
  <2> HIDE DEF H
  <2> QED BY <1>4, <1>5, Upwards
<1> QED BY <1>2, <1>3, <1>6

(* A check that is reached, and does not ask for bytes that are missing, is  *)
(* decided for good.                                                         *)
Settles(c, x) ==
    /\ c \in Seq(Verdicts) /\ x \in Seq(Verdicts) /\ Len(x) = Len(c)
    /\ \A i \in 1 .. Len(c) : (\A j \in 1 .. (i - 1) : c[j] = None) /\ c[i] # "incomplete" => x[i] = c[i]

(* A sequence of checks that a longer input settles passes no fewer of      *)
(* them, and a failure that more bytes cannot change stays.                 *)
LEMMA SettledChecks ==
    ASSUME NEW c, NEW x, Settles(c, x)
    PROVE  /\ Passed(c) \in 0 .. Len(c) /\ Passed(x) \in 0 .. Len(c) /\ Passed(c) <= Passed(x)
           /\ \A i \in 1 .. Passed(c) : c[i] = None
           /\ \A i \in 1 .. Passed(x) : x[i] = None
           /\ Failure(c) # "incomplete" => Passed(x) = Passed(c) /\ Failure(x) = Failure(c)
           /\ Failure(c) # None => Passed(c) < Len(c) /\ c[Passed(c) + 1] = Failure(c)
<1> DEFINE P == Passed(c)
           Q == Passed(x)
           n == Len(c)
<1>1. n \in Nat /\ Len(x) = n BY LenProperties DEF Settles
<1>2. /\ P \in 0 .. n /\ \A i \in 1 .. P : c[i] = None
      /\ P < n => c[P + 1] # None
  BY PassedIs DEF Settles
<1>3. /\ Q \in 0 .. n /\ \A i \in 1 .. Q : x[i] = None
      /\ Q < n => x[Q + 1] # None
  BY PassedIs DEF Settles
<1>4. None # "incomplete" BY NoneAssumption DEF Failures
<1>5. Failure(c) = IF P = n THEN None ELSE c[P + 1] BY DEF Failure
<1>6. Failure(x) = IF Q = n THEN None ELSE x[Q + 1] BY <1>1 DEF Failure
<1>7. \A i \in 1 .. n : (\A j \in 1 .. (i - 1) : c[j] = None) /\ c[i] # "incomplete" => x[i] = c[i]
  BY DEF Settles
<1> HIDE DEF P, Q, n
<1>8. ASSUME NEW i \in 1 .. P PROVE x[i] = None
  <2>1. i \in 1 .. n /\ c[i] = None /\ \A j \in 1 .. (i - 1) : j \in 1 .. P BY <1>1, <1>2
  <2>2. \A j \in 1 .. (i - 1) : c[j] = None BY <1>2, <2>1
  <2> QED BY <1>4, <1>7, <2>1, <2>2
<1>9. P <= Q
  <2> SUFFICES ASSUME ~ (P <= Q) PROVE FALSE OBVIOUS
  <2>1. Q < n /\ Q + 1 \in 1 .. P BY <1>1, <1>2, <1>3
  <2> QED BY <1>3, <1>8, <2>1
<1>10. ASSUME Failure(c) # "incomplete" PROVE Q = P /\ Failure(x) = Failure(c)
  <2>1. CASE P = n
    <3>1. Q = n BY <1>1, <1>2, <1>3, <1>9, <2>1
    <3> QED BY <1>5, <1>6, <2>1, <3>1
  <2>2. CASE P # n
    <3>1. P < n /\ P + 1 \in 1 .. n /\ P + 1 - 1 = P BY <1>1, <1>2, <2>2
    <3>2. c[P + 1] # None /\ c[P + 1] # "incomplete" BY <1>2, <1>5, <1>10, <2>2, <3>1
    <3>3. x[P + 1] = c[P + 1] BY <1>2, <1>7, <3>1, <3>2
    <3>4. Q = P
      <4> SUFFICES ASSUME Q # P PROVE FALSE OBVIOUS
      <4>1. P + 1 \in 1 .. Q BY <1>1, <1>2, <1>3, <1>9
      <4> QED BY <1>3, <3>2, <3>3, <4>1
    <3> QED BY <1>5, <1>6, <2>2, <3>3, <3>4
  <2> QED BY <2>1, <2>2
<1>11. ASSUME Failure(c) # None PROVE P < n /\ c[P + 1] = Failure(c)
  BY <1>1, <1>2, <1>5, <1>11
<1> QED BY <1>1, <1>2, <1>3, <1>8, <1>9, <1>10, <1>11 DEF P, Q, n

(* What asking for bytes says of them, and how little more bytes change it.  *)
LEMMA NeedSays ==
    ASSUME NEW p \in Nat, NEW count \in Int, NEW available \in Nat, NEW later \in Nat, available <= later,
           NEW boundary \in Nat \cup {None}
    PROVE  LET v == Need(p, count, available, boundary)
           IN /\ v = None => p + count <= available
              /\ v = "incomplete" => /\ p + count > available
                                     /\ boundary # None => p + count <= boundary
              /\ v # "incomplete" => Need(p, count, later, boundary) = v
<1>1. None # "incomplete" /\ None # "malformed" BY NoneAssumption DEF Failures
<1>2. CASE boundary # None /\ p + count > boundary BY <1>1, <1>2 DEF Need, If
<1>3. CASE ~ (boundary # None /\ p + count > boundary)
  <2>1. \A a \in Nat : Need(p, count, a, boundary) = IF p + count > a THEN "incomplete" ELSE None
    BY <1>3 DEF Need, If
  <2>2. boundary # None => p + count <= boundary BY <1>3
  <2> QED BY <1>1, <2>1, <2>2
<1> QED BY <1>2, <1>3

(* The parts of an envelope, named, and its checks.                          *)
CountAt(data, p) == IF Byte(data, p + 1) \in 129 .. 132 THEN Byte(data, p + 1) - 128 ELSE 0
StartAt(data, p) == p + 2 + CountAt(data, p)
EndAt(data, p) ==
    StartAt(data, p) + (IF Byte(data, p + 1) < 128 THEN Byte(data, p + 1)
                        ELSE Number(data, p + 2, CountAt(data, p)))
EnvelopeChecks(data, p, available, boundary) ==
    <<Need(p, 1, available, boundary),
      If(Byte(data, p) % 32 = 31, "unsupported"),
      Need(p + 1, 1, available, boundary),
      If(Byte(data, p + 1) = 255, "malformed"),
      If(Byte(data, p + 1) = 128, "unsupported"),
      If(Byte(data, p + 1) > 132, "unsupported"),
      Need(p + 2, CountAt(data, p), available, boundary),
      If(boundary # None /\ EndAt(data, p) > boundary, "malformed")>>

(* An envelope in terms of its parts and checks.                            *)
LEMMA EnvelopeSays ==
    ASSUME NEW data, NEW p, NEW available, NEW boundary
    PROVE  Envelope(data, p, available, boundary) =
             [tag |-> Byte(data, p), start |-> StartAt(data, p), end |-> EndAt(data, p),
              failure |-> Failure(EnvelopeChecks(data, p, available, boundary))]
BY DEF Envelope, CountAt, StartAt, EndAt, EnvelopeChecks

(* The eight checks of an envelope, in their order.                         *)
EnvelopeListed(c, data, p, available, boundary) ==
    /\ c \in Seq(Verdicts) /\ Len(c) = 8
    /\ c[1] = Need(p, 1, available, boundary)
    /\ c[2] = If(Byte(data, p) % 32 = 31, "unsupported")
    /\ c[3] = Need(p + 1, 1, available, boundary)
    /\ c[4] = If(Byte(data, p + 1) = 255, "malformed")
    /\ c[5] = If(Byte(data, p + 1) = 128, "unsupported")
    /\ c[6] = If(Byte(data, p + 1) > 132, "unsupported")
    /\ c[7] = Need(p + 2, CountAt(data, p), available, boundary)
    /\ c[8] = If(boundary # None /\ EndAt(data, p) > boundary, "malformed")

(* An envelope has these checks.                                            *)
LEMMA EnvelopeChecksAre ==
    ASSUME NEW data, NEW p, NEW available, NEW boundary
    PROVE  EnvelopeListed(EnvelopeChecks(data, p, available, boundary), data, p, available, boundary)
<1> DEFINE c == EnvelopeChecks(data, p, available, boundary)
<1>1. {"malformed", "incomplete", "unsupported"} \subseteq Failures BY DEF Failures
<1>2. /\ Need(p, 1, available, boundary) \in Verdicts
      /\ If(Byte(data, p) % 32 = 31, "unsupported") \in Verdicts
      /\ Need(p + 1, 1, available, boundary) \in Verdicts
      /\ If(Byte(data, p + 1) = 255, "malformed") \in Verdicts
      /\ If(Byte(data, p + 1) = 128, "unsupported") \in Verdicts
      /\ If(Byte(data, p + 1) > 132, "unsupported") \in Verdicts
      /\ Need(p + 2, CountAt(data, p), available, boundary) \in Verdicts
      /\ If(boundary # None /\ EndAt(data, p) > boundary, "malformed") \in Verdicts
  BY <1>1, VerdictsAre
<1>3. c \in Seq(Verdicts) /\ Len(c) = 8 BY <1>2 DEF EnvelopeChecks
<1> QED BY <1>3 DEF EnvelopeChecks, EnvelopeListed

(* More bytes leave an envelope that was decided as it was.                  *)
SameParts(e, f) == f.tag = e.tag /\ f.start = e.start /\ f.end = e.end

(* More bytes change an envelope only if bytes were missing.                *)
LEMMA EnvelopeStays ==
    ASSUME NEW data, NEW more, Begins(data, more), NEW p \in Nat, NEW boundary \in Nat \cup {None}
    PROVE  LET e == Envelope(data, p, Len(data), boundary)
               f == Envelope(more, p, Len(more), boundary)
           IN /\ e.failure # "incomplete" => f.failure = e.failure
              /\ e.failure = None => SameParts(e, f) /\ (boundary # None => e.end <= boundary)
              /\ boundary # None /\ boundary <= Len(data) => e.failure # "incomplete"
<1> DEFINE e == Envelope(data, p, Len(data), boundary)
           f == Envelope(more, p, Len(more), boundary)
           c == EnvelopeChecks(data, p, Len(data), boundary)
           x == EnvelopeChecks(more, p, Len(more), boundary)
<1>1. data \in Seq(Bytes) /\ more \in Seq(Bytes) /\ Len(data) \in Nat /\ Len(more) \in Nat /\ Len(data) <= Len(more)
  BY LenProperties DEF Begins
<1>2. e = [tag |-> Byte(data, p), start |-> StartAt(data, p), end |-> EndAt(data, p), failure |-> Failure(c)]
      /\ f = [tag |-> Byte(more, p), start |-> StartAt(more, p), end |-> EndAt(more, p), failure |-> Failure(x)]
  BY EnvelopeSays
<1>3. /\ c \in Seq(Verdicts) /\ Len(c) = 8
      /\ c[1] = Need(p, 1, Len(data), boundary)
      /\ c[2] = If(Byte(data, p) % 32 = 31, "unsupported")
      /\ c[3] = Need(p + 1, 1, Len(data), boundary)
      /\ c[4] = If(Byte(data, p + 1) = 255, "malformed")
      /\ c[5] = If(Byte(data, p + 1) = 128, "unsupported")
      /\ c[6] = If(Byte(data, p + 1) > 132, "unsupported")
      /\ c[7] = Need(p + 2, CountAt(data, p), Len(data), boundary)
      /\ c[8] = If(boundary # None /\ EndAt(data, p) > boundary, "malformed")
  <2>1. EnvelopeListed(c, data, p, Len(data), boundary) BY EnvelopeChecksAre
  <2> QED BY <2>1 DEF EnvelopeListed
<1>4. /\ x \in Seq(Verdicts) /\ Len(x) = 8
      /\ x[1] = Need(p, 1, Len(more), boundary)
      /\ x[2] = If(Byte(more, p) % 32 = 31, "unsupported")
      /\ x[3] = Need(p + 1, 1, Len(more), boundary)
      /\ x[4] = If(Byte(more, p + 1) = 255, "malformed")
      /\ x[5] = If(Byte(more, p + 1) = 128, "unsupported")
      /\ x[6] = If(Byte(more, p + 1) > 132, "unsupported")
      /\ x[7] = Need(p + 2, CountAt(more, p), Len(more), boundary)
      /\ x[8] = If(boundary # None /\ EndAt(more, p) > boundary, "malformed")
  <2>1. EnvelopeListed(x, more, p, Len(more), boundary) BY EnvelopeChecksAre
  <2> QED BY <2>1 DEF EnvelopeListed
<1> HIDE DEF e, f, c, x
<1>5. None # "incomplete" /\ None # "malformed" /\ None # "unsupported" BY NoneAssumption DEF Failures
<1>6. p + 1 \in Nat /\ p + 2 \in Nat /\ Byte(data, p + 1) \in Nat /\ CountAt(data, p) \in Nat
  <2>1. p + 1 \in Int /\ p + 1 \in Nat /\ p + 2 \in Nat OBVIOUS
  <2>2. Byte(data, p + 1) \in Nat BY <1>1, <2>1, ByteIs
  <2> QED BY <2>1, <2>2 DEF CountAt
<1> DEFINE Stays(q, n) ==
             /\ Need(q, n, Len(data), boundary) # "incomplete" =>
                  Need(q, n, Len(more), boundary) = Need(q, n, Len(data), boundary)
             /\ Need(q, n, Len(data), boundary) = None => q + n <= Len(data)
<1>10. ASSUME NEW q \in Nat, NEW n \in Int PROVE Stays(q, n)
  <2> DEFINE a == Len(data)
             b == Len(more)
  <2>1. a \in Nat /\ b \in Nat /\ a <= b BY <1>1
  <2> HIDE DEF a, b
  <2>2. /\ Need(q, n, a, boundary) # "incomplete" => Need(q, n, b, boundary) = Need(q, n, a, boundary)
        /\ Need(q, n, a, boundary) = None => q + n <= a
    <3>1. q + n \in Int OBVIOUS
    <3>2. CASE boundary # None /\ q + n > boundary BY <1>5, <3>2 DEF Need, If
    <3>3. CASE ~ (boundary # None /\ q + n > boundary)
      <4>1. /\ Need(q, n, a, boundary) = IF q + n > a THEN "incomplete" ELSE None
            /\ Need(q, n, b, boundary) = IF q + n > b THEN "incomplete" ELSE None
        BY <3>3 DEF Need, If
      <4> QED BY <1>5, <2>1, <3>1, <4>1
    <3> QED BY <3>2, <3>3
  <2> QED BY <2>2 DEF a, b
<1>16. Stays(p, 1) /\ Stays(p + 1, 1) /\ Stays(p + 2, CountAt(data, p))
  <2> HIDE DEF Stays
  <2>1. p + 1 \in Nat /\ p + 2 \in Nat /\ 1 \in Int /\ CountAt(data, p) \in Int BY <1>6
  <2> QED BY <1>10, <2>1
<1>7. ASSUME c[1] = None PROVE Byte(more, p) = Byte(data, p)
  <2>1. Need(p, 1, Len(data), boundary) = None BY <1>3, <1>7
  <2>2. p + 1 <= Len(data) BY <1>16, <2>1
  <2>3. p < Len(data) BY <1>1, <2>2
  <2> QED BY <2>3, SameByte
<1>8. ASSUME c[3] = None PROVE Byte(more, p + 1) = Byte(data, p + 1) /\ CountAt(more, p) = CountAt(data, p)
  <2>1. p + 1 < Len(data)
    <3>1. Need(p + 1, 1, Len(data), boundary) = None BY <1>3, <1>8
    <3>2. p + 1 + 1 <= Len(data) BY <1>16, <3>1
    <3> QED BY <1>1, <3>2
  <2>2. Byte(more, p + 1) = Byte(data, p + 1) BY <1>6, <2>1, SameByte
  <2> QED BY <2>2 DEF CountAt
<1>9. ASSUME c[3] = None, c[7] = None PROVE StartAt(more, p) = StartAt(data, p) /\ EndAt(more, p) = EndAt(data, p)
  <2>1. p + 2 + CountAt(data, p) <= Len(data)
    <3>1. Need(p + 2, CountAt(data, p), Len(data), boundary) = None BY <1>3, <1>9
    <3> QED BY <1>16, <3>1
  <2>2. Byte(more, p + 1) = Byte(data, p + 1) /\ CountAt(more, p) = CountAt(data, p) BY <1>8, <1>9
  <2>3. Number(more, p + 2, CountAt(data, p)) = Number(data, p + 2, CountAt(data, p)) BY <1>6, <2>1, SameNumber
  <2> QED BY <2>2, <2>3 DEF StartAt, EndAt
<1>11. Settles(c, x)
  <2> SUFFICES ASSUME NEW i \in 1 .. 8, \A j \in 1 .. (i - 1) : c[j] = None, c[i] # "incomplete"
               PROVE  x[i] = c[i]
    BY <1>3, <1>4 DEF Settles
  <2>1. i = 1 \/ i = 2 \/ i = 3 \/ i = 4 \/ i = 5 \/ i = 6 \/ i = 7 \/ i = 8 OBVIOUS
  <2>2. /\ i > 1 => c[1] = None
        /\ i > 3 => c[3] = None
        /\ i > 7 => c[7] = None
    OBVIOUS
  <2>3. CASE i = 1 BY <1>3, <1>4, <1>16, <2>3
  <2>4. CASE i = 2 BY <1>3, <1>4, <1>7, <2>2, <2>4
  <2>5. CASE i = 3 BY <1>3, <1>4, <1>16, <2>5
  <2>6. CASE i = 4 BY <1>3, <1>4, <1>8, <2>2, <2>6
  <2>7. CASE i = 5 BY <1>3, <1>4, <1>8, <2>2, <2>7
  <2>8. CASE i = 6 BY <1>3, <1>4, <1>8, <2>2, <2>8
  <2>9. CASE i = 7
    <3>1. CountAt(more, p) = CountAt(data, p) BY <1>8, <2>2, <2>9
    <3>2. c[7] # "incomplete" /\ c[7] = Need(p + 2, CountAt(data, p), Len(data), boundary) BY <1>3, <2>9
    <3>3. Need(p + 2, CountAt(data, p), Len(more), boundary) = c[7] BY <1>16, <3>2
    <3> QED BY <1>4, <2>9, <3>1, <3>3
  <2>10. CASE i = 8 BY <1>3, <1>4, <1>9, <2>2, <2>10
  <2> QED BY <2>1, <2>3, <2>4, <2>5, <2>6, <2>7, <2>8, <2>9, <2>10
<1>12. /\ Passed(c) \in 0 .. 8 /\ \A i \in 1 .. Passed(c) : c[i] = None
       /\ Failure(c) # "incomplete" => Failure(x) = Failure(c)
       /\ Failure(c) # None => Passed(c) < 8 /\ c[Passed(c) + 1] = Failure(c)
  <2>1. Len(c) = 8 BY <1>3
  <2>2. /\ Passed(c) \in 0 .. Len(c) /\ \A i \in 1 .. Passed(c) : c[i] = None
        /\ Failure(c) # "incomplete" => Failure(x) = Failure(c)
        /\ Failure(c) # None => Passed(c) < Len(c) /\ c[Passed(c) + 1] = Failure(c)
    BY <1>11, SettledChecks
  <2> QED BY <2>1, <2>2
<1>13. e.failure # "incomplete" => f.failure = e.failure BY <1>2, <1>12
<1>14. ASSUME e.failure = None PROVE SameParts(e, f) /\ (boundary # None => e.end <= boundary)
  <2>1. \A i \in 1 .. 8 : c[i] = None
    <3>1. Failure(c) = None BY <1>2, <1>14
    <3>2. c \in Seq(Verdicts) /\ Len(c) = 8 BY <1>3
    <3>3. Passed(c) = 8 BY <1>12, <3>1, <3>2, FailureIs
    <3> QED BY <1>12, <3>3
  <2>2. c[1] = None /\ c[3] = None /\ c[7] = None /\ c[8] = None BY <2>1
  <2>3. SameParts(e, f) BY <1>2, <1>7, <1>9, <2>2 DEF SameParts
  <2>4. ASSUME boundary # None PROVE e.end <= boundary
    <3>1. ~ (EndAt(data, p) > boundary) BY <1>3, <1>5, <2>2, <2>4 DEF If
    <3>2. e.end = EndAt(data, p) BY <1>2
    <3>3. e.end \in Nat BY <1>1, EnvelopeIs DEF e
    <3> QED BY <2>4, <3>1, <3>2, <3>3
  <2> QED BY <2>3, <2>4
<1>15. ASSUME boundary # None, boundary <= Len(data), e.failure = "incomplete" PROVE FALSE
  <2>1. Failure(c) = "incomplete" /\ Failure(c) # None BY <1>2, <1>5, <1>15
  <2>2. PICK i \in 1 .. 8 : c[i] = "incomplete" BY <1>12, <2>1
  <2>3. ASSUME NEW q \in Nat, NEW n \in Int, Need(q, n, Len(data), boundary) = "incomplete" PROVE FALSE
    <3> DEFINE a == Len(data)
    <3>1. a \in Nat BY <1>1
    <3>2. Need(q, n, a, boundary) = "incomplete" BY <2>3
    <3> HIDE DEF a
    <3>3. q + n > a /\ q + n <= boundary BY <1>15, <3>1, <3>2, NeedSays
    <3> QED BY <1>15, <3>1, <3>3 DEF a
  <2>4. \A t : If(t, "malformed") # "incomplete" /\ If(t, "unsupported") # "incomplete" BY <1>5 DEF If
  <2>5. i = 1 \/ i = 2 \/ i = 3 \/ i = 4 \/ i = 5 \/ i = 6 \/ i = 7 \/ i = 8 OBVIOUS
  <2>6. i = 1 \/ i = 3 \/ i = 7 BY <1>3, <2>2, <2>4, <2>5
  <2>7. /\ p + 1 \in Nat /\ p + 2 \in Nat /\ 1 \in Int /\ CountAt(data, p) \in Int BY <1>6
  <2>8. CASE i = 1
    <3>1. Need(p, 1, Len(data), boundary) = "incomplete" BY <1>3, <2>2, <2>8
    <3> QED BY <2>3, <2>7, <3>1
  <2>9. CASE i = 3
    <3>1. Need(p + 1, 1, Len(data), boundary) = "incomplete" BY <1>3, <2>2, <2>9
    <3> QED BY <2>3, <2>7, <3>1
  <2>10. CASE i = 7
    <3>1. Need(p + 2, CountAt(data, p), Len(data), boundary) = "incomplete" BY <1>3, <2>2, <2>10
    <3> QED BY <2>3, <2>7, <3>1
  <2> QED BY <2>6, <2>8, <2>9, <2>10
<1> QED BY <1>13, <1>14, <1>15 DEF e, f

(* What more bytes can change of the envelopes of a message: only parts whose *)
(* own bytes are not all there.                                              *)
EnvelopesStay(e, f, a) ==
    /\ e.outer.failure # "incomplete" => f.outer.failure = e.outer.failure
    /\ e.outer.failure = None =>
         /\ SameParts(e.outer, f.outer)
         /\ e.id.failure # "incomplete" => f.id.failure = e.id.failure
         /\ e.outer.end <= a => e.id.failure # "incomplete" /\ e.op.failure # "incomplete"
                                /\ e.controls.failure # "incomplete"
    /\ e.outer.failure = None /\ e.id.failure = None =>
         /\ SameParts(e.id, f.id)
         /\ e.op.failure # "incomplete" => f.op.failure = e.op.failure
    /\ e.outer.failure = None /\ e.id.failure = None /\ e.op.failure = None =>
         /\ SameParts(e.op, f.op) /\ e.op.end <= e.outer.end
         /\ e.controls.failure # "incomplete" => f.controls.failure = e.controls.failure
         /\ e.controls.failure = None => SameParts(e.controls, f.controls)

(* The same of the envelopes of a whole message.                            *)
LEMMA EnvelopesAreStable ==
    ASSUME NEW data, NEW more, Begins(data, more), NEW offset \in Nat
    PROVE  EnvelopesStay(Envelopes(data, offset, Len(data)), Envelopes(more, offset, Len(more)), Len(data))
<1> DEFINE a == Len(data)
           b == Len(more)
           e == Envelopes(data, offset, a)
           f == Envelopes(more, offset, b)
<1>1. data \in Seq(Bytes) /\ more \in Seq(Bytes) BY DEF Begins
<1>2. /\ e.outer = Envelope(data, offset, a, None)
      /\ e.id = Envelope(data, e.outer.start, a, e.outer.end)
      /\ e.op = Envelope(data, e.id.end, a, e.outer.end)
      /\ e.controls = Envelope(data, e.op.end, a, e.outer.end)
      /\ e.outer.start \in Nat /\ e.outer.end \in Nat /\ e.id.end \in Nat /\ e.op.end \in Nat
  BY <1>1, EnvelopesFollow
<1>3. /\ f.outer = Envelope(more, offset, b, None)
      /\ f.id = Envelope(more, f.outer.start, b, f.outer.end)
      /\ f.op = Envelope(more, f.id.end, b, f.outer.end)
      /\ f.controls = Envelope(more, f.op.end, b, f.outer.end)
  BY <1>1, EnvelopesFollow
<1>4. ASSUME NEW p \in Nat, NEW boundary \in Nat \cup {None}
      PROVE  LET x == Envelope(data, p, a, boundary)
                 y == Envelope(more, p, b, boundary)
             IN /\ x.failure # "incomplete" => y.failure = x.failure
                /\ x.failure = None => SameParts(x, y) /\ (boundary # None => x.end <= boundary)
                /\ boundary # None /\ boundary <= a => x.failure # "incomplete"
  BY EnvelopeStays
<1> HIDE DEF e, f, a, b
<1>0. \A n \in Nat : n # None /\ n \in Nat \cup {None} BY NoneAssumption
<1>5. /\ e.outer.failure # "incomplete" => f.outer.failure = e.outer.failure
      /\ e.outer.failure = None => SameParts(e.outer, f.outer)
  BY <1>2, <1>3, <1>4
<1>6. ASSUME e.outer.failure = None
      PROVE  /\ e.id.failure # "incomplete" => f.id.failure = e.id.failure
             /\ e.outer.end <= a => e.id.failure # "incomplete" /\ e.op.failure # "incomplete"
                                    /\ e.controls.failure # "incomplete"
             /\ e.id.failure = None => SameParts(e.id, f.id)
  <2>1. f.id = Envelope(more, e.outer.start, b, e.outer.end) BY <1>3, <1>5, <1>6 DEF SameParts
  <2>2. ASSUME NEW p \in Nat
        PROVE  LET x == Envelope(data, p, a, e.outer.end)
                   y == Envelope(more, p, b, e.outer.end)
               IN /\ x.failure # "incomplete" => y.failure = x.failure
                  /\ x.failure = None => SameParts(x, y) /\ x.end <= e.outer.end
                  /\ e.outer.end <= a => x.failure # "incomplete"
    BY <1>0, <1>2, <1>4
  <2> QED BY <1>2, <2>1, <2>2
<1>7. ASSUME e.outer.failure = None, e.id.failure = None
      PROVE  /\ e.op.failure # "incomplete" => f.op.failure = e.op.failure
             /\ e.op.failure = None => SameParts(e.op, f.op) /\ e.op.end <= e.outer.end
  <2>1. f.op = Envelope(more, e.id.end, b, e.outer.end) BY <1>3, <1>5, <1>6, <1>7 DEF SameParts
  <2> QED BY <1>0, <1>2, <1>4, <2>1
<1>8. ASSUME e.outer.failure = None, e.id.failure = None, e.op.failure = None
      PROVE  /\ e.controls.failure # "incomplete" => f.controls.failure = e.controls.failure
             /\ e.controls.failure = None => SameParts(e.controls, f.controls)
  <2>1. f.controls = Envelope(more, e.op.end, b, e.outer.end) BY <1>3, <1>5, <1>6, <1>7, <1>8 DEF SameParts
  <2> QED BY <1>0, <1>2, <1>4, <2>1
<1>9. EnvelopesStay(e, f, a) BY <1>5, <1>6, <1>7, <1>8 DEF EnvelopesStay
<1> QED BY <1>9 DEF e, f, a, b

(* The checks of a message that are decided stay decided when more bytes     *)
(* come.                                                                     *)
LEMMA MessageChecksStay ==
    ASSUME NEW data, NEW more, Begins(data, more), NEW offset \in Nat
    PROVE  Settles(Checks(data, offset, Len(data), Envelopes(data, offset, Len(data))),
                   Checks(more, offset, Len(more), Envelopes(more, offset, Len(more))))
<1> DEFINE a == Len(data)
           b == Len(more)
           e == Envelopes(data, offset, a)
           f == Envelopes(more, offset, b)
           c == Checks(data, offset, a, e)
           x == Checks(more, offset, b, f)
           size == e.id.end - e.id.start
           trailing == e.op.end < e.outer.end
           end == e.outer.end
<1>1. data \in Seq(Bytes) /\ more \in Seq(Bytes) /\ a \in Nat /\ b \in Nat /\ a <= b BY LenProperties DEF Begins
<1>2. EnvelopesStay(e, f, a) BY EnvelopesAreStable
<1>3. /\ end \in Nat /\ e.outer.failure \in Verdicts
      /\ e.id.start \in Nat /\ e.id.end \in Nat /\ e.id.start <= e.id.end /\ e.id.failure \in Verdicts
      /\ e.op.start \in Nat /\ e.op.end \in Nat /\ e.op.start <= e.op.end /\ e.op.failure \in Verdicts
      /\ e.controls.start \in Nat /\ e.controls.end \in Nat /\ e.controls.failure \in Verdicts
  BY <1>1, EnvelopesFollow
<1>4. /\ f.outer.failure \in Verdicts /\ f.id.failure \in Verdicts
      /\ f.op.failure \in Verdicts /\ f.controls.failure \in Verdicts
  BY <1>1, EnvelopesFollow
<1>5. \A p \in Nat : p < a => Byte(more, p) = Byte(data, p) BY SameByte
<1> HIDE DEF e, f
<1>61. Listed(c, data, offset, a, e) BY <1>3, ChecksAre
<1>6. /\ c \in Seq(Verdicts) /\ Len(c) = 18
      /\ c[1] = Need(offset, 1, a, None)
      /\ c[2] = If(Byte(data, offset) # 48, "malformed")
      /\ c[3] = e.outer.failure
      /\ c[4] = If(end - offset > MaxMessage, "unsupported")
      /\ c[5] = e.id.failure
      /\ c[6] = If(e.id.tag # 2, "malformed")
      /\ c[7] = If(size \notin 1..4, "malformed")
      /\ c[8] = Need(e.id.start, size, a, end)
      /\ c[9] = If(\/ Byte(data, e.id.start) >= 128
                   \/ /\ size > 1 /\ Byte(data, e.id.start) = 0
                      /\ Byte(data, e.id.start + 1) < 128, "malformed")
      /\ c[10] = Need(e.id.end, 1, a, end)
      /\ c[11] = e.op.failure
      /\ c[12] = Need(e.op.start, e.op.end - e.op.start, a, end)
      /\ c[13] = If(trailing, Need(e.op.end, 1, a, end))
      /\ c[14] = If(trailing /\ Byte(data, e.op.end) # 160, "unsupported")
      /\ c[15] = If(trailing, e.controls.failure)
      /\ c[16] = If(trailing, Need(e.controls.start, e.controls.end - e.controls.start, a, end))
      /\ c[17] = If(trailing /\ e.controls.end # end, "unsupported")
      /\ c[18] = If(Byte(data, e.id.end) \notin Operations, "unsupported")
  BY <1>61, Zenon DEF Listed
<1> DEFINE size2 == f.id.end - f.id.start
           trailing2 == f.op.end < f.outer.end
<1>71. Listed(x, more, offset, b, f) BY <1>4, ChecksAre
<1>7. /\ x \in Seq(Verdicts) /\ Len(x) = 18
      /\ x[1] = Need(offset, 1, b, None)
      /\ x[2] = If(Byte(more, offset) # 48, "malformed")
      /\ x[3] = f.outer.failure
      /\ x[4] = If(f.outer.end - offset > MaxMessage, "unsupported")
      /\ x[5] = f.id.failure
      /\ x[6] = If(f.id.tag # 2, "malformed")
      /\ x[7] = If(size2 \notin 1..4, "malformed")
      /\ x[8] = Need(f.id.start, size2, b, f.outer.end)
      /\ x[9] = If(\/ Byte(more, f.id.start) >= 128
                   \/ /\ size2 > 1 /\ Byte(more, f.id.start) = 0
                      /\ Byte(more, f.id.start + 1) < 128, "malformed")
      /\ x[10] = Need(f.id.end, 1, b, f.outer.end)
      /\ x[11] = f.op.failure
      /\ x[12] = Need(f.op.start, f.op.end - f.op.start, b, f.outer.end)
      /\ x[13] = If(trailing2, Need(f.op.end, 1, b, f.outer.end))
      /\ x[14] = If(trailing2 /\ Byte(more, f.op.end) # 160, "unsupported")
      /\ x[15] = If(trailing2, f.controls.failure)
      /\ x[16] = If(trailing2, Need(f.controls.start, f.controls.end - f.controls.start, b, f.outer.end))
      /\ x[17] = If(trailing2 /\ f.controls.end # f.outer.end, "unsupported")
      /\ x[18] = If(Byte(more, f.id.end) \notin Operations, "unsupported")
  BY <1>71, Zenon DEF Listed
<1> HIDE DEF c, x, a, b, end
<1>8. ASSUME NEW p \in Nat, NEW n \in Int, NEW boundary \in Nat \cup {None}
      PROVE  /\ Need(p, n, a, boundary) # "incomplete" => Need(p, n, b, boundary) = Need(p, n, a, boundary)
             /\ Need(p, n, a, boundary) = None => p + n <= a
  BY <1>1, NeedSays
<1>9. None # "incomplete" BY NoneAssumption DEF Failures
<1> SUFFICES ASSUME NEW i \in 1 .. 18, \A j \in 1 .. (i - 1) : c[j] = None, c[i] # "incomplete"
             PROVE  x[i] = c[i]
  BY <1>6, <1>7 DEF Settles, a, b, e, f, c, x
<1>10. /\ i > 1 => c[1] = None
       /\ i > 3 => c[3] = None
       /\ i > 5 => c[5] = None
       /\ i > 7 => c[7] = None
       /\ i > 8 => c[8] = None
       /\ i > 10 => c[10] = None
       /\ i > 11 => c[11] = None
       /\ i > 13 => c[13] = None
       /\ i > 15 => c[15] = None
  OBVIOUS
<1>11. i > 1 => Byte(more, offset) = Byte(data, offset)
  <2> SUFFICES ASSUME i > 1 PROVE Byte(more, offset) = Byte(data, offset) OBVIOUS
  <2>1. Need(offset, 1, a, None) = None /\ 1 \in Int /\ None \in Nat \cup {None} BY <1>6, <1>10
  <2>2. offset + 1 <= a BY <1>8, <2>1
  <2> QED BY <1>1, <1>5, <2>2
<1>12. i > 3 => e.outer.failure = None /\ f.outer.end = end BY <1>2, <1>6, <1>10 DEF EnvelopesStay, SameParts, end
<1>13. i > 5 => /\ e.outer.failure = None /\ e.id.failure = None
                /\ f.id.tag = e.id.tag /\ f.id.start = e.id.start /\ f.id.end = e.id.end /\ size2 = size
  BY <1>2, <1>6, <1>10 DEF EnvelopesStay, SameParts
<1>14. i > 11 => /\ e.outer.failure = None /\ e.id.failure = None /\ e.op.failure = None
                 /\ f.op.start = e.op.start /\ f.op.end = e.op.end /\ trailing2 = trailing
  <2> SUFFICES ASSUME i > 11
               PROVE  /\ e.outer.failure = None /\ e.id.failure = None /\ e.op.failure = None
                      /\ f.op.start = e.op.start /\ f.op.end = e.op.end /\ trailing2 = trailing
    OBVIOUS
  <2>1. e.outer.failure = None /\ e.id.failure = None /\ e.op.failure = None BY <1>6, <1>10
  <2>2. f.op.start = e.op.start /\ f.op.end = e.op.end /\ f.outer.end = e.outer.end
    BY <1>2, <2>1 DEF EnvelopesStay, SameParts
  <2> QED BY <2>1, <2>2
<1>15. ASSUME i > 15, trailing
       PROVE  f.controls.start = e.controls.start /\ f.controls.end = e.controls.end
  <2>1. e.controls.failure = None BY <1>6, <1>10, <1>15 DEF If
  <2> QED BY <1>2, <1>14, <1>15, <2>1 DEF EnvelopesStay, SameParts
<1>16. size \in Nat /\ size \in Int /\ e.op.end - e.op.start \in Int /\ e.controls.end - e.controls.start \in Int
       /\ 1 \in Int /\ end \in Nat \cup {None}
  BY <1>3
<1> HIDE DEF size, size2, trailing, trailing2
<1>17. CASE i = 1
  <2>1. c[1] = Need(offset, 1, a, None) /\ x[1] = Need(offset, 1, b, None) BY <1>6, <1>7, <1>17
  <2>2. None \in Nat \cup {None} /\ offset \in Nat BY <1>1
  <2> QED BY <1>8, <1>16, <1>17, <2>1, <2>2
<1>18. CASE i = 2 BY <1>6, <1>7, <1>11, <1>18
<1>19. CASE i = 3 BY <1>2, <1>6, <1>7, <1>19 DEF EnvelopesStay
<1>20. CASE i = 4 BY <1>6, <1>7, <1>12, <1>20
<1>21. CASE i = 5 BY <1>2, <1>6, <1>7, <1>12, <1>21 DEF EnvelopesStay
<1>22. CASE i = 6 BY <1>6, <1>7, <1>13, <1>22
<1>23. CASE i = 7 BY <1>6, <1>7, <1>13, <1>23
<1>24. CASE i = 8
  <2>1. c[8] = Need(e.id.start, size, a, end) /\ x[8] = Need(e.id.start, size, b, end)
    BY <1>6, <1>7, <1>12, <1>13, <1>24
  <2> QED BY <1>3, <1>8, <1>16, <1>24, <2>1
<1>25. CASE i = 9
  <2>1. size \in 1 .. 4 /\ e.id.start + size <= a
    <3>1. size \in 1 .. 4
      <4>1. c[7] = If(size \notin 1..4, "malformed") /\ c[7] = None BY <1>6, <1>10, <1>25
      <4>2. "malformed" # None BY NoneAssumption DEF Failures
      <4> QED BY <4>1, <4>2 DEF If
    <3>2. Need(e.id.start, size, a, end) = None BY <1>6, <1>10, <1>25
    <3> QED BY <1>3, <1>8, <1>16, <3>1, <3>2
  <2>2. Byte(more, e.id.start) = Byte(data, e.id.start) BY <1>1, <1>3, <1>5, <2>1
  <2>3. size > 1 => Byte(more, e.id.start + 1) = Byte(data, e.id.start + 1) BY <1>1, <1>3, <1>5, <2>1
  <2>4. f.id.start = e.id.start /\ size2 = size BY <1>13, <1>25
  <2> QED BY <1>6, <1>7, <1>25, <2>2, <2>3, <2>4 DEF If
<1>26. CASE i = 10
  <2>1. c[10] = Need(e.id.end, 1, a, end) /\ x[10] = Need(e.id.end, 1, b, end)
    BY <1>6, <1>7, <1>12, <1>13, <1>26
  <2> QED BY <1>3, <1>8, <1>16, <1>26, <2>1
<1>27. CASE i = 11 BY <1>2, <1>6, <1>7, <1>13, <1>27 DEF EnvelopesStay
<1>28. CASE i = 12
  <2>1. f.op.start = e.op.start /\ f.op.end = e.op.end /\ f.outer.end = end BY <1>12, <1>14, <1>28
  <2>2. /\ c[12] = Need(e.op.start, e.op.end - e.op.start, a, end)
        /\ x[12] = Need(e.op.start, e.op.end - e.op.start, b, end)
    BY <1>6, <1>7, <2>1
  <2> QED BY <1>3, <1>8, <1>16, <1>28, <2>2
<1>29. CASE i = 13
  <2>1. f.op.end = e.op.end /\ f.outer.end = end /\ (trailing2 <=> trailing) BY <1>12, <1>14, <1>29
  <2>2. CASE trailing
    <3>1. c[13] = Need(e.op.end, 1, a, end) /\ x[13] = Need(e.op.end, 1, b, end) BY <1>6, <1>7, <2>1, <2>2 DEF If
    <3> QED BY <1>3, <1>8, <1>16, <1>29, <3>1
  <2>3. CASE ~ trailing BY <1>6, <1>7, <1>29, <2>1, <2>3 DEF If
  <2> QED BY <2>2, <2>3
<1>30. CASE i = 14
  <2>1. f.op.end = e.op.end /\ (trailing2 <=> trailing) BY <1>14, <1>30
  <2>2. CASE trailing
    <3>1. Need(e.op.end, 1, a, end) = None BY <1>6, <1>10, <1>30, <2>2 DEF If
    <3>2. e.op.end + 1 <= a BY <1>3, <1>8, <1>16, <3>1
    <3>3. Byte(more, e.op.end) = Byte(data, e.op.end) BY <1>1, <1>3, <1>5, <3>2
    <3> QED BY <1>6, <1>7, <1>30, <2>1, <2>2, <3>3 DEF If
  <2>3. CASE ~ trailing BY <1>6, <1>7, <1>30, <2>1, <2>3 DEF If
  <2> QED BY <2>2, <2>3
<1>31. CASE i = 15
  <2>1. /\ trailing2 <=> trailing
        /\ e.controls.failure # "incomplete" => f.controls.failure = e.controls.failure
    BY <1>2, <1>14, <1>31 DEF EnvelopesStay
  <2> QED BY <1>6, <1>7, <1>31, <2>1 DEF If
<1>32. CASE i = 16
  <2>1. f.outer.end = end /\ (trailing2 <=> trailing) BY <1>12, <1>14, <1>32
  <2>2. CASE trailing
    <3>1. f.controls.start = e.controls.start /\ f.controls.end = e.controls.end BY <1>15, <1>32, <2>2
    <3>2. /\ c[16] = Need(e.controls.start, e.controls.end - e.controls.start, a, end)
          /\ x[16] = Need(e.controls.start, e.controls.end - e.controls.start, b, end)
      BY <1>6, <1>7, <2>1, <2>2, <3>1 DEF If
    <3> QED BY <1>3, <1>8, <1>16, <1>32, <3>2
  <2>3. CASE ~ trailing BY <1>6, <1>7, <1>32, <2>1, <2>3 DEF If
  <2> QED BY <2>2, <2>3
<1>33. CASE i = 17
  <2>1. f.outer.end = end /\ (trailing2 <=> trailing) BY <1>12, <1>14, <1>33
  <2>2. trailing => f.controls.end = e.controls.end BY <1>15, <1>33
  <2> QED BY <1>6, <1>7, <1>33, <2>1, <2>2 DEF If
<1>34. CASE i = 18
  <2>1. Need(e.id.end, 1, a, end) = None BY <1>6, <1>10, <1>34
  <2>2. e.id.end + 1 <= a BY <1>3, <1>8, <1>16, <2>1
  <2>3. Byte(more, e.id.end) = Byte(data, e.id.end) BY <1>1, <1>3, <1>5, <2>2
  <2> QED BY <1>6, <1>7, <1>13, <1>34, <2>3
<1>35. \/ i = 1 \/ i = 2 \/ i = 3 \/ i = 4 \/ i = 5 \/ i = 6 \/ i = 7 \/ i = 8 \/ i = 9
       \/ i = 10 \/ i = 11 \/ i = 12 \/ i = 13 \/ i = 14 \/ i = 15 \/ i = 16 \/ i = 17 \/ i = 18
  OBVIOUS
<1> QED BY <1>17, <1>18, <1>19, <1>20, <1>21, <1>22, <1>23, <1>24, <1>25, <1>26, <1>27, <1>28, <1>29, <1>30,
           <1>31, <1>32, <1>33, <1>34, <1>35

(* What a message is made of.                                                *)
Composed(m, data, offset, available, e, failure, passed) ==
    /\ m.offset = offset /\ m.status = (IF failure = None THEN "complete" ELSE failure)
    /\ m.length = If(passed >= 3, e.outer.end - offset)
    /\ m.whole = (passed >= 3 /\ e.outer.end <= available)
    /\ m.id = If(passed >= 9, Number(data, e.id.start, e.id.end - e.id.start))
    /\ m.operation = If(passed >= 10 /\ Byte(data, e.id.end) \in Operations, Byte(data, e.id.end))
    /\ m.last = (passed >= 11 /\ e.op.end >= e.outer.end)

(* What is known of a message, part by part.                                *)
LEMMA DecodedIs ==
    ASSUME NEW data, NEW offset, NEW available, NEW e, NEW failure, NEW passed
    PROVE  Composed(Decoded(data, offset, available, e, failure, passed), data, offset, available, e, failure,
                    passed)
BY Zenon DEF Composed, Decoded

(* Messages with the same fields.                                            *)
SameFields(m, n) ==
    /\ n.offset = m.offset /\ n.status = m.status /\ n.length = m.length /\ n.id = m.id
    /\ n.operation = m.operation /\ n.last = m.last

(* Messages whose fields agree are the same.                                *)
LEMMA SameMessage ==
    ASSUME NEW m \in Messages, NEW n \in Messages, SameFields(m, n), n.whole = m.whole
    PROVE  n = m
<1> DEFINE F == {"offset", "status", "length", "whole", "id", "operation", "last"}
<1>1. m = [field \in F |-> m[field]] /\ n = [field \in F |-> n[field]] BY DEF Messages
<1>2. \A field \in F : m[field] = n[field] BY DEF SameFields
<1> HIDE DEF F
<1> QED BY <1>1, <1>2

(* More bytes leave a message as it was that did not wait for bytes.  It may *)
(* become whole; one that was whole stays the same, and so does one of which *)
(* only the bytes of its last part are still missing.                        *)
MessageStays(m, n) ==
    /\ m.status # "incomplete" => SameFields(m, n)
    /\ m.length # None => n.length = m.length
    /\ m.whole => n = m /\ m.status # "incomplete"
    /\ m.length # None /\ ~ n.whole /\ m.status # "malformed" /\ (m.status = "unsupported" \/ m.last) => n = m

(* More bytes change a message only if bytes were missing.                  *)
LEMMA MessageIsStable ==
    ASSUME NEW data, NEW more, Begins(data, more), NEW offset \in Nat
    PROVE  MessageStays(Message(data, offset, Len(data)), Message(more, offset, Len(more)))
<1> DEFINE a == Len(data)
           b == Len(more)
           e == Envelopes(data, offset, a)
           f == Envelopes(more, offset, b)
           c == Checks(data, offset, a, e)
           x == Checks(more, offset, b, f)
           P == Passed(c)
           Q == Passed(x)
           m == Message(data, offset, a)
           n == Message(more, offset, b)
           end == e.outer.end
<1>1. data \in Seq(Bytes) /\ more \in Seq(Bytes) /\ a \in Nat /\ b \in Nat /\ a <= b BY LenProperties DEF Begins
<1>2. EnvelopesStay(e, f, a) BY EnvelopesAreStable
<1>3. /\ end \in Nat /\ offset + 2 <= end /\ e.outer.failure \in Verdicts
      /\ e.id.start \in Nat /\ e.id.end \in Nat /\ e.id.start <= e.id.end /\ e.id.failure \in Verdicts
      /\ e.op.start \in Nat /\ e.op.end \in Nat /\ e.op.start <= e.op.end /\ e.op.failure \in Verdicts
      /\ e.controls.start \in Nat /\ e.controls.end \in Nat /\ e.controls.failure \in Verdicts
  BY <1>1, EnvelopesFollow
<1>4. /\ f.outer.failure \in Verdicts /\ f.id.failure \in Verdicts
      /\ f.op.failure \in Verdicts /\ f.controls.failure \in Verdicts
  BY <1>1, EnvelopesFollow
<1>5. Settles(c, x) BY MessageChecksStay
<1>6. Listed(c, data, offset, a, e) BY <1>3, ChecksAre
<1>7. Listed(x, more, offset, b, f) BY <1>4, ChecksAre
<1>8. m \in Messages /\ n \in Messages /\ (m.status = "complete" => m.whole) BY <1>1, MessageIs
<1>9. m = Decoded(data, offset, a, e, Failure(c), P) /\ n = Decoded(more, offset, b, f, Failure(x), Q)
  BY DEF Message
<1> HIDE DEF a, b, e, f, c, x, P, Q, m, n, end
<1>10. Len(c) = 18 BY <1>6 DEF Listed
<1>11. /\ P \in 0 .. 18 /\ Q \in 0 .. 18 /\ P <= Q
       /\ \A i \in 1 .. P : c[i] = None
       /\ \A i \in 1 .. Q : x[i] = None
       /\ Failure(c) # "incomplete" => Q = P /\ Failure(x) = Failure(c)
       /\ Failure(c) # None => P < 18 /\ c[P + 1] = Failure(c)
  BY <1>5, <1>10, SettledChecks DEF P, Q
<1>12. /\ m.offset = offset /\ m.status = (IF Failure(c) = None THEN "complete" ELSE Failure(c))
       /\ m.length = If(P >= 3, end - offset)
       /\ m.whole = (P >= 3 /\ end <= a)
       /\ m.id = If(P >= 9, Number(data, e.id.start, e.id.end - e.id.start))
       /\ m.operation = If(P >= 10 /\ Byte(data, e.id.end) \in Operations, Byte(data, e.id.end))
       /\ m.last = (P >= 11 /\ e.op.end >= end)
  <2>1. Composed(m, data, offset, a, e, Failure(c), P) BY <1>9, DecodedIs
  <2> QED BY <2>1, Zenon DEF Composed, end
<1>13. /\ n.offset = offset /\ n.status = (IF Failure(x) = None THEN "complete" ELSE Failure(x))
       /\ n.length = If(Q >= 3, f.outer.end - offset)
       /\ n.whole = (Q >= 3 /\ f.outer.end <= b)
       /\ n.id = If(Q >= 9, Number(more, f.id.start, f.id.end - f.id.start))
       /\ n.operation = If(Q >= 10 /\ Byte(more, f.id.end) \in Operations, Byte(more, f.id.end))
       /\ n.last = (Q >= 11 /\ f.op.end >= f.outer.end)
  <2>1. Composed(n, more, offset, b, f, Failure(x), Q) BY <1>9, DecodedIs
  <2> QED BY <2>1, Zenon DEF Composed
<1>14. None # "incomplete" /\ None # "malformed" /\ None # "unsupported" BY NoneAssumption DEF Failures
<1>27. ASSUME NEW p \in Nat, NEW q \in Int, Need(p, q, a, end) = None PROVE p + q <= a
  <2>1. end \in Nat \cup {None} /\ a <= a BY <1>1, <1>3
  <2> QED BY <1>1, <1>27, <2>1, NeedSays
<1>15. ASSUME P >= 3 PROVE f.outer.end = end
  <2>1. 3 \in 1 .. P BY <1>11, <1>15
  <2>2. e.outer.failure = None BY <1>6, <1>11, <2>1 DEF Listed
  <2> QED BY <1>2, <2>2 DEF EnvelopesStay, SameParts, end
<1>16. ASSUME P >= 9
       PROVE  /\ f.id.end = e.id.end
              /\ Number(more, f.id.start, f.id.end - f.id.start) = Number(data, e.id.start, e.id.end - e.id.start)
  <2>1. 3 \in 1 .. P /\ 5 \in 1 .. P /\ 8 \in 1 .. P BY <1>11, <1>16
  <2>2. e.outer.failure = None /\ e.id.failure = None BY <1>6, <1>11, <2>1 DEF Listed
  <2>3. f.id.start = e.id.start /\ f.id.end = e.id.end BY <1>2, <2>2 DEF EnvelopesStay, SameParts
  <2>4. Need(e.id.start, e.id.end - e.id.start, a, end) = None BY <1>6, <1>11, <2>1 DEF Listed, end
  <2> DEFINE size == e.id.end - e.id.start
  <2>5. size \in Nat BY <1>3
  <2>6. e.id.start + size <= a
    <3>1. Need(e.id.start, size, a, end) = None /\ size \in Int BY <1>3, <2>4
    <3> HIDE DEF size
    <3> QED BY <1>3, <1>27, <3>1
  <2>7. Number(more, e.id.start, size) = Number(data, e.id.start, size)
    <3> HIDE DEF size
    <3> QED BY <1>3, <2>5, <2>6, SameNumber DEF a
  <2> QED BY <2>3, <2>7
<1>17. ASSUME P >= 10 PROVE Byte(more, f.id.end) = Byte(data, e.id.end)
  <2>1. 10 \in 1 .. P BY <1>11, <1>17
  <2>2. Need(e.id.end, 1, a, end) = None /\ 1 \in Int BY <1>6, <1>11, <2>1 DEF Listed, end
  <2>3. e.id.end + 1 <= a BY <1>3, <1>27, <2>2
  <2>4. e.id.end < a BY <1>1, <1>3, <2>3
  <2>5. Byte(more, e.id.end) = Byte(data, e.id.end) BY <1>3, <2>4, SameByte DEF a
  <2>6. f.id.end = e.id.end BY <1>11, <1>16, <1>17
  <2> QED BY <2>5, <2>6
<1>18. ASSUME P >= 11 PROVE f.op.start = e.op.start /\ f.op.end = e.op.end /\ e.op.end <= end
  <2>1. 3 \in 1 .. P /\ 5 \in 1 .. P /\ 11 \in 1 .. P BY <1>11, <1>18
  <2>2. e.outer.failure = None /\ e.id.failure = None /\ e.op.failure = None BY <1>6, <1>11, <2>1 DEF Listed
  <2> QED BY <1>2, <2>2 DEF EnvelopesStay, SameParts, end
<1>19. P >= 3 => n.length = m.length BY <1>11, <1>12, <1>13, <1>15 DEF If
<1>20. ASSUME Q = P PROVE n.length = m.length /\ n.id = m.id /\ n.operation = m.operation /\ n.last = m.last
  <2>1. n.length = m.length
    <3>1. CASE P >= 3 BY <1>19, <3>1
    <3>2. CASE ~ (P >= 3) BY <1>12, <1>13, <1>20, <3>2 DEF If
    <3> QED BY <3>1, <3>2
  <2>2. n.id = m.id
    <3>1. CASE P >= 9 BY <1>12, <1>13, <1>16, <1>20, <3>1 DEF If
    <3>2. CASE ~ (P >= 9) BY <1>12, <1>13, <1>20, <3>2 DEF If
    <3> QED BY <3>1, <3>2
  <2>3. n.operation = m.operation
    <3>1. CASE P >= 10 BY <1>12, <1>13, <1>17, <1>20, <3>1 DEF If
    <3>2. CASE ~ (P >= 10) BY <1>12, <1>13, <1>20, <3>2 DEF If
    <3> QED BY <3>1, <3>2
  <2>4. n.last = m.last
    <3>1. CASE P >= 11
      <4>1. f.op.end = e.op.end /\ f.outer.end = end BY <1>11, <1>15, <1>18, <3>1
      <4> QED BY <1>12, <1>13, <1>20, <4>1
    <3>2. CASE ~ (P >= 11) BY <1>12, <1>13, <1>20, <3>2
    <3> QED BY <3>1, <3>2
  <2> QED BY <2>1, <2>2, <2>3, <2>4
<1>21. ASSUME m.status # "incomplete" PROVE Q = P /\ Failure(x) = Failure(c) /\ SameFields(m, n)
  <2>1. Failure(c) # "incomplete" BY <1>12, <1>14, <1>21
  <2>2. Q = P /\ Failure(x) = Failure(c) BY <1>11, <2>1
  <2> QED BY <1>12, <1>13, <1>20, <2>2 DEF SameFields
<1>22. ASSUME m.length # None PROVE P >= 3 BY <1>12, <1>22 DEF If
<1>23. ASSUME m.whole PROVE m.status # "incomplete"
  <2> SUFFICES ASSUME m.status = "incomplete" PROVE FALSE OBVIOUS
  <2>1. P >= 3 /\ end <= a BY <1>12, <1>23
  <2>2. Failure(c) = "incomplete" BY <1>12
  <2>3. P < 18 /\ c[P + 1] = "incomplete" BY <1>11, <1>14, <2>2
  <2>4. 3 \in 1 .. P BY <1>11, <2>1
  <2>5. e.outer.failure = None BY <1>6, <1>11, <2>4 DEF Listed
  <2>6. e.id.failure # "incomplete" /\ e.op.failure # "incomplete" /\ e.controls.failure # "incomplete"
    BY <1>2, <2>1, <2>5 DEF EnvelopesStay, end
  <2>7. ASSUME NEW p \in Nat, NEW q \in Int, Need(p, q, a, end) = "incomplete" PROVE FALSE
    <3>1. end \in Nat \cup {None} /\ end # None BY <1>3, NoneAssumption
    <3>2. p + q > a /\ p + q <= end BY <1>1, <2>7, <3>1, NeedSays
    <3> QED BY <1>1, <1>3, <2>1, <3>2
  <2>8. \A t : If(t, "malformed") # "incomplete" /\ If(t, "unsupported") # "incomplete" BY <1>14 DEF If
  <2>9. \A t, v : If(t, v) = "incomplete" => v = "incomplete" BY <1>14 DEF If
  <2> DEFINE i == P + 1
  <2>10. i \in 4 .. 18 BY <1>11, <2>1, <2>3
  <2>11. c[i] = "incomplete" BY <2>3
  <2> HIDE DEF i
  <2>12. /\ e.id.end - e.id.start \in Int /\ e.op.end - e.op.start \in Int /\ 1 \in Int
         /\ e.controls.end - e.controls.start \in Int
    BY <1>3
  <2>13. ~ (i = 4 \/ i = 6 \/ i = 7 \/ i = 9 \/ i = 14 \/ i = 17 \/ i = 18)
    <3>1. c[4] # "incomplete" /\ c[6] # "incomplete" /\ c[7] # "incomplete" BY <1>6, <2>8 DEF Listed
    <3>2. c[9] # "incomplete" BY <1>6, <2>8, Zenon DEF Listed
    <3>31. c[14] # "incomplete" BY <1>6, <2>8, Zenon DEF Listed
    <3>32. c[17] # "incomplete" BY <1>6, <2>8, Zenon DEF Listed
    <3>3. c[14] # "incomplete" /\ c[17] # "incomplete" BY <3>31, <3>32
    <3>4. c[18] # "incomplete" BY <1>6, <2>8, Zenon DEF Listed
    <3> QED BY <2>11, <3>1, <3>2, <3>3, <3>4
  <2>14. ~ (i = 5 \/ i = 11 \/ i = 15)
    <3>1. /\ c[5] = e.id.failure /\ c[11] = e.op.failure
          /\ c[15] = If(e.op.end < end, e.controls.failure)
      BY <1>6 DEF Listed, end
    <3>2. c[15] # "incomplete" BY <2>6, <2>9, <3>1
    <3> QED BY <2>6, <2>11, <3>1, <3>2
  <2>15. ~ (i = 8 \/ i = 10 \/ i = 12)
    <3>1. /\ c[8] = Need(e.id.start, e.id.end - e.id.start, a, end)
          /\ c[10] = Need(e.id.end, 1, a, end)
          /\ c[12] = Need(e.op.start, e.op.end - e.op.start, a, end)
      BY <1>6 DEF Listed, end
    <3> QED BY <1>3, <2>7, <2>11, <2>12, <3>1
  <2>16. ~ (i = 13 \/ i = 16)
    <3>1. /\ c[13] = If(e.op.end < end, Need(e.op.end, 1, a, end))
          /\ c[16] = If(e.op.end < end, Need(e.controls.start, e.controls.end - e.controls.start, a, end))
      BY <1>6 DEF Listed, end
    <3>2. c[13] # "incomplete" BY <1>3, <2>7, <2>9, <2>12, <3>1
    <3>3. c[16] # "incomplete" BY <1>3, <2>7, <2>9, <2>12, <3>1
    <3> QED BY <2>11, <3>2, <3>3
  <2> QED BY <2>10, <2>13, <2>14, <2>15, <2>16
<1>24. ASSUME m.whole PROVE n = m
  <2>1. SameFields(m, n) /\ Q = P BY <1>21, <1>23, <1>24
  <2>2. n.whole = m.whole
    <3>1. P >= 3 /\ end <= a BY <1>12, <1>24
    <3>2. f.outer.end = end BY <1>15, <3>1
    <3>3. f.outer.end <= b BY <1>1, <1>3, <3>1, <3>2
    <3>4. n.whole = TRUE /\ m.whole = TRUE BY <1>12, <1>13, <2>1, <3>1, <3>3
    <3> QED BY <3>4
  <2> QED BY <1>8, <2>1, <2>2, SameMessage
<1>25. ASSUME m.length # None, ~ n.whole, m.status # "malformed", m.status = "unsupported" \/ m.last
       PROVE  n = m
  <2>1. ~ m.whole BY <1>24, <1>25
  <2>2. P >= 3 BY <1>22, <1>25
  <2>3. n.whole = m.whole
    <3>1. n.whole = FALSE /\ m.whole = FALSE BY <1>12, <1>13, <1>25, <2>1
    <3> QED BY <3>1
  <2>4. CASE m.status # "incomplete"
    <3>1. SameFields(m, n) BY <1>21, <2>4
    <3> QED BY <1>8, <2>3, <3>1, SameMessage
  <2>5. CASE m.status = "incomplete"
    <3>1. Failure(c) = "incomplete" /\ m.last BY <1>12, <1>25, <2>5
    <3>2. P >= 11 /\ e.op.end >= end BY <1>12, <3>1
    <3>3. f.op.start = e.op.start /\ f.op.end = end /\ e.op.end = end /\ f.outer.end = end
      BY <1>3, <1>11, <1>15, <1>18, <3>2
    <3>4. end > a /\ end > b
      <4>1. ~ (end <= a) BY <1>12, <2>1, <2>2
      <4>2. Q >= 3 /\ f.outer.end = end BY <1>11, <2>2, <3>3
      <4>3. ~ (end <= b) BY <1>13, <1>25, <4>2
      <4> QED BY <1>1, <1>3, <4>1, <4>3
    <3>5. end \in Nat \cup {None} /\ e.op.end - e.op.start \in Int /\ e.op.start + (e.op.end - e.op.start) = end
      BY <1>3, <3>3
    <3>6. P = 11
      <4> SUFFICES ASSUME P # 11 PROVE FALSE OBVIOUS
      <4>1. 12 \in 1 .. P BY <1>11, <3>2
      <4>2. Need(e.op.start, e.op.end - e.op.start, a, end) = None BY <1>6, <1>11, <4>1 DEF Listed, end
      <4>3. e.op.start + (e.op.end - e.op.start) <= a BY <1>3, <1>27, <3>5, <4>2
      <4> QED BY <1>1, <1>3, <3>4, <3>5, <4>3
    <3>7. x[12] = "incomplete"
      <4>1. x[12] = Need(e.op.start, e.op.end - e.op.start, b, end) BY <1>7, <3>3 DEF Listed
      <4>2. e.op.start + (e.op.end - e.op.start) > b /\ ~ (e.op.start + (e.op.end - e.op.start) > end)
        BY <1>3, <3>4, <3>5
      <4> QED BY <4>1, <4>2 DEF Need, If
    <3>8. Q = 11
      <4> SUFFICES ASSUME Q # 11 PROVE FALSE OBVIOUS
      <4>1. 12 \in 1 .. Q BY <1>11, <3>6
      <4> QED BY <1>11, <1>14, <3>7, <4>1
    <3>9. Failure(x) = "incomplete" BY <1>7, <3>7, <3>8 DEF Failure, Listed, Q
    <3>10. SameFields(m, n) BY <1>12, <1>13, <1>20, <3>1, <3>6, <3>8, <3>9 DEF SameFields
    <3> QED BY <1>8, <2>3, <3>10, SameMessage
  <2> QED BY <2>4, <2>5
<1>26. MessageStays(m, n) BY <1>19, <1>21, <1>22, <1>23, <1>24, <1>25 DEF MessageStays
<1> QED BY <1>26 DEF m, n, a, b

-----------------------------------------------------------------------------
(* The messages of a direction, as they are parsed from an offset on.        *)

Parsings == [messages : Seq(Messages), pending : Messages \cup {None}, consumed : Nat]

(* Parsing stops at a message that is malformed or not yet whole.            *)
Stopping(data, o) ==
    LET m == Message(data, o, Len(data)) IN m.status = "malformed" \/ ~m.whole

(* What parsing gives where it stops, and what it gives where it goes on     *)
(* behind a message.                                                         *)
Stopped(data, o) ==
    [messages |-> <<>>, pending |-> IF o = Len(data) THEN None ELSE Message(data, o, Len(data)),
     consumed |-> o]

Further(data, o, rest) ==
    [messages |-> <<Message(data, o, Len(data))>> \o rest.messages, pending |-> rest.pending,
     consumed |-> rest.consumed]

(* The parsing from an offset, from the parsing behind its first message.    *)
LEMMA ParsedUnfolds ==
    ASSUME NEW data \in Seq(Bytes), NEW from \in 0 .. Len(data)
    PROVE  /\ Parsed(data, from) \in Parsings
           /\ Parsed(data, from) =
                IF from = Len(data) \/ Stopping(data, from) THEN Stopped(data, from)
                ELSE Further(data, from, Parsed(data, from + Message(data, from, Len(data)).length))
<1> DEFINE available == Len(data)
           From(lo) == lo .. available
           next == [o \in From(0) |-> IF o = available \/ Stopping(data, o) THEN o
                                   ELSE o + Message(data, o, available).length]
           join == [o \in From(0) |-> [v \in Parsings |-> Further(data, o, v)]]
           last == [o \in From(0) |-> Stopped(data, o)]
           at(lo) == CHOOSE g : g = [o \in From(lo) |->
                IF o = available THEN [messages |-> <<>>, pending |-> None, consumed |-> o]
                ELSE LET m == Message(data, o, available)
                     IN IF m.status = "malformed" \/ ~m.whole
                        THEN [messages |-> <<>>, pending |-> m, consumed |-> o]
                        ELSE LET rest == g[o + m.length]
                             IN [rest EXCEPT !.messages = <<m>> \o @]]
           Value(g, o) == IF o = available \/ Stopping(data, o) THEN Stopped(data, o)
                          ELSE LET rest == g[o + Message(data, o, available).length]
                               IN [rest EXCEPT !.messages = <<Message(data, o, available)>> \o @]
           Follows(lo, g) == g = [o \in From(lo) |-> Value(g, o)]
<1>1. available \in Nat BY LenProperties
<1>2. ASSUME NEW o \in From(0)
      PROVE  /\ Message(data, o, available) \in Messages
             /\ ~ Stopping(data, o) => next[o] \in From(o + 1) \/ o = available
  <2>1. o \in Nat BY <1>1
  <2>2. LET m == Message(data, o, available)
        IN /\ m \in Messages /\ m.offset = o
           /\ m.whole => /\ m.length \in Nat /\ o < o + m.length
                         /\ o + m.length <= available
    BY <1>1, <2>1, MessageIs
  <2>3. ASSUME ~ Stopping(data, o), o # available PROVE next[o] \in From(o + 1)
    <3>1. Message(data, o, available).whole BY <2>3 DEF Stopping
    <3>2. next[o] = o + Message(data, o, available).length BY <2>3
    <3> DEFINE l == Message(data, o, available).length
    <3>3. l \in Nat /\ o < o + l /\ o + l <= available BY <2>2, <3>1
    <3>4. next[o] = o + l BY <3>2
    <3> HIDE DEF l, next, available
    <3> QED BY <1>1, <2>1, <3>3, <3>4
  <2> QED BY <2>2, <2>3
<1>3. ASSUME NEW o \in From(0), NEW v \in Parsings
      PROVE  /\ Further(data, o, v) \in Parsings
             /\ Further(data, o, v) = [v EXCEPT !.messages = <<Message(data, o, available)>> \o @]
  <2> DEFINE m == Message(data, o, available)
  <2>1. m \in Messages BY <1>2
  <2>2. v.messages \in Seq(Messages) /\ v.pending \in Messages \cup {None} /\ v.consumed \in Nat
        /\ v = [messages |-> v.messages, pending |-> v.pending, consumed |-> v.consumed]
    BY DEF Parsings
  <2>3. Further(data, o, v) = [messages |-> <<m>> \o v.messages, pending |-> v.pending, consumed |-> v.consumed]
    BY DEF Further
  <2> HIDE DEF m
  <2>4. <<m>> \o v.messages \in Seq(Messages) BY <2>1, <2>2
  <2>5. [v EXCEPT !.messages = <<m>> \o @] = [messages |-> <<m>> \o v.messages, pending |-> v.pending, consumed |-> v.consumed]
    <3> DEFINE w == [v EXCEPT !.messages = <<m>> \o @]
               r == [messages |-> <<m>> \o v.messages, pending |-> v.pending, consumed |-> v.consumed]
               F == {"messages", "pending", "consumed"}
    <3>1. /\ w.messages = <<m>> \o v.messages /\ w.pending = v.pending /\ w.consumed = v.consumed
          /\ r.messages = <<m>> \o v.messages /\ r.pending = v.pending /\ r.consumed = v.consumed
      BY <2>2
    <3>2. w = [s \in F |-> w[s]] /\ r = [s \in F |-> r[s]] BY <2>2
    <3> HIDE DEF w, r
    <3>3. \A s \in F : r[s] = w[s] BY <3>1
    <3> HIDE DEF F
    <3>4. w = r BY <3>2, <3>3
    <3> QED BY <3>4 DEF w, r
  <2>6. [messages |-> <<m>> \o v.messages, pending |-> v.pending, consumed |-> v.consumed] \in Parsings
    BY <2>2, <2>4 DEF Parsings
  <2> QED BY <2>3, <2>5, <2>6 DEF m
<1>4. \A o \in From(0) : Stopped(data, o) \in Parsings
  <2> SUFFICES ASSUME NEW o \in From(0) PROVE Stopped(data, o) \in Parsings OBVIOUS
  <2>1. Message(data, o, available) \in Messages /\ o \in Nat BY <1>1, <1>2
  <2>2. <<>> \in Seq(Messages) OBVIOUS
  <2> QED BY <2>1, <2>2 DEF Parsings, Stopped
<1>5. PICK g \in [From(0) -> Parsings] :
          \A o \in From(0) : g[o] = IF next[o] \in From(o + 1) THEN join[o][g[next[o]]] ELSE last[o]
  <2>1. \A o \in From(0) : last[o] \in Parsings BY <1>4
  <2>2. \A o \in From(0) : \A v \in Parsings : join[o][v] \in Parsings BY <1>3
  <2>3. Jumping(0, available, Parsings, next, join, last)
    <3> HIDE DEF next, join, last, available
    <3> QED BY <1>1, <2>1, <2>2, JumpRecursion
  <2> HIDE DEF next, join, last, available
  <2> QED BY <2>3 DEF Jumping
<1>6. ASSUME NEW o \in From(0) PROVE g[o] = Value(g, o)
  <2>1. CASE o = available \/ Stopping(data, o)
    <3>1. next[o] = o BY <2>1
    <3>2. next[o] \notin From(o + 1)
      <4> HIDE DEF next, available
      <4> QED BY <1>1, <3>1
    <3>3. g[o] = last[o]
      <4> HIDE DEF next, join, last
      <4> QED BY <1>5, <3>2
    <3> QED BY <2>1, <3>3
  <2>2. CASE ~ (o = available \/ Stopping(data, o))
    <3>1. next[o] \in From(o + 1) BY <1>2, <2>2
    <3>2. next[o] \in From(0)
      <4> HIDE DEF next, available
      <4> QED BY <1>1, <3>1
    <3>3. g[o] = join[o][g[next[o]]] /\ g[next[o]] \in Parsings
      <4> HIDE DEF next, join, last
      <4> QED BY <1>5, <3>1, <3>2
    <3>4. g[o] = Further(data, o, g[next[o]])
      <4> HIDE DEF next
      <4> QED BY <3>3
    <3>5. next[o] = o + Message(data, o, available).length BY <2>2
    <3> HIDE DEF next
    <3> QED BY <1>3, <2>2, <3>3, <3>4, <3>5
  <2> QED BY <2>1, <2>2
<1>7. ASSUME NEW lo \in From(0), NEW h, Follows(lo, h) PROVE h[lo] = g[lo]
  <2> DEFINE H == {o \in From(lo) : h[o] = g[o]}
  <2>1. ASSUME NEW o \in From(lo), \A p \in From(o + 1) : p \in H PROVE o \in H
    <3>1. o \in From(0) BY <1>1
    <3>2. h[o] = Value(h, o)
      <4> HIDE DEF Value
      <4> QED BY <1>7
    <3>3. g[o] = Value(g, o) BY <1>6, <3>1
    <3>4. CASE o = available \/ Stopping(data, o) BY <3>2, <3>3, <3>4
    <3>5. CASE ~ (o = available \/ Stopping(data, o))
      <4> DEFINE q == o + Message(data, o, available).length
      <4>1. next[o] = q /\ next[o] \in From(o + 1) BY <1>2, <3>1, <3>5
      <4>2. h[q] = g[q] BY <2>1, <4>1
      <4> QED BY <3>2, <3>3, <3>5, <4>2
    <3> QED BY <3>4, <3>5
  <2>2. \A o \in From(lo) : o \in H
    <3>1. lo \in Int /\ available \in Int /\ lo <= available BY <1>1
    <3> HIDE DEF H, available
    <3> QED BY <2>1, <3>1, Downwards
  <2>3. lo \in From(lo) BY <1>1
  <2> QED BY <2>2, <2>3
<1>8. ASSUME NEW lo \in From(0) PROVE Parsed(data, lo) = g[lo]
  <2>1. Follows(lo, [o \in From(lo) |-> g[o]])
    <3> DEFINE h == [o \in From(lo) |-> g[o]]
    <3>1. ASSUME NEW o \in From(lo) PROVE h[o] = Value(h, o)
      <4>1. o \in From(0) /\ h[o] = g[o] BY <1>1
      <4>2. g[o] = Value(g, o) BY <1>6, <4>1
      <4>3. CASE o = available \/ Stopping(data, o) BY <4>1, <4>2, <4>3
      <4>4. CASE ~ (o = available \/ Stopping(data, o))
        <5> DEFINE q == o + Message(data, o, available).length
        <5>1. next[o] = q /\ next[o] \in From(o + 1) BY <1>2, <4>1, <4>4
        <5>2. q \in From(lo)
          <6> HIDE DEF q, next, available
          <6> QED BY <1>1, <5>1
        <5>3. h[q] = g[q] BY <5>2
        <5> QED BY <4>1, <4>2, <4>4, <5>3
      <4> QED BY <4>3, <4>4
    <3>2. h = [o \in From(lo) |-> h[o]] OBVIOUS
    <3> HIDE DEF h, Value
    <3> QED BY <3>1, <3>2 DEF h
  <2>2. Follows(lo, at(lo))
    <3>1. \A g0, o : (IF o = available THEN [messages |-> <<>>, pending |-> None, consumed |-> o]
                ELSE LET m == Message(data, o, available)
                     IN IF m.status = "malformed" \/ ~m.whole
                        THEN [messages |-> <<>>, pending |-> m, consumed |-> o]
                        ELSE LET rest == g0[o + m.length]
                             IN [rest EXCEPT !.messages = <<m>> \o @]) = Value(g0, o)
      BY DEF Stopping, Stopped
    <3>2. at(lo) = CHOOSE g0 : Follows(lo, g0)
      <4> HIDE DEF Value
      <4> QED BY <3>1
    <3> HIDE DEF at, Follows
    <3> QED BY <2>1, <3>2
  <2>3. Parsed(data, lo) = at(lo)[lo] BY DEF Parsed
  <2> HIDE DEF at
  <2> QED BY <1>7, <2>2, <2>3
<1>9. from \in From(0) OBVIOUS
<1>10. Parsed(data, from) = g[from] /\ g[from] \in Parsings BY <1>5, <1>8, <1>9
<1>11. CASE from = available \/ Stopping(data, from) BY <1>6, <1>9, <1>10, <1>11
<1>12. CASE ~ (from = available \/ Stopping(data, from))
  <2> DEFINE q == from + Message(data, from, available).length
  <2>1. next[from] = q /\ next[from] \in From(from + 1) BY <1>2, <1>9, <1>12
  <2>2. q \in From(0)
    <3> HIDE DEF q, next, available
    <3> QED BY <1>1, <2>1
  <2>3. g[q] \in Parsings /\ Parsed(data, q) = g[q] BY <1>5, <1>8, <2>2
  <2>4. g[from] = Further(data, from, g[q]) BY <1>3, <1>6, <1>9, <1>12, <2>3
  <2> QED BY <1>10, <1>12, <2>3, <2>4
<1> QED BY <1>10, <1>11, <1>12

(* Messages at offsets that rise from one bound to below another.            *)
Ascending(messages, lo, hi) ==
    /\ \A i \in DOMAIN messages : lo <= messages[i].offset /\ messages[i].offset < hi
    /\ \A i, j \in DOMAIN messages : i < j => messages[i].offset < messages[j].offset

(* Parsing consumes bytes that are there, gives messages at ascending        *)
(* offsets among the bytes it consumed, and leaves pending only what is not  *)
(* complete.                                                                 *)
LEMMA ParsedIs ==
    ASSUME NEW data \in Seq(Bytes), NEW from \in 0 .. Len(data)
    PROVE  LET p == Parsed(data, from)
           IN /\ p \in Parsings /\ p.consumed \in from .. Len(data)
              /\ Ascending(p.messages, from, p.consumed)
              /\ p.pending # None => p.pending.status # "complete"
<1> DEFINE available == Len(data)
           H == {o \in 0 .. available : /\ Parsed(data, o).consumed \in o .. available
                                        /\ Ascending(Parsed(data, o).messages, o, Parsed(data, o).consumed)
                                        /\ Parsed(data, o).pending # None =>
                                               Parsed(data, o).pending.status # "complete"}
<1>1. available \in Nat BY LenProperties
<1>2. ASSUME NEW o \in 0 .. available, \A p \in (o + 1) .. available : p \in H PROVE o \in H
  <2> DEFINE m == Message(data, o, available)
             q == o + m.length
             r == Parsed(data, o)
             rest == Parsed(data, q)
  <2>1. CASE o = available \/ Stopping(data, o)
    <3>1. r = Stopped(data, o) BY <2>1, ParsedUnfolds
    <3>2. r.messages = <<>> /\ r.consumed = o BY <3>1 DEF Stopped
    <3>3. DOMAIN <<>> = {} OBVIOUS
    <3>4. Ascending(r.messages, o, r.consumed) BY <3>2, <3>3 DEF Ascending
    <3>5. r.pending # None => r.pending.status # "complete"
      <4>1. m.status = "complete" => m.whole
        <5>1. o \in Nat BY <1>1
        <5> HIDE DEF available
        <5> QED BY <1>1, <5>1, MessageIs
      <4>2. CASE o = available BY <3>1, <4>2 DEF Stopped
      <4>3. CASE o # available
        <5>1. r.pending = m BY <3>1, <4>3 DEF Stopped
        <5>2. m.status = "malformed" \/ ~ m.whole BY <2>1, <4>3 DEF Stopping
        <5> QED BY <4>1, <5>1, <5>2
      <4> QED BY <4>2, <4>3
    <3> QED BY <1>1, <3>2, <3>4, <3>5
  <2>2. CASE ~ (o = available \/ Stopping(data, o))
    <3>1. /\ m \in Messages /\ m.offset = o
          /\ m.whole => m.length \in Nat /\ o < q /\ q <= available
      <4>1. o \in Nat BY <1>1
      <4> HIDE DEF available
      <4> QED BY <1>1, <4>1, MessageIs
    <3>2. m.whole BY <2>2 DEF Stopping
    <3>3. q \in (o + 1) .. available /\ q \in 0 .. available
      <4>1. m.length \in Nat /\ o < q /\ q <= available /\ q = o + m.length BY <3>1, <3>2
      <4> HIDE DEF m, q, available
      <4> QED BY <1>1, <4>1
    <3>4. /\ rest.consumed \in q .. available /\ Ascending(rest.messages, q, rest.consumed) /\ rest \in Parsings
          /\ rest.pending # None => rest.pending.status # "complete"
      <4>1. q \in H BY <1>2, <3>3
      <4>2. rest \in Parsings BY <3>3, ParsedUnfolds
      <4> QED BY <4>1, <4>2
    <3>5. r = Further(data, o, rest) BY <2>2, ParsedUnfolds
    <3>6. r.messages = <<m>> \o rest.messages /\ r.consumed = rest.consumed /\ r.pending = rest.pending
      BY <3>5 DEF Further
    <3>7. rest.messages \in Seq(Messages) BY <3>4 DEF Parsings
    <3> DEFINE ms == rest.messages
               all == <<m>> \o ms
    <3> HIDE DEF m, q, r, rest, available
    <3>8. /\ Len(all) = Len(ms) + 1 /\ Len(ms) \in Nat /\ DOMAIN all = 1 .. Len(all) /\ DOMAIN ms = 1 .. Len(ms)
          /\ all[1] = m /\ \A i \in 2 .. Len(all) : all[i] = ms[i - 1] /\ i - 1 \in DOMAIN ms
      <4>1. all \in Seq(Messages) BY <3>1, <3>7
      <4>2. Len(all) = Len(ms) + 1 /\ Len(ms) \in Nat /\ DOMAIN ms = 1 .. Len(ms) BY <3>7
      <4>3. DOMAIN all = 1 .. Len(all) BY <4>1
      <4>4. all[1] = m BY <3>7
      <4>5. \A i \in 2 .. Len(all) : all[i] = ms[i - 1] /\ i - 1 \in DOMAIN ms BY <3>7, <4>2
      <4> HIDE DEF all
      <4> QED BY <4>2, <4>3, <4>4, <4>5
    <3>9. \A i \in DOMAIN ms : ms[i].offset \in Nat
      <4>1. \A i \in DOMAIN ms : ms[i] \in Messages BY <3>7
      <4>2. \A x \in Messages : x.offset \in Nat BY DEF Messages
      <4> HIDE DEF ms
      <4> QED BY <4>1, <4>2
    <3> HIDE DEF all, ms
    <3>10. Ascending(all, o, rest.consumed)
      <4>1. ASSUME NEW i \in DOMAIN ms PROVE q <= ms[i].offset /\ ms[i].offset < rest.consumed
        BY <3>4 DEF Ascending, ms
      <4>2. \A i, j \in DOMAIN ms : i < j => ms[i].offset < ms[j].offset BY <3>4 DEF Ascending, ms
      <4>3. ASSUME NEW i \in DOMAIN all PROVE o <= all[i].offset /\ all[i].offset < rest.consumed
        <5>1. CASE i = 1
          <6>1. all[i].offset = o BY <3>1, <3>8, <5>1
          <6> QED BY <1>1, <3>3, <3>4, <6>1
        <5>2. CASE i # 1
          <6>1. i \in 2 .. Len(all) BY <3>8, <5>2
          <6>2. all[i] = ms[i - 1] /\ i - 1 \in DOMAIN ms BY <3>8, <6>1
          <6>3. q <= all[i].offset /\ all[i].offset < rest.consumed /\ all[i].offset \in Nat BY <3>9, <4>1, <6>2
          <6> QED BY <1>1, <3>3, <6>3
        <5> QED BY <5>1, <5>2
      <4>4. ASSUME NEW i \in DOMAIN all, NEW j \in DOMAIN all, i < j PROVE all[i].offset < all[j].offset
        <5>1. j \in 2 .. Len(all) BY <3>8, <4>4
        <5>2. all[j] = ms[j - 1] /\ j - 1 \in DOMAIN ms BY <3>8, <5>1
        <5>3. q <= all[j].offset /\ all[j].offset \in Nat BY <3>9, <4>1, <5>2
        <5>4. CASE i = 1
          <6>1. all[i].offset = o BY <3>1, <3>8, <5>4
          <6> QED BY <1>1, <3>3, <5>3, <6>1
        <5>5. CASE i # 1
          <6>1. i \in 2 .. Len(all) BY <3>8, <5>5
          <6>2. all[i] = ms[i - 1] /\ i - 1 \in DOMAIN ms BY <3>8, <6>1
          <6>3. i - 1 < j - 1 BY <3>8, <4>4
          <6> QED BY <4>2, <5>2, <6>2, <6>3
        <5> QED BY <5>4, <5>5
      <4> QED BY <4>3, <4>4 DEF Ascending
    <3>11. rest.consumed \in o .. available BY <1>1, <3>3, <3>4
    <3> QED BY <3>4, <3>6, <3>10, <3>11 DEF r, all, ms
  <2> QED BY <2>1, <2>2
<1>3. \A o \in 0 .. available : o \in H
  <2>1. 0 \in Int /\ available \in Int /\ 0 <= available BY <1>1
  <2> HIDE DEF H, available
  <2> QED BY <1>2, <2>1, Downwards
<1>4. from \in H BY <1>3
<1>5. Parsed(data, from) \in Parsings BY ParsedUnfolds
<1> QED BY <1>4, <1>5


(* What framing makes of a direction, from what it was and what is received. *)
FramedOnce(current, s, g) ==
    /\ g \in Framings
    /\ g.stream.payload = s.payload /\ g.stream.contiguous = s.contiguous
    /\ g.stream.consumed \in s.consumed .. Len(s.payload)
    /\ Ascending(g.messages, s.consumed, g.stream.consumed)
    /\ ~ s.contiguous => g.status \in Failed
    /\ current # None /\ current.status \in Failed => g.status \in Failed

(* How many messages have a status.                                          *)
LEMMA CountIs ==
    ASSUME NEW messages \in Seq(Messages), NEW status
    PROVE  CountOf(messages, status) \in Nat
<1> DEFINE S == {i \in DOMAIN messages : messages[i].status = status}
<1>1. S \subseteq 1 .. Len(messages) /\ Len(messages) \in Nat BY LenProperties
<1>2. IsFiniteSet(S)
  <2>1. IsFiniteSet(1 .. Len(messages)) BY <1>1, FS_Interval
  <2> HIDE DEF S
  <2> QED BY <1>1, <2>1, FS_Subset
<1> QED BY <1>2, FS_CardinalityType DEF CountOf

(* Parsing ends at the end, or at a message that stops it and is pending.    *)
EndsWell(data, p) ==
    /\ p.consumed = Len(data) \/ Stopping(data, p.consumed)
    /\ p.pending = IF p.consumed = Len(data) THEN None ELSE Message(data, p.consumed, Len(data))

(* Parsing stops at the end of the bytes or where no message is whole.      *)
LEMMA ParsedEnds ==
    ASSUME NEW data \in Seq(Bytes), NEW from \in 0 .. Len(data)
    PROVE  EndsWell(data, Parsed(data, from))
<1> DEFINE available == Len(data)
           H == {o \in 0 .. available : EndsWell(data, Parsed(data, o))}
<1>1. available \in Nat BY LenProperties
<1>2. ASSUME NEW o \in 0 .. available, \A p \in (o + 1) .. available : p \in H PROVE o \in H
  <2>1. CASE o = available \/ Stopping(data, o)
    <3>1. Parsed(data, o) = Stopped(data, o) BY <2>1, ParsedUnfolds
    <3>2. EndsWell(data, Stopped(data, o)) BY <2>1 DEF EndsWell, Stopped
    <3> QED BY <3>1, <3>2
  <2>2. CASE ~ (o = available \/ Stopping(data, o))
    <3> DEFINE m == Message(data, o, available)
               q == o + m.length
    <3>1. m.whole => m.length \in Nat /\ o < q /\ q <= available
      <4>1. o \in Nat BY <1>1
      <4> HIDE DEF available
      <4> QED BY <1>1, <4>1, MessageIs
    <3>2. m.whole BY <2>2 DEF Stopping
    <3>3. q \in (o + 1) .. available /\ q \in 0 .. available
      <4>1. m.length \in Nat /\ o < q /\ q <= available /\ q = o + m.length BY <3>1, <3>2
      <4> HIDE DEF m, q, available
      <4> QED BY <1>1, <4>1
    <3>4. EndsWell(data, Parsed(data, q)) BY <1>2, <3>3
    <3>5. Parsed(data, o) = Further(data, o, Parsed(data, q)) BY <2>2, ParsedUnfolds
    <3> HIDE DEF q, m
    <3>6. EndsWell(data, Parsed(data, o)) BY <3>4, <3>5 DEF EndsWell, Further
    <3> QED BY <3>6
  <2> QED BY <2>1, <2>2
<1>3. \A o \in 0 .. available : o \in H
  <2>1. 0 \in Int /\ available \in Int /\ 0 <= available BY <1>1
  <2> HIDE DEF H, available
  <2> QED BY <1>2, <2>1, Downwards
<1> QED BY <1>3

(* Parsing all bytes at once gives what was parsed of the first of them, and *)
(* then what is parsed from where that ended.                                *)
Continuing(p, q) == [messages |-> p.messages \o q.messages, pending |-> q.pending, consumed |-> q.consumed]

(* A message in front of a parsing stays in front when it goes on.          *)
LEMMA FurtherContinues ==
    ASSUME NEW data, NEW o, Message(data, o, Len(data)) \in Messages, NEW r \in Parsings, NEW s \in Parsings
    PROVE  Further(data, o, Continuing(r, s)) = Continuing(Further(data, o, r), s)
<1> DEFINE one == <<Message(data, o, Len(data))>>
<1>1. one \in Seq(Messages) /\ r.messages \in Seq(Messages) /\ s.messages \in Seq(Messages) BY DEF Parsings
<1>2. Further(data, o, Continuing(r, s)) =
        [messages |-> one \o (r.messages \o s.messages), pending |-> s.pending, consumed |-> s.consumed]
  BY DEF Further, Continuing
<1>3. Continuing(Further(data, o, r), s) =
        [messages |-> (one \o r.messages) \o s.messages, pending |-> s.pending, consumed |-> s.consumed]
  BY DEF Further, Continuing
<1> HIDE DEF one
<1>4. \A p, q, u \in Seq(Messages) : (p \o q) \o u = p \o (q \o u) OBVIOUS
<1>5. (one \o r.messages) \o s.messages = one \o (r.messages \o s.messages) BY <1>1, <1>4
<1> QED BY <1>2, <1>3, <1>5

(* Parsing more bytes is parsing those that were there and going on where   *)
(* that stopped.                                                            *)
LEMMA ParsedGrows ==
    ASSUME NEW data, NEW more, Begins(data, more), NEW from \in 0 .. Len(data)
    PROVE  Parsed(more, from) = Continuing(Parsed(data, from), Parsed(more, Parsed(data, from).consumed))
<1> DEFINE a == Len(data)
           b == Len(more)
           P(o) == Parsed(data, o)
           Q(o) == Parsed(more, o)
           H == {o \in 0 .. a : Q(o) = Continuing(P(o), Q(P(o).consumed))}
<1>1. data \in Seq(Bytes) /\ more \in Seq(Bytes) /\ a \in Nat /\ b \in Nat /\ a <= b BY LenProperties DEF Begins
<1>2. ASSUME NEW o \in 0 .. a
      PROVE  /\ o \in 0 .. b /\ P(o) \in Parsings /\ Q(o) \in Parsings
             /\ P(o) = IF o = a \/ Stopping(data, o) THEN Stopped(data, o)
                       ELSE Further(data, o, P(o + Message(data, o, a).length))
             /\ Q(o) = IF o = b \/ Stopping(more, o) THEN Stopped(more, o)
                       ELSE Further(more, o, Q(o + Message(more, o, b).length))
  <2>1. o \in 0 .. b BY <1>1
  <2> QED BY <1>1, <2>1, ParsedUnfolds
<1>3. ASSUME NEW o \in 0 .. a, \A p \in (o + 1) .. a : p \in H PROVE o \in H
  <2>1. CASE o = a \/ Stopping(data, o)
    <3>1. P(o) = Stopped(data, o) BY <1>2, <2>1
    <3>2. P(o).messages = <<>> /\ P(o).consumed = o BY <3>1 DEF Stopped
    <3>3. Q(o) = [messages |-> Q(o).messages, pending |-> Q(o).pending, consumed |-> Q(o).consumed]
          /\ Q(o).messages \in Seq(Messages)
      BY <1>2 DEF Parsings
    <3>4. <<>> \o Q(o).messages = Q(o).messages BY <3>3
    <3> QED BY <3>2, <3>3, <3>4 DEF Continuing
  <2>2. CASE ~ (o = a \/ Stopping(data, o))
    <3> DEFINE m == Message(data, o, a)
               q == o + m.length
    <3>1. m.whole => m.length \in Nat /\ o < q /\ q <= a
      <4>1. o \in Nat BY <1>1
      <4> HIDE DEF a
      <4> QED BY <1>1, <4>1, MessageIs
    <3>2. m.whole /\ m.status # "malformed" BY <2>2 DEF Stopping
    <3>3. q \in (o + 1) .. a /\ q \in 0 .. a
      <4>1. m.length \in Nat /\ o < q /\ q <= a /\ q = o + m.length BY <3>1, <3>2
      <4> HIDE DEF m, q, a
      <4> QED BY <1>1, <4>1
    <3>4. Message(more, o, b) = m
      <4>1. o \in Nat BY <1>1
      <4>2. MessageStays(Message(data, o, Len(data)), Message(more, o, Len(more))) BY <4>1, MessageIsStable
      <4> QED BY <3>2, <4>2 DEF MessageStays
    <3>5. o # b /\ ~ Stopping(more, o)
      <4>1. o # b BY <1>1, <2>2
      <4> QED BY <3>2, <3>4, <4>1 DEF Stopping
    <3>6. P(o) = Further(data, o, P(q)) /\ Q(o) = Further(more, o, Q(q)) BY <1>2, <2>2, <3>4, <3>5
    <3>7. Q(q) = Continuing(P(q), Q(P(q).consumed)) BY <1>3, <3>3
    <3>8. P(q) \in Parsings /\ P(q).consumed \in 0 .. a
      <4>1. P(q).consumed \in q .. Len(data) BY <1>1, <3>3, ParsedIs
      <4> QED BY <1>1, <1>2, <3>3, <4>1
    <3> DEFINE r == P(q)
               s == Q(P(q).consumed)
    <3>9. r \in Parsings /\ s \in Parsings /\ m \in Messages
      <4>1. m \in Messages
        <5>1. o \in Nat BY <1>1
        <5> HIDE DEF a
        <5> QED BY <1>1, <5>1, MessageIs
      <4> QED BY <1>2, <3>8, <4>1
    <3>10. Q(o) = Further(more, o, Continuing(r, s)) /\ P(o) = Further(data, o, r) BY <3>6, <3>7
    <3>11. Further(data, o, r) = Further(more, o, r) BY <3>4 DEF Further
    <3>12. Further(more, o, Continuing(r, s)) = Continuing(Further(more, o, r), s)
      <4>1. Message(more, o, Len(more)) \in Messages BY <3>4, <3>9
      <4> HIDE DEF r, s
      <4> QED BY <3>9, <4>1, FurtherContinues
    <3>13. P(o).consumed = r.consumed BY <3>10 DEF Further
    <3>14. Q(P(o).consumed) = s BY <3>13
    <3> HIDE DEF r, s
    <3>15. Q(o) = Continuing(P(o), s) BY <3>10, <3>11, <3>12
    <3> QED BY <3>14, <3>15
  <2> QED BY <2>1, <2>2
<1>4. \A o \in 0 .. a : o \in H
  <2>1. 0 \in Int /\ a \in Int /\ 0 <= a BY <1>1
  <2> HIDE DEF H, a
  <2> QED BY <1>3, <2>1, Downwards
<1> QED BY <1>4

(* The messages of two parsings are counted together.                        *)
LEMMA CountsAdd ==
    ASSUME NEW ms \in Seq(Messages), NEW ns \in Seq(Messages), NEW status
    PROVE  CountOf(ms \o ns, status) = CountOf(ms, status) + CountOf(ns, status)
<1> DEFINE k == Len(ms)
           n == Len(ns)
           all == ms \o ns
           A == {i \in DOMAIN ms : ms[i].status = status}
           B == {i \in DOMAIN ns : ns[i].status = status}
           C == {k + i : i \in B}
<1>1. k \in Nat /\ n \in Nat /\ DOMAIN ms = 1 .. k /\ DOMAIN ns = 1 .. n BY LenProperties
<1>2. /\ DOMAIN all = 1 .. (k + n)
      /\ \A i \in 1 .. k : all[i] = ms[i]
      /\ \A i \in 1 .. n : all[k + i] = ns[i]
  <2>1. Len(all) = k + n /\ DOMAIN all = 1 .. (k + n) BY <1>1
  <2>2. \A i \in 1 .. k : all[i] = ms[i] BY <1>1
  <2>3. ASSUME NEW i \in 1 .. n PROVE all[k + i] = ns[i]
    <3>1. k + i \in 1 .. (k + n) /\ k + i > k /\ k + i - k = i BY <1>1
    <3> QED BY <1>1, <3>1
  <2> QED BY <2>1, <2>2, <2>3
<1> HIDE DEF all
<1>3. {i \in DOMAIN all : all[i].status = status} = A \cup C
  <2>1. ASSUME NEW i \in DOMAIN all, all[i].status = status PROVE i \in A \cup C
    <3>1. CASE i \in 1 .. k BY <1>1, <1>2, <2>1, <3>1
    <3>2. CASE i \notin 1 .. k
      <4>1. i - k \in 1 .. n /\ k + (i - k) = i BY <1>1, <1>2, <3>2
      <4>2. i - k \in B BY <1>1, <1>2, <2>1, <4>1
      <4> QED BY <4>1, <4>2
    <3> QED BY <3>1, <3>2
  <2>2. ASSUME NEW i \in A PROVE i \in DOMAIN all /\ all[i].status = status BY <1>1, <1>2
  <2>3. ASSUME NEW j \in B PROVE k + j \in DOMAIN all /\ all[k + j].status = status
    <3>1. k + j \in 1 .. (k + n) BY <1>1
    <3> QED BY <1>1, <1>2, <3>1
  <2> QED BY <2>1, <2>2, <2>3
<1>4. IsFiniteSet(A) /\ IsFiniteSet(B)
  <2>1. IsFiniteSet(1 .. k) /\ IsFiniteSet(1 .. n) BY <1>1, FS_Interval
  <2> QED BY <1>1, <2>1, FS_Subset
<1>5. IsFiniteSet(C) /\ Cardinality(C) = Cardinality(B)
  <2> DEFINE f == [i \in B |-> k + i]
  <2>1. \A i \in B : i \in Nat BY <1>1
  <2>2. f \in [B -> C] OBVIOUS
  <2>3. f \in Injection(B, C)
    <3>1. \A i, j \in B : f[i] = f[j] => i = j BY <1>1, <2>1
    <3> HIDE DEF B, C, f
    <3> QED BY <2>2, <3>1 DEF Injection, IsInjective
  <2>4. f \in Surjection(B, C)
    <3>1. \A x \in C : \E i \in B : f[i] = x OBVIOUS
    <3> HIDE DEF B, C, f
    <3> QED BY <2>2, <3>1 DEF Surjection
  <2> HIDE DEF f, B, C
  <2>5. ExistsBijection(B, C) BY <2>3, <2>4 DEF ExistsBijection, Bijection
  <2> QED BY <1>4, <2>5, FS_Bijection
<1>6. A \cap C = {}
  <2>1. ASSUME NEW i \in B PROVE k + i \notin A BY <1>1
  <2> QED BY <2>1
<1>7. Cardinality(A \cup C) = Cardinality(A) + Cardinality(C)
  <2> HIDE DEF A, C
  <2>1. Cardinality(A \cup C) = Cardinality(A) + Cardinality(C) - Cardinality(A \cap C) BY <1>4, <1>5, FS_Union
  <2>2. Cardinality(A \cap C) = 0 BY <1>6, FS_EmptySet
  <2>3. Cardinality(A) \in Nat /\ Cardinality(C) \in Nat BY <1>4, <1>5, FS_CardinalityType
  <2> QED BY <2>1, <2>2, <2>3
<1>8. CountOf(all, status) = Cardinality(A \cup C) BY <1>3 DEF CountOf
<1>9. CountOf(ms, status) = Cardinality(A) /\ CountOf(ns, status) = Cardinality(B) BY DEF CountOf
<1> QED BY <1>5, <1>7, <1>8, <1>9 DEF all

(* Framing a direction once more gives a framing, and forgets none.          *)
LEMMA FrameDirectionIs ==
    ASSUME NEW current \in Framings \cup {None}, NEW s \in TCPStreams, s.consumed \in 0 .. Len(s.payload)
    PROVE  LET g == FrameDirection(current, s)
           IN /\ g = None => current = None /\ (s.payload = <<>> \/ Byte(s.payload, 0) # 48)
              /\ g # None => FramedOnce(current, s, g)
<1> DEFINE f == IF current = None THEN Unframed ELSE current
           next == [f EXCEPT !.stream = s, !.messages = <<>>]
           p == Parsed(s.payload, s.consumed)
           g == FrameDirection(current, s)
<1>1. /\ s.payload \in Seq(Bytes) /\ s.consumed \in Nat /\ s.contiguous \in BOOLEAN
      /\ s = [payload |-> s.payload, consumed |-> s.consumed, contiguous |-> s.contiguous]
  BY DEF TCPStreams
<1>2. None \notin Framings BY NoneAssumption
<1>3. /\ f.status \in {"ready", "incomplete"} \cup Failed /\ f.pending \in Messages \cup {None}
      /\ f.complete \in Nat /\ f.unsupported \in Nat /\ f.malformed \in Nat
      /\ next \in Framings /\ next.stream = s /\ next.messages = <<>> /\ next.status = f.status
      /\ current # None => f.status = current.status
  <2>0. <<>> \in Seq(Messages) OBVIOUS
  <2>1. CASE current = None
    <3>1. f = Unframed BY <2>1
    <3>2. f = [stream |-> None, messages |-> <<>>, pending |-> None, status |-> "ready",
               complete |-> 0, unsupported |-> 0, malformed |-> 0]
      BY <3>1 DEF Unframed
    <3> HIDE DEF f
    <3> QED BY <2>0, <2>1, <3>2 DEF Framings
  <2>2. CASE current # None
    <3>1. f = current /\ current \in Framings BY <2>2
    <3> HIDE DEF f
    <3> QED BY <2>0, <3>1 DEF Framings
  <2> QED BY <2>1, <2>2
<1>4. /\ p \in Parsings /\ p.consumed \in s.consumed .. Len(s.payload) /\ Ascending(p.messages, s.consumed, p.consumed)
      /\ p.pending # None => p.pending.status # "complete"
  BY <1>1, ParsedIs
<1>5. g = IF current = None /\ (s.payload = <<>> \/ Byte(s.payload, 0) # 48) THEN None
          ELSE IF ~s.contiguous THEN [next EXCEPT !.status = "unavailable"]
          ELSE IF f.status \in Failed \/ (current # None /\ Len(s.payload) = Len(current.stream.payload))
                  \/ Waiting(f, s) THEN next
          ELSE Reframed(f, s, p)
  BY DEF FrameDirection
<1> HIDE DEF f, next, p, g
<1>6. Ascending(<<>>, s.consumed, s.consumed) /\ s.consumed \in s.consumed .. Len(s.payload)
  <2>1. DOMAIN <<>> = {} /\ Len(s.payload) \in Nat BY <1>1
  <2> QED BY <1>1, <2>1 DEF Ascending
<1>7. g \in {next, [next EXCEPT !.status = "unavailable"], Reframed(f, s, p), None} BY <1>5
<1>11. g # None /\ ~ s.contiguous => g.status \in Failed
  <2>1. [next EXCEPT !.status = "unavailable"].status \in Failed BY <1>3 DEF Framings, Failed
  <2> QED BY <1>5, <2>1
<1>8. CASE g = next
  <2>1. ~ s.contiguous => g.status \in Failed BY <1>2, <1>3, <1>8, <1>11
  <2> QED BY <1>2, <1>3, <1>6, <1>8, <2>1 DEF FramedOnce, g
<1>9. CASE g = [next EXCEPT !.status = "unavailable"]
  <2>1. /\ g \in Framings /\ g.stream = s /\ g.messages = <<>> /\ g.status \in Failed
    BY <1>3, <1>9 DEF Framings, Failed
  <2> QED BY <1>2, <1>6, <2>1 DEF FramedOnce, g
<1>10. ASSUME g = Reframed(f, s, p) PROVE g # None /\ FramedOnce(current, s, g)
  <2> DEFINE x == [s EXCEPT !.consumed = p.consumed]
             a == f.complete + CountOf(p.messages, "complete")
             b == f.unsupported + CountOf(p.messages, "unsupported")
                        + (IF PendingStatus(p.pending) = "unsupported" THEN 1 ELSE 0)
             c == f.malformed + (IF PendingStatus(p.pending) = "malformed" THEN 1 ELSE 0)
             t == PendingStatus(p.pending)
  <2>1. x \in TCPStreams /\ x.payload = s.payload /\ x.contiguous = s.contiguous /\ x.consumed = p.consumed
    <3>1. p.consumed \in Nat BY <1>4 DEF Parsings
    <3> QED BY <1>1, <3>1 DEF TCPStreams
  <2>2. p.messages \in Seq(Messages) /\ p.pending \in Messages \cup {None} BY <1>4 DEF Parsings
  <2>3. a \in Nat /\ b \in Nat /\ c \in Nat
    <3>1. CountOf(p.messages, "complete") \in Nat /\ CountOf(p.messages, "unsupported") \in Nat
      BY <2>2, CountIs
    <3> QED BY <1>3, <3>1, SMTT(30)
  <2>4. t \in {"ready", "incomplete"} \cup Failed
    <3>1. CASE p.pending = None BY <3>1 DEF PendingStatus
    <3>2. CASE p.pending # None
      <4>1. p.pending.status \in {"complete"} \cup Failures BY <2>2, <3>2 DEF Messages
      <4>2. p.pending.status # "complete" BY <1>4, <3>2
      <4>3. p.pending.status \in {"malformed", "incomplete", "unsupported"} BY <4>1, <4>2 DEF Failures
      <4>4. p.pending.status = "incomplete" => Awaited(p.pending) BY DEF Awaited
      <4> QED BY <3>2, <4>3, <4>4 DEF PendingStatus, Failed
    <3> QED BY <3>1, <3>2
  <2>5. g = [stream |-> x, messages |-> p.messages, pending |-> p.pending, status |-> t,
             complete |-> a, unsupported |-> b, malformed |-> c]
    BY <1>10 DEF Reframed
  <2> HIDE DEF x, a, b, c, t
  <2>6. g \in Framings /\ g.stream = x /\ g.messages = p.messages /\ g.status = t
    BY <2>1, <2>2, <2>3, <2>4, <2>5 DEF Framings
  <2>7. current # None /\ current.status \in Failed => g.status \in Failed
    <3>1. current # None /\ current.status \in Failed => g \in {next, [next EXCEPT !.status = "unavailable"]}
      BY <1>3, <1>5
    <3>2. [next EXCEPT !.status = "unavailable"].status \in Failed BY <1>3 DEF Framings, Failed
    <3> QED BY <1>3, <3>1, <3>2
  <2>8. g.stream.consumed \in s.consumed .. Len(s.payload) /\ Ascending(g.messages, s.consumed, g.stream.consumed)
    BY <1>4, <2>1, <2>6
  <2>9. g.stream.payload = s.payload /\ g.stream.contiguous = s.contiguous BY <2>1, <2>6
  <2>10. g # None BY <1>2, <2>6
  <2> QED BY <1>11, <2>6, <2>7, <2>8, <2>9, <2>10 DEF FramedOnce, g
<1>12. CASE g = None
  <2>1. [next EXCEPT !.status = "unavailable"] \in Framings BY <1>3 DEF Framings, Failed
  <2>2. g # next /\ g # [next EXCEPT !.status = "unavailable"] BY <1>2, <1>3, <1>12, <2>1
  <2>3. g # Reframed(f, s, p) BY <1>10, <1>12
  <2> QED BY <1>5, <1>12, <2>2, <2>3 DEF g
<1> QED BY <1>7, <1>8, <1>9, <1>10, <1>12 DEF g

(* The branches of the framing of a direction.                               *)
Idle(f, s) == [f EXCEPT !.stream = s, !.messages = <<>>]
First(current) == IF current = None THEN Unframed ELSE current
Resting(current, s) ==
    \/ First(current).status \in Failed
    \/ current # None /\ Len(s.payload) = Len(current.stream.payload)
    \/ Waiting(First(current), s)

(* Framing a direction that is already framed, or begins like LDAP: it      *)
(* waits, ends with its stream, or parses on.                               *)
LEMMA FrameDirectionSays ==
    ASSUME NEW current, NEW s, ~ (current = None /\ (s.payload = <<>> \/ Byte(s.payload, 0) # 48))
    PROVE  FrameDirection(current, s) =
             IF ~ s.contiguous THEN [Idle(First(current), s) EXCEPT !.status = "unavailable"]
             ELSE IF Resting(current, s) THEN Idle(First(current), s)
             ELSE Reframed(First(current), s, Parsed(s.payload, s.consumed))
<1> DEFINE f == First(current)
           next == [f EXCEPT !.stream = s, !.messages = <<>>]
           p == Parsed(s.payload, s.consumed)
           g == FrameDirection(current, s)
<1>1. g = IF current = None /\ (s.payload = <<>> \/ Byte(s.payload, 0) # 48) THEN None
          ELSE IF ~s.contiguous THEN [next EXCEPT !.status = "unavailable"]
          ELSE IF f.status \in Failed \/ (current # None /\ Len(s.payload) = Len(current.stream.payload))
                  \/ Waiting(f, s) THEN next
          ELSE Reframed(f, s, p)
  BY DEF FrameDirection, First
<1>2. next = Idle(f, s) BY DEF Idle
<1> HIDE DEF f, next, p, g
<1> QED BY <1>1, <1>2 DEF f, p, g, Resting

(* What an idle direction comes to.                                          *)
LEMMA IdleIs ==
    ASSUME NEW f \in Framings, NEW s
    PROVE  /\ Idle(f, s).stream = s /\ Idle(f, s).messages = <<>> /\ Idle(f, s).status = f.status
           /\ Idle(f, s).pending = f.pending /\ Idle(f, s).complete = f.complete
           /\ LET g == [Idle(f, s) EXCEPT !.status = "unavailable"]
              IN /\ g.stream = s /\ g.messages = <<>> /\ g.status = "unavailable" /\ g.complete = f.complete
<1>1. f = [stream |-> f.stream, messages |-> f.messages, pending |-> f.pending, status |-> f.status,
           complete |-> f.complete, unsupported |-> f.unsupported, malformed |-> f.malformed]
  BY DEF Framings
<1>2. DOMAIN f = {"stream", "messages", "pending", "status", "complete", "unsupported", "malformed"} BY <1>1
<1> QED BY <1>2 DEF Idle

(* A direction is framed as its bytes are, all of them at once.              *)
OfBytes(ms, g, s) ==
    LET p == Parsed(s.payload, 0)
    IN IF g = None THEN ms = <<>> /\ s.consumed = 0 /\ (s.payload = <<>> \/ Byte(s.payload, 0) # 48)
       ELSE /\ g.stream = s /\ ms = p.messages /\ s.consumed = p.consumed
            /\ g.complete = CountOf(p.messages, "complete")
            /\ g.status = IF s.contiguous THEN PendingStatus(p.pending) ELSE "unavailable"
            /\ g.status \notin Failed => g.pending = p.pending

(* More bytes of a stream, of which the same are consumed; a lost one has no *)
(* more.                                                                     *)
GrownTo(s, t) ==
    /\ s \in TCPStreams /\ t \in TCPStreams /\ s.consumed \in 0 .. Len(s.payload) /\ t.consumed = s.consumed
    /\ Begins(s.payload, t.payload) /\ (t.contiguous => s.contiguous)
    /\ ~ t.contiguous => t.payload = s.payload
    /\ Len(t.payload) - t.consumed <= MaxMessage

NewOf(g) == IF g = None THEN <<>> ELSE g.messages
StreamAfter(g, t) == IF g = None THEN t ELSE g.stream

(* A message that leaves its direction failed still stops it when more bytes *)
(* come; and so does one whose bytes are still missing.                      *)
LEMMA StillStopping ==
    ASSUME NEW data, NEW more, Begins(data, more), NEW o \in Nat, o < Len(data),
           Stopping(data, o), Len(more) - o <= MaxMessage,
           NEW m, m = Message(data, o, Len(data)), NEW n, n = Message(more, o, Len(more))
    PROVE  /\ PendingStatus(m) \in Failed => Stopping(more, o) /\ PendingStatus(n) = PendingStatus(m)
           /\ m.length # None /\ Len(more) - o < m.length /\ m.status # "malformed"
              /\ (m.status = "unsupported" \/ m.last) => Stopping(more, o) /\ n = m
<1>1. MessageStays(m, n) BY MessageIsStable
<1>2. Len(data) \in Nat /\ Len(more) \in Nat /\ data \in Seq(Bytes) /\ more \in Seq(Bytes)
  BY LenProperties DEF Begins
<1>3. /\ m \in Messages /\ n \in Messages
      /\ n.whole => n.length \in Nat /\ o + n.length <= Len(more)
      /\ m.status = "complete" => m.whole
  BY <1>2, MessageIs
<1>4. m.status = "malformed" \/ ~ m.whole BY DEF Stopping
<1>5. m # None /\ n # None BY <1>3, NoneAssumption
<1>6. m.length \in Nat \cup {None} /\ n.length \in Nat \cup {None} /\ MaxMessage \in Nat
      /\ m.status \in {"complete", "incomplete", "malformed", "unsupported"}
  BY <1>3, MaxMessageAssumption DEF Messages, Failures
<1>7. ASSUME PendingStatus(m) \in Failed PROVE Stopping(more, o) /\ PendingStatus(n) = PendingStatus(m)
  <2>1. m.status # "incomplete"
    <3>1. "incomplete" \notin Failed BY DEF Failed
    <3> QED BY <1>5, <1>7, <3>1 DEF PendingStatus, Awaited
  <2>2. n.status = m.status /\ n.length = m.length BY <1>1, <2>1 DEF MessageStays, SameFields
  <2>3. PendingStatus(n) = PendingStatus(m) BY <1>5, <2>2 DEF PendingStatus, Awaited
  <2>4. ASSUME m.status # "malformed", n.whole PROVE FALSE
    <3>1. n.length \in Nat /\ o + n.length <= Len(more) BY <1>3, <2>4
    <3>2. m.length # None /\ m.length <= MaxMessage BY <1>2, <1>6, <2>2, <3>1, NoneAssumption
    <3>3. m.status = "unsupported"
      <4>1. m.status # "complete" BY <1>3, <1>4, <2>4
      <4> QED BY <1>6, <2>1, <2>4, <4>1
    <3>4. PendingStatus(m) = "incomplete" BY <1>5, <3>2, <3>3 DEF PendingStatus, Awaited
    <3> QED BY <1>7, <3>4 DEF Failed
  <2> QED BY <2>2, <2>3, <2>4 DEF Stopping
<1>8. ASSUME m.length # None, Len(more) - o < m.length, m.status # "malformed",
             m.status = "unsupported" \/ m.last
      PROVE  Stopping(more, o) /\ n = m
  <2>1. n.length = m.length BY <1>1, <1>8 DEF MessageStays
  <2>2. ~ n.whole
    <3> SUFFICES ASSUME n.whole PROVE FALSE OBVIOUS
    <3>1. n.length \in Nat /\ o + n.length <= Len(more) BY <1>3
    <3> QED BY <1>2, <1>8, <2>1, <3>1
  <2>3. n = m BY <1>1, <1>8, <2>2 DEF MessageStays
  <2> QED BY <2>2, <2>3 DEF Stopping
<1> QED BY <1>7, <1>8

(* Framing a direction once more frames it as all its bytes are; without new *)
(* bytes it gives no new messages.                                           *)
LEMMA FramesOnce ==
    ASSUME NEW ms \in Seq(Messages), NEW g \in Framings \cup {None}, NEW s, NEW t, GrownTo(s, t), OfBytes(ms, g, s)
    PROVE  LET h == FrameDirection(g, t)
           IN /\ OfBytes(ms \o NewOf(h), h, StreamAfter(h, t))
              /\ t.payload = s.payload => NewOf(h) = <<>>
<1> DEFINE h == FrameDirection(g, t)
           data == s.payload
           more == t.payload
           p == Parsed(data, 0)
           all == Parsed(more, 0)
           q == Parsed(more, p.consumed)
           f == First(g)
<1>1. /\ s \in TCPStreams /\ t \in TCPStreams /\ s.consumed \in 0 .. Len(data) /\ t.consumed = s.consumed
      /\ Begins(data, more) /\ (t.contiguous => s.contiguous) /\ (~ t.contiguous => more = data)
      /\ Len(more) - t.consumed <= MaxMessage
  BY DEF GrownTo
<1>2. data \in Seq(Bytes) /\ more \in Seq(Bytes) /\ Len(data) \in Nat /\ Len(more) \in Nat /\ Len(data) <= Len(more)
  BY <1>1, LenProperties DEF Begins
<1>3. 0 \in 0 .. Len(data) /\ 0 \in 0 .. Len(more) BY <1>2
<1>4. /\ p \in Parsings /\ p.consumed \in 0 .. Len(data) /\ EndsWell(data, p)
      /\ all \in Parsings
  <2>1. p \in Parsings /\ p.consumed \in 0 .. Len(data) BY <1>2, <1>3, ParsedIs
  <2>2. all \in Parsings BY <1>2, <1>3, ParsedUnfolds
  <2> QED BY <1>2, <1>3, <2>1, <2>2, ParsedEnds
<1>5. q \in Parsings /\ q = IF p.consumed = Len(more) \/ Stopping(more, p.consumed) THEN Stopped(more, p.consumed)
                            ELSE Further(more, p.consumed,
                                         Parsed(more, p.consumed + Message(more, p.consumed, Len(more)).length))
  <2>1. p.consumed \in 0 .. Len(more) BY <1>2, <1>4
  <2> HIDE DEF p, more
  <2> QED BY <1>2, <2>1, ParsedUnfolds
<1>6. all = Continuing(p, q) BY <1>1, <1>3, ParsedGrows
<1>7. ms \o <<>> = ms OBVIOUS
<1>8. h = None => g = None /\ (more = <<>> \/ Byte(more, 0) # 48)
  <2>1. t.consumed \in 0 .. Len(t.payload) BY <1>1, <1>2
  <2> QED BY <1>1, <2>1, FrameDirectionIs
<1>9. g = None /\ (more = <<>> \/ Byte(more, 0) # 48) => h = None BY DEF FrameDirection
<1>10. ~ (g = None /\ (more = <<>> \/ Byte(more, 0) # 48)) =>
         h = IF ~ t.contiguous THEN [Idle(f, t) EXCEPT !.status = "unavailable"]
             ELSE IF Resting(g, t) THEN Idle(f, t)
             ELSE Reframed(f, t, Parsed(more, t.consumed))
  BY FrameDirectionSays
<1>11. OfBytes(ms, g, s) OBVIOUS
<1> HIDE DEF h, f
<1>12. CASE h = None
  <2>1. g = None /\ (more = <<>> \/ Byte(more, 0) # 48) BY <1>8, <1>12
  <2>2. ms = <<>> /\ t.consumed = 0 BY <1>1, <1>11, <2>1 DEF OfBytes
  <2>3. NewOf(h) = <<>> /\ StreamAfter(h, t) = t BY <1>12 DEF NewOf, StreamAfter
  <2>4. OfBytes(ms \o NewOf(h), h, StreamAfter(h, t)) BY <1>7, <1>12, <2>1, <2>2, <2>3 DEF OfBytes
  <2> QED BY <2>3, <2>4 DEF h
<1>13. CASE h # None /\ g = None
  <2>1. more # <<>> /\ Byte(more, 0) = 48 BY <1>9, <1>13
  <2>2. ms = <<>> /\ t.consumed = 0 /\ (data = <<>> \/ Byte(data, 0) # 48) BY <1>1, <1>11, <1>13 DEF OfBytes
  <2>3. data # more BY <2>1, <2>2
  <2>4. t.contiguous BY <1>1, <2>3
  <2>5. f = Unframed BY <1>13 DEF f, First
  <2>6. ~ Resting(g, t)
    <3>1. Unframed.status = "ready" /\ Unframed.pending = None BY DEF Unframed
    <3>2. First(g) = Unframed BY <2>5 DEF f
    <3> QED BY <1>13, <3>1, <3>2 DEF Resting, Failed, Waiting
  <2>7. h = Reframed(Unframed, t, all) BY <1>10, <1>13, <2>1, <2>2, <2>4, <2>5, <2>6
  <2>8. /\ h.stream = [t EXCEPT !.consumed = all.consumed]
        /\ h.messages = all.messages /\ h.pending = all.pending /\ h.status = PendingStatus(all.pending)
        /\ h.complete = 0 + CountOf(all.messages, "complete")
    <3>1. Unframed.complete = 0 BY DEF Unframed
    <3> HIDE DEF all
    <3> QED BY <2>7, <3>1 DEF Reframed
  <2>9. /\ h.stream.payload = more /\ h.stream.consumed = all.consumed /\ h.stream.contiguous = t.contiguous
    BY <1>1, <2>8 DEF TCPStreams
  <2>10. CountOf(all.messages, "complete") \in Nat
    <3>1. all.messages \in Seq(Messages) BY <1>4 DEF Parsings
    <3> HIDE DEF all
    <3> QED BY <3>1, CountIs
  <2>11. NewOf(h) = all.messages /\ StreamAfter(h, t) = h.stream BY <1>13, <2>8 DEF NewOf, StreamAfter
  <2>12. ms \o NewOf(h) = all.messages
    <3>1. all.messages \in Seq(Messages) BY <1>4 DEF Parsings
    <3>2. ms = <<>> BY <2>2
    <3> HIDE DEF all
    <3> QED BY <2>11, <3>1, <3>2
  <2>13. OfBytes(all.messages, h, h.stream)
    <3>1. Parsed(h.stream.payload, 0) = all BY <2>9
    <3>2. h.complete = CountOf(all.messages, "complete") BY <2>8, <2>10
    <3> HIDE DEF all
    <3> QED BY <1>13, <2>4, <2>8, <2>9, <3>1, <3>2 DEF OfBytes
  <2> QED BY <2>3, <2>11, <2>12, <2>13 DEF h
<1>14. CASE g # None
  <2>1. g \in Framings /\ f = g /\ h # None BY <1>8, <1>14 DEF f, First
  <2>2. /\ g.stream = s /\ ms = p.messages /\ s.consumed = p.consumed
        /\ g.complete = CountOf(p.messages, "complete")
        /\ g.status = IF s.contiguous THEN PendingStatus(p.pending) ELSE "unavailable"
        /\ g.status \notin Failed => g.pending = p.pending
    BY <1>11, <1>14 DEF OfBytes
  <2>3. h = IF ~ t.contiguous THEN [Idle(g, t) EXCEPT !.status = "unavailable"]
            ELSE IF Resting(g, t) THEN Idle(g, t)
            ELSE Reframed(g, t, q)
    BY <1>1, <1>10, <1>14, <2>1, <2>2
  <2>4. p.messages \in Seq(Messages) /\ q.messages \in Seq(Messages) BY <1>4, <1>5 DEF Parsings
  <2> DEFINE idle == Idle(g, t)
             lost == [idle EXCEPT !.status = "unavailable"]
  <2>5. /\ idle.stream = t /\ idle.messages = <<>> /\ idle.status = g.status
        /\ idle.pending = g.pending /\ idle.complete = g.complete
        /\ lost.stream = t /\ lost.messages = <<>> /\ lost.status = "unavailable" /\ lost.complete = g.complete
    BY <2>1, IdleIs
  <2> HIDE DEF idle, lost, p, q, all, data, more
  <2>6. CASE ~ t.contiguous
    <3>1. h = lost BY <2>3, <2>6 DEF lost, idle
    <3>2. all = p BY <1>1, <2>6 DEF all, p
    <3>3. "unavailable" \in Failed BY DEF Failed
    <3>4. NewOf(h) = <<>> /\ StreamAfter(h, t) = t BY <2>1, <2>5, <3>1 DEF NewOf, StreamAfter
    <3>5. OfBytes(ms, h, t)
      <4>1. Parsed(t.payload, 0) = p BY <3>2 DEF all, more
      <4> QED BY <1>1, <2>1, <2>2, <2>5, <2>6, <3>1, <3>3, <4>1 DEF OfBytes
    <3>6. OfBytes(ms \o NewOf(h), h, StreamAfter(h, t)) BY <1>7, <3>4, <3>5
    <3> QED BY <3>4, <3>6 DEF h
  <2>7. CASE t.contiguous /\ Resting(g, t)
    <3>1. h = idle BY <2>3, <2>7 DEF idle
    <3>2. s.contiguous /\ g.status = PendingStatus(p.pending) BY <1>1, <2>2, <2>7
    <3>3. /\ all.messages = p.messages /\ all.consumed = p.consumed
          /\ PendingStatus(all.pending) = PendingStatus(p.pending)
          /\ g.status \notin Failed => all.pending = p.pending
      <4>1. CASE Len(more) = Len(g.stream.payload)
        <5>1. Len(more) = Len(data) BY <2>2, <4>1 DEF data
        <5>2. more = data
          <6>1. \A i \in 1 .. Len(data) : more[i] = data[i] BY <1>1 DEF Begins
          <6>2. data = [i \in 1 .. Len(data) |-> data[i]] /\ more = [i \in 1 .. Len(more) |-> more[i]] BY <1>2
          <6> QED BY <5>1, <6>1, <6>2
        <5>3. all = p BY <5>2 DEF all, p
        <5> QED BY <5>3
      <4>2. CASE Len(more) # Len(g.stream.payload)
        <5>1. g.status \in Failed \/ Waiting(g, t) BY <2>1, <2>7, <4>2 DEF Resting, f, more
        <5> DEFINE o == p.consumed
                   m == Message(data, o, Len(data))
                   n == Message(more, o, Len(more))
        <5>2. p.pending # None
          <6>1. CASE g.status \in Failed
            <7> SUFFICES ASSUME p.pending = None PROVE FALSE OBVIOUS
            <7>1. g.status = "ready" BY <3>2 DEF PendingStatus
            <7> QED BY <6>1, <7>1 DEF Failed
          <6>2. CASE g.status \notin Failed BY <2>2, <5>1, <6>2 DEF Waiting
          <6> QED BY <6>1, <6>2
        <5>3. o # Len(data) /\ Stopping(data, o) /\ p.pending = m BY <1>4, <5>2 DEF EndsWell
        <5>4. o \in Nat /\ o < Len(data) /\ o # Len(more) BY <1>2, <1>4, <5>3
        <5>5. Len(more) - o <= MaxMessage BY <1>1, <2>2
        <5> HIDE DEF o, m, n
        <5>6. /\ PendingStatus(m) \in Failed => Stopping(more, o) /\ PendingStatus(n) = PendingStatus(m)
              /\ m.length # None /\ Len(more) - o < m.length /\ m.status # "malformed"
                 /\ (m.status = "unsupported" \/ m.last) => Stopping(more, o) /\ n = m
          BY <1>1, <5>3, <5>4, <5>5, StillStopping DEF m, n
        <5>7. Stopping(more, o) /\ PendingStatus(n) = PendingStatus(m) /\ (g.status \notin Failed => n = m)
          <6>1. CASE g.status \in Failed BY <3>2, <5>3, <5>6, <6>1
          <6>2. CASE g.status \notin Failed
            <7>1. Waiting(g, t) /\ g.pending = m BY <2>2, <5>1, <5>3, <6>2
            <7>2. /\ m.length # None /\ (m.status = "unsupported" \/ m.last)
                  /\ Len(more) - o < m.length
              <8>1. t.consumed = o BY <1>1, <2>2 DEF o
              <8> QED BY <7>1, <8>1 DEF Waiting, more
            <7>3. m.status # "malformed"
              <8> SUFFICES ASSUME m.status = "malformed" PROVE FALSE OBVIOUS
              <8>1. g.status = "malformed" BY <3>2, <5>2, <5>3 DEF PendingStatus, Awaited
              <8> QED BY <6>2, <8>1 DEF Failed
            <7> QED BY <5>6, <7>2, <7>3
          <6> QED BY <6>1, <6>2
        <5>8. q = Stopped(more, o) BY <1>5, <5>7 DEF o
        <5>9. q.messages = <<>> /\ q.consumed = o /\ q.pending = n BY <5>4, <5>8 DEF Stopped, n
        <5>10. all.messages = p.messages \o q.messages /\ all.pending = q.pending /\ all.consumed = q.consumed
          BY <1>6 DEF Continuing
        <5>11. p.messages \o <<>> = p.messages BY <2>4
        <5> QED BY <5>3, <5>7, <5>9, <5>10, <5>11 DEF o
      <4> QED BY <4>1, <4>2
    <3>4. NewOf(h) = <<>> /\ StreamAfter(h, t) = t BY <2>1, <2>5, <3>1 DEF NewOf, StreamAfter
    <3>5. OfBytes(ms, h, t)
      <4>1. Parsed(t.payload, 0) = all BY DEF all, more
      <4>2. t.consumed = all.consumed BY <1>1, <2>2, <3>3
      <4>3. h.complete = CountOf(all.messages, "complete") /\ ms = all.messages BY <2>2, <2>5, <3>1, <3>3
      <4>4. h.status = PendingStatus(all.pending) BY <2>5, <3>1, <3>2, <3>3
      <4>5. h.status \notin Failed => h.pending = all.pending BY <2>2, <2>5, <3>1, <3>3
      <4>6. h.stream = t BY <2>5, <3>1
      <4> QED BY <2>1, <2>7, <4>1, <4>2, <4>3, <4>4, <4>5, <4>6 DEF OfBytes
    <3>6. OfBytes(ms \o NewOf(h), h, StreamAfter(h, t)) BY <1>7, <3>4, <3>5
    <3> QED BY <3>4, <3>6 DEF h
  <2>8. CASE t.contiguous /\ ~ Resting(g, t)
    <3>1. h = Reframed(g, t, q) BY <2>3, <2>8
    <3>2. /\ h.stream = [t EXCEPT !.consumed = q.consumed]
          /\ h.messages = q.messages /\ h.pending = q.pending /\ h.status = PendingStatus(q.pending)
          /\ h.complete = g.complete + CountOf(q.messages, "complete")
      <4>1. t \in TCPStreams BY <1>1
      <4> DEFINE x == Reframed(g, t, q)
      <4>2. /\ x.stream = [t EXCEPT !.consumed = q.consumed]
            /\ x.messages = q.messages /\ x.pending = q.pending
            /\ x.status = PendingStatus(q.pending)
            /\ x.complete = g.complete + CountOf(q.messages, "complete")
        BY DEF Reframed
      <4>3. h = x BY <3>1
      <4> HIDE DEF x
      <4> QED BY <4>2, <4>3
    <3>3. h.stream.payload = more /\ h.stream.consumed = q.consumed /\ h.stream.contiguous = t.contiguous
      BY <1>1, <3>2 DEF TCPStreams, more
    <3>4. all.messages = p.messages \o q.messages /\ all.pending = q.pending /\ all.consumed = q.consumed
      BY <1>6 DEF Continuing
    <3>5. NewOf(h) = q.messages /\ StreamAfter(h, t) = h.stream BY <2>1, <3>2 DEF NewOf, StreamAfter
    <3>6. ms \o NewOf(h) = all.messages BY <2>2, <3>4, <3>5
    <3>7. h.complete = CountOf(all.messages, "complete")
      <4>1. CountOf(p.messages \o q.messages, "complete")
              = CountOf(p.messages, "complete") + CountOf(q.messages, "complete")
        BY <2>4, CountsAdd
      <4> QED BY <2>2, <3>2, <3>4, <4>1
    <3>8. OfBytes(all.messages, h, h.stream)
      <4>1. Parsed(h.stream.payload, 0) = all BY <3>3 DEF all
      <4>2. h.status = PendingStatus(all.pending) /\ h.pending = all.pending BY <3>2, <3>4
      <4>3. h.stream.consumed = all.consumed /\ h.stream.contiguous BY <2>8, <3>3, <3>4
      <4> QED BY <2>1, <3>7, <4>1, <4>2, <4>3 DEF OfBytes
    <3>9. more # data
      <4>1. Len(more) # Len(data) BY <1>14, <2>2, <2>8 DEF Resting, more, data
      <4> QED BY <4>1
    <3> QED BY <3>5, <3>6, <3>8, <3>9 DEF h, more, data
  <2> QED BY <2>6, <2>7, <2>8
<1> QED BY <1>12, <1>13, <1>14

-----------------------------------------------------------------------------
(* The correlation of one message keeps the types.                           *)

(* What is observed of a message, and of a request with a summary.           *)
LEMMA ObservationsAre ==
    ASSUME NEW d \in Directions, NEW m \in Messages, NEW status \in Outcomes,
           NEW request \in Messages \cup {None}, NEW summary \in Summaries \cup {None}
    PROVE  /\ Observation(d, m, status, request, summary) \in Observations
           /\ summary \in Summaries => Observation(d, m, status, request, summary) \in Requests
BY DEF Observation, Observations, Requests

(* A request stays one when it is marked, answered or left over.             *)
LEMMA RequestsAre ==
    ASSUME NEW r \in Requests
    PROVE  /\ r \in Observations /\ r.summary \in Summaries
           /\ MarkAmbiguous(r) \in Requests /\ MarkAmbiguous(r).summary \in Summaries
           /\ Unresolved(r) \in Requests
           /\ \A b \in BOOLEAN : /\ Responded(r.summary, b) \in Summaries
                                 /\ [r EXCEPT !.summary = Responded(r.summary, b)] \in Requests
<1>1. r \in Observations /\ r.summary \in Summaries BY DEF Requests
<1>3. /\ [r.summary EXCEPT !.status = "ambiguous"] \in Summaries
      /\ [r.summary EXCEPT !.status = "unresolved"] \in Summaries
  BY <1>1 DEF Summaries
<1>0. "ambiguous" \in Outcomes /\ "unresolved" \in Outcomes BY DEF Outcomes
<1>4. MarkAmbiguous(r) \in Requests
  <2> DEFINE x == [r.summary EXCEPT !.status = "ambiguous"]
  <2>1. MarkAmbiguous(r) = [r EXCEPT !.status = "ambiguous", !.summary = x]
    BY <1>1 DEF MarkAmbiguous
  <2> HIDE DEF x
  <2>2. x \in Summaries BY <1>3 DEF x
  <2>4. [r EXCEPT !.status = "ambiguous", !.summary = x] \in Requests
    BY <1>0, <1>1, <2>2 DEF Observations, Requests
  <2> QED BY <2>1, <2>4
<1>5. Unresolved(r) \in Requests
  <2> DEFINE x == [r.summary EXCEPT !.status = "unresolved"]
  <2>1. r.status = "pending" => Unresolved(r) = [r EXCEPT !.status = "unresolved", !.summary = x]
    BY <1>1 DEF Unresolved
  <2> HIDE DEF x
  <2>2. x \in Summaries BY <1>3 DEF x
  <2>3. r.status # "pending" => Unresolved(r) = r BY DEF Unresolved
  <2>4. [r EXCEPT !.status = "unresolved", !.summary = x] \in Requests
    BY <1>0, <1>1, <2>2 DEF Observations, Requests
  <2> QED BY <2>1, <2>3, <2>4
<1>6. ASSUME NEW b \in BOOLEAN
      PROVE  /\ Responded(r.summary, b) \in Summaries
             /\ [r EXCEPT !.summary = Responded(r.summary, b)] \in Requests
  <2> DEFINE x == Responded(r.summary, b)
  <2>1. x \in Summaries BY <1>1 DEF Responded, Summaries
  <2> HIDE DEF x
  <2>2. [r EXCEPT !.summary = x] \in Requests BY <1>1, <2>1 DEF Observations, Requests
  <2> QED BY <2>1, <2>2 DEF x
<1>7. MarkAmbiguous(r).summary \in Summaries BY <1>4 DEF Requests
<1> QED BY <1>1, <1>4, <1>5, <1>6, <1>7

(* The fields of a correlation.                                              *)
Has(c, requests, observations, matched, unmatched, ambiguous, non_correlatable, reason) ==
    /\ c \in Correlations
    /\ c.requests = requests /\ c.observations = observations /\ c.matched = matched
    /\ c.unmatched = unmatched /\ c.ambiguous = ambiguous
    /\ c.non_correlatable = non_correlatable /\ c.reason = reason

(* The fields of a correlation.                                              *)
LEMMA CorrelationsAre ==
    ASSUME NEW c \in Correlations
    PROVE  /\ c.requests \in SUBSET Requests /\ c.observations \in Seq(Observations)
           /\ c.matched \in Nat /\ c.unmatched \in Nat /\ c.ambiguous \in Nat
           /\ c.non_correlatable \in Nat
           /\ c.reason \in {None, "limit exceeded", "stream unavailable"} /\ c.finalized \in BOOLEAN
           /\ Has(c, c.requests, c.observations, c.matched, c.unmatched, c.ambiguous,
                  c.non_correlatable, c.reason)
BY DEF Correlations, Has

(* Observing one more message changes the observations alone.                *)
LEMMA ObservedIs ==
    ASSUME NEW rs, NEW os, NEW ma, NEW un, NEW am, NEW no, NEW re, NEW b, NEW o \in Observations,
           Has(b, rs, os, ma, un, am, no, re)
    PROVE  Has(Observed(b, o), rs, Append(os, o), ma, un, am, no, re)
<1>1. b \in Correlations /\ os = b.observations BY DEF Has
<1>2. os \in Seq(Observations) BY <1>1 DEF Correlations
<1>3. Append(os, o) \in Seq(Observations) BY <1>2, AppendProperties
<1>4. Observed(b, o) = [b EXCEPT !.observations = Append(os, o)] BY <1>1 DEF Observed
<1> DEFINE x == Append(os, o)
<1> HIDE DEF x
<1>5. [b EXCEPT !.observations = x] \in Correlations BY <1>1, <1>3 DEF Correlations, x
<1>6. Has([b EXCEPT !.observations = x], rs, x, ma, un, am, no, re) BY <1>1, <1>5 DEF Correlations, Has
<1> QED BY <1>4, <1>6 DEF x

(* The changes that the table makes to a correlation, field by field.        *)
LEMMA ChangedIs ==
    ASSUME NEW c \in Correlations, NEW n \in Nat, NEW rs \in SUBSET Requests,
           NEW re \in {None, "limit exceeded", "stream unavailable"}
    PROVE  /\ Has([c EXCEPT !.non_correlatable = n, !.requests = rs], rs, c.observations,
                  c.matched, c.unmatched, c.ambiguous, n, c.reason)
           /\ Has([c EXCEPT !.ambiguous = n, !.requests = rs], rs, c.observations,
                  c.matched, c.unmatched, n, c.non_correlatable, c.reason)
           /\ Has([c EXCEPT !.matched = n, !.requests = rs], rs, c.observations,
                  n, c.unmatched, c.ambiguous, c.non_correlatable, c.reason)
           /\ Has([c EXCEPT !.unmatched = n], c.requests, c.observations,
                  c.matched, n, c.ambiguous, c.non_correlatable, c.reason)
           /\ Has([c EXCEPT !.ambiguous = n], c.requests, c.observations,
                  c.matched, c.unmatched, n, c.non_correlatable, c.reason)
           /\ Has([c EXCEPT !.requests = rs], rs, c.observations,
                  c.matched, c.unmatched, c.ambiguous, c.non_correlatable, c.reason)
           /\ Has([c EXCEPT !.reason = re], c.requests, c.observations,
                  c.matched, c.unmatched, c.ambiguous, c.non_correlatable, re)
BY DEF Has, Correlations

(* What each kind of message does.                                           *)
LEMMA BranchesAre ==
    ASSUME NEW c \in Correlations, NEW d \in Directions, NEW m \in Messages
    PROVE  /\ LET repeated == IF c.reason = None /\ m.status = "unsupported" THEN Pending(c, d, m.id) ELSE {}
              IN Has(NonCorrelatable(c, d, m),
                     (c.requests \ repeated) \cup {MarkAmbiguous(r) : r \in repeated},
                     Append(c.observations, Observation(d, m, "non_correlatable", None, None)),
                     c.matched, c.unmatched, c.ambiguous, c.non_correlatable + 1, c.reason)
           /\ Has(RequestUnavailable(c, d, m), c.requests,
                  Append(c.observations, Observation(d, m, "unresolved", m, StartSummary("unresolved"))),
                  c.matched, c.unmatched, c.ambiguous, c.non_correlatable, c.reason)
           /\ Pending(c, d, m.id) # {} =>
                \E r \in Pending(c, d, m.id) :
                  Has(RequestRepeated(c, d, m), (c.requests \ {r}) \cup {MarkAmbiguous(r)},
                      Append(c.observations,
                             Observation(d, m, "ambiguous", r.message, MarkAmbiguous(r).summary)),
                      c.matched, c.unmatched, c.ambiguous + 1, c.non_correlatable, c.reason)
           /\ Has(RequestOverflows(c, d, m), c.requests,
                  Append(c.observations, Observation(d, m, "unresolved", m, StartSummary("unresolved"))),
                  c.matched, c.unmatched, c.ambiguous, c.non_correlatable, "limit exceeded")
           /\ LET r == Observation(d, m, "pending", m, StartSummary("pending"))
              IN Has(RequestOutstanding(c, d, m), c.requests \cup {r}, Append(c.observations, r),
                     c.matched, c.unmatched, c.ambiguous, c.non_correlatable, c.reason)
           /\ Has(ResponseUnmatched(c, d, m), c.requests,
                  Append(c.observations, Observation(d, m, "unmatched", None, None)),
                  c.matched, c.unmatched + 1, c.ambiguous, c.non_correlatable, c.reason)
           /\ Has(ResponseAmbiguous(c, d, m), c.requests,
                  Append(c.observations, Observation(d, m, "ambiguous", None, None)),
                  c.matched, c.unmatched, c.ambiguous + 1, c.non_correlatable, c.reason)
           /\ \A r \in Requests :
                LET terminal == m.operation \notin SearchContinuations
                    summary == Responded(r.summary, terminal)
                IN Has(ResponseMatched(c, d, m, r),
                       (c.requests \ {r}) \cup (IF terminal THEN {} ELSE {[r EXCEPT !.summary = summary]}),
                       Append(c.observations,
                              Observation(d, m, "matched", r.message, IF terminal THEN summary ELSE None)),
                       c.matched + 1, c.unmatched, c.ambiguous, c.non_correlatable, c.reason)
<1>1. /\ c.requests \in SUBSET Requests
      /\ c.matched \in Nat /\ c.unmatched \in Nat /\ c.ambiguous \in Nat /\ c.non_correlatable \in Nat
      /\ Has(c, c.requests, c.observations, c.matched, c.unmatched, c.ambiguous,
             c.non_correlatable, c.reason)
  BY CorrelationsAre
<1>2. \A id, e : Pending(c, e, id) \subseteq Requests BY <1>1 DEF Pending
<1>3. {"pending", "matched", "unmatched", "ambiguous", "unresolved", "non_correlatable"} \subseteq Outcomes
      /\ StartSummary("pending") \in Summaries /\ StartSummary("unresolved") \in Summaries
  BY DEF Outcomes, StartSummary, Summaries
<1>4. /\ c.matched + 1 \in Nat /\ c.unmatched + 1 \in Nat /\ c.ambiguous + 1 \in Nat
      /\ c.non_correlatable + 1 \in Nat
  BY <1>1
<1>5. LET repeated == IF c.reason = None /\ m.status = "unsupported" THEN Pending(c, d, m.id) ELSE {}
      IN Has(NonCorrelatable(c, d, m),
             (c.requests \ repeated) \cup {MarkAmbiguous(r) : r \in repeated},
             Append(c.observations, Observation(d, m, "non_correlatable", None, None)),
             c.matched, c.unmatched, c.ambiguous, c.non_correlatable + 1, c.reason)
  <2> DEFINE repeated == IF c.reason = None /\ m.status = "unsupported" THEN Pending(c, d, m.id) ELSE {}
             requests == (c.requests \ repeated) \cup {MarkAmbiguous(r) : r \in repeated}
             n == c.non_correlatable + 1
             b == [c EXCEPT !.non_correlatable = n, !.requests = requests]
             o == Observation(d, m, "non_correlatable", None, None)
  <2>1. requests \in SUBSET Requests
    <3>1. repeated \subseteq Requests BY <1>2
    <3>2. \A r \in Requests : MarkAmbiguous(r) \in Requests BY RequestsAre
    <3> HIDE DEF repeated
    <3> QED BY <1>1, <3>1, <3>2
  <2>2. NonCorrelatable(c, d, m) = Observed(b, o) BY DEF NonCorrelatable
  <2>3. o \in Observations BY <1>3, ObservationsAre
  <2>4. n \in Nat BY <1>4
  <2> HIDE DEF requests, n
  <2>5. Has(b, requests, c.observations, c.matched, c.unmatched, c.ambiguous, n, c.reason)
    BY <2>1, <2>4, ChangedIs
  <2> HIDE DEF b, o
  <2>6. Has(NonCorrelatable(c, d, m), requests, Append(c.observations, o), c.matched, c.unmatched,
            c.ambiguous, n, c.reason)
    BY <2>2, <2>3, <2>5, ObservedIs
  <2> QED BY <2>6 DEF requests, o, n
<1>6. Has(RequestUnavailable(c, d, m), c.requests,
          Append(c.observations, Observation(d, m, "unresolved", m, StartSummary("unresolved"))),
          c.matched, c.unmatched, c.ambiguous, c.non_correlatable, c.reason)
  <2>1. Observation(d, m, "unresolved", m, StartSummary("unresolved")) \in Observations
    BY <1>3, ObservationsAre
  <2> QED BY <1>1, <2>1, ObservedIs DEF RequestUnavailable
<1>7. ASSUME Pending(c, d, m.id) # {}
      PROVE  \E r \in Pending(c, d, m.id) :
                  Has(RequestRepeated(c, d, m), (c.requests \ {r}) \cup {MarkAmbiguous(r)},
                      Append(c.observations,
                             Observation(d, m, "ambiguous", r.message, MarkAmbiguous(r).summary)),
                      c.matched, c.unmatched, c.ambiguous + 1, c.non_correlatable, c.reason)
  <2> DEFINE previous == CHOOSE r \in Pending(c, d, m.id) : TRUE
             requests == (c.requests \ {previous}) \cup {MarkAmbiguous(previous)}
             n == c.ambiguous + 1
             b == [c EXCEPT !.ambiguous = n, !.requests = requests]
             o == Observation(d, m, "ambiguous", previous.message, MarkAmbiguous(previous).summary)
  <2>0. previous \in Pending(c, d, m.id) BY <1>7
  <2>1. previous \in Requests BY <1>2, <2>0
  <2>5. RequestRepeated(c, d, m) = Observed(b, o) BY DEF RequestRepeated
  <2> HIDE DEF previous
  <2>2. MarkAmbiguous(previous) \in Requests /\ MarkAmbiguous(previous).summary \in Summaries
    BY <2>1, RequestsAre
  <2>3. previous.message \in Messages BY <2>1 DEF Requests, Observations
  <2>4. requests \in SUBSET Requests BY <1>1, <2>2
  <2>6. o \in Observations BY <1>3, <2>2, <2>3, ObservationsAre
  <2>7. n \in Nat BY <1>4
  <2> HIDE DEF requests, n
  <2>8. Has(b, requests, c.observations, c.matched, c.unmatched, n, c.non_correlatable, c.reason)
    BY <2>4, <2>7, ChangedIs
  <2> HIDE DEF b, o
  <2>9. Has(RequestRepeated(c, d, m), requests, Append(c.observations, o), c.matched, c.unmatched,
            n, c.non_correlatable, c.reason)
    BY <2>5, <2>6, <2>8, ObservedIs
  <2> QED BY <2>0, <2>9 DEF requests, o, n
<1>8. Has(RequestOverflows(c, d, m), c.requests,
          Append(c.observations, Observation(d, m, "unresolved", m, StartSummary("unresolved"))),
          c.matched, c.unmatched, c.ambiguous, c.non_correlatable, "limit exceeded")
  <2> DEFINE b == [c EXCEPT !.reason = "limit exceeded"]
             o == Observation(d, m, "unresolved", m, StartSummary("unresolved"))
  <2>1. o \in Observations BY <1>3, ObservationsAre
  <2>2. Has(b, c.requests, c.observations, c.matched, c.unmatched, c.ambiguous, c.non_correlatable,
            "limit exceeded")
    <3>1. \A re \in {None, "limit exceeded", "stream unavailable"} :
              Has([c EXCEPT !.reason = re], c.requests, c.observations,
                  c.matched, c.unmatched, c.ambiguous, c.non_correlatable, re)
      <4>1. 0 \in Nat /\ {} \in SUBSET Requests OBVIOUS
      <4> QED BY <4>1, ChangedIs
    <3> QED BY <3>1
  <2>3. RequestOverflows(c, d, m) = Observed(b, o) BY DEF RequestOverflows
  <2> HIDE DEF b, o
  <2>4. Has(RequestOverflows(c, d, m), c.requests, Append(c.observations, o), c.matched, c.unmatched,
            c.ambiguous, c.non_correlatable, "limit exceeded")
    BY <2>1, <2>2, <2>3, ObservedIs
  <2> QED BY <2>4 DEF o
<1>9. LET r == Observation(d, m, "pending", m, StartSummary("pending"))
      IN Has(RequestOutstanding(c, d, m), c.requests \cup {r}, Append(c.observations, r),
             c.matched, c.unmatched, c.ambiguous, c.non_correlatable, c.reason)
  <2> DEFINE o == Observation(d, m, "pending", m, StartSummary("pending"))
             requests == c.requests \cup {o}
             b == [c EXCEPT !.requests = requests]
  <2>1. o \in Observations /\ o \in Requests BY <1>3, ObservationsAre
  <2>2. RequestOutstanding(c, d, m) = Observed(b, o) BY DEF RequestOutstanding
  <2> HIDE DEF o
  <2>3. requests \in SUBSET Requests BY <1>1, <2>1
  <2> HIDE DEF requests
  <2>4. Has(b, requests, c.observations, c.matched, c.unmatched, c.ambiguous, c.non_correlatable, c.reason)
    BY <1>1, <2>3, ChangedIs
  <2> HIDE DEF b
  <2>5. Has(RequestOutstanding(c, d, m), requests, Append(c.observations, o), c.matched, c.unmatched,
            c.ambiguous, c.non_correlatable, c.reason)
    BY <2>1, <2>2, <2>4, ObservedIs
  <2> QED BY <2>5 DEF o, requests
<1>10. Has(ResponseUnmatched(c, d, m), c.requests,
           Append(c.observations, Observation(d, m, "unmatched", None, None)),
           c.matched, c.unmatched + 1, c.ambiguous, c.non_correlatable, c.reason)
  <2> DEFINE n == c.unmatched + 1
             b == [c EXCEPT !.unmatched = n]
             o == Observation(d, m, "unmatched", None, None)
  <2>1. o \in Observations BY <1>3, ObservationsAre
  <2>2. ResponseUnmatched(c, d, m) = Observed(b, o) BY DEF ResponseUnmatched
  <2>3. n \in Nat BY <1>4
  <2> HIDE DEF n
  <2>4. Has(b, c.requests, c.observations, c.matched, n, c.ambiguous, c.non_correlatable, c.reason)
    BY <1>1, <2>3, ChangedIs
  <2> HIDE DEF b, o
  <2>5. Has(ResponseUnmatched(c, d, m), c.requests, Append(c.observations, o), c.matched, n,
            c.ambiguous, c.non_correlatable, c.reason)
    BY <2>1, <2>2, <2>4, ObservedIs
  <2> QED BY <2>5 DEF o, n
<1>11. Has(ResponseAmbiguous(c, d, m), c.requests,
           Append(c.observations, Observation(d, m, "ambiguous", None, None)),
           c.matched, c.unmatched, c.ambiguous + 1, c.non_correlatable, c.reason)
  <2> DEFINE n == c.ambiguous + 1
             b == [c EXCEPT !.ambiguous = n]
             o == Observation(d, m, "ambiguous", None, None)
  <2>1. o \in Observations BY <1>3, ObservationsAre
  <2>2. ResponseAmbiguous(c, d, m) = Observed(b, o) BY DEF ResponseAmbiguous
  <2>3. n \in Nat BY <1>4
  <2> HIDE DEF n
  <2>4. Has(b, c.requests, c.observations, c.matched, c.unmatched, n, c.non_correlatable, c.reason)
    BY <1>1, <2>3, ChangedIs
  <2> HIDE DEF b, o
  <2>5. Has(ResponseAmbiguous(c, d, m), c.requests, Append(c.observations, o), c.matched, c.unmatched,
            n, c.non_correlatable, c.reason)
    BY <2>1, <2>2, <2>4, ObservedIs
  <2> QED BY <2>5 DEF o, n
<1>12. ASSUME NEW r \in Requests
       PROVE  LET terminal == m.operation \notin SearchContinuations
                  summary == Responded(r.summary, terminal)
              IN Has(ResponseMatched(c, d, m, r),
                     (c.requests \ {r}) \cup (IF terminal THEN {} ELSE {[r EXCEPT !.summary = summary]}),
                     Append(c.observations,
                            Observation(d, m, "matched", r.message, IF terminal THEN summary ELSE None)),
                     c.matched + 1, c.unmatched, c.ambiguous, c.non_correlatable, c.reason)
  <2> DEFINE terminal == m.operation \notin SearchContinuations
             summary == Responded(r.summary, terminal)
             requests == (c.requests \ {r}) \cup
                           (IF terminal THEN {} ELSE {[r EXCEPT !.summary = summary]})
             n == c.matched + 1
             b == [c EXCEPT !.matched = n, !.requests = requests]
             given == IF terminal THEN summary ELSE None
             o == Observation(d, m, "matched", r.message, given)
  <2>1. terminal \in BOOLEAN OBVIOUS
  <2>2. summary \in Summaries /\ [r EXCEPT !.summary = summary] \in Requests
    <3> HIDE DEF terminal
    <3> QED BY <2>1, RequestsAre
  <2>3. r.message \in Messages BY DEF Requests, Observations
  <2>4. requests \in SUBSET Requests BY <1>1, <2>2
  <2>5. ResponseMatched(c, d, m, r) = Observed(b, o) BY DEF ResponseMatched
  <2>6. given \in Summaries \cup {None} BY <2>2
  <2>7. n \in Nat BY <1>4
  <2> HIDE DEF requests, summary, terminal, given, n
  <2>8. o \in Observations BY <1>3, <2>3, <2>6, ObservationsAre
  <2>9. Has(b, requests, c.observations, n, c.unmatched, c.ambiguous, c.non_correlatable, c.reason)
    BY <2>4, <2>7, ChangedIs
  <2> HIDE DEF b, o
  <2>10. Has(ResponseMatched(c, d, m, r), requests, Append(c.observations, o), n, c.unmatched,
             c.ambiguous, c.non_correlatable, c.reason)
    BY <2>5, <2>8, <2>9, ObservedIs
  <2> QED BY <2>10 DEF requests, summary, terminal, given, n, o
<1> QED BY <1>5, <1>6, <1>7, <1>8, <1>9, <1>10, <1>11, <1>12

(* Treating a message keeps the shape of a correlation.                      *)
LEMMA CorrelatedIs ==
    ASSUME NEW c \in Correlations, NEW d \in Directions, NEW m \in Messages
    PROVE  Correlated(c, d, m) \in Correlations
<1>1. \A b, rs, os, ma, un, am, no, re : Has(b, rs, os, ma, un, am, no, re) => b \in Correlations
  BY DEF Has
<1>2. NonCorrelatable(c, d, m) \in Correlations BY <1>1, BranchesAre, Zenon
<1>3. RequestUnavailable(c, d, m) \in Correlations BY <1>1, BranchesAre, Zenon
<1>4. Pending(c, d, m.id) # {} => RequestRepeated(c, d, m) \in Correlations
  <2> SUFFICES ASSUME Pending(c, d, m.id) # {} PROVE RequestRepeated(c, d, m) \in Correlations
    OBVIOUS
  <2>1. PICK r \in Pending(c, d, m.id) :
                  Has(RequestRepeated(c, d, m), (c.requests \ {r}) \cup {MarkAmbiguous(r)},
                      Append(c.observations,
                             Observation(d, m, "ambiguous", r.message, MarkAmbiguous(r).summary)),
                      c.matched, c.unmatched, c.ambiguous + 1, c.non_correlatable, c.reason)
    BY BranchesAre
  <2> QED BY <1>1, <2>1, Zenon
<1>5. RequestOverflows(c, d, m) \in Correlations BY <1>1, BranchesAre, Zenon
<1>6. RequestOutstanding(c, d, m) \in Correlations BY <1>1, BranchesAre, Zenon
<1>7. ResponseUnmatched(c, d, m) \in Correlations BY <1>1, BranchesAre, Zenon
<1>8. ResponseAmbiguous(c, d, m) \in Correlations BY <1>1, BranchesAre, Zenon
<1>9. \A r \in Requests : ResponseMatched(c, d, m, r) \in Correlations BY <1>1, BranchesAre, Zenon
<1>10. RequestObserved(c, d, m) \in Correlations BY <1>3, <1>4, <1>5, <1>6 DEF RequestObserved
<1>11. ResponseObserved(c, d, m) \in Correlations
  <2> DEFINE addressed == IF c.reason = None THEN Pending(c, Opposite(d), m.id) ELSE {}
             r == CHOOSE r \in addressed : TRUE
  <2>1. addressed # {} => r \in Requests
    <3>1. addressed \subseteq Requests BY CorrelationsAre DEF Pending
    <3>2. addressed # {} => r \in addressed OBVIOUS
    <3> HIDE DEF addressed, r
    <3> QED BY <3>1, <3>2
  <2>2. ResponseObserved(c, d, m) =
          IF addressed = {} THEN ResponseUnmatched(c, d, m)
          ELSE IF r.status = "ambiguous" THEN ResponseAmbiguous(c, d, m)
          ELSE IF r.message.operation # ResponseRequests[m.operation] THEN ResponseUnmatched(c, d, m)
          ELSE ResponseMatched(c, d, m, r)
    BY DEF ResponseObserved
  <2> HIDE DEF addressed, r
  <2> QED BY <1>7, <1>8, <1>9, <2>1, <2>2
<1> QED BY <1>2, <1>10, <1>11 DEF Correlated

-----------------------------------------------------------------------------
(* What is said of the log of messages, said of any sequence of entries.     *)

(* An entry: what was observed of a message, and whether the streams were    *)
(* usable when it came.                                                      *)
Entries == [observed : Observations, usable : BOOLEAN]

MessageOf(e) == e.observed.message
SenderOf(e) == e.observed.direction
StatusOf(e) == e.observed.status

(* A request, and what answers one.                                          *)
Asks(e) == Correlatable(MessageOf(e)) /\ MessageOf(e).operation \in RequestOperations
Answers(e) == Correlatable(MessageOf(e)) /\ ~ Asks(e)

(* Entries of one sender and one message identifier.                         *)
SameKey(e, f) == SenderOf(e) = SenderOf(f) /\ MessageOf(e).id = MessageOf(f).id

(* Entry e takes the key of request f again.                                 *)
RepeatsIt(e, f) == SameKey(e, f) /\ (Asks(e) \/ MessageOf(e).status = "unsupported")

(* Answer e is addressed to the sender of f under its identifier.            *)
AddressesIt(e, f) ==
    Answers(e) /\ SenderOf(e) # SenderOf(f) /\ MessageOf(e).id = MessageOf(f).id

(* Answer e is also of the operation that f asks for.                        *)
FitsIt(e, f) ==
    AddressesIt(e, f) /\ ResponseRequests[MessageOf(e).operation] = MessageOf(f).operation

(* Answer e was matched with f.                                              *)
NamesIt(e, f) ==
    /\ StatusOf(e) = "matched" /\ SenderOf(e) # SenderOf(f)
    /\ e.observed.request = MessageOf(f)

(* No request before place i of the entries L was one too many.              *)
Whole(L, i) == \A k \in 1 .. (i - 1) : Asks(L[k]) /\ L[k].usable => StatusOf(L[k]) # "unresolved"

(* The requests that still wait before place i.                              *)
OpenIn(L, i) ==
    {j \in 1 .. (i - 1) :
        /\ StatusOf(L[j]) = "pending"
        /\ \A k \in (j + 1) .. (i - 1) :
               NamesIt(L[k], L[j]) => MessageOf(L[k]).operation \in SearchContinuations}

(* The key of the request at j was taken again before place i.               *)
TaintedIn(L, j, i) ==
    \E k \in (j + 1) .. (i - 1) : L[k].usable /\ Whole(L, k) /\ RepeatsIt(L[k], L[j])

(* Entry e, which comes at place i behind entries of L, has its outcome.     *)
Explains(L, e, i) ==
    LET use == e.usable /\ Whole(L, i)
        same == {j \in OpenIn(L, i) : RepeatsIt(e, L[j])}
    IN /\ Asks(e) => StatusOf(e) = IF ~ use THEN "unresolved"
                                   ELSE IF same # {} THEN "ambiguous"
                                   ELSE IF Cardinality(OpenIn(L, i)) < MaxPending THEN "pending"
                                   ELSE "unresolved"
       /\ Answers(e) =>
            StatusOf(e) =
              IF use /\ (\E j \in OpenIn(L, i) : AddressesIt(e, L[j]) /\ TaintedIn(L, j, i))
              THEN "ambiguous"
              ELSE IF use /\ (\E j \in OpenIn(L, i) : FitsIt(e, L[j]) /\ ~ TaintedIn(L, j, i))
              THEN "matched" ELSE "unmatched"
       /\ ~ Asks(e) /\ ~ Answers(e) => StatusOf(e) = "non_correlatable"
       /\ StatusOf(e) = "matched" =>
            \E j \in OpenIn(L, i) : FitsIt(e, L[j]) /\ e.observed.request = MessageOf(L[j])

(* How many answers were matched with the request at j.                      *)
Named(L, j) == Cardinality({k \in DOMAIN L : NamesIt(L[k], L[j])})

(* How many entries have an outcome.                                         *)
Count(L, status) == Cardinality({i \in DOMAIN L : StatusOf(L[i]) = status})

(* The request of entry e, as the table has it.                              *)
Row(e, status, responses) ==
    [direction |-> SenderOf(e), message |-> MessageOf(e), status |-> status,
     request |-> MessageOf(e), summary |-> [status |-> status, responses |-> responses]]

(* The request at j in the table behind all of L.                            *)
RowIn(L, j, left) ==
    Row(L[j], IF TaintedIn(L, j, Len(L) + 1) THEN "ambiguous" ELSE left, Named(L, j))

(* The correlation c is what the entries L come to; left is the status of    *)
(* the requests that still wait.                                             *)
Explained(c, L, left) ==
    LET end == Len(L) + 1
        open == OpenIn(L, end)
    IN /\ c \in Correlations /\ L \in Seq(Entries) /\ left \in {"pending", "unresolved"}
       /\ \A i, j \in DOMAIN L :
              SenderOf(L[i]) = SenderOf(L[j]) /\ MessageOf(L[i]) = MessageOf(L[j]) => i = j
       /\ \A i, j \in open : SameKey(L[i], L[j]) => i = j
       /\ Cardinality(open) <= MaxPending
       /\ c.requests = {RowIn(L, j, left) : j \in open}
       /\ c.matched = Count(L, "matched") /\ c.unmatched = Count(L, "unmatched")
       /\ c.ambiguous = Count(L, "ambiguous") /\ c.non_correlatable = Count(L, "non_correlatable")
       /\ \A i \in DOMAIN L : Explains(L, L[i], i)

(* The entries up to a place say the same whatever comes behind them.        *)
SaysSame(K, L, n) ==
    \A i \in 1 .. (n + 1) : /\ Whole(K, i) <=> Whole(L, i)
                            /\ OpenIn(K, i) = OpenIn(L, i)
                            /\ \A j \in 1 .. n : TaintedIn(K, j, i) <=> TaintedIn(L, j, i)
                            /\ \A e : Explains(K, e, i) <=> Explains(L, e, i)

(* What comes later does not change what the entries up to a place say.      *)
LEMMA PrefixSays ==
    ASSUME NEW L, NEW K, NEW n \in Nat, \A k \in 1 .. n : K[k] = L[k]
    PROVE  SaysSame(K, L, n)
<1>1. ASSUME NEW i \in 1 .. (n + 1) PROVE Whole(K, i) <=> Whole(L, i)
  <2>1. \A k \in 1 .. (i - 1) : K[k] = L[k] OBVIOUS
  <2> QED BY <2>1 DEF Whole
<1>2. ASSUME NEW i \in 1 .. (n + 1) PROVE OpenIn(K, i) = OpenIn(L, i)
  <2>1. \A k \in 1 .. (i - 1) : K[k] = L[k] OBVIOUS
  <2>2. \A j \in 1 .. (i - 1) : \A k \in (j + 1) .. (i - 1) : K[k] = L[k] /\ K[j] = L[j] OBVIOUS
  <2> QED BY <2>1, <2>2 DEF OpenIn
<1>3. ASSUME NEW i \in 1 .. (n + 1), NEW j \in 1 .. n PROVE TaintedIn(K, j, i) <=> TaintedIn(L, j, i)
  <2>1. \A k \in (j + 1) .. (i - 1) : K[k] = L[k] /\ K[j] = L[j] /\ (Whole(K, k) <=> Whole(L, k))
    <3>1. \A k \in (j + 1) .. (i - 1) : k \in 1 .. n /\ k \in 1 .. (n + 1) OBVIOUS
    <3> QED BY <1>1, <3>1
  <2> QED BY <2>1 DEF TaintedIn
<1>4. ASSUME NEW i \in 1 .. (n + 1), NEW e PROVE Explains(K, e, i) <=> Explains(L, e, i)
  <2>1. (Whole(K, i) <=> Whole(L, i)) /\ OpenIn(K, i) = OpenIn(L, i) BY <1>1, <1>2
  <2>2. \A j \in OpenIn(L, i) : K[j] = L[j] /\ (TaintedIn(K, j, i) <=> TaintedIn(L, j, i))
    <3>1. \A j \in OpenIn(L, i) : j \in 1 .. n BY DEF OpenIn
    <3> QED BY <1>3, <3>1
  <2> QED BY <2>1, <2>2 DEF Explains
<1> QED BY <1>1, <1>2, <1>3, <1>4 DEF SaysSame

(* Counting the members among one more number.                               *)
LEMMA CountGrows ==
    ASSUME NEW n \in Nat, NEW S \in SUBSET (1 .. n), NEW T \in SUBSET (1 .. (n + 1)),
           \A k \in 1 .. n : k \in T <=> k \in S
    PROVE  Cardinality(S) \in Nat /\ Cardinality(T) = Cardinality(S) + (IF n + 1 \in T THEN 1 ELSE 0)
<1>1. IsFiniteSet(S)
  <2>1. IsFiniteSet(1 .. n) BY FS_Interval
  <2> QED BY <2>1, FS_Subset
<1>2. Cardinality(S) \in Nat BY <1>1, FS_CardinalityType
<1>3. n + 1 \notin S OBVIOUS
<1>6. \A k \in T : k \in 1 .. n \/ k = n + 1 OBVIOUS
<1>7. \A k \in S : k \in 1 .. n OBVIOUS
<1>4. CASE n + 1 \in T
  <2>1. T = S \cup {n + 1} BY <1>4, <1>6, <1>7
  <2>2. Cardinality(S \cup {n + 1}) = Cardinality(S) + 1 BY <1>1, <1>3, FS_AddElement
  <2> QED BY <1>2, <1>4, <2>1, <2>2
<1>5. CASE n + 1 \notin T
  <2>1. T = S BY <1>5, <1>6, <1>7
  <2> QED BY <1>2, <1>5, <2>1
<1> QED BY <1>2, <1>4, <1>5

(* What one more entry changes of what the log says.                         *)
Grows(L, e, K, n) ==
    /\ n \in Nat /\ DOMAIN L = 1 .. n /\ K \in Seq(Entries) /\ Len(K) = n + 1
    /\ DOMAIN K = 1 .. (n + 1) /\ K[n + 1] = e /\ \A k \in 1 .. n : K[k] = L[k]
    /\ Whole(K, n + 2) <=> Whole(L, n + 1) /\ (Asks(e) /\ e.usable => StatusOf(e) # "unresolved")
    /\ OpenIn(K, n + 2) =
         {j \in OpenIn(L, n + 1) : NamesIt(e, L[j]) => MessageOf(e).operation \in SearchContinuations}
           \cup (IF StatusOf(e) = "pending" THEN {n + 1} ELSE {})
    /\ \A j \in 1 .. n : TaintedIn(K, j, n + 2) <=>
          TaintedIn(L, j, n + 1) \/ (e.usable /\ Whole(L, n + 1) /\ RepeatsIt(e, L[j]))
    /\ ~ TaintedIn(K, n + 1, n + 2)
    /\ \A j \in 1 .. n : /\ Named(L, j) \in Nat
                         /\ Named(K, j) = Named(L, j) + (IF NamesIt(e, L[j]) THEN 1 ELSE 0)
    /\ \A status : /\ Count(L, status) \in Nat
                   /\ Count(K, status) = Count(L, status) + (IF StatusOf(e) = status THEN 1 ELSE 0)

(* One more entry adds at most itself to every count.                        *)
LEMMA LogGrows ==
    ASSUME NEW L \in Seq(Entries), NEW e \in Entries
    PROVE  Grows(L, e, Append(L, e), Len(L))
<1> DEFINE n == Len(L)
           K == Append(L, e)
<1>1. n \in Nat /\ DOMAIN L = 1 .. n BY LenProperties
<1>2. K \in Seq(Entries) /\ Len(K) = n + 1 /\ DOMAIN K = 1 .. (n + 1) /\ K[n + 1] = e
      /\ \A k \in 1 .. n : K[k] = L[k]
  BY <1>1, AppendProperties, LenProperties
<1> HIDE DEF n, K
<1>3. Whole(K, n + 2) <=> Whole(L, n + 1) /\ (Asks(e) /\ e.usable => StatusOf(e) # "unresolved")
  <2>1. \A k \in 1 .. (n + 2 - 1) : k \in 1 .. n \/ k = n + 1 BY <1>1
  <2>2. n + 1 \in 1 .. (n + 2 - 1) /\ \A k \in 1 .. n : k \in 1 .. (n + 2 - 1) BY <1>1
  <2>3. \A k : k \in 1 .. (n + 1 - 1) <=> k \in 1 .. n BY <1>1
  <2> QED BY <1>1, <1>2, <2>1, <2>2, <2>3 DEF Whole
<1>4. \A k \in 1 .. (n + 1) : /\ Whole(K, k) <=> Whole(L, k)
                              /\ OpenIn(K, k) = OpenIn(L, k)
                              /\ \A j \in 1 .. n : TaintedIn(K, j, k) <=> TaintedIn(L, j, k)
  <2>1. n \in Nat /\ \A k \in 1 .. n : K[k] = L[k] BY <1>1, <1>2
  <2>2. SaysSame(K, L, n) BY <2>1, PrefixSays
  <2> QED BY <2>2 DEF SaysSame
<1>5. OpenIn(K, n + 2) =
                {j \in OpenIn(L, n + 1) : NamesIt(e, L[j]) => MessageOf(e).operation \in SearchContinuations}
                  \cup (IF StatusOf(e) = "pending" THEN {n + 1} ELSE {})
  <2> DEFINE P(j) == /\ StatusOf(L[j]) = "pending"
                     /\ \A k \in (j + 1) .. n :
                           NamesIt(L[k], L[j]) => MessageOf(L[k]).operation \in SearchContinuations
             Q(j) == NamesIt(e, L[j]) => MessageOf(e).operation \in SearchContinuations
             R(j) == /\ StatusOf(K[j]) = "pending"
                     /\ \A k \in (j + 1) .. (n + 1) :
                           NamesIt(K[k], K[j]) => MessageOf(K[k]).operation \in SearchContinuations
  <2>1. OpenIn(L, n + 1) = {j \in 1 .. n : P(j)}
    <3>1. n + 1 - 1 = n BY <1>1
    <3> QED BY <1>1, <3>1 DEF OpenIn
  <2>2. OpenIn(K, n + 2) = {j \in 1 .. (n + 1) : R(j)}
    <3>1. n + 2 - 1 = n + 1 BY <1>1
    <3> QED BY <1>1, <3>1 DEF OpenIn
  <2>3. ASSUME NEW j \in 1 .. n PROVE R(j) <=> P(j) /\ Q(j)
    <3>1. \A k \in (j + 1) .. (n + 1) : k \in (j + 1) .. n \/ k = n + 1 BY <1>1
    <3>2. n + 1 \in (j + 1) .. (n + 1) /\ \A k \in (j + 1) .. n : k \in (j + 1) .. (n + 1) /\ k \in 1 .. n BY <1>1
    <3>3. K[j] = L[j] /\ K[n + 1] = e /\ \A k \in (j + 1) .. n : K[k] = L[k] BY <1>2, <3>2
    <3> QED BY <3>1, <3>2, <3>3
  <2>4. R(n + 1) <=> StatusOf(e) = "pending"
    <3>1. \A k \in (n + 1 + 1) .. (n + 1) : FALSE BY <1>1
    <3> QED BY <1>2, <3>1
  <2>5. \A j : j \in 1 .. (n + 1) <=> j \in 1 .. n \/ j = n + 1 BY <1>1
  <2>6. n + 1 \notin 1 .. n BY <1>1
  <2> HIDE DEF P, Q, R
  <2>7. OpenIn(K, n + 2) = {j \in OpenIn(L, n + 1) : Q(j)} \cup (IF StatusOf(e) = "pending" THEN {n + 1} ELSE {})
    BY <2>1, <2>2, <2>3, <2>4, <2>5, <2>6
  <2> QED BY <2>7 DEF Q
<1>6. ASSUME NEW j \in 1 .. n
      PROVE  TaintedIn(K, j, n + 2) <=>
                 TaintedIn(L, j, n + 1) \/ (e.usable /\ Whole(L, n + 1) /\ RepeatsIt(e, L[j]))
  <2>1. \A k : k \in (j + 1) .. (n + 2 - 1) <=> k \in (j + 1) .. (n + 1 - 1) \/ k = n + 1 BY <1>1
  <2>2. \A k \in (j + 1) .. (n + 1 - 1) : k \in 1 .. n /\ k \in 1 .. (n + 1) BY <1>1
  <2>3. \A k \in (j + 1) .. (n + 1 - 1) : K[k] = L[k] /\ (Whole(K, k) <=> Whole(L, k)) BY <1>2, <1>4, <2>2
  <2>4. K[j] = L[j] /\ K[n + 1] = e /\ (Whole(K, n + 1) <=> Whole(L, n + 1))
    <3>1. n + 1 \in 1 .. (n + 1) BY <1>1
    <3> QED BY <1>2, <1>4, <3>1
  <2> QED BY <1>1, <2>1, <2>3, <2>4 DEF TaintedIn
<1>7. ~ TaintedIn(K, n + 1, n + 2)
  <2>1. \A k \in (n + 1 + 1) .. (n + 2 - 1) : FALSE BY <1>1
  <2> QED BY <1>1, <2>1 DEF TaintedIn
<1>8. ASSUME NEW j \in 1 .. n
      PROVE  /\ Named(L, j) \in Nat
             /\ Named(K, j) = Named(L, j) + (IF NamesIt(e, L[j]) THEN 1 ELSE 0)
  <2> DEFINE S == {k \in DOMAIN L : NamesIt(L[k], L[j])}
             T == {k \in DOMAIN K : NamesIt(K[k], K[j])}
  <2>1. S \in SUBSET (1 .. n) /\ T \in SUBSET (1 .. (n + 1)) BY <1>1, <1>2
  <2>2. n + 1 \in 1 .. (n + 1) /\ \A k \in 1 .. n : k \in 1 .. (n + 1) BY <1>1
  <2>3. \A k \in 1 .. n : k \in T <=> k \in S BY <1>1, <1>2, <2>2
  <2>4. n + 1 \in T <=> NamesIt(e, L[j]) BY <1>2, <2>2
  <2> HIDE DEF S, T
  <2>6. Cardinality(S) \in Nat /\ Cardinality(T) = Cardinality(S) + (IF n + 1 \in T THEN 1 ELSE 0)
    BY <1>1, <2>1, <2>3, CountGrows
  <2> QED BY <2>4, <2>6 DEF S, T, Named
<1>9. ASSUME NEW status
      PROVE  /\ Count(L, status) \in Nat
             /\ Count(K, status) = Count(L, status) + (IF StatusOf(e) = status THEN 1 ELSE 0)
  <2> DEFINE S == {k \in DOMAIN L : StatusOf(L[k]) = status}
             T == {k \in DOMAIN K : StatusOf(K[k]) = status}
  <2>1. S \in SUBSET (1 .. n) /\ T \in SUBSET (1 .. (n + 1)) BY <1>1, <1>2
  <2>2. n + 1 \in 1 .. (n + 1) /\ \A k \in 1 .. n : k \in 1 .. (n + 1) BY <1>1
  <2>3. \A k \in 1 .. n : k \in T <=> k \in S BY <1>1, <1>2, <2>2
  <2>4. n + 1 \in T <=> StatusOf(e) = status BY <1>2, <2>2
  <2> HIDE DEF S, T
  <2>6. Cardinality(S) \in Nat /\ Cardinality(T) = Cardinality(S) + (IF n + 1 \in T THEN 1 ELSE 0)
    BY <1>1, <2>1, <2>3, CountGrows
  <2> QED BY <2>4, <2>6 DEF S, T, Count
<1> HIDE DEF n, K
<1>10. Grows(L, e, K, n) BY <1>1, <1>2, <1>3, <1>5, <1>6, <1>7, <1>8, <1>9 DEF Grows
<1> QED BY <1>10 DEF n, K

(* A row of the table is a request; how rows change.                         *)
LEMMA SameRecord ==
    ASSUME NEW x, NEW y, NEW F, x = [f \in F |-> x[f]], y = [f \in F |-> y[f]],
           \A f \in F : x[f] = y[f]
    PROVE  x = y
OBVIOUS

(* A request of the table after one more partial answer.                     *)
MoreOf(r) == [r EXCEPT !.summary = Responded(r.summary, FALSE)]

(* Marking, leaving over and answering a request of the table.               *)
LEMMA RowsChange ==
    ASSUME NEW e, NEW status, NEW n \in Nat
    PROVE  /\ MarkAmbiguous(Row(e, status, n)) = Row(e, "ambiguous", n)
           /\ Unresolved(Row(e, status, n))
                = Row(e, IF status = "pending" THEN "unresolved" ELSE status, n)
           /\ status = "pending" => MoreOf(Row(e, status, n)) = Row(e, "pending", n + 1)
<1> DEFINE r == Row(e, status, n)
           F == {"direction", "message", "status", "request", "summary"}
           G == {"status", "responses"}
           Like(x, st, k) == /\ x = [f \in F |-> x[f]] /\ x.direction = SenderOf(e) /\ x.message = MessageOf(e)
                             /\ x.status = st /\ x.request = MessageOf(e)
                             /\ x.summary = [g \in G |-> x.summary[g]]
                             /\ x.summary.status = st /\ x.summary.responses = k
<1>1. \A st, k : Like(Row(e, st, k), st, k) BY DEF Row
<1>2. ASSUME NEW x, NEW y, NEW st, NEW k, Like(x, st, k), Like(y, st, k) PROVE x = y
  <2>1. x.summary = y.summary
    <3>1. \A g \in G : x.summary[g] = y.summary[g] BY <1>2
    <3> HIDE DEF G
    <3> QED BY <1>2, <3>1, SameRecord
  <2>2. \A f \in F : x[f] = y[f]
    <3> HIDE DEF G
    <3> QED BY <1>2, <2>1
  <2>3. x = [f \in F |-> x[f]] /\ y = [f \in F |-> y[f]] BY <1>2
  <2> HIDE DEF F
  <2> QED BY <2>2, <2>3, SameRecord
<1>3. Like(MarkAmbiguous(r), "ambiguous", n) BY DEF Row, MarkAmbiguous
<1>4. status = "pending" => Like(Unresolved(r), "unresolved", n) BY DEF Row, Unresolved
<1>5. status # "pending" => Unresolved(r) = r BY DEF Row, Unresolved
<1>7. status = "pending" => Like(MoreOf(r), "pending", n + 1)
  BY DEF Row, Responded, MoreOf
<1>9. r = Row(e, status, n) OBVIOUS
<1> HIDE DEF Like, r
<1>10. MarkAmbiguous(r) = Row(e, "ambiguous", n) BY <1>1, <1>2, <1>3
<1>11. Unresolved(r) = Row(e, IF status = "pending" THEN "unresolved" ELSE status, n) BY <1>1, <1>2, <1>4, <1>5, <1>9
<1>12. status = "pending" => MoreOf(r) = Row(e, "pending", n + 1)
  BY <1>1, <1>2, <1>7
<1> QED BY <1>10, <1>11, <1>12 DEF r

(* The table holds one row for each open request.                            *)
LEMMA TableIs ==
    ASSUME NEW c, NEW L, NEW left, Explained(c, L, left), NEW n, n = Len(L), NEW O, O = OpenIn(L, n + 1)
    PROVE  /\ n \in Nat /\ DOMAIN L = 1 .. n /\ L \in Seq(Entries) /\ O \in SUBSET (1 .. n)
           /\ \A j \in 1 .. n : /\ L[j] \in Entries /\ MessageOf(L[j]) \in Messages
                                /\ SenderOf(L[j]) \in Directions /\ Named(L, j) \in Nat
           /\ \A j \in O : LET r == RowIn(L, j, left)
                           IN /\ r \in c.requests /\ r.direction = SenderOf(L[j]) /\ r.message = MessageOf(L[j])
                              /\ r.status = IF TaintedIn(L, j, n + 1) THEN "ambiguous" ELSE left
           /\ \A r \in c.requests : \E j \in O : r = RowIn(L, j, left)
           /\ \A i, j \in O : RowIn(L, i, left) = RowIn(L, j, left) => i = j
           /\ IsFiniteSet(O) /\ Cardinality(O) \in Nat /\ Cardinality(c.requests) = Cardinality(O)
<1>1. n \in Nat /\ DOMAIN L = 1 .. n /\ L \in Seq(Entries) BY LenProperties DEF Explained
<1>2. O \in SUBSET (1 .. n)
  <2>1. n + 1 - 1 = n BY <1>1
  <2> QED BY <2>1 DEF OpenIn
<1>3. ASSUME NEW j \in 1 .. n
      PROVE  /\ L[j] \in Entries /\ MessageOf(L[j]) \in Messages
             /\ SenderOf(L[j]) \in Directions /\ Named(L, j) \in Nat
  <2>1. L[j] \in Entries BY <1>1
  <2>2. MessageOf(L[j]) \in Messages /\ SenderOf(L[j]) \in Directions
    BY <2>1 DEF Entries, Observations, MessageOf, SenderOf
  <2>3. Named(L, j) \in Nat
    <3>1. Grows(L, L[j], Append(L, L[j]), n) BY <1>1, <2>1, LogGrows
    <3> QED BY <3>1 DEF Grows
  <2> QED BY <2>1, <2>2, <2>3
<1>4. c.requests = {RowIn(L, j, left) : j \in O} BY <1>1 DEF Explained
<1>5. ASSUME NEW j \in O
      PROVE  LET r == RowIn(L, j, left)
             IN /\ r \in c.requests /\ r.direction = SenderOf(L[j]) /\ r.message = MessageOf(L[j])
                /\ r.status = IF TaintedIn(L, j, n + 1) THEN "ambiguous" ELSE left
  BY <1>4 DEF RowIn, Row
<1>6. ASSUME NEW i \in O, NEW j \in O, RowIn(L, i, left) = RowIn(L, j, left) PROVE i = j
  <2>1. SameKey(L[i], L[j]) BY <1>5, <1>6 DEF SameKey
  <2>2. \A p, q \in O : SameKey(L[p], L[q]) => p = q BY DEF Explained
  <2> QED BY <2>1, <2>2
<1>7. IsFiniteSet(O)
  <2>1. IsFiniteSet(1 .. n) BY <1>1, FS_Interval
  <2> QED BY <1>2, <2>1, FS_Subset
<1>8. Cardinality(c.requests) = Cardinality(O)
  <2> DEFINE f == [j \in O |-> RowIn(L, j, left)]
  <2>1. f \in Surjection(O, c.requests) BY <1>4 DEF Surjection
  <2>2. f \in Injection(O, c.requests) BY <1>4, <1>6 DEF Injection, IsInjective
  <2> HIDE DEF f
  <2> QED BY <1>7, <2>1, <2>2, FS_Surjection
<1>9. Cardinality(O) \in Nat BY <1>7, FS_CardinalityType
<1>10. \A r \in c.requests : \E j \in O : r = RowIn(L, j, left) BY <1>4
<1> QED BY <1>1, <1>2, <1>3, <1>5, <1>6, <1>7, <1>8, <1>9, <1>10

(* No entry of L is the message m of direction d.                            *)
Unseen(L, d, m) == \A i \in DOMAIN L : ~ (SenderOf(L[i]) = d /\ MessageOf(L[i]) = m)

(* A correlation that has treated one more message as its outcome implies.   *)
LEMMA OneMore ==
    ASSUME NEW c, NEW L, NEW left, Explained(c, L, left), NEW n, n = Len(L),
           NEW e \in Entries, Unseen(L, SenderOf(e), MessageOf(e)), Explains(L, e, n + 1),
           NEW K, K = Append(L, e), NEW b \in Correlations,
           b.requests = {RowIn(K, j, left) : j \in OpenIn(K, n + 2)},
           b.matched = c.matched + (IF StatusOf(e) = "matched" THEN 1 ELSE 0),
           b.unmatched = c.unmatched + (IF StatusOf(e) = "unmatched" THEN 1 ELSE 0),
           b.ambiguous = c.ambiguous + (IF StatusOf(e) = "ambiguous" THEN 1 ELSE 0),
           b.non_correlatable = c.non_correlatable + (IF StatusOf(e) = "non_correlatable" THEN 1 ELSE 0)
    PROVE  Explained(b, K, left)
<1> DEFINE O == OpenIn(L, n + 1)
           P == OpenIn(K, n + 2)
<1>1. /\ n \in Nat /\ DOMAIN L = 1 .. n /\ L \in Seq(Entries) /\ O \in SUBSET (1 .. n)
      /\ IsFiniteSet(O) /\ Cardinality(O) \in Nat
  BY TableIs
<1>2. /\ K \in Seq(Entries) /\ Len(K) = n + 1
      /\ DOMAIN K = 1 .. (n + 1) /\ K[n + 1] = e /\ \A k \in 1 .. n : K[k] = L[k]
      /\ P = {j \in O : NamesIt(e, L[j]) => MessageOf(e).operation \in SearchContinuations}
                  \cup (IF StatusOf(e) = "pending" THEN {n + 1} ELSE {})
      /\ \A status : Count(K, status) = Count(L, status) + (IF StatusOf(e) = status THEN 1 ELSE 0)
  <2>1. Grows(L, e, K, n) BY <1>1, LogGrows
  <2> QED BY <2>1 DEF Grows
<1>3. \A i, j \in DOMAIN K :
          SenderOf(K[i]) = SenderOf(K[j]) /\ MessageOf(K[i]) = MessageOf(K[j]) => i = j
  <2>1. \A i, j \in 1 .. n :
            SenderOf(L[i]) = SenderOf(L[j]) /\ MessageOf(L[i]) = MessageOf(L[j]) => i = j
    BY <1>1 DEF Explained
  <2>2. \A i \in 1 .. n : ~ (SenderOf(L[i]) = SenderOf(e) /\ MessageOf(L[i]) = MessageOf(e))
    BY <1>1 DEF Unseen
  <2>3. \A i \in 1 .. (n + 1) : i \in 1 .. n \/ i = n + 1 BY <1>1
  <2> QED BY <1>2, <2>1, <2>2, <2>3
<1>4. \A i, j \in O : SameKey(L[i], L[j]) => i = j BY DEF Explained
<1>5. Cardinality(O) <= MaxPending BY DEF Explained
<1>6. /\ \A i, j \in P : SameKey(K[i], K[j]) => i = j
      /\ Cardinality(P) <= MaxPending
  <2>1. CASE StatusOf(e) # "pending"
    <3>1. P \subseteq O BY <1>2, <2>1
    <3>2. \A i \in P : K[i] = L[i] /\ i \in O BY <1>1, <1>2, <3>1
    <3>3. Cardinality(P) <= Cardinality(O) /\ Cardinality(P) \in Nat
      <4>1. IsFiniteSet(P) BY <1>1, <3>1, FS_Subset
      <4> QED BY <1>1, <3>1, <4>1, FS_Subset, FS_CardinalityType
    <3> HIDE DEF O, P
    <3>4. Cardinality(P) <= MaxPending BY <1>1, <1>5, <3>3, PendingAssumption
    <3> QED BY <1>4, <3>2, <3>4
  <2>2. CASE StatusOf(e) = "pending"
    <3>1. Asks(e) /\ {j \in O : RepeatsIt(e, L[j])} = {} /\ Cardinality(O) < MaxPending
      BY <2>2 DEF Explains
    <3>2. P = O \cup {n + 1} BY <1>2, <2>2 DEF NamesIt
    <3>3. \A j \in O : ~ SameKey(e, L[j]) /\ ~ SameKey(L[j], e) BY <3>1 DEF RepeatsIt, SameKey
    <3>4. \A i \in P : (i = n + 1 /\ K[i] = e) \/ (i \in O /\ K[i] = L[i])
      <4>1. O \subseteq 1 .. n BY <1>1
      <4>2. K[n + 1] = e /\ \A k \in 1 .. n : K[k] = L[k] BY <1>2
      <4> HIDE DEF O, P
      <4> QED BY <3>2, <4>1, <4>2
    <3>5. Cardinality(P) = Cardinality(O) + 1
      <4>1. n + 1 \notin O BY <1>1
      <4> HIDE DEF O, P
      <4> QED BY <1>1, <3>2, <4>1, FS_AddElement
    <3> HIDE DEF O, P
    <3>6. Cardinality(P) <= MaxPending BY <1>1, <3>1, <3>5, PendingAssumption
    <3> QED BY <1>4, <3>3, <3>4, <3>6, ZenonT(30)
  <2> QED BY <2>1, <2>2
<1>7. \A i \in DOMAIN K : Explains(K, K[i], i)
  <2>1. SaysSame(K, L, n) BY <1>1, <1>2, PrefixSays
  <2>2. \A i \in 1 .. n : Explains(L, L[i], i) BY <1>1 DEF Explained
  <2>3. \A i \in 1 .. (n + 1) : i \in 1 .. n \/ i = n + 1 BY <1>1
  <2> QED BY <1>2, <2>1, <2>2, <2>3 DEF SaysSame
<1>8. /\ b.matched = Count(K, "matched") /\ b.unmatched = Count(K, "unmatched")
      /\ b.ambiguous = Count(K, "ambiguous") /\ b.non_correlatable = Count(K, "non_correlatable")
  <2>1. /\ c.matched = Count(L, "matched") /\ c.unmatched = Count(L, "unmatched")
        /\ c.ambiguous = Count(L, "ambiguous") /\ c.non_correlatable = Count(L, "non_correlatable")
    BY DEF Explained
  <2> QED BY <1>2, <2>1
<1>9. left \in {"pending", "unresolved"} BY DEF Explained
<1>10. Len(K) + 1 = n + 2 BY <1>1, <1>2
<1> HIDE DEF O
<1> QED BY <1>2, <1>3, <1>6, <1>7, <1>8, <1>9, <1>10 DEF Explained

-----------------------------------------------------------------------------
(* The table after one more entry e.                                         *)

(* An entry that neither waits nor answers leaves every request in the table *)
(* and marks those that it repeats.                                          *)
LEMMA RowsOfOthers ==
    ASSUME NEW c, NEW L, NEW left, Explained(c, L, left), NEW e \in Entries,
           StatusOf(e) \notin {"pending", "matched"}, NEW n, n = Len(L)
    PROVE  LET K == Append(L, e)
               O == OpenIn(L, n + 1)
           IN /\ OpenIn(K, n + 2) = O
              /\ \A j \in O : RowIn(K, j, left) =
                    IF e.usable /\ Whole(L, n + 1) /\ RepeatsIt(e, L[j]) THEN MarkAmbiguous(RowIn(L, j, left))
                    ELSE RowIn(L, j, left)
<1> DEFINE K == Append(L, e)
           O == OpenIn(L, n + 1)
<1>1. /\ n \in Nat /\ L \in Seq(Entries) /\ O \in SUBSET (1 .. n)
      /\ \A j \in 1 .. n : L[j] \in Entries /\ Named(L, j) \in Nat
  BY TableIs
<1>2. Grows(L, e, K, n) BY <1>1, LogGrows
<1>0. \A x, st : \A k \in Nat : MarkAmbiguous(Row(x, st, k)) = Row(x, "ambiguous", k)
  <2> SUFFICES ASSUME NEW x, NEW st, NEW k \in Nat
               PROVE  MarkAmbiguous(Row(x, st, k)) = Row(x, "ambiguous", k)
    OBVIOUS
  <2> QED BY RowsChange
<1>3. \A j : ~ NamesIt(e, L[j]) BY DEF NamesIt
<1> HIDE DEF K
<1>4. OpenIn(K, n + 2) = O BY <1>2, <1>3 DEF Grows
<1>5. ASSUME NEW j \in O
      PROVE  RowIn(K, j, left) =
                    IF e.usable /\ Whole(L, n + 1) /\ RepeatsIt(e, L[j]) THEN MarkAmbiguous(RowIn(L, j, left))
                    ELSE RowIn(L, j, left)
  <2> DEFINE T == TaintedIn(L, j, n + 1)
             X == e.usable /\ Whole(L, n + 1) /\ RepeatsIt(e, L[j])
             old == IF T THEN "ambiguous" ELSE left
  <2>1. j \in 1 .. n BY <1>1
  <2>2. /\ Named(K, j) = Named(L, j) + 0 /\ K[j] = L[j] /\ Len(K) = n + 1
        /\ TaintedIn(K, j, n + 2) <=> T \/ X
    BY <1>2, <1>3, <2>1 DEF Grows
  <2>3. Named(K, j) = Named(L, j) BY <1>1, <2>1, <2>2
  <2>4. Len(K) + 1 = n + 2 BY <1>1, <2>2
  <2>5. RowIn(L, j, left) = Row(L[j], old, Named(L, j)) BY DEF RowIn
  <2>6. RowIn(K, j, left) = Row(L[j], IF T \/ X THEN "ambiguous" ELSE left, Named(L, j))
    BY <2>2, <2>3, <2>4 DEF RowIn
  <2>7. MarkAmbiguous(Row(L[j], old, Named(L, j))) = Row(L[j], "ambiguous", Named(L, j))
    <3>1. L[j] \in Entries /\ Named(L, j) \in Nat BY <1>1, <2>1
    <3> HIDE DEF old
    <3> QED BY <1>0, <3>1
  <2> HIDE DEF T, X
  <2>8. CASE X BY <2>5, <2>6, <2>7, <2>8 DEF X
  <2>9. CASE ~ X BY <2>5, <2>6, <2>9 DEF X
  <2> QED BY <2>8, <2>9
<1> QED BY <1>4, <1>5 DEF K

(* The table behind L and e, and requests of which those in P are marked.     *)
After(L, e, left, n) == {RowIn(Append(L, e), j, left) : j \in OpenIn(Append(L, e), n + 2)}

(* The requests after those in P are marked ambiguous.                       *)
Marked(requests, P) == (requests \ P) \cup {MarkAmbiguous(r) : r \in P}

(* An entry that takes no request's key and neither waits nor matches leaves *)
(* the table as it was.                                                      *)
LEMMA RowsKept ==
    ASSUME NEW c, NEW L, NEW left, Explained(c, L, left), NEW e \in Entries,
           StatusOf(e) \notin {"pending", "matched"}, NEW n, n = Len(L),
           \A j \in OpenIn(L, n + 1) : ~ (e.usable /\ Whole(L, n + 1) /\ RepeatsIt(e, L[j]))
    PROVE  After(L, e, left, n) = c.requests
<1> DEFINE K == Append(L, e)
           O == OpenIn(L, n + 1)
<1>1. OpenIn(K, n + 2) = O BY RowsOfOthers
<1>2. \A j \in O : RowIn(K, j, left) = RowIn(L, j, left)
  <2>1. \A j \in O : RowIn(K, j, left) =
                    IF e.usable /\ Whole(L, n + 1) /\ RepeatsIt(e, L[j]) THEN MarkAmbiguous(RowIn(L, j, left))
                    ELSE RowIn(L, j, left)
    BY RowsOfOthers
  <2> HIDE DEF K
  <2> QED BY <2>1
<1>3. c.requests = {RowIn(L, j, left) : j \in O} BY DEF Explained
<1> HIDE DEF K, O
<1>4. {RowIn(K, j, left) : j \in OpenIn(K, n + 2)} = c.requests BY <1>1, <1>2, <1>3
<1> QED BY <1>4 DEF K, After

(* An entry that takes the keys of waiting requests marks them and no        *)
(* others.                                                                   *)
LEMMA RowsMarked ==
    ASSUME NEW c, NEW L, NEW left, Explained(c, L, left), NEW e \in Entries,
           StatusOf(e) \notin {"pending", "matched"}, NEW n, n = Len(L),
           e.usable, Whole(L, n + 1), Asks(e) \/ MessageOf(e).status = "unsupported",
           NEW P, P = Pending(c, SenderOf(e), MessageOf(e).id)
    PROVE  After(L, e, left, n) = Marked(c.requests, P)
<1> DEFINE K == Append(L, e)
           O == OpenIn(L, n + 1)
           R(j) == RowIn(L, j, left)
<1>1. OpenIn(K, n + 2) = O BY RowsOfOthers
<1>2. \A j \in O : /\ RepeatsIt(e, L[j]) => RowIn(K, j, left) = MarkAmbiguous(R(j))
                   /\ ~ RepeatsIt(e, L[j]) => RowIn(K, j, left) = R(j)
  <2>1. \A j \in O : RowIn(K, j, left) =
                    IF e.usable /\ Whole(L, n + 1) /\ RepeatsIt(e, L[j]) THEN MarkAmbiguous(RowIn(L, j, left))
                    ELSE RowIn(L, j, left)
    BY RowsOfOthers
  <2> HIDE DEF K
  <2> QED BY <2>1
<1>3. c.requests = {R(j) : j \in O} BY DEF Explained
<1>4. \A j \in O : R(j) \in P <=> RepeatsIt(e, L[j])
  <2>1. \A j \in O : R(j) \in c.requests /\ R(j).direction = SenderOf(L[j]) /\ R(j).message = MessageOf(L[j])
    BY TableIs
  <2> HIDE DEF R, O
  <2> QED BY <2>1 DEF Pending, RepeatsIt, SameKey
<1>5. P \subseteq c.requests BY DEF Pending
<1> HIDE DEF K, O, R
<1>6. {RowIn(K, j, left) : j \in O} \subseteq (c.requests \ P) \cup {MarkAmbiguous(r) : r \in P}
  <2> SUFFICES ASSUME NEW j \in O PROVE RowIn(K, j, left) \in (c.requests \ P) \cup {MarkAmbiguous(r) : r \in P}
    OBVIOUS
  <2>1. CASE RepeatsIt(e, L[j]) BY <1>2, <1>4, <2>1
  <2>2. CASE ~ RepeatsIt(e, L[j]) BY <1>2, <1>3, <1>4, <2>2
  <2> QED BY <2>1, <2>2
<1>7. (c.requests \ P) \cup {MarkAmbiguous(r) : r \in P} \subseteq {RowIn(K, j, left) : j \in O}
  <2>1. ASSUME NEW r \in c.requests \ P PROVE r \in {RowIn(K, j, left) : j \in O}
    <3>1. PICK j \in O : r = R(j) BY <1>3
    <3>2. RowIn(K, j, left) = r BY <1>2, <1>4, <3>1
    <3> QED BY <3>2
  <2>2. ASSUME NEW r \in P PROVE MarkAmbiguous(r) \in {RowIn(K, j, left) : j \in O}
    <3>1. PICK j \in O : r = R(j) BY <1>3, <1>5
    <3>2. RowIn(K, j, left) = MarkAmbiguous(r) BY <1>2, <1>4, <3>1
    <3> QED BY <3>2
  <2> QED BY <2>1, <2>2
<1>8. {RowIn(K, j, left) : j \in OpenIn(K, n + 2)} = (c.requests \ P) \cup {MarkAmbiguous(r) : r \in P}
  BY <1>1, <1>6, <1>7
<1> QED BY <1>8 DEF K, After, Marked

(* A request that is to wait is added to the table.                          *)
LEMMA RowsAdded ==
    ASSUME NEW c, NEW L, Explained(c, L, "pending"), NEW e \in Entries,
           StatusOf(e) = "pending", Unseen(L, SenderOf(e), MessageOf(e)), NEW n, n = Len(L),
           \A j \in OpenIn(L, n + 1) : ~ RepeatsIt(e, L[j])
    PROVE  After(L, e, "pending", n) = c.requests \cup {Row(e, "pending", 0)}
<1> DEFINE K == Append(L, e)
           O == OpenIn(L, n + 1)
<1>1. /\ n \in Nat /\ L \in Seq(Entries) /\ O \in SUBSET (1 .. n) /\ DOMAIN L = 1 .. n
      /\ \A j \in 1 .. n : L[j] \in Entries /\ Named(L, j) \in Nat /\ SenderOf(L[j]) \in Directions
  BY TableIs
<1>2. Grows(L, e, K, n) BY <1>1, LogGrows
<1>3. \A x : ~ NamesIt(e, x) BY DEF NamesIt
<1> HIDE DEF K
<1>4. OpenIn(K, n + 2) = O \cup {n + 1} BY <1>2, <1>3 DEF Grows
<1>5. Len(K) + 1 = n + 2 /\ K[n + 1] = e /\ DOMAIN K = 1 .. (n + 1) /\ \A k \in 1 .. n : K[k] = L[k]
  BY <1>1, <1>2 DEF Grows
<1>6. ASSUME NEW j \in O PROVE RowIn(K, j, "pending") = RowIn(L, j, "pending")
  <2>1. j \in 1 .. n BY <1>1
  <2>2. /\ Named(K, j) = Named(L, j) + 0 /\ K[j] = L[j]
        /\ TaintedIn(K, j, n + 2) <=> TaintedIn(L, j, n + 1)
    BY <1>2, <1>3, <2>1 DEF Grows
  <2>3. Named(K, j) = Named(L, j) BY <1>1, <2>1, <2>2
  <2> QED BY <1>5, <2>2, <2>3 DEF RowIn
<1>7. RowIn(K, n + 1, "pending") = Row(e, "pending", 0)
  <2>1. ~ TaintedIn(K, n + 1, n + 2) BY <1>2 DEF Grows
  <2>2. Named(K, n + 1) = 0
    <3>1. ASSUME NEW k \in DOMAIN K, NamesIt(K[k], K[n + 1]) PROVE FALSE
      <4>1. k \in 1 .. n
        <5>1. k \in 1 .. n \/ k = n + 1 BY <1>1, <1>5
        <5> QED BY <1>3, <1>5, <3>1, <5>1
      <4>2. NamesIt(L[k], e) /\ Explains(L, L[k], k) BY <1>1, <1>5, <3>1, <4>1 DEF Explained
      <4>3. PICK j \in OpenIn(L, k) : FitsIt(L[k], L[j]) /\ L[k].observed.request = MessageOf(L[j])
        BY <4>2 DEF Explains, NamesIt
      <4>4. j \in 1 .. n
        <5>1. j \in 1 .. (k - 1) BY DEF OpenIn
        <5> QED BY <1>1, <4>1, <5>1
      <4>5. SenderOf(L[k]) # SenderOf(L[j]) /\ SenderOf(L[k]) # SenderOf(e) /\ MessageOf(L[j]) = MessageOf(e)
        BY <4>2, <4>3 DEF NamesIt, FitsIt, AddressesIt
      <4>6. SenderOf(e) \in Directions BY DEF SenderOf, Entries, Observations
      <4>7. SenderOf(L[j]) = SenderOf(e) BY <1>1, <4>1, <4>4, <4>5, <4>6 DEF Directions
      <4> QED BY <1>1, <4>4, <4>5, <4>7 DEF Unseen
    <3>2. {k \in DOMAIN K : NamesIt(K[k], K[n + 1])} = {} BY <3>1
    <3> QED BY <3>2, FS_EmptySet DEF Named
  <2> QED BY <1>5, <2>1, <2>2 DEF RowIn
<1>8. c.requests = {RowIn(L, j, "pending") : j \in O} BY DEF Explained
<1> HIDE DEF O
<1>9. {RowIn(K, j, "pending") : j \in O \cup {n + 1}} = c.requests \cup {Row(e, "pending", 0)}
  BY <1>6, <1>7, <1>8
<1>10. {RowIn(K, j, "pending") : j \in OpenIn(K, n + 2)} = c.requests \cup {Row(e, "pending", 0)}
  BY <1>4, <1>9
<1> QED BY <1>10 DEF K, After

(* A matched answer takes its request from the table, or counts one more     *)
(* partial answer of it.                                                     *)
LEMMA RowsMatched ==
    ASSUME NEW c, NEW L, Explained(c, L, "pending"), NEW e \in Entries,
           StatusOf(e) = "matched", Answers(e), NEW n, n = Len(L),
           NEW i \in OpenIn(L, n + 1), FitsIt(e, L[i]), ~ TaintedIn(L, i, n + 1),
           e.observed.request = MessageOf(L[i]),
           NEW r, r = RowIn(L, i, "pending"), NEW terminal \in BOOLEAN,
           terminal <=> MessageOf(e).operation \notin SearchContinuations
    PROVE  After(L, e, "pending", n)
              = (c.requests \ {r}) \cup (IF terminal THEN {}
                                         ELSE {[r EXCEPT !.summary = Responded(r.summary, terminal)]})
<1> DEFINE K == Append(L, e)
           O == OpenIn(L, n + 1)
           R(j) == RowIn(L, j, "pending")
           S(j) == RowIn(K, j, "pending")
           next == [r EXCEPT !.summary = Responded(r.summary, terminal)]
<1>1. /\ n \in Nat /\ L \in Seq(Entries) /\ O \in SUBSET (1 .. n) /\ DOMAIN L = 1 .. n
      /\ \A j \in 1 .. n : L[j] \in Entries /\ Named(L, j) \in Nat /\ SenderOf(L[j]) \in Directions
      /\ \A j, k \in O : R(j) = R(k) => j = k
  BY TableIs
<1>2. Grows(L, e, K, n) BY <1>1, LogGrows
<1> HIDE DEF K
<1>3. ASSUME NEW j \in O PROVE NamesIt(e, L[j]) <=> j = i
  <2>1. j \in DOMAIN L /\ i \in DOMAIN L /\ SenderOf(L[j]) \in Directions /\ SenderOf(L[i]) \in Directions
    BY <1>1
  <2>2. SenderOf(e) \in Directions BY DEF SenderOf, Entries, Observations
  <2>3. SenderOf(e) # SenderOf(L[i]) BY DEF FitsIt, AddressesIt
  <2>4. SenderOf(e) # SenderOf(L[j]) => SenderOf(L[j]) = SenderOf(L[i]) BY <2>1, <2>2, <2>3 DEF Directions
  <2>5. \A p, q \in DOMAIN L : SenderOf(L[p]) = SenderOf(L[q]) /\ MessageOf(L[p]) = MessageOf(L[q]) => p = q
    BY DEF Explained
  <2> QED BY <2>1, <2>3, <2>4, <2>5 DEF NamesIt
<1>4. \A j : ~ RepeatsIt(e, L[j]) BY DEF RepeatsIt, Answers, Correlatable
<1>5. Len(K) + 1 = n + 2 /\ \A j \in 1 .. n : K[j] = L[j] BY <1>1, <1>2 DEF Grows
<1>6. OpenIn(K, n + 2) = {j \in O : j = i => ~ terminal}
  <2>1. OpenIn(K, n + 2) = {j \in O : NamesIt(e, L[j]) => MessageOf(e).operation \in SearchContinuations}
    BY <1>2 DEF Grows
  <2> QED BY <1>3, <2>1
<1>7. ASSUME NEW j \in O
      PROVE  S(j) = Row(L[j], IF TaintedIn(L, j, n + 1) THEN "ambiguous" ELSE "pending",
                        Named(L, j) + (IF j = i THEN 1 ELSE 0))
  <2>1. j \in 1 .. n BY <1>1
  <2>2. /\ Named(K, j) = Named(L, j) + (IF j = i THEN 1 ELSE 0)
        /\ TaintedIn(K, j, n + 2) <=> TaintedIn(L, j, n + 1)
    BY <1>2, <1>3, <1>4, <2>1 DEF Grows
  <2> QED BY <1>5, <2>1, <2>2 DEF RowIn
<1>8. \A j \in O : j # i => S(j) = R(j)
  <2> SUFFICES ASSUME NEW j \in O, j # i PROVE S(j) = R(j) OBVIOUS
  <2>1. Named(L, j) + 0 = Named(L, j) BY <1>1
  <2> QED BY <1>7, <2>1 DEF RowIn
<1>9. ~ terminal => S(i) = next
  <2> SUFFICES ASSUME ~ terminal PROVE S(i) = next OBVIOUS
  <2> DEFINE x == L[i]
             k == Named(L, i)
  <2>1. x \in Entries /\ k \in Nat BY <1>1
  <2>2. r = Row(x, "pending", k) BY DEF RowIn
  <2>3. S(i) = Row(x, "pending", k + 1) BY <1>7
  <2> HIDE DEF x, k
  <2>4. MoreOf(Row(x, "pending", k)) = Row(x, "pending", k + 1) BY <2>1, RowsChange
  <2>5. terminal = FALSE OBVIOUS
  <2>6. next = MoreOf(r) BY <2>5 DEF MoreOf
  <2> QED BY <2>2, <2>3, <2>4, <2>6
<1>10. c.requests = {R(j) : j \in O} BY DEF Explained
<1>11. r = R(i) OBVIOUS
<1> HIDE DEF O, R, S, next
<1>12. {S(j) : j \in {k \in O : k = i => ~ terminal}}
           = (c.requests \ {r}) \cup (IF terminal THEN {} ELSE {next})
  <2>1. c.requests \ {r} = {R(j) : j \in O \ {i}}
    <3>1. \A j \in O : R(j) = r => j = i BY <1>1, <1>11 DEF O, R
    <3> QED BY <1>10, <1>11, <3>1
  <2>2. CASE terminal
    <3>1. {k \in O : k = i => ~ terminal} = O \ {i} BY <2>2
    <3> QED BY <1>8, <2>1, <2>2, <3>1
  <2>3. CASE ~ terminal
    <3>1. {k \in O : k = i => ~ terminal} = O BY <2>3
    <3>2. i \in O BY DEF O
    <3> QED BY <1>8, <1>9, <2>1, <2>3, <3>1, <3>2
  <2> QED BY <2>2, <2>3
<1>13. {S(j) : j \in OpenIn(K, n + 2)} = (c.requests \ {r}) \cup (IF terminal THEN {} ELSE {next})
  BY <1>6, <1>12
<1> QED BY <1>13 DEF S, K, next, After

(* Whether correlation goes on: no request was one too many, and the streams *)
(* are usable.  Requests still wait then.                                    *)
Going(c, L, left, usable) ==
    /\ c.reason = None <=> usable /\ Whole(L, Len(L) + 1)
    /\ c.reason = None => left = "pending"

(* The correlation b continues c with the message m: one observation more,   *)
(* explained by the log with its entry.                                      *)
Continued(c, L, left, d, m, usable, b) ==
    \E o \in Observations :
        /\ o.direction = d /\ o.message = m /\ b.observations = Append(c.observations, o)
        /\ Explained(b, Append(L, [observed |-> o, usable |-> usable]), left)
        /\ Going(b, Append(L, [observed |-> o, usable |-> usable]), left, usable)

(* The table gives one more message the outcome that the log implies.        *)
LEMMA Continues ==
    ASSUME NEW c, NEW L, NEW left, Explained(c, L, left), NEW d \in Directions, NEW m \in Messages,
           NEW usable \in BOOLEAN, Unseen(L, d, m), Going(c, L, left, usable)
    PROVE  Continued(c, L, left, d, m, usable, Correlated(c, d, m))
<1> DEFINE n == Len(L)
           O == OpenIn(L, n + 1)
           use == usable /\ Whole(L, n + 1)
           E(o) == [observed |-> o, usable |-> usable]
           T(o) == After(L, E(o), left, n)
           One(o, status) == IF o.status = status THEN 1 ELSE 0
           Counts(b, o) == /\ b.matched = c.matched + One(o, "matched")
                           /\ b.unmatched = c.unmatched + One(o, "unmatched")
                           /\ b.ambiguous = c.ambiguous + One(o, "ambiguous")
                           /\ b.non_correlatable = c.non_correlatable + One(o, "non_correlatable")
<1>1. c \in Correlations /\ L \in Seq(Entries) BY DEF Explained
<1>2. /\ n \in Nat /\ DOMAIN L = 1 .. n /\ O \in SUBSET (1 .. n)
      /\ \A j \in 1 .. n : /\ L[j] \in Entries /\ MessageOf(L[j]) \in Messages
                           /\ SenderOf(L[j]) \in Directions
      /\ IsFiniteSet(O) /\ Cardinality(O) \in Nat /\ Cardinality(c.requests) = Cardinality(O)
  BY TableIs
<1>3. \A j \in O : LET r == RowIn(L, j, left)
                   IN /\ r \in c.requests /\ r.direction = SenderOf(L[j]) /\ r.message = MessageOf(L[j])
                      /\ r.status = IF TaintedIn(L, j, n + 1) THEN "ambiguous" ELSE left
  BY TableIs
<1>4. \A r \in c.requests : \E j \in O : r = RowIn(L, j, left)
  <2>1. c.requests = {RowIn(L, j, left) : j \in O} BY DEF Explained
  <2> HIDE DEF O
  <2> QED BY <2>1
<1>5. \A i, j \in O : SameKey(L[i], L[j]) => i = j BY DEF Explained
<1>6. (c.reason = None <=> use) /\ (c.reason = None => left = "pending") BY DEF Going
<1>7. c.matched \in Nat /\ c.unmatched \in Nat /\ c.ambiguous \in Nat /\ c.non_correlatable \in Nat
  BY <1>1, CorrelationsAre
<1>8. ASSUME NEW o \in Observations, o.direction = d, o.message = m
      PROVE  /\ E(o) \in Entries /\ SenderOf(E(o)) = d /\ MessageOf(E(o)) = m /\ StatusOf(E(o)) = o.status
             /\ E(o).usable = usable
             /\ Asks(E(o)) <=> Correlatable(m) /\ m.operation \in RequestOperations
             /\ Answers(E(o)) <=> Correlatable(m) /\ m.operation \notin RequestOperations
  BY <1>8 DEF Entries, SenderOf, MessageOf, StatusOf, Asks, Answers
<1> HIDE DEF n, O, use
<1>9. ASSUME NEW o \in Observations, o.direction = d, o.message = m, NEW b \in Correlations,
             b.observations = Append(c.observations, o), Counts(b, o),
             Explains(L, E(o), n + 1), b.requests = T(o),
             b.reason = None <=> use /\ ~ (Asks(E(o)) /\ o.status = "unresolved"),
             b.reason = None => c.reason = None
      PROVE  Continued(c, L, left, d, m, usable, b)
  <2> DEFINE K == Append(L, E(o))
  <2>1. /\ E(o) \in Entries /\ SenderOf(E(o)) = d /\ MessageOf(E(o)) = m /\ StatusOf(E(o)) = o.status
        /\ E(o).usable = usable
    BY <1>8, <1>9
  <2>2. Explained(b, K, left)
    <3> HIDE DEF E
    <3> QED BY <1>6, <1>9, <2>1, OneMore, ZenonT(30) DEF n, After
  <2>3. Grows(L, E(o), K, n)
    <3> HIDE DEF E
    <3> QED BY <1>1, <2>1, LogGrows DEF n
  <2>4. Whole(K, n + 2) <=> Whole(L, n + 1) /\ (Asks(E(o)) /\ usable => o.status # "unresolved")
    <3> HIDE DEF E, K
    <3> QED BY <2>1, <2>3 DEF Grows
  <2>5. Len(K) + 1 = n + 2 /\ n \in Nat
    <3> HIDE DEF E, K
    <3> QED BY <1>2, <2>3 DEF Grows
  <2>6. Going(b, K, left, usable)
    <3> HIDE DEF E, K
    <3> QED BY <1>6, <1>9, <2>4, <2>5 DEF Going, use
  <2> QED BY <1>9, <2>2, <2>6 DEF Continued
<1>10. ASSUME NEW status \in Outcomes, NEW request \in Messages \cup {None},
              NEW summary \in Summaries \cup {None}
       PROVE  LET o == Observation(d, m, status, request, summary)
              IN o \in Observations /\ o.direction = d /\ o.message = m /\ o.status = status
                 /\ o.request = request
  <2>1. Observation(d, m, status, request, summary) \in Observations BY ObservationsAre
  <2> QED BY <2>1 DEF Observation
<1>11. {"pending", "matched", "unmatched", "ambiguous", "unresolved", "non_correlatable"} \subseteq Outcomes
       /\ StartSummary("pending") \in Summaries /\ StartSummary("unresolved") \in Summaries
  BY DEF Outcomes, StartSummary, Summaries
<1>12. \A s, id : /\ \A r \in Pending(c, s, id) : \E j \in O : /\ r = RowIn(L, j, left)
                                                              /\ SenderOf(L[j]) = s /\ MessageOf(L[j]).id = id
                  /\ \A j \in O : SenderOf(L[j]) = s /\ MessageOf(L[j]).id = id
                                     => RowIn(L, j, left) \in Pending(c, s, id)
  BY <1>3, <1>4 DEF Pending
<1>13. \A b, rs, os, ma, un, am, no, re : Has(b, rs, os, ma, un, am, no, re) =>
           /\ b \in Correlations /\ b.requests = rs /\ b.observations = os /\ b.matched = ma
           /\ b.unmatched = un /\ b.ambiguous = am /\ b.non_correlatable = no /\ b.reason = re
  BY DEF Has
<1>14. ASSUME NEW o \in Observations, o.direction = d, o.message = m,
              o.status \notin {"pending", "matched"},
              use => (\A j \in O : ~ RepeatsIt(E(o), L[j]))
       PROVE  T(o) = c.requests
  <2>1. E(o) \in Entries /\ StatusOf(E(o)) = o.status /\ E(o).usable = usable BY <1>8, <1>14
  <2>2. \A j \in OpenIn(L, n + 1) : ~ (E(o).usable /\ Whole(L, n + 1) /\ RepeatsIt(E(o), L[j]))
    <3> HIDE DEF E
    <3> QED BY <1>14, <2>1 DEF O, use
  <2> HIDE DEF E
  <2> QED BY <1>14, <2>1, <2>2, RowsKept DEF n
<1>15. CASE ~ Correlatable(m)
  <2> DEFINE o == Observation(d, m, "non_correlatable", None, None)
             b == NonCorrelatable(c, d, m)
             repeated == IF c.reason = None /\ m.status = "unsupported" THEN Pending(c, d, m.id) ELSE {}
  <2>1. o \in Observations /\ o.direction = d /\ o.message = m /\ o.status = "non_correlatable"
    BY <1>10, <1>11
  <2>2. Has(b, Marked(c.requests, repeated),
            Append(c.observations, o), c.matched, c.unmatched, c.ambiguous, c.non_correlatable + 1, c.reason)
    BY <1>1, BranchesAre DEF Marked
  <2> HIDE DEF o, b, E, repeated
  <2>3. /\ E(o) \in Entries /\ SenderOf(E(o)) = d /\ MessageOf(E(o)) = m
        /\ StatusOf(E(o)) = "non_correlatable" /\ E(o).usable = usable /\ ~ Asks(E(o)) /\ ~ Answers(E(o))
    BY <1>8, <1>15, <2>1
  <2>4. Explains(L, E(o), n + 1) BY <2>3 DEF Explains
  <2>5. Marked(c.requests, repeated) = T(o)
    <3>1. CASE c.reason = None /\ m.status = "unsupported"
      <4>1. repeated = Pending(c, SenderOf(E(o)), MessageOf(E(o)).id) BY <2>3, <3>1 DEF repeated
      <4>2. usable /\ Whole(L, n + 1) /\ StatusOf(E(o)) \notin {"pending", "matched"}
            /\ MessageOf(E(o)).status = "unsupported"
        BY <1>6, <2>3, <3>1 DEF use
      <4>3. T(o) = Marked(c.requests, repeated)
        <5> DEFINE e == E(o)
        <5>1. e \in Entries /\ e.usable /\ Whole(L, n + 1) /\ StatusOf(e) \notin {"pending", "matched"}
              /\ repeated = Pending(c, SenderOf(e), MessageOf(e).id) /\ MessageOf(e).status = "unsupported"
          BY <2>3, <4>1, <4>2
        <5> HIDE DEF e
        <5>2. After(L, e, left, n) = Marked(c.requests, repeated)
          BY <5>1, RowsMarked DEF n
        <5> QED BY <5>2 DEF e
      <4> QED BY <4>3
    <3>2. CASE ~ (c.reason = None /\ m.status = "unsupported")
      <4>1. repeated = {} BY <3>2 DEF repeated
      <4>2. use => (\A j \in O : ~ RepeatsIt(E(o), L[j])) BY <1>6, <2>3, <3>2 DEF RepeatsIt
      <4>3. T(o) = c.requests BY <1>14, <2>1, <4>2
      <4> QED BY <4>1, <4>3 DEF Marked
    <3> QED BY <3>1, <3>2
  <2>6. /\ b \in Correlations /\ b.requests = T(o) /\ b.observations = Append(c.observations, o)
        /\ b.matched = c.matched /\ b.unmatched = c.unmatched /\ b.ambiguous = c.ambiguous
        /\ b.non_correlatable = c.non_correlatable + 1 /\ b.reason = c.reason
    <3> HIDE DEF T
    <3> QED BY <2>2, <2>5 DEF Has
  <2>7. Counts(b, o) BY <1>7, <2>1, <2>6
  <2>8. Correlated(c, d, m) = b BY <1>15 DEF Correlated, b
  <2> HIDE DEF T, Counts
  <2> QED BY <1>6, <1>9, <2>1, <2>3, <2>4, <2>6, <2>7, <2>8
<1>16. c.requests \in SUBSET Requests /\ \A s, id : Pending(c, s, id) \subseteq Requests
  BY <1>1, CorrelationsAre DEF Pending
<1>17. CASE Correlatable(m) /\ m.operation \in RequestOperations
  <2>1. \A o \in Observations : o.direction = d /\ o.message = m =>
           /\ E(o) \in Entries /\ SenderOf(E(o)) = d /\ MessageOf(E(o)) = m /\ StatusOf(E(o)) = o.status
           /\ E(o).usable = usable /\ Asks(E(o)) /\ ~ Answers(E(o))
    <3> HIDE DEF E
    <3> QED BY <1>8, <1>17
  <2>2. \A o \in Observations : o.direction = d /\ o.message = m =>
           \A j \in O : RepeatsIt(E(o), L[j]) <=> SenderOf(L[j]) = d /\ MessageOf(L[j]).id = m.id
    <3> HIDE DEF E
    <3> QED BY <2>1 DEF RepeatsIt, SameKey
  <2>3. Correlated(c, d, m) = RequestObserved(c, d, m) BY <1>17 DEF Correlated
  <2> HIDE DEF E, T
  <2>4. CASE c.reason # None
    <3> DEFINE o == Observation(d, m, "unresolved", m, StartSummary("unresolved"))
               b == RequestUnavailable(c, d, m)
    <3>1. o \in Observations /\ o.direction = d /\ o.message = m /\ o.status = "unresolved"
      BY <1>10, <1>11
    <3>2. Has(b, c.requests, Append(c.observations, o), c.matched, c.unmatched, c.ambiguous,
              c.non_correlatable, c.reason)
      BY <1>1, BranchesAre
    <3> HIDE DEF o, b
    <3>3. Explains(L, E(o), n + 1)
      <4>1. ~ (E(o).usable /\ Whole(L, n + 1)) BY <1>6, <2>1, <2>4, <3>1 DEF use
      <4> QED BY <2>1, <3>1, <4>1 DEF Explains
    <3>4. T(o) = c.requests BY <1>6, <1>14, <2>4, <3>1
    <3>5. /\ b \in Correlations /\ b.requests = T(o) /\ b.observations = Append(c.observations, o)
          /\ b.matched = c.matched /\ b.unmatched = c.unmatched /\ b.ambiguous = c.ambiguous
          /\ b.non_correlatable = c.non_correlatable /\ b.reason = c.reason
      BY <3>2, <3>4 DEF Has
    <3>6. Counts(b, o) BY <1>7, <3>1, <3>5
    <3>7. Correlated(c, d, m) = b BY <2>3, <2>4 DEF RequestObserved, b
    <3> HIDE DEF Counts
    <3> QED BY <1>6, <1>9, <2>4, <3>1, <3>3, <3>5, <3>6, <3>7
  <2>5. CASE c.reason = None /\ Pending(c, d, m.id) # {}
    <3> DEFINE b == RequestRepeated(c, d, m)
    <3>1. PICK r \in Pending(c, d, m.id) :
                  Has(b, (c.requests \ {r}) \cup {MarkAmbiguous(r)},
                      Append(c.observations,
                             Observation(d, m, "ambiguous", r.message, MarkAmbiguous(r).summary)),
                      c.matched, c.unmatched, c.ambiguous + 1, c.non_correlatable, c.reason)
      BY <1>1, <2>5, BranchesAre
    <3> DEFINE o == Observation(d, m, "ambiguous", r.message, MarkAmbiguous(r).summary)
    <3>2. r.message \in Messages /\ MarkAmbiguous(r).summary \in Summaries
      <4>1. r \in Requests BY <1>16
      <4> QED BY <4>1, RequestsAre DEF Observations
    <3>3. o \in Observations /\ o.direction = d /\ o.message = m /\ o.status = "ambiguous"
      BY <1>10, <1>11, <3>2
    <3>4. Has(b, (c.requests \ {r}) \cup {MarkAmbiguous(r)}, Append(c.observations, o),
              c.matched, c.unmatched, c.ambiguous + 1, c.non_correlatable, c.reason)
      BY <3>1
    <3>5. PICK i \in O : r = RowIn(L, i, left) /\ SenderOf(L[i]) = d /\ MessageOf(L[i]).id = m.id
      BY <1>12
    <3>6. Pending(c, d, m.id) = {r}
      <4>1. ASSUME NEW q \in Pending(c, d, m.id) PROVE q = r
        <5>1. PICK j \in O : q = RowIn(L, j, left) /\ SenderOf(L[j]) = d /\ MessageOf(L[j]).id = m.id
          BY <1>12
        <5>2. i = j BY <1>5, <3>5, <5>1 DEF SameKey
        <5> QED BY <3>5, <5>1, <5>2
      <4> QED BY <4>1
    <3> HIDE DEF o, b
    <3>7. /\ E(o) \in Entries /\ SenderOf(E(o)) = d /\ MessageOf(E(o)) = m /\ StatusOf(E(o)) = "ambiguous"
          /\ E(o).usable = usable /\ Asks(E(o)) /\ ~ Answers(E(o))
      BY <2>1, <3>3
    <3>8. usable /\ Whole(L, n + 1) BY <1>6, <2>5 DEF use
    <3>9. Explains(L, E(o), n + 1)
      <4>1. i \in {j \in OpenIn(L, n + 1) : RepeatsIt(E(o), L[j])} BY <2>2, <3>3, <3>5 DEF O
      <4>2. {j \in OpenIn(L, n + 1) : RepeatsIt(E(o), L[j])} # {} BY <4>1
      <4> QED BY <3>7, <3>8, <4>2 DEF Explains
    <3>10. T(o) = Marked(c.requests, {r})
      <4> DEFINE e == E(o)
                 P == {r}
      <4>1. e \in Entries /\ e.usable /\ Whole(L, n + 1) /\ StatusOf(e) \notin {"pending", "matched"}
            /\ P = Pending(c, SenderOf(e), MessageOf(e).id) /\ Asks(e)
        BY <3>6, <3>7, <3>8
      <4> HIDE DEF e, P
      <4>2. After(L, e, left, n) = Marked(c.requests, P) BY <4>1, RowsMarked DEF n
      <4> QED BY <4>2 DEF e, P, T
    <3>11. Marked(c.requests, {r}) = (c.requests \ {r}) \cup {MarkAmbiguous(r)} BY DEF Marked
    <3>12. /\ b \in Correlations /\ b.requests = T(o) /\ b.observations = Append(c.observations, o)
           /\ b.matched = c.matched /\ b.unmatched = c.unmatched /\ b.ambiguous = c.ambiguous + 1
           /\ b.non_correlatable = c.non_correlatable /\ b.reason = c.reason
      BY <3>4, <3>10, <3>11 DEF Has
    <3>13. Counts(b, o) BY <1>7, <3>3, <3>12
    <3>14. Correlated(c, d, m) = b BY <2>3, <2>5 DEF RequestObserved, b
    <3> HIDE DEF Counts
    <3> QED BY <1>6, <1>9, <2>5, <3>3, <3>9, <3>12, <3>13, <3>14
  <2>6. ASSUME c.reason = None, Pending(c, d, m.id) = {}, NEW o \in Observations, o.direction = d, o.message = m
        PROVE  /\ \A j \in O : ~ RepeatsIt(E(o), L[j])
               /\ E(o).usable /\ Whole(L, n + 1)
               /\ {j \in OpenIn(L, n + 1) : RepeatsIt(E(o), L[j])} = {}
    <3>1. \A j \in O : ~ RepeatsIt(E(o), L[j]) BY <1>12, <2>2, <2>6
    <3>2. E(o).usable /\ Whole(L, n + 1) BY <1>6, <2>1, <2>6 DEF use
    <3> QED BY <3>1, <3>2 DEF O
  <2>7. CASE c.reason = None /\ Pending(c, d, m.id) = {} /\ Cardinality(c.requests) = MaxPending
    <3> DEFINE o == Observation(d, m, "unresolved", m, StartSummary("unresolved"))
               b == RequestOverflows(c, d, m)
    <3>1. o \in Observations /\ o.direction = d /\ o.message = m /\ o.status = "unresolved"
      BY <1>10, <1>11
    <3>2. Has(b, c.requests, Append(c.observations, o), c.matched, c.unmatched, c.ambiguous,
              c.non_correlatable, "limit exceeded")
      BY <1>1, BranchesAre
    <3> HIDE DEF o, b
    <3>3. Explains(L, E(o), n + 1)
      <4>1. E(o).usable /\ Whole(L, n + 1) /\ {j \in OpenIn(L, n + 1) : RepeatsIt(E(o), L[j])} = {}
        BY <2>6, <2>7, <3>1
      <4>2. ~ (Cardinality(OpenIn(L, n + 1)) < MaxPending) BY <1>2, <2>7, PendingAssumption DEF O
      <4> QED BY <2>1, <3>1, <4>1, <4>2 DEF Explains
    <3>4. T(o) = c.requests
      <4>1. \A j \in O : ~ RepeatsIt(E(o), L[j]) BY <2>6, <2>7, <3>1
      <4> QED BY <1>14, <3>1, <4>1
    <3>5. /\ b \in Correlations /\ b.requests = T(o) /\ b.observations = Append(c.observations, o)
          /\ b.matched = c.matched /\ b.unmatched = c.unmatched /\ b.ambiguous = c.ambiguous
          /\ b.non_correlatable = c.non_correlatable /\ b.reason # None
      BY <3>2, <3>4, NoCorrelationAssumption DEF Has
    <3>6. Counts(b, o) BY <1>7, <3>1, <3>5
    <3>7. Correlated(c, d, m) = b BY <2>3, <2>7 DEF RequestObserved, b
    <3> HIDE DEF Counts
    <3> QED BY <1>6, <1>9, <2>1, <2>7, <3>1, <3>3, <3>5, <3>6, <3>7
  <2>8. CASE c.reason = None /\ Pending(c, d, m.id) = {} /\ Cardinality(c.requests) # MaxPending
    <3> DEFINE o == Observation(d, m, "pending", m, StartSummary("pending"))
               b == RequestOutstanding(c, d, m)
    <3>1. o \in Observations /\ o.direction = d /\ o.message = m /\ o.status = "pending"
      BY <1>10, <1>11
    <3>2. Has(b, c.requests \cup {o}, Append(c.observations, o), c.matched, c.unmatched, c.ambiguous,
              c.non_correlatable, c.reason)
      BY <1>1, BranchesAre
    <3>0. o = Row(E(o), "pending", 0)
      <4>1. SenderOf(E(o)) = d /\ MessageOf(E(o)) = m BY <2>1, <3>1
      <4> DEFINE e == E(o)
      <4>2. SenderOf(e) = d /\ MessageOf(e) = m BY <4>1
      <4> HIDE DEF e
      <4>3. Row(e, "pending", 0) = o BY <4>2 DEF Row, Observation, StartSummary
      <4> QED BY <4>3 DEF e
    <3> HIDE DEF o, b
    <3>3. E(o).usable /\ Whole(L, n + 1) /\ {j \in OpenIn(L, n + 1) : RepeatsIt(E(o), L[j])} = {}
          /\ \A j \in OpenIn(L, n + 1) : ~ RepeatsIt(E(o), L[j])
      BY <2>6, <2>8, <3>1
    <3>4. Explains(L, E(o), n + 1)
      <4>1. Cardinality(OpenIn(L, n + 1)) <= MaxPending BY DEF Explained, n
      <4>2. Cardinality(OpenIn(L, n + 1)) < MaxPending
        BY <1>2, <2>8, <4>1, PendingAssumption DEF O
      <4> QED BY <2>1, <3>1, <3>3, <4>2 DEF Explains
    <3>5. left = "pending" BY <1>6, <2>8
    <3>6. T(o) = c.requests \cup {o}
      <4> DEFINE e == E(o)
      <4>1. /\ e \in Entries /\ StatusOf(e) = "pending" /\ SenderOf(e) = d /\ MessageOf(e) = m
            /\ \A j \in OpenIn(L, n + 1) : ~ RepeatsIt(e, L[j])
        BY <2>1, <3>1, <3>3
      <4>2. T(o) = After(L, e, "pending", n) BY <3>5 DEF T
      <4>3. o = Row(e, "pending", 0) BY <3>0
      <4> HIDE DEF e
      <4>4. Explained(c, L, "pending") BY <3>5
      <4>5. Unseen(L, SenderOf(e), MessageOf(e)) BY <4>1
      <4>6. After(L, e, "pending", n) = c.requests \cup {Row(e, "pending", 0)}
        BY <4>1, <4>4, <4>5, RowsAdded DEF n
      <4> QED BY <4>2, <4>3, <4>6
    <3>7. /\ b \in Correlations /\ b.requests = T(o) /\ b.observations = Append(c.observations, o)
          /\ b.matched = c.matched /\ b.unmatched = c.unmatched /\ b.ambiguous = c.ambiguous
          /\ b.non_correlatable = c.non_correlatable /\ b.reason = c.reason
      BY <3>2, <3>6 DEF Has
    <3>8. Counts(b, o) BY <1>7, <3>1, <3>7
    <3>9. Correlated(c, d, m) = b BY <2>3, <2>8 DEF RequestObserved, b
    <3> HIDE DEF Counts
    <3> QED BY <1>6, <1>9, <2>8, <3>1, <3>4, <3>7, <3>8, <3>9
  <2> QED BY <2>4, <2>5, <2>7, <2>8
<1>18. CASE Correlatable(m) /\ m.operation \notin RequestOperations
  <2> DEFINE s == Opposite(d)
             A == IF c.reason = None THEN Pending(c, s, m.id) ELSE {}
             p == CHOOSE r \in A : TRUE
  <2>2. Correlated(c, d, m) =
          IF A = {} THEN ResponseUnmatched(c, d, m)
          ELSE IF p.status = "ambiguous" THEN ResponseAmbiguous(c, d, m)
          ELSE IF p.message.operation # ResponseRequests[m.operation] THEN ResponseUnmatched(c, d, m)
          ELSE ResponseMatched(c, d, m, p)
    BY <1>18 DEF Correlated, ResponseObserved
  <2>3. A # {} => p \in A OBVIOUS
  <2> HIDE DEF E, T, s, A, p
  <2>1. ASSUME NEW o \in Observations, o.direction = d, o.message = m
        PROVE  /\ E(o) \in Entries /\ SenderOf(E(o)) = d /\ MessageOf(E(o)) = m /\ StatusOf(E(o)) = o.status
               /\ E(o).usable = usable /\ ~ Asks(E(o)) /\ Answers(E(o))
               /\ \A j \in O : ~ RepeatsIt(E(o), L[j])
    <3>1. /\ E(o) \in Entries /\ SenderOf(E(o)) = d /\ MessageOf(E(o)) = m /\ StatusOf(E(o)) = o.status
          /\ E(o).usable = usable /\ ~ Asks(E(o)) /\ Answers(E(o))
      BY <1>8, <1>18, <2>1
    <3>2. m.status # "unsupported" BY <1>18 DEF Correlatable
    <3>3. \A j \in O : ~ RepeatsIt(E(o), L[j]) BY <3>1, <3>2 DEF RepeatsIt
    <3> QED BY <3>1, <3>3
  <2>14. ASSUME NEW o \in Observations, o.direction = d, o.message = m, NEW j \in O
         PROVE  /\ AddressesIt(E(o), L[j]) <=> SenderOf(L[j]) = s /\ MessageOf(L[j]).id = m.id
                /\ FitsIt(E(o), L[j]) <=> AddressesIt(E(o), L[j])
                                    /\ ResponseRequests[m.operation] = MessageOf(L[j]).operation
    <3>1. SenderOf(E(o)) = d /\ MessageOf(E(o)) = m /\ Answers(E(o)) BY <2>1, <2>14
    <3>2. SenderOf(L[j]) \in Directions BY <1>2
    <3>3. d # SenderOf(L[j]) <=> SenderOf(L[j]) = s BY <3>2 DEF Directions, Opposite, s
    <3>4. AddressesIt(E(o), L[j]) <=> SenderOf(L[j]) = s /\ MessageOf(L[j]).id = m.id
      BY <3>1, <3>3 DEF AddressesIt
    <3>5. FitsIt(E(o), L[j]) <=> AddressesIt(E(o), L[j])
                                    /\ ResponseRequests[m.operation] = MessageOf(L[j]).operation
      BY <3>1 DEF FitsIt
    <3> QED BY <3>4, <3>5
  <2>4. A = {} => \A j \in O : use => ~ (SenderOf(L[j]) = s /\ MessageOf(L[j]).id = m.id)
    BY <1>6, <1>12 DEF A
  <2>5. A # {} => /\ c.reason = None /\ use /\ left = "pending" /\ p \in Requests
                  /\ \E i \in O : /\ p = RowIn(L, i, left) /\ SenderOf(L[i]) = s /\ MessageOf(L[i]).id = m.id
    <3> SUFFICES ASSUME A # {}
                 PROVE  /\ c.reason = None /\ use /\ left = "pending" /\ p \in Requests
                        /\ \E i \in O : /\ p = RowIn(L, i, left) /\ SenderOf(L[i]) = s /\ MessageOf(L[i]).id = m.id
      OBVIOUS
    <3>1. c.reason = None /\ p \in Pending(c, s, m.id) BY <2>3 DEF A
    <3> QED BY <1>6, <1>12, <1>16, <3>1
  <2>6. \A i, j \in O : SenderOf(L[i]) = s /\ MessageOf(L[i]).id = m.id
                          /\ SenderOf(L[j]) = s /\ MessageOf(L[j]).id = m.id => i = j
    BY <1>5 DEF SameKey
  <2>7. ASSUME NEW o \in Observations, o.direction = d, o.message = m, o.status = "unmatched",
               NEW b, Has(b, c.requests, Append(c.observations, o), c.matched, c.unmatched + 1, c.ambiguous,
                          c.non_correlatable, c.reason),
               Explains(L, E(o), n + 1)
        PROVE  Continued(c, L, left, d, m, usable, b)
    <3>1. \A j \in O : ~ RepeatsIt(E(o), L[j]) BY <2>1, <2>7
    <3>2. T(o) = c.requests BY <1>14, <2>7, <3>1
    <3>3. /\ b \in Correlations /\ b.requests = T(o) /\ b.observations = Append(c.observations, o)
          /\ b.matched = c.matched /\ b.unmatched = c.unmatched + 1 /\ b.ambiguous = c.ambiguous
          /\ b.non_correlatable = c.non_correlatable /\ b.reason = c.reason
      BY <2>7, <3>2 DEF Has
    <3>4. Counts(b, o) BY <1>7, <2>7, <3>3
    <3> HIDE DEF Counts
    <3> QED BY <1>6, <1>9, <2>1, <2>7, <3>3, <3>4
  <2>8. ASSUME NEW o \in Observations, o.direction = d, o.message = m, o.status = "unmatched",
               \A j \in O : use /\ AddressesIt(E(o), L[j]) => ~ FitsIt(E(o), L[j]) /\ ~ TaintedIn(L, j, n + 1)
        PROVE  Explains(L, E(o), n + 1)
    <3>1. ~ Asks(E(o)) /\ StatusOf(E(o)) = "unmatched" /\ E(o).usable = usable BY <2>1, <2>8
    <3>2. /\ ~ (E(o).usable /\ Whole(L, n + 1) /\ (\E j \in OpenIn(L, n + 1) : AddressesIt(E(o), L[j]) /\ TaintedIn(L, j, n + 1)))
          /\ ~ (E(o).usable /\ Whole(L, n + 1) /\ (\E j \in OpenIn(L, n + 1) : FitsIt(E(o), L[j]) /\ ~ TaintedIn(L, j, n + 1)))
      BY <2>8, <3>1 DEF O, use, FitsIt
    <3> QED BY <2>1, <2>8, <3>1, <3>2 DEF Explains
  <2>9. CASE A = {}
    <3> DEFINE o == Observation(d, m, "unmatched", None, None)
               b == ResponseUnmatched(c, d, m)
    <3>1. o \in Observations /\ o.direction = d /\ o.message = m /\ o.status = "unmatched"
      BY <1>10, <1>11
    <3>2. Has(b, c.requests, Append(c.observations, o), c.matched, c.unmatched + 1, c.ambiguous,
              c.non_correlatable, c.reason)
      BY <1>1, BranchesAre
    <3> HIDE DEF o
    <3>3. Explains(L, E(o), n + 1)
      <4>1. \A j \in O : use => ~ AddressesIt(E(o), L[j]) BY <2>4, <2>9, <2>14, <3>1
      <4> QED BY <2>8, <3>1, <4>1
    <3>4. Continued(c, L, left, d, m, usable, b)
      <4> HIDE DEF b
      <4> QED BY <2>7, <3>1, <3>2, <3>3
    <3> QED BY <2>2, <2>9, <3>4
  <2>10. CASE A # {} /\ p.status = "ambiguous"
    <3> DEFINE o == Observation(d, m, "ambiguous", None, None)
               b == ResponseAmbiguous(c, d, m)
    <3>1. o \in Observations /\ o.direction = d /\ o.message = m /\ o.status = "ambiguous"
      BY <1>10, <1>11
    <3>2. Has(b, c.requests, Append(c.observations, o), c.matched, c.unmatched, c.ambiguous + 1,
              c.non_correlatable, c.reason)
      BY <1>1, BranchesAre
    <3>3. PICK i \in O : /\ p = RowIn(L, i, left) /\ SenderOf(L[i]) = s /\ MessageOf(L[i]).id = m.id
      BY <2>5, <2>10
    <3> HIDE DEF o
    <3>4. TaintedIn(L, i, n + 1)
      <4>1. p.status = IF TaintedIn(L, i, n + 1) THEN "ambiguous" ELSE left BY <1>3, <3>3
      <4>2. left # "ambiguous" BY <2>5, <2>10
      <4> QED BY <2>10, <4>1, <4>2
    <3>5. /\ E(o) \in Entries /\ StatusOf(E(o)) = "ambiguous" /\ E(o).usable = usable /\ ~ Asks(E(o))
          /\ AddressesIt(E(o), L[i])
      <4>1. AddressesIt(E(o), L[i]) BY <2>14, <3>1, <3>3
      <4> QED BY <2>1, <3>1, <4>1
    <3>6. Explains(L, E(o), n + 1)
      <4>1. E(o).usable /\ Whole(L, n + 1) BY <2>5, <2>10, <3>5 DEF use
      <4>2. \E j \in OpenIn(L, n + 1) : AddressesIt(E(o), L[j]) /\ TaintedIn(L, j, n + 1)
        BY <3>4, <3>5 DEF O
      <4>3. Answers(E(o)) BY <2>1, <3>1
      <4> QED BY <3>5, <4>1, <4>2, <4>3 DEF Explains
    <3>7. T(o) = c.requests
      <4>1. \A j \in O : ~ RepeatsIt(E(o), L[j]) BY <2>1, <3>1
      <4> QED BY <1>14, <3>1, <4>1
    <3>8. Correlated(c, d, m) = b BY <2>2, <2>10
    <3> HIDE DEF b
    <3>9. /\ b \in Correlations /\ b.requests = T(o) /\ b.observations = Append(c.observations, o)
          /\ b.matched = c.matched /\ b.unmatched = c.unmatched /\ b.ambiguous = c.ambiguous + 1
          /\ b.non_correlatable = c.non_correlatable /\ b.reason = c.reason
      BY <3>2, <3>7 DEF Has
    <3>10. Counts(b, o) BY <1>7, <3>1, <3>9
    <3> HIDE DEF Counts
    <3> QED BY <1>6, <1>9, <3>1, <3>5, <3>6, <3>8, <3>9, <3>10
  <2>11. ASSUME A # {}, p.status # "ambiguous"
         PROVE  \E i \in O : /\ p = RowIn(L, i, left) /\ SenderOf(L[i]) = s /\ MessageOf(L[i]).id = m.id
                             /\ p.message = MessageOf(L[i]) /\ ~ TaintedIn(L, i, n + 1)
    <3>1. PICK i \in O : /\ p = RowIn(L, i, left) /\ SenderOf(L[i]) = s /\ MessageOf(L[i]).id = m.id
      BY <2>5, <2>11
    <3>2. p.status = (IF TaintedIn(L, i, n + 1) THEN "ambiguous" ELSE left) /\ p.message = MessageOf(L[i])
      BY <1>3, <3>1
    <3> QED BY <2>11, <3>1, <3>2
  <2>12. CASE A # {} /\ p.status # "ambiguous" /\ p.message.operation # ResponseRequests[m.operation]
    <3> DEFINE o == Observation(d, m, "unmatched", None, None)
               b == ResponseUnmatched(c, d, m)
    <3>1. o \in Observations /\ o.direction = d /\ o.message = m /\ o.status = "unmatched"
      BY <1>10, <1>11
    <3>2. Has(b, c.requests, Append(c.observations, o), c.matched, c.unmatched + 1, c.ambiguous,
              c.non_correlatable, c.reason)
      BY <1>1, BranchesAre
    <3>3. PICK i \in O : /\ SenderOf(L[i]) = s /\ MessageOf(L[i]).id = m.id
                        /\ p.message = MessageOf(L[i]) /\ ~ TaintedIn(L, i, n + 1)
      BY <2>11, <2>12
    <3> HIDE DEF o
    <3>4. ASSUME NEW j \in O, AddressesIt(E(o), L[j])
          PROVE  ~ FitsIt(E(o), L[j]) /\ ~ TaintedIn(L, j, n + 1)
      <4>1. j = i BY <2>6, <2>14, <3>1, <3>3, <3>4
      <4> QED BY <2>12, <2>14, <3>1, <3>3, <4>1
    <3>5. Explains(L, E(o), n + 1) BY <2>8, <3>1, <3>4
    <3>6. Continued(c, L, left, d, m, usable, b)
      <4> HIDE DEF b
      <4> QED BY <2>7, <3>1, <3>2, <3>5
    <3> QED BY <2>2, <2>12, <3>6
  <2>13. CASE A # {} /\ p.status # "ambiguous" /\ p.message.operation = ResponseRequests[m.operation]
    <3> DEFINE terminal == m.operation \notin SearchContinuations
               summary == Responded(p.summary, terminal)
               given == IF terminal THEN summary ELSE None
               o == Observation(d, m, "matched", p.message, given)
               b == ResponseMatched(c, d, m, p)
    <3>0. p \in Requests /\ terminal \in BOOLEAN BY <2>5, <2>13
    <3>1. p.message \in Messages /\ summary \in Summaries
      <4> HIDE DEF terminal
      <4> QED BY <3>0, RequestsAre DEF Observations
    <3>2. o \in Observations /\ o.direction = d /\ o.message = m /\ o.status = "matched"
          /\ o.request = p.message
      <4>1. given \in Summaries \cup {None} BY <3>1
      <4> HIDE DEF given
      <4> QED BY <1>10, <1>11, <3>1, <4>1
    <3>3. Has(b, (c.requests \ {p}) \cup (IF terminal THEN {} ELSE {[p EXCEPT !.summary = summary]}),
              Append(c.observations, o), c.matched + 1, c.unmatched, c.ambiguous,
              c.non_correlatable, c.reason)
      BY <1>1, <3>0, BranchesAre
    <3>4. Correlated(c, d, m) = b BY <2>2, <2>13
    <3>5. PICK i \in O : /\ p = RowIn(L, i, left) /\ SenderOf(L[i]) = s /\ MessageOf(L[i]).id = m.id
                        /\ p.message = MessageOf(L[i]) /\ ~ TaintedIn(L, i, n + 1)
      BY <2>11, <2>13
    <3> HIDE DEF o, b
    <3>6. /\ E(o) \in Entries /\ StatusOf(E(o)) = "matched" /\ E(o).usable = usable /\ ~ Asks(E(o))
          /\ Answers(E(o)) /\ MessageOf(E(o)) = m /\ FitsIt(E(o), L[i])
          /\ E(o).observed.request = MessageOf(L[i])
      <4>1. E(o).observed = o BY DEF E
      <4>2. FitsIt(E(o), L[i]) BY <2>13, <2>14, <3>2, <3>5
      <4> QED BY <2>1, <2>13, <3>2, <3>5, <4>1, <4>2
    <3>7. Explains(L, E(o), n + 1)
      <4>1. E(o).usable /\ Whole(L, n + 1) BY <2>5, <2>13, <3>6 DEF use
      <4>2. ~ \E j \in OpenIn(L, n + 1) : AddressesIt(E(o), L[j]) /\ TaintedIn(L, j, n + 1)
        <5>1. ASSUME NEW j \in O, AddressesIt(E(o), L[j]) PROVE ~ TaintedIn(L, j, n + 1)
          <6>1. j = i BY <2>6, <2>14, <3>2, <3>5, <5>1
          <6> QED BY <3>5, <6>1
        <5> QED BY <5>1 DEF O
      <4>3. i \in OpenIn(L, n + 1) BY DEF O
      <4>4. \E j \in OpenIn(L, n + 1) : FitsIt(E(o), L[j]) /\ ~ TaintedIn(L, j, n + 1)
        BY <3>5, <3>6, <4>3
      <4>5. \E j \in OpenIn(L, n + 1) : FitsIt(E(o), L[j]) /\ E(o).observed.request = MessageOf(L[j])
        BY <3>6, <4>3
      <4> QED BY <3>6, <4>1, <4>2, <4>4, <4>5 DEF Explains
    <3>8. T(o) = (c.requests \ {p}) \cup (IF terminal THEN {} ELSE {[p EXCEPT !.summary = summary]})
      <4> DEFINE e == E(o)
      <4>1. e \in Entries /\ StatusOf(e) = "matched" /\ Answers(e) /\ FitsIt(e, L[i])
            /\ e.observed.request = MessageOf(L[i])
        BY <3>6
      <4>2. T(o) = After(L, e, "pending", n) BY <2>5, <2>13 DEF T
      <4>3. terminal <=> MessageOf(e).operation \notin SearchContinuations BY <3>6
      <4>4. Explained(c, L, "pending") /\ p = RowIn(L, i, "pending") BY <2>5, <2>13, <3>5
      <4>5. i \in OpenIn(L, n + 1) BY DEF O
      <4> HIDE DEF e, terminal
      <4>6. After(L, e, "pending", n)
              = (c.requests \ {p}) \cup (IF terminal THEN {}
                                         ELSE {[p EXCEPT !.summary = Responded(p.summary, terminal)]})
        BY <3>0, <3>5, <4>1, <4>3, <4>4, <4>5, RowsMatched DEF n
      <4> QED BY <4>2, <4>6
    <3> HIDE DEF summary, terminal
    <3>9. /\ b \in Correlations /\ b.requests = T(o) /\ b.observations = Append(c.observations, o)
          /\ b.matched = c.matched + 1 /\ b.unmatched = c.unmatched /\ b.ambiguous = c.ambiguous
          /\ b.non_correlatable = c.non_correlatable /\ b.reason = c.reason
      BY <3>3, <3>8 DEF Has
    <3>10. Counts(b, o) BY <1>7, <3>2, <3>9
    <3> HIDE DEF Counts
    <3> QED BY <1>6, <1>9, <3>2, <3>4, <3>6, <3>7, <3>9, <3>10
  <2> QED BY <2>9, <2>10, <2>12, <2>13
<1> QED BY <1>15, <1>17, <1>18

-----------------------------------------------------------------------------
(* The messages of a packet, one after another.                              *)
Run(c, d, msgs) == FoldLeft(LAMBDA a, m : Correlated(a, d, m), c, msgs)

(* The correlation after each of the messages.                               *)
Steps(a, C, start, d, msgs) ==
    /\ a \in [0 .. Len(msgs) -> C] /\ a[0] = start
    /\ \A k \in 1 .. Len(msgs) : a[k] = Correlated(a[k - 1], d, msgs[k])

(* Treating the messages of a packet one by one passes through a sequence of *)
(* correlations.                                                             *)
LEMMA Folded ==
    ASSUME NEW C, NEW start \in C, NEW T, NEW msgs \in Seq(T), NEW d,
           \A a \in C : \A m \in T : Correlated(a, d, m) \in C
    PROVE  \E a : Steps(a, C, start, d, msgs) /\ Run(start, d, msgs) = a[Len(msgs)]
<1> DEFINE n == Len(msgs)
           S == 1 .. n
           iter[s \in SUBSET S] == IF s = {} THEN start ELSE Correlated(iter[s \ {Max(s)}], d, msgs[Max(s)])
           pick == [s \in SUBSET S |-> Max(s)]
           step == [x \in S |-> [v \in C |-> Correlated(v, d, msgs[x])]]
           Follows(g) == g = [s \in SUBSET S |-> IF s = {} THEN start
                                                ELSE Correlated(g[s \ {Max(s)}], d, msgs[Max(s)])]
<1>1. DOMAIN msgs = S /\ n \in Nat BY LenProperties
<1>2. SUFFICES \E a \in [0 .. n -> C] :
                   /\ a[0] = start
                   /\ \A k \in 1 .. n : a[k] = Correlated(a[k - 1], d, msgs[k])
                   /\ iter[S] = a[n]
  BY <1>1 DEF FoldLeft, MapThenFoldSet, Run, Steps
<1>3. \A s \in SUBSET S : s # {} => Max(s) \in s /\ s \ {Max(s)} \in SUBSET S
  <2> SUFFICES ASSUME NEW s \in SUBSET S, s # {} PROVE Max(s) \in s OBVIOUS
  <2>1. s \in SUBSET (0 .. n) BY <1>1
  <2> HIDE DEF n
  <2> QED BY <1>1, <2>1, MaxIs
<1>4. \E g : Follows(g)
  <2>1. \A s \in SUBSET S : s # {} => pick[s] \in s BY <1>3
  <2>2. \A x \in S : \A v \in C : step[x][v] \in C /\ step[x][v] = Correlated(v, d, msgs[x])
    <3>1. \A x \in S : msgs[x] \in T BY <1>1
    <3> QED BY <3>1
  <2>3. IsFiniteSet(S) BY <1>1, FS_Interval
  <2>4. PICK g \in [SUBSET S -> C] :
            \A s \in SUBSET S : g[s] = IF s = {} THEN start ELSE step[pick[s]][g[s \ {pick[s]}]]
    <3>1. \A x \in S : \A v \in C : step[x][v] \in C BY <2>2
    <3> HIDE DEF S, pick, step
    <3>2. BuiltUp(S, C, start, pick, step) BY <2>1, <2>3, <3>1, SubsetRecursion
    <3> QED BY <3>2 DEF BuiltUp
  <2>5. ASSUME NEW s \in SUBSET S, s # {}
        PROVE  step[pick[s]][g[s \ {pick[s]}]] = Correlated(g[s \ {Max(s)}], d, msgs[Max(s)])
    <3>1. pick[s] = Max(s) /\ Max(s) \in S /\ g[s \ {Max(s)}] \in C BY <1>3, <2>4, <2>5
    <3> HIDE DEF pick, step, S
    <3> QED BY <2>2, <3>1
  <2>6. Follows(g)
    <3> HIDE DEF pick, step, S
    <3> QED BY <2>4, <2>5
  <2> QED BY <2>6
<1>5. Follows(iter)
  <2>1. iter = CHOOSE g : Follows(g) OBVIOUS
  <2> HIDE DEF iter, Follows
  <2> QED BY <1>4, <2>1
<1> DEFINE a == [k \in 0 .. n |-> iter[1 .. k]]
<1>6. /\ a[0] = start
      /\ \A k \in 1 .. n : a[k] = Correlated(a[k - 1], d, msgs[k])
  <2>1. 1 .. 0 = {} /\ \A k \in 0 .. n : 1 .. k \in SUBSET S BY <1>1
  <2>2. a[0] = start
    <3>1. a[0] = iter[1 .. 0] /\ 1 .. 0 \in SUBSET S BY <1>1, <2>1
    <3> HIDE DEF iter, a
    <3> QED BY <1>5, <2>1, <3>1
  <2>3. ASSUME NEW k \in 1 .. n PROVE a[k] = Correlated(a[k - 1], d, msgs[k])
    <3>1. k \in Nat \ {0} BY <1>1
    <3>2. Max(1 .. k) = k /\ (1 .. k) \ {k} = 1 .. (k - 1) /\ 1 .. k # {} BY <3>1, LastOfInterval
    <3>3. 1 .. k \in SUBSET S /\ a[k] = iter[1 .. k] /\ a[k - 1] = iter[1 .. k - 1]
      <4>1. k \in 0 .. n /\ k - 1 \in 0 .. n BY <1>1
      <4> HIDE DEF iter, S
      <4> QED BY <2>1, <4>1
    <3> HIDE DEF iter, a, S
    <3> QED BY <1>5, <3>1, <3>2, <3>3
  <2> QED BY <2>2, <2>3
<1>7. \A k \in 0 .. n : a[k] \in C
  <2> DEFINE H == {k \in 0 .. n : a[k] \in C}
  <2>1. 0 \in H BY <1>1, <1>6
  <2>2. ASSUME NEW k \in 1 .. n, k - 1 \in H PROVE k \in H
    <3>1. a[k - 1] \in C /\ msgs[k] \in T /\ k \in 0 .. n BY <1>1, <2>2
    <3>2. a[k] = Correlated(a[k - 1], d, msgs[k]) BY <1>6
    <3> HIDE DEF a
    <3> QED BY <3>1, <3>2
  <2>3. \A k \in 0 .. n : k \in H
    <3> HIDE DEF H
    <3> QED BY <1>1, <2>1, <2>2, Upwards
  <2> QED BY <2>3
<1>8. a \in [0 .. n -> C] /\ a[n] = iter[S]
  <2>1. n \in 0 .. n BY <1>1
  <2> HIDE DEF iter
  <2> QED BY <1>7, <2>1
<1> HIDE DEF a, iter
<1> QED BY <1>6, <1>8

(* The log behind the observations of a packet.                              *)
Entered(L, os, usable) == L \o [i \in DOMAIN os |-> [observed |-> os[i], usable |-> usable]]

(* The messages of a packet, of direction d, are all in the log L by now.    *)
Followed(b, L, left, d, msgs, usable, k) ==
    /\ b.observations \in Seq(Observations) /\ Len(b.observations) = k
    /\ \A i \in 1 .. k : b.observations[i].direction = d /\ b.observations[i].message = msgs[i]
    /\ Explained(b, Entered(L, b.observations, usable), left)
    /\ Going(b, Entered(L, b.observations, usable), left, usable)

(* The log after a packet: the old entries, then one for each observation.   *)
LEMMA EnteredIs ==
    ASSUME NEW L \in Seq(Entries), NEW os \in Seq(Observations), NEW usable \in BOOLEAN
    PROVE  /\ Entered(L, os, usable) \in Seq(Entries)
           /\ Len(Entered(L, os, usable)) = Len(L) + Len(os)
           /\ DOMAIN Entered(L, os, usable) = 1 .. (Len(L) + Len(os))
           /\ \A i \in 1 .. Len(L) : Entered(L, os, usable)[i] = L[i]
           /\ \A i \in 1 .. Len(os) :
                Entered(L, os, usable)[Len(L) + i] = [observed |-> os[i], usable |-> usable]
           /\ \A i \in DOMAIN Entered(L, os, usable) :
                i \in DOMAIN L \/ \E k \in 1 .. Len(os) : i = Len(L) + k
<1> DEFINE N == [i \in DOMAIN os |-> [observed |-> os[i], usable |-> usable]]
<1>1. DOMAIN os = 1 .. Len(os) /\ Len(os) \in Nat /\ \A i \in 1 .. Len(os) : os[i] \in Observations
  BY LenProperties, ElementOfSeq
<1>2. N \in Seq(Entries) /\ Len(N) = Len(os)
  <2>1. N \in [1 .. Len(os) -> Entries] BY <1>1 DEF Entries
  <2> HIDE DEF N
  <2> QED BY <1>1, <2>1
<1>3. \A i \in 1 .. Len(os) : N[i] = [observed |-> os[i], usable |-> usable] BY <1>1
<1> HIDE DEF N
<1>4. /\ L \o N \in Seq(Entries) /\ Len(L \o N) = Len(L) + Len(N)
      /\ \A i \in 1 .. (Len(L) + Len(N)) : (L \o N)[i] = IF i <= Len(L) THEN L[i] ELSE N[i - Len(L)]
  BY <1>2, ConcatProperties
<1> DEFINE K == L \o N
<1>5. Len(L) \in Nat /\ DOMAIN L = 1 .. Len(L) BY LenProperties
<1>6. DOMAIN K = 1 .. (Len(L) + Len(os)) BY <1>2, <1>4, LenProperties
<1>7. \A i \in 1 .. Len(L) : K[i] = L[i] BY <1>1, <1>2, <1>4, <1>5
<1>8. ASSUME NEW i \in 1 .. Len(os) PROVE K[Len(L) + i] = [observed |-> os[i], usable |-> usable]
  <2>1. Len(L) + i \in 1 .. (Len(L) + Len(N)) /\ ~ (Len(L) + i <= Len(L)) /\ Len(L) + i - Len(L) = i
    BY <1>1, <1>2, <1>5
  <2> QED BY <1>3, <1>4, <2>1
<1>9. \A i \in DOMAIN K : i \in DOMAIN L \/ \E k \in 1 .. Len(os) : i = Len(L) + k
  <2> SUFFICES ASSUME NEW i \in 1 .. (Len(L) + Len(os)), i \notin 1 .. Len(L)
               PROVE  \E k \in 1 .. Len(os) : i = Len(L) + k
    BY <1>5, <1>6
  <2>1. i - Len(L) \in 1 .. Len(os) /\ i = Len(L) + (i - Len(L)) BY <1>1, <1>5
  <2> QED BY <2>1
<1>10. Entered(L, os, usable) = K BY DEF Entered, N
<1> HIDE DEF K
<1> QED BY <1>2, <1>4, <1>6, <1>7, <1>8, <1>9, <1>10 DEF K

(* Entering one more observation appends its entry.                          *)
LEMMA EnteredGrows ==
    ASSUME NEW L \in Seq(Entries), NEW os \in Seq(Observations), NEW o \in Observations,
           NEW usable \in BOOLEAN
    PROVE  Entered(L, Append(os, o), usable) = Append(Entered(L, os, usable), [observed |-> o, usable |-> usable])
<1> DEFINE p == Append(os, o)
           A == Entered(L, p, usable)
           e == [observed |-> o, usable |-> usable]
           B == Entered(L, os, usable)
           n == Len(L)
           k == Len(os)
<1>0. n \in Nat /\ k \in Nat BY LenProperties
<1>1. p \in Seq(Observations) /\ Len(p) = k + 1 /\ p[k + 1] = o /\ \A i \in 1 .. k : p[i] = os[i]
  BY AppendProperties
<1>2. e \in Entries BY DEF Entries
<1> HIDE DEF p, e
<1>3. /\ A \in Seq(Entries) /\ Len(A) = n + (k + 1) /\ \A i \in 1 .. n : A[i] = L[i]
      /\ \A i \in 1 .. (k + 1) : A[n + i] = [observed |-> p[i], usable |-> usable]
  <2>1. /\ A \in Seq(Entries) /\ Len(A) = Len(L) + Len(p) /\ \A i \in 1 .. Len(L) : A[i] = L[i]
        /\ \A i \in 1 .. Len(p) : A[Len(L) + i] = [observed |-> p[i], usable |-> usable]
    BY <1>1, EnteredIs
  <2> QED BY <1>1, <2>1
<1>4. /\ B \in Seq(Entries) /\ Len(B) = n + k /\ \A i \in 1 .. n : B[i] = L[i]
      /\ \A i \in 1 .. k : B[n + i] = [observed |-> os[i], usable |-> usable]
  BY <1>1, EnteredIs
<1> HIDE DEF A, B
<1>5. /\ Append(B, e) \in Seq(Entries) /\ Len(Append(B, e)) = n + k + 1
      /\ Append(B, e)[n + k + 1] = e /\ \A i \in 1 .. (n + k) : Append(B, e)[i] = B[i]
  <2>1. Append(B, e) \in Seq(Entries) /\ Len(Append(B, e)) = Len(B) + 1 /\ Append(B, e)[Len(B) + 1] = e
        /\ \A i \in 1 .. Len(B) : Append(B, e)[i] = B[i]
    BY <1>2, <1>4, AppendProperties
  <2> HIDE DEF n, k
  <2> QED BY <1>0, <1>4, <2>1
<1> HIDE DEF n, k
<1>6. ASSUME NEW i \in 1 .. (n + k + 1) PROVE A[i] = Append(B, e)[i]
  <2>1. CASE i \in 1 .. n
    <3>1. i \in 1 .. (n + k) BY <1>0, <2>1
    <3> QED BY <1>3, <1>4, <1>5, <2>1, <3>1
  <2>2. CASE i = n + k + 1
    <3>1. n + (k + 1) = i /\ k + 1 \in 1 .. (k + 1) BY <1>0, <2>2
    <3> QED BY <1>1, <1>3, <1>5, <2>2, <3>1 DEF e
  <2>3. CASE i \notin 1 .. n /\ i # n + k + 1
    <3>1. /\ i - n \in 1 .. k /\ i - n \in 1 .. (k + 1) /\ i = n + (i - n) /\ i \in 1 .. (n + k)
      BY <1>0, <2>3
    <3>2. A[i] = [observed |-> p[i - n], usable |-> usable] /\ B[i] = [observed |-> os[i - n], usable |-> usable]
      BY <1>3, <1>4, <3>1
    <3> QED BY <1>1, <1>5, <3>1, <3>2
  <2> QED BY <2>1, <2>2, <2>3
<1>7. Len(A) = n + k + 1 BY <1>0, <1>3
<1>8. A = Append(B, e) BY <1>3, <1>5, <1>6, <1>7, SeqEqual
<1> QED BY <1>8 DEF A, B, e, p

(* Before its first message, a packet has observed nothing.                  *)
LEMMA NothingFollows ==
    ASSUME NEW b, NEW L, NEW left, Explained(b, L, left), NEW d, NEW msgs, NEW usable \in BOOLEAN,
           Going(b, L, left, usable), b.observations = <<>>
    PROVE  Followed(b, L, left, d, msgs, usable, 0)
<1>1. L \in Seq(Entries) BY DEF Explained
<1>2. <<>> \in Seq(Observations) /\ Len(<<>>) = 0 OBVIOUS
<1>3. Entered(L, <<>>, usable) = L
  <2> DEFINE os == <<>>
  <2>1. os \in Seq(Observations) /\ Len(os) = 0 OBVIOUS
  <2> HIDE DEF os
  <2>2. /\ Entered(L, os, usable) \in Seq(Entries) /\ Len(Entered(L, os, usable)) = Len(L) + Len(os)
        /\ \A i \in 1 .. Len(L) : Entered(L, os, usable)[i] = L[i]
    BY <1>1, <2>1, EnteredIs
  <2>3. Len(L) \in Nat BY <1>1, LenProperties
  <2>4. Entered(L, os, usable) = L BY <1>1, <2>1, <2>2, <2>3, SeqEqual
  <2> QED BY <2>4 DEF os
<1>4. \A i \in 1 .. 0 : FALSE OBVIOUS
<1> QED BY <1>2, <1>3, <1>4 DEF Followed

(* All messages of a packet get the outcomes that the log implies: none of   *)
(* them is in the log yet, for they lie behind what was consumed before.     *)
LEMMA PacketFollows ==
    ASSUME NEW c, NEW L, NEW left, Explained(c, L, left), NEW d \in Directions, NEW msgs \in Seq(Messages),
           NEW usable \in BOOLEAN, Going(c, L, left, usable), c.observations = <<>>,
           NEW lo \in Nat, NEW hi, Ascending(msgs, lo, hi),
           \A i \in DOMAIN L : SenderOf(L[i]) = d => MessageOf(L[i]).offset < lo
    PROVE  Followed(Run(c, d, msgs), L, left, d, msgs, usable, Len(msgs))
<1>1. c \in Correlations /\ L \in Seq(Entries) BY DEF Explained
<1>2. \A a \in Correlations : \A m \in Messages : Correlated(a, d, m) \in Correlations
  <2> SUFFICES ASSUME NEW a \in Correlations, NEW m \in Messages PROVE Correlated(a, d, m) \in Correlations
    OBVIOUS
  <2> QED BY CorrelatedIs
<1> DEFINE n == Len(msgs)
<1>3. PICK a : Steps(a, Correlations, c, d, msgs) /\ Run(c, d, msgs) = a[n]
  BY <1>1, <1>2, Folded
<1>9. a[0] = c /\ \A k \in 1 .. n : a[k] = Correlated(a[k - 1], d, msgs[k])
  BY <1>3 DEF Steps
<1>4. n \in Nat /\ \A k \in 1 .. n : msgs[k] \in Messages /\ k \in DOMAIN msgs BY LenProperties, ElementOfSeq
<1> HIDE DEF n
<1> DEFINE H == {k \in 0 .. n : Followed(a[k], L, left, d, msgs, usable, k)}
<1>5. 0 \in H
  <2> DEFINE b == a[0]
  <2>1. Explained(b, L, left) /\ Going(b, L, left, usable) /\ b.observations = <<>> BY <1>9
  <2> HIDE DEF b
  <2>2. Followed(b, L, left, d, msgs, usable, 0) BY <2>1, NothingFollows
  <2> QED BY <1>4, <2>2 DEF b
<1>6. ASSUME NEW k \in 1 .. n, k - 1 \in H PROVE k \in H
  <2> DEFINE b == a[k - 1]
             os == b.observations
             K == Entered(L, os, usable)
             m == msgs[k]
             e(o) == [observed |-> o, usable |-> usable]
  <2>1. /\ os \in Seq(Observations) /\ Len(os) = k - 1
        /\ \A i \in 1 .. (k - 1) : os[i].direction = d /\ os[i].message = msgs[i]
        /\ Explained(b, K, left) /\ Going(b, K, left, usable)
    BY <1>6 DEF Followed
  <2>2. m \in Messages /\ a[k] = Correlated(b, d, m) BY <1>4, <1>9
  <2>3. Unseen(K, d, m)
    <3>1. /\ DOMAIN K = 1 .. (Len(L) + Len(os)) /\ \A i \in 1 .. Len(L) : K[i] = L[i]
          /\ \A i \in 1 .. Len(os) : K[Len(L) + i] = e(os[i])
          /\ \A i \in DOMAIN K : i \in DOMAIN L \/ \E j \in 1 .. Len(os) : i = Len(L) + j
      <4> HIDE DEF os
      <4> QED BY <1>1, <2>1, EnteredIs, ZenonT(30)
    <3>2. DOMAIN L = 1 .. Len(L) BY <1>1, LenProperties
    <3>3. lo <= m.offset /\ m.offset \in Nat BY <1>4, <2>2 DEF Ascending, Messages
    <3> HIDE DEF K, m
    <3>4. ASSUME NEW i \in DOMAIN L PROVE ~ (SenderOf(K[i]) = d /\ MessageOf(K[i]) = m)
      <4>1. K[i] = L[i] BY <3>1, <3>2
      <4>2. SenderOf(L[i]) = d => MessageOf(L[i]).offset < lo OBVIOUS
      <4>3. MessageOf(L[i]) = m => ~ (MessageOf(L[i]).offset < lo) BY <3>3
      <4> QED BY <4>1, <4>2, <4>3
    <3>5. ASSUME NEW j \in 1 .. Len(os) PROVE MessageOf(K[Len(L) + j]) # m
      <4>1. MessageOf(K[Len(L) + j]) = msgs[j]
        <5>1. K[Len(L) + j] = e(os[j]) BY <3>1
        <5>2. MessageOf(e(os[j])) = os[j].message BY DEF MessageOf
        <5>3. os[j].message = msgs[j] BY <2>1
        <5> HIDE DEF e
        <5> QED BY <5>1, <5>2, <5>3
      <4>2. j \in 1 .. n /\ j < k BY <1>4, <2>1
      <4>3. msgs[j].offset < msgs[k].offset BY <1>4, <4>2 DEF Ascending
      <4>4. msgs[j].offset \in Nat /\ msgs[k].offset \in Nat BY <1>4, <4>2 DEF Messages
      <4>5. msgs[j] # msgs[k] BY <4>3, <4>4
      <4> QED BY <4>1, <4>5 DEF m
    <3> QED BY <3>1, <3>4, <3>5 DEF Unseen
  <2> HIDE DEF b, K, m, os
  <2>4. Continued(b, K, left, d, m, usable, a[k]) BY <2>1, <2>2, <2>3, Continues
  <2>5. PICK o \in Observations :
           /\ o.direction = d /\ o.message = m /\ a[k].observations = Append(os, o)
           /\ Explained(a[k], Append(K, e(o)), left)
           /\ Going(a[k], Append(K, e(o)), left, usable)
    BY <2>4 DEF Continued, os
  <2>6. Entered(L, Append(os, o), usable) = Append(K, e(o)) BY <1>1, <2>1, EnteredGrows DEF K
  <2> DEFINE p == Append(os, o)
  <2>7. /\ p \in Seq(Observations) /\ Len(p) = k /\ p[k] = o /\ \A i \in 1 .. (k - 1) : p[i] = os[i]
    <3>1. Len(os) + 1 = k BY <2>1
    <3> QED BY <2>1, <3>1, AppendProperties
  <2> HIDE DEF p, e
  <2>8. \A i \in 1 .. k : p[i].direction = d /\ p[i].message = msgs[i]
    <3>1. \A i \in 1 .. k : i \in 1 .. (k - 1) \/ i = k OBVIOUS
    <3> QED BY <2>1, <2>5, <2>7, <3>1 DEF m
  <2>9. Followed(a[k], L, left, d, msgs, usable, k)
    <3>1. a[k].observations = p BY <2>5 DEF p
    <3>2. Entered(L, p, usable) = Append(K, e(o)) BY <2>6 DEF p
    <3> QED BY <2>5, <2>7, <2>8, <3>1, <3>2 DEF Followed
  <2>10. k \in 0 .. n BY <1>4
  <2> QED BY <2>9, <2>10
<1>7. n \in H
  <2> HIDE DEF H
  <2>1. \A k \in 0 .. n : k \in H BY <1>4, <1>5, <1>6, Upwards
  <2> QED BY <1>4, <2>1
<1>8. Followed(a[n], L, left, d, msgs, usable, n) BY <1>7
<1> HIDE DEF H
<1> QED BY <1>3, <1>8 DEF n

-----------------------------------------------------------------------------
(* What the entries are explained by: the table and the counters.            *)
SameAccounts(b, c) ==
    /\ b.matched = c.matched /\ b.unmatched = c.unmatched /\ b.ambiguous = c.ambiguous
    /\ b.non_correlatable = c.non_correlatable

(* A correlation with the same accounts comes to the same entries; when its  *)
(* requests are left over, with them unresolved.                             *)
LEMMA AccountsExplain ==
    ASSUME NEW c, NEW L, NEW left, Explained(c, L, left), NEW b \in Correlations, SameAccounts(b, c)
    PROVE  /\ b.requests = c.requests => Explained(b, L, left)
           /\ b.requests = {Unresolved(r) : r \in c.requests} => Explained(b, L, "unresolved")
<1> DEFINE n == Len(L)
           O == OpenIn(L, n + 1)
<1>1. b.requests = c.requests => Explained(b, L, left) BY DEF Explained, SameAccounts
<1>2. O \in SUBSET (1 .. n) /\ \A j \in 1 .. n : Named(L, j) \in Nat BY TableIs
<1>3. left \in {"pending", "unresolved"} /\ c.requests = {RowIn(L, j, left) : j \in O} BY DEF Explained
<1>4. ASSUME NEW j \in O PROVE Unresolved(RowIn(L, j, left)) = RowIn(L, j, "unresolved")
  <2> DEFINE status == IF TaintedIn(L, j, n + 1) THEN "ambiguous" ELSE left
             e == L[j]
             k == Named(L, j)
  <2>1. k \in Nat BY <1>2
  <2>2. RowIn(L, j, left) = Row(e, status, k) BY DEF RowIn
  <2>3. RowIn(L, j, "unresolved") = Row(e, IF status = "pending" THEN "unresolved" ELSE status, k)
    BY <1>3 DEF RowIn
  <2> HIDE DEF status, e, k
  <2>4. Unresolved(Row(e, status, k)) = Row(e, IF status = "pending" THEN "unresolved" ELSE status, k)
    BY <2>1, RowsChange
  <2> QED BY <2>2, <2>3, <2>4
<1>5. {Unresolved(r) : r \in c.requests} = {RowIn(L, j, "unresolved") : j \in O}
  <2> HIDE DEF O
  <2> QED BY <1>3, <1>4
<1> HIDE DEF n
<1>6. b.requests = {Unresolved(r) : r \in c.requests} => Explained(b, L, "unresolved")
  BY <1>5 DEF Explained, SameAccounts, n
<1> QED BY <1>1, <1>6

(* A new correlation is what no messages come to.                            *)
LEMMA NothingExplained == Explained(Fresh, <<>>, "pending") /\ Fresh.observations = <<>> /\ Fresh.reason = None
<1> DEFINE L == <<>>
<1>1. L \in Seq(Entries) /\ DOMAIN L = {} /\ Len(L) = 0 OBVIOUS
<1>2. Fresh \in Correlations
  <2>1. <<>> \in Seq(Observations) /\ {} \in SUBSET Requests OBVIOUS
  <2> QED BY <2>1 DEF Fresh, Correlations
<1> HIDE DEF L
<1>3. OpenIn(L, Len(L) + 1) = {}
  <2>1. \A j \in 1 .. (Len(L) + 1 - 1) : FALSE BY <1>1
  <2> QED BY <2>1 DEF OpenIn
<1>4. \A status : Count(L, status) = 0
  <2>1. \A status : {i \in DOMAIN L : StatusOf(L[i]) = status} = {} BY <1>1
  <2> QED BY <2>1, FS_EmptySet DEF Count
<1>5. Cardinality({}) <= MaxPending BY FS_EmptySet, PendingAssumption
<1>6. /\ Fresh.requests = {} /\ Fresh.matched = 0 /\ Fresh.unmatched = 0 /\ Fresh.ambiguous = 0
      /\ Fresh.non_correlatable = 0 /\ Fresh.observations = <<>> /\ Fresh.reason = None
  BY DEF Fresh
<1>7. Explained(Fresh, L, "pending") BY <1>1, <1>2, <1>3, <1>4, <1>5, <1>6 DEF Explained
<1> QED BY <1>6, <1>7 DEF L

(* A correlation that ends for a lost or broken stream still comes to the    *)
(* same entries.                                                             *)
LEMMA UnavailableIs ==
    ASSUME NEW c, NEW L, NEW left, Explained(c, L, left), NEW P \in BOOLEAN
    PROVE  LET b == Unavailable(c, P)
           IN /\ Explained(b, L, left) /\ b.observations = c.observations
              /\ b.reason = None <=> c.reason = None /\ ~ P
<1>1. c \in Correlations BY DEF Explained
<1>2. CASE c.reason = None /\ P
  <2> DEFINE b == [c EXCEPT !.reason = "stream unavailable"]
  <2>1. Has(b, c.requests, c.observations, c.matched, c.unmatched, c.ambiguous, c.non_correlatable,
            "stream unavailable")
    <3>1. \A re \in {None, "limit exceeded", "stream unavailable"} :
              Has([c EXCEPT !.reason = re], c.requests, c.observations,
                  c.matched, c.unmatched, c.ambiguous, c.non_correlatable, re)
      <4>1. 0 \in Nat /\ {} \in SUBSET Requests OBVIOUS
      <4> QED BY <1>1, <4>1, ChangedIs
    <3> QED BY <3>1
  <2>2. Unavailable(c, P) = b BY <1>2 DEF Unavailable
  <2> HIDE DEF b
  <2>3. b \in Correlations /\ SameAccounts(b, c) /\ b.requests = c.requests
    BY <2>1 DEF Has, SameAccounts
  <2>4. Explained(b, L, left) BY <2>3, AccountsExplain
  <2>5. b.observations = c.observations /\ b.reason # None BY <2>1, NoCorrelationAssumption DEF Has
  <2> QED BY <1>2, <2>2, <2>4, <2>5
<1>3. CASE ~ (c.reason = None /\ P)
  <2>1. Unavailable(c, P) = c BY <1>3 DEF Unavailable
  <2> QED BY <1>3, <2>1
<1> QED BY <1>2, <1>3

-----------------------------------------------------------------------------
(* A direction whose framing failed.                                         *)
Broken(f) == \E d \in Framed(f) : f[d].status \in Failed

(* The streams, as far as they are consumed.                                 *)
Consumed(s) ==
    s \in [Directions -> TCPStreams] /\ \A d \in Directions : s[d].consumed \in 0 .. Len(s[d].payload)

(* Each direction is framed up to where its stream is consumed.              *)
FramedUpTo(f, s) ==
    /\ f \in [Directions -> Framings \cup {None}]
    /\ \A d \in Directions : f[d] # None => f[d].stream = s[d]

(* Every message in the log is behind its stream's unconsumed bytes.         *)
LoggedUpTo(L, s) ==
    L \in Seq(Entries) /\ \A i \in DOMAIN L : MessageOf(L[i]).offset < s[SenderOf(L[i])].consumed

(* The correlation is what the log comes to.                                 *)
Accounted(c, L, f, s) ==
    /\ c = None <=> Framed(f) = {}
    /\ c = None => L = <<>>
    /\ c # None =>
         /\ Explained(c, L, IF c.reason # None THEN "unresolved" ELSE "pending")
         /\ c.reason # None <=> ~ Whole(L, Len(L) + 1) \/ Lost(s) \/ Broken(f)

(* Streams, framing, log and correlation fit each other.                     *)
Standing(c, L, f, s) ==
    Consumed(s) /\ FramedUpTo(f, s) /\ LoggedUpTo(L, s) /\ Accounted(c, L, f, s)

(* The streams after a packet, before anything of it is consumed.            *)
Moved(s, t) ==
    /\ Consumed(t)
    /\ \A d \in Directions : t[d].consumed = s[d].consumed /\ (t[d].contiguous => s[d].contiguous)

(* The framing, the streams and their usability after a packet.              *)
FramedNext(f, t) == [d \in Directions |-> FrameDirection(f[d], t[d])]

StreamsNext(g, t) == [d \in Directions |-> IF g[d] = None THEN t[d] ELSE g[d].stream]

Sound(f, t) == ~ Lost(t) /\ ~ Broken(f)

(* Framing what a packet brought consumes no more than was received, and the *)
(* messages it gives lie between what was consumed before and now.           *)
LEMMA FramingGoesOn ==
    ASSUME NEW f, NEW s, FramedUpTo(f, s), Consumed(s), NEW t, Moved(s, t)
    PROVE  LET g == FramedNext(f, t)
               u == StreamsNext(g, t)
           IN /\ Consumed(u) /\ FramedUpTo(g, u)
              /\ \A d \in Directions : t[d].consumed <= u[d].consumed /\ (u[d].contiguous <=> t[d].contiguous)
              /\ \A d \in Framed(g) : Ascending(g[d].messages, t[d].consumed, u[d].consumed)
                                      /\ g[d].messages \in Seq(Messages)
              /\ Framed(f) \subseteq Framed(g) /\ (Broken(f) => Broken(g))
              /\ Lost(u) <=> Lost(t)
<1> DEFINE g == FramedNext(f, t)
           u == StreamsNext(g, t)
<1>1. ASSUME NEW d \in Directions
      PROVE  /\ g[d] = None => f[d] = None
             /\ g[d] # None => FramedOnce(f[d], t[d], g[d])
             /\ t[d] \in TCPStreams /\ t[d].consumed \in 0 .. Len(t[d].payload)
  <2>1. f[d] \in Framings \cup {None} BY DEF FramedUpTo
  <2>2. t[d] \in TCPStreams /\ t[d].consumed \in 0 .. Len(t[d].payload) BY DEF Moved, Consumed
  <2>3. g[d] = FrameDirection(f[d], t[d]) BY DEF FramedNext
  <2> DEFINE x == f[d]
             y == t[d]
  <2>4. x \in Framings \cup {None} /\ y \in TCPStreams /\ y.consumed \in 0 .. Len(y.payload) BY <2>1, <2>2
  <2> HIDE DEF x, y, g
  <2>5. LET h == FrameDirection(x, y)
        IN /\ h = None => x = None
           /\ h # None => FramedOnce(x, y, h)
    BY <2>4, FrameDirectionIs
  <2> QED BY <2>2, <2>3, <2>5 DEF x, y
<1>2. g \in [Directions -> Framings \cup {None}]
  <2>1. \A d \in Directions : FrameDirection(f[d], t[d]) \in Framings \cup {None}
    BY <1>1 DEF FramedNext, FramedOnce
  <2> QED BY <2>1 DEF FramedNext
<1>3. \A d \in Directions : u[d] = IF g[d] = None THEN t[d] ELSE g[d].stream BY DEF StreamsNext
<1>4. u = [d \in Directions |-> u[d]] BY DEF StreamsNext
<1> HIDE DEF g, u
<1>5. ASSUME NEW d \in Directions
      PROVE  /\ u[d] \in TCPStreams /\ u[d].consumed \in 0 .. Len(u[d].payload)
             /\ t[d].consumed <= u[d].consumed /\ (u[d].contiguous <=> t[d].contiguous)
             /\ g[d] # None => g[d].stream = u[d]
  <2>1. CASE g[d] = None BY <1>1, <1>3, <2>1
  <2>2. CASE g[d] # None
    <3>1. FramedOnce(f[d], t[d], g[d]) /\ u[d] = g[d].stream BY <1>1, <1>3, <2>2
    <3>2. u[d] \in TCPStreams BY <3>1 DEF FramedOnce, Framings
    <3>3. u[d].payload = t[d].payload /\ u[d].contiguous = t[d].contiguous
          /\ u[d].consumed \in t[d].consumed .. Len(t[d].payload)
      BY <3>1 DEF FramedOnce
    <3>4. t[d].consumed \in Nat /\ Len(t[d].payload) \in Nat
      <4>1. t[d].payload \in Seq(Bytes) BY <1>1 DEF TCPStreams
      <4>2. Len(t[d].payload) \in Nat BY <4>1, LenProperties
      <4> QED BY <1>1, <4>2
    <3> QED BY <3>1, <3>2, <3>3, <3>4
  <2> QED BY <2>1, <2>2
<1>6. Consumed(u)
  <2>1. u \in [Directions -> TCPStreams] BY <1>4, <1>5
  <2> QED BY <1>5, <2>1 DEF Consumed
<1>7. FramedUpTo(g, u) BY <1>2, <1>5 DEF FramedUpTo
<1>8. ASSUME NEW d \in Framed(g)
      PROVE  Ascending(g[d].messages, t[d].consumed, u[d].consumed) /\ g[d].messages \in Seq(Messages)
  <2>1. d \in Directions /\ g[d] # None BY DEF Framed
  <2>2. FramedOnce(f[d], t[d], g[d]) /\ u[d] = g[d].stream BY <1>1, <1>3, <2>1
  <2> QED BY <2>2 DEF FramedOnce, Framings
<1>9. Framed(f) \subseteq Framed(g) BY <1>1 DEF Framed
<1>10. Broken(f) => Broken(g)
  <2> SUFFICES ASSUME NEW d \in Framed(f), f[d].status \in Failed PROVE g[d].status \in Failed
    BY <1>9 DEF Broken
  <2>1. d \in Directions /\ f[d] # None /\ g[d] # None BY <1>9 DEF Framed
  <2>2. FramedOnce(f[d], t[d], g[d]) BY <1>1, <2>1
  <2> QED BY <2>1, <2>2 DEF FramedOnce
<1>11. Lost(u) <=> Lost(t) BY <1>5 DEF Lost
<1> QED BY <1>5, <1>6, <1>7, <1>8, <1>9, <1>10, <1>11 DEF g, u

(* What a packet counts, before its framing may turn out to have failed.     *)
Started(current, t) ==
    Unavailable(IF current = None THEN Fresh ELSE [current EXCEPT !.observations = <<>>], Lost(t))

(* The correlation after the messages of a packet, if it brought any, and    *)
(* with its requests left over once correlation has ended.                   *)
Counted(start, f) ==
    IF NewMessages(f) = {} THEN start
    ELSE LET new == CHOOSE new \in NewMessages(f) : TRUE IN Run(start, new[1], new[2])

Settled(b) == IF b.reason = None THEN b ELSE [b EXCEPT !.requests = {Unresolved(r) : r \in @}]

(* An update counts the messages, looks at the framing and settles the       *)
(* requests.                                                                 *)
LEMMA UpdatedIs ==
    ASSUME NEW current, NEW g, NEW t
    PROVE  Updated(current, g, t) = Settled(Unavailable(Counted(Started(current, t), g), Broken(g)))
BY DEF Updated, Settled, Counted, Started, Broken, Run

(* Before it counts a packet's messages, the correlation comes to the log,   *)
(* and goes on just if no stream is lost or broken.                          *)
LEMMA Starts ==
    ASSUME NEW c, NEW L, NEW f, NEW s, Accounted(c, L, f, s), NEW t, Moved(s, t)
    PROVE  \E left : /\ Explained(Started(c, t), L, left) /\ Started(c, t).observations = <<>>
                     /\ Going(Started(c, t), L, left, Sound(f, t))
<1> DEFINE P == Lost(t)
<1>0. P \in BOOLEAN BY DEF Lost
<1>1. Lost(s) => P BY DEF Moved, Lost
<1>2. CASE c = None
  <2>1. Started(c, t) = Unavailable(Fresh, P) /\ L = <<>> /\ Framed(f) = {}
    BY <1>2 DEF Started, Accounted
  <2> HIDE DEF P
  <2> DEFINE b == Unavailable(Fresh, P)
  <2>2. Explained(Fresh, L, "pending") BY <2>1, NothingExplained
  <2>3. Explained(b, L, "pending") /\ b.observations = <<>> /\ (b.reason = None <=> ~ P)
    BY <1>0, <2>2, NothingExplained, UnavailableIs
  <2>4. Whole(L, Len(L) + 1)
    <3>1. \A k \in 1 .. (Len(L) + 1 - 1) : FALSE BY <2>1
    <3> QED BY <3>1 DEF Whole
  <2>5. Sound(f, t) <=> ~ P BY <2>1 DEF Sound, Broken, P
  <2> HIDE DEF b
  <2>6. Going(b, L, "pending", Sound(f, t)) BY <2>3, <2>4, <2>5 DEF Going
  <2> QED BY <2>1, <2>3, <2>6 DEF b
<1>3. CASE c # None
  <2> DEFINE left == IF c.reason # None THEN "unresolved" ELSE "pending"
             a == [c EXCEPT !.observations = <<>>]
             b == Unavailable(a, P)
  <2>1. Explained(c, L, left) /\ (c.reason # None <=> ~ Whole(L, Len(L) + 1) \/ Lost(s) \/ Broken(f))
    BY <1>3 DEF Accounted
  <2>2. c \in Correlations BY <2>1 DEF Explained
  <2>3. a \in Correlations /\ a.observations = <<>> /\ a.requests = c.requests /\ a.reason = c.reason
        /\ SameAccounts(a, c)
    <3> DEFINE os == <<>>
    <3>1. os \in Seq(Observations) OBVIOUS
    <3> HIDE DEF os
    <3>2. [c EXCEPT !.observations = os] \in Correlations BY <2>2, <3>1 DEF Correlations
    <3>3. /\ [c EXCEPT !.observations = os].observations = os
          /\ [c EXCEPT !.observations = os].requests = c.requests
          /\ [c EXCEPT !.observations = os].reason = c.reason
          /\ SameAccounts([c EXCEPT !.observations = os], c)
      BY <2>2 DEF Correlations, SameAccounts
    <3> QED BY <3>2, <3>3 DEF os
  <2>7. Started(c, t) = b BY <1>3 DEF Started
  <2> HIDE DEF a, P, left
  <2>4. Explained(a, L, left) BY <2>1, <2>3, AccountsExplain
  <2>5. Explained(b, L, left) /\ b.observations = <<>> /\ (b.reason = None <=> c.reason = None /\ ~ P)
    BY <1>0, <2>3, <2>4, UnavailableIs
  <2>6. Going(b, L, left, Sound(f, t))
    <3> HIDE DEF b
    <3>1. c.reason = None => left = "pending" BY DEF left
    <3>2. Sound(f, t) <=> ~ P /\ ~ Broken(f) BY DEF Sound, P
    <3> QED BY <1>1, <2>1, <2>5, <3>1, <3>2 DEF Going
  <2> HIDE DEF b
  <2> QED BY <2>5, <2>6, <2>7
<1> QED BY <1>2, <1>3

(* All the messages of a packet are counted.                                 *)
AllCounted(a, L, left, usable, u) ==
    \E d \in Directions, msgs \in Seq(Messages) :
        /\ Followed(a, L, left, d, msgs, usable, Len(msgs))
        /\ \A i \in DOMAIN msgs : msgs[i].offset < u[d].consumed

(* After it counts a packet's messages, the correlation comes to the log     *)
(* with their entries, which lie before what is consumed now.                *)
LEMMA Counts ==
    ASSUME NEW b, NEW L, NEW left, Explained(b, L, left), b.observations = <<>>,
           NEW usable \in BOOLEAN, Going(b, L, left, usable),
           NEW g, NEW t, NEW u, Consumed(t), Consumed(u), LoggedUpTo(L, t), FramedUpTo(g, u),
           \A d \in Framed(g) : Ascending(g[d].messages, t[d].consumed, u[d].consumed)
                                /\ g[d].messages \in Seq(Messages)
    PROVE  AllCounted(Counted(b, g), L, left, usable, u)
<1>1. CASE NewMessages(g) = {}
  <2>1. Followed(b, L, left, "forward", <<>>, usable, 0) BY NothingFollows
  <2>2. <<>> \in Seq(Messages) /\ Len(<<>>) = 0 /\ DOMAIN <<>> = {} /\ "forward" \in Directions BY DEF Directions
  <2>3. Counted(b, g) = b BY <1>1 DEF Counted
  <2> QED BY <2>1, <2>2, <2>3 DEF AllCounted
<1>2. CASE NewMessages(g) # {}
  <2> DEFINE new == CHOOSE new \in NewMessages(g) : TRUE
  <2>1. new \in NewMessages(g) BY <1>2
  <2>2. Counted(b, g) = Run(b, new[1], new[2]) BY <1>2 DEF Counted
  <2> HIDE DEF new
  <2>3. PICK d \in Framed(g) : new = <<d, g[d].messages>> BY <2>1 DEF NewMessages
  <2> DEFINE msgs == g[d].messages
             lo == t[d].consumed
             hi == u[d].consumed
  <2>4. d \in Directions BY DEF Framed
  <2>5. msgs \in Seq(Messages) /\ Ascending(msgs, lo, hi) OBVIOUS
  <2>6. lo \in Nat
    <3>1. t[d] \in TCPStreams BY <2>4 DEF Consumed
    <3> QED BY <3>1 DEF TCPStreams
  <2>7. \A i \in DOMAIN L : SenderOf(L[i]) = d => MessageOf(L[i]).offset < lo BY DEF LoggedUpTo
  <2>8. Counted(b, g) = Run(b, d, msgs) BY <2>2, <2>3
  <2> HIDE DEF msgs, lo, hi
  <2>9. Followed(Run(b, d, msgs), L, left, d, msgs, usable, Len(msgs))
    BY <2>4, <2>5, <2>6, <2>7, PacketFollows
  <2>10. \A i \in DOMAIN msgs : msgs[i].offset < u[d].consumed BY <2>5 DEF Ascending, hi
  <2> QED BY <2>4, <2>5, <2>8, <2>9, <2>10 DEF AllCounted
<1> QED BY <1>1, <1>2

(* What a packet makes of the log.                                           *)
LogNext(c, L, usable) == IF c = None THEN L ELSE Entered(L, c.observations, usable)

(* What a packet makes of the correlation.                                   *)
CorrelationNext(c, g, t) == IF Framed(g) = {} THEN None ELSE Updated(c, g, t)

(* Streams, framing, log and correlation still fit each other after a        *)
(* packet.                                                                   *)
LEMMA PacketStands ==
    ASSUME NEW c, NEW L, NEW f, NEW s, Standing(c, L, f, s), NEW t, Moved(s, t)
    PROVE  LET g == FramedNext(f, t)
               b == CorrelationNext(c, g, t)
           IN Standing(b, LogNext(b, L, Sound(f, t)), g, StreamsNext(g, t))
<1> DEFINE g == FramedNext(f, t)
           u == StreamsNext(g, t)
           b == CorrelationNext(c, g, t)
           usable == Sound(f, t)
           K == LogNext(b, L, usable)
<1>0. /\ Consumed(s) /\ FramedUpTo(f, s) /\ LoggedUpTo(L, s) /\ Accounted(c, L, f, s)
      /\ Consumed(t) /\ \A d \in Directions : t[d].consumed = s[d].consumed
  BY DEF Standing, Moved
<1>1. /\ Consumed(u) /\ FramedUpTo(g, u)
      /\ \A d \in Directions : t[d].consumed <= u[d].consumed
      /\ \A d \in Framed(g) : Ascending(g[d].messages, t[d].consumed, u[d].consumed)
                              /\ g[d].messages \in Seq(Messages)
      /\ Framed(f) \subseteq Framed(g) /\ (Broken(f) => Broken(g))
      /\ Lost(u) <=> Lost(t)
  BY <1>0, FramingGoesOn
<1>2. b = IF Framed(g) = {} THEN None ELSE Updated(c, g, t) BY DEF CorrelationNext
<1>3. K = IF b = None THEN L ELSE Entered(L, b.observations, usable) BY DEF LogNext
<1>20. usable \in BOOLEAN /\ (usable <=> ~ Lost(t) /\ ~ Broken(f)) BY DEF Sound
<1> HIDE DEF g, u, b, K, usable
<1>4. LoggedUpTo(L, t) /\ LoggedUpTo(L, u) /\ \A d \in Directions : u[d].consumed \in Nat
  <2>1. \A d \in Directions : /\ s[d].consumed \in Nat /\ t[d].consumed \in Nat /\ u[d].consumed \in Nat
    <3>1. \A d \in Directions : s[d] \in TCPStreams /\ t[d] \in TCPStreams /\ u[d] \in TCPStreams
      BY <1>0, <1>1 DEF Consumed
    <3> QED BY <3>1 DEF TCPStreams
  <2>2. L \in Seq(Entries) BY <1>0 DEF LoggedUpTo
  <2>3. ASSUME NEW i \in DOMAIN L
        PROVE  /\ MessageOf(L[i]).offset < t[SenderOf(L[i])].consumed
               /\ MessageOf(L[i]).offset < u[SenderOf(L[i])].consumed
    <3>1. L[i] \in Entries BY <2>2
    <3>2. SenderOf(L[i]) \in Directions /\ MessageOf(L[i]).offset \in Nat
      BY <3>1 DEF Entries, Observations, Messages, SenderOf, MessageOf
    <3>3. MessageOf(L[i]).offset < s[SenderOf(L[i])].consumed BY <1>0 DEF LoggedUpTo
    <3> DEFINE o == MessageOf(L[i]).offset
               x == s[SenderOf(L[i])].consumed
               y == t[SenderOf(L[i])].consumed
               z == u[SenderOf(L[i])].consumed
    <3>4. o \in Nat /\ x \in Nat /\ y \in Nat /\ z \in Nat /\ o < x /\ y = x /\ y <= z
      BY <1>0, <1>1, <2>1, <3>2, <3>3
    <3> HIDE DEF o, x, y, z
    <3>5. o < y /\ o < z BY <3>4
    <3> QED BY <3>5 DEF o, y, z
  <2> QED BY <2>1, <2>2, <2>3 DEF LoggedUpTo
<1>5. CASE Framed(g) = {}
  <2>1. b = None /\ K = L /\ c = None /\ L = <<>> BY <1>0, <1>1, <1>2, <1>3, <1>5 DEF Accounted
  <2>2. Accounted(b, K, g, u) BY <1>5, <2>1 DEF Accounted
  <2>3. Standing(b, K, g, u) BY <1>1, <1>4, <2>1, <2>2 DEF Standing
  <2> QED BY <2>3 DEF g, u, b, K, usable
<1>6. CASE Framed(g) # {}
  <2> DEFINE start == Started(c, t)
             a == Counted(start, g)
             P == Broken(g)
             e == Unavailable(a, P)
  <2>1. PICK left : /\ Explained(start, L, left) /\ start.observations = <<>>
                    /\ Going(start, L, left, usable)
    BY <1>0, Starts DEF usable
  <2>2. b = Settled(e) BY <1>2, <1>6, UpdatedIs
  <2> HIDE DEF start
  <2>3. PICK d \in Directions, msgs \in Seq(Messages) :
            /\ Followed(a, L, left, d, msgs, usable, Len(msgs))
            /\ \A i \in DOMAIN msgs : msgs[i].offset < u[d].consumed
    <3>1. /\ Explained(start, L, left) /\ start.observations = <<>> /\ usable \in BOOLEAN
          /\ Going(start, L, left, usable) /\ Consumed(t) /\ Consumed(u) /\ LoggedUpTo(L, t) /\ FramedUpTo(g, u)
      BY <1>0, <1>1, <1>4, <1>20, <2>1
    <3>2. AllCounted(a, L, left, usable, u) BY <1>1, <3>1, Counts
    <3> QED BY <3>2 DEF AllCounted
  <2> HIDE DEF a
  <2> DEFINE os == a.observations
             now == Entered(L, os, usable)
  <2>4. /\ os \in Seq(Observations) /\ Len(os) = Len(msgs)
        /\ \A i \in 1 .. Len(msgs) : os[i].direction = d /\ os[i].message = msgs[i]
        /\ Explained(a, now, left) /\ Going(a, now, left, usable)
    BY <2>3 DEF Followed
  <2> HIDE DEF now
  <2>5. P \in BOOLEAN BY DEF Broken
  <2> HIDE DEF P
  <2>6. Explained(e, now, left) /\ e.observations = os /\ (e.reason = None <=> a.reason = None /\ ~ P)
    BY <2>4, <2>5, UnavailableIs
  <2> HIDE DEF e, os
  <2>7. e \in Correlations BY <2>6 DEF Explained
  <2>8. Explained(b, now, IF b.reason # None THEN "unresolved" ELSE "pending") /\ b.observations = os
        /\ b.reason = e.reason
    <3>1. CASE e.reason = None
      <4>1. b = e BY <2>2, <3>1 DEF Settled
      <4>2. left = "pending" BY <2>4, <2>6, <3>1 DEF Going
      <4> QED BY <2>6, <3>1, <4>1, <4>2
    <3>2. CASE e.reason # None
      <4> DEFINE rs == {Unresolved(r) : r \in e.requests}
                 x == [e EXCEPT !.requests = rs]
      <4>1. b = x BY <2>2, <3>2 DEF Settled
      <4>2. rs \in SUBSET Requests
        <5>1. e.requests \in SUBSET Requests BY <2>7, CorrelationsAre
        <5>2. \A r \in Requests : Unresolved(r) \in Requests BY RequestsAre
        <5> QED BY <5>1, <5>2
      <4>3. rs = {Unresolved(r) : r \in e.requests} OBVIOUS
      <4> HIDE DEF rs
      <4>4. Has(x, rs, e.observations, e.matched, e.unmatched, e.ambiguous, e.non_correlatable, e.reason)
        <5>1. 0 \in Nat OBVIOUS
        <5>2. None \in {None, "limit exceeded", "stream unavailable"} OBVIOUS
        <5> QED BY <2>7, <4>2, <5>1, <5>2, ChangedIs
      <4> HIDE DEF x
      <4>5. x \in Correlations /\ SameAccounts(x, e) /\ x.requests = rs /\ x.observations = os /\ x.reason = e.reason
        BY <2>6, <4>4 DEF Has, SameAccounts
      <4>6. Explained(x, now, "unresolved") BY <2>6, <4>3, <4>5, AccountsExplain
      <4> QED BY <3>2, <4>1, <4>5, <4>6
    <3> QED BY <3>1, <3>2
  <2>9. b # None
    <3>1. b \in Correlations BY <2>8 DEF Explained
    <3> QED BY <3>1, NoCorrelationAssumption
  <2>10. K = now BY <1>3, <2>8, <2>9 DEF now
  <2>11. LoggedUpTo(K, u)
    <3>1. L \in Seq(Entries) BY <1>4 DEF LoggedUpTo
    <3>2. /\ now \in Seq(Entries) /\ \A i \in 1 .. Len(L) : now[i] = L[i]
          /\ \A i \in 1 .. Len(os) : now[Len(L) + i] = [observed |-> os[i], usable |-> usable]
          /\ \A i \in DOMAIN now : i \in DOMAIN L \/ \E k \in 1 .. Len(os) : i = Len(L) + k
      BY <1>20, <2>4, <3>1, EnteredIs DEF now
    <3>3. DOMAIN L = 1 .. Len(L) /\ DOMAIN msgs = 1 .. Len(msgs) BY <3>1, LenProperties
    <3>4. ASSUME NEW i \in DOMAIN L PROVE MessageOf(now[i]).offset < u[SenderOf(now[i])].consumed
      <4>1. now[i] = L[i] BY <3>2, <3>3
      <4> QED BY <1>4, <4>1 DEF LoggedUpTo
    <3>5. ASSUME NEW k \in 1 .. Len(os)
          PROVE  MessageOf(now[Len(L) + k]).offset < u[SenderOf(now[Len(L) + k])].consumed
      <4> DEFINE x == now[Len(L) + k]
      <4>1. x = [observed |-> os[k], usable |-> usable] BY <3>2
      <4>2. MessageOf(x) = os[k].message /\ SenderOf(x) = os[k].direction
        <5> HIDE DEF x
        <5> QED BY <4>1 DEF MessageOf, SenderOf
      <4>3. os[k].message = msgs[k] /\ os[k].direction = d /\ k \in DOMAIN msgs BY <2>4, <3>3
      <4> HIDE DEF x
      <4>4. MessageOf(x).offset < u[SenderOf(x)].consumed BY <2>3, <4>2, <4>3
      <4> QED BY <4>4 DEF x
    <3> QED BY <2>10, <3>2, <3>4, <3>5 DEF LoggedUpTo
  <2>12. b.reason # None <=> ~ Whole(K, Len(K) + 1) \/ Lost(u) \/ Broken(g)
    <3>1. a.reason = None <=> usable /\ Whole(now, Len(now) + 1) BY <2>4 DEF Going
    <3> QED BY <1>1, <1>20, <2>6, <2>8, <2>10, <3>1 DEF P
  <2>13. Accounted(b, K, g, u)
    <3>1. Explained(b, K, IF b.reason # None THEN "unresolved" ELSE "pending") BY <2>8, <2>10
    <3> QED BY <1>6, <2>9, <2>12, <3>1 DEF Accounted
  <2>14. Standing(b, K, g, u) BY <1>1, <2>11, <2>13 DEF Standing
  <2> QED BY <2>14 DEF g, u, b, K, usable
<1> QED BY <1>5, <1>6

-----------------------------------------------------------------------------
(* The inductive invariant.  A closed window shows what was left finalized.  *)
LDAPInvariant ==
    /\ sent \in [Directions -> Seq(Bytes)] /\ closed \in BOOLEAN
    /\ \E c : /\ Standing(c, log, framing, streams)
              /\ IF closed THEN c # None /\ correlation = Finalized(c) ELSE correlation = c

(* The update that a packet makes to the state, in the terms used here.      *)
UpdatesTo(g, b, t) ==
    /\ framing' = g /\ streams' = StreamsNext(g, t) /\ correlation' = b
    /\ log' = LogNext(b, log, Sound(framing, t))

(* A packet's update in the terms used here.                                *)
LEMMA UpdateSays ==
    ASSUME NEW t, Update(t)
    PROVE  LET g == FramedNext(framing, t) IN UpdatesTo(g, CorrelationNext(correlation, g, t), t)
<1> DEFINE g == FramedNext(framing, t)
           b == CorrelationNext(correlation, g, t)
           usable == Sound(framing, t)
<1>1. /\ framing' = g /\ streams' = StreamsNext(g, t) /\ correlation' = b
  BY DEF Update, FramedNext, StreamsNext, CorrelationNext
<1>2. log' = LogNext(b, log, usable)
  <2>1. (~ Lost(t) /\ \A d \in Framed(framing) : framing[d].status \notin Failed) = usable
    BY DEF Sound, Broken
  <2> DEFINE v == (~ Lost(t) /\ \A d \in Framed(framing) : framing[d].status \notin Failed)
  <2>2. log' = IF b = None THEN log
               ELSE log \o [i \in DOMAIN b.observations |->
                                [observed |-> b.observations[i], usable |-> v]]
    BY DEF Update, FramedNext, CorrelationNext
  <2>3. v = usable BY <2>1
  <2> HIDE DEF v, b, usable
  <2> QED BY <2>2, <2>3 DEF LogNext, Entered
<1> QED BY <1>1, <1>2 DEF UpdatesTo

(* The same of the update that a packet makes to the state.                  *)
LEMMA UpdateStands ==
    ASSUME Standing(correlation, log, framing, streams), NEW t, Moved(streams, t), Update(t)
    PROVE  Standing(correlation', log', framing', streams')
<1> DEFINE g == FramedNext(framing, t)
           b == CorrelationNext(correlation, g, t)
           usable == Sound(framing, t)
<1>1. UpdatesTo(g, b, t) BY UpdateSays
<1>2. Standing(b, LogNext(b, log, usable), g, StreamsNext(g, t)) BY PacketStands
<1> HIDE DEF g, b
<1> QED BY <1>1, <1>2 DEF UpdatesTo, usable

(* A segment that is received only adds to its stream.                       *)
LEMMA SegmentMoves ==
    ASSUME sent \in [Directions -> Seq(Bytes)], Consumed(streams), NEW d \in Directions, NEW n \in Nat,
           streams[d].contiguous, Len(streams[d].payload) + n <= Len(sent[d])
    PROVE  Moved(streams, [streams EXCEPT ![d] = Received(@, d, n)])
<1> DEFINE s == streams[d]
           r == Received(s, d, n)
           t == [streams EXCEPT ![d] = r]
<1>1. /\ streams \in [Directions -> TCPStreams] /\ \A e \in Directions : streams[e].consumed \in 0 .. Len(streams[e].payload)
      /\ s \in TCPStreams /\ sent[d] \in Seq(Bytes)
  BY DEF Consumed
<1>2. s.consumed \in 0 .. Len(s.payload) /\ Len(s.payload) + n <= Len(sent[d]) BY <1>1
<1>3. r \in TCPStreams /\ r.consumed = s.consumed /\ r.consumed \in 0 .. Len(r.payload) /\ (r.contiguous => s.contiguous)
  <2> DEFINE l == Len(s.payload)
             p == SubSeq(sent[d], 1, l + n)
  <2>1. l \in Nat /\ Len(sent[d]) \in Nat
    <3>1. s.payload \in Seq(Bytes) BY <1>1 DEF TCPStreams
    <3> QED BY <1>1, <3>1, LenProperties
  <2>2. p \in Seq(Bytes) /\ Len(p) = l + n
    <3>1. l + n \in 0 .. Len(sent[d]) BY <1>2, <2>1
    <3> DEFINE q == sent[d]
               k == l + n
    <3>2. q \in Seq(Bytes) /\ k \in 0 .. Len(q) BY <1>1, <3>1
    <3> HIDE DEF q, k
    <3>3. SubSeq(q, 1, k) \in Seq(Bytes) /\ Len(SubSeq(q, 1, k)) = k
      <4>1. Len(q) \in Nat BY <3>2, LenProperties
      <4>2. \A i \in 1 .. k : i \in 1 .. Len(q) BY <3>2, <4>1
      <4>3. 1 \in 1 .. (Len(q) + 1) /\ k \in Int /\ k - 1 + 1 = k /\ k \in 0 .. Len(q) BY <3>2, <4>1
      <4> QED BY <3>2, <4>1, <4>2, <4>3, SubSeqProperties
    <3> QED BY <3>3 DEF q, k
  <2>3. r = IF l - s.consumed + n > MaxMessage THEN [s EXCEPT !.contiguous = FALSE]
            ELSE [s EXCEPT !.payload = p]
    BY DEF Received
  <2> HIDE DEF l, p, r
  <2>4. CASE r = [s EXCEPT !.contiguous = FALSE]
    <3> HIDE DEF s
    <3> QED BY <1>1, <1>2, <2>4 DEF TCPStreams
  <2>5. CASE r = [s EXCEPT !.payload = p]
    <3> HIDE DEF s
    <3>1. r \in TCPStreams /\ r.consumed = s.consumed /\ r.payload = p /\ r.contiguous = s.contiguous
      BY <1>1, <2>2, <2>5 DEF TCPStreams
    <3>2. s.consumed \in 0 .. l BY <1>2 DEF l
    <3> QED BY <2>1, <2>2, <3>1, <3>2
  <2> QED BY <2>3, <2>4, <2>5
<1> HIDE DEF r
<1>4. t \in [Directions -> TCPStreams] /\ t[d] = r /\ \A e \in Directions \ {d} : t[e] = streams[e]
  BY <1>1, <1>3
<1> HIDE DEF t
<1>5. Moved(streams, t) BY <1>1, <1>3, <1>4 DEF Moved, Consumed
<1> QED BY <1>5 DEF t, r

(* A lost segment only ends the contiguity of its stream.                    *)
LEMMA LossMoves ==
    ASSUME Consumed(streams), NEW d \in Directions, streams[d].contiguous
    PROVE  Moved(streams, [streams EXCEPT ![d].contiguous = FALSE])
<1> DEFINE s == streams[d]
           r == [s EXCEPT !.contiguous = FALSE]
           t == [streams EXCEPT ![d] = r]
<1>1. /\ streams \in [Directions -> TCPStreams] /\ \A e \in Directions : streams[e].consumed \in 0 .. Len(streams[e].payload)
      /\ s \in TCPStreams
  BY DEF Consumed
<1>2. [streams EXCEPT ![d].contiguous = FALSE] = t OBVIOUS
<1>3. r \in TCPStreams /\ r.consumed = s.consumed /\ r.payload = s.payload /\ ~ r.contiguous
  <2> HIDE DEF s
  <2> QED BY <1>1 DEF TCPStreams
<1> HIDE DEF r
<1>4. t \in [Directions -> TCPStreams] /\ t[d] = r /\ \A e \in Directions \ {d} : t[e] = streams[e]
  BY <1>1, <1>3
<1> HIDE DEF t
<1>5. Moved(streams, t) BY <1>1, <1>3, <1>4 DEF Moved, Consumed
<1> QED BY <1>2, <1>5

(* The invariant holds of an empty window.                                   *)
LEMMA InitiallyLDAP == Init => LDAPInvariant
<1> SUFFICES ASSUME Init PROVE LDAPInvariant OBVIOUS
<1>1. sent \in [Directions -> Seq(Bytes)] /\ closed = FALSE /\ correlation = None /\ log = <<>>
  BY ConversationsAssumption DEF Init
<1>2. Consumed(streams)
  <2>1. <<>> \in Seq(Bytes) /\ Len(<<>>) = 0 OBVIOUS
  <2> DEFINE x == [payload |-> <<>>, consumed |-> 0, contiguous |-> TRUE]
  <2>2. x \in TCPStreams /\ x.consumed \in 0 .. Len(x.payload) BY <2>1 DEF TCPStreams
  <2>3. streams = [d \in Directions |-> x] BY DEF Init
  <2> HIDE DEF x
  <2> QED BY <2>2, <2>3 DEF Consumed
<1>3. FramedUpTo(framing, streams) /\ Framed(framing) = {} BY DEF Init, FramedUpTo, Framed
<1>4. LoggedUpTo(log, streams)
  <2>1. <<>> \in Seq(Entries) /\ DOMAIN <<>> = {} OBVIOUS
  <2> QED BY <1>1, <2>1 DEF LoggedUpTo
<1>5. Accounted(None, log, framing, streams) BY <1>1, <1>3 DEF Accounted
<1>6. Standing(None, log, framing, streams) BY <1>2, <1>3, <1>4, <1>5 DEF Standing
<1> QED BY <1>1, <1>6 DEF LDAPInvariant

(* Every packet, loss and closing of the window preserves the invariant.     *)
LEMMA LDAPSteps == LDAPInvariant /\ [Next]_vars => LDAPInvariant'
<1> SUFFICES ASSUME LDAPInvariant, [Next]_vars PROVE LDAPInvariant' OBVIOUS
<1>1. sent \in [Directions -> Seq(Bytes)] /\ closed \in BOOLEAN BY DEF LDAPInvariant
<1>2. ~ closed => Standing(correlation, log, framing, streams) BY DEF LDAPInvariant
<1>3. ASSUME ~ closed, NEW t, Moved(streams, t), Update(t), UNCHANGED <<sent, closed>> PROVE LDAPInvariant'
  <2>1. Standing(correlation', log', framing', streams') BY <1>2, <1>3, UpdateStands
  <2>2. sent' \in [Directions -> Seq(Bytes)] /\ closed' = FALSE BY <1>1, <1>3
  <2> QED BY <2>1, <2>2 DEF LDAPInvariant
<1>4. ASSUME NEW d \in Directions, NEW n \in Cuts, Segment(d, n) PROVE LDAPInvariant'
  <2>1. ~ closed /\ Consumed(streams) BY <1>2, <1>4 DEF Segment, Standing
  <2>2. n \in Nat BY CutsAssumption
  <2>3. Moved(streams, [streams EXCEPT ![d] = Received(@, d, n)])
    BY <1>1, <1>4, <2>1, <2>2, SegmentMoves DEF Segment
  <2> QED BY <1>3, <1>4, <2>1, <2>3 DEF Segment
<1>5. ASSUME NEW d \in Directions, LoseStream(d) PROVE LDAPInvariant'
  <2>1. ~ closed /\ Consumed(streams) BY <1>2, <1>5 DEF LoseStream, Standing
  <2>2. Moved(streams, [streams EXCEPT ![d].contiguous = FALSE]) BY <1>5, <2>1, LossMoves DEF LoseStream
  <2> QED BY <1>3, <1>5, <2>1, <2>2 DEF LoseStream
<1>6. CASE Close
  <2>1. Standing(correlation, log, framing, streams) BY <1>2, <1>6 DEF Close
  <2>2. /\ log' = log /\ framing' = framing /\ streams' = streams /\ sent' = sent
        /\ correlation # None /\ correlation' = Finalized(correlation) /\ closed' = TRUE
    BY <1>6 DEF Close
  <2> QED BY <1>1, <2>1, <2>2 DEF LDAPInvariant
<1>7. CASE UNCHANGED vars BY <1>7 DEF vars, LDAPInvariant
<1> QED BY <1>4, <1>5, <1>6, <1>7 DEF Next

-----------------------------------------------------------------------------
(* The properties say of the log what is said of any entries here.           *)
LEMMA LogSays ==
    ASSUME log \in Seq(Entries)
    PROVE  /\ \A i, j : /\ IsRequest(i) <=> Asks(log[i])
                        /\ IsResponse(i) <=> Answers(log[i])
                        /\ Repeats(i, j) <=> RepeatsIt(log[i], log[j])
                        /\ Addresses(i, j) <=> AddressesIt(log[i], log[j])
                        /\ Fits(i, j) <=> FitsIt(log[i], log[j])
                        /\ Names(i, j) <=> NamesIt(log[i], log[j])
           /\ \A i \in 1 .. (Len(log) + 1) :
                /\ Usable(i) <=> (i \in DOMAIN log => log[i].usable) /\ Whole(log, i)
                /\ Open(i) = OpenIn(log, i)
                /\ \A j \in 1 .. Len(log) : Tainted(j, i) <=> TaintedIn(log, j, i)
<1>1. \A i : M(i) = MessageOf(log[i]) /\ D(i) = SenderOf(log[i]) /\ Status(i) = StatusOf(log[i])
  BY DEF M, D, Status, MessageOf, SenderOf, StatusOf
<1>2. \A i : (IsRequest(i) <=> Asks(log[i])) /\ (IsResponse(i) <=> Answers(log[i]))
  BY <1>1 DEF IsRequest, IsResponse, Asks, Answers
<1>3. \A i, j : Repeats(i, j) <=> RepeatsIt(log[i], log[j])
  BY <1>1, <1>2 DEF Repeats, RepeatsIt, SameKey
<1>4. \A i, j : Addresses(i, j) <=> AddressesIt(log[i], log[j])
  BY <1>1, <1>2 DEF Addresses, AddressesIt
<1>5. \A i, j : Fits(i, j) <=> FitsIt(log[i], log[j])
  BY <1>1, <1>4 DEF Fits, FitsIt
<1>6. \A i, j : Names(i, j) <=> NamesIt(log[i], log[j])
  BY <1>1 DEF Names, NamesIt
<1>7. ASSUME NEW i PROVE Usable(i) <=> (i \in DOMAIN log => log[i].usable) /\ Whole(log, i)
  BY <1>1, <1>2 DEF Usable, Whole
<1>8. ASSUME NEW i PROVE Open(i) = OpenIn(log, i)
  BY <1>1, <1>6 DEF Open, OpenIn
<1>9. ASSUME NEW i \in 1 .. (Len(log) + 1), NEW j \in 1 .. Len(log) PROVE Tainted(j, i) <=> TaintedIn(log, j, i)
  <2>1. Len(log) \in Nat /\ DOMAIN log = 1 .. Len(log) BY LenProperties
  <2>2. \A k \in (j + 1) .. (i - 1) : k \in DOMAIN log BY <2>1
  <2>3. \A k \in (j + 1) .. (i - 1) : Usable(k) <=> log[k].usable /\ Whole(log, k) BY <1>7, <2>2
  <2> QED BY <1>3, <2>3 DEF Tainted, TaintedIn
<1> QED BY <1>2, <1>3, <1>4, <1>5, <1>6, <1>7, <1>8, <1>9

(* Two requests that wait at the same place have different keys.             *)
LEMMA OpenKeys ==
    ASSUME NEW L \in Seq(Entries), \A i \in DOMAIN L : Explains(L, L[i], i), NEW i \in DOMAIN L,
           NEW p \in OpenIn(L, i), NEW q \in OpenIn(L, i), SameKey(L[p], L[q])
    PROVE  p = q
<1>1. DOMAIN L = 1 .. Len(L) /\ Len(L) \in Nat BY LenProperties
<1>2. ASSUME NEW a \in OpenIn(L, i), NEW b \in OpenIn(L, i), SameKey(L[b], L[a]), a < b PROVE FALSE
  <2>1. a \in 1 .. (i - 1) /\ b \in 1 .. (i - 1) /\ StatusOf(L[a]) = "pending" /\ StatusOf(L[b]) = "pending"
        /\ \A k \in (a + 1) .. (i - 1) :
               NamesIt(L[k], L[a]) => MessageOf(L[k]).operation \in SearchContinuations
    BY DEF OpenIn
  <2>2. a \in 1 .. (b - 1) /\ \A k \in (a + 1) .. (b - 1) : k \in (a + 1) .. (i - 1) BY <1>1, <1>2, <2>1
  <2>3. a \in OpenIn(L, b) BY <2>1, <2>2 DEF OpenIn
  <2>4. Explains(L, L[b], b) BY <1>1, <2>1
  <2>5. Asks(L[b]) BY <2>1, <2>4 DEF Explains
  <2>6. a \in {j \in OpenIn(L, b) : RepeatsIt(L[b], L[j])} BY <1>2, <2>3, <2>5 DEF RepeatsIt
  <2>7. {j \in OpenIn(L, b) : RepeatsIt(L[b], L[j])} # {} BY <2>6
  <2> QED BY <2>1, <2>4, <2>5, <2>7 DEF Explains
<1>3. p \in Int /\ q \in Int BY DEF OpenIn
<1>4. SameKey(L[q], L[p]) BY DEF SameKey
<1>5. ~ (p < q) BY <1>2, <1>4
<1>6. ~ (q < p) BY <1>2
<1> QED BY <1>3, <1>5, <1>6

(* Explained entries have the outcomes the exchange implies.                 *)
LEMMA OutcomesHold ==
    ASSUME log \in Seq(Entries), \A i \in DOMAIN log : Explains(log, log[i], i)
    PROVE  OutcomesOfExchange
<1> SUFFICES ASSUME NEW i \in DOMAIN log
             PROVE  /\ Status(i) = CASE IsRequest(i) -> RequestOutcome(i)
                                     [] IsResponse(i) -> ResponseOutcome(i)
                                     [] OTHER -> "non_correlatable"
                    /\ Status(i) = "matched" =>
                         \E j \in Open(i) : Fits(i, j) /\ log[i].observed.request = M(j)
  BY DEF OutcomesOfExchange
<1> DEFINE e == log[i]
           O == OpenIn(log, i)
           use == e.usable /\ Whole(log, i)
           same == {j \in O : RepeatsIt(e, log[j])}
<1>1. DOMAIN log = 1 .. Len(log) /\ Len(log) \in Nat BY LenProperties
<1>2. i \in 1 .. (Len(log) + 1) /\ O \subseteq 1 .. Len(log)
  <2>1. O \subseteq 1 .. (i - 1) BY DEF OpenIn
  <2> QED BY <1>1, <2>1
<1>3. Status(i) = StatusOf(e) /\ (IsRequest(i) <=> Asks(e)) /\ (IsResponse(i) <=> Answers(e))
  BY LogSays DEF Status, StatusOf
<1>4. (Usable(i) <=> use) /\ Open(i) = O BY <1>1, <1>2, LogSays
<1>5. \A j \in O : /\ Repeats(i, j) <=> RepeatsIt(e, log[j])
                   /\ Addresses(i, j) <=> AddressesIt(e, log[j])
                   /\ Fits(i, j) <=> FitsIt(e, log[j])
                   /\ Tainted(j, i) <=> TaintedIn(log, j, i)
                   /\ M(j) = MessageOf(log[j])
  BY <1>2, LogSays DEF M, MessageOf
<1>6. {j \in Open(i) : Repeats(i, j)} = same
  <2> HIDE DEF e, O
  <2> QED BY <1>4, <1>5
<1>7. Explains(log, e, i) OBVIOUS
<1> HIDE DEF e, O, use, same
<1>16. ASSUME NEW j \in O, AddressesIt(e, log[j]), TaintedIn(log, j, i),
              NEW k \in O, FitsIt(e, log[k]), ~ TaintedIn(log, k, i)
       PROVE  FALSE
  <2>1. AddressesIt(e, log[k]) BY <1>16 DEF FitsIt
  <2>2. j \in OpenIn(log, i) /\ k \in OpenIn(log, i) BY DEF O
  <2>3. SenderOf(log[j]) \in Directions /\ SenderOf(log[k]) \in Directions /\ SenderOf(e) \in Directions
    <3>1. j \in DOMAIN log /\ k \in DOMAIN log BY <1>1, <1>2
    <3>2. log[j] \in Entries /\ log[k] \in Entries /\ e \in Entries BY <1>1, <3>1 DEF e
    <3> QED BY <3>2 DEF Entries, Observations, SenderOf
  <2>4. SameKey(log[j], log[k]) BY <1>16, <2>1, <2>3 DEF AddressesIt, SameKey, Directions
  <2>5. j = k BY <2>2, <2>4, OpenKeys
  <2> QED BY <1>16, <2>5
<1>8. RequestOutcome(i) = IF ~ use THEN "unresolved" ELSE IF same # {} THEN "ambiguous"
                          ELSE IF Cardinality(O) < MaxPending THEN "pending" ELSE "unresolved"
  BY <1>4, <1>6 DEF RequestOutcome
<1>9. ResponseOutcome(i) =
        IF use /\ (\E j \in O : AddressesIt(e, log[j]) /\ TaintedIn(log, j, i)) THEN "ambiguous"
        ELSE IF use /\ (\E j \in O : FitsIt(e, log[j]) /\ ~ TaintedIn(log, j, i)) THEN "matched"
        ELSE "unmatched"
  <2> DEFINE A == \E j \in O : Addresses(i, j) /\ Tainted(j, i)
             B == \E j \in O : Fits(i, j) /\ ~ Tainted(j, i)
  <2>1. A <=> \E j \in O : AddressesIt(e, log[j]) /\ TaintedIn(log, j, i) BY <1>5
  <2>2. B <=> \E j \in O : FitsIt(e, log[j]) /\ ~ TaintedIn(log, j, i) BY <1>5
  <2>3. ResponseOutcome(i) = CASE use /\ A -> "ambiguous" [] use /\ B -> "matched" [] OTHER -> "unmatched"
    BY <1>4 DEF ResponseOutcome
  <2> DEFINE P == \E j \in O : AddressesIt(e, log[j]) /\ TaintedIn(log, j, i)
             Q == \E j \in O : FitsIt(e, log[j]) /\ ~ TaintedIn(log, j, i)
  <2>4. (A <=> P) /\ (B <=> Q) BY <2>1, <2>2
  <2> HIDE DEF A, B, P, Q
  <2>5. ResponseOutcome(i) = IF use /\ P THEN "ambiguous" ELSE IF use /\ Q THEN "matched" ELSE "unmatched"
    BY <1>16, <2>3, <2>4 DEF P, Q
  <2> QED BY <2>5 DEF P, Q
<1>10. Asks(e) => StatusOf(e) = RequestOutcome(i)
  BY <1>7, <1>8 DEF Explains, use, same, O
<1>11. Answers(e) => StatusOf(e) = ResponseOutcome(i)
  BY <1>7, <1>9 DEF Explains, use, O
<1>12. ~ Asks(e) /\ ~ Answers(e) => StatusOf(e) = "non_correlatable" BY <1>7 DEF Explains
<1>13. ~ (Asks(e) /\ Answers(e)) BY DEF Answers
<1>14. Status(i) = "matched" => \E j \in Open(i) : Fits(i, j) /\ log[i].observed.request = M(j)
  <2> SUFFICES ASSUME Status(i) = "matched"
               PROVE  \E j \in Open(i) : Fits(i, j) /\ log[i].observed.request = M(j)
    OBVIOUS
  <2>1. PICK j \in O : FitsIt(e, log[j]) /\ e.observed.request = MessageOf(log[j])
    BY <1>3, <1>7 DEF Explains, O
  <2>2. Fits(i, j) /\ M(j) = MessageOf(log[j]) BY <1>5, <2>1
  <2> QED BY <1>4, <2>1, <2>2 DEF e
<1>15. Status(i) = CASE IsRequest(i) -> RequestOutcome(i)
                      [] IsResponse(i) -> ResponseOutcome(i)
                      [] OTHER -> "non_correlatable"
  BY <1>3, <1>10, <1>11, <1>12, <1>13
<1> QED BY <1>14, <1>15

(* A correlation that comes to the log has the counts and the requests the   *)
(* exchange implies.                                                         *)
LEMMA AccountsHold ==
    ASSUME NEW x, NEW left, Explained(x, log, left),
           correlation.requests = x.requests, SameAccounts(correlation, x),
           left = IF correlation.reason # None \/ closed THEN "unresolved" ELSE "pending",
           correlation.reason # None <=> ~ Whole(log, Len(log) + 1) \/ Lost(streams) \/ Broken(framing)
    PROVE  AccountsOfExchange
<1> DEFINE end == Len(log) + 1
           O == OpenIn(log, end)
           Left(j) == IF Tainted(j, end) THEN "ambiguous"
                      ELSE IF correlation.reason # None \/ closed THEN "unresolved" ELSE "pending"
           Had(j) == Cardinality({k \in DOMAIN log : Names(k, j)})
           Quad(r) == <<r.direction, r.message, r.status, r.summary>>
<1>1. log \in Seq(Entries) BY DEF Explained
<1>2. Len(log) \in Nat /\ end \in 1 .. (Len(log) + 1) /\ end \notin DOMAIN log /\ O \subseteq 1 .. Len(log)
  <2>1. Len(log) \in Nat /\ DOMAIN log = 1 .. Len(log) BY <1>1, LenProperties
  <2>2. O \subseteq 1 .. (end - 1) BY DEF OpenIn
  <2> QED BY <2>1, <2>2
<1>3. Open(end) = O /\ (Usable(end) <=> Whole(log, end)) /\ \A j \in O : Tainted(j, end) <=> TaintedIn(log, j, end)
  BY <1>1, <1>2, LogSays
<1>4. ASSUME NEW status
      PROVE  Cardinality({i \in DOMAIN log : Status(i) = status}) = Count(log, status)
  BY DEF Count, Status, StatusOf
<1>5. \A j : Had(j) = Named(log, j)
  <2>1. \A k, j : Names(k, j) <=> NamesIt(log[k], log[j]) BY <1>1, LogSays
  <2>2. ASSUME NEW j PROVE {k \in DOMAIN log : Names(k, j)} = {k \in DOMAIN log : NamesIt(log[k], log[j])}
    BY <2>1
  <2> QED BY <2>2 DEF Named
<1>6. \A j \in O : Quad(RowIn(log, j, left))
                     = <<D(j), M(j), Left(j), [status |-> Left(j), responses |-> Had(j)]>>
  <2> SUFFICES ASSUME NEW j \in O
               PROVE  Quad(RowIn(log, j, left))
                        = <<D(j), M(j), Left(j), [status |-> Left(j), responses |-> Had(j)]>>
    OBVIOUS
  <2> DEFINE status == IF TaintedIn(log, j, end) THEN "ambiguous" ELSE left
             k == Named(log, j)
             e == log[j]
  <2>1. RowIn(log, j, left) = Row(e, status, k) BY DEF RowIn
  <2>2. Left(j) = status BY <1>3
  <2>3. Had(j) = k BY <1>5
  <2>4. D(j) = SenderOf(e) /\ M(j) = MessageOf(e) BY DEF D, M, SenderOf, MessageOf
  <2> HIDE DEF status, k, e, Left, Had
  <2>5. Quad(Row(e, status, k)) = <<SenderOf(e), MessageOf(e), status, [status |-> status, responses |-> k]>>
    BY DEF Row
  <2> QED BY <2>1, <2>2, <2>3, <2>4, <2>5
<1>7. correlation.requests = {RowIn(log, j, left) : j \in O} BY DEF Explained
<1> HIDE DEF Quad, Left, Had
<1>8. {Quad(r) : r \in correlation.requests}
        = {<<D(j), M(j), Left(j), [status |-> Left(j), responses |-> Had(j)]>> : j \in Open(end)}
  <2> DEFINE Item(j) == <<D(j), M(j), Left(j), [status |-> Left(j), responses |-> Had(j)]>>
             R(j) == RowIn(log, j, left)
  <2>1. \A j \in O : Quad(R(j)) = Item(j) BY <1>6
  <2>2. correlation.requests = {R(j) : j \in O} BY <1>7
  <2>3. Open(end) = O BY <1>3
  <2> HIDE DEF O, end, Item, R
  <2>4. {Quad(r) : r \in correlation.requests} = {Item(j) : j \in Open(end)} BY <2>1, <2>2, <2>3
  <2> QED BY <2>4 DEF Item
<1>9. /\ correlation.matched = Count(log, "matched") /\ correlation.unmatched = Count(log, "unmatched")
      /\ correlation.ambiguous = Count(log, "ambiguous")
      /\ correlation.non_correlatable = Count(log, "non_correlatable")
  BY DEF Explained, SameAccounts
<1>10. correlation.reason # None
         <=> (~ Usable(end) \/ Lost(streams) \/ \E d \in Framed(framing) : framing[d].status \in Failed)
  BY <1>3 DEF Broken
<1> QED BY <1>4, <1>8, <1>9, <1>10 DEF AccountsOfExchange, Quad, Left, Had

(* The invariant says that the correlation is of the exchange.               *)
LEMMA InvariantSays == LDAPInvariant => CorrelationOfExchange
<1> SUFFICES ASSUME LDAPInvariant PROVE CorrelationOfExchange OBVIOUS
<1>1. PICK c : /\ Standing(c, log, framing, streams)
               /\ IF closed THEN c # None /\ correlation = Finalized(c) ELSE correlation = c
  BY DEF LDAPInvariant
<1>2. Accounted(c, log, framing, streams) BY <1>1 DEF Standing
<1>3. CASE c = None
  <2>1. correlation = None /\ log = <<>> BY <1>1, <1>2, <1>3 DEF Accounted
  <2>2. DOMAIN log = {} BY <2>1
  <2> QED BY <2>1, <2>2 DEF CorrelationOfExchange, OutcomesOfExchange, AccountsOfExchange
<1>4. CASE c # None
  <2> DEFINE left == IF c.reason # None THEN "unresolved" ELSE "pending"
  <2>1. Explained(c, log, left)
        /\ (c.reason # None <=> ~ Whole(log, Len(log) + 1) \/ Lost(streams) \/ Broken(framing))
    BY <1>2, <1>4 DEF Accounted
  <2>2. c \in Correlations BY <2>1 DEF Explained
  <2>3. OutcomesOfExchange BY <2>1, OutcomesHold DEF Explained
  <2>4. AccountsOfExchange
    <3>1. CASE ~ closed
      <4>1. correlation = c /\ SameAccounts(c, c) BY <1>1, <3>1 DEF SameAccounts
      <4>2. left = IF correlation.reason # None \/ closed THEN "unresolved" ELSE "pending" BY <3>1, <4>1
      <4> HIDE DEF left
      <4> QED BY <2>1, <4>1, <4>2, AccountsHold
    <3>2. CASE closed
      <4> DEFINE rs == {Unresolved(r) : r \in c.requests}
                 x == [c EXCEPT !.requests = rs]
      <4>1. rs \in SUBSET Requests
        <5>1. c.requests \in SUBSET Requests BY <2>2, CorrelationsAre
        <5>2. \A r \in Requests : Unresolved(r) \in Requests BY RequestsAre
        <5> QED BY <5>1, <5>2
      <4>2. correlation = Finalized(c) BY <1>1, <3>2
      <4>3. /\ correlation.requests = rs /\ SameAccounts(correlation, c) /\ correlation.reason = c.reason
            /\ correlation.finalized = TRUE
        BY <2>2, <4>2 DEF Finalized, Correlations, SameAccounts
      <4>4. rs = {Unresolved(r) : r \in c.requests} OBVIOUS
      <4> HIDE DEF rs
      <4>5. Has(x, rs, c.observations, c.matched, c.unmatched, c.ambiguous, c.non_correlatable, c.reason)
        <5>1. 0 \in Nat /\ None \in {None, "limit exceeded", "stream unavailable"} OBVIOUS
        <5> QED BY <2>2, <4>1, <5>1, ChangedIs
      <4> HIDE DEF x, left
      <4>6. x \in Correlations /\ SameAccounts(x, c) /\ x.requests = rs BY <4>5 DEF Has, SameAccounts
      <4>7. Explained(x, log, "unresolved") BY <2>1, <4>4, <4>6, AccountsExplain
      <4>8. SameAccounts(correlation, x) /\ correlation.requests = x.requests
        BY <4>3, <4>6 DEF SameAccounts
      <4>10. correlation.reason # None <=> ~ Whole(log, Len(log) + 1) \/ Lost(streams) \/ Broken(framing)
        BY <2>1, <4>3
      <4> QED BY <3>2, <4>7, <4>8, <4>10, AccountsHold
    <3> QED BY <3>1, <3>2 DEF LDAPInvariant
  <2> QED BY <2>3, <2>4 DEF CorrelationOfExchange
<1> QED BY <1>3, <1>4

(* Whatever two sides send, however it is cut into segments and wherever     *)
(* segments are lost, and for every limit of pending requests: each LDAP     *)
(* message gets the outcome that the messages before it imply, and the       *)
(* window's counts and its pending requests are those of the whole exchange  *)
(* (update_ldap_correlation_state, ldap_correlation.py).                     *)
THEOREM LDAPCorrelationIsOfExchange == Spec => []CorrelationOfExchange
<1>1. Init => LDAPInvariant BY InitiallyLDAP
<1>2. LDAPInvariant /\ [Next]_vars => LDAPInvariant' BY LDAPSteps
<1>3. LDAPInvariant => CorrelationOfExchange BY InvariantSays
<1> QED BY <1>1, <1>2, <1>3, PTL DEF Spec

-----------------------------------------------------------------------------
(* The framing of what each direction sent.                                  *)

(* The messages of a direction in a log, entry by entry.                     *)
Kept(ms, entry, d) ==
    IF entry.observed.direction = d THEN Append(ms, entry.observed.message) ELSE ms
MessagesIn(L, d) == FoldLeft(LAMBDA ms, entry : Kept(ms, entry, d), <<>>, L)
Keeping(a, L, d) ==
    /\ a[0] = <<>> /\ \A k \in 1 .. Len(L) : a[k] = Kept(a[k - 1], L[k], d)
    /\ \A k \in 0 .. Len(L) : a[k] \in Seq(Messages)

(* The messages of a direction are kept by going through the log.           *)
LEMMA MessagesKept ==
    ASSUME NEW L \in Seq(Entries), NEW d
    PROVE  \E a : Keeping(a, L, d) /\ MessagesIn(L, d) = a[Len(L)]
<1> DEFINE n == Len(L)
           S == 1 .. n
           C == Seq(Messages)
           iter[s \in SUBSET S] == IF s = {} THEN <<>> ELSE Kept(iter[s \ {Max(s)}], L[Max(s)], d)
           pick == [s \in SUBSET S |-> Max(s)]
           step == [x \in S |-> [v \in C |-> Kept(v, L[x], d)]]
           Follows(g) == g = [s \in SUBSET S |-> IF s = {} THEN <<>> ELSE Kept(g[s \ {Max(s)}], L[Max(s)], d)]
<1>1. DOMAIN L = S /\ n \in Nat BY LenProperties
<1>2. SUFFICES \E a : Keeping(a, L, d) /\ iter[S] = a[n]
  BY <1>1 DEF FoldLeft, MapThenFoldSet, MessagesIn
<1>0. \A x \in S : \A v \in C : Kept(v, L[x], d) \in C
  <2> SUFFICES ASSUME NEW x \in S, NEW v \in C PROVE Kept(v, L[x], d) \in C OBVIOUS
  <2>1. L[x].observed.message \in Messages
    <3>1. L[x] \in Entries BY <1>1
    <3>2. L[x].observed \in Observations BY <3>1 DEF Entries
    <3> QED BY <3>2 DEF Observations
  <2> DEFINE m == L[x].observed.message
  <2>2. Append(v, m) \in C
    <3>1. m \in Messages BY <2>1
    <3> HIDE DEF m
    <3> QED BY <3>1
  <2> HIDE DEF C
  <2> QED BY <2>2 DEF Kept
<1> HIDE DEF C
<1>9. <<>> \in C BY DEF C
<1>3. \A s \in SUBSET S : s # {} => Max(s) \in s /\ s \ {Max(s)} \in SUBSET S
  <2> SUFFICES ASSUME NEW s \in SUBSET S, s # {} PROVE Max(s) \in s OBVIOUS
  <2>1. s \in SUBSET (0 .. n) BY <1>1
  <2> HIDE DEF n
  <2> QED BY <1>1, <2>1, MaxIs
<1>4. \E g : Follows(g)
  <2>1. \A s \in SUBSET S : s # {} => pick[s] \in s BY <1>3
  <2>2. \A x \in S : \A v \in C : step[x][v] \in C /\ step[x][v] = Kept(v, L[x], d) BY <1>0
  <2>3. IsFiniteSet(S) BY <1>1, FS_Interval
  <2>4. PICK g \in [SUBSET S -> C] :
            \A s \in SUBSET S : g[s] = IF s = {} THEN <<>> ELSE step[pick[s]][g[s \ {pick[s]}]]
    <3>1. \A x \in S : \A v \in C : step[x][v] \in C BY <2>2
    <3> HIDE DEF S, pick, step
    <3>2. BuiltUp(S, C, <<>>, pick, step) BY <1>9, <2>1, <2>3, <3>1, SubsetRecursion
    <3> QED BY <3>2 DEF BuiltUp
  <2>5. ASSUME NEW s \in SUBSET S, s # {}
        PROVE  step[pick[s]][g[s \ {pick[s]}]] = Kept(g[s \ {Max(s)}], L[Max(s)], d)
    <3>1. pick[s] = Max(s) /\ Max(s) \in S /\ g[s \ {Max(s)}] \in C BY <1>3, <2>4, <2>5
    <3> HIDE DEF pick, step, S
    <3> QED BY <2>2, <3>1
  <2>6. Follows(g)
    <3> HIDE DEF pick, step, S
    <3> QED BY <2>4, <2>5
  <2> QED BY <2>6
<1>5. Follows(iter)
  <2>1. iter = CHOOSE g : Follows(g) OBVIOUS
  <2> HIDE DEF iter, Follows
  <2> QED BY <1>4, <2>1
<1> DEFINE a == [k \in 0 .. n |-> iter[1 .. k]]
<1>6. /\ a[0] = <<>>
      /\ \A k \in 1 .. n : a[k] = Kept(a[k - 1], L[k], d)
  <2>1. 1 .. 0 = {} /\ \A k \in 0 .. n : 1 .. k \in SUBSET S BY <1>1
  <2>2. a[0] = <<>>
    <3>1. a[0] = iter[1 .. 0] /\ 1 .. 0 \in SUBSET S BY <1>1, <2>1
    <3> HIDE DEF iter, a
    <3> QED BY <1>5, <2>1, <3>1
  <2>3. ASSUME NEW k \in 1 .. n PROVE a[k] = Kept(a[k - 1], L[k], d)
    <3>1. k \in Nat \ {0} BY <1>1
    <3>2. Max(1 .. k) = k /\ (1 .. k) \ {k} = 1 .. (k - 1) /\ 1 .. k # {} BY <3>1, LastOfInterval
    <3>3. 1 .. k \in SUBSET S /\ a[k] = iter[1 .. k] /\ a[k - 1] = iter[1 .. k - 1]
      <4>1. k \in 0 .. n /\ k - 1 \in 0 .. n BY <1>1
      <4> HIDE DEF iter, S
      <4> QED BY <2>1, <4>1
    <3> HIDE DEF iter, a, S
    <3> QED BY <1>5, <3>1, <3>2, <3>3
  <2> QED BY <2>2, <2>3
<1>7. \A k \in 0 .. n : a[k] \in C
  <2> DEFINE H == {k \in 0 .. n : a[k] \in C}
  <2>1. 0 \in H BY <1>1, <1>6, <1>9
  <2>2. ASSUME NEW k \in 1 .. n, k - 1 \in H PROVE k \in H
    <3>1. a[k - 1] \in C /\ k \in S /\ k \in 0 .. n BY <1>1, <2>2
    <3>2. a[k] = Kept(a[k - 1], L[k], d) BY <1>6
    <3> HIDE DEF a
    <3> QED BY <1>0, <3>1, <3>2
  <2>3. \A k \in 0 .. n : k \in H
    <3> HIDE DEF H
    <3> QED BY <1>1, <2>1, <2>2, Upwards
  <2> QED BY <2>3
<1>8. a[n] = iter[S]
  <2>1. n \in 0 .. n BY <1>1
  <2> HIDE DEF iter
  <2> QED BY <2>1
<1> HIDE DEF a, iter
<1>10. Keeping(a, L, d) BY <1>6, <1>7 DEF Keeping, C
<1> QED BY <1>8, <1>10

(* A message appended to what is appended.                                  *)
LEMMA AppendedMessage ==
    ASSUME NEW p \in Seq(Messages), NEW q \in Seq(Messages), NEW m \in Messages
    PROVE  Append(p \o q, m) = p \o Append(q, m)
<1> DEFINE u == <<m>>
<1>1. u \in Seq(Messages) OBVIOUS
<1>2. Append(p \o q, m) = (p \o q) \o u /\ Append(q, m) = q \o u BY ConcatProperties, AppendIsConcat
<1> HIDE DEF u
<1>3. (p \o q) \o u = p \o (q \o u) BY <1>1
<1> QED BY <1>2, <1>3

(* A packet adds its messages to those of its direction, and leaves the      *)
(* others.                                                                   *)
Bring(os, d, msgs) ==
    /\ os \in Seq(Observations) /\ msgs \in Seq(Messages) /\ Len(os) = Len(msgs)
    /\ \A i \in 1 .. Len(msgs) : os[i].direction = d /\ os[i].message = msgs[i]

(* Entering the messages of one direction adds just them to that            *)
(* direction's.                                                             *)
LEMMA MessagesEntered ==
    ASSUME NEW L \in Seq(Entries), NEW os, NEW usable \in BOOLEAN,
           NEW d, NEW msgs, Bring(os, d, msgs), NEW e
    PROVE  MessagesIn(Entered(L, os, usable), e) = IF e = d THEN MessagesIn(L, e) \o msgs ELSE MessagesIn(L, e)
<1> DEFINE K == Entered(L, os, usable)
           l == Len(L)
           n == Len(msgs)
<1>0. /\ os \in Seq(Observations) /\ msgs \in Seq(Messages) /\ Len(os) = Len(msgs)
      /\ \A i \in 1 .. Len(msgs) : os[i].direction = d /\ os[i].message = msgs[i]
  BY DEF Bring
<1>1. /\ K \in Seq(Entries) /\ Len(K) = l + n /\ l \in Nat /\ n \in Nat
      /\ \A i \in 1 .. l : K[i] = L[i]
      /\ \A i \in 1 .. n : K[l + i] = [observed |-> os[i], usable |-> usable]
  <2>1. l \in Nat /\ n \in Nat /\ Len(os) = n BY <1>0, LenProperties
  <2>2. /\ Entered(L, os, usable) \in Seq(Entries)
        /\ Len(Entered(L, os, usable)) = Len(L) + Len(os)
        /\ \A i \in 1 .. Len(L) : Entered(L, os, usable)[i] = L[i]
        /\ \A i \in 1 .. Len(os) :
             Entered(L, os, usable)[Len(L) + i] = [observed |-> os[i], usable |-> usable]
    BY <1>0, EnteredIs
  <2> QED BY <2>1, <2>2
<1>2. PICK a : Keeping(a, L, e) /\ MessagesIn(L, e) = a[l] BY MessagesKept
<1> HIDE DEF K
<1>3. PICK b : Keeping(b, K, e) /\ MessagesIn(K, e) = b[l + n]
  <2>1. \E b : Keeping(b, K, e) /\ MessagesIn(K, e) = b[Len(K)] BY <1>1, MessagesKept
  <2> HIDE DEF l, n
  <2> QED BY <1>1, <2>1
<1> DEFINE H == {k \in 0 .. l : a[k] = b[k]}
<1>4. \A k \in 0 .. l : k \in H
  <2>1. 0 \in H BY <1>1, <1>2, <1>3 DEF Keeping
  <2>2. ASSUME NEW k \in 1 .. l, k - 1 \in H PROVE k \in H
    <3>1. k \in 1 .. Len(K) /\ k \in 0 .. l BY <1>1
    <3>2. a[k] = Kept(a[k - 1], L[k], e) /\ b[k] = Kept(b[k - 1], K[k], e) BY <1>2, <1>3, <3>1 DEF Keeping
    <3> QED BY <1>1, <2>2, <3>1, <3>2
  <2> HIDE DEF H
  <2> QED BY <1>1, <2>1, <2>2, Upwards
<1>5. a[l] = b[l] /\ a[l] \in Seq(Messages)
  <2>1. l \in 0 .. l BY <1>1
  <2> QED BY <1>2, <1>4, <2>1 DEF Keeping
<1>6. ASSUME NEW k \in 1 .. n
      PROVE  b[l + k] = IF e = d THEN Append(b[l + (k - 1)], msgs[k]) ELSE b[l + (k - 1)]
  <2>1. l + k \in 1 .. Len(K) /\ l + k - 1 = l + (k - 1) BY <1>1
  <2>2. b[l + k] = Kept(b[l + (k - 1)], K[l + k], e) BY <1>3, <2>1 DEF Keeping
  <2>3. K[l + k].observed.direction = d /\ K[l + k].observed.message = msgs[k]
    <3> DEFINE x == K[l + k]
               y == os[k]
    <3>1. x = [observed |-> y, usable |-> usable] BY <1>1
    <3>2. y.direction = d /\ y.message = msgs[k] BY <1>0
    <3> HIDE DEF x, y
    <3>3. x.observed = y BY <3>1
    <3>4. x.observed.direction = d /\ x.observed.message = msgs[k] BY <3>2, <3>3
    <3> QED BY <3>4 DEF x
  <2> QED BY <2>2, <2>3 DEF Kept
<1> DEFINE J == {k \in 0 .. n : b[l + k] = IF e = d THEN a[l] \o SubSeq(msgs, 1, k) ELSE a[l]}
<1>7. \A k \in 0 .. n : k \in J
  <2>1. 0 \in J
    <3>1. SubSeq(msgs, 1, 0) = <<>> OBVIOUS
    <3>2. a[l] \o <<>> = a[l] BY <1>5
    <3>3. l + 0 = l /\ 0 \in 0 .. n BY <1>1
    <3> QED BY <1>5, <3>1, <3>2, <3>3
  <2>2. ASSUME NEW k \in 1 .. n, k - 1 \in J PROVE k \in J
    <3>1. CASE e = d
      <4> DEFINE p == SubSeq(msgs, 1, k - 1)
      <4>1. b[l + (k - 1)] = a[l] \o p BY <2>2, <3>1
      <4>2. SubSeq(msgs, 1, k) = Append(p, msgs[k]) /\ p \in Seq(Messages) /\ msgs[k] \in Messages BY <1>0, <1>1
      <4>3. Append(a[l] \o p, msgs[k]) = a[l] \o Append(p, msgs[k])
        <5> DEFINE z == a[l]
                   m == msgs[k]
        <5>1. z \in Seq(Messages) /\ m \in Messages BY <1>5, <4>2
        <5> HIDE DEF p, z, m
        <5>2. Append(z \o p, m) = z \o Append(p, m) BY <4>2, <5>1, AppendedMessage
        <5> QED BY <5>2 DEF z, m
      <4>4. b[l + k] = a[l] \o SubSeq(msgs, 1, k) BY <1>6, <3>1, <4>1, <4>2, <4>3
      <4> QED BY <1>1, <3>1, <4>4
    <3>2. CASE e # d BY <1>1, <1>6, <2>2, <3>2
    <3> QED BY <3>1, <3>2
  <2> HIDE DEF J
  <2> QED BY <1>1, <2>1, <2>2, Upwards
<1>8. n \in 0 .. n /\ SubSeq(msgs, 1, n) = msgs BY <1>0, <1>1
<1>9. b[l + n] = IF e = d THEN a[l] \o msgs ELSE a[l] BY <1>7, <1>8
<1> QED BY <1>2, <1>3, <1>9 DEF K

(* What a log brings of a direction are messages.                            *)
LEMMA MessagesInAre ==
    ASSUME NEW L \in Seq(Entries), NEW d
    PROVE  MessagesIn(L, d) \in Seq(Messages)
<1>1. PICK a : Keeping(a, L, d) /\ MessagesIn(L, d) = a[Len(L)] BY MessagesKept
<1>2. Len(L) \in 0 .. Len(L) BY LenProperties
<1> QED BY <1>1, <1>2 DEF Keeping

(* At most one direction has new messages.                                   *)
Single(g) == \A d, e \in Framed(g) : g[d].messages # <<>> /\ g[e].messages # <<>> => d = e

(* The observations of a packet are of its new messages.                     *)
OfNew(os, g) ==
    /\ os \in Seq(Observations)
    /\ \/ os = <<>> /\ \A e \in Directions : NewOf(g[e]) = <<>>
       \/ \E d \in Framed(g) :
            /\ Len(os) = Len(g[d].messages)
            /\ \A i \in 1 .. Len(os) : os[i].direction = d /\ os[i].message = g[d].messages[i]
            /\ \A e \in Directions \ {d} : NewOf(g[e]) = <<>>

(* Counting a packet's messages observes the new ones, each as it is.       *)
LEMMA CountsNew ==
    ASSUME NEW b, NEW L, NEW left, Explained(b, L, left), b.observations = <<>>,
           NEW usable \in BOOLEAN, Going(b, L, left, usable),
           NEW g, NEW t, NEW u, Consumed(t), LoggedUpTo(L, t), Single(g),
           \A d \in Framed(g) : Ascending(g[d].messages, t[d].consumed, u[d].consumed)
                                /\ g[d].messages \in Seq(Messages)
    PROVE  OfNew(Counted(b, g).observations, g)
<1>1. CASE NewMessages(g) = {}
  <2>1. Counted(b, g) = b BY <1>1 DEF Counted
  <2>2. ASSUME NEW e \in Directions PROVE NewOf(g[e]) = <<>>
    <3> SUFFICES ASSUME g[e] # None, g[e].messages # <<>> PROVE FALSE BY DEF NewOf
    <3>1. <<e, g[e].messages>> \in NewMessages(g) BY DEF NewMessages, Framed
    <3> QED BY <1>1, <3>1
  <2>3. <<>> \in Seq(Observations) OBVIOUS
  <2> QED BY <2>1, <2>2, <2>3 DEF OfNew
<1>2. CASE NewMessages(g) # {}
  <2> DEFINE new == CHOOSE new \in NewMessages(g) : TRUE
  <2>1. new \in NewMessages(g) BY <1>2
  <2>2. Counted(b, g) = Run(b, new[1], new[2]) BY <1>2 DEF Counted
  <2> HIDE DEF new
  <2>3. PICK d \in Framed(g) : g[d].messages # <<>> /\ new = <<d, g[d].messages>> BY <2>1 DEF NewMessages
  <2> DEFINE msgs == g[d].messages
             lo == t[d].consumed
             hi == u[d].consumed
  <2>4. d \in Directions BY DEF Framed
  <2>5. msgs \in Seq(Messages) /\ Ascending(msgs, lo, hi) OBVIOUS
  <2>6. lo \in Nat
    <3>1. t[d] \in TCPStreams BY <2>4 DEF Consumed
    <3> QED BY <3>1 DEF TCPStreams
  <2>7. \A i \in DOMAIN L : SenderOf(L[i]) = d => MessageOf(L[i]).offset < lo BY DEF LoggedUpTo
  <2>8. Counted(b, g) = Run(b, d, msgs) BY <2>2, <2>3
  <2>10. ASSUME NEW e \in Directions \ {d} PROVE NewOf(g[e]) = <<>>
    <3> SUFFICES ASSUME g[e] # None, g[e].messages # <<>> PROVE FALSE BY DEF NewOf
    <3>1. e \in Framed(g) BY DEF Framed
    <3> QED BY <2>3, <3>1 DEF Single
  <2> HIDE DEF msgs, lo, hi
  <2> DEFINE a == Run(b, d, msgs)
  <2>9. Followed(a, L, left, d, msgs, usable, Len(msgs)) BY <2>4, <2>5, <2>6, <2>7, PacketFollows
  <2> HIDE DEF a
  <2> DEFINE os == a.observations
  <2>11. /\ os \in Seq(Observations) /\ Len(os) = Len(msgs)
         /\ \A i \in 1 .. Len(msgs) : os[i].direction = d /\ os[i].message = msgs[i]
    BY <2>9 DEF Followed
  <2> HIDE DEF os
  <2>12. OfNew(os, g) BY <2>10, <2>11 DEF OfNew, msgs
  <2> QED BY <2>8, <2>12 DEF os, a
<1> QED BY <1>1, <1>2

(* A packet adds its new messages to the log, and no others.                 *)
Adds(L, K, g) == \A e \in Directions : MessagesIn(K, e) = MessagesIn(L, e) \o NewOf(g[e])

(* Observations of the new messages add them to the log.                    *)
LEMMA ObservationsAdd ==
    ASSUME NEW L \in Seq(Entries), NEW os, NEW g, OfNew(os, g), NEW usable \in BOOLEAN,
           \A d \in Framed(g) : g[d].messages \in Seq(Messages)
    PROVE  Adds(L, Entered(L, os, usable), g)
<1> SUFFICES ASSUME NEW e \in Directions
             PROVE  MessagesIn(Entered(L, os, usable), e) = MessagesIn(L, e) \o NewOf(g[e])
  BY DEF Adds
<1>0. os \in Seq(Observations) BY DEF OfNew
<1>1. MessagesIn(L, e) \in Seq(Messages) /\ MessagesIn(L, e) \o <<>> = MessagesIn(L, e)
  <2>1. MessagesIn(L, e) \in Seq(Messages) BY MessagesInAre
  <2> QED BY <2>1
<1>2. CASE os = <<>> /\ \A d \in Directions : NewOf(g[d]) = <<>>
  <2> DEFINE none == <<>>
  <2>1. none \in Seq(Messages) /\ Len(none) = 0 /\ Len(os) = 0 /\ \A i \in 1 .. 0 : FALSE BY <1>2
  <2>2. NewOf(g[e]) = none BY <1>2
  <2> HIDE DEF none
  <2>3. MessagesIn(Entered(L, os, usable), e) = IF e = e THEN MessagesIn(L, e) \o none ELSE MessagesIn(L, e)
    <3>1. Bring(os, e, none) BY <1>0, <2>1 DEF Bring
    <3> QED BY <3>1, MessagesEntered
  <2> QED BY <2>2, <2>3
<1>3. ASSUME NEW d \in Framed(g), Len(os) = Len(g[d].messages),
             \A i \in 1 .. Len(os) : os[i].direction = d /\ os[i].message = g[d].messages[i],
             \A x \in Directions \ {d} : NewOf(g[x]) = <<>>
      PROVE  MessagesIn(Entered(L, os, usable), e) = MessagesIn(L, e) \o NewOf(g[e])
  <2> DEFINE msgs == g[d].messages
  <2>1. msgs \in Seq(Messages) /\ Len(os) = Len(msgs) BY <1>3
  <2>2. \A i \in 1 .. Len(msgs) : os[i].direction = d /\ os[i].message = msgs[i] BY <1>3
  <2>3. NewOf(g[d]) = msgs BY DEF NewOf, Framed
  <2> HIDE DEF msgs
  <2>4. MessagesIn(Entered(L, os, usable), e) = IF e = d THEN MessagesIn(L, e) \o msgs ELSE MessagesIn(L, e)
    <3>1. Bring(os, d, msgs) BY <1>0, <2>1, <2>2 DEF Bring
    <3> QED BY <3>1, MessagesEntered
  <2>5. CASE e = d BY <2>3, <2>4, <2>5
  <2>6. CASE e # d
    <3>1. NewOf(g[e]) = <<>> BY <1>3, <2>6
    <3> QED BY <1>1, <2>4, <2>6, <3>1
  <2> QED BY <2>5, <2>6
<1> QED BY <1>2, <1>3 DEF OfNew

(* A packet of a window that stands adds its new messages to the log.       *)
LEMMA PacketAdds ==
    ASSUME NEW c, NEW L, NEW f, NEW s, Standing(c, L, f, s), NEW t, Moved(s, t), Single(FramedNext(f, t))
    PROVE  LET g == FramedNext(f, t)
           IN Adds(L, LogNext(CorrelationNext(c, g, t), L, Sound(f, t)), g)
<1> DEFINE g == FramedNext(f, t)
           u == StreamsNext(g, t)
           b == CorrelationNext(c, g, t)
           usable == Sound(f, t)
           K == LogNext(b, L, usable)
<1>0. /\ Consumed(s) /\ FramedUpTo(f, s) /\ LoggedUpTo(L, s) /\ Accounted(c, L, f, s)
      /\ Consumed(t) /\ \A d \in Directions : t[d].consumed = s[d].consumed
  BY DEF Standing, Moved
<1>1. \A d \in Framed(g) : Ascending(g[d].messages, t[d].consumed, u[d].consumed)
                           /\ g[d].messages \in Seq(Messages)
  BY <1>0, FramingGoesOn
<1>2. b = IF Framed(g) = {} THEN None ELSE Updated(c, g, t) BY DEF CorrelationNext
<1>3. K = IF b = None THEN L ELSE Entered(L, b.observations, usable) BY DEF LogNext
<1>20. usable \in BOOLEAN /\ Single(g) BY DEF Sound
<1>21. L \in Seq(Entries) BY <1>0 DEF LoggedUpTo
<1> HIDE DEF g, u, b, K, usable
<1>4. LoggedUpTo(L, t)
  <2>1. ASSUME NEW i \in DOMAIN L PROVE MessageOf(L[i]).offset < t[SenderOf(L[i])].consumed
    <3>1. L[i] \in Entries BY <1>21
    <3>2. SenderOf(L[i]) \in Directions BY <3>1 DEF Entries, Observations, SenderOf
    <3>3. MessageOf(L[i]).offset < s[SenderOf(L[i])].consumed BY <1>0 DEF LoggedUpTo
    <3>4. t[SenderOf(L[i])].consumed = s[SenderOf(L[i])].consumed BY <1>0, <3>2
    <3> QED BY <3>3, <3>4
  <2> QED BY <1>21, <2>1 DEF LoggedUpTo
<1>5. CASE Framed(g) = {}
  <2>1. K = L BY <1>2, <1>3, <1>5
  <2>2. ASSUME NEW e \in Directions PROVE MessagesIn(L, e) = MessagesIn(L, e) \o NewOf(g[e])
    <3>1. NewOf(g[e]) = <<>> BY <1>5 DEF NewOf, Framed
    <3>2. MessagesIn(L, e) \in Seq(Messages) BY <1>21, MessagesInAre
    <3>3. MessagesIn(L, e) \o <<>> = MessagesIn(L, e) BY <3>2
    <3> QED BY <3>1, <3>3
  <2>3. Adds(L, K, g) BY <2>1, <2>2 DEF Adds
  <2> QED BY <2>3 DEF g, u, b, K, usable
<1>6. CASE Framed(g) # {}
  <2> DEFINE start == Started(c, t)
             a == Counted(start, g)
             P == Broken(g)
             e == Unavailable(a, P)
  <2>1. PICK left : /\ Explained(start, L, left) /\ start.observations = <<>>
                    /\ Going(start, L, left, usable)
    BY <1>0, Starts DEF usable
  <2>2. b = Settled(e) BY <1>2, <1>6, UpdatedIs
  <2> HIDE DEF start
  <2>3. OfNew(a.observations, g) BY <1>0, <1>1, <1>4, <1>20, <2>1, CountsNew
  <2>4. a \in Correlations
    <3>1. AllCounted(a, L, left, usable, u)
      <4>1. Consumed(u) /\ FramedUpTo(g, u) BY <1>0, FramingGoesOn DEF g, u
      <4> QED BY <1>0, <1>1, <1>4, <1>20, <2>1, <4>1, Counts
    <3> HIDE DEF a
    <3> QED BY <3>1 DEF AllCounted, Followed, Explained
  <2> HIDE DEF a
  <2>5. e.observations = a.observations /\ e \in Correlations
    <3>1. CASE e = a BY <2>4, <3>1
    <3>2. CASE e = [a EXCEPT !.reason = "stream unavailable"]
      <4> HIDE DEF e
      <4> QED BY <2>4, <3>2 DEF Correlations
    <3> QED BY <3>1, <3>2 DEF Unavailable
  <2> HIDE DEF e, P
  <2>6. b.observations = e.observations /\ b # None
    <3>1. CASE b = e BY <2>5, <3>1, NoCorrelationAssumption
    <3>2. CASE b = [e EXCEPT !.requests = {Unresolved(r) : r \in e.requests}]
      <4> DEFINE rs == {Unresolved(r) : r \in e.requests}
      <4>1. rs \in SUBSET Requests
        <5>1. e.requests \in SUBSET Requests BY <2>5 DEF Correlations
        <5>2. \A r \in Requests : Unresolved(r) \in Requests BY RequestsAre
        <5> QED BY <5>1, <5>2
      <4>2. b = [e EXCEPT !.requests = rs] BY <3>2
      <4> HIDE DEF rs
      <4>3. b \in Correlations /\ b.observations = e.observations BY <2>5, <4>1, <4>2 DEF Correlations
      <4> QED BY <4>3, NoCorrelationAssumption
    <3> QED BY <2>2, <3>1, <3>2 DEF Settled
  <2>7. K = Entered(L, a.observations, usable) BY <1>3, <2>5, <2>6
  <2>8. Adds(L, K, g) BY <1>1, <1>20, <1>21, <2>3, <2>7, ObservationsAdd
  <2> QED BY <2>8 DEF g, u, b, K, usable
<1> QED BY <1>5, <1>6

(* What was received of a direction is the beginning of what it sends, and   *)
(* no more than a message of it is unconsumed.                               *)
Sent(s, bytes) ==
    /\ Len(s.payload) <= Len(bytes) /\ \A i \in 1 .. Len(s.payload) : s.payload[i] = bytes[i]
    /\ Len(s.payload) - s.consumed <= MaxMessage

(* Streams that one packet changed, and only in its direction.               *)
Proceeds(s, t, all) ==
    /\ Moved(s, t)
    /\ \A d \in Directions : Sent(t[d], all[d]) /\ GrownTo(s[d], t[d])
    /\ \E x \in Directions : \A d \in Directions \ {x} : t[d].payload = s[d].payload

FramedAll(L, f, s) == \A d \in Directions : OfBytes(MessagesIn(L, d), f[d], s[d])
SentAll(s, all) == \A d \in Directions : Sent(s[d], all[d])

(* A direction's step, from bytes received to bytes received.                *)
LEMMA MoreIs ==
    ASSUME NEW s \in TCPStreams, NEW t \in TCPStreams, NEW bytes \in Seq(Bytes), Sent(s, bytes), Sent(t, bytes),
           s.consumed \in 0 .. Len(s.payload), t.consumed = s.consumed, t.contiguous => s.contiguous,
           t.contiguous \/ t.payload = s.payload, Len(s.payload) <= Len(t.payload)
    PROVE  GrownTo(s, t)
<1>1. s.payload \in Seq(Bytes) /\ t.payload \in Seq(Bytes) BY DEF TCPStreams
<1>2. Len(s.payload) \in Nat /\ Len(t.payload) \in Nat /\ Len(bytes) \in Nat BY <1>1, LenProperties
<1>3. \A i \in 1 .. Len(s.payload) : t.payload[i] = s.payload[i] BY <1>2 DEF Sent
<1>4. Begins(s.payload, t.payload) BY <1>1, <1>3 DEF Begins
<1> QED BY <1>4 DEF GrownTo, Sent

(* A segment that is received goes on with what its sender sends.           *)
LEMMA SegmentProceeds ==
    ASSUME sent \in [Directions -> Seq(Bytes)], Consumed(streams), SentAll(streams, sent),
           NEW d \in Directions, NEW n \in Nat, streams[d].contiguous,
           Len(streams[d].payload) + n <= Len(sent[d])
    PROVE  Proceeds(streams, [streams EXCEPT ![d] = Received(@, d, n)], sent)
<1> DEFINE s == streams[d]
           r == Received(s, d, n)
           t == [streams EXCEPT ![d] = r]
           bytes == sent[d]
<1>1. /\ streams \in [Directions -> TCPStreams]
      /\ \A e \in Directions : streams[e].consumed \in 0 .. Len(streams[e].payload)
      /\ s \in TCPStreams /\ bytes \in Seq(Bytes) /\ Sent(s, bytes)
  BY DEF Consumed, SentAll
<1>2. Moved(streams, t) BY SegmentMoves
<1>3. t[d] = r /\ \A e \in Directions \ {d} : t[e] = streams[e] BY <1>1
<1>4. r \in TCPStreams /\ r.consumed = s.consumed /\ (r.contiguous => s.contiguous)
  <2>1. t[d] \in TCPStreams /\ t[d].consumed = s.consumed /\ (t[d].contiguous => s.contiguous)
    BY <1>2 DEF Moved, Consumed
  <2> HIDE DEF t, r, s
  <2> QED BY <1>3, <2>1
<1> DEFINE l == Len(s.payload)
           p == SubSeq(bytes, 1, l + n)
<1>5. r = IF l - s.consumed + n > MaxMessage THEN [s EXCEPT !.contiguous = FALSE]
          ELSE [s EXCEPT !.payload = p]
  BY DEF Received
<1>6. l \in Nat /\ Len(bytes) \in Nat /\ l + n <= Len(bytes) /\ s.consumed \in 0 .. l
  <2>1. s.payload \in Seq(Bytes) BY <1>1 DEF TCPStreams
  <2> QED BY <1>1, <2>1, LenProperties
<1>7. s.contiguous OBVIOUS
<1> HIDE DEF t, r, s, bytes
<1>8. Sent(r, bytes) /\ l <= Len(r.payload) /\ (r.contiguous \/ r.payload = s.payload)
  <2>1. CASE r = [s EXCEPT !.contiguous = FALSE]
    <3>1. r.payload = s.payload BY <1>1, <2>1 DEF TCPStreams
    <3>2. Sent(r, bytes) BY <1>1, <1>4, <3>1 DEF Sent
    <3> QED BY <1>6, <3>1, <3>2
  <2>2. CASE r = [s EXCEPT !.payload = p] /\ l - s.consumed + n <= MaxMessage
    <3>1. r.payload = p /\ r.contiguous BY <1>1, <1>7, <2>2 DEF TCPStreams
    <3>2. Len(p) = l + n /\ \A i \in 1 .. (l + n) : p[i] = bytes[i]
      <4>1. l + n \in 0 .. Len(bytes) BY <1>6
      <4> DEFINE k == l + n
      <4>2. k \in 0 .. Len(bytes) BY <4>1
      <4> HIDE DEF k
      <4>3. Len(SubSeq(bytes, 1, k)) = k /\ \A i \in 1 .. k : SubSeq(bytes, 1, k)[i] = bytes[i]
        BY <1>1, <1>6, <4>2
      <4> QED BY <4>3 DEF k
    <3> HIDE DEF p
    <3>3. l + n - s.consumed <= MaxMessage BY <1>6, <2>2, MaxMessageAssumption
    <3>4. Sent(r, bytes) BY <1>4, <1>6, <3>1, <3>2, <3>3 DEF Sent
    <3> QED BY <1>6, <3>1, <3>2, <3>4
  <2>3. r = [s EXCEPT !.contiguous = FALSE] \/ (r = [s EXCEPT !.payload = p] /\ l - s.consumed + n <= MaxMessage)
    <3> DEFINE k == l - s.consumed + n
    <3>1. k \in Int /\ MaxMessage \in Int /\ (k > MaxMessage \/ k <= MaxMessage) BY <1>6, MaxMessageAssumption
    <3>2. r = IF k > MaxMessage THEN [s EXCEPT !.contiguous = FALSE] ELSE [s EXCEPT !.payload = p] BY <1>5
    <3> HIDE DEF k, p
    <3> QED BY <3>1, <3>2 DEF k
  <2> HIDE DEF l, p
  <2> QED BY <2>1, <2>2, <2>3
<1>9. GrownTo(s, r) BY <1>1, <1>4, <1>6, <1>8, MoreIs DEF l
<1>10. ASSUME NEW e \in Directions \ {d} PROVE GrownTo(streams[e], t[e]) /\ Sent(t[e], sent[e])
  <2> DEFINE y == streams[e]
             all == sent[e]
  <2>1. y \in TCPStreams /\ y.consumed \in 0 .. Len(y.payload) /\ Sent(y, all) /\ all \in Seq(Bytes)
    BY <1>1 DEF SentAll
  <2>2. t[e] = y BY <1>3
  <2> HIDE DEF y, all
  <2>3. Len(y.payload) \in Nat
    <3>1. y.payload \in Seq(Bytes) BY <2>1 DEF TCPStreams
    <3> QED BY <3>1, LenProperties
  <2>4. GrownTo(y, y) BY <2>1, <2>3, MoreIs
  <2> QED BY <2>1, <2>2, <2>4 DEF y, all
<1>11. \A e \in Directions : Sent(t[e], sent[e]) /\ GrownTo(streams[e], t[e])
  <2>1. Sent(t[d], sent[d]) /\ GrownTo(streams[d], t[d]) BY <1>3, <1>8, <1>9 DEF s, bytes
  <2> QED BY <1>10, <2>1
<1>12. \A e \in Directions \ {d} : t[e].payload = streams[e].payload BY <1>3
<1>13. Proceeds(streams, t, sent) BY <1>2, <1>11, <1>12 DEF Proceeds
<1> QED BY <1>13 DEF t, r, s

(* So does a loss, after which nothing more is received.                    *)
LEMMA LossProceeds ==
    ASSUME sent \in [Directions -> Seq(Bytes)], Consumed(streams), SentAll(streams, sent),
           NEW d \in Directions, streams[d].contiguous
    PROVE  Proceeds(streams, [streams EXCEPT ![d].contiguous = FALSE], sent)
<1> DEFINE t == [streams EXCEPT ![d].contiguous = FALSE]
<1>1. streams \in [Directions -> TCPStreams] BY DEF Consumed
<1>2. Moved(streams, t) BY LossMoves
<1>3. ASSUME NEW e \in Directions
      PROVE  /\ t[e].payload = streams[e].payload /\ (t[e].contiguous => streams[e].contiguous)
  <2>1. streams[e] \in TCPStreams /\ streams[e].contiguous \in BOOLEAN BY <1>1 DEF TCPStreams
  <2>2. CASE e = d
    <3> DEFINE s == streams[d]
    <3>1. t[e] = [s EXCEPT !.contiguous = FALSE] BY <1>1, <2>2
    <3>2. s \in TCPStreams /\ s.contiguous /\ s = streams[e] BY <2>1, <2>2
    <3> HIDE DEF s, t
    <3> QED BY <3>1, <3>2 DEF TCPStreams
  <2>3. CASE e # d
    <3>1. t[e] = streams[e] BY <1>1, <2>3
    <3> HIDE DEF t
    <3> QED BY <3>1
  <2> QED BY <2>2, <2>3
<1> HIDE DEF t
<1>4. ASSUME NEW e \in Directions PROVE Sent(t[e], sent[e]) /\ GrownTo(streams[e], t[e])
  <2> DEFINE x == streams[e]
             y == t[e]
             bytes == sent[e]
  <2>1. /\ x \in TCPStreams /\ x.consumed \in 0 .. Len(x.payload) /\ Sent(x, bytes) /\ bytes \in Seq(Bytes)
        /\ y \in TCPStreams /\ y.consumed = x.consumed /\ y.payload = x.payload
        /\ (y.contiguous => x.contiguous)
    BY <1>1, <1>2, <1>3 DEF Consumed, SentAll, Moved
  <2> HIDE DEF x, y, bytes
  <2>2. Sent(y, bytes) BY <2>1 DEF Sent
  <2>3. Len(x.payload) <= Len(y.payload)
    <3>1. x.payload \in Seq(Bytes) BY <2>1 DEF TCPStreams
    <3>2. Len(x.payload) \in Nat BY <3>1, LenProperties
    <3> QED BY <2>1, <3>2
  <2>4. GrownTo(x, y) BY <2>1, <2>2, <2>3, MoreIs
  <2> QED BY <2>2, <2>4 DEF x, y, bytes
<1>5. Proceeds(streams, t, sent) BY <1>2, <1>3, <1>4 DEF Proceeds
<1> QED BY <1>5 DEF t

(* A packet leaves each direction framed as its bytes are.                   *)
LEMMA PacketFrames ==
    ASSUME NEW c, NEW L, NEW f, NEW s, Standing(c, L, f, s), FramedAll(L, f, s),
           NEW t, NEW all, Proceeds(s, t, all)
    PROVE  LET g == FramedNext(f, t)
               K == LogNext(CorrelationNext(c, g, t), L, Sound(f, t))
               u == StreamsNext(g, t)
           IN Single(g) /\ FramedAll(K, g, u) /\ SentAll(u, all)
<1> DEFINE g == FramedNext(f, t)
           K == LogNext(CorrelationNext(c, g, t), L, Sound(f, t))
           u == StreamsNext(g, t)
<1>1. L \in Seq(Entries) /\ Moved(s, t) /\ FramedUpTo(f, s)
  BY DEF Standing, LoggedUpTo, Proceeds
<1>2. ASSUME NEW d \in Directions
      PROVE  /\ OfBytes(MessagesIn(L, d) \o NewOf(g[d]), g[d], u[d])
             /\ t[d].payload = s[d].payload => NewOf(g[d]) = <<>>
  <2> DEFINE ms == MessagesIn(L, d)
             x == f[d]
             y == s[d]
             z == t[d]
             h == FrameDirection(x, z)
  <2>1. ms \in Seq(Messages) BY <1>1, MessagesInAre
  <2>2. x \in Framings \cup {None} /\ GrownTo(y, z) /\ OfBytes(ms, x, y)
    BY <1>1 DEF FramedUpTo, Proceeds, FramedAll
  <2>3. g[d] = h /\ u[d] = StreamAfter(h, z) BY DEF FramedNext, StreamsNext, StreamAfter
  <2> HIDE DEF ms, x, y, z, g, u
  <2>4. OfBytes(ms \o NewOf(h), h, StreamAfter(h, z)) /\ (z.payload = y.payload => NewOf(h) = <<>>)
    BY <2>1, <2>2, FramesOnce
  <2> HIDE DEF h
  <2> QED BY <2>3, <2>4 DEF ms, y, z
<1>3. Single(g)
  <2>1. PICK x \in Directions : \A d \in Directions \ {x} : t[d].payload = s[d].payload BY DEF Proceeds
  <2>2. \A d \in Framed(g) : g[d].messages # <<>> => d = x
    <3> SUFFICES ASSUME NEW d \in Framed(g), d # x PROVE g[d].messages = <<>> OBVIOUS
    <3>1. d \in Directions /\ g[d] # None BY DEF Framed
    <3>2. NewOf(g[d]) = <<>> BY <1>2, <2>1, <3>1
    <3> QED BY <3>1, <3>2 DEF NewOf
  <2> QED BY <2>2 DEF Single
<1>4. Adds(L, K, g) BY <1>1, <1>3, PacketAdds
<1> HIDE DEF K
<1>5. FramedAll(K, g, u) BY <1>2, <1>4 DEF FramedAll, Adds
<1>6. SentAll(u, all)
  <2>1. Consumed(s) /\ Consumed(t) BY <1>1 DEF Standing, Moved
  <2>2. \A d \in Directions : t[d].consumed <= u[d].consumed /\ u[d].consumed \in 0 .. Len(u[d].payload)
    BY <1>1, <2>1, FramingGoesOn DEF Consumed
  <2>3. ASSUME NEW d \in Directions PROVE u[d].payload = t[d].payload
    <3> DEFINE x == f[d]
               z == t[d]
               h == FrameDirection(x, z)
    <3>1. x \in Framings \cup {None} /\ z \in TCPStreams /\ z.consumed \in 0 .. Len(z.payload)
      BY <1>1, <2>1 DEF FramedUpTo, Consumed
    <3>2. u[d] = IF h = None THEN z ELSE h.stream BY DEF FramedNext, StreamsNext
    <3> HIDE DEF x, z, u
    <3>3. h # None => FramedOnce(x, z, h) BY <3>1, FrameDirectionIs
    <3> HIDE DEF h
    <3>4. u[d].payload = z.payload BY <3>2, <3>3 DEF FramedOnce
    <3> QED BY <3>4 DEF z
  <2> HIDE DEF u, g
  <2>4. ASSUME NEW d \in Directions PROVE Sent(u[d], all[d])
    <3> DEFINE z == t[d]
               w == u[d]
               bytes == all[d]
    <3>1. Sent(z, bytes) /\ z \in TCPStreams BY <2>1 DEF Proceeds, Consumed
    <3>2. z.consumed \in Nat /\ Len(z.payload) \in Nat
      <4> HIDE DEF z
      <4>1. z.payload \in Seq(Bytes) BY <3>1 DEF TCPStreams
      <4> QED BY <3>1, <4>1, LenProperties DEF TCPStreams
    <3>3. w.payload = z.payload /\ z.consumed <= w.consumed /\ w.consumed \in 0 .. Len(z.payload) BY <2>2, <2>3
    <3> HIDE DEF z, w, bytes
    <3>4. Sent(w, bytes) BY <3>1, <3>2, <3>3, MaxMessageAssumption DEF Sent
    <3> QED BY <3>4 DEF w, bytes
  <2> QED BY <2>4 DEF SentAll
<1> QED BY <1>3, <1>5, <1>6 DEF g, K, u

(* Each direction is framed as its bytes are, and is the beginning of what  *)
(* its sender sends.                                                        *)
FramingInvariant ==
    /\ LDAPInvariant
    /\ FramedAll(log, framing, streams) /\ SentAll(streams, sent) /\ Single(framing)

(* The invariant of the framing holds of an empty window.                   *)
LEMMA InitiallyFramed == Init => FramingInvariant
<1> SUFFICES ASSUME Init PROVE FramingInvariant OBVIOUS
<1>1. LDAPInvariant BY InitiallyLDAP
<1>2. /\ log = <<>> /\ sent \in [Directions -> Seq(Bytes)]
      /\ \A d \in Directions : framing[d] = None
      /\ \A d \in Directions : streams[d].payload = <<>> /\ streams[d].consumed = 0
  BY ConversationsAssumption DEF Init
<1>3. Len(<<>>) = 0 /\ <<>> \in Seq(Entries) OBVIOUS
<1>4. ASSUME NEW d \in Directions PROVE MessagesIn(log, d) = <<>>
  <2>1. PICK a : Keeping(a, log, d) /\ MessagesIn(log, d) = a[Len(log)] BY <1>2, <1>3, MessagesKept
  <2> QED BY <1>2, <1>3, <2>1 DEF Keeping
<1>5. FramedAll(log, framing, streams) BY <1>2, <1>4 DEF FramedAll, OfBytes
<1>6. SentAll(streams, sent)
  <2> SUFFICES ASSUME NEW d \in Directions PROVE Sent(streams[d], sent[d]) BY DEF SentAll
  <2>1. streams[d].payload = <<>> /\ streams[d].consumed = 0 /\ sent[d] \in Seq(Bytes) BY <1>2
  <2>2. Len(streams[d].payload) = 0 /\ Len(sent[d]) \in Nat BY <1>3, <2>1, LenProperties
  <2>3. MaxMessage \in Nat BY MaxMessageAssumption
  <2> QED BY <2>1, <2>2, <2>3 DEF Sent
<1>7. Single(framing) BY <1>2 DEF Single, Framed
<1> QED BY <1>1, <1>5, <1>6, <1>7 DEF FramingInvariant

(* An update leaves every direction framed as its bytes are.                *)
LEMMA UpdateFrames ==
    ASSUME Standing(correlation, log, framing, streams), FramedAll(log, framing, streams),
           NEW t, Proceeds(streams, t, sent), Update(t), sent' = sent
    PROVE  FramedAll(log', framing', streams') /\ SentAll(streams', sent') /\ Single(framing')
<1> DEFINE g == FramedNext(framing, t)
           b == CorrelationNext(correlation, g, t)
           usable == Sound(framing, t)
<1>1. UpdatesTo(g, b, t) BY UpdateSays
<1>2. Single(g) /\ FramedAll(LogNext(b, log, usable), g, StreamsNext(g, t)) /\ SentAll(StreamsNext(g, t), sent)
  BY PacketFrames
<1> HIDE DEF g, b
<1> QED BY <1>1, <1>2 DEF UpdatesTo, usable

(* Every packet, loss and closing of the window preserves the invariant.    *)
LEMMA FramingSteps == FramingInvariant /\ [Next]_vars => FramingInvariant'
<1> SUFFICES ASSUME FramingInvariant, [Next]_vars PROVE FramingInvariant' OBVIOUS
<1>1. /\ LDAPInvariant /\ LDAPInvariant'
      /\ FramedAll(log, framing, streams) /\ SentAll(streams, sent) /\ Single(framing)
  BY LDAPSteps DEF FramingInvariant
<1>2. sent \in [Directions -> Seq(Bytes)] /\ (~ closed => Standing(correlation, log, framing, streams))
  BY <1>1 DEF LDAPInvariant
<1>3. ASSUME ~ closed, NEW t, Proceeds(streams, t, sent), Update(t), UNCHANGED <<sent, closed>>
      PROVE FramingInvariant'
  <2>1. FramedAll(log', framing', streams') /\ SentAll(streams', sent') /\ Single(framing')
    BY <1>1, <1>2, <1>3, UpdateFrames
  <2> QED BY <1>1, <2>1 DEF FramingInvariant
<1>4. ASSUME NEW d \in Directions, NEW n \in Cuts, Segment(d, n) PROVE FramingInvariant'
  <2>1. ~ closed /\ Consumed(streams) BY <1>2, <1>4 DEF Segment, Standing
  <2>2. n \in Nat BY CutsAssumption
  <2>3. Proceeds(streams, [streams EXCEPT ![d] = Received(@, d, n)], sent)
    BY <1>1, <1>2, <1>4, <2>1, <2>2, SegmentProceeds DEF Segment
  <2> QED BY <1>3, <1>4, <2>1, <2>3 DEF Segment
<1>5. ASSUME NEW d \in Directions, LoseStream(d) PROVE FramingInvariant'
  <2>1. ~ closed /\ Consumed(streams) BY <1>2, <1>5 DEF LoseStream, Standing
  <2>2. Proceeds(streams, [streams EXCEPT ![d].contiguous = FALSE], sent)
    BY <1>1, <1>2, <1>5, <2>1, LossProceeds DEF LoseStream
  <2> QED BY <1>3, <1>5, <2>1, <2>2 DEF LoseStream
<1>6. CASE Close
  <2>1. log' = log /\ framing' = framing /\ streams' = streams /\ sent' = sent BY <1>6 DEF Close
  <2> QED BY <1>1, <2>1 DEF FramingInvariant
<1>7. CASE UNCHANGED vars
  <2>1. log' = log /\ framing' = framing /\ streams' = streams /\ sent' = sent BY <1>7 DEF vars
  <2> QED BY <1>1, <2>1 DEF FramingInvariant
<1> QED BY <1>4, <1>5, <1>6, <1>7 DEF Next

(* The invariant says that the framing is that of the bytes.                *)
LEMMA FramingSays == FramingInvariant => FramingOfBytes
<1> SUFFICES ASSUME FramingInvariant PROVE FramingOfBytes OBVIOUS
<1>1. /\ FramedAll(log, framing, streams) /\ Single(framing)
      /\ Consumed(streams) /\ FramedUpTo(framing, streams)
  BY DEF FramingInvariant, LDAPInvariant, Standing
<1>2. ASSUME NEW d \in Directions
      PROVE  LET payload == streams[d].payload
             IN IF framing[d] = None
                THEN MessagesOf(d) = <<>> /\ (payload = <<>> \/ payload[1] # 48)
                ELSE FramedAs(d, Parsed(payload, 0))
  <2> DEFINE ms == MessagesIn(log, d)
             g == framing[d]
             s == streams[d]
             p == Parsed(s.payload, 0)
  <2>1. MessagesOf(d) = ms BY DEF MessagesOf, MessagesIn, Kept
  <2>2. OfBytes(ms, g, s) /\ s \in TCPStreams BY <1>1 DEF FramedAll, Consumed
  <2>3. s.payload # <<>> => Byte(s.payload, 0) = s.payload[1]
    <3>1. s.payload \in Seq(Bytes) BY <2>2 DEF TCPStreams
    <3> DEFINE data == s.payload
    <3>2. data \in Seq(Bytes) BY <3>1
    <3> HIDE DEF data
    <3>3. data # <<>> => 0 + 1 \in DOMAIN data /\ data[0 + 1] = data[1] BY <3>2
    <3>4. data # <<>> => Byte(data, 0) = data[1] BY <3>3 DEF Byte
    <3> QED BY <3>4 DEF data
  <2>4. CASE g = None
    <3>1. ms = <<>> /\ (s.payload = <<>> \/ Byte(s.payload, 0) # 48) BY <2>2, <2>4 DEF OfBytes
    <3> QED BY <2>1, <2>3, <2>4, <3>1
  <2>5. CASE g # None
    <3>1. /\ ms = p.messages /\ s.consumed = p.consumed /\ g.complete = CountOf(p.messages, "complete")
          /\ g.status = IF s.contiguous THEN PendingStatus(p.pending) ELSE "unavailable"
      BY <2>2, <2>5 DEF OfBytes
    <3>2. FramedAs(d, p)
      <4> HIDE DEF p, ms
      <4> QED BY <2>1, <3>1 DEF FramedAs
    <3> QED BY <2>5, <3>2
  <2> QED BY <2>4, <2>5
<1>3. Cardinality(NewMessages(framing)) <= 1
  <2>1. CASE NewMessages(framing) = {} BY <2>1, FS_EmptySet
  <2>2. CASE NewMessages(framing) # {}
    <3>1. PICK d \in Framed(framing) : framing[d].messages # <<>> BY <2>2 DEF NewMessages
    <3> DEFINE new == <<d, framing[d].messages>>
    <3>2. NewMessages(framing) = {new} BY <1>1, <3>1 DEF NewMessages, Single
    <3> HIDE DEF new
    <3> QED BY <3>2, FS_Singleton
  <2> QED BY <2>1, <2>2
<1> QED BY <1>2, <1>3 DEF FramingOfBytes

(* Whatever two sides send and wherever it is cut into segments or lost:    *)
(* the messages and the status of each direction are those that its bytes   *)
(* give when they are read at once, no message is left out or made twice,   *)
(* and a packet brings messages of one direction only                       *)
(* (ldap_stream_framing.py:60-120).                                         *)
THEOREM LDAPFramingIsOfBytes == Spec => []FramingOfBytes
<1>1. Init => FramingInvariant BY InitiallyFramed
<1>2. FramingInvariant /\ [Next]_vars => FramingInvariant' BY FramingSteps
<1>3. FramingInvariant => FramingOfBytes BY FramingSays
<1> QED BY <1>1, <1>2, <1>3, PTL DEF Spec
=============================================================================
