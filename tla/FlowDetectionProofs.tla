------------------------ MODULE FlowDetectionProofs -------------------------
(***************************************************************************)
(* Proofs about what is detected in a closed window, for every session and *)
(* every set of frames: the features that the detectors read are taken     *)
(* from the accumulators, so that what FlowAccumulationProofs says of      *)
(* these tells which packets a feature, a decision and a finding come      *)
(* from.                                                                   *)
(***************************************************************************)
EXTENDS FlowDetection, FlowAccumulationProofs

-----------------------------------------------------------------------------
(* The sum of a length of the packets taken.                               *)
LEMMA SumOfLength ==
    ASSUME NEW S, IsFiniteSet(S), NEW l, \A i \in S : accepted[i].observation[l] \in Int
    PROVE  MapThenSumSet(LAMBDA i : Length(i, l), S)
             = SumOf([i \in S |-> accepted[i].observation[l]], S)
<1> DEFINE g == [i \in S |-> accepted[i].observation[l]]
<1>0. \A i \in S : g[i] \in Int OBVIOUS
<1>1. PICK h \in [SUBSET S -> Int] : Sums(h, g, S)
  <2> HIDE DEF g
  <2> QED BY <1>0, SumsExist
<1>2. \A s \in SUBSET S : s # {} => g[Pick(s)] = accepted[Pick(s)].observation[l] BY DEF Pick
<1>3. h = [s \in SUBSET S |-> IF s = {} THEN 0
                              ELSE accepted[Pick(s)].observation[l] + h[s \ {Pick(s)}]]
  BY <1>1, <1>2 DEF Sums
<1> DEFINE Is(k) == k = [s \in SUBSET S |-> IF s = {} THEN 0
                                ELSE accepted[Pick(s)].observation[l] + k[s \ {Pick(s)}]]
           iter == CHOOSE k : Is(k)
<1>4. MapThenSumSet(LAMBDA i : Length(i, l), S) = iter[S]
  BY DEF MapThenSumSet, MapThenFoldSet, Pick, Length
<1>5. Is(iter)
  <2> HIDE DEF Is
  <2>1. Is(h) BY <1>3 DEF Is
  <2> QED BY <2>1, Zenon
<1>6. Sums(iter, g, S)
  <2> HIDE DEF iter, g
  <2> QED BY <1>2, <1>5 DEF Sums
<1>7. SumOf(g, S) = iter[S]
  <2> HIDE DEF iter, g
  <2> QED BY <1>6, SumOfIs
<1> QED BY <1>4, <1>7

(* Of what the detectors see, each volume is that of the packets.          *)
Parts == {"packet_count", "captured", "original"}

LEMMA InputIs ==
    ASSUME NEW s \in CoordinatedStates
    PROVE  LET input == FeatureInput(s)
           IN /\ DOMAIN input = Scopes
              /\ \A scope \in Scopes : DOMAIN input[scope] = Parts
              /\ \A part \in Parts : /\ input.all[part] = s.flow[part]
                                     /\ input["all"][part] = s.flow[part]
                                     /\ input["all"][part] \in Int
              /\ \A d \in Directions : /\ input[d] = s.directional[d]
                                       /\ \A part \in Parts : input[d][part] \in Int
<1>1. /\ s.flow \in FlowVolumes /\ s.directional \in DirectionalVolumes
  BY DEF CoordinatedStates
<1>2. PICK input : input = FeatureInput(s) OBVIOUS
<1>3. input = [all |-> [packet_count |-> s.flow.packet_count, captured |-> s.flow.captured,
                        original |-> s.flow.original],
               forward |-> s.directional["forward"], reverse |-> s.directional["reverse"]]
  BY <1>2 DEF FeatureInput
<1>4. DOMAIN input = Scopes BY <1>3 DEF Scopes, Directions
<1>5. \A d \in Directions : s.directional[d] \in [packet_count : Nat, captured : Int, original : Int]
  BY <1>1 DEF DirectionalVolumes
<1>6. \A d \in Directions : input[d] = s.directional[d] BY <1>3 DEF Directions
<1>7. \A d \in Directions : /\ DOMAIN s.directional[d] = Parts
                            /\ \A part \in Parts : s.directional[d][part] \in Int
  BY <1>5 DEF Parts
<1>8. \A part \in Parts : /\ input.all[part] = s.flow[part] /\ input["all"][part] = s.flow[part]
                          /\ input["all"][part] \in Int
  BY <1>1, <1>3 DEF Parts, FlowVolumes
<1>9. DOMAIN input["all"] = Parts BY <1>3 DEF Parts
<1>10. \A scope \in Scopes : DOMAIN input[scope] = Parts BY <1>6, <1>7, <1>9 DEF Scopes
<1> QED BY <1>2, <1>4, <1>6, <1>7, <1>8, <1>10

LEMMA VolumeIs ==
    ASSUME Held, state # None, NEW part \in Parts, NEW scope \in Scopes
    PROVE  FeatureInput(state)[scope][part] = Volume(part, scope)
<1>1. /\ state \in CoordinatedStates /\ accepted \in Seq(Taken)
      /\ FlowOf(state.flow, accepted) /\ VolumesOf(state.directional, accepted)
  BY DEF Held, StateOf
<1>2. PICK v : v = FeatureInput(state)[scope] OBVIOUS
<1>3. \A p \in Parts : v[p] = IF scope = "all" THEN state.flow[p] ELSE state.directional[scope][p]
  BY <1>1, <1>2, InputIs DEF Scopes, Directions
<1>4. PICK P : P = Scope(scope) OBVIOUS
<1>5. VolumeOf(v, accepted, P)
  <2>1. CASE scope = "all"
    <3>1. VolumeOf(state.flow, accepted, P) BY <1>1, <1>4, <2>1 DEF FlowOf, Scope
    <3> QED BY <1>3, <2>1, <3>1 DEF VolumeOf, Parts
  <2>2. CASE scope # "all"
    <3>1. VolumeOf(state.directional[scope], accepted, P)
      BY <1>1, <1>4, <2>2 DEF VolumesOf, Scope, Scopes
    <3> QED BY <1>3, <2>2, <3>1 DEF VolumeOf, Parts
  <2> QED BY <2>1, <2>2
<1>6. PICK S : S = InScope(scope) OBVIOUS
<1>7. /\ S = Among(accepted, P) /\ IsFiniteSet(S)
      /\ \A i \in S : accepted[i] \in Taken
  BY <1>4, <1>6, AmongAccepted
<1>8. ASSUME NEW l \in Lengths, NEW g, g = [p \in Taken |-> p.observation[l]]
      PROVE  MapThenSumSet(LAMBDA i : Length(i, l), S) = TotalOf(accepted, g, P)
  <2>1. \A i \in S : accepted[i].observation[l] \in Int
    BY <1>7, TakenTyped DEF Lengths
  <2>2. MapThenSumSet(LAMBDA i : Length(i, l), S) = SumOf([i \in S |-> accepted[i].observation[l]], S)
    BY <1>7, <2>1, SumOfLength
  <2>3. [i \in S |-> g[accepted[i]]] = [i \in S |-> accepted[i].observation[l]] BY <1>7, <1>8
  <2> QED BY <1>7, <2>2, <2>3 DEF TotalOf
<1>9. CASE part = "packet_count"
  BY <1>2, <1>5, <1>6, <1>7, <1>9 DEF Volume, VolumeOf
<1>10. CASE part = "captured"
  <2>1. Captured = [p \in Taken |-> p.observation["captured"]] BY DEF Captured
  <2>2. MapThenSumSet(LAMBDA i : Length(i, "captured"), S) = TotalOf(accepted, Captured, P)
    BY <1>8, <2>1 DEF Lengths
  <2>3. Volume("captured", scope) = MapThenSumSet(LAMBDA i : Length(i, "captured"), S)
    BY <1>6 DEF Volume
  <2> QED BY <1>2, <1>5, <1>10, <2>2, <2>3 DEF VolumeOf
<1>11. CASE part = "original"
  <2>1. Original = [p \in Taken |-> p.observation["original"]] BY DEF Original
  <2>2. MapThenSumSet(LAMBDA i : Length(i, "original"), S) = TotalOf(accepted, Original, P)
    BY <1>8, <2>1 DEF Lengths
  <2>3. Volume("original", scope) = MapThenSumSet(LAMBDA i : Length(i, "original"), S)
    BY <1>6 DEF Volume
  <2> QED BY <1>2, <1>5, <1>11, <2>2, <2>3 DEF VolumeOf
<1> QED BY <1>9, <1>10, <1>11 DEF Parts

-----------------------------------------------------------------------------
(* A flow is of one of the protocols whose packets have an identity.       *)
LEMMA HeldProtocol ==
    ASSUME Held, state # None
    PROVE  state.identity.protocol \in {TCP, UDP} \cup ICMP
<1>1. accepted \in Seq(Taken) /\ accepted # <<>> /\ StateOf(state, accepted) BY DEF Held
<1>2. Len(accepted) \in Nat /\ DOMAIN accepted = 1 .. Len(accepted) /\ Len(accepted) # 0
  BY <1>1, LengthIsCount, LenProperties
<1>3. 1 \in DOMAIN accepted BY <1>2
<1>4. accepted[1] \in Taken BY <1>1, <1>3, ElementOfSeq, <1>2
<1>5. accepted[1].identity = state.identity BY <1>1, <1>3 DEF StateOf
<1>6. PICK f \in Analyzed : accepted[1] = Decoding!Packet(f) BY <1>4 DEF Taken
<1>7. state.identity.protocol = Decoding!Protocol(f)
  BY <1>5, <1>6 DEF Decoding!Packet, Decoding!Identity
<1>8. Decoding!TransportDecoded(f) BY DEF Analyzed, Decoding!HasIdentity
<1>9. CASE Decoding!EtherType(f) = "IPv4"
  BY <1>7, <1>8, <1>9 DEF Decoding!TransportDecoded, Decoding!Protocol, TCP, UDP, ICMP
<1>10. CASE Decoding!EtherType(f) # "IPv4"
  <2>1. Decoding!IPv6Transport(f) BY <1>8, <1>10 DEF Decoding!TransportDecoded
  <2>2. Decoding!UpperProtocol(f) \in {6, 17, 58} BY <2>1, Zenon DEF Decoding!IPv6Transport
  <2>3. state.identity.protocol = Decoding!UpperProtocol(f) BY <1>7, <1>10 DEF Decoding!Protocol
  <2> QED BY <2>2, <2>3 DEF TCP, UDP, ICMP
<1> QED BY <1>9, <1>10

(* Volumes never exceed the whole of which they are a part.                *)
LEMMA SharesValid ==
    ASSUME NEW s \in CoordinatedStates, ValuesValid(s), CoordinatedValid(s),
           NEW part \in Parts
    PROVE  LET input == FeatureInput(s)
           IN /\ input["forward"][part] + input["reverse"][part] = input["all"][part]
              /\ \A d \in Directions : 0 <= input[d][part] /\ input[d][part] <= input["all"][part]
              /\ input["all"][part] \in Nat
<1>1. PICK input : input = FeatureInput(s) OBVIOUS
<1>2. /\ input["all"][part] = s.flow[part] /\ input["all"][part] \in Int
      /\ \A d \in Directions : input[d] = s.directional[d] /\ input[d][part] \in Int
  BY <1>1, InputIs DEF Parts
<1>3. \A d \in Directions : 0 <= s.directional[d][part]
  <2>1. DirectionalStatisticsValid(s.directional) BY DEF ValuesValid
  <2>2. ASSUME NEW d \in Directions PROVE 0 <= s.directional[d][part]
    <3>1. /\ s.directional[d].packet_count >= 0 /\ 0 <= s.directional[d].captured
          /\ s.directional[d].captured <= s.directional[d].original
      BY <2>1 DEF DirectionalStatisticsValid
    <3>2. s.directional[d] \in [packet_count : Nat, captured : Int, original : Int]
      BY DEF CoordinatedStates, DirectionalVolumes
    <3> QED BY <3>1, <3>2 DEF Parts
  <2> QED BY <2>2
<1>4. s.directional["forward"][part] + s.directional["reverse"][part] = s.flow[part]
  BY DEF CoordinatedValid, CountsAgree, TotalsAgree, Parts, Lengths
<1>5. PICK f, r, a : f = input["forward"][part] /\ r = input["reverse"][part] /\ a = input["all"][part]
  OBVIOUS
<1>6. f \in Int /\ r \in Int /\ a \in Int /\ 0 <= f /\ 0 <= r /\ f + r = a
  BY <1>2, <1>3, <1>4, <1>5 DEF Directions
<1>7. f <= a /\ r <= a /\ a \in Nat BY <1>6
<1> QED BY <1>1, <1>5, <1>6, <1>7 DEF Directions

LEMMA VolumesAccepted ==
    ASSUME NEW s \in CoordinatedStates, ValuesValid(s), CoordinatedValid(s)
    PROVE  /\ ~FeatureInputRefuses(FeatureInput(s))
           /\ ~VolumeRefuses(VolumeFeatures(FeatureInput(s)))
           /\ ~(Duration(s.flow) < 0)
<1>1. PICK i : i = FeatureInput(s) OBVIOUS
<1>2. /\ DOMAIN i = Scopes /\ \A scope \in Scopes : DOMAIN i[scope] = Parts
      /\ \A part \in Parts : i.all[part] = i["all"][part]
  BY <1>1, InputIs
<1>3. \A part \in Parts :
        /\ \A d \in Directions : /\ 0 <= i[d][part] /\ i[d][part] <= i["all"][part]
                                 /\ i[d][part] \in Int
        /\ i["all"][part] \in Nat
  BY <1>1, SharesValid, InputIs
<1>4. FlowStatisticsValid(s.flow) /\ DirectionalStatisticsValid(s.directional) BY DEF ValuesValid
<1>5. /\ i.all.captured = s.flow.captured /\ i.all.original = s.flow.original
      /\ i["all"].captured = s.flow.captured /\ i["all"].original = s.flow.original
      /\ \A d \in Directions : i[d] = s.directional[d]
  BY <1>1, InputIs DEF FeatureInput
<1>6. s.flow.captured <= s.flow.original /\ 0 <= s.flow.captured
  BY <1>4 DEF FlowStatisticsValid
<1>7. \A scope \in Scopes : i[scope].captured <= i[scope].original
  BY <1>4, <1>5, <1>6 DEF Scopes, DirectionalStatisticsValid
<1>8. ~FeatureInputRefuses(i)
  <2>1. ASSUME NEW scope \in Scopes PROVE ~(i[scope].original < i[scope].captured)
    <3>1. i[scope].captured \in Int /\ i[scope].original \in Int
      BY <1>3 DEF Scopes, Parts
    <3> QED BY <1>7, <3>1
  <2>2. ASSUME NEW scope \in Scopes, NEW part \in Parts PROVE ~(i[scope][part] < 0)
    <3>1. i[scope][part] \in Nat BY <1>3 DEF Scopes
    <3> QED BY <3>1
  <2> QED BY <1>2, <2>1, <2>2 DEF FeatureInputRefuses
<1>9. ASSUME NEW n \in Int, NEW d \in Int, 0 <= n, n <= d PROVE InUnit(Ratio(n, d))
  <2>1. CASE d = 0 BY <2>1 DEF Ratio, InUnit
  <2>2. CASE d # 0 BY <1>9, <2>2 DEF Ratio, InUnit
  <2> QED BY <2>1, <2>2
<1>10. ~VolumeRefuses(VolumeFeatures(i))
  <2>1. PICK v : v = VolumeFeatures(i) OBVIOUS
  <2>2. v.capture = Ratio(i.all.captured, i.all.original) BY <2>1 DEF VolumeFeatures
  <2>3. InUnit(v.capture)
    <3>1. s.flow.captured \in Int /\ s.flow.original \in Int
      BY DEF CoordinatedStates, FlowVolumes
    <3> QED BY <1>5, <1>6, <1>9, <2>2, <3>1
  <2>4. ASSUME NEW d \in Directions
        PROVE  DOMAIN v.share[d] = Parts /\ \A part \in Parts : InUnit(v.share[d][part])
    <3>1. v.share[d] = [part \in DOMAIN i[d] |-> Ratio(i[d][part], i.all[part])]
      BY <2>1 DEF VolumeFeatures
    <3>2. DOMAIN i[d] = Parts BY <1>2 DEF Scopes
    <3>3. DOMAIN v.share[d] = Parts BY <3>1, <3>2
    <3>4. ASSUME NEW part \in Parts PROVE InUnit(v.share[d][part])
      <4>1. v.share[d][part] = Ratio(i[d][part], i["all"][part]) BY <1>2, <3>1, <3>2
      <4>2. /\ i[d][part] \in Int /\ i["all"][part] \in Int
            /\ 0 <= i[d][part] /\ i[d][part] <= i["all"][part]
        BY <1>3
      <4> QED BY <1>9, <4>1, <4>2
    <3> QED BY <3>3, <3>4
  <2> QED BY <2>1, <2>3, <2>4 DEF VolumeRefuses
<1>11. ~(Duration(s.flow) < 0)
  <2>1. s.flow.first \in Int /\ s.flow.last \in Int BY DEF CoordinatedStates, FlowVolumes
  <2>2. s.flow.first <= s.flow.last BY <1>4 DEF FlowStatisticsValid
  <2> QED BY <2>1, <2>2 DEF Duration
<1> QED BY <1>1, <1>8, <1>10, <1>11

-----------------------------------------------------------------------------
(* A sum over places of a sequence is built up place by place.             *)
Below(S, m) == {i \in S : i < m}

LEMMA BelowMore ==
    ASSUME NEW n \in Nat, NEW S \in SUBSET (1 .. n)
    PROVE  /\ Below(S, 0) = {} /\ Below(S, n + 1) = S
           /\ \A m \in Nat : /\ Below(S, m) \in SUBSET S
                             /\ IsFiniteSet(Below(S, m)) /\ Cardinality(Below(S, m)) \in Nat
                             /\ m \notin Below(S, m)
                             /\ m \in S => /\ Below(S, m + 1) = Below(S, m) \cup {m}
                                           /\ Cardinality(Below(S, m + 1)) = Cardinality(Below(S, m)) + 1
                             /\ m \notin S => Below(S, m + 1) = Below(S, m)
<1>1. IsFiniteSet(1 .. n) BY FS_Interval
<1>2. \A i \in S : i \in Nat /\ i <= n OBVIOUS
<1>3. Below(S, 0) = {} /\ Below(S, n + 1) = S
  <2>1. \A i \in S : ~(i < 0) /\ i < n + 1 BY <1>2
  <2> QED BY <2>1 DEF Below
<1>4. ASSUME NEW m \in Nat
      PROVE  /\ Below(S, m) \in SUBSET S
             /\ IsFiniteSet(Below(S, m)) /\ Cardinality(Below(S, m)) \in Nat
             /\ m \notin Below(S, m)
             /\ m \in S => /\ Below(S, m + 1) = Below(S, m) \cup {m}
                           /\ Cardinality(Below(S, m + 1)) = Cardinality(Below(S, m)) + 1
             /\ m \notin S => Below(S, m + 1) = Below(S, m)
  <2>1. Below(S, m) \in SUBSET S BY DEF Below
  <2>2. IsFiniteSet(Below(S, m)) /\ Cardinality(Below(S, m)) \in Nat
    BY <1>1, <2>1, FS_Subset, FS_CardinalityType
  <2>3. m \notin Below(S, m) BY DEF Below
  <2>4. \A i \in S : i < m + 1 <=> (i < m \/ i = m) BY <1>2
  <2>5. m \in S => Below(S, m + 1) = Below(S, m) \cup {m} BY <2>4 DEF Below
  <2>6. m \notin S => Below(S, m + 1) = Below(S, m) BY <2>4 DEF Below
  <2>7. m \in S => Cardinality(Below(S, m + 1)) = Cardinality(Below(S, m)) + 1
    BY <2>2, <2>3, <2>5, FS_AddElement
  <2> QED BY <2>1, <2>2, <2>3, <2>5, <2>6, <2>7
<1> QED BY <1>3, <1>4

LEMMA BelowStep ==
    ASSUME NEW n \in Nat, NEW S \in SUBSET (1 .. n), NEW m \in Nat
    PROVE  /\ Below(S, m) \in SUBSET S /\ IsFiniteSet(Below(S, m)) /\ m \notin Below(S, m)
           /\ m \in S => /\ Below(S, m + 1) = Below(S, m) \cup {m}
                         /\ Cardinality(Below(S, m + 1)) = Cardinality(Below(S, m)) + 1
           /\ m \notin S => Below(S, m + 1) = Below(S, m)
BY BelowMore

LEMMA SumAdded ==
    ASSUME NEW S, IsFiniteSet(S), NEW e, e \notin S, NEW g, \A x \in S : g[x] \in Int,
           g[e] \in Int
    PROVE  SumOf(g, S \cup {e}) = SumOf(g, S) + g[e]
<1>1. \A x \in S : g[x] \in Int /\ g[x] = g[x] OBVIOUS
<1> QED BY <1>1, SumOfMore

Images(k, S) == {k[x] : x \in S}

(* A sum over places and one over what stands at them.                     *)
LEMMA SumOfImages ==
    ASSUME NEW n \in Nat, NEW S \in SUBSET (1 .. n), NEW k,
           \A x \in S, y \in S : k[x] = k[y] => x = y,
           NEW F, NEW g, \A x \in S : g[x] \in Int /\ F[k[x]] = g[x]
    PROVE  SumOf(F, Images(k, S)) = SumOf(g, S)
<1> DEFINE I(m) == {k[x] : x \in Below(S, m)}
           H == {m \in Nat : SumOf(F, I(m)) = SumOf(g, Below(S, m))}
<1>1. 0 \in H
  <2>1. Below(S, 0) = {} BY BelowMore
  <2>2. I(0) = {} BY <2>1
  <2> HIDE DEF I
  <2>3. SumOf(F, {}) = 0 /\ SumOf(g, {}) = 0 BY SumOfNone
  <2> QED BY <2>1, <2>2, <2>3
<1>2. ASSUME NEW m \in Nat, m \in H PROVE m + 1 \in H
  <2>1. PICK B : B = Below(S, m) OBVIOUS
  <2>2. /\ B \in SUBSET S /\ IsFiniteSet(B) /\ m \notin B
        /\ m \in S => Below(S, m + 1) = B \cup {m}
        /\ m \notin S => Below(S, m + 1) = B
    BY <2>1, BelowMore
  <2>3. PICK J : J = I(m) OBVIOUS
  <2>4. J = {k[x] : x \in B} BY <2>1, <2>3
  <2>5. SumOf(F, J) = SumOf(g, B) BY <1>2, <2>1, <2>3
  <2>6. CASE m \in S
    <3>1. IsFiniteSet(J)
      <4>1. \A x \in B, y \in B : k[x] = k[y] => x = y BY <2>2
      <4>2. IsFiniteSet(B) BY <2>2
      <4>3. IsFiniteSet({k[x] : x \in B}) BY <4>1, <4>2, AsMany
      <4> QED BY <2>4, <4>3
    <3>2. k[m] \notin J BY <2>2, <2>4, <2>6
    <3>3. \A y \in J : F[y] \in Int BY <2>2, <2>4
    <3>4. F[k[m]] \in Int /\ F[k[m]] = g[m] /\ g[m] \in Int BY <2>6
    <3>5. SumOf(F, J \cup {k[m]}) = SumOf(F, J) + F[k[m]]
      <4>1. PICK e : e = k[m] OBVIOUS
      <4>2. e \notin J /\ F[e] \in Int BY <3>2, <3>4, <4>1
      <4>3. SumOf(F, J \cup {e}) = SumOf(F, J) + F[e] BY <3>1, <3>3, <4>2, SumAdded
      <4> QED BY <4>1, <4>3
    <3>6. SumOf(g, B \cup {m}) = SumOf(g, B) + g[m]
      <4>1. \A x \in B : g[x] \in Int BY <2>2
      <4>2. IsFiniteSet(B) /\ m \notin B /\ g[m] \in Int BY <2>2, <3>4
      <4> QED BY <4>1, <4>2, SumAdded
    <3>7. I(m + 1) = J \cup {k[m]}
      <4>1. I(m + 1) = {k[x] : x \in B \cup {m}} BY <2>2, <2>6
      <4> HIDE DEF I
      <4> QED BY <2>4, <4>1
    <3>8. SumOf(F, I(m + 1)) = SumOf(F, J) + g[m] BY <3>4, <3>5, <3>7
    <3>9. SumOf(g, Below(S, m + 1)) = SumOf(g, B) + g[m] BY <2>2, <2>6, <3>6
    <3> HIDE DEF I
    <3> QED BY <2>5, <3>8, <3>9
  <2>7. CASE m \notin S
    <3>1. Below(S, m + 1) = B BY <2>2, <2>7
    <3>2. I(m + 1) = J BY <2>4, <3>1
    <3> QED BY <2>5, <3>1, <3>2
  <2> QED BY <2>6, <2>7
<1>3. n + 1 \in H
  <2>1. n + 1 \in Nat OBVIOUS
  <2>2. ASSUME NEW m \in 1 .. (n + 1), m - 1 \in H PROVE m \in H
    <3>1. m - 1 \in Nat /\ (m - 1) + 1 = m OBVIOUS
    <3> HIDE DEF H
    <3>2. (m - 1) + 1 \in H BY <1>2, <2>2, <3>1
    <3> QED BY <3>1, <3>2
  <2> HIDE DEF H
  <2>3. \A m \in 0 .. (n + 1) : m \in H BY <1>1, <2>1, <2>2, Upwards
  <2> QED BY <2>1, <2>3
<1>4. Below(S, n + 1) = S BY BelowMore
<1>5. I(n + 1) = Images(k, S) BY <1>4 DEF Images
<1> QED BY <1>3, <1>4, <1>5

(* A sum of values within bounds.                                          *)
LEMMA SumWithin ==
    ASSUME NEW n \in Nat, NEW S \in SUBSET (1 .. n), NEW g, NEW low \in Int, NEW high \in Int,
           \A x \in S : g[x] \in Int /\ low <= g[x] /\ g[x] <= high
    PROVE  /\ SumOf(g, S) \in Int /\ Cardinality(S) \in Nat
           /\ low * Cardinality(S) <= SumOf(g, S) /\ SumOf(g, S) <= high * Cardinality(S)
<1> DEFINE C(m) == Cardinality(Below(S, m))
           G(m) == SumOf(g, Below(S, m))
           H == {m \in Nat : /\ C(m) \in Nat /\ G(m) \in Int
                             /\ low * C(m) <= G(m) /\ G(m) <= high * C(m)}
<1>1. 0 \in H
  <2>1. Below(S, 0) = {} BY BelowMore
  <2>2. C(0) = 0 BY <2>1, FS_EmptySet
  <2>3. G(0) = 0 BY <2>1, SumOfNone
  <2> HIDE DEF C, G
  <2> QED BY <2>2, <2>3
<1>2. ASSUME NEW m \in Nat, m \in H PROVE m + 1 \in H
  <2>1. PICK B : B = Below(S, m) OBVIOUS
  <2>2. /\ B \in SUBSET S /\ IsFiniteSet(B) /\ m \notin B
        /\ m \in S => /\ Below(S, m + 1) = B \cup {m}
                      /\ Cardinality(Below(S, m + 1)) = Cardinality(B) + 1
        /\ m \notin S => Below(S, m + 1) = B
    BY <2>1, BelowMore
  <2>3. CASE m \in S
    <3>1. \A x \in B : g[x] \in Int BY <2>2
    <3>2. SumOf(g, B \cup {m}) = SumOf(g, B) + g[m]
      <4>1. IsFiniteSet(B) /\ m \notin B /\ g[m] \in Int BY <2>2, <2>3
      <4> QED BY <3>1, <4>1, SumAdded
    <3>3. C(m + 1) = C(m) + 1 /\ G(m + 1) = G(m) + g[m] BY <2>1, <2>2, <2>3, <3>2
    <3>4. PICK v, c, t : v = g[m] /\ c = C(m) /\ t = G(m) OBVIOUS
    <3>5. v \in Int /\ c \in Nat /\ t \in Int /\ low <= v /\ v <= high
      BY <1>2, <2>3, <3>4
    <3>6. low * c <= t /\ t <= high * c BY <1>2, <3>4
    <3>7. /\ low * (c + 1) = low * c + low /\ high * (c + 1) = high * c + high BY <3>5
    <3>8. low * c \in Int /\ high * c \in Int BY <3>5
    <3>9. low * (c + 1) <= t + v /\ t + v <= high * (c + 1) BY <3>5, <3>6, <3>7, <3>8
    <3>10. C(m + 1) = c + 1 /\ G(m + 1) = t + v BY <3>3, <3>4
    <3> HIDE DEF C, G
    <3> QED BY <3>5, <3>9, <3>10
  <2>4. CASE m \notin S
    <3>1. C(m + 1) = C(m) /\ G(m + 1) = G(m) BY <2>1, <2>2, <2>4
    <3> HIDE DEF C, G
    <3> QED BY <1>2, <3>1
  <2> QED BY <2>3, <2>4
<1>3. n + 1 \in H
  <2>1. n + 1 \in Nat OBVIOUS
  <2>2. ASSUME NEW m \in 1 .. (n + 1), m - 1 \in H PROVE m \in H
    <3>1. m - 1 \in Nat /\ (m - 1) + 1 = m OBVIOUS
    <3> HIDE DEF H
    <3>2. (m - 1) + 1 \in H BY <1>2, <2>2, <3>1
    <3> QED BY <3>1, <3>2
  <2> HIDE DEF H
  <2>3. \A m \in 0 .. (n + 1) : m \in H BY <1>1, <2>1, <2>2, Upwards
  <2> QED BY <2>1, <2>3
<1>4. Below(S, n + 1) = S BY BelowMore
<1> QED BY <1>3, <1>4

-----------------------------------------------------------------------------
Squared(g, S) == [x \in S |-> g[x] * g[x]]

SquareOfDifference(x, y) == (x - y) * (x - y)

(* The square of a difference, the squares and the product.                *)
LEMMA DifferenceSquared ==
    ASSUME NEW x \in Int, NEW y \in Int
    PROVE  /\ SquareOfDifference(x, y) \in Int /\ SquareOfDifference(x, y) >= 0
           /\ SquareOfDifference(x, y) = x * x - 2 * (y * x) + y * y
<1>1. (x - y) * (x - y) = x * x - 2 * (y * x) + y * y OBVIOUS
<1>2. x * x \in Int /\ y * x \in Int /\ y * y \in Int OBVIOUS
<1>3. x - y \in Int /\ (x - y) * (x - y) \in Nat BY SquareType
<1> QED BY <1>1, <1>2, <1>3 DEF SquareOfDifference

LEMMA Distribute ==
    ASSUME NEW x \in Int, NEW a \in Int, NEW b \in Int
    PROVE  /\ x * (a + b) = x * a + x * b /\ (a + b) * x = a * x + b * x
           /\ x * a \in Int /\ x * b \in Int /\ x * (a + b) \in Int
OBVIOUS

Reaching(S, e) == {<<i, e>> : i \in S}

(* The squares of the differences between an element and those before it.  *)
LEMMA SumOfDifferences ==
    ASSUME NEW n \in Nat, NEW S \in SUBSET (1 .. n), NEW g, \A i \in S : g[i] \in Int,
           NEW e, NEW x \in Int, NEW B, IsFiniteSet(B), \A i \in S : <<i, e>> \notin B,
           NEW f, \A p \in B : f[p] \in Int, \A i \in S : f[<<i, e>>] = SquareOfDifference(g[i], x)
    PROVE  /\ SumOf(f, B \cup Reaching(S, e))
                = SumOf(f, B) + SumOf(Squared(g, S), S) - 2 * (x * SumOf(g, S))
                    + Cardinality(S) * (x * x)
           /\ SumOf(f, B \cup Reaching(S, e)) >= SumOf(f, B)
           /\ IsFiniteSet(B \cup Reaching(S, e))
<1> DEFINE I(m) == B \cup {<<i, e>> : i \in Below(S, m)}
           q == Squared(g, S)
           Q(m) == SumOf(q, Below(S, m))
           G(m) == SumOf(g, Below(S, m))
           C(m) == Cardinality(Below(S, m))
           H == {m \in Nat : /\ SumOf(f, I(m)) = SumOf(f, B) + Q(m) - 2 * (x * G(m)) + C(m) * (x * x)
                             /\ SumOf(f, I(m)) \in Int /\ SumOf(f, I(m)) >= SumOf(f, B)
                             /\ Q(m) \in Int /\ G(m) \in Int /\ C(m) \in Int
                             /\ IsFiniteSet(I(m))}
<1>0. SumOf(f, B) \in Int BY SumOfType
<1>1. 0 \in H
  <2>1. Below(S, 0) = {} BY BelowMore
  <2>2. I(0) = B BY <2>1
  <2>3. Q(0) = 0 /\ G(0) = 0 BY <2>1, SumOfNone
  <2>4. C(0) = 0 BY <2>1, FS_EmptySet
  <2> HIDE DEF I, Q, G, C, q
  <2> QED BY <1>0, <2>2, <2>3, <2>4
<1>2. ASSUME NEW m \in Nat, m \in H PROVE m + 1 \in H
  <2>1. PICK A : A = Below(S, m) OBVIOUS
  <2>2. /\ A \in SUBSET S /\ IsFiniteSet(A) /\ m \notin A
        /\ m \in S => /\ Below(S, m + 1) = A \cup {m}
                      /\ Cardinality(Below(S, m + 1)) = Cardinality(A) + 1
        /\ m \notin S => Below(S, m + 1) = A
    <3>1. /\ Below(S, m) \in SUBSET S /\ IsFiniteSet(Below(S, m)) /\ m \notin Below(S, m)
          /\ m \in S => /\ Below(S, m + 1) = Below(S, m) \cup {m}
                        /\ Cardinality(Below(S, m + 1)) = Cardinality(Below(S, m)) + 1
          /\ m \notin S => Below(S, m + 1) = Below(S, m)
      BY BelowStep
    <3> QED BY <2>1, <3>1
  <2>3. PICK J : J = I(m) OBVIOUS
  <2>4. J = B \cup {<<i, e>> : i \in A} BY <2>1, <2>3
  <2>5. CASE m \in S
    <3>1. G(m + 1) = G(m) + g[m]
      <4>1. \A i \in A : g[i] \in Int /\ g[i] = g[i] BY <2>2
      <4>2. IsFiniteSet(A) /\ m \notin A /\ g[m] \in Int BY <2>2, <2>5
      <4>3. SumOf(g, A \cup {m}) = SumOf(g, A) + g[m] BY <4>1, <4>2, SumOfMore
      <4> QED BY <2>1, <2>2, <2>5, <4>3
    <3>2. Q(m + 1) = Q(m) + g[m] * g[m]
      <4>1. \A i \in S : q[i] = g[i] * g[i] /\ q[i] \in Int BY DEF Squared
      <4> HIDE DEF q
      <4>2. \A i \in A : q[i] \in Int /\ q[i] = q[i] BY <2>2, <4>1
      <4>3. IsFiniteSet(A) /\ m \notin A /\ q[m] \in Int BY <2>2, <2>5, <4>1
      <4>4. SumOf(q, A \cup {m}) = SumOf(q, A) + q[m] BY <4>2, <4>3, SumOfMore
      <4> QED BY <2>1, <2>2, <2>5, <4>1, <4>4
    <3>3. C(m + 1) = C(m) + 1 BY <2>1, <2>2, <2>5
    <3>4. PICK p : p = <<m, e>> OBVIOUS
    <3>5. p \notin J BY <2>2, <2>4, <2>5, <3>4
    <3>6. I(m + 1) = J \cup {p}
      <4>1. I(m + 1) = B \cup {<<i, e>> : i \in A \cup {m}} BY <2>2, <2>5
      <4> HIDE DEF I
      <4> QED BY <2>4, <3>4, <4>1
    <3>7. f[p] = SquareOfDifference(g[m], x) /\ f[p] \in Int
      BY <2>5, <3>4, DifferenceSquared
    <3>8. \A r \in J : f[r] \in Int /\ f[r] = f[r]
      <4>1. \A i \in S : f[<<i, e>>] \in Int BY DifferenceSquared
      <4> QED BY <2>2, <2>4, <4>1
    <3>9. IsFiniteSet(J) BY <1>2, <2>3
    <3>10. SumOf(f, J \cup {p}) = SumOf(f, J) + f[p] BY <3>5, <3>7, <3>8, <3>9, SumOfMore
    <3>11. IsFiniteSet(J \cup {p}) BY <3>9, FS_AddElement
    <3>12. SumOf(f, I(m + 1)) = SumOf(f, I(m)) + SquareOfDifference(g[m], x)
      BY <2>3, <3>6, <3>7, <3>10
    <3>13. PICK v : v = g[m] /\ v \in Int BY <2>5
    <3>14. m + 1 \in Nat OBVIOUS
    <3> HIDE DEF I, Q, G, C, q
    <3>20. IsFiniteSet(I(m + 1)) BY <3>6, <3>11
    <3>15. PICK F0, F1, Q0, G0, C0, b :
             /\ F0 = SumOf(f, I(m)) /\ F1 = SumOf(f, I(m + 1)) /\ Q0 = Q(m) /\ G0 = G(m) /\ C0 = C(m)
             /\ b = SumOf(f, B)
      OBVIOUS
    <3>16. /\ F0 = b + Q0 - 2 * (x * G0) + C0 * (x * x)
           /\ Q0 \in Int /\ G0 \in Int /\ C0 \in Int /\ b \in Int
           /\ F1 = F0 + (v * v - 2 * (x * v) + x * x)
           /\ F0 \in Int /\ F0 >= b /\ F1 \in Int /\ F1 >= F0
      <4>1. /\ SquareOfDifference(v, x) \in Int /\ SquareOfDifference(v, x) >= 0
            /\ SquareOfDifference(v, x) = v * v - 2 * (x * v) + x * x
        BY <3>13, DifferenceSquared
      <4>2. /\ F0 = b + Q0 - 2 * (x * G0) + C0 * (x * x)
            /\ Q0 \in Int /\ G0 \in Int /\ C0 \in Int /\ b \in Int
            /\ F0 \in Int /\ F0 >= b
        BY <1>0, <1>2, <3>15
      <4>3. F1 = F0 + SquareOfDifference(v, x) BY <3>12, <3>13, <3>15
      <4>4. PICK w : w = SquareOfDifference(v, x) OBVIOUS
      <4>5. F1 \in Int /\ F1 >= F0
        <5>1. w \in Int /\ w >= 0 /\ F1 = F0 + w /\ F0 \in Int BY <4>1, <4>2, <4>3, <4>4
        <5> QED BY <5>1
      <4> QED BY <4>1, <4>2, <4>3, <4>5
    <3>21. F1 >= b BY <3>16
    <3>17. /\ x * (G0 + v) = x * G0 + x * v /\ (C0 + 1) * (x * x) = C0 * (x * x) + x * x
           /\ x * G0 \in Int /\ x * v \in Int /\ x * x \in Int /\ C0 * (x * x) \in Int
           /\ v * v \in Int
      BY <3>13, <3>16, Distribute
    <3>18. F1 = b + (Q0 + v * v) - 2 * (x * (G0 + v)) + (C0 + 1) * (x * x) BY <3>16, <3>17
    <3>19. Q0 + v * v \in Int /\ G0 + v \in Int /\ C0 + 1 \in Int BY <3>13, <3>16, <3>17
    <3> QED BY <3>1, <3>2, <3>3, <3>13, <3>14, <3>15, <3>16, <3>18, <3>19, <3>20, <3>21
  <2>6. CASE m \notin S
    <3>1. Below(S, m + 1) = A BY <2>2, <2>6
    <3>2. I(m + 1) = I(m) /\ Q(m + 1) = Q(m) /\ G(m + 1) = G(m) /\ C(m + 1) = C(m) BY <2>1, <3>1
    <3> HIDE DEF I, Q, G, C, q
    <3> QED BY <1>2, <3>2
  <2> QED BY <2>5, <2>6
<1>3. n + 1 \in H
  <2>1. n + 1 \in Nat OBVIOUS
  <2>2. ASSUME NEW m \in 1 .. (n + 1), m - 1 \in H PROVE m \in H
    <3>1. m - 1 \in Nat /\ (m - 1) + 1 = m OBVIOUS
    <3> HIDE DEF H
    <3>2. (m - 1) + 1 \in H BY <1>2, <2>2, <3>1
    <3> QED BY <3>1, <3>2
  <2> HIDE DEF H
  <2>3. \A m \in 0 .. (n + 1) : m \in H BY <1>1, <2>1, <2>2, Upwards
  <2> QED BY <2>1, <2>3
<1>4. Below(S, n + 1) = S BY BelowMore
<1> QED BY <1>3, <1>4 DEF Reaching

-----------------------------------------------------------------------------
Couples(S) == {pair \in S \X S : pair[1] < pair[2]}

\* What f is worth at the couples of A and at those of its elements with m.
Measures(f, g, A, m, x) ==
    /\ \A i \in A : g[i] \in Int /\ i < m
    /\ \A p \in Couples(A) : f[p] \in Int
    /\ \A i \in A : f[<<i, m>>] = SquareOfDifference(g[i], x)

LEMMA CouplesMore ==
    ASSUME NEW n \in Nat, NEW A \in SUBSET (1 .. n), IsFiniteSet(Couples(A)),
           NEW f, NEW g, NEW m \in Nat, NEW x \in Int, Measures(f, g, A, m, x)
    PROVE  /\ SumOf(f, Couples(A \cup {m}))
                = SumOf(f, Couples(A)) + SumOf(Squared(g, A), A) - 2 * (x * SumOf(g, A))
                    + Cardinality(A) * (x * x)
           /\ SumOf(f, Couples(A \cup {m})) >= SumOf(f, Couples(A))
           /\ IsFiniteSet(Couples(A \cup {m}))
<1>0. /\ \A i \in A : g[i] \in Int /\ i < m
      /\ \A p \in Couples(A) : f[p] \in Int
      /\ \A i \in A : f[<<i, m>>] = SquareOfDifference(g[i], x)
  BY DEF Measures
<1>1. Couples(A \cup {m}) = Couples(A) \cup Reaching(A, m)
  <2>1. \A i \in A : ~(m < i) /\ i \in Nat BY <1>0
  <2>2. ~(m < m) OBVIOUS
  <2>3. ASSUME NEW p \in Couples(A \cup {m}) PROVE p \in Couples(A) \cup Reaching(A, m)
    <3>1. p = <<p[1], p[2]>> /\ p[1] \in A \cup {m} /\ p[2] \in A \cup {m} /\ p[1] < p[2]
          BY DEF Couples
    <3>2. p[1] # m BY <2>1, <2>2, <3>1
    <3>3. CASE p[2] = m BY <3>1, <3>2, <3>3 DEF Reaching
    <3>4. CASE p[2] # m BY <3>1, <3>2, <3>4 DEF Couples, Reaching
    <3> QED BY <3>3, <3>4
  <2>4. ASSUME NEW p \in Couples(A) \cup Reaching(A, m) PROVE p \in Couples(A \cup {m})
    <3>1. CASE p \in Couples(A) BY <3>1 DEF Couples
    <3>2. CASE p \in Reaching(A, m) BY <1>0, <3>2 DEF Couples, Reaching
    <3> QED BY <3>1, <3>2
  <2> QED BY <2>3, <2>4
<1>2. \A i \in A : <<i, m>> \notin Couples(A) BY <1>0 DEF Couples
<1>3. PICK B : B = Couples(A) OBVIOUS
<1>4. /\ SumOf(f, B \cup Reaching(A, m))
           = SumOf(f, B) + SumOf(Squared(g, A), A) - 2 * (x * SumOf(g, A))
               + Cardinality(A) * (x * x)
      /\ SumOf(f, B \cup Reaching(A, m)) >= SumOf(f, B)
      /\ IsFiniteSet(B \cup Reaching(A, m))
  <2>1. IsFiniteSet(B) /\ (\A i \in A : <<i, m>> \notin B) /\ (\A p \in B : f[p] \in Int)
    BY <1>0, <1>2, <1>3
  <2> QED BY <1>0, <2>1, SumOfDifferences
<1> QED BY <1>1, <1>3, <1>4

(* What the differences between every two values come to: the code has the *)
(* sums of the values and of their squares only.                           *)
LEMMA SpreadIs ==
    ASSUME NEW n \in Nat, NEW S \in SUBSET (1 .. n), NEW g, \A i \in S : g[i] \in Int,
           NEW f, \A p \in Couples(S) : f[p] = SquareOfDifference(g[p[1]], g[p[2]])
    PROVE  /\ SumOf(f, Couples(S)) = Cardinality(S) * SumOf(Squared(g, S), S)
                                       - SumOf(g, S) * SumOf(g, S)
           /\ SumOf(f, Couples(S)) \in Nat
<1> DEFINE q == Squared(g, S)
           F(m) == SumOf(f, Couples(Below(S, m)))
           Q(m) == SumOf(q, Below(S, m))
           G(m) == SumOf(g, Below(S, m))
           C(m) == Cardinality(Below(S, m))
           H == {m \in Nat : /\ F(m) = C(m) * Q(m) - G(m) * G(m)
                             /\ F(m) \in Nat /\ Q(m) \in Int /\ G(m) \in Int /\ C(m) \in Int
                             /\ IsFiniteSet(Couples(Below(S, m)))}
<1>1. 0 \in H
  <2>1. Below(S, 0) = {} BY BelowMore
  <2>2. Couples(Below(S, 0)) = {} BY <2>1 DEF Couples
  <2>3. Q(0) = 0 /\ G(0) = 0 BY <2>1, SumOfNone
  <2>4. C(0) = 0 BY <2>1, FS_EmptySet
  <2>5. F(0) = 0 BY <2>2, SumOfNone
  <2>6. IsFiniteSet(Couples(Below(S, 0))) BY <2>2, FS_EmptySet
  <2> HIDE DEF F, Q, G, C, q
  <2> QED BY <2>3, <2>4, <2>5, <2>6
<1>2. ASSUME NEW m \in Nat, m \in H PROVE m + 1 \in H
  <2>1. PICK A : A = Below(S, m) OBVIOUS
  <2>2. /\ A \in SUBSET S /\ IsFiniteSet(A) /\ m \notin A
        /\ m \in S => /\ Below(S, m + 1) = A \cup {m}
                      /\ Cardinality(Below(S, m + 1)) = Cardinality(A) + 1
        /\ m \notin S => Below(S, m + 1) = A
    <3>1. /\ Below(S, m) \in SUBSET S /\ IsFiniteSet(Below(S, m)) /\ m \notin Below(S, m)
          /\ m \in S => /\ Below(S, m + 1) = Below(S, m) \cup {m}
                        /\ Cardinality(Below(S, m + 1)) = Cardinality(Below(S, m)) + 1
          /\ m \notin S => Below(S, m + 1) = Below(S, m)
      BY BelowStep
    <3> QED BY <2>1, <3>1
  <2>3. \A i \in A : i < m BY <2>1 DEF Below
  <2>4. PICK B : B = Couples(A) OBVIOUS
  <2>5. CASE m \in S
    <3>1. G(m + 1) = G(m) + g[m]
      <4>1. \A i \in A : g[i] \in Int BY <2>2
      <4>2. IsFiniteSet(A) /\ m \notin A /\ g[m] \in Int BY <2>2, <2>5
      <4>3. SumOf(g, A \cup {m}) = SumOf(g, A) + g[m] BY <4>1, <4>2, SumAdded
      <4> QED BY <2>1, <2>2, <2>5, <4>3
    <3>2. Q(m + 1) = Q(m) + g[m] * g[m]
      <4>1. \A i \in S : q[i] = g[i] * g[i] /\ q[i] \in Int BY DEF Squared
      <4> HIDE DEF q
      <4>2. \A i \in A : q[i] \in Int BY <2>2, <4>1
      <4>3. IsFiniteSet(A) /\ m \notin A /\ q[m] \in Int BY <2>2, <2>5, <4>1
      <4>4. SumOf(q, A \cup {m}) = SumOf(q, A) + q[m] BY <4>2, <4>3, SumAdded
      <4> QED BY <2>1, <2>2, <2>5, <4>1, <4>4
    <3>3. C(m + 1) = C(m) + 1 BY <2>1, <2>2, <2>5
    <3>4. SumOf(Squared(g, A), A) = Q(m)
      <4>1. \A i \in A : q[i] \in Int /\ q[i] = Squared(g, A)[i] BY <2>2 DEF Squared
      <4>2. IsFiniteSet(A) BY <2>2
      <4>3. PICK r : r = Squared(g, A) OBVIOUS
      <4> HIDE DEF q
      <4>4. SumOf(r, A) = SumOf(q, A) BY <4>1, <4>2, <4>3, SumOfSame
      <4> QED BY <2>1, <4>3, <4>4
    <3>6. PICK x : x = g[m] /\ x \in Int BY <2>5
    <3>7. /\ SumOf(f, Couples(A \cup {m}))
               = SumOf(f, B) + SumOf(Squared(g, A), A) - 2 * (x * SumOf(g, A))
                   + Cardinality(A) * (x * x)
          /\ SumOf(f, Couples(A \cup {m})) >= SumOf(f, B)
          /\ IsFiniteSet(Couples(A \cup {m}))
      <4>1. A \in SUBSET (1 .. n) /\ \A i \in A : g[i] \in Int BY <2>2
      <4>2. IsFiniteSet(Couples(A)) BY <1>2, <2>1
      <4>4. \A p \in Couples(A) : f[p] \in Int
        <5>1. ASSUME NEW p \in Couples(A) PROVE f[p] \in Int
          <6>1. p \in Couples(S) /\ p[1] \in S /\ p[2] \in S BY <2>2 DEF Couples
          <6>2. f[p] = SquareOfDifference(g[p[1]], g[p[2]]) /\ g[p[1]] \in Int /\ g[p[2]] \in Int
            BY <6>1
          <6> QED BY <6>2, DifferenceSquared
        <5> QED BY <5>1
      <4>5. \A i \in A : f[<<i, m>>] = SquareOfDifference(g[i], x)
        <5>1. ASSUME NEW i \in A PROVE f[<<i, m>>] = SquareOfDifference(g[i], x)
          <6>1. <<i, m>> \in Couples(S) BY <2>2, <2>3, <2>5 DEF Couples
          <6>2. f[<<i, m>>] = SquareOfDifference(g[<<i, m>>[1]], g[<<i, m>>[2]]) BY <6>1
          <6> QED BY <3>6, <6>2
        <5> QED BY <5>1
      <4>6. x \in Int BY <3>6
      <4>7. Measures(f, g, A, m, x) BY <2>3, <2>4, <4>1, <4>4, <4>5 DEF Measures
      <4> HIDE DEF H, F, Q, G, C, q
      <4>8. m \in Nat /\ n \in Nat OBVIOUS
      <4>9. /\ SumOf(f, Couples(A \cup {m}))
                 = SumOf(f, Couples(A)) + SumOf(Squared(g, A), A) - 2 * (x * SumOf(g, A))
                     + Cardinality(A) * (x * x)
            /\ SumOf(f, Couples(A \cup {m})) >= SumOf(f, Couples(A))
            /\ IsFiniteSet(Couples(A \cup {m}))
        BY <4>1, <4>2, <4>6, <4>7, <4>8, CouplesMore
      <4> QED BY <2>4, <4>9
    <3>8. m + 1 \in Nat OBVIOUS
    <3>9. F(m + 1) = SumOf(f, Couples(A \cup {m})) BY <2>2, <2>5
    <3>10. IsFiniteSet(Couples(Below(S, m + 1))) BY <2>2, <2>5, <3>7
    <3>11. PICK F0, F1, Q0, G0, C0 :
             F0 = F(m) /\ F1 = F(m + 1) /\ Q0 = Q(m) /\ G0 = G(m) /\ C0 = C(m)
      OBVIOUS
    <3>12. /\ F1 = F0 + Q0 - 2 * (x * G0) + C0 * (x * x) /\ F1 >= F0
      BY <2>1, <2>4, <3>4, <3>7, <3>9, <3>11
    <3>13. /\ F0 = C0 * Q0 - G0 * G0 /\ F0 \in Nat /\ Q0 \in Int /\ G0 \in Int /\ C0 \in Int
      BY <1>2, <3>11
    <3>14. /\ Q(m + 1) = Q0 + x * x /\ G(m + 1) = G0 + x /\ C(m + 1) = C0 + 1
      BY <3>1, <3>2, <3>3, <3>6, <3>11
    <3> HIDE DEF F, Q, G, C, q
    <3>15. F1 = (C0 + 1) * (Q0 + x * x) - (G0 + x) * (G0 + x)
      <4>1. (C0 + 1) * (Q0 + x * x) = C0 * Q0 + C0 * (x * x) + Q0 + x * x
        <5>1. PICK X : X = x * x /\ X \in Int BY <3>6
        <5>2. (C0 + 1) * (Q0 + X) = C0 * (Q0 + X) + (Q0 + X) BY <3>13, <5>1
        <5>3. C0 * (Q0 + X) = C0 * Q0 + C0 * X /\ C0 * Q0 \in Int /\ C0 * X \in Int
          BY <3>13, <5>1, Distribute
        <5> QED BY <3>13, <5>1, <5>2, <5>3
      <4>2. (G0 + x) * (G0 + x) = G0 * G0 + 2 * (x * G0) + x * x BY <3>6, <3>13
      <4>3. /\ C0 * Q0 \in Int /\ C0 * (x * x) \in Int /\ G0 * G0 \in Int /\ x * G0 \in Int
            /\ x * x \in Int
        BY <3>6, <3>13
      <4> QED BY <3>12, <3>13, <4>1, <4>2, <4>3
    <3>16. F1 \in Nat /\ Q0 + x * x \in Int /\ G0 + x \in Int /\ C0 + 1 \in Int
      <4>1. /\ C0 * (x * x) \in Int /\ x * G0 \in Int /\ x * x \in Int BY <3>6, <3>13
      <4>2. F1 \in Int BY <3>12, <3>13, <4>1
      <4> QED BY <3>6, <3>12, <3>13, <4>1, <4>2
    <3> QED BY <3>8, <3>10, <3>11, <3>14, <3>15, <3>16
  <2>6. CASE m \notin S
    <3>1. Below(S, m + 1) = A BY <2>2, <2>6
    <3>2. /\ F(m + 1) = F(m) /\ Q(m + 1) = Q(m) /\ G(m + 1) = G(m) /\ C(m + 1) = C(m)
          /\ Couples(Below(S, m + 1)) = Couples(Below(S, m))
      BY <2>1, <3>1
    <3> HIDE DEF F, Q, G, C, q
    <3> QED BY <1>2, <3>2
  <2> QED BY <2>5, <2>6
<1>3. n + 1 \in H
  <2>1. n + 1 \in Nat OBVIOUS
  <2>2. ASSUME NEW m \in 1 .. (n + 1), m - 1 \in H PROVE m \in H
    <3>1. m - 1 \in Nat /\ (m - 1) + 1 = m OBVIOUS
    <3> HIDE DEF H
    <3>2. (m - 1) + 1 \in H BY <1>2, <2>2, <3>1
    <3> QED BY <3>1, <3>2
  <2> HIDE DEF H
  <2>3. \A m \in 0 .. (n + 1) : m \in H BY <1>1, <2>1, <2>2, Upwards
  <2> QED BY <2>1, <2>3
<1>4. Below(S, n + 1) = S BY BelowMore
<1> QED BY <1>3, <1>4

-----------------------------------------------------------------------------
Indexed(g, I) == {<<i, g[i]>> : i \in I}

(* What a running summary of the values at some places amounts to.         *)
LEMMA SummaryAmounts ==
    ASSUME NEW n \in Nat, NEW I \in SUBSET (1 .. n), NEW g, \A i \in I : g[i] \in Int,
           NEW a, Summary(a, Indexed(g, I))
    PROVE  /\ a \in Samples /\ a.count = Cardinality(I) /\ a.total = SumOf(g, I)
           /\ a.squares = SumOf(Squared(g, I), I)
           /\ I # {} => /\ a.least * a.count <= a.total /\ a.total <= a.greatest * a.count
                        /\ \E i \in I : g[i] = a.greatest
                        /\ \A i \in I : a.least <= g[i] /\ g[i] <= a.greatest
<1> DEFINE k == [i \in I |-> <<i, g[i]>>]
<1>1. PICK P : P = Indexed(g, I) OBVIOUS
<1>2. P = {k[i] : i \in I} BY <1>1 DEF Indexed
<1>3. \A x \in I, y \in I : k[x] = k[y] => x = y OBVIOUS
<1>4. \A i \in I : k[i] \in P /\ k[i][2] = g[i] BY <1>2
<1>5. IsFiniteSet(I)
  <2>1. IsFiniteSet(1 .. n) BY FS_Interval
  <2> QED BY <2>1, FS_Subset
<1>6. Cardinality(P) = Cardinality(I)
  <2> HIDE DEF k
  <2>1. Cardinality({k[i] : i \in I}) = Cardinality(I) BY <1>3, <1>5, AsMany
  <2> QED BY <1>2, <2>1
<1>7. /\ a \in Samples /\ a.count = Cardinality(P) /\ a.total = SumOf(Values(P), P)
      /\ a.squares = SumOf(Squares(P), P)
      /\ P # {} => Extrema(a, P)
  BY <1>1 DEF Summary
<1>8. a.total = SumOf(g, I)
  <2>1. PICK F : F = Values(P) OBVIOUS
  <2>2. \A i \in I : g[i] \in Int /\ F[k[i]] = g[i]
    <3> HIDE DEF k
    <3> QED BY <1>4, <2>1 DEF Values
  <2> HIDE DEF k
  <2>3. SumOf(F, Images(k, I)) = SumOf(g, I) BY <1>3, <2>2, SumOfImages
  <2> QED BY <1>2, <1>7, <2>1, <2>3 DEF Images
<1>9. a.squares = SumOf(Squared(g, I), I)
  <2>1. PICK F, q : F = Squares(P) /\ q = Squared(g, I) OBVIOUS
  <2>2. \A i \in I : q[i] = g[i] * g[i] /\ q[i] \in Int BY <2>1 DEF Squared
  <2>3. \A i \in I : F[k[i]] = g[i] * g[i]
    <3> HIDE DEF k
    <3> QED BY <1>4, <2>1 DEF Squares
  <2>4. \A i \in I : q[i] \in Int /\ F[k[i]] = q[i] BY <2>2, <2>3
  <2> HIDE DEF k
  <2>5. SumOf(F, Images(k, I)) = SumOf(q, I) BY <1>3, <2>4, SumOfImages
  <2> QED BY <1>2, <1>7, <2>1, <2>5 DEF Images
<1>10. ASSUME I # {}
       PROVE  /\ a.least * a.count <= a.total /\ a.total <= a.greatest * a.count
              /\ \E i \in I : g[i] = a.greatest
              /\ \A i \in I : a.least <= g[i] /\ g[i] <= a.greatest
  <2>1. Extrema(a, P)
    <3>1. P # {} BY <1>4, <1>10
    <3> QED BY <1>7, <3>1
  <2>2. \A i \in I : a.least <= g[i] /\ g[i] <= a.greatest
    <3> HIDE DEF k
    <3>1. \A p \in P : a.least <= p[2] /\ p[2] <= a.greatest BY <2>1 DEF Extrema
    <3>2. \A i \in I : a.least <= k[i][2] /\ k[i][2] <= a.greatest BY <1>4, <3>1
    <3> QED BY <1>4, <3>2
  <2>3. \E i \in I : g[i] = a.greatest
    <3>1. PICK p \in P : p[2] = a.greatest BY <2>1 DEF Extrema
    <3> HIDE DEF k
    <3>2. PICK i \in I : p = k[i] BY <1>2
    <3> QED BY <1>4, <3>1, <3>2
  <2>4. PICK low, high : low = a.least /\ high = a.greatest OBVIOUS
  <2>5. low \in Int /\ high \in Int BY <1>7, <2>4 DEF Samples
  <2>6. \A x \in I : g[x] \in Int /\ low <= g[x] /\ g[x] <= high BY <2>2, <2>4
  <2>7. low * Cardinality(I) <= SumOf(g, I) /\ SumOf(g, I) <= high * Cardinality(I)
    BY <2>5, <2>6, SumWithin
  <2> QED BY <1>6, <1>7, <1>8, <2>2, <2>3, <2>4, <2>7
<1> QED BY <1>6, <1>7, <1>8, <1>9, <1>10

(* The variance is what the differences of the values come to.             *)
LEMMA SummarySpread ==
    ASSUME NEW n \in Nat, NEW I \in SUBSET (1 .. n), NEW g, \A i \in I : g[i] \in Int,
           NEW a, Summary(a, Indexed(g, I)),
           NEW f, \A p \in Couples(I) : f[p] = SquareOfDifference(g[p[1]], g[p[2]])
    PROVE  /\ a.count * a.squares - a.total * a.total = SumOf(f, Couples(I))
           /\ SumOf(f, Couples(I)) \in Nat
<1>1. /\ a.count = Cardinality(I) /\ a.total = SumOf(g, I) /\ a.squares = SumOf(Squared(g, I), I)
  BY SummaryAmounts
<1>2. /\ SumOf(f, Couples(I)) = Cardinality(I) * SumOf(Squared(g, I), I)
                                  - SumOf(g, I) * SumOf(g, I)
      /\ SumOf(f, Couples(I)) \in Nat
  BY SpreadIs
<1> QED BY <1>1, <1>2

(* No extractor refuses the moments of a summary.                          *)
LEMMA MomentsAccepted ==
    ASSUME NEW n \in Nat, NEW I \in SUBSET (1 .. n), NEW g, \A i \in I : g[i] \in Int,
           NEW a, Summary(a, Indexed(g, I)), SamplesValid(a)
    PROVE  ~MomentsRefuse(Moments(a))
<1>0. PICK f : f = [p \in Couples(I) |-> SquareOfDifference(g[p[1]], g[p[2]])] OBVIOUS
<1>1. \A p \in Couples(I) : f[p] = SquareOfDifference(g[p[1]], g[p[2]]) BY <1>0
<1>2. PICK v : v = a.count * a.squares - a.total * a.total OBVIOUS
<1>3. v \in Nat
  <2>1. /\ a.count * a.squares - a.total * a.total = SumOf(f, Couples(I))
        /\ SumOf(f, Couples(I)) \in Nat
    BY <1>1, SummarySpread
  <2> QED BY <1>2, <2>1
<1>4. PICK m : m = Moments(a) OBVIOUS
<1>5. m.variance = Ratio(v, a.count * a.count) /\ m.least = a.least /\ m.greatest = a.greatest
  BY <1>2, <1>4 DEF Moments
<1>6. m.variance[1] \in Nat
  <2>1. CASE a.count * a.count = 0 BY <1>5, <2>1 DEF Ratio
  <2>2. CASE a.count * a.count # 0 BY <1>3, <1>5, <2>2 DEF Ratio
  <2> QED BY <2>1, <2>2
<1>7. ~(m.variance[1] < 0) BY <1>6
<1>8. ~(m.least > m.greatest)
  <2>1. a \in Samples BY DEF Summary
  <2>2. a.least \in Int /\ a.greatest \in Int BY <2>1 DEF Samples
  <2>3. a.least <= a.greatest BY DEF SamplesValid
  <2> QED BY <1>5, <2>2, <2>3
<1> QED BY <1>4, <1>7, <1>8 DEF MomentsRefuse

-----------------------------------------------------------------------------
LengthIn(s, l, I) == [i \in I |-> s[i].observation[l]]

GapIn(s, I) ==
    [i \in I \ {Min(I)} |->
       s[i].observation.at - s[Max({j \in I : j < i})].observation.at]

(* What a flow has sampled: the lengths and the intervals of its packets.  *)
LEMMA LengthsIndexed ==
    ASSUME NEW s \in Seq(Taken), NEW I \in SUBSET (1 .. Len(s)), NEW l \in Lengths
    PROVE  /\ LengthsAt(s, l, I) = Indexed(LengthIn(s, l, I), I)
           /\ \A i \in I : LengthIn(s, l, I)[i] = s[i].observation[l] /\ s[i].observation[l] \in Int
<1>1. \A i \in I : s[i] \in Taken
  <2>1. \A i \in 1 .. Len(s) : s[i] \in Taken BY AmongTyped
  <2> QED BY <2>1
<1>2. \A i \in I : s[i].observation[l] \in Int BY <1>1, TakenTyped DEF Lengths
<1>3. \A i \in I : LengthIn(s, l, I)[i] = s[i].observation[l] BY DEF LengthIn
<1> QED BY <1>2, <1>3 DEF LengthsAt, Indexed

LEMMA GapsIndexed ==
    ASSUME NEW s \in Seq(Taken), NEW I \in SUBSET (1 .. Len(s))
    PROVE  /\ I \ {Min(I)} \in SUBSET (1 .. Len(s))
           /\ GapsAt(s, I) = Indexed(GapIn(s, I), I \ {Min(I)})
           /\ \A i \in I \ {Min(I)} :
                /\ Max({j \in I : j < i}) \in I /\ Max({j \in I : j < i}) < i
                /\ \A j \in I : j < i => j <= Max({m \in I : m < i})
                /\ GapIn(s, I)[i]
                     = s[i].observation.at - s[Max({j \in I : j < i})].observation.at
                /\ GapIn(s, I)[i] \in Int
<1>1. \A i \in 1 .. Len(s) : s[i] \in Taken BY AmongTyped
<1>2. \A i \in 1 .. Len(s) : s[i].observation.at \in Int BY <1>1, TakenTyped
<1>3. Len(s) \in Nat BY LenProperties
<1>4. ASSUME NEW i \in I \ {Min(I)}
      PROVE  /\ Max({j \in I : j < i}) \in I /\ Max({j \in I : j < i}) < i
             /\ \A j \in I : j < i => j <= Max({m \in I : m < i})
  <2>1. PICK J : J = {j \in I : j < i} OBVIOUS
  <2>2. I \in SUBSET Nat /\ I # {} BY <1>3
  <2>3. Min(I) \in I /\ \A m \in I : Min(I) <= m BY <2>2, MinIs
  <2>4. J \in SUBSET Nat BY <2>1, <2>2
  <2>5. Min(I) \in J
    <3>1. PICK m : m = Min(I) OBVIOUS
    <3>2. m \in I /\ i \in I /\ i # m /\ m <= i /\ m \in Nat /\ i \in Nat BY <2>2, <2>3, <3>1
    <3>3. m < i BY <3>2
    <3> QED BY <2>1, <3>1, <3>2, <3>3
  <2>6. IsFiniteSet(J)
    <3>1. IsFiniteSet(1 .. Len(s)) BY <1>3, FS_Interval
    <3> QED BY <2>1, <3>1, FS_Subset
  <2>7. Max(J) \in J /\ \A m \in J : m <= Max(J)
    <3>1. J # {} BY <2>5
    <3>2. \A m \in J : m \in 1 .. Len(s) BY <2>1
    <3> QED BY <1>3, <2>4, <2>6, <3>1, <3>2, MaxIs
  <2> QED BY <2>1, <2>7
<1>5. \A i \in I \ {Min(I)} :
        /\ GapIn(s, I)[i] = s[i].observation.at - s[Max({j \in I : j < i})].observation.at
        /\ GapIn(s, I)[i] \in Int
  <2>1. ASSUME NEW i \in I \ {Min(I)}
        PROVE  /\ GapIn(s, I)[i] = s[i].observation.at - s[Max({j \in I : j < i})].observation.at
               /\ GapIn(s, I)[i] \in Int
    <3>1. PICK m : m = Max({j \in I : j < i}) OBVIOUS
    <3>2. m \in I BY <1>4, <3>1
    <3>3. GapIn(s, I)[i] = s[i].observation.at - s[m].observation.at BY <3>1 DEF GapIn
    <3>4. s[i].observation.at \in Int /\ s[m].observation.at \in Int BY <1>2, <3>2
    <3> QED BY <3>1, <3>3, <3>4
  <2> QED BY <2>1
<1>6. GapsAt(s, I) = Indexed(GapIn(s, I), I \ {Min(I)}) BY <1>5 DEF GapsAt, Indexed
<1> QED BY <1>4, <1>5, <1>6

(* How many directions have been observed.                                 *)
LEMMA ObservedCount ==
    ASSUME NEW v
    PROVE  Cardinality(Observed(v)) = One("forward" \in Observed(v)) + One("reverse" \in Observed(v))
<1>1. PICK O : O = Observed(v) OBVIOUS
<1>2. O \in SUBSET {"forward", "reverse"} BY <1>1 DEF Observed, Directions
<1>3. /\ Cardinality({}) = 0
      /\ Cardinality({"forward"}) = 1 /\ Cardinality({"reverse"}) = 1
      /\ Cardinality({"forward", "reverse"}) = 2
  <2>1. IsFiniteSet({}) /\ Cardinality({}) = 0 BY FS_EmptySet
  <2>2. Cardinality({"forward"}) = 1 /\ Cardinality({"reverse"}) = 1 BY FS_Singleton
  <2>3. IsFiniteSet({"forward"}) BY FS_Singleton
  <2>4. {"forward", "reverse"} = {"forward"} \cup {"reverse"} /\ "reverse" \notin {"forward"} OBVIOUS
  <2>5. Cardinality({"forward"} \cup {"reverse"}) = Cardinality({"forward"}) + 1
    BY <2>3, <2>4, FS_AddElement
  <2> QED BY <2>1, <2>2, <2>4, <2>5
<1>4. CASE O = {} BY <1>1, <1>3, <1>4 DEF One
<1>5. CASE O = {"forward"} BY <1>1, <1>3, <1>5 DEF One
<1>6. CASE O = {"reverse"} BY <1>1, <1>3, <1>6 DEF One
<1>7. CASE O = {"forward", "reverse"} BY <1>1, <1>3, <1>7 DEF One
<1>8. O = {} \/ O = {"forward"} \/ O = {"reverse"} \/ O = {"forward", "reverse"} BY <1>2
<1> QED BY <1>4, <1>5, <1>6, <1>7, <1>8

(* No extractor refuses what a flow has accumulated.                       *)
LEMMA SnapshotAccepted ==
    ASSUME Held, state # None
    PROVE  ~SnapshotRefused(state)
<1>1. /\ state \in CoordinatedStates /\ accepted \in Seq(Taken) /\ StateOf(state, accepted)
      /\ ValuesValid(state) /\ CoordinatedValid(state)
  BY DEF Held
<1>2. Len(accepted) \in Nat /\ \A P : Among(accepted, P) \in SUBSET (1 .. Len(accepted))
  BY <1>1, AmongTyped
<1>3. ASSUME NEW scope \in Scopes, NEW l \in Lengths
      PROVE  ~MomentsRefuse(Moments(state.sizes[scope][l]))
  <2>1. PICK I, a, g : /\ I = Among(accepted, Scope(scope)) /\ a = state.sizes[scope][l]
                       /\ g = LengthIn(accepted, l, I)
    OBVIOUS
  <2>2. I \in SUBSET (1 .. Len(accepted)) BY <1>2, <2>1
  <2>3. /\ LengthsAt(accepted, l, I) = Indexed(g, I) /\ \A i \in I : g[i] \in Int
    BY <1>1, <2>1, <2>2, LengthsIndexed
  <2>4. Summary(a, Indexed(g, I)) BY <1>1, <2>1, <2>3 DEF StateOf, SizesOf
  <2>5. SamplesValid(a)
    <3>1. PacketSizesValid(state.sizes) BY <1>1 DEF ValuesValid
    <3>2. DOMAIN state.sizes = Scopes BY <1>1 DEF CoordinatedStates, PacketSizes, Scopes
    <3> QED BY <2>1, <3>1, <3>2 DEF PacketSizesValid
  <2>6. ~MomentsRefuse(Moments(a)) BY <1>2, <2>2, <2>3, <2>4, <2>5, MomentsAccepted
  <2> QED BY <2>1, <2>6
<1>4. ASSUME NEW P, NEW a, Summary(a, GapsAt(accepted, Among(accepted, P))), SamplesValid(a)
      PROVE  ~MomentsRefuse(Moments(a))
  <2>1. PICK I : I = Among(accepted, P) OBVIOUS
  <2>2. PICK J, g : J = I \ {Min(I)} /\ g = GapIn(accepted, I) OBVIOUS
  <2>3. I \in SUBSET (1 .. Len(accepted)) BY <1>2, <2>1
  <2>4. /\ J \in SUBSET (1 .. Len(accepted)) /\ GapsAt(accepted, I) = Indexed(g, J)
        /\ \A i \in J : g[i] \in Int
    BY <1>1, <2>2, <2>3, GapsIndexed
  <2>5. Summary(a, Indexed(g, J)) BY <1>4, <2>1, <2>4
  <2> QED BY <1>2, <1>4, <2>4, <2>5, MomentsAccepted
<1>5. PICK w : w = Snapshot(state) OBVIOUS
<1>6. ASSUME NEW kind \in DOMAIN w.sizes PROVE ~MomentsRefuse(w.sizes[kind])
  <2>1. w.sizes = SizeFeatures(state.sizes) BY <1>5 DEF Snapshot
  <2>2. DOMAIN w.sizes = {"captured", "original", "forward", "reverse"}
    BY <2>1 DEF SizeFeatures
  <2>3. /\ w.sizes["captured"] = Moments(state.sizes["all"]["captured"])
        /\ w.sizes["original"] = Moments(state.sizes["all"]["original"])
        /\ w.sizes["forward"] = Moments(state.sizes["forward"]["captured"])
        /\ w.sizes["reverse"] = Moments(state.sizes["reverse"]["captured"])
    BY <2>1 DEF SizeFeatures
  <2> QED BY <1>3, <1>6, <2>2, <2>3 DEF Scopes, Directions, Lengths
<1>7. ~MomentsRefuse(w.intervals)
  <2>1. w.intervals = Moments(state.intervals.gaps) BY <1>5 DEF Snapshot, IntervalFeatures
  <2>2. SamplesValid(state.intervals.gaps) BY <1>1 DEF ValuesValid, IntervalsValid
  <2>3. Summary(state.intervals.gaps, GapsAt(accepted, Among(accepted, Taken)))
    BY <1>1 DEF StateOf, IntervalsOf
  <2> QED BY <1>4, <2>1, <2>2, <2>3
<1>8. DirectionalIntervalsValid(state.directional_intervals) BY <1>1 DEF ValuesValid
<1>9. PICK v : v = state.directional_intervals OBVIOUS
<1>10. v \in DirectionalIntervals BY <1>1, <1>9 DEF CoordinatedStates
<1>11. ASSUME NEW d \in Directions, w.directional[d] # None
       PROVE  ~MomentsRefuse(w.directional[d])
  <2>1. w.directional[d] = IF v.gaps[d].count = 0 THEN None ELSE Moments(v.gaps[d])
    BY <1>5, <1>9 DEF Snapshot, DirectionalIntervalFeatures
  <2>2. w.directional[d] = Moments(v.gaps[d]) BY <1>11, <2>1
  <2>3. SamplesValid(v.gaps[d]) BY <1>8, <1>9 DEF DirectionalIntervalsValid
  <2>4. Summary(v.gaps[d], GapsAt(accepted, Among(accepted, Going(d))))
    BY <1>1, <1>9 DEF StateOf, DirectionalOf
  <2> QED BY <1>4, <2>2, <2>3, <2>4
<1>12. ~DirectionalIntervalsRefuseFeatures(v)
  <2>1. v.packet_count \in Nat /\ v.packet_count >= 1 /\ ~(v.packet_count < 1)
    BY <1>8, <1>9, <1>10 DEF DirectionalIntervalsValid, DirectionalIntervals
  <2>2. v.gaps["forward"].count + v.gaps["reverse"].count = v.packet_count - Cardinality(Observed(v))
    <3>1. v.gaps["forward"].count + v.gaps["reverse"].count
            = v.packet_count - One("forward" \in Observed(v)) - One("reverse" \in Observed(v))
      BY <1>8, <1>9 DEF DirectionalIntervalsValid
    <3>2. PICK a, b : a = One("forward" \in Observed(v)) /\ b = One("reverse" \in Observed(v)) OBVIOUS
    <3>3. a \in Int /\ b \in Int BY <3>2 DEF One
    <3>4. Cardinality(Observed(v)) = a + b BY <3>2, ObservedCount
    <3>5. v.packet_count - (a + b) = v.packet_count - a - b BY <2>1, <3>3
    <3> QED BY <3>1, <3>2, <3>4, <3>5
  <2>3. ASSUME NEW d \in Directions, v.gaps[d].count = 0 PROVE v.gaps[d] = NoSamples
    <3>1. SamplesValid(v.gaps[d]) BY <1>8, <1>9 DEF DirectionalIntervalsValid
    <3> QED BY <2>3, <3>1 DEF SamplesValid
  <2>4. \A d \in Directions : v.gaps[d].count = 0 =>
          /\ v.gaps[d].total = 0 /\ v.gaps[d].squares = 0
          /\ v.gaps[d].least = 0 /\ v.gaps[d].greatest = 0
    BY <2>3 DEF NoSamples
  <2> QED BY <2>1, <2>2, <2>4 DEF DirectionalIntervalsRefuseFeatures
<1>13. /\ ~FeatureInputRefuses(FeatureInput(state))
       /\ ~VolumeRefuses(w.volume) /\ ~(w.duration < 0)
  <2>1. w.volume = VolumeFeatures(FeatureInput(state)) /\ w.duration = Duration(state.flow)
    BY <1>5 DEF Snapshot
  <2> QED BY <1>1, <2>1, VolumesAccepted
<1> QED BY <1>5, <1>6, <1>7, <1>9, <1>11, <1>12, <1>13 DEF SnapshotRefused

-----------------------------------------------------------------------------
(* The findings of a session at a window.                                  *)
VolumeFinding(c, w) == Evaluated("volume", ObservedVolume(w, c.volume.metric), c.volume)

ControlFinding(c, w) == Evaluated("control", ObservedControl(w.control, c.control.metric), c.control)

FindingsOf(c, w) ==
    IF w.identity.protocol = UDP THEN <<VolumeFinding(c, w)>>
    ELSE IF w.identity.protocol = TCP THEN <<VolumeFinding(c, w), ControlFinding(c, w)>>
    ELSE <<>>

\* A TCP window in a session without a control detector.
Lacking(c, s) == s.identity.protocol = TCP /\ c.control = None

Detecting ==
    /\ Held /\ configuration \in Configurations
    /\ window \in {"open", "detected", "raised"}
    /\ window = "open" => flow_findings = <<>>
    /\ window = "detected" => /\ state # None /\ ~Lacking(configuration, state)
                              /\ flow_findings = FindingsOf(configuration, Snapshot(state))
    /\ window = "raised" => /\ state # None /\ Lacking(configuration, state)
                            /\ flow_findings = <<>>

(* What the control detector observes is a number.                         *)
LEMMA ControlObserved ==
    ASSUME Held, state # None, state.identity.protocol = TCP, NEW metric \in ControlMetrics
    PROVE  LET counters == state.control.direction[metric.direction]
               carried == IF metric.flag = "syn_ack" THEN counters.syn_ack ELSE counters.flag[metric.flag]
           IN /\ ObservedControl(Snapshot(state).control, metric) = <<carried, 1>>
              /\ carried \in Nat
              /\ ObservedControl(Snapshot(state).control, metric) # None
<1>1. PICK c : c = state.control OBVIOUS
<1>2. c \in TCPControls BY <1>1 DEF Held, StateOf, ControlOf
<1>3. PICK k : k = c.direction[metric.direction] OBVIOUS
<1>4. k \in [packet_count : Nat, syn_ack : Nat, flag : [TCPFlags -> Nat]]
  BY <1>2, <1>3 DEF TCPControls, ControlMetrics
<1>5. PICK carried : carried = IF metric.flag = "syn_ack" THEN k.syn_ack ELSE k.flag[metric.flag] OBVIOUS
<1>6. carried \in Nat
  <2>1. metric.flag \in TCPFlags \cup {"syn_ack"} BY DEF ControlMetrics
  <2>2. CASE metric.flag = "syn_ack" BY <1>4, <1>5, <2>2
  <2>3. CASE metric.flag # "syn_ack"
    <3>1. metric.flag \in TCPFlags /\ k.flag \in [TCPFlags -> Nat] BY <1>4, <2>1, <2>3
    <3> QED BY <1>5, <2>3, <3>1
  <2> QED BY <2>2, <2>3
<1>7. Snapshot(state).control = c BY <1>1 DEF Snapshot
<1>8. ObservedControl(Snapshot(state).control, metric) = <<carried, 1>>
  BY <1>3, <1>5, <1>7 DEF ObservedControl
<1>9. <<carried, 1>> \in Int \X Int BY <1>6
<1>10. <<carried, 1>> # None BY <1>9, NothingAssumption
<1> QED BY <1>1, <1>3, <1>5, <1>6, <1>8, <1>10

(* The detectors raise at no window but one that lacks its detector.       *)
LEMMA RaisesWhenLacking ==
    ASSUME Held, state # None, configuration \in Configurations
    PROVE  /\ WindowRaises(state) <=> Lacking(configuration, state)
           /\ ~Lacking(configuration, state) =>
                ClosedFlowFindings(Snapshot(state)) = FindingsOf(configuration, Snapshot(state))
<1>1. ~SnapshotRefused(state) BY SnapshotAccepted
<1>2. PICK w : w = Snapshot(state) OBVIOUS
<1>3. w.identity = state.identity BY <1>2 DEF Snapshot
<1>4. PICK protocol : protocol = state.identity.protocol OBVIOUS
<1>5. w.identity.protocol = protocol BY <1>3, <1>4
<1>6. protocol \in {TCP, UDP} \cup ICMP BY <1>4, HeldProtocol
<1>7. TCP \notin ICMP /\ UDP \notin ICMP /\ TCP # UDP BY DEF TCP, UDP, ICMP
<1>8. VolumeEvaluation(w) = VolumeFinding(configuration, w)
  BY DEF VolumeEvaluation, VolumeFinding
<1>9. ControlEvaluation(w) = ControlFinding(configuration, w)
  BY DEF ControlEvaluation, ControlFinding
<1>10. FindingValid(VolumeFinding(configuration, w))
  BY DEF FindingValid, VolumeFinding, Evaluated
<1>11. ASSUME protocol = TCP, configuration.control # None
       PROVE  FindingValid(ControlFinding(configuration, w))
  <2>1. PICK c : c = configuration.control OBVIOUS
  <2>2. c \in ControlDetectors
    <3>1. configuration \in [volume : VolumeDetectors, control : ControlDetectors \cup {None}]
      BY ConfigurationsAssumption
    <3> QED BY <1>11, <2>1, <3>1
  <2>3. c.metric \in ControlMetrics BY <2>2 DEF ControlDetectors
  <2>4. PICK o : o = ObservedControl(w.control, c.metric) OBVIOUS
  <2>5. o # None BY <1>2, <1>4, <1>11, <2>3, <2>4, ControlObserved
  <2>6. Decision(o, c.threshold) # "not_evaluable" BY <2>5 DEF Decision
  <2>7. PICK e : e = ControlFinding(configuration, w) OBVIOUS
  <2>8. /\ e.family = "control" /\ e.decision = Decision(o, c.threshold)
        /\ e.interpretation = Interpretation("control", e.decision)
    BY <2>1, <2>4, <2>7 DEF ControlFinding, Evaluated
  <2> QED BY <2>6, <2>7, <2>8 DEF FindingValid
<1>12. CASE Lacking(configuration, state)
  <2>1. protocol = TCP /\ configuration.control = None BY <1>4, <1>12 DEF Lacking
  <2>2. ClosedFlowRaises(w) BY <1>5, <2>1 DEF ClosedFlowRaises
  <2> QED BY <1>2, <1>12, <2>2 DEF WindowRaises
<1>13. CASE ~Lacking(configuration, state)
  <2>1. ~(protocol = TCP /\ configuration.control = None) BY <1>4, <1>13 DEF Lacking
  <2>2. ~(w.identity.protocol \notin ICMP /\ ~VolumeDetectable(w))
    BY <1>5, <1>6 DEF VolumeDetectable
  <2>3. /\ ClosedFlowFindings(w) = FindingsOf(configuration, w)
        /\ \A i \in DOMAIN ClosedFlowFindings(w) : FindingValid(ClosedFlowFindings(w)[i])
    <3>1. CASE protocol \in ICMP
      <4>1. ClosedFlowFindings(w) = <<>> BY <1>5, <3>1 DEF ClosedFlowFindings, UDP, TCP, ICMP
      <4>2. FindingsOf(configuration, w) = <<>> BY <1>5, <1>7, <3>1 DEF FindingsOf
      <4> QED BY <4>1, <4>2
    <3>2. CASE protocol = UDP
      <4>1. ClosedFlowFindings(w) = <<VolumeFinding(configuration, w)>>
        BY <1>5, <1>8, <3>2 DEF ClosedFlowFindings, UDP, TCP, ICMP
      <4>2. FindingsOf(configuration, w) = <<VolumeFinding(configuration, w)>>
        BY <1>5, <3>2 DEF FindingsOf
      <4> QED BY <1>10, <4>1, <4>2
    <3>3. CASE protocol = TCP
      <4>1. configuration.control # None BY <2>1, <3>3
      <4>2. ClosedFlowFindings(w)
              = <<VolumeFinding(configuration, w), ControlFinding(configuration, w)>>
        BY <1>5, <1>8, <1>9, <3>3, <4>1 DEF ClosedFlowFindings, UDP, TCP, ICMP
      <4>3. FindingsOf(configuration, w)
              = <<VolumeFinding(configuration, w), ControlFinding(configuration, w)>>
        BY <1>5, <1>7, <3>3 DEF FindingsOf
      <4>4. FindingValid(ControlFinding(configuration, w)) BY <1>11, <3>3, <4>1
      <4>5. PICK a, b : a = VolumeFinding(configuration, w) /\ b = ControlFinding(configuration, w)
        OBVIOUS
      <4>6. FindingValid(a) /\ FindingValid(b) /\ ClosedFlowFindings(w) = <<a, b>>
        BY <1>10, <4>2, <4>4, <4>5
      <4>7. \A i \in DOMAIN <<a, b>> : FindingValid(<<a, b>>[i])
        <5>1. DOMAIN <<a, b>> = {1, 2} /\ <<a, b>>[1] = a /\ <<a, b>>[2] = b OBVIOUS
        <5> QED BY <4>6, <5>1
      <4> QED BY <4>2, <4>3, <4>6, <4>7
    <3> QED BY <1>6, <3>1, <3>2, <3>3
  <2>4. ~ClosedFlowRaises(w) BY <1>5, <2>1, <2>2, <2>3 DEF ClosedFlowRaises
  <2> QED BY <1>1, <1>2, <1>13, <2>3, <2>4 DEF WindowRaises
<1> QED BY <1>12, <1>13

LEMMA DetectingStarts == DetectionInit => Detecting
<1> SUFFICES ASSUME DetectionInit PROVE Detecting OBVIOUS
<1>1. Held BY HeldStarts DEF DetectionInit
<1> QED BY <1>1 DEF DetectionInit, Detecting

LEMMA DetectingNext == Detecting /\ [DetectionNext]_allVars => Detecting'
<1> SUFFICES ASSUME Detecting, [DetectionNext]_allVars PROVE Detecting' OBVIOUS
<1>1. [Next]_vars
  <2>1. CASE \E f \in Frames : DetectPacket(f) BY <2>1 DEF DetectPacket, Next
  <2>2. CASE DetectWindow BY <2>2 DEF DetectWindow
  <2>3. CASE DetectWindowRaises BY <2>3 DEF DetectWindowRaises
  <2>4. CASE UNCHANGED allVars BY <2>4 DEF allVars
  <2> QED BY <2>1, <2>2, <2>3, <2>4 DEF DetectionNext
<1>2. Held' BY <1>1, HeldNext DEF Detecting
<1>3. CASE \E f \in Frames : DetectPacket(f)
  <2>1. /\ window = "open" /\ window' = window /\ configuration' = configuration
        /\ flow_findings' = flow_findings
    BY <1>3 DEF DetectPacket
  <2> QED BY <1>2, <2>1 DEF Detecting
<1>4. CASE DetectWindow
  <2>1. /\ state # None /\ ~WindowRaises(state) /\ window' = "detected"
        /\ flow_findings' = ClosedFlowFindings(Snapshot(state))
        /\ state' = state /\ configuration' = configuration
    BY <1>4 DEF DetectWindow, vars
  <2>2. ~Lacking(configuration, state) BY <2>1, RaisesWhenLacking DEF Detecting
  <2>3. flow_findings' = FindingsOf(configuration, Snapshot(state))
    BY <2>1, <2>2, RaisesWhenLacking DEF Detecting
  <2>4. configuration' \in Configurations BY <2>1 DEF Detecting
  <2> QED BY <1>2, <2>1, <2>2, <2>3, <2>4 DEF Detecting
<1>5. CASE DetectWindowRaises
  <2>1. /\ state # None /\ WindowRaises(state) /\ window = "open" /\ window' = "raised"
        /\ flow_findings' = flow_findings
        /\ state' = state /\ configuration' = configuration
    BY <1>5 DEF DetectWindowRaises, vars
  <2>2. Lacking(configuration, state) BY <2>1, RaisesWhenLacking DEF Detecting
  <2>3. configuration' \in Configurations /\ flow_findings = <<>> BY <2>1 DEF Detecting
  <2> QED BY <1>2, <2>1, <2>2, <2>3 DEF Detecting
<1>6. CASE UNCHANGED allVars
  <2>1. /\ state' = state /\ configuration' = configuration /\ window' = window
        /\ flow_findings' = flow_findings
    BY <1>6 DEF allVars, vars
  <2> QED BY <1>2, <2>1 DEF Detecting
<1> QED BY <1>3, <1>4, <1>5, <1>6 DEF DetectionNext

(* Every window that a flow can reach is detected: no extractor refuses    *)
(* what was accumulated, and no check of a finding what the detectors      *)
(* found; only a TCP window in a session without a control detector raises *)
(* (flow_feature_snapshot.py, detector_orchestration.py).                  *)
THEOREM EveryWindow == DetectionSpec => []EveryWindowDetected
<1>1. ASSUME Detecting PROVE EveryWindowDetected
  <2> SUFFICES ASSUME window # "open"
               PROVE  IF Lacking(configuration, state) THEN window = "raised"
                      ELSE /\ window = "detected"
                           /\ [i \in DOMAIN flow_findings |-> flow_findings[i].family]
                                = CASE state.identity.protocol = TCP -> <<"volume", "control">>
                                    [] state.identity.protocol = UDP -> <<"volume">>
                                    [] OTHER -> <<>>
    BY DEF EveryWindowDetected, Lacking
  <2>1. CASE window = "raised" BY <1>1, <2>1 DEF Detecting
  <2>2. CASE window = "detected"
    <3>1. /\ ~Lacking(configuration, state)
          /\ flow_findings = FindingsOf(configuration, Snapshot(state))
      BY <1>1, <2>2 DEF Detecting
    <3>2. PICK w, a, b, p : /\ w = Snapshot(state) /\ a = VolumeFinding(configuration, w)
                            /\ b = ControlFinding(configuration, w)
                            /\ p = state.identity.protocol
      OBVIOUS
    <3>3. w.identity.protocol = p BY <3>2 DEF Snapshot
    <3>4. a.family = "volume" /\ b.family = "control"
      BY <3>2 DEF VolumeFinding, ControlFinding, Evaluated
    <3>5. flow_findings = IF p = UDP THEN <<a>> ELSE IF p = TCP THEN <<a, b>> ELSE <<>>
      BY <3>1, <3>2, <3>3 DEF FindingsOf
    <3>6. TCP # UDP BY DEF TCP, UDP
    <3>7. CASE p = UDP
      <4>1. flow_findings = <<a>> BY <3>5, <3>7
      <4>2. [i \in DOMAIN <<a>> |-> <<a>>[i].family] = <<"volume">> BY <3>4
      <4> QED BY <2>2, <3>1, <3>2, <3>6, <3>7, <4>1, <4>2
    <3>8. CASE p = TCP
      <4>1. flow_findings = <<a, b>> BY <3>5, <3>6, <3>8
      <4>2. [i \in DOMAIN <<a, b>> |-> <<a, b>>[i].family] = <<"volume", "control">>
        <5>1. DOMAIN <<a, b>> = {1, 2} /\ <<a, b>>[1] = a /\ <<a, b>>[2] = b OBVIOUS
        <5> QED BY <3>4, <5>1
      <4> QED BY <2>2, <3>1, <3>2, <3>6, <3>8, <4>1, <4>2
    <3>9. CASE p # UDP /\ p # TCP
      <4>1. flow_findings = <<>> BY <3>5, <3>9
      <4>2. [i \in DOMAIN flow_findings |-> flow_findings[i].family] = <<>> BY <4>1
      <4> QED BY <2>2, <3>1, <3>2, <3>9, <4>2
    <3> QED BY <3>7, <3>8, <3>9
  <2> QED BY <1>1, <2>1, <2>2 DEF Detecting
<1> QED BY <1>1, DetectingStarts, DetectingNext, PTL DEF DetectionSpec

-----------------------------------------------------------------------------
(* The decision of a detector on a fraction.                               *)
LEMMA DecisionOn ==
    ASSUME NEW n \in Int, NEW d \in Int, NEW threshold \in Int
    PROVE  /\ <<n, d>> # None
           /\ Decision(<<n, d>>, threshold) = IF n > threshold * d THEN "match" ELSE "no_match"
<1>1. <<n, d>> \in Int \X Int OBVIOUS
<1>2. <<n, d>> # None BY <1>1, NothingAssumption
<1>3. Exceeds(<<n, d>>, threshold) <=> n > threshold * d BY DEF Exceeds
<1>4. CASE n > threshold * d BY <1>2, <1>3, <1>4 DEF Decision
<1>5. CASE ~(n > threshold * d) BY <1>2, <1>3, <1>5 DEF Decision
<1> QED BY <1>2, <1>4, <1>5

LEMMA ElapsedIs ==
    ASSUME Held, state # None
    PROVE  Duration(state.flow) = Elapsed /\ Duration(state.flow) \in Int
<1>1. /\ state \in CoordinatedStates /\ accepted # <<>> /\ EndsOf(state.flow, accepted)
  BY DEF Held, StateOf, FlowOf
<1>2. state.flow.first = Time(1) /\ state.flow.last = Time(Len(accepted))
  BY <1>1 DEF EndsOf, Time
<1>3. state.flow.first \in Int /\ state.flow.last \in Int
  BY <1>1 DEF CoordinatedStates, FlowVolumes
<1> QED BY <1>2, <1>3 DEF Duration, Elapsed

(* What the volume detector decides.                                       *)
LEMMA VolumeDecided ==
    ASSUME Held, state # None, NEW detector \in VolumeDetectors,
           NEW c, c.volume = detector,
           NEW e, e = VolumeFinding(c, Snapshot(state))
    PROVE  /\ e.family = "volume" /\ e.detector = detector
           /\ detector.metric.of # "second" =>
                (e.decision = "match"
                   <=> Volume(detector.metric.part, detector.metric.of) > detector.threshold)
           /\ detector.metric.of = "second" =>
                e.decision = IF Elapsed = 0 THEN "not_evaluable"
                             ELSE IF Volume(detector.metric.part, "all")
                                       > detector.threshold * Elapsed
                             THEN "match" ELSE "no_match"
<1>1. PICK w, metric, threshold :
        w = Snapshot(state) /\ metric = detector.metric /\ threshold = detector.threshold
  OBVIOUS
<1>2. /\ metric \in VolumeMetrics /\ threshold \in Nat BY <1>1 DEF VolumeDetectors
<1>3. PICK part, of : part = metric.part /\ of = metric.of OBVIOUS
<1>4. part \in Parts /\ of \in Scopes \cup {"second"}
  BY <1>2, <1>3 DEF VolumeMetrics, Parts, Scopes, Directions
<1>5. PICK o : o = ObservedVolume(w, metric) OBVIOUS
<1>6. /\ e.family = "volume" /\ e.detector = detector /\ e.decision = Decision(o, threshold)
  BY <1>1, <1>5 DEF VolumeFinding, Evaluated
<1>7. state \in CoordinatedStates BY DEF Held
<1>8. \A scope \in Scopes : Volume(part, scope) = FeatureInput(state)[scope][part]
  BY <1>4, VolumeIs
<1>9. \A scope \in Scopes : FeatureInput(state)[scope][part] \in Int
  BY <1>4, <1>7, InputIs DEF Scopes
<1>10. ASSUME of # "second"
       PROVE  e.decision = "match" <=> Volume(part, of) > threshold
  <2>1. of \in Scopes BY <1>4, <1>10
  <2>2. w.volume.volume = FeatureInput(state) BY <1>1 DEF Snapshot, VolumeFeatures
  <2>3. o = <<FeatureInput(state)[of][part], 1>>
    BY <1>3, <1>5, <1>10, <2>2 DEF ObservedVolume
  <2>4. PICK v : v = Volume(part, of) OBVIOUS
  <2>5. o = <<v, 1>> /\ v \in Int BY <1>8, <1>9, <2>1, <2>3, <2>4
  <2>6. Decision(o, threshold) = IF v > threshold * 1 THEN "match" ELSE "no_match"
    BY <1>2, <2>5, DecisionOn
  <2>7. threshold * 1 = threshold BY <1>2
  <2> QED BY <1>6, <2>4, <2>6, <2>7
<1>11. ASSUME of = "second"
       PROVE  e.decision = IF Elapsed = 0 THEN "not_evaluable"
                           ELSE IF Volume(part, "all") > threshold * Elapsed
                           THEN "match" ELSE "no_match"
  <2>1. PICK r : r = RateFeatures(state.flow) OBVIOUS
  <2>2. w.rates = r BY <1>1, <2>1 DEF Snapshot
  <2>3. o = IF r = None THEN None ELSE r[part] BY <1>3, <1>5, <1>11, <2>2 DEF ObservedVolume
  <2>4. Duration(state.flow) = Elapsed /\ Elapsed \in Int BY ElapsedIs
  <2>5. CASE Elapsed = 0
    <3>1. o = None BY <2>1, <2>3, <2>4, <2>5 DEF RateFeatures
    <3>2. Decision(o, threshold) = "not_evaluable" BY <3>1 DEF Decision
    <3> QED BY <1>6, <2>5, <3>2
  <2>6. CASE Elapsed # 0
    <3>1. r = [p \in {"packet_count", "captured", "original"} |-> <<state.flow[p], Elapsed>>]
      BY <2>1, <2>4, <2>6 DEF RateFeatures
    <3>2. \A p \in Parts : state.flow[p] \in Int BY <1>7 DEF CoordinatedStates, FlowVolumes, Parts
    <3>3. r \in [Lengths \cup {"packet_count"} -> Int \X Int]
      BY <2>4, <3>1, <3>2 DEF Lengths, Parts
    <3>4. r # None BY <3>3, NothingAssumption
    <3>5. o = <<state.flow[part], Elapsed>> BY <1>4, <2>3, <3>1, <3>4 DEF Parts
    <3>6. state.flow[part] = Volume(part, "all") BY <1>4, <1>7, <1>8, InputIs DEF Scopes
    <3>7. PICK v, t : v = Volume(part, "all") /\ t = Elapsed OBVIOUS
    <3>8. o = <<v, t>> /\ v \in Int /\ t \in Int BY <1>4, <2>4, <3>2, <3>5, <3>6, <3>7
    <3>9. Decision(o, threshold) = IF v > threshold * t THEN "match" ELSE "no_match"
      BY <1>2, <3>8, DecisionOn
    <3> QED BY <1>6, <2>6, <3>7, <3>9
  <2> QED BY <2>5, <2>6
<1> QED BY <1>1, <1>3, <1>6, <1>10, <1>11

(* What the control detector decides.                                      *)
LEMMA ControlDecided ==
    ASSUME Held, state # None, state.identity.protocol = TCP,
           NEW detector \in ControlDetectors, NEW c, c.control = detector,
           NEW e, e = ControlFinding(c, Snapshot(state)), NEW flags
    PROVE  /\ e.family = "control" /\ e.detector = detector
           /\ flags = (IF detector.metric.flag = "syn_ack" THEN {"syn", "ack"}
                       ELSE {detector.metric.flag}) =>
                (e.decision = "match"
                   <=> Cardinality({j \in Toward(detector.metric.direction) :
                                      flags \subseteq accepted[j].transport.flags})
                         > detector.threshold)
<1> DEFINE Carried == IF detector.metric.flag = "syn_ack" THEN {"syn", "ack"}
                      ELSE {detector.metric.flag}
<1>1. PICK w, metric, threshold :
        w = Snapshot(state) /\ metric = detector.metric /\ threshold = detector.threshold
  OBVIOUS
<1>2. /\ metric \in ControlMetrics /\ threshold \in Nat BY <1>1 DEF ControlDetectors
<1>3. PICK d, flag : d = metric.direction /\ flag = metric.flag OBVIOUS
<1>4. d \in Directions /\ flag \in TCPFlags \cup {"syn_ack"} BY <1>2, <1>3 DEF ControlMetrics
<1>5. PICK o : o = ObservedControl(w.control, metric) OBVIOUS
<1>6. /\ e.family = "control" /\ e.detector = detector /\ e.decision = Decision(o, threshold)
  BY <1>1, <1>5 DEF ControlFinding, Evaluated
<1>7. PICK carried : carried = IF flag = "syn_ack" THEN state.control.direction[d].syn_ack
                         ELSE state.control.direction[d].flag[flag]
  OBVIOUS
<1>8. o = <<carried, 1>> /\ carried \in Nat BY <1>1, <1>2, <1>3, <1>5, <1>7, ControlObserved
<1>9. Decision(o, threshold) = IF carried > threshold * 1 THEN "match" ELSE "no_match"
  <2>1. carried \in Int /\ 1 \in Int /\ threshold \in Int BY <1>2, <1>8
  <2>2. Decision(<<carried, 1>>, threshold) = IF carried > threshold * 1 THEN "match" ELSE "no_match"
    BY <2>1, DecisionOn
  <2> QED BY <1>8, <2>2
<1>10. threshold * 1 = threshold BY <1>2
<1>11. ASSUME flags = Carried PROVE carried = Cardinality(Among(accepted, Carrying(d, flags)))
  <2>1. ControlOf(state.control, accepted) BY DEF Held, StateOf
  <2>2. /\ \A f \in TCPFlags :
             state.control.direction[d].flag[f] = Cardinality(Among(accepted, Carrying(d, {f})))
        /\ state.control.direction[d].syn_ack
             = Cardinality(Among(accepted, Carrying(d, {"syn", "ack"})))
    BY <1>4, <2>1 DEF ControlOf
  <2>3. CASE flag = "syn_ack"
    <3>1. flags = {"syn", "ack"} BY <1>1, <1>3, <1>11, <2>3
    <3> QED BY <1>7, <2>2, <2>3, <3>1
  <2>4. CASE flag # "syn_ack"
    <3>1. flags = {flag} /\ flag \in TCPFlags BY <1>1, <1>3, <1>4, <1>11, <2>4
    <3> QED BY <1>7, <2>2, <2>4, <3>1
  <2> QED BY <2>3, <2>4
<1>12. {j \in Toward(d) : flags \subseteq accepted[j].transport.flags}
         = Among(accepted, Carrying(d, flags))
  BY AmongAccepted DEF Toward, Among, Carrying, Packets
<1> QED BY <1>1, <1>3, <1>6, <1>9, <1>10, <1>11, <1>12

(* A closed window is decided by its packets: whether their sum, or their  *)
(* sum per second, exceeds the threshold of the volume detector, and       *)
(* whether more of them than the threshold of the control detector carry   *)
(* the flag (flow_volume_threshold.py, tcp_control_threshold.py).          *)
THEOREM Decisions == DetectionSpec => []DecisionsOfPackets
<1>1. ASSUME Detecting PROVE DecisionsOfPackets
  <2>1. CASE flow_findings = <<>> BY <2>1 DEF DecisionsOfPackets
  <2>2. CASE flow_findings # <<>>
    <3>1. /\ Held /\ state # None /\ ~Lacking(configuration, state)
          /\ flow_findings = FindingsOf(configuration, Snapshot(state))
          /\ configuration \in Configurations
      BY <1>1, <2>2 DEF Detecting
    <3>2. configuration \in [volume : VolumeDetectors, control : ControlDetectors \cup {None}]
      BY <3>1, ConfigurationsAssumption
    <3>3. PICK a, b : /\ a = VolumeFinding(configuration, Snapshot(state))
                      /\ b = ControlFinding(configuration, Snapshot(state))
      OBVIOUS
    <3>4. Snapshot(state).identity = state.identity BY DEF Snapshot
    <3>5. flow_findings = IF state.identity.protocol = UDP THEN <<a>>
                          ELSE IF state.identity.protocol = TCP THEN <<a, b>> ELSE <<>>
      BY <3>1, <3>3, <3>4 DEF FindingsOf
    <3>6. ASSUME NEW i \in DOMAIN flow_findings
          PROVE  \/ flow_findings[i] = a
                 \/ flow_findings[i] = b /\ state.identity.protocol = TCP
      <4>1. CASE flow_findings = <<a>>
        <5>1. DOMAIN <<a>> = {1} /\ <<a>>[1] = a OBVIOUS
        <5> QED BY <3>6, <4>1, <5>1
      <4>2. CASE flow_findings = <<a, b>> /\ state.identity.protocol = TCP
        <5>1. DOMAIN <<a, b>> = {1, 2} /\ <<a, b>>[1] = a /\ <<a, b>>[2] = b OBVIOUS
        <5> QED BY <3>6, <4>2, <5>1
      <4> QED BY <2>2, <3>5, <4>1, <4>2
    <3>7. PICK u : u = configuration.volume OBVIOUS
    <3>8. u \in VolumeDetectors BY <3>2, <3>7
    <3>9. /\ a.family = "volume" /\ a.detector = u
          /\ u.metric.of # "second" =>
               (a.decision = "match" <=> Volume(u.metric.part, u.metric.of) > u.threshold)
          /\ u.metric.of = "second" =>
               a.decision = IF Elapsed = 0 THEN "not_evaluable"
                            ELSE IF Volume(u.metric.part, "all") > u.threshold * Elapsed
                            THEN "match" ELSE "no_match"
      BY <3>1, <3>3, <3>7, <3>8, VolumeDecided
    <3>10. ASSUME state.identity.protocol = TCP,
                  NEW flags, flags = IF configuration.control.metric.flag = "syn_ack"
                                     THEN {"syn", "ack"} ELSE {configuration.control.metric.flag}
           PROVE  /\ b.family = "control" /\ b.detector = configuration.control
                  /\ b.decision = "match"
                       <=> Cardinality({j \in Toward(configuration.control.metric.direction) :
                                          flags \subseteq accepted[j].transport.flags})
                             > configuration.control.threshold
      <4>1. PICK k : k = configuration.control OBVIOUS
      <4>2. k \in ControlDetectors BY <3>1, <3>2, <3>10, <4>1 DEF Lacking
      <4>3. /\ b.family = "control" /\ b.detector = k
            /\ b.decision = "match"
                 <=> Cardinality({j \in Toward(k.metric.direction) :
                                    flags \subseteq accepted[j].transport.flags}) > k.threshold
        <5>1. state.identity.protocol = TCP BY <3>10
        <5>2. flags = (IF k.metric.flag = "syn_ack" THEN {"syn", "ack"} ELSE {k.metric.flag})
          BY <3>10, <4>1
        <5>3. b = ControlFinding(configuration, Snapshot(state)) /\ configuration.control = k
          BY <3>3, <4>1
        <5>4. /\ b.family = "control" /\ b.detector = k
              /\ flags = (IF k.metric.flag = "syn_ack" THEN {"syn", "ack"} ELSE {k.metric.flag}) =>
                   (b.decision = "match"
                      <=> Cardinality({j \in Toward(k.metric.direction) :
                                         flags \subseteq accepted[j].transport.flags})
                            > k.threshold)
          BY <3>1, <4>2, <5>1, <5>3, ControlDecided
        <5> QED BY <5>2, <5>4
      <4> QED BY <4>1, <4>3
    <3>11. ASSUME NEW i \in DOMAIN flow_findings
           PROVE  LET e == flow_findings[i]
                      metric == e.detector.metric
                  IN CASE e.family = "volume" /\ metric.of # "second" ->
                            (e.decision = "match")
                              <=> (Volume(metric.part, metric.of) > e.detector.threshold)
                       [] e.family = "volume" /\ metric.of = "second" ->
                            e.decision = IF Elapsed = 0 THEN "not_evaluable"
                                         ELSE IF Volume(metric.part, "all")
                                                   > e.detector.threshold * Elapsed
                                         THEN "match" ELSE "no_match"
                       [] e.family = "control" ->
                            LET flags == IF metric.flag = "syn_ack" THEN {"syn", "ack"}
                                         ELSE {metric.flag}
                            IN (e.decision = "match")
                                 <=> (Cardinality({j \in Toward(metric.direction) :
                                                     flags \subseteq accepted[j].transport.flags})
                                        > e.detector.threshold)
      <4>1. CASE flow_findings[i] = a
        <5>1. CASE u.metric.of # "second" BY <3>9, <4>1, <5>1
        <5>2. CASE u.metric.of = "second" BY <3>9, <4>1, <5>2
        <5> QED BY <5>1, <5>2
      <4>2. CASE flow_findings[i] = b /\ state.identity.protocol = TCP
        <5>1. PICK k, flags : /\ k = configuration.control
                              /\ flags = IF k.metric.flag = "syn_ack" THEN {"syn", "ack"}
                                         ELSE {k.metric.flag}
          OBVIOUS
        <5>2. /\ b.family = "control" /\ b.detector = k
              /\ b.decision = "match"
                   <=> Cardinality({j \in Toward(k.metric.direction) :
                                      flags \subseteq accepted[j].transport.flags}) > k.threshold
          BY <3>10, <4>2, <5>1
        <5> QED BY <4>2, <5>1, <5>2
      <4> QED BY <3>6, <4>1, <4>2
    <3> QED BY <3>11 DEF DecisionsOfPackets
  <2> QED BY <2>1, <2>2
<1> QED BY <1>1, DetectingStarts, DetectingNext, PTL DEF DetectionSpec

-----------------------------------------------------------------------------
Failures ==
    Decoding!UnsupportedMessages \cup Decoding!IncompleteMessages \cup Decoding!StructuralMessages

(* A check that fails is a failure.                                        *)
LEMMA FirstFails ==
    ASSUME NEW checks, 1 \in DOMAIN checks, DOMAIN checks \in SUBSET Nat,
           \A i \in DOMAIN checks : 1 <= i /\ checks[i][1] \in Failures, checks[1][2] = TRUE
    PROVE  Decoding!First(checks) # None
<1>1. PICK failing : failing = {i \in DOMAIN checks : checks[i][2]} OBVIOUS
<1>2. 1 \in failing BY <1>1, Zenon
<1>3. \A j \in failing : 1 <= j BY <1>1
<1>4. PICK i : i = CHOOSE k \in failing : \A j \in failing : k <= j OBVIOUS
<1>5. i \in failing BY <1>2, <1>3, <1>4
<1>6. Decoding!First(checks) = checks[i][1] BY <1>1, <1>2, <1>4 DEF Decoding!First
<1>7. checks[i][1] \in Failures BY <1>1, <1>5
<1> QED BY <1>6, <1>7, NoneAssumption DEF Failures

LEMMA EntryIs ==
    ASSUME NEW checks, NEW i, NEW m, NEW t, checks[i] = <<m, t>>
    PROVE  checks[i][1] = m /\ checks[i][2] = t
<1>1. PICK a : a = <<m, t>> OBVIOUS
<1>2. a[1] = m /\ a[2] = t BY <1>1
<1>3. checks[i] = a BY <1>1
<1> QED BY <1>2, <1>3

Named(check) == \E m \in Failures : \E b : check = <<m, b>>

Failing(t) == t = TRUE

LEMMA EntriesAre ==
    ASSUME NEW checks, NEW a, NEW b, NEW c, NEW d
    PROVE  /\ checks = <<a>> => DOMAIN checks = 1 .. 1 /\ checks[1] = a
           /\ checks = <<a, b>> => DOMAIN checks = 1 .. 2 /\ checks[1] = a /\ checks[2] = b
           /\ checks = <<a, b, c, d>> => /\ DOMAIN checks = 1 .. 4 /\ checks[1] = a
                                         /\ checks[2] = b /\ checks[3] = c /\ checks[4] = d
OBVIOUS

Fails(check) == \E m, t : check = <<m, t>> /\ Failing(t)

LEMMA FirstOfFails ==
    ASSUME NEW checks, Fails(checks[1]), 1 \in DOMAIN checks,
           \A i \in DOMAIN checks : i \in Nat /\ 1 <= i /\ Named(checks[i])
    PROVE  Decoding!First(checks) # None
<1>1. PICK m, t : checks[1] = <<m, t>> /\ Failing(t) BY DEF Fails
<1>2. checks[1][2] = t BY <1>1, EntryIs
<1>3. checks[1][2] = TRUE BY <1>1, <1>2, Zenon DEF Failing
<1>4. DOMAIN checks \in SUBSET Nat OBVIOUS
<1>5. \A i \in DOMAIN checks : checks[i][1] \in Failures
  <2>1. ASSUME NEW i \in DOMAIN checks PROVE checks[i][1] \in Failures
    <3>1. PICK name \in Failures : \E b : checks[i] = <<name, b>> BY DEF Named
    <3>2. checks[i][1] = name BY <3>1, EntryIs
    <3> QED BY <3>2
  <2> QED BY <2>1
<1>6. \A i \in DOMAIN checks : 1 <= i /\ checks[i][1] \in Failures BY <1>5
<1> QED BY <1>3, <1>4, <1>6, FirstFails

(* No frame without bytes decodes.                                         *)
LEMMA BytesThere ==
    ASSUME NEW f \in Frames, Decoding!Outcome(f) = "analyzed"
    PROVE  f.bytes \in Nat /\ f.bytes >= 1
<1>1. f.bytes \in Nat BY FieldsAssumption
<1>2. Decoding!DecodeFailure(f) = None BY DEF Decoding!Outcome, Decoding!Classification
<1>3. Decoding!First(Decoding!LinkChecks(f)) = None BY <1>2 DEF Decoding!DecodeFailure
<1>4. {"Ethernet frame too short", "VLAN tag too short", "VLAN tag depth", "raw IP too short",
       "raw IP version", "Linux cooked frame too short", "packet LinkType"} \subseteq Failures
  BY DEF Failures, Decoding!UnsupportedMessages, Decoding!IncompleteMessages
<1>5. ASSUME f.bytes < 1 PROVE Decoding!First(Decoding!LinkChecks(f)) # None
  <2>1. PICK t : Failing(t) BY DEF Failing
  <2>2. (f.bytes < 14) = t /\ (f.bytes < 1) = t /\ (f.bytes < 16) = t
    <3>1. (f.bytes < 14) = TRUE /\ (f.bytes < 1) = TRUE /\ (f.bytes < 16) = TRUE
      BY <1>1, <1>5
    <3> QED BY <2>1, <3>1, Zenon DEF Failing
  <2>3. CASE f.link = Decoding!Ethernet
    <3>1. PICK checks, b, c, d :
            /\ checks = << <<"Ethernet frame too short", t>>, <<"VLAN tag too short", b>>,
                           <<"VLAN tag too short", c>>, <<"VLAN tag depth", d>> >>
            /\ checks = Decoding!EthernetChecks(f)
      BY <2>2, Zenon DEF Decoding!EthernetChecks
    <3>2. /\ DOMAIN checks = 1 .. 4 /\ checks[1] = <<"Ethernet frame too short", t>>
          /\ checks[2] = <<"VLAN tag too short", b>> /\ checks[3] = <<"VLAN tag too short", c>>
          /\ checks[4] = <<"VLAN tag depth", d>>
      <4>1. PICK v, w, x, y :
              /\ v = <<"Ethernet frame too short", t>> /\ w = <<"VLAN tag too short", b>>
              /\ x = <<"VLAN tag too short", c>> /\ y = <<"VLAN tag depth", d>>
        OBVIOUS
      <4>2. checks = <<v, w, x, y>> BY <3>1, <4>1, Zenon
      <4> QED BY <4>1, <4>2, EntriesAre
    <3>3. ASSUME NEW i \in 1 .. 4 PROVE Named(checks[i])
      <4>1. i = 1 \/ i = 2 \/ i = 3 \/ i = 4 OBVIOUS
      <4> QED BY <1>4, <3>2, <4>1 DEF Named
    <3>4. Decoding!First(checks) # None
      <4>1. Fails(checks[1]) BY <2>1, <3>2 DEF Fails
      <4>2. 1 \in DOMAIN checks /\ \A i \in DOMAIN checks : i \in Nat /\ 1 <= i /\ Named(checks[i])
        <5>1. DOMAIN checks = 1 .. 4 BY <3>2, Zenon
        <5>2. 1 \in DOMAIN checks /\ \A i \in DOMAIN checks : i \in Nat /\ 1 <= i BY <5>1
        <5>3. \A i \in DOMAIN checks : Named(checks[i]) BY <3>2, <3>3, Zenon
        <5> QED BY <5>2, <5>3
      <4> QED BY <4>1, <4>2, FirstOfFails
    <3>5. f.link \notin {Decoding!RawIP, Decoding!LinuxCooked}
      BY <2>3 DEF Decoding!Ethernet, Decoding!RawIP, Decoding!LinuxCooked
    <3>6. Decoding!LinkChecks(f) = checks
      BY <2>3, <3>1, <3>5, Zenon DEF Decoding!LinkChecks
    <3> QED BY <3>4, <3>6
  <2>4. CASE f.link # Decoding!Ethernet /\ f.link \in {Decoding!RawIP, Decoding!LinuxCooked}
    <3>1. PICK checks : checks = Decoding!LinkLayerChecks(f) OBVIOUS
    <3>2. Decoding!LinkChecks(f) = checks BY <2>4, <3>1, Zenon DEF Decoding!LinkChecks
    <3>3. CASE f.link = Decoding!RawIP
      <4>1. PICK b : checks = << <<"raw IP too short", t>>, <<"raw IP version", b>> >>
        BY <2>2, <3>1, <3>3, Zenon DEF Decoding!LinkLayerChecks
      <4>2. /\ DOMAIN checks = 1 .. 2 /\ checks[1] = <<"raw IP too short", t>>
            /\ checks[2] = <<"raw IP version", b>>
        BY <4>1, EntriesAre
      <4>3. ASSUME NEW i \in 1 .. 2 PROVE Named(checks[i])
        <5>1. i = 1 \/ i = 2 OBVIOUS
        <5> QED BY <1>4, <4>2, <5>1 DEF Named
      <4>4. Fails(checks[1]) BY <2>1, <4>2 DEF Fails
      <4>5. 1 \in DOMAIN checks /\ \A i \in DOMAIN checks : i \in Nat /\ 1 <= i /\ Named(checks[i])
        <5>1. DOMAIN checks = 1 .. 2 BY <4>2, Zenon
        <5>2. 1 \in DOMAIN checks /\ \A i \in DOMAIN checks : i \in Nat /\ 1 <= i BY <5>1
        <5>3. \A i \in DOMAIN checks : Named(checks[i]) BY <4>2, <4>3, Zenon
        <5> QED BY <5>2, <5>3
      <4> QED BY <3>2, <4>4, <4>5, FirstOfFails
    <3>4. CASE f.link # Decoding!RawIP
      <4>1. checks = << <<"Linux cooked frame too short", t>> >>
        BY <2>2, <3>1, <3>4, Zenon DEF Decoding!LinkLayerChecks
      <4>2. DOMAIN checks = 1 .. 1 /\ checks[1] = <<"Linux cooked frame too short", t>>
        BY <4>1, EntriesAre
      <4>3. ASSUME NEW i \in 1 .. 1 PROVE Named(checks[i])
        <5>1. i = 1 OBVIOUS
        <5> QED BY <1>4, <4>2, <5>1 DEF Named
      <4>4. Fails(checks[1]) BY <2>1, <4>2 DEF Fails
      <4>5. 1 \in DOMAIN checks /\ \A i \in DOMAIN checks : i \in Nat /\ 1 <= i /\ Named(checks[i])
        <5>1. DOMAIN checks = 1 .. 1 BY <4>2, Zenon
        <5>2. 1 \in DOMAIN checks /\ \A i \in DOMAIN checks : i \in Nat /\ 1 <= i BY <5>1
        <5>3. \A i \in DOMAIN checks : Named(checks[i]) BY <4>2, <4>3, Zenon
        <5> QED BY <5>2, <5>3
      <4> QED BY <3>2, <4>4, <4>5, FirstOfFails
    <3> QED BY <3>3, <3>4
  <2>5. CASE f.link # Decoding!Ethernet /\ f.link \notin {Decoding!RawIP, Decoding!LinuxCooked}
    <3>1. PICK checks : checks = << <<"packet LinkType", t>> >> OBVIOUS
    <3>2. DOMAIN checks = 1 .. 1 /\ checks[1] = <<"packet LinkType", t>> BY <3>1, EntriesAre
    <3>3. Decoding!LinkChecks(f) = checks
      BY <2>1, <2>5, <3>1, Zenon DEF Decoding!LinkChecks, Failing
    <3>4. ASSUME NEW i \in 1 .. 1 PROVE Named(checks[i])
      <4>1. i = 1 OBVIOUS
      <4> QED BY <1>4, <3>2, <4>1 DEF Named
    <3>5. Fails(checks[1]) BY <2>1, <3>2 DEF Fails
    <3>6. 1 \in DOMAIN checks /\ \A i \in DOMAIN checks : i \in Nat /\ 1 <= i /\ Named(checks[i])
      <4>1. DOMAIN checks = 1 .. 1 BY <3>2, Zenon
      <4>2. 1 \in DOMAIN checks /\ \A i \in DOMAIN checks : i \in Nat /\ 1 <= i BY <4>1
      <4>3. \A i \in DOMAIN checks : Named(checks[i]) BY <3>2, <3>4, Zenon
      <4> QED BY <4>2, <4>3
    <3> QED BY <3>3, <3>5, <3>6, FirstOfFails
  <2> QED BY <2>3, <2>4, <2>5
<1> QED BY <1>1, <1>3, <1>5

LEMMA CapturedThere ==
    ASSUME NEW p \in Taken
    PROVE  p.observation["captured"] \in Int /\ p.observation["captured"] >= 1
<1>1. PICK f \in Analyzed : p = Decoding!Packet(f) BY DEF Taken
<1>2. f \in Frames /\ Decoding!Outcome(f) = "analyzed" BY DEF Analyzed
<1>3. f.bytes \in Nat /\ f.bytes >= 1 BY <1>2, BytesThere
<1>4. p.observation["captured"] = f.bytes BY <1>1 DEF Decoding!Packet, Decoding!Observation
<1> QED BY <1>3, <1>4

(* There is something of which a volume can be a share.                    *)
LEMMA WholesThere ==
    ASSUME Held, state # None, NEW part \in Parts
    PROVE  FeatureInput(state)["all"][part] \in Nat /\ FeatureInput(state)["all"][part] > 0
<1>1. /\ state \in CoordinatedStates /\ accepted \in Seq(Taken) /\ accepted # <<>>
      /\ ValuesValid(state) /\ CoordinatedValid(state) /\ StateOf(state, accepted)
  BY DEF Held
<1>2. PICK n, I : n = Len(accepted) /\ I = InScope("all") OBVIOUS
<1>3. n \in Nat /\ n >= 1 /\ I = 1 .. n
  BY <1>1, <1>2, LenProperties, EmptySeq DEF InScope, Packets
<1>4. Cardinality(I) = n /\ IsFiniteSet(I) BY <1>3, FS_Interval
<1>5. PICK a : a = FeatureInput(state)["all"] OBVIOUS
<1>6. \A p \in Parts : a[p] \in Nat /\ a[p] = Volume(p, "all")
  BY <1>1, <1>5, SharesValid, VolumeIs DEF Scopes
<1>7. a["packet_count"] > 0
  BY <1>2, <1>3, <1>4, <1>6 DEF Parts, Volume
<1>8. a["captured"] > 0
  <2>1. PICK g : g = LengthIn(accepted, "captured", I) OBVIOUS
  <2>2. \A i \in I : accepted[i] \in Taken BY <1>2, <1>3, AmongAccepted DEF InScope
  <2>3. \A i \in I : g[i] \in Int /\ 1 <= g[i] BY <2>1, <2>2, CapturedThere DEF LengthIn
  <2>4. \A i \in I : accepted[i].observation["captured"] \in Int BY <2>2, CapturedThere
  <2>5. g = [i \in I |-> accepted[i].observation["captured"]] BY <2>1 DEF LengthIn
  <2>6. Volume("captured", "all") = SumOf(g, I)
    <3>1. MapThenSumSet(LAMBDA i : Length(i, "captured"), I)
            = SumOf([i \in I |-> accepted[i].observation["captured"]], I)
      BY <1>4, <2>4, SumOfLength
    <3> QED BY <1>2, <2>5, <3>1 DEF Volume
  <2>7. PICK b : b = state.sizes["all"]["captured"] OBVIOUS
  <2>8. Summary(b, Indexed(g, I))
    <3>1. I = Among(accepted, Scope("all")) BY <1>2, AmongAccepted DEF Scopes
    <3>2. LengthsAt(accepted, "captured", I) = Indexed(g, I)
      BY <1>1, <1>2, <1>3, <2>1, LengthsIndexed DEF Lengths
    <3> QED BY <1>1, <2>7, <3>1, <3>2 DEF StateOf, SizesOf, Scopes, Lengths
  <2>9. b \in Samples /\ \A i \in I : g[i] <= b.greatest
    BY <1>3, <2>3, <2>8, SummaryAmounts
  <2>10. PICK high : high = b.greatest OBVIOUS
  <2>11. high \in Int /\ \A i \in I : g[i] <= high BY <2>9, <2>10 DEF Samples
  <2>12. PICK low \in Int : low = 1 OBVIOUS
  <2>13. \A i \in I : g[i] \in Int /\ low <= g[i] /\ g[i] <= high BY <2>3, <2>11, <2>12
  <2>14. I \in SUBSET (1 .. n) BY <1>3
  <2>15. low * Cardinality(I) <= SumOf(g, I) /\ SumOf(g, I) \in Int
    BY <1>3, <2>11, <2>13, <2>14, SumWithin
  <2> QED BY <1>3, <1>4, <1>6, <2>6, <2>12, <2>15 DEF Parts
<1>9. a["original"] > 0
  <2>1. ~FeatureInputRefuses(FeatureInput(state)) BY <1>1, VolumesAccepted
  <2>2. DOMAIN FeatureInput(state) = Scopes BY <1>1, InputIs
  <2>3. ~(a.original < a.captured) BY <1>5, <2>1, <2>2 DEF FeatureInputRefuses, Scopes
  <2> QED BY <1>6, <1>8, <2>3 DEF Parts
<1> QED BY <1>5, <1>6, <1>7, <1>8, <1>9 DEF Parts

-----------------------------------------------------------------------------
(* The sum of the squared differences between the packets of a scope.      *)
LEMMA SpreadOf ==
    ASSUME NEW l, NEW scope, IsFiniteSet(Couples(InScope(scope))),
           \A i \in InScope(scope) : accepted[i].observation[l] \in Int
    PROVE  Spread(l, scope)
             = SumOf([pair \in Couples(InScope(scope)) |->
                        (accepted[pair[1]].observation[l] - accepted[pair[2]].observation[l])
                          * (accepted[pair[1]].observation[l] - accepted[pair[2]].observation[l])],
                     Couples(InScope(scope)))
<1>1. PICK S : S = Couples(InScope(scope)) OBVIOUS
<1> DEFINE Square(p) == (accepted[p[1]].observation[l] - accepted[p[2]].observation[l])
                          * (accepted[p[1]].observation[l] - accepted[p[2]].observation[l])
           g == [pair \in S |-> Square(pair)]
<1>2. \A p \in S : Square(p) \in Int
  <2>1. ASSUME NEW p \in S PROVE Square(p) \in Int
    <3>1. p[1] \in InScope(scope) /\ p[2] \in InScope(scope) BY <1>1 DEF Couples
    <3>2. PICK x, y : x = accepted[p[1]].observation[l] /\ y = accepted[p[2]].observation[l]
      OBVIOUS
    <3>3. x \in Int /\ y \in Int BY <3>1, <3>2
    <3>4. (x - y) * (x - y) \in Int BY <3>3
    <3> QED BY <3>2, <3>4
  <2> QED BY <2>1
<1>3. \A i \in S : g[i] \in Int BY <1>2
<1>4. IsFiniteSet(S) BY <1>1
<1>5. PICK h \in [SUBSET S -> Int] : Sums(h, g, S)
  <2> HIDE DEF g
  <2> QED BY <1>3, <1>4, SumsExist
<1>6. \A s \in SUBSET S : s # {} => g[Pick(s)] = Square(Pick(s)) BY DEF Pick
<1>7. h = [s \in SUBSET S |-> IF s = {} THEN 0
                              ELSE Square(Pick(s)) + h[s \ {Pick(s)}]]
  <2> HIDE DEF Square
  <2> QED BY <1>5, <1>6 DEF Sums
<1> DEFINE Is(k) == k = [s \in SUBSET S |-> IF s = {} THEN 0
                                ELSE Square(Pick(s)) + k[s \ {Pick(s)}]]
           iter == CHOOSE k : Is(k)
<1>8. MapThenSumSet(LAMBDA pair : (Length(pair[1], l) - Length(pair[2], l))
                                    * (Length(pair[1], l) - Length(pair[2], l)), S) = iter[S]
  BY DEF MapThenSumSet, MapThenFoldSet, Pick, Length
<1>9. Is(iter)
  <2> HIDE DEF Is
  <2>1. Is(h) BY <1>7 DEF Is
  <2> QED BY <2>1, Zenon
<1>10. Sums(iter, g, S)
  <2> HIDE DEF iter, g, Square
  <2> QED BY <1>6, <1>9 DEF Sums
<1>11. SumOf(g, S) = iter[S]
  <2> HIDE DEF iter, g
  <2> QED BY <1>3, <1>4, <1>10, SumOfIs
<1>12. Spread(l, scope) = iter[S]
  <2>1. S = {pair \in InScope(scope) \X InScope(scope) : pair[1] < pair[2]}
    BY <1>1 DEF Couples
  <2>2. Spread(l, scope)
          = MapThenSumSet(LAMBDA pair : (Length(pair[1], l) - Length(pair[2], l))
                                          * (Length(pair[1], l) - Length(pair[2], l)), S)
    BY <2>1, Zenon DEF Spread
  <2> HIDE DEF iter
  <2> QED BY <1>8, <2>2
<1>13. g = [pair \in Couples(InScope(scope)) |->
              (accepted[pair[1]].observation[l] - accepted[pair[2]].observation[l])
                * (accepted[pair[1]].observation[l] - accepted[pair[2]].observation[l])]
  BY <1>1
<1> HIDE DEF iter, g
<1> QED BY <1>1, <1>11, <1>12, <1>13

(* The moments of the lengths of a scope describe its packets.             *)
LEMMA MomentsDescribe ==
    ASSUME Held, state # None, NEW scope \in Scopes, NEW l \in Lengths, InScope(scope) # {},
           NEW m, m = Moments(state.sizes[scope][l])
    PROVE  /\ m.variance[1] * Cardinality(InScope(scope)) * Cardinality(InScope(scope))
                = Spread(l, scope) * m.variance[2]
           /\ m.least * m.mean[2] <= m.mean[1] /\ m.mean[1] <= m.greatest * m.mean[2]
<1>1. /\ accepted \in Seq(Taken) /\ StateOf(state, accepted) BY DEF Held
<1>2. PICK n, I, g, a : /\ n = Len(accepted) /\ I = InScope(scope)
                        /\ g = LengthIn(accepted, l, I) /\ a = state.sizes[scope][l]
  OBVIOUS
<1>3. /\ n \in Nat /\ I = Among(accepted, Scope(scope)) /\ I \in SUBSET (1 .. n)
  BY <1>1, <1>2, AmongAccepted, AmongTyped
<1>4. /\ LengthsAt(accepted, l, I) = Indexed(g, I) /\ \A i \in I : g[i] \in Int
      /\ \A i \in I : g[i] = accepted[i].observation[l] /\ accepted[i].observation[l] \in Int
  BY <1>1, <1>2, <1>3, LengthsIndexed
<1>5. Summary(a, Indexed(g, I)) BY <1>1, <1>2, <1>3, <1>4 DEF StateOf, SizesOf
<1>6. PICK f : f = [p \in Couples(I) |->
                      (accepted[p[1]].observation[l] - accepted[p[2]].observation[l])
                        * (accepted[p[1]].observation[l] - accepted[p[2]].observation[l])]
  OBVIOUS
<1>7. \A p \in Couples(I) : f[p] = SquareOfDifference(g[p[1]], g[p[2]])
  <2>1. \A p \in Couples(I) : p[1] \in I /\ p[2] \in I BY DEF Couples
  <2> QED BY <1>4, <1>6, <2>1 DEF SquareOfDifference
<1>8. PICK t : t = SumOf(f, Couples(I)) OBVIOUS
<1>9. a.count * a.squares - a.total * a.total = t /\ t \in Nat
  BY <1>3, <1>4, <1>5, <1>7, <1>8, SummarySpread
<1>10. IsFiniteSet(I) /\ IsFiniteSet(Couples(I))
  <2>1. IsFiniteSet(1 .. n) BY <1>3, FS_Interval
  <2>2. IsFiniteSet(I) BY <1>3, <2>1, FS_Subset
  <2>3. IsFiniteSet(I \X I) BY <2>2, FS_Product
  <2>4. Couples(I) \subseteq I \X I BY DEF Couples
  <2> QED BY <2>2, <2>3, <2>4, FS_Subset
<1>11. Spread(l, scope) = t BY <1>2, <1>4, <1>6, <1>8, <1>10, SpreadOf
<1>12. /\ a \in Samples /\ a.count = Cardinality(I)
       /\ a.least * a.count <= a.total /\ a.total <= a.greatest * a.count
  BY <1>2, <1>3, <1>4, <1>5, SummaryAmounts
<1>13. a.count \in Nat /\ a.count # 0
  BY <1>2, <1>10, <1>12, FS_EmptySet, FS_CardinalityType
<1>14. PICK c, v : c = a.count /\ v = c * c OBVIOUS
<1>15. v # 0 /\ v \in Int /\ c \in Nat BY <1>13, <1>14
<1>16. m.variance = <<t, v>> /\ m.mean = <<a.total, c>> /\ m.least = a.least
       /\ m.greatest = a.greatest
  <2>1. m = Moments(a) BY <1>2
  <2>2. m.variance = Ratio(t, v) BY <1>9, <1>14, <2>1 DEF Moments
  <2>3. m.mean = Ratio(a.total, c) BY <1>14, <2>1 DEF Moments
  <2> QED BY <1>13, <1>14, <1>15, <2>1, <2>2, <2>3 DEF Ratio, Moments
<1>17. t * c * c = t * v BY <1>9, <1>14, <1>15
<1> QED BY <1>2, <1>11, <1>12, <1>14, <1>16, <1>17

-----------------------------------------------------------------------------
(* No packet of a flow is older than one before it.                        *)
LEMMA TimesRise ==
    ASSUME Held, state # None
    PROVE  \A i \in Packets, j \in Packets : i <= j => Time(i) \in Int /\ Time(j) \in Int
                                                       /\ Time(i) <= Time(j)
<1>1. /\ accepted \in Seq(Taken) /\ accepted # <<>> /\ StateOf(state, accepted)
      /\ ValuesValid(state)
  BY DEF Held
<1>2. PICK n, I, a : n = Len(accepted) /\ I = Packets /\ a = state.intervals.gaps OBVIOUS
<1>3. n \in Nat /\ n >= 1 /\ I = 1 .. n BY <1>1, <1>2, LenProperties, EmptySeq DEF Packets
<1>4. \A i \in I : Time(i) \in Int
  <2>1. \A i \in I : accepted[i] \in Taken BY <1>2, AmongAccepted
  <2> QED BY <2>1, TakenTyped DEF Time
<1>5. PICK J, g : J = I \ {Min(I)} /\ g = GapIn(accepted, I) OBVIOUS
<1>6. /\ J \in SUBSET (1 .. n) /\ GapsAt(accepted, I) = Indexed(g, J)
      /\ \A i \in J : /\ Max({j \in I : j < i}) \in I /\ Max({j \in I : j < i}) < i
                      /\ \A j \in I : j < i => j <= Max({m \in I : m < i})
                      /\ g[i] = accepted[i].observation.at
                                  - accepted[Max({j \in I : j < i})].observation.at
                      /\ g[i] \in Int
  <2>1. I \in SUBSET (1 .. Len(accepted)) BY <1>2, <1>3
  <2>2. /\ I \ {Min(I)} \in SUBSET (1 .. Len(accepted))
        /\ GapsAt(accepted, I) = Indexed(GapIn(accepted, I), I \ {Min(I)})
    BY <1>1, <2>1, GapsIndexed
  <2>3. ASSUME NEW i \in I \ {Min(I)}
        PROVE  /\ Max({j \in I : j < i}) \in I /\ Max({j \in I : j < i}) < i
               /\ \A j \in I : j < i => j <= Max({m \in I : m < i})
               /\ GapIn(accepted, I)[i] = accepted[i].observation.at
                                            - accepted[Max({j \in I : j < i})].observation.at
               /\ GapIn(accepted, I)[i] \in Int
    BY <1>1, <2>1, GapsIndexed
  <2> QED BY <1>2, <1>5, <2>2, <2>3
<1>7. Summary(a, Indexed(g, J))
  <2>1. I = Among(accepted, Taken) BY <1>2, AmongAccepted
  <2> QED BY <1>1, <1>2, <1>6, <2>1 DEF StateOf, IntervalsOf
<1>8. SamplesValid(a) /\ a \in Samples
  BY <1>1, <1>2, <1>3, <1>6, <1>7, SummaryAmounts DEF ValuesValid, IntervalsValid
<1>9. a.least >= 0 BY <1>8 DEF SamplesValid, Samples
<1>10. \A i \in J : g[i] >= 0
  <2>1. ASSUME NEW i \in J PROVE g[i] >= 0
    <3>1. a.least <= g[i] BY <1>3, <1>6, <1>7, <2>1, SummaryAmounts
    <3>2. g[i] \in Int /\ a.least \in Int BY <1>6, <1>8, <2>1 DEF Samples
    <3> QED BY <1>9, <3>1, <3>2
  <2> QED BY <2>1
<1>11. ASSUME NEW i \in 2 .. n PROVE Time(i - 1) <= Time(i)
  <2>1. Min(I) \in I /\ \A m \in I : Min(I) <= m
    <3>1. I \in SUBSET Nat /\ I # {} BY <1>3
    <3> QED BY <3>1, MinIs
  <2>2. i \in I /\ i - 1 \in I /\ 1 \in I BY <1>3
  <2>3. i \in J
    <3>1. PICK m : m = Min(I) OBVIOUS
    <3>2. m \in Int /\ m <= 1 BY <1>3, <2>1, <2>2, <3>1
    <3> QED BY <1>5, <2>2, <3>1, <3>2
  <2>4. PICK m : m = Max({j \in I : j < i}) OBVIOUS
  <2>5. /\ m \in I /\ m < i /\ \A j \in I : j < i => j <= m
        /\ g[i] = accepted[i].observation.at - accepted[m].observation.at
    BY <1>6, <2>3, <2>4
  <2>6. m = i - 1 BY <1>3, <2>2, <2>5
  <2>7. g[i] = Time(i) - Time(i - 1) BY <2>5, <2>6 DEF Time
  <2>8. Time(i) \in Int /\ Time(i - 1) \in Int BY <1>4, <2>2
  <2>9. g[i] >= 0 BY <1>10, <2>3
  <2> QED BY <2>7, <2>8, <2>9
<1>12. ASSUME NEW i \in 1 .. n PROVE \A j \in i .. n : Time(i) <= Time(j)
  <2> DEFINE S == {k \in Nat : i + k <= n => Time(i) <= Time(i + k)}
  <2>1. 0 \in S
    <3>1. i + 0 = i /\ Time(i) \in Int BY <1>3, <1>4
    <3> QED BY <3>1
  <2>2. ASSUME NEW k \in 1 .. n, k - 1 \in S PROVE k \in S
    <3>1. CASE i + k <= n
      <4>1. i + (k - 1) <= n /\ i + k \in 2 .. n /\ (i + k) - 1 = i + (k - 1)
        BY <1>3, <3>1
      <4>2. Time(i) <= Time(i + (k - 1)) BY <2>2, <4>1
      <4>3. PICK j : j = i + k OBVIOUS
      <4>4. j \in 2 .. n /\ j - 1 = i + (k - 1) BY <4>1, <4>3
      <4>5. Time(j - 1) <= Time(j) BY <1>11, <4>4
      <4>6. j \in I /\ j - 1 \in I /\ i \in I BY <1>3, <4>4
      <4>7. Time(j) \in Int /\ Time(j - 1) \in Int /\ Time(i) \in Int BY <1>4, <4>6
      <4>8. Time(i) <= Time(j) BY <4>2, <4>4, <4>5, <4>7
      <4> QED BY <4>3, <4>8
    <3>2. CASE ~(i + k <= n) BY <3>2
    <3> QED BY <3>1, <3>2
  <2>3. \A k \in 0 .. n : k \in S
    <3> HIDE DEF S
    <3> QED BY <1>3, <2>1, <2>2, Upwards
  <2>4. ASSUME NEW j \in i .. n PROVE Time(i) <= Time(j)
    <3>1. j - i \in 0 .. n /\ i + (j - i) = j /\ j <= n BY <1>3
    <3>2. j - i \in S BY <2>3, <3>1
    <3> QED BY <3>1, <3>2
  <2> QED BY <2>4
<1>13. ASSUME NEW i \in Packets, NEW j \in Packets, i <= j
       PROVE  Time(i) \in Int /\ Time(j) \in Int /\ Time(i) <= Time(j)
  <2>1. i \in I /\ j \in I /\ i \in 1 .. n /\ j \in i .. n BY <1>2, <1>3, <1>13
  <2> QED BY <1>4, <1>12, <2>1
<1> QED BY <1>13

(* Packets of one time have no intervals between them.                     *)
LEMMA NoIntervalInstant ==
    ASSUME Held, state # None, Elapsed = 0
    PROVE  state.intervals.gaps.greatest = 0
<1>1. /\ accepted \in Seq(Taken) /\ accepted # <<>> /\ StateOf(state, accepted)
      /\ ValuesValid(state)
  BY DEF Held
<1>2. PICK n, I, a : n = Len(accepted) /\ I = Packets /\ a = state.intervals.gaps OBVIOUS
<1>3. n \in Nat /\ n >= 1 /\ I = 1 .. n BY <1>1, <1>2, LenProperties, EmptySeq DEF Packets
<1>4. \A i \in I : Time(i) = Time(1)
  <2>1. ASSUME NEW i \in I PROVE Time(i) = Time(1)
    <3>1. 1 \in Packets /\ n \in Packets /\ i \in Packets /\ 1 <= i /\ i <= n BY <1>2, <1>3
    <3>2. /\ Time(i) \in Int /\ Time(1) \in Int /\ Time(n) \in Int
          /\ Time(1) <= Time(i) /\ Time(i) <= Time(n)
      BY <3>1, TimesRise
    <3>3. Time(n) - Time(1) = 0 BY <1>2 DEF Elapsed
    <3> QED BY <3>2, <3>3
  <2> QED BY <2>1
<1>5. PICK J, g : J = I \ {Min(I)} /\ g = GapIn(accepted, I) OBVIOUS
<1>6. /\ J \in SUBSET (1 .. n) /\ GapsAt(accepted, I) = Indexed(g, J)
      /\ \A i \in J : /\ Max({j \in I : j < i}) \in I
                      /\ g[i] = accepted[i].observation.at
                                  - accepted[Max({j \in I : j < i})].observation.at
                      /\ g[i] \in Int
  BY <1>1, <1>2, <1>3, <1>5, GapsIndexed
<1>7. \A i \in J : g[i] = 0
  <2>1. ASSUME NEW i \in J PROVE g[i] = 0
    <3>1. PICK m : m = Max({j \in I : j < i}) OBVIOUS
    <3>2. m \in I /\ g[i] = Time(i) - Time(m) BY <1>6, <2>1, <3>1 DEF Time
    <3>3. i \in I BY <1>5, <2>1
    <3>4. Time(i) = Time(1) /\ Time(m) = Time(1) BY <1>4, <3>2, <3>3
    <3>5. Time(1) \in Int
      <4>1. 1 \in Packets BY <1>2, <1>3
      <4> QED BY <4>1, TimesRise
    <3> QED BY <3>2, <3>4, <3>5
  <2> QED BY <2>1
<1>8. Summary(a, Indexed(g, J))
  <2>1. I = Among(accepted, Taken) BY <1>2, AmongAccepted
  <2> QED BY <1>1, <1>2, <1>6, <2>1 DEF StateOf, IntervalsOf
<1>9. /\ a.count = Cardinality(J)
      /\ J # {} => \E i \in J : g[i] = a.greatest
  <2>1. n \in Nat /\ J \in SUBSET (1 .. n) BY <1>3, <1>6
  <2>2. \A i \in J : g[i] \in Int BY <1>6
  <2> QED BY <1>8, <2>1, <2>2, SummaryAmounts
<1>10. CASE J = {}
  <2>1. a.count = 0 BY <1>9, <1>10, FS_EmptySet
  <2>2. a = NoSamples BY <1>1, <1>2, <2>1 DEF ValuesValid, IntervalsValid, SamplesValid
  <2> QED BY <1>2, <2>2 DEF NoSamples
<1>11. CASE J # {} BY <1>2, <1>7, <1>9, <1>11
<1> QED BY <1>10, <1>11

(* The shares of the directions add up to the whole.                       *)
LEMMA SharesAddUp ==
    ASSUME Held, state # None, NEW part \in Parts,
           NEW forward, forward = Snapshot(state).volume.share["forward"][part],
           NEW reverse, reverse = Snapshot(state).volume.share["reverse"][part]
    PROVE  forward[2] = reverse[2] /\ forward[1] + reverse[1] = forward[2]
<1>1. state \in CoordinatedStates /\ ValuesValid(state) /\ CoordinatedValid(state) BY DEF Held
<1>2. PICK i : i = FeatureInput(state) OBVIOUS
<1>3. /\ i["forward"][part] + i["reverse"][part] = i["all"][part]
  BY <1>1, <1>2, SharesValid
<1>4. i["all"][part] \in Nat /\ i["all"][part] > 0 BY <1>2, WholesThere
<1>5. i.all[part] = i["all"][part] /\ \A d \in Directions : DOMAIN i[d] = Parts
  BY <1>1, <1>2, InputIs DEF Scopes
<1>6. \A d \in Directions : Snapshot(state).volume.share[d][part] = Ratio(i[d][part], i.all[part])
  <2>1. Snapshot(state).volume = VolumeFeatures(i) BY <1>2 DEF Snapshot
  <2>2. \A d \in Directions :
          VolumeFeatures(i).share[d] = [p \in DOMAIN i[d] |-> Ratio(i[d][p], i.all[p])]
    BY DEF VolumeFeatures
  <2>3. ASSUME NEW d \in Directions
        PROVE  Snapshot(state).volume.share[d][part] = Ratio(i[d][part], i.all[part])
    <3>1. PICK s : s = Snapshot(state).volume.share[d] OBVIOUS
    <3>2. s = [p \in DOMAIN i[d] |-> Ratio(i[d][p], i.all[p])] BY <2>1, <2>2, <3>1
    <3>3. part \in DOMAIN i[d] BY <1>5
    <3> QED BY <3>1, <3>2, <3>3
  <2> QED BY <2>3
<1>7. PICK x, y, z : x = i["forward"][part] /\ y = i["reverse"][part] /\ z = i["all"][part]
  OBVIOUS
<1>8. forward = Ratio(x, z) /\ reverse = Ratio(y, z) BY <1>5, <1>6, <1>7 DEF Directions
<1>9. z # 0 BY <1>4, <1>7
<1>10. forward = <<x, z>> /\ reverse = <<y, z>> BY <1>8, <1>9 DEF Ratio
<1> QED BY <1>3, <1>7, <1>10

LEMMA HeldFeatures == Held => FeaturesOfPackets
<1> SUFFICES ASSUME Held, state # None PROVE FeaturesOfPackets BY DEF FeaturesOfPackets
<1>1. PICK w : w = Snapshot(state) OBVIOUS
<1>2. w.sizes = SizeFeatures(state.sizes) /\ w.volume = Snapshot(state).volume
      /\ w.intervals = Moments(state.intervals.gaps) /\ w.rates = RateFeatures(state.flow)
  BY <1>1 DEF Snapshot, IntervalFeatures
<1>3. \A l \in Lengths : w.sizes[l] = Moments(state.sizes["all"][l])
  BY <1>2 DEF SizeFeatures, Lengths
<1>4. \A d \in Directions : w.sizes[d] = Moments(state.sizes[d]["captured"])
  BY <1>2 DEF SizeFeatures, Directions
<1>5. ASSUME NEW m, NEW l \in Lengths, NEW scope \in Scopes,
             m = Moments(state.sizes[scope][l]), InScope(scope) # {}
      PROVE  /\ m.variance[1] * Cardinality(InScope(scope)) * Cardinality(InScope(scope))
                  = Spread(l, scope) * m.variance[2]
             /\ m.least * m.mean[2] <= m.mean[1] /\ m.mean[1] <= m.greatest * m.mean[2]
  BY <1>5, MomentsDescribe
<1>6. ASSUME NEW l \in Lengths, NEW m, m = w.sizes[l], InScope("all") # {}
      PROVE  /\ m.variance[1] * Cardinality(InScope("all")) * Cardinality(InScope("all"))
                  = Spread(l, "all") * m.variance[2]
             /\ m.least * m.mean[2] <= m.mean[1] /\ m.mean[1] <= m.greatest * m.mean[2]
  BY <1>3, <1>5, <1>6 DEF Scopes
<1>7. ASSUME NEW d \in Directions, NEW m, m = w.sizes[d], InScope(d) # {}
      PROVE  /\ m.variance[1] * Cardinality(InScope(d)) * Cardinality(InScope(d))
                  = Spread("captured", d) * m.variance[2]
             /\ m.least * m.mean[2] <= m.mean[1] /\ m.mean[1] <= m.greatest * m.mean[2]
  BY <1>4, <1>5, <1>7 DEF Scopes, Lengths
<1>8. \A part \in Parts : /\ w.volume.share["forward"][part][2] = w.volume.share["reverse"][part][2]
                          /\ w.volume.share["forward"][part][1] + w.volume.share["reverse"][part][1]
                               = w.volume.share["forward"][part][2]
  BY <1>1, SharesAddUp
<1>9. w.rates = None => w.intervals.greatest = 0
  <2>1. w.intervals.greatest = state.intervals.gaps.greatest BY <1>2 DEF Moments
  <2>2. Duration(state.flow) = Elapsed /\ Elapsed \in Int BY ElapsedIs
  <2>3. Elapsed # 0 => w.rates # None
    <3>1. SUFFICES ASSUME Elapsed # 0 PROVE w.rates # None OBVIOUS
    <3>2. PICK r : r = RateFeatures(state.flow) OBVIOUS
    <3>3. r = [p \in {"packet_count", "captured", "original"} |-> <<state.flow[p], Elapsed>>]
      BY <2>2, <3>1, <3>2 DEF RateFeatures
    <3>4. \A p \in Parts : state.flow[p] \in Int
      BY DEF Held, CoordinatedStates, FlowVolumes, Parts
    <3>5. r \in [Lengths \cup {"packet_count"} -> Int \X Int]
      BY <2>2, <3>3, <3>4 DEF Lengths, Parts
    <3> QED BY <1>2, <3>2, <3>5, NothingAssumption
  <2> QED BY <2>1, <2>3, NoIntervalInstant
<1>10. w.volume = Snapshot(state).volume BY <1>1
<1> QED BY <1>1, <1>6, <1>7, <1>8, <1>9 DEF FeaturesOfPackets, Parts

(* The features of a window are those of its packets: the variances, taken *)
(* from sums of squares, are those of the differences between the packets, *)
(* the shares of the directions add up to the whole, and only packets of   *)
(* one time have no rates (packet_size_features.py,                        *)
(* flow_volume_features.py, flow_rate_features.py).                        *)
THEOREM Features == DetectionSpec => []FeaturesOfPackets
<1>1. Detecting => FeaturesOfPackets BY HeldFeatures DEF Detecting
<1> QED BY <1>1, DetectingStarts, DetectingNext, PTL DEF DetectionSpec
=============================================================================
