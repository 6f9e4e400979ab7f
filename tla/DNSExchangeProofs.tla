--------------------------- MODULE DNSExchangeProofs ---------------------------
(***************************************************************************)
(* Proofs about the DNS correlation of a window, for every set of          *)
(* identifiers and contents, every size of the pending table and every     *)
(* exchange.  First the module itself; then that its pending table keeps   *)
(* exactly what the sequence of messages implies: the statistics of a      *)
(* window and the requests its matches name are those of DNSExchange.      *)
(***************************************************************************)
EXTENDS DNSExchange, SequenceTheorems, FiniteSetTheorems, TLAPS

KeyOf(s, o) == Key(s[o.message])

(* A correlation state on its own: typed, conserving, bounded, with one      *)
(* entry per key, all of them messages of the window.                        *)
Sound(d) ==
    /\ d \in States
    /\ d.stats["messages"] + Len(d.requests) = Len(d.seen)
    /\ Len(d.requests) <= MaxPending
    /\ d.unavailable => d.requests = <<>>
    /\ \A i \in DOMAIN d.requests : d.requests[i].message \in 1 .. Len(d.seen)
    /\ \A i, j \in DOMAIN d.requests :
           KeyOf(d.seen, d.requests[i]) = KeyOf(d.seen, d.requests[j]) => i = j

DNSInv ==
    /\ arriving \in Seq(SUBSET Messages)
    /\ closed \in BOOLEAN
    /\ \A d \in Live : Sound(d)
    /\ \A d, e \in candidate : d = e
    /\ closed => state.requests = <<>> /\ candidate = {}

-----------------------------------------------------------------------------
(* Counting in a batch.                                                      *)
LEMMA Finite ==
    ASSUME NEW obs \in Seq(Observations), NEW I \in SUBSET (DOMAIN obs)
    PROVE  IsFiniteSet(I) /\ Cardinality(I) \in Nat
<1>1. DOMAIN obs = 1 .. Len(obs) /\ Len(obs) \in Nat
  BY LenProperties
<1>2. IsFiniteSet(1 .. Len(obs))
  BY <1>1, FS_Interval
<1> QED BY <1>1, <1>2, FS_Subset, FS_CardinalityType

LEMMA FoldedType ==
    ASSUME NEW stats \in [Counters -> Nat], NEW obs \in Seq(Observations)
    PROVE  Folded(stats, obs) \in [Counters -> Nat]
<1> SUFFICES ASSUME NEW c \in Counters PROVE Folded(stats, obs)[c] \in Nat
  BY DEF Folded
<1> DEFINE with(s) == {i \in DOMAIN obs : obs[i].status = s}
<1>1. Cardinality(with(c)) \in Nat
  BY Finite
<1>2. Cardinality(with("MATCHED")) \in Nat
  BY Finite
<1>3. Cardinality(Counted(obs)) \in Nat
  BY Finite DEF Counted
<1>4. stats[c] \in Nat
  OBVIOUS
<1> HIDE DEF with
<1>5. Folded(stats, obs)[c] = IF c = "messages" THEN stats[c] + Cardinality(Counted(obs)) + Cardinality(with("MATCHED"))
                              ELSE stats[c] + Cardinality(with(c))
  BY DEF Folded, with
<1> QED BY <1>1, <1>2, <1>3, <1>4, <1>5

LEMMA FoldedSingle ==
    ASSUME NEW stats \in [Counters -> Nat], NEW o \in Observations
    PROVE  /\ Folded(stats, <<o>>)["messages"] =
                  stats["messages"] + (IF o.status = "PENDING" THEN 0
                                       ELSE IF o.status = "MATCHED" THEN 2 ELSE 1)
           /\ \A c \in Counters \ {"messages"} :
                  c # o.status => Folded(stats, <<o>>)[c] = stats[c]
<1> DEFINE with(s) == {i \in DOMAIN <<o>> : <<o>>[i].status = s}
<1>0. DOMAIN <<o>> = {1} /\ <<o>>[1] = o
  OBVIOUS
<1>1. \A s : with(s) = IF o.status = s THEN {1} ELSE {}
  BY <1>0
<1>2. Counted(<<o>>) = IF o.status = "PENDING" THEN {} ELSE {1}
  BY <1>0 DEF Counted
<1>3. Cardinality({1}) = 1 /\ Cardinality({}) = 0
  BY FS_Singleton, FS_EmptySet
<1>4. "messages" \in Counters /\ stats["messages"] \in Nat
  BY DEF Counters
<1> HIDE DEF with
<1>5. Folded(stats, <<o>>)["messages"] = stats["messages"] + Cardinality(Counted(<<o>>)) + Cardinality(with("MATCHED"))
  BY <1>4 DEF Folded, with
<1>6. ASSUME NEW c \in Counters \ {"messages"}, c # o.status
      PROVE  Folded(stats, <<o>>)[c] = stats[c]
  <2>1. Folded(stats, <<o>>)[c] = stats[c] + Cardinality(with(c))
    BY DEF Folded, with
  <2>2. with(c) = {}
    BY <1>1, <1>6
  <2>3. stats[c] \in Nat
    OBVIOUS
  <2> QED BY <1>3, <2>1, <2>2, <2>3
<1>7. Cardinality(with("MATCHED")) = IF o.status = "MATCHED" THEN 1 ELSE 0
  BY <1>1, <1>3
<1>8. Cardinality(Counted(<<o>>)) = IF o.status = "PENDING" THEN 0 ELSE 1
  BY <1>2, <1>3
<1>9. Folded(stats, <<o>>)["messages"] =
          stats["messages"] + (IF o.status = "PENDING" THEN 0
                               ELSE IF o.status = "MATCHED" THEN 2 ELSE 1)
  BY <1>4, <1>5, <1>7, <1>8
<1> QED BY <1>6, <1>9

LEMMA FoldedUnresolved ==
    ASSUME NEW stats \in [Counters -> Nat], NEW obs \in Seq(Observations),
           \A i \in DOMAIN obs : obs[i].status = "UNRESOLVED"
    PROVE  Folded(stats, obs)["messages"] = stats["messages"] + Len(obs)
<1> DEFINE matched == {i \in DOMAIN obs : obs[i].status = "MATCHED"}
<1>1. Counted(obs) = 1 .. Len(obs) /\ Len(obs) \in Nat
  BY LenProperties DEF Counted
<1>2. matched = {}
  OBVIOUS
<1>3. Cardinality(Counted(obs)) = Len(obs)
  <2>1. ASSUME NEW n \in Nat PROVE Cardinality(1 .. n) = n
    BY FS_Interval
  <2> QED BY <1>1, <2>1
<1>4. Cardinality(matched) = 0
  BY <1>2, FS_EmptySet
<1>5. "messages" \in Counters /\ stats["messages"] \in Nat
  BY DEF Counters
<1> QED BY <1>1, <1>3, <1>4, <1>5 DEF Folded

LEMMA MarkedType ==
    ASSUME NEW s \in Seq(Observations), NEW status \in Terminal,
           NEW reason \in {"none", "LIMIT_EXCEEDED", "FLOW_CLOSED"}
    PROVE  /\ Marked(s, status, reason) \in Seq(Observations)
           /\ Len(Marked(s, status, reason)) = Len(s)
           /\ \A i \in 1 .. Len(s) : Marked(s, status, reason)[i].status = status
<1>1. DOMAIN s = 1 .. Len(s) /\ Len(s) \in Nat
  BY LenProperties
<1>2. ASSUME NEW i \in 1 .. Len(s)
      PROVE  WithStatus(s[i], status, reason) \in Observations
  <2>1. s[i] \in Observations
    BY ElementOfSeq
  <2>2. s[i].message \in Nat \ {0} /\ s[i].request \in Nat
    BY <2>1 DEF Observations
  <2> QED BY <2>2 DEF WithStatus, Observations
<1>3. Marked(s, status, reason) \in [1 .. Len(s) -> Observations]
  BY <1>1, <1>2 DEF Marked
<1>4. Marked(s, status, reason) \in Seq(Observations)
  BY <1>1, <1>3, SeqDef
<1>5. Len(Marked(s, status, reason)) = Len(s)
  BY <1>1, <1>3, <1>4, LenProperties
<1>6. ASSUME NEW i \in 1 .. Len(s)
      PROVE  Marked(s, status, reason)[i].status = status
  BY <1>1 DEF Marked, WithStatus
<1> QED BY <1>4, <1>5, <1>6

LEMMA WithoutProperties ==
    ASSUME NEW S, NEW s \in Seq(S), NEW i \in 1 .. Len(s)
    PROVE  /\ Without(s, i) \in Seq(S)
           /\ Len(Without(s, i)) = Len(s) - 1
           /\ \A j \in 1 .. Len(s) - 1 :
                  Without(s, i)[j] = IF j < i THEN s[j] ELSE s[j + 1]
<1>1. Len(s) \in Nat /\ Len(s) - 1 \in Nat
  BY LenProperties
<1>2. ASSUME NEW j \in 1 .. Len(s) - 1
      PROVE  (IF j < i THEN s[j] ELSE s[j + 1]) \in S
  <2>1. j \in 1 .. Len(s) /\ j + 1 \in 1 .. Len(s) BY <1>1
  <2> QED BY <2>1, ElementOfSeq
<1>3. Without(s, i) \in [1 .. Len(s) - 1 -> S]
  BY <1>2 DEF Without
<1>4. Without(s, i) \in Seq(S)
  BY <1>1, <1>3, SeqDef
<1>5. Len(Without(s, i)) = Len(s) - 1
  BY <1>1, <1>3, <1>4, LenProperties
<1> QED BY <1>4, <1>5 DEF Without

-----------------------------------------------------------------------------
(* One message.                                                              *)
LEMMA Fields ==
    ASSUME NEW d, Sound(d)
    PROVE  /\ d.requests \in Seq(Observations)
           /\ d.observations \in Seq(Observations)
           /\ d.unavailable \in BOOLEAN
           /\ d.stats \in [Counters -> Nat]
           /\ d.stats["messages"] \in Nat
           /\ d.seen \in Seq(Messages)
           /\ Len(d.seen) \in Nat
           /\ Len(d.requests) \in Nat
           /\ DOMAIN d.requests = 1 .. Len(d.requests)
<1>1. /\ d.requests \in Seq(Observations)
      /\ d.observations \in Seq(Observations)
      /\ d.unavailable \in BOOLEAN
      /\ d.stats \in [Counters -> Nat]
      /\ d.seen \in Seq(Messages)
  BY DEF Sound, States
<1>2. d.stats["messages"] \in Nat
  BY <1>1 DEF Counters
<1> QED BY <1>1, <1>2, LenProperties

LEMMA ObservationType ==
    ASSUME NEW d, Sound(d), NEW status \in Terminal \cup {"PENDING"}, NEW request \in Nat,
           NEW reason \in {"none", "LIMIT_EXCEEDED", "FLOW_CLOSED"}
    PROVE  /\ Observation(d, status, request, reason) \in Observations
           /\ Observation(d, status, request, reason).status = status
           /\ Observation(d, status, request, reason).message = Len(d.seen) + 1
<1>1. Len(d.seen) + 1 \in Nat \ {0}
  BY Fields
<1> QED BY <1>1 DEF Observation, Observations

(* What an action must know of its new table for the candidate to stay sound. *)
Grows(d, m, requests) ==
    /\ requests \in Seq(Observations)
    /\ Len(requests) <= MaxPending
    /\ \A i \in DOMAIN requests : requests[i].message \in 1 .. Len(d.seen) + 1
    /\ \A i, j \in DOMAIN requests :
           KeyOf(Append(d.seen, m), requests[i]) = KeyOf(Append(d.seen, m), requests[j]) => i = j

LEMMA UpdateSound ==
    ASSUME NEW d, Sound(d), NEW m \in Messages, NEW requests, Grows(d, m, requests),
           NEW obs \in Seq(Observations), NEW unavailable \in BOOLEAN,
           unavailable => requests = <<>>,
           Folded(d.stats, obs)["messages"] + Len(requests) = Len(d.seen) + 1,
           Update(d, m, requests, obs, unavailable)
    PROVE  \E e : candidate' = {e} /\ Sound(e)
<1> DEFINE e == [requests |-> requests, observations |-> obs, unavailable |-> unavailable,
                 stats |-> Folded(d.stats, obs), seen |-> Append(d.seen, m)]
<1>1. candidate' = {e}
  BY DEF Update
<1>2. /\ e.requests = requests
      /\ e.unavailable = unavailable
      /\ e.stats = Folded(d.stats, obs)
      /\ e.seen = Append(d.seen, m)
  OBVIOUS
<1>3. /\ Append(d.seen, m) \in Seq(Messages)
      /\ Len(Append(d.seen, m)) = Len(d.seen) + 1
  BY Fields, AppendProperties
<1>4. Folded(d.stats, obs) \in [Counters -> Nat]
  BY Fields, FoldedType
<1>5. e \in States
  BY <1>3, <1>4 DEF States, Grows
<1> HIDE DEF e
<1>6. Sound(e)
  BY <1>2, <1>3, <1>5 DEF Sound, Grows
<1> QED BY <1>1, <1>6

LEMMA Extended ==
    ASSUME NEW d, Sound(d), NEW m \in Messages
    PROVE  /\ Append(d.seen, m)[Len(d.seen) + 1] = m
           /\ \A i \in DOMAIN d.requests :
                  KeyOf(Append(d.seen, m), d.requests[i]) = KeyOf(d.seen, d.requests[i])
<1>1. /\ \A i \in 1 .. Len(d.seen) : Append(d.seen, m)[i] = d.seen[i]
      /\ Append(d.seen, m)[Len(d.seen) + 1] = m
  BY Fields, AppendProperties
<1>2. \A i \in DOMAIN d.requests : d.requests[i].message \in 1 .. Len(d.seen)
  BY DEF Sound
<1> QED BY <1>1, <1>2 DEF KeyOf

(* The table as it was, with one entry's status changed, and with one entry  *)
(* taken out.                                                                *)
LEMMA KeptGrows ==
    ASSUME NEW d, Sound(d), NEW m \in Messages
    PROVE  Grows(d, m, d.requests)
<1>1. \A i \in DOMAIN d.requests : d.requests[i].message \in 1 .. Len(d.seen) + 1
  BY Fields DEF Sound
<1>2. ASSUME NEW i \in DOMAIN d.requests, NEW j \in DOMAIN d.requests,
             KeyOf(Append(d.seen, m), d.requests[i]) = KeyOf(Append(d.seen, m), d.requests[j])
      PROVE  i = j
  <2>1. KeyOf(d.seen, d.requests[i]) = KeyOf(d.seen, d.requests[j])
    BY <1>2, Extended
  <2> QED BY <2>1 DEF Sound
<1>3. d.requests \in Seq(Observations) /\ Len(d.requests) <= MaxPending
  BY Fields DEF Sound
<1> QED BY <1>1, <1>2, <1>3 DEF Grows

LEMMA RemarkedGrows ==
    ASSUME NEW d, Sound(d), NEW m \in Messages, NEW i \in DOMAIN d.requests
    PROVE  LET requests == [d.requests EXCEPT ![i] = WithStatus(@, "AMBIGUOUS", "none")]
           IN Grows(d, m, requests) /\ Len(requests) = Len(d.requests)
<1> DEFINE o == WithStatus(d.requests[i], "AMBIGUOUS", "none")
           requests == [d.requests EXCEPT ![i] = o]
<1>1. d.requests[i] \in Observations
  BY Fields, ElementOfSeq
<1>2. o \in Observations /\ o.message = d.requests[i].message
  BY <1>1 DEF WithStatus, Observations, Terminal
<1> HIDE DEF o
<1>3. /\ requests \in Seq(Observations)
      /\ Len(requests) = Len(d.requests)
      /\ \A j \in 1 .. Len(d.requests) : requests[j] = IF j = i THEN o ELSE d.requests[j]
  BY <1>2, Fields, ExceptSeq
<1> HIDE DEF requests
<1>4. DOMAIN requests = DOMAIN d.requests
  BY <1>3, Fields, LenProperties
<1>5. \A j \in DOMAIN requests : requests[j].message = d.requests[j].message
  BY <1>2, <1>3, <1>4, Fields
<1>6. ASSUME NEW j \in DOMAIN requests
      PROVE  KeyOf(Append(d.seen, m), requests[j]) = KeyOf(Append(d.seen, m), d.requests[j])
  BY <1>5 DEF KeyOf
<1>7. Grows(d, m, d.requests)
  BY KeptGrows
<1>8. \A j \in DOMAIN requests : requests[j].message \in 1 .. Len(d.seen) + 1
  BY <1>4, <1>5, <1>7 DEF Grows
<1>9. ASSUME NEW j \in DOMAIN requests, NEW k \in DOMAIN requests,
             KeyOf(Append(d.seen, m), requests[j]) = KeyOf(Append(d.seen, m), requests[k])
      PROVE  j = k
  BY <1>4, <1>6, <1>7, <1>9 DEF Grows
<1>10. Grows(d, m, requests)
  BY <1>3, <1>7, <1>8, <1>9 DEF Grows
<1> QED BY <1>3, <1>10 DEF requests, o

LEMMA WithoutGrows ==
    ASSUME NEW d, Sound(d), NEW m \in Messages, NEW i \in DOMAIN d.requests
    PROVE  Grows(d, m, Without(d.requests, i)) /\ Len(Without(d.requests, i)) = Len(d.requests) - 1
<1> DEFINE requests == Without(d.requests, i)
           old(j) == IF j < i THEN j ELSE j + 1
<1>0. /\ d.requests \in Seq(Observations)
      /\ Len(d.requests) \in Nat
      /\ DOMAIN d.requests = 1 .. Len(d.requests)
      /\ i \in 1 .. Len(d.requests)
  BY Fields
<1>1. /\ requests \in Seq(Observations)
      /\ Len(requests) = Len(d.requests) - 1
      /\ \A j \in 1 .. Len(d.requests) - 1 :
             requests[j] = IF j < i THEN d.requests[j] ELSE d.requests[j + 1]
  BY <1>0, WithoutProperties
<1> HIDE DEF requests
<1>3. DOMAIN requests = 1 .. Len(d.requests) - 1
  BY <1>1, LenProperties
<1>4. ASSUME NEW j \in DOMAIN requests
      PROVE  old(j) \in DOMAIN d.requests /\ requests[j] = d.requests[old(j)]
  BY <1>0, <1>1, <1>3
<1>5. \A j, k \in DOMAIN requests : old(j) = old(k) => j = k
  BY <1>0, <1>3
<1> HIDE DEF old
<1>6. \A j \in DOMAIN requests : requests[j].message \in 1 .. Len(d.seen) + 1
  BY <1>4, KeptGrows DEF Grows
<1>7. ASSUME NEW j \in DOMAIN requests, NEW k \in DOMAIN requests,
             KeyOf(Append(d.seen, m), requests[j]) = KeyOf(Append(d.seen, m), requests[k])
      PROVE  j = k
  <2>1. old(j) = old(k) BY <1>4, <1>7, KeptGrows DEF Grows
  <2> QED BY <1>5, <2>1
<1>8. Len(requests) <= MaxPending
  BY <1>0, <1>1, MaxPendingAssumption DEF Sound
<1>9. Grows(d, m, requests)
  BY <1>1, <1>6, <1>7, <1>8 DEF Grows
<1> QED BY <1>1, <1>9 DEF requests

LEMMA AppendedGrows ==
    ASSUME NEW d, Sound(d), NEW m \in Messages, NEW o \in Observations,
           o.message = Len(d.seen) + 1, Held(d, m) = {}, Len(d.requests) # MaxPending
    PROVE  Grows(d, m, Append(d.requests, o)) /\ Len(Append(d.requests, o)) = Len(d.requests) + 1
<1> DEFINE requests == Append(d.requests, o)
           seen == Append(d.seen, m)
           n == Len(d.requests)
<1>0. n \in Nat /\ DOMAIN d.requests = 1 .. n /\ Len(d.seen) \in Nat
  BY Fields
<1>1. /\ requests \in Seq(Observations)
      /\ Len(requests) = n + 1
      /\ \A i \in 1 .. n : requests[i] = d.requests[i]
      /\ requests[n + 1] = o
  BY Fields, AppendProperties
<1> HIDE DEF requests
<1>2. DOMAIN requests = 1 .. n + 1
  BY <1>1, LenProperties
<1>3. Len(requests) <= MaxPending
  BY <1>0, <1>1, MaxPendingAssumption DEF Sound
<1>4. Grows(d, m, d.requests)
  BY KeptGrows
<1>5. \A i \in DOMAIN requests : requests[i].message \in 1 .. Len(d.seen) + 1
  <2>1. ASSUME NEW i \in 1 .. n PROVE requests[i].message \in 1 .. Len(d.seen) + 1
    BY <1>0, <1>1, <1>4 DEF Grows
  <2>2. requests[n + 1].message \in 1 .. Len(d.seen) + 1
    BY <1>0, <1>1
  <2> QED BY <1>0, <1>2, <2>1, <2>2
<1>6. KeyOf(seen, o) = Key(m)
  BY Extended DEF KeyOf
<1>7. \A i \in 1 .. n : KeyOf(seen, d.requests[i]) # Key(m)
  <2>1. ASSUME NEW i \in 1 .. n PROVE Key(d.seen[d.requests[i].message]) # Key(m)
    BY <1>0 DEF Held
  <2>2. ASSUME NEW i \in 1 .. n PROVE KeyOf(seen, d.requests[i]) = KeyOf(d.seen, d.requests[i])
    BY <1>0, Extended
  <2> QED BY <2>1, <2>2 DEF KeyOf
<1>8. \A i, j \in 1 .. n : KeyOf(seen, d.requests[i]) = KeyOf(seen, d.requests[j]) => i = j
  BY <1>0, <1>4 DEF Grows
<1> HIDE DEF seen, n
<1>9. ASSUME NEW i \in 1 .. n + 1, NEW j \in 1 .. n + 1,
             KeyOf(seen, requests[i]) = KeyOf(seen, requests[j])
      PROVE  i = j
  <2>1. CASE i \in 1 .. n /\ j \in 1 .. n
    BY <1>1, <1>8, <1>9, <2>1
  <2>2. CASE i \in 1 .. n /\ j = n + 1
    BY <1>1, <1>6, <1>7, <1>9, <2>2
  <2>3. CASE i = n + 1 /\ j \in 1 .. n
    BY <1>1, <1>6, <1>7, <1>9, <2>3
  <2> QED BY <1>0, <2>1, <2>2, <2>3
<1> QED BY <1>1, <1>2, <1>3, <1>5, <1>9 DEF Grows, requests, seen, n

LEMMA EmptyGrows ==
    ASSUME NEW d, Sound(d), NEW m
    PROVE  Grows(d, m, <<>>)
BY MaxPendingAssumption DEF Grows

(* What one observation stands for: no message yet, one, or a pair.          *)
Weight(o) == IF o.status = "PENDING" THEN 0 ELSE IF o.status = "MATCHED" THEN 2 ELSE 1

(* Every action but the overflow makes one observation.                      *)
LEMMA SingleSound ==
    ASSUME NEW d, Sound(d), NEW m \in Messages, NEW requests, Grows(d, m, requests),
           NEW o \in Observations, NEW unavailable \in BOOLEAN,
           unavailable => requests = <<>>,
           Len(requests) = Len(d.requests) + 1 - Weight(o),
           Update(d, m, requests, <<o>>, unavailable)
    PROVE  \E e : candidate' = {e} /\ Sound(e)
<1>1. Folded(d.stats, <<o>>)["messages"] = d.stats["messages"] + Weight(o)
  BY Fields, FoldedSingle DEF Weight
<1>2. /\ d.stats["messages"] \in Nat
      /\ Len(d.requests) \in Nat
      /\ Len(d.seen) \in Nat
      /\ d.stats["messages"] + Len(d.requests) = Len(d.seen)
  BY Fields DEF Sound
<1>3. Weight(o) \in Nat
  BY DEF Weight
<1>4. Folded(d.stats, <<o>>)["messages"] + Len(requests) = Len(d.seen) + 1
  <2> DEFINE folded == Folded(d.stats, <<o>>)["messages"]
             before == d.stats["messages"]
             weight == Weight(o)
             left == Len(requests)
             held == Len(d.requests)
             seen == Len(d.seen)
  <2>1. /\ folded = before + weight /\ left = held + 1 - weight /\ before + held = seen
        /\ before \in Nat /\ weight \in Nat /\ held \in Nat /\ seen \in Nat
    BY <1>1, <1>2, <1>3
  <2> HIDE DEF folded, before, weight, left, held, seen
  <2>2. folded + left = seen + 1
    BY <2>1
  <2> QED BY <2>2 DEF folded, left, seen
<1>5. <<o>> \in Seq(Observations)
  OBVIOUS
<1> QED BY <1>4, <1>5, UpdateSound

LEMMA UnavailableSound ==
    ASSUME NEW d, Sound(d), NEW m \in Messages, RequestUnavailable(d, m)
    PROVE  \E e : candidate' = {e} /\ Sound(e)
<1> DEFINE o == Observation(d, "UNRESOLVED", Len(d.seen) + 1, "LIMIT_EXCEEDED")
<1>0. Len(d.seen) + 1 \in Nat /\ Len(d.requests) \in Nat
  BY Fields
<1>1. o \in Observations /\ o.status = "UNRESOLVED"
  BY <1>0, ObservationType DEF Terminal
<1>2. d.unavailable /\ Update(d, m, d.requests, <<o>>, TRUE)
  BY DEF RequestUnavailable
<1> HIDE DEF o
<1>3. d.requests = <<>>
  BY <1>2 DEF Sound
<1>4. Grows(d, m, d.requests)
  BY KeptGrows
<1>5. Len(d.requests) = Len(d.requests) + 1 - Weight(o)
  BY <1>0, <1>1 DEF Weight
<1> QED BY <1>1, <1>2, <1>3, <1>4, <1>5, SingleSound

LEMMA RequestOf ==
    ASSUME NEW d, Sound(d), NEW i \in DOMAIN d.requests
    PROVE  d.requests[i] \in Observations /\ d.requests[i].request \in Nat
<1>1. d.requests[i] \in Observations
  BY Fields, ElementOfSeq
<1> QED BY <1>1 DEF Observations

LEMMA RepeatedSound ==
    ASSUME NEW d, Sound(d), NEW m \in Messages, RequestRepeated(d, m)
    PROVE  \E e : candidate' = {e} /\ Sound(e)
<1>1. PICK i \in Held(d, m) :
          Update(d, m, [d.requests EXCEPT ![i] = WithStatus(@, "AMBIGUOUS", "none")],
                 <<Observation(d, "AMBIGUOUS", d.requests[i].request, "none")>>, FALSE)
  BY DEF RequestRepeated
<1> DEFINE o == Observation(d, "AMBIGUOUS", d.requests[i].request, "none")
           requests == [d.requests EXCEPT ![i] = WithStatus(@, "AMBIGUOUS", "none")]
<1>2. i \in DOMAIN d.requests
  BY DEF Held
<1>3. o \in Observations /\ o.status = "AMBIGUOUS"
  BY <1>2, RequestOf, ObservationType DEF Terminal
<1>4. Grows(d, m, requests) /\ Len(requests) = Len(d.requests)
  BY <1>2, RemarkedGrows
<1>5. Update(d, m, requests, <<o>>, FALSE)
  BY <1>1
<1> HIDE DEF o, requests
<1>6. Len(requests) = Len(d.requests) + 1 - Weight(o)
  BY <1>3, <1>4, Fields DEF Weight
<1> QED BY <1>3, <1>4, <1>5, <1>6, SingleSound

LEMMA OverflowsSound ==
    ASSUME NEW d, Sound(d), NEW m \in Messages, RequestOverflows(d, m)
    PROVE  \E e : candidate' = {e} /\ Sound(e)
<1> DEFINE o == Observation(d, "UNRESOLVED", Len(d.seen) + 1, "LIMIT_EXCEEDED")
           lost == Marked(d.requests, "UNRESOLVED", "LIMIT_EXCEEDED")
           obs == Append(lost, o)
<1>0. /\ d.requests \in Seq(Observations)
      /\ d.stats \in [Counters -> Nat]
      /\ d.stats["messages"] \in Nat
      /\ Len(d.requests) \in Nat
      /\ Len(d.seen) \in Nat
      /\ d.stats["messages"] + Len(d.requests) = Len(d.seen)
  BY Fields DEF Sound
<1>1. o \in Observations /\ o.status = "UNRESOLVED"
  BY <1>0, ObservationType DEF Terminal
<1>2. /\ lost \in Seq(Observations)
      /\ Len(lost) = Len(d.requests)
      /\ \A i \in 1 .. Len(lost) : lost[i].status = "UNRESOLVED"
  BY <1>0, MarkedType DEF Terminal
<1>3. Update(d, m, <<>>, obs, TRUE)
  BY DEF RequestOverflows
<1> HIDE DEF o, lost
<1>4. /\ obs \in Seq(Observations)
      /\ Len(obs) = Len(lost) + 1
      /\ \A i \in 1 .. Len(lost) : obs[i] = lost[i]
      /\ obs[Len(lost) + 1] = o
  BY <1>1, <1>2, AppendProperties
<1> HIDE DEF obs
<1>5. DOMAIN obs = 1 .. Len(lost) + 1
  BY <1>4, LenProperties
<1>6. \A i \in DOMAIN obs : obs[i].status = "UNRESOLVED"
  BY <1>0, <1>1, <1>2, <1>4, <1>5
<1>7. Folded(d.stats, obs)["messages"] = d.stats["messages"] + Len(obs)
  BY <1>0, <1>4, <1>6, FoldedUnresolved
<1>8. Folded(d.stats, obs)["messages"] + Len(<<>>) = Len(d.seen) + 1
  <2> DEFINE folded == Folded(d.stats, obs)["messages"]
             before == d.stats["messages"]
  <2>0. Len(obs) = Len(d.requests) + 1
    BY <1>2, <1>4
  <2>1. /\ folded = before + (Len(d.requests) + 1)
        /\ before + Len(d.requests) = Len(d.seen)
        /\ before \in Nat /\ Len(d.requests) \in Nat
    <3>1. folded = before + Len(obs)
      BY <1>7
    <3>2. before + Len(d.requests) = Len(d.seen)
      BY <1>0
    <3>3. before \in Nat
      BY <1>0
    <3> QED BY <1>0, <2>0, <3>1, <3>2, <3>3
  <2>2. Len(<<>>) = 0
    OBVIOUS
  <2> HIDE DEF folded, before
  <2>3. folded + Len(<<>>) = Len(d.seen) + 1
    BY <2>1, <2>2
  <2> QED BY <2>3 DEF folded
<1>9. Grows(d, m, <<>>)
  BY EmptyGrows
<1> QED BY <1>3, <1>4, <1>8, <1>9, UpdateSound

LEMMA OutstandingSound ==
    ASSUME NEW d, Sound(d), NEW m \in Messages, RequestOutstanding(d, m)
    PROVE  \E e : candidate' = {e} /\ Sound(e)
<1> DEFINE o == Observation(d, "PENDING", Len(d.seen) + 1, "none")
<1>0. Len(d.seen) + 1 \in Nat /\ Len(d.requests) \in Nat
  BY Fields
<1>1. o \in Observations /\ o.status = "PENDING" /\ o.message = Len(d.seen) + 1
  BY <1>0, ObservationType
<1>2. /\ Held(d, m) = {}
      /\ Len(d.requests) # MaxPending
      /\ Update(d, m, Append(d.requests, o), <<o>>, FALSE)
  BY DEF RequestOutstanding
<1> HIDE DEF o
<1>3. Grows(d, m, Append(d.requests, o)) /\ Len(Append(d.requests, o)) = Len(d.requests) + 1
  BY <1>1, <1>2, AppendedGrows
<1>4. Len(Append(d.requests, o)) = Len(d.requests) + 1 - Weight(o)
  BY <1>0, <1>1, <1>3 DEF Weight
<1> QED BY <1>1, <1>2, <1>3, <1>4, SingleSound

LEMMA NotMatchedSound ==
    ASSUME NEW d, Sound(d), NEW m \in Messages, NEW status \in {"AMBIGUOUS", "UNMATCHED"},
           Update(d, m, d.requests, <<Observation(d, status, 0, Reason(d))>>, d.unavailable)
    PROVE  \E e : candidate' = {e} /\ Sound(e)
<1> DEFINE o == Observation(d, status, 0, Reason(d))
<1>1. o \in Observations /\ o.status = status
  <2>1. Reason(d) \in {"none", "LIMIT_EXCEEDED", "FLOW_CLOSED"}
    BY DEF Reason
  <2>2. status \in Terminal \cup {"PENDING"}
    BY DEF Terminal
  <2> QED BY <2>1, <2>2, ObservationType
<1>2. Update(d, m, d.requests, <<o>>, d.unavailable)
  OBVIOUS
<1> HIDE DEF o
<1>3. d.unavailable \in BOOLEAN /\ (d.unavailable => d.requests = <<>>)
  BY Fields DEF Sound
<1>4. Grows(d, m, d.requests)
  BY KeptGrows
<1>5. Len(d.requests) = Len(d.requests) + 1 - Weight(o)
  <2>1. Weight(o) = 1
    BY <1>1 DEF Weight
  <2> QED BY <2>1, Fields
<1> QED BY <1>1, <1>2, <1>3, <1>4, <1>5, SingleSound

LEMMA MatchedSound ==
    ASSUME NEW d, Sound(d), NEW m \in Messages, ResponseMatched(d, m)
    PROVE  \E e : candidate' = {e} /\ Sound(e)
<1>1. PICK i \in Answered(d, m) :
          Update(d, m, Without(d.requests, i),
                 <<Observation(d, "MATCHED", d.requests[i].request, "none")>>, FALSE)
  BY DEF ResponseMatched
<1> DEFINE o == Observation(d, "MATCHED", d.requests[i].request, "none")
<1>2. i \in DOMAIN d.requests
  BY DEF Answered, Answerable, Held
<1>3. o \in Observations /\ o.status = "MATCHED"
  BY <1>2, RequestOf, ObservationType DEF Terminal
<1>4. /\ Grows(d, m, Without(d.requests, i))
      /\ Len(Without(d.requests, i)) = Len(d.requests) - 1
  BY <1>2, WithoutGrows
<1>5. Update(d, m, Without(d.requests, i), <<o>>, FALSE)
  BY <1>1
<1> HIDE DEF o
<1>6. Len(Without(d.requests, i)) = Len(d.requests) + 1 - Weight(o)
  BY <1>3, <1>4, Fields DEF Weight
<1> QED BY <1>3, <1>4, <1>5, <1>6, SingleSound

MessageStep(d, m) ==
    \/ RequestUnavailable(d, m)
    \/ RequestRepeated(d, m)
    \/ RequestOverflows(d, m)
    \/ RequestOutstanding(d, m)
    \/ Respond(d, m)

LEMMA MessageSound ==
    ASSUME NEW d, Sound(d), NEW m \in Messages, MessageStep(d, m)
    PROVE  \E e : candidate' = {e} /\ Sound(e)
<1>1. CASE RequestUnavailable(d, m)
  BY <1>1, UnavailableSound
<1>2. CASE RequestRepeated(d, m)
  BY <1>2, RepeatedSound
<1>3. CASE RequestOverflows(d, m)
  BY <1>3, OverflowsSound
<1>4. CASE RequestOutstanding(d, m)
  BY <1>4, OutstandingSound
<1>5. CASE ResponseAmbiguous(d, m)
  BY <1>5, NotMatchedSound DEF ResponseAmbiguous
<1>6. CASE ResponseMatched(d, m)
  BY <1>6, MatchedSound
<1>7. CASE ResponseUnmatched(d, m)
  BY <1>7, NotMatchedSound DEF ResponseUnmatched
<1> QED BY <1>1, <1>2, <1>3, <1>4, <1>5, <1>6, <1>7 DEF MessageStep, Respond

-----------------------------------------------------------------------------
(* The window as a whole.                                                    *)
LEMMA InitSound == Sound(InitState)
<1>1. InitState \in States
  <2>1. [c \in Counters |-> 0] \in [Counters -> Nat]
    OBVIOUS
  <2> QED BY <2>1 DEF InitState, States
<1>2. /\ InitState.requests = <<>> /\ InitState.seen = <<>>
      /\ InitState.unavailable = FALSE /\ InitState.stats["messages"] = 0
  BY DEF InitState, Counters
<1>3. Len(<<>>) = 0 /\ DOMAIN <<>> = {}
  OBVIOUS
<1> QED BY <1>1, <1>2, <1>3, MaxPendingAssumption DEF Sound

LEMMA ReplacedType ==
    ASSUME NEW d \in States, NEW obs \in Seq(Observations), NEW requests \in Seq(Observations)
    PROVE  /\ [d EXCEPT !.observations = obs] \in States
           /\ [d EXCEPT !.requests = requests, !.observations = obs] \in States
<1>1. [d EXCEPT !.observations = obs] \in States
  BY DEF States
<1>2. [d EXCEPT !.requests = requests, !.observations = obs] \in States
  BY DEF States
<1> QED BY <1>1, <1>2

LEMMA NotCompleteSound ==
    ASSUME NEW d, Sound(d)
    PROVE  Sound([d EXCEPT !.observations = <<>>])
<1> DEFINE e == [d EXCEPT !.observations = <<>>]
<1>0. d \in States /\ <<>> \in Seq(Observations)
  BY DEF Sound
<1>1. e \in States
  BY <1>0, ReplacedType
<1>2. /\ e.requests = d.requests /\ e.seen = d.seen
      /\ e.unavailable = d.unavailable /\ e.stats = d.stats
  BY DEF Sound, States
<1> HIDE DEF e
<1>3. Sound(e)
  BY <1>1, <1>2 DEF Sound
<1> QED BY <1>3 DEF e

LEMMA RetainedType ==
    ASSUME NEW d, Sound(d), NEW order \in RetainedOrders(d)
    PROVE  [i \in DOMAIN order |-> d.observations[order[i]]] \in Seq(Observations)
<1> DEFINE n == Cardinality(Counted(d.observations))
<1>0. /\ d.observations \in Seq(Observations)
      /\ DOMAIN d.observations = 1 .. Len(d.observations)
  BY Fields, LenProperties
<1>1. n \in Nat
  BY <1>0, Finite DEF Counted
<1>2. order \in [1 .. n -> Counted(d.observations)]
  BY DEF RetainedOrders
<1> HIDE DEF n
<1>3. ASSUME NEW i \in 1 .. n PROVE d.observations[order[i]] \in Observations
  <2>1. order[i] \in 1 .. Len(d.observations)
    BY <1>0, <1>2 DEF Counted
  <2> QED BY <1>0, <2>1, ElementOfSeq
<1>4. [i \in DOMAIN order |-> d.observations[order[i]]] \in [1 .. n -> Observations]
  BY <1>2, <1>3
<1> QED BY <1>1, <1>4, SeqDef

(* The state a window is closed with.                                        *)
FinalState(d, retained) ==
    LET final == Finalized(d, retained)
        suffix == SubSeq(final.observations, Len(retained) + 1, Len(final.observations))
    IN [final EXCEPT !.stats = Folded(d.stats, suffix)]

(* What e lists is retained in its place, or a request that was lost.         *)
RetainedOrLost(e, retained) ==
    \A i \in DOMAIN e.observations :
        \/ i \in DOMAIN retained /\ e.observations[i] = retained[i]
        \/ e.observations[i].status = "UNRESOLVED"

(* The counts of e are those of d and one unresolved for each request of d.  *)
RequestsLost(d, e) ==
    \E suffix \in Seq(Observations) :
        /\ Len(suffix) = Len(d.requests)
        /\ \A i \in DOMAIN suffix : suffix[i].status = "UNRESOLVED"
        /\ e.stats = Folded(d.stats, suffix)

(* Closing publishes and counts every outstanding request as unresolved.     *)
LEMMA FinalizedParts ==
    ASSUME NEW d, Sound(d), NEW retained \in Seq(Observations), NEW e, e = FinalState(d, retained)
    PROVE  /\ e \in States
           /\ e.requests = <<>> /\ e.seen = d.seen /\ e.unavailable = d.unavailable
           /\ RetainedOrLost(e, retained)
           /\ RequestsLost(d, e)
<1> DEFINE marked == Marked(d.requests, "UNRESOLVED", "FLOW_CLOSED")
           all == retained \o marked
           final == Finalized(d, retained)
           suffix == SubSeq(final.observations, Len(retained) + 1, Len(final.observations))
<1>0. /\ d.requests \in Seq(Observations)
      /\ Len(d.requests) \in Nat /\ Len(retained) \in Nat
      /\ d.stats \in [Counters -> Nat]
      /\ d.stats["messages"] \in Nat
      /\ d.stats["messages"] + Len(d.requests) = Len(d.seen)
  BY Fields, LenProperties DEF Sound
<1>1. /\ marked \in Seq(Observations)
      /\ Len(marked) = Len(d.requests)
      /\ \A i \in 1 .. Len(d.requests) : marked[i].status = "UNRESOLVED"
  BY <1>0, MarkedType DEF Terminal
<1>2. final = [d EXCEPT !.requests = <<>>, !.observations = all]
  BY DEF Finalized
<1>3. /\ final \in States
      /\ final.observations = all /\ final.requests = <<>> /\ final.seen = d.seen
      /\ final.unavailable = d.unavailable
  <2> HIDE DEF final, marked
  <2>1. all \in Seq(Observations)
    BY <1>1, ConcatProperties
  <2> HIDE DEF all
  <2>2. d \in States /\ <<>> \in Seq(Observations)
    BY DEF Sound
  <2>3. final \in States
    BY <1>2, <2>1, <2>2, ReplacedType
  <2>4. /\ final.observations = all /\ final.requests = <<>> /\ final.seen = d.seen
        /\ final.unavailable = d.unavailable
    BY <1>2, <2>2 DEF States
  <2> QED BY <2>3, <2>4
<1> HIDE DEF final, marked
<1>4. /\ Len(all) = Len(retained) + Len(d.requests)
      /\ all \in Seq(Observations)
      /\ \A i \in 1 .. Len(d.requests) : all[Len(retained) + i] = marked[i]
  <2>1. /\ all \in Seq(Observations)
        /\ Len(all) = Len(retained) + Len(marked)
        /\ \A i \in 1 .. Len(retained) + Len(marked) :
               all[i] = IF i <= Len(retained) THEN retained[i] ELSE marked[i - Len(retained)]
    <3>1. retained \in Seq(Observations) /\ marked \in Seq(Observations)
      BY <1>1
    <3> QED BY <3>1, ConcatProperties, Zenon
  <2> HIDE DEF all
  <2>2. ASSUME NEW i \in 1 .. Len(d.requests) PROVE all[Len(retained) + i] = marked[i]
    <3>1. /\ Len(retained) + i \in 1 .. Len(retained) + Len(marked)
          /\ ~(Len(retained) + i <= Len(retained))
          /\ Len(retained) + i - Len(retained) = i
      BY <1>0, <1>1
    <3> QED BY <2>1, <3>1
  <2> QED BY <1>1, <2>1, <2>2
<1>10. ASSUME NEW i \in DOMAIN all
      PROVE  \/ i \in DOMAIN retained /\ all[i] = retained[i]
             \/ all[i].status = "UNRESOLVED"
  <2>1. \A k \in 1 .. Len(retained) + Len(marked) :
            all[k] = IF k <= Len(retained) THEN retained[k] ELSE marked[k - Len(retained)]
    BY <1>1, ConcatProperties
  <2> HIDE DEF all
  <2>2. DOMAIN all = 1 .. Len(retained) + Len(marked) /\ DOMAIN retained = 1 .. Len(retained)
    BY <1>1, <1>4, LenProperties
  <2>3. CASE i <= Len(retained)
    BY <1>0, <2>1, <2>2, <2>3
  <2>4. CASE ~(i <= Len(retained))
    <3>1. i - Len(retained) \in 1 .. Len(d.requests)
      BY <1>0, <1>1, <2>2, <2>4
    <3> QED BY <1>1, <2>1, <2>2, <2>4, <3>1
  <2> QED BY <2>3, <2>4
<1> HIDE DEF all
<1>5. /\ suffix \in Seq(Observations)
      /\ Len(suffix) = Len(d.requests)
      /\ \A i \in 1 .. Len(d.requests) : suffix[i] = marked[i]
  <2>1. suffix = SubSeq(all, Len(retained) + 1, Len(retained) + Len(d.requests))
    BY <1>3, <1>4
  <2>2. Len(retained) + 1 \in Int /\ Len(retained) + Len(d.requests) \in Int
    BY <1>0
  <2>3. \A i \in Len(retained) + 1 .. Len(retained) + Len(d.requests) : all[i] \in Observations
    <3>1. ASSUME NEW i \in Len(retained) + 1 .. Len(retained) + Len(d.requests)
          PROVE  i \in 1 .. Len(all)
      BY <1>0, <1>4
    <3> QED BY <1>4, <3>1, ElementOfSeq
  <2> HIDE DEF suffix
  <2> DEFINE lo == Len(retained) + 1
             hi == Len(retained) + Len(d.requests)
  <2>4. /\ suffix \in Seq(Observations)
        /\ Len(suffix) = IF lo <= hi THEN hi - lo + 1 ELSE 0
        /\ \A i \in 1 .. hi - lo + 1 : suffix[i] = all[lo + i - 1]
    <3>1. lo \in Int /\ hi \in Int /\ suffix = SubSeq(all, lo, hi)
          /\ \A i \in lo .. hi : all[i] \in Observations
      BY <2>1, <2>2, <2>3
    <3> HIDE DEF lo, hi
    <3> QED BY <3>1, SubSeqProperties
  <2>5. hi - lo + 1 = Len(d.requests) /\ (lo <= hi \/ Len(d.requests) = 0)
    BY <1>0
  <2>6. Len(suffix) = Len(d.requests)
    BY <2>4, <2>5
  <2>7. ASSUME NEW i \in 1 .. Len(d.requests) PROVE suffix[i] = marked[i]
    <3>1. lo + i - 1 = Len(retained) + i
      BY <1>0
    <3> QED BY <1>4, <2>4, <2>5, <3>1
  <2> QED BY <2>4, <2>6, <2>7
<1> HIDE DEF suffix
<1>6. \A i \in DOMAIN suffix : suffix[i].status = "UNRESOLVED"
  BY <1>1, <1>5, LenProperties
<1>7. Folded(d.stats, suffix) \in [Counters -> Nat]
  BY <1>0, <1>5, FoldedType
<1>8. e = [final EXCEPT !.stats = Folded(d.stats, suffix)]
  BY DEF FinalState, final, suffix
<1>9. /\ e \in States
      /\ e.requests = <<>> /\ e.seen = d.seen /\ e.unavailable = d.unavailable
      /\ e.observations = all /\ e.stats = Folded(d.stats, suffix)
  BY <1>3, <1>7, <1>8 DEF States
<1>11. RequestsLost(d, e)
  BY <1>5, <1>6, <1>9, Zenon DEF RequestsLost
<1>12. RetainedOrLost(e, retained)
  BY <1>9, <1>10, Zenon DEF RetainedOrLost
<1> QED BY <1>9, <1>11, <1>12, Zenon

(* A closed window is sound, and nothing is outstanding in it.               *)
LEMMA FinalizedSound ==
    ASSUME NEW d, Sound(d), NEW retained \in Seq(Observations), NEW e, e = FinalState(d, retained)
    PROVE  Sound(e) /\ e.requests = <<>>
<1>1. /\ e \in States
      /\ e.requests = <<>> /\ e.seen = d.seen /\ e.unavailable = d.unavailable
  BY FinalizedParts
<1>2. PICK suffix \in Seq(Observations) :
          /\ Len(suffix) = Len(d.requests)
          /\ \A i \in DOMAIN suffix : suffix[i].status = "UNRESOLVED"
          /\ e.stats = Folded(d.stats, suffix)
  <2>1. RequestsLost(d, e)
    BY FinalizedParts
  <2> QED BY <2>1, Zenon DEF RequestsLost
<1>3. d.stats \in [Counters -> Nat] /\ d.stats["messages"] + Len(d.requests) = Len(d.seen)
  BY Fields DEF Sound
<1>4. e.stats["messages"] = Len(e.seen)
  BY <1>1, <1>2, <1>3, FoldedUnresolved
<1>5. Len(e.requests) = 0 /\ DOMAIN e.requests = {}
  BY <1>1
<1>6. e.stats["messages"] + Len(e.requests) = Len(e.seen)
  BY <1>1, <1>4, <1>5, Fields
<1> QED BY <1>1, <1>5, <1>6, MaxPendingAssumption DEF Sound

-----------------------------------------------------------------------------
LEMMA InitDNSInv == DNSInit => DNSInv
<1>1. <<>> \in Seq(SUBSET Messages)
  OBVIOUS
<1> QED BY <1>1, InitSound DEF DNSInit, DNSInv, Live

LEMMA NextDNSInv == DNSInv /\ [DNSNext]_dnsVars => DNSInv'
<1> SUFFICES ASSUME DNSInv, [DNSNext]_dnsVars PROVE DNSInv'
  OBVIOUS
<1>0. /\ arriving \in Seq(SUBSET Messages) /\ closed \in BOOLEAN
      /\ Sound(state)
      /\ \A d \in candidate : Sound(d)
      /\ \A d, e \in candidate : d = e
      /\ closed => state.requests = <<>> /\ candidate = {}
  BY DEF DNSInv, Live
<1>1. ASSUME NEW frames \in Packets, Packet(frames) PROVE DNSInv'
  <2>1. PICK n \in 0 .. MaxFrames, d \in Directions : frames \in [1 .. n -> Frames(d)]
    BY DEF Packets
  <2>2. Frames(d) \subseteq SUBSET Messages
    BY DEF Frames
  <2>3. n \in Nat /\ frames \in [1 .. n -> SUBSET Messages]
    BY <2>1, <2>2, BoundsAssumption
  <2>4. frames \in Seq(SUBSET Messages)
    BY <2>3, SeqDef
  <2>5. /\ arriving' = frames /\ candidate' = {state} /\ state' = state /\ closed' = closed
        /\ ~closed
    BY <1>1 DEF Packet
  <2> QED BY <1>0, <2>4, <2>5 DEF DNSInv, Live
<1>2. CASE NotComplete
  <2>1. /\ arriving # <<>> /\ arriving' = Tail(arriving)
        /\ candidate' = {[d EXCEPT !.observations = <<>>] : d \in candidate}
        /\ state' = state /\ closed' = closed
    BY <1>2 DEF NotComplete
  <2>2. Tail(arriving) \in Seq(SUBSET Messages)
    BY <1>0, <2>1, HeadTailProperties
  <2>3. \A d \in candidate' : Sound(d)
    BY <1>0, <2>1, NotCompleteSound
  <2>4. \A d, e \in candidate' : d = e
    BY <1>0, <2>1
  <2>5. closed => candidate' = {}
    BY <1>0, <2>1
  <2> QED BY <1>0, <2>1, <2>2, <2>3, <2>4, <2>5 DEF DNSInv, Live
<1>3. ASSUME NEW d \in candidate, NEW m \in Messages, MessageStep(d, m) PROVE DNSInv'
  <2>1. Meets(d, m)
    BY <1>3 DEF MessageStep, RequestUnavailable, RequestRepeated, RequestOverflows,
                RequestOutstanding, Respond, ResponseAmbiguous, ResponseMatched, ResponseUnmatched
  <2>2. PICK e : candidate' = {e} /\ Sound(e)
    BY <1>0, <1>3, MessageSound
  <2>3. /\ arriving # <<>> /\ arriving' = Tail(arriving) /\ state' = state /\ closed' = closed
    BY <2>1 DEF Meets
  <2>4. Tail(arriving) \in Seq(SUBSET Messages)
    BY <1>0, <2>3, HeadTailProperties
  <2>5. ~closed
    BY <1>0
  <2> QED BY <1>0, <2>2, <2>3, <2>4, <2>5 DEF DNSInv, Live
<1>4. CASE Commit
  <2>1. /\ state' \in candidate /\ candidate' = {} /\ arriving' = arriving /\ closed' = closed
    BY <1>4 DEF Commit
  <2> QED BY <1>0, <2>1 DEF DNSInv, Live
<1>5. CASE Abandon
  <2>1. /\ candidate' = {} /\ arriving' = <<>> /\ state' = state /\ closed' = closed
    BY <1>5 DEF Abandon
  <2>2. <<>> \in Seq(SUBSET Messages)
    OBVIOUS
  <2> QED BY <1>0, <2>1, <2>2 DEF DNSInv, Live
<1>6. CASE Close
  <2>1. PICK order \in RetainedOrders(state) :
            state' = FinalState(state, [i \in DOMAIN order |-> state.observations[order[i]]])
    BY <1>6, Zenon DEF Close, FinalState
  <2>2. [i \in DOMAIN order |-> state.observations[order[i]]] \in Seq(Observations)
    BY <1>0, RetainedType
  <2>3. Sound(state') /\ state'.requests = <<>>
    BY <1>0, <2>1, <2>2, FinalizedSound
  <2>4. candidate = {} /\ candidate' = candidate /\ arriving' = arriving /\ closed' = TRUE
    BY <1>6 DEF Close, Idle
  <2> QED BY <1>0, <2>3, <2>4 DEF DNSInv, Live
<1>7. CASE NewWindow
  <2>1. /\ state' = InitState /\ closed' = FALSE /\ candidate' = candidate /\ arriving' = arriving
        /\ closed
    BY <1>7 DEF NewWindow
  <2> QED BY <1>0, <2>1, InitSound DEF DNSInv, Live
<1>8. CASE UNCHANGED dnsVars
  BY <1>0, <1>8 DEF DNSInv, Live, dnsVars
<1>9. CASE DNSNext
  <2> HIDE DEF MessageStep, DNSInv
  <2>1. \/ \E frames \in Packets : Packet(frames)
        \/ NotComplete
        \/ \E d \in candidate, m \in Messages : MessageStep(d, m)
        \/ Commit \/ Abandon \/ Close \/ NewWindow
    BY <1>9, Zenon DEF DNSNext, MessageStep
  <2> QED BY <1>1, <1>2, <1>3, <1>4, <1>5, <1>6, <1>7, <2>1
<1> QED BY <1>8, <1>9

(* The inductive invariant of the correlation holds in every state.          *)
THEOREM DNSInductive == DNSSpec => []DNSInv
BY InitDNSInv, NextDNSInv, PTL DEF DNSSpec

(* Every variable of the correlation keeps its type.                         *)
THEOREM DNSTypeCorrect == DNSSpec => []TypeOK
<1>1. DNSInv => TypeOK
  BY DEF DNSInv, Live, Sound, TypeOK
<1> QED BY DNSInductive, <1>1, PTL

(* Every complete message is counted once or is a request outstanding, and a *)
(* closed window leaves none outstanding.                                    *)
THEOREM Conserved == DNSSpec => []MessagesConserved
<1>1. DNSInv => MessagesConserved
  <2> SUFFICES ASSUME DNSInv PROVE MessagesConserved
    OBVIOUS
  <2>1. \A d \in Live : d.stats["messages"] + Len(d.requests) = Len(d.seen)
    BY DEF DNSInv, Sound
  <2>2. ASSUME closed PROVE state.stats["messages"] = Len(state.seen)
    <3>1. Len(state.requests) = 0 /\ Sound(state) /\ state \in Live
      BY <2>2 DEF DNSInv, Live
    <3>2. state.stats["messages"] \in Nat
      BY <3>1, Fields
    <3> QED BY <2>1, <3>1, <3>2
  <2> QED BY <2>1, <2>2 DEF MessagesConserved
<1> QED BY DNSInductive, <1>1, PTL

(* The pending table is bounded, has one entry per key, and is empty once    *)
(* correlation was given up.                                                 *)
THEOREM Pending == DNSSpec => []PendingTable
<1>1. DNSInv => PendingTable
  BY DEF DNSInv, Sound, PendingTable, KeyOf
<1> QED BY DNSInductive, <1>1, PTL

-----------------------------------------------------------------------------
(* What was given up is not counted as matched or ambiguous again.           *)
LEMMA LossStep ==
    ASSUME NEW d, Sound(d), d.unavailable, NEW m \in Messages, MessageStep(d, m)
    PROVE  \A e \in candidate' : /\ e.unavailable
                                 /\ e.stats["MATCHED"] = d.stats["MATCHED"]
                                 /\ e.stats["AMBIGUOUS"] = d.stats["AMBIGUOUS"]
<1>0. Answerable(d, m) = {}
  BY DEF Answerable
<1>1. ~RequestRepeated(d, m) /\ ~RequestOverflows(d, m) /\ ~RequestOutstanding(d, m)
  BY DEF RequestRepeated, RequestOverflows, RequestOutstanding
<1>2. ~ResponseAmbiguous(d, m) /\ ~ResponseMatched(d, m)
  BY <1>0 DEF ResponseAmbiguous, ResponseMatched, Answered
<1>3. ASSUME NEW o \in Observations, o.status \in {"UNRESOLVED", "UNMATCHED"},
             Update(d, m, d.requests, <<o>>, TRUE)
      PROVE  \A e \in candidate' : /\ e.unavailable
                                   /\ e.stats["MATCHED"] = d.stats["MATCHED"]
                                   /\ e.stats["AMBIGUOUS"] = d.stats["AMBIGUOUS"]
  <2>1. d.stats \in [Counters -> Nat]
    BY Fields
  <2>2. /\ "MATCHED" \in Counters \ {"messages"} /\ "AMBIGUOUS" \in Counters \ {"messages"}
    BY DEF Counters, Terminal
  <2>3. /\ Folded(d.stats, <<o>>)["MATCHED"] = d.stats["MATCHED"]
        /\ Folded(d.stats, <<o>>)["AMBIGUOUS"] = d.stats["AMBIGUOUS"]
    BY <1>3, <2>1, <2>2, FoldedSingle
  <2>4. \A e \in candidate' : e.unavailable /\ e.stats = Folded(d.stats, <<o>>)
    BY <1>3 DEF Update
  <2> QED BY <2>3, <2>4
<1>4. CASE RequestUnavailable(d, m)
  <2> DEFINE o == Observation(d, "UNRESOLVED", Len(d.seen) + 1, "LIMIT_EXCEEDED")
  <2>1. o \in Observations /\ o.status = "UNRESOLVED"
    <3>1. Len(d.seen) + 1 \in Nat BY Fields
    <3> QED BY <3>1, ObservationType DEF Terminal
  <2>2. Update(d, m, d.requests, <<o>>, TRUE)
    BY <1>4 DEF RequestUnavailable
  <2> HIDE DEF o
  <2> QED BY <1>3, <2>1, <2>2
<1>5. CASE ResponseUnmatched(d, m)
  <2> DEFINE o == Observation(d, "UNMATCHED", 0, Reason(d))
  <2>1. o \in Observations /\ o.status = "UNMATCHED"
    BY ObservationType DEF Terminal, Reason
  <2>2. Update(d, m, d.requests, <<o>>, TRUE)
    <3>1. d.unavailable = TRUE BY Fields
    <3>2. Update(d, m, d.requests, <<o>>, d.unavailable)
      BY <1>5 DEF ResponseUnmatched
    <3> QED BY <3>1, <3>2
  <2> HIDE DEF o
  <2> QED BY <1>3, <2>1, <2>2
<1> QED BY <1>1, <1>2, <1>4, <1>5 DEF MessageStep, Respond

(* Within a window the loss of correlation is final.                         *)
THEOREM Final == DNSSpec => LossIsFinal
<1> DEFINE Kept(d, e) == /\ e.unavailable
                         /\ e.stats["MATCHED"] = d.stats["MATCHED"]
                         /\ e.stats["AMBIGUOUS"] = d.stats["AMBIGUOUS"]
           Step == ~closed => \A d \in candidate, e \in candidate' : d.unavailable => Kept(d, e)
<1>1. DNSInv /\ [DNSNext]_dnsVars => [Step]_dnsVars
  <2> SUFFICES ASSUME DNSInv, DNSNext PROVE Step
    BY DEF dnsVars
  <2>0. /\ \A d \in candidate : Sound(d)
        /\ \A d, e \in candidate : d = e
    BY DEF DNSInv, Live
  <2>1. CASE candidate = {} \/ candidate' = {}
    BY <2>1
  <2>2. CASE candidate' = candidate
    BY <2>0, <2>2
  <2>3. CASE NotComplete
    <3>1. candidate' = {[d EXCEPT !.observations = <<>>] : d \in candidate}
      BY <2>3 DEF NotComplete
    <3>2. ASSUME NEW d \in candidate, NEW e \in candidate'
          PROVE  e.unavailable = d.unavailable /\ e.stats = d.stats
      <4>1. e = [d EXCEPT !.observations = <<>>]
        BY <2>0, <3>1
      <4>2. d \in States
        BY <2>0 DEF Sound
      <4> QED BY <4>1, <4>2 DEF States
    <3> QED BY <3>2
  <2>4. ASSUME NEW d \in candidate, NEW m \in Messages, MessageStep(d, m) PROVE Step
    <3>1. ASSUME d.unavailable, NEW e \in candidate' PROVE Kept(d, e)
      BY <2>0, <2>4, <3>1, LossStep
    <3> QED BY <2>0, <3>1
  <2>5. Commit \/ Abandon => candidate' = {}
    BY DEF Commit, Abandon
  <2>6. (\E frames \in Packets : Packet(frames)) => candidate = {}
    BY DEF Packet, Idle
  <2>7. Close \/ NewWindow => candidate' = candidate
    BY DEF Close, NewWindow
  <2> QED BY <2>1, <2>2, <2>3, <2>4, <2>5, <2>6, <2>7 DEF DNSNext, MessageStep
<1> QED BY DNSInductive, <1>1, PTL DEF DNSSpec, LossIsFinal

-----------------------------------------------------------------------------
(* What the exchange says of a message looks only at what came before it.    *)
Agree(s, t, n) == n \in Nat /\ \A i \in 1 .. n : t[i] = s[i]

LEMMA SamePair ==
    ASSUME NEW s, NEW t, NEW n, Agree(s, t, n), NEW i \in 1 .. n, NEW j \in 1 .. n
    PROVE  /\ IsRequest(t, i) <=> IsRequest(s, i)
           /\ SameKey(t, i, j) <=> SameKey(s, i, j)
           /\ Addresses(t, i, j) <=> Addresses(s, i, j)
           /\ Answers(t, i, j) <=> Answers(s, i, j)
<1>1. t[i] = s[i] /\ t[j] = s[j]
  BY DEF Agree
<1>2. /\ IsRequest(t, i) <=> IsRequest(s, i)
      /\ IsRequest(t, j) <=> IsRequest(s, j)
  BY <1>1, Zenon DEF IsRequest
<1>3. SameKey(t, i, j) <=> SameKey(s, i, j)
  BY <1>1, <1>2, Zenon DEF SameKey
<1>4. Addresses(t, i, j) <=> Addresses(s, i, j)
  BY <1>1, <1>2 DEF Addresses
<1>5. Answers(t, i, j) <=> Answers(s, i, j)
  BY <1>1, <1>4, Zenon DEF Answers
<1> QED BY <1>2, <1>3, <1>4, <1>5, Zenon

LEMMA SameCrossed ==
    ASSUME NEW s, NEW t, NEW n, Agree(s, t, n), NEW q \in 1 .. n, NEW p \in 1 .. n
    PROVE  Crossed(t, q, p) <=> Crossed(s, q, p)
<1>1. \A i \in q + 1 .. p - 1 : i \in 1 .. n
  BY DEF Agree
<1>2. \A i \in q + 1 .. p - 1 : /\ SameKey(t, q, i) <=> SameKey(s, q, i)
                                /\ Answers(t, q, i) <=> Answers(s, q, i)
  BY <1>1, SamePair
<1>3. SameKey(t, q, p) <=> SameKey(s, q, p)
  BY SamePair
<1> QED BY <1>2, <1>3, Zenon DEF Crossed

LEMMA SamePoisoned ==
    ASSUME NEW s, NEW t, NEW n, Agree(s, t, n), NEW q \in 1 .. n, NEW i \in 1 .. n + 1
    PROVE  Poisoned(t, q, i) <=> Poisoned(s, q, i)
<1>1. \A a \in 1 .. i - 1 : a \in 1 .. n
  BY DEF Agree
<1>2. \A a \in 1 .. i - 1 : SameKey(t, a, q) <=> SameKey(s, a, q)
  BY <1>1, SamePair
<1>3. \A a, b \in 1 .. i - 1 : Crossed(t, a, b) <=> Crossed(s, a, b)
  BY <1>1, SameCrossed
<1> QED BY <1>2, <1>3, Zenon DEF Poisoned

LEMMA SameOutstanding ==
    ASSUME NEW s, NEW t, NEW n, Agree(s, t, n), NEW i \in 1 .. n + 1
    PROVE  Outstanding(t, i) = Outstanding(s, i)
<1>1. ASSUME NEW q \in 1 .. i - 1
      PROVE  q \in Outstanding(t, i) <=> q \in Outstanding(s, i)
  <2>1. q \in 1 .. n /\ \A r \in q + 1 .. i - 1 : r \in 1 .. n
    BY DEF Agree
  <2>2. IsRequest(t, q) <=> IsRequest(s, q)
    BY <2>1, SamePair
  <2>3. Poisoned(t, q, i) <=> Poisoned(s, q, i)
    BY <2>1, SamePoisoned
  <2>4. \A r \in q + 1 .. i - 1 : Answers(t, q, r) <=> Answers(s, q, r)
    BY <2>1, SamePair
  <2> QED BY <2>2, <2>3, <2>4, Zenon DEF Outstanding
<1> QED BY <1>1, Zenon DEF Outstanding

LEMMA SameOneTooMany ==
    ASSUME NEW s, NEW t, NEW n, Agree(s, t, n), NEW i \in 1 .. n
    PROVE  OneTooMany(t, i) <=> OneTooMany(s, i)
<1>1. i \in 1 .. n + 1
  BY DEF Agree
<1>2. Outstanding(t, i) = Outstanding(s, i)
  BY <1>1, SameOutstanding
<1>3. \A q \in Outstanding(s, i) : q \in 1 .. n
  BY DEF Agree, Outstanding
<1>4. \A q \in Outstanding(s, i) : SameKey(t, q, i) <=> SameKey(s, q, i)
  BY <1>3, SamePair
<1>5. \A q \in Outstanding(s, i) : t[q] = s[q]
  BY <1>3 DEF Agree
<1>6. {<<t[q].direction, t[q].id>> : q \in Outstanding(s, i)}
          = {<<s[q].direction, s[q].id>> : q \in Outstanding(s, i)}
  BY <1>5, Zenon
<1>7. IsRequest(t, i) <=> IsRequest(s, i)
  BY SamePair
<1> QED BY <1>2, <1>4, <1>6, <1>7, Zenon DEF OneTooMany

LEMMA SameGivenUp ==
    ASSUME NEW s, NEW t, NEW n, Agree(s, t, n), NEW i \in 1 .. n + 1
    PROVE  GivenUp(t, i) <=> GivenUp(s, i)
<1>1. \A j \in 1 .. i - 1 : j \in 1 .. n
  BY DEF Agree
<1>2. \A j \in 1 .. i - 1 : OneTooMany(t, j) <=> OneTooMany(s, j)
  BY <1>1, SameOneTooMany
<1> QED BY <1>2, Zenon DEF GivenUp

LEMMA SameMatches ==
    ASSUME NEW s, NEW t, NEW n, Agree(s, t, n), NEW q \in 1 .. n, NEW r \in 1 .. n
    PROVE  Matches(t, q, r) <=> Matches(s, q, r)
<1>1. r \in 1 .. n + 1 /\ \A p \in q + 1 .. r - 1 : p \in 1 .. n
  BY DEF Agree
<1>2. \A p \in q + 1 .. r - 1 : Answers(t, q, p) <=> Answers(s, q, p)
  BY <1>1, SamePair
<1>3. /\ Answers(t, q, r) <=> Answers(s, q, r)
      /\ GivenUp(t, r) <=> GivenUp(s, r)
      /\ Poisoned(t, q, r) <=> Poisoned(s, q, r)
  BY <1>1, SamePair, SameGivenUp, SamePoisoned
<1> QED BY <1>2, <1>3, Zenon DEF Matches

-----------------------------------------------------------------------------
(* One more message: t is s with a message after it.                         *)
After(s, t, n) ==
    /\ Agree(s, t, n)
    /\ Len(s) = n /\ DOMAIN s = 1 .. n
    /\ Len(t) = n + 1 /\ DOMAIN t = 1 .. n + 1

LEMMA AppendAfter ==
    ASSUME NEW s \in Seq(Messages), NEW m \in Messages
    PROVE  /\ After(s, Append(s, m), Len(s))
           /\ Append(s, m)[Len(s) + 1] = m
<1>1. Len(s) \in Nat /\ DOMAIN s = 1 .. Len(s)
  BY LenProperties
<1>2. /\ Append(s, m) \in Seq(Messages)
      /\ Len(Append(s, m)) = Len(s) + 1
      /\ \A i \in 1 .. Len(s) : Append(s, m)[i] = s[i]
      /\ Append(s, m)[Len(s) + 1] = m
  BY AppendProperties
<1>3. DOMAIN Append(s, m) = 1 .. Len(s) + 1
  BY <1>2, LenProperties
<1> QED BY <1>1, <1>2, <1>3 DEF After, Agree

(* What is said of a message, for a sequence that ends with it or goes on.   *)
AmbiguousAt(s, i) ==
    /\ ~GivenUp(s, i)
    /\ \/ \E q \in Outstanding(s, i) : SameKey(s, q, i)
       \/ \E q \in 1 .. i - 1 : Addresses(s, q, i) /\ Poisoned(s, q, i)

MatchedAt(s, r) == \E q \in 1 .. r - 1 : Matches(s, q, r)

LEMMA SameAmbiguous ==
    ASSUME NEW s, NEW t, NEW n, Agree(s, t, n), NEW i \in 1 .. n
    PROVE  AmbiguousAt(t, i) <=> AmbiguousAt(s, i)
<1>1. i \in 1 .. n + 1 /\ \A q \in 1 .. i - 1 : q \in 1 .. n
  BY DEF Agree
<1>2. GivenUp(t, i) <=> GivenUp(s, i)
  BY <1>1, SameGivenUp
<1>3. Outstanding(t, i) = Outstanding(s, i)
  BY <1>1, SameOutstanding
<1>4. \A q \in Outstanding(s, i) : SameKey(t, q, i) <=> SameKey(s, q, i)
  BY <1>1, SamePair DEF Outstanding
<1>5. \A q \in 1 .. i - 1 : /\ Addresses(t, q, i) <=> Addresses(s, q, i)
                            /\ Poisoned(t, q, i) <=> Poisoned(s, q, i)
  BY <1>1, SamePair, SamePoisoned
<1> QED BY <1>2, <1>3, <1>4, <1>5, Zenon DEF AmbiguousAt

LEMMA MatchesEarlier ==
    ASSUME NEW s, NEW q \in Nat, NEW r \in Nat, Matches(s, q, r)
    PROVE  q < r /\ IsRequest(s, q) /\ ~IsRequest(s, r)
BY DEF Matches, Answers, Addresses

LEMMA SetsByMessage ==
    ASSUME NEW s, NEW n \in Nat, DOMAIN s = 1 .. n
    PROVE  /\ Matched(s) = {r \in 1 .. n : MatchedAt(s, r)}
           /\ Ambiguous(s) = {i \in 1 .. n : AmbiguousAt(s, i)}
           /\ Unmatched(s) = {r \in 1 .. n : ~IsRequest(s, r) /\ ~MatchedAt(s, r)
                                                /\ ~AmbiguousAt(s, r)}
           /\ Unanswered(s) = {q \in 1 .. n : /\ IsRequest(s, q)
                                              /\ ~AmbiguousAt(s, q)
                                              /\ ~\E r \in 1 .. n : Matches(s, q, r)}
<1>1. ASSUME NEW r \in 1 .. n
      PROVE  (\E q \in 1 .. n : Matches(s, q, r)) <=> MatchedAt(s, r)
  <2>1. \A q \in 1 .. n : Matches(s, q, r) => q \in 1 .. r - 1
    BY MatchesEarlier
  <2>2. \A q \in 1 .. r - 1 : q \in 1 .. n
    OBVIOUS
  <2> QED BY <2>1, <2>2, Zenon DEF MatchedAt
<1>2. Matched(s) = {r \in 1 .. n : MatchedAt(s, r)}
  BY <1>1, Zenon DEF Matched
<1>3. Ambiguous(s) = {i \in 1 .. n : AmbiguousAt(s, i)}
  BY Zenon DEF Ambiguous, AmbiguousAt
<1>4. Unmatched(s) = {r \in 1 .. n : ~IsRequest(s, r) /\ ~MatchedAt(s, r) /\ ~AmbiguousAt(s, r)}
  BY <1>2, <1>3, Zenon DEF Unmatched
<1>5. Unanswered(s) = {q \in 1 .. n : /\ IsRequest(s, q)
                                      /\ ~AmbiguousAt(s, q)
                                      /\ ~\E r \in 1 .. n : Matches(s, q, r)}
  BY <1>3, Zenon DEF Unanswered
<1> QED BY <1>2, <1>3, <1>4, <1>5, Zenon

(* How the sets grow with a message.                                         *)
LEMMA SetsAfter ==
    ASSUME NEW s, NEW t, NEW n, After(s, t, n)
    PROVE  /\ Matched(t) = Matched(s) \cup {r \in {n + 1} : MatchedAt(t, r)}
           /\ Ambiguous(t) = Ambiguous(s) \cup {i \in {n + 1} : AmbiguousAt(t, i)}
           /\ Unmatched(t) = Unmatched(s) \cup
                  {r \in {n + 1} : ~IsRequest(t, r) /\ ~MatchedAt(t, r) /\ ~AmbiguousAt(t, r)}
           /\ Unanswered(t) = {q \in Unanswered(s) : ~Matches(t, q, n + 1)} \cup
                  {q \in {n + 1} : IsRequest(t, q) /\ ~AmbiguousAt(t, q)}
<1>0. /\ n \in Nat /\ Agree(s, t, n) /\ DOMAIN s = 1 .. n /\ DOMAIN t = 1 .. n + 1
      /\ n + 1 \in Nat
  BY DEF After, Agree
<1>1. 1 .. n + 1 = (1 .. n) \cup {n + 1} /\ n + 1 \notin 1 .. n
  BY <1>0
<1>2. ASSUME NEW r \in 1 .. n
      PROVE  /\ IsRequest(t, r) <=> IsRequest(s, r)
             /\ AmbiguousAt(t, r) <=> AmbiguousAt(s, r)
             /\ MatchedAt(t, r) <=> MatchedAt(s, r)
             /\ (\E p \in 1 .. n + 1 : Matches(t, r, p)) <=>
                    ((\E p \in 1 .. n : Matches(s, r, p)) \/ Matches(t, r, n + 1))
  <2>1. /\ IsRequest(t, r) <=> IsRequest(s, r)
        /\ AmbiguousAt(t, r) <=> AmbiguousAt(s, r)
    BY <1>0, SamePair, SameAmbiguous
  <2>2. \A q \in 1 .. r - 1 : q \in 1 .. n
    BY <1>0
  <2>3. \A q \in 1 .. r - 1 : Matches(t, q, r) <=> Matches(s, q, r)
    BY <1>0, <2>2, SameMatches
  <2>4. MatchedAt(t, r) <=> MatchedAt(s, r)
    BY <2>3, Zenon DEF MatchedAt
  <2>5. \A p \in 1 .. n : Matches(t, r, p) <=> Matches(s, r, p)
    BY <1>0, SameMatches
  <2>6. (\E p \in 1 .. n + 1 : Matches(t, r, p)) <=>
            ((\E p \in 1 .. n : Matches(s, r, p)) \/ Matches(t, r, n + 1))
    BY <1>1, <2>5, Zenon
  <2> QED BY <2>1, <2>4, <2>6, Zenon
<1>3. ~\E p \in 1 .. n + 1 : Matches(t, n + 1, p)
  <2> SUFFICES ASSUME NEW p \in 1 .. n + 1, Matches(t, n + 1, p) PROVE FALSE
    OBVIOUS
  <2>1. p \in Nat
    BY <1>0
  <2>2. n + 1 < p
    BY <1>0, <2>1, MatchesEarlier
  <2> QED BY <1>0, <2>1, <2>2
<1>4. /\ Matched(s) = {r \in 1 .. n : MatchedAt(s, r)}
      /\ Ambiguous(s) = {i \in 1 .. n : AmbiguousAt(s, i)}
      /\ Unmatched(s) = {r \in 1 .. n : ~IsRequest(s, r) /\ ~MatchedAt(s, r) /\ ~AmbiguousAt(s, r)}
      /\ Unanswered(s) = {q \in 1 .. n : /\ IsRequest(s, q)
                                         /\ ~AmbiguousAt(s, q)
                                         /\ ~\E r \in 1 .. n : Matches(s, q, r)}
  BY <1>0, SetsByMessage
<1>5. /\ Matched(t) = {r \in 1 .. n + 1 : MatchedAt(t, r)}
      /\ Ambiguous(t) = {i \in 1 .. n + 1 : AmbiguousAt(t, i)}
      /\ Unmatched(t) = {r \in 1 .. n + 1 : ~IsRequest(t, r) /\ ~MatchedAt(t, r)
                                               /\ ~AmbiguousAt(t, r)}
      /\ Unanswered(t) = {q \in 1 .. n + 1 : /\ IsRequest(t, q)
                                             /\ ~AmbiguousAt(t, q)
                                             /\ ~\E r \in 1 .. n + 1 : Matches(t, q, r)}
  BY <1>0, SetsByMessage
<1>6. Matched(t) = Matched(s) \cup {r \in {n + 1} : MatchedAt(t, r)}
  BY <1>1, <1>2, <1>4, <1>5, Zenon
<1>7. Ambiguous(t) = Ambiguous(s) \cup {i \in {n + 1} : AmbiguousAt(t, i)}
  BY <1>1, <1>2, <1>4, <1>5, Zenon
<1>8. Unmatched(t) = Unmatched(s) \cup
          {r \in {n + 1} : ~IsRequest(t, r) /\ ~MatchedAt(t, r) /\ ~AmbiguousAt(t, r)}
  BY <1>1, <1>2, <1>4, <1>5, Zenon
<1>9. Unanswered(t) = {q \in Unanswered(s) : ~Matches(t, q, n + 1)} \cup
          {q \in {n + 1} : IsRequest(t, q) /\ ~AmbiguousAt(t, q)}
  <2>1. ASSUME NEW q \in 1 .. n
        PROVE  q \in Unanswered(t) <=> q \in Unanswered(s) /\ ~Matches(t, q, n + 1)
    BY <1>1, <1>2, <1>4, <1>5, Zenon
  <2>2. n + 1 \in Unanswered(t) <=> IsRequest(t, n + 1) /\ ~AmbiguousAt(t, n + 1)
    BY <1>1, <1>3, <1>5, Zenon
  <2>3. Unanswered(t) \subseteq 1 .. n + 1 /\ Unanswered(s) \subseteq 1 .. n
    BY <1>4, <1>5, Zenon
  <2> QED BY <1>1, <2>1, <2>2, <2>3, Zenon
<1> QED BY <1>6, <1>7, <1>8, <1>9, Zenon

-----------------------------------------------------------------------------
(* A pending request names itself, and what its mark means in the exchange:  *)
(* PENDING is a request whose answer would be matched, the latest of its     *)
(* key, with every earlier one answered; AMBIGUOUS is a poisoned key.        *)
Pended(s, o) ==
    LET q == o.message
        now == Len(s) + 1
    IN /\ ~Poisoned(s, q, now)
       /\ \A r \in q + 1 .. Len(s) : ~Answers(s, q, r)
       /\ \A p \in 1 .. Len(s) : SameKey(s, q, p) => p <= q
       /\ \A p \in 1 .. q - 1 : SameKey(s, p, q) => \E r \in p + 1 .. Len(s) : Answers(s, p, r)

Entry(s, o) ==
    /\ o.request = o.message
    /\ IsRequest(s, o.message)
    /\ o.status \in {"PENDING", "AMBIGUOUS"}
    /\ o.status = "PENDING" => Pended(s, o)
    /\ o.status = "AMBIGUOUS" => Poisoned(s, o.message, Len(s) + 1)

(* The key of request q has no entry: there is nothing left to answer.       *)
Settled(s, q) == ~Poisoned(s, q, Len(s) + 1) /\ \E r \in q + 1 .. Len(s) : Answers(s, q, r)

HasEntry(d, q) == \E i \in DOMAIN d.requests : KeyOf(d.seen, d.requests[i]) = Key(d.seen[q])

Requested(d) == {d.requests[i].message : i \in DOMAIN d.requests}

(* The table of an open window is what the exchange says is outstanding.     *)
Tabled(d) ==
    /\ \A i \in DOMAIN d.requests : Entry(d.seen, d.requests[i])
    /\ \A q \in 1 .. Len(d.seen) :
           IsRequest(d.seen, q) => HasEntry(d, q) \/ Settled(d.seen, q)
    /\ Unanswered(d.seen) = Requested(d)

(* What is known of a correlation state whether its window is open or not.   *)
Known(d) ==
    /\ d.unavailable <=> GivenUp(d.seen, Len(d.seen) + 1)
    /\ \A i \in DOMAIN d.observations :
           d.observations[i].status = "MATCHED" =>
               Matches(d.seen, d.observations[i].request, d.observations[i].message)
    /\ d.stats["MATCHED"] = Cardinality(Matched(d.seen))
    /\ d.stats["AMBIGUOUS"] = Cardinality(Ambiguous(d.seen))
    /\ d.stats["UNMATCHED"] = Cardinality(Unmatched(d.seen))

Open(d) ==
    /\ ~d.unavailable => Tabled(d)
    /\ d.stats["UNRESOLVED"] = IF d.unavailable THEN Cardinality(Unanswered(d.seen)) ELSE 0

ExchangeInv ==
    /\ DNSInv
    /\ \A d \in Live : Known(d)
    /\ ~closed => \A d \in Live : Open(d)
    /\ closed => state.stats["UNRESOLVED"] = Cardinality(Unanswered(state.seen))

-----------------------------------------------------------------------------
(* Counting.                                                                 *)
LEMMA FoldedOne ==
    ASSUME NEW stats \in [Counters -> Nat], NEW o \in Observations, NEW c \in Terminal
    PROVE  Folded(stats, <<o>>)[c] = stats[c] + (IF o.status = c THEN 1 ELSE 0)
<1>1. c \in Counters /\ c # "messages" /\ stats[c] \in Nat
  BY DEF Counters, Terminal
<1>2. CASE o.status # c
  BY <1>1, <1>2, FoldedSingle
<1>3. CASE o.status = c
  <2>1. {i \in DOMAIN <<o>> : <<o>>[i].status = c} = {1}
    BY <1>3
  <2>2. Cardinality({1}) = 1
    BY FS_Singleton
  <2>3. Folded(stats, <<o>>)[c] = stats[c] + Cardinality({i \in DOMAIN <<o>> : <<o>>[i].status = c})
    BY <1>1 DEF Folded
  <2> QED BY <1>3, <2>1, <2>2, <2>3
<1> QED BY <1>2, <1>3

LEMMA FoldedLost ==
    ASSUME NEW stats \in [Counters -> Nat], NEW obs \in Seq(Observations),
           \A i \in DOMAIN obs : obs[i].status = "UNRESOLVED", NEW c \in Terminal
    PROVE  Folded(stats, obs)[c] = stats[c] + (IF c = "UNRESOLVED" THEN Len(obs) ELSE 0)
<1> DEFINE with == {i \in DOMAIN obs : obs[i].status = c}
<1>1. c \in Counters /\ c # "messages" /\ stats[c] \in Nat
  BY DEF Counters, Terminal
<1>2. Folded(stats, obs)[c] = stats[c] + Cardinality(with)
  BY <1>1 DEF Folded
<1>3. DOMAIN obs = 1 .. Len(obs) /\ Len(obs) \in Nat
  BY LenProperties
<1>4. CASE c = "UNRESOLVED"
  <2>1. with = 1 .. Len(obs)
    BY <1>3, <1>4
  <2>2. \A n \in Nat : Cardinality(1 .. n) = n
    BY FS_Interval
  <2> QED BY <1>2, <1>3, <1>4, <2>1, <2>2
<1>5. CASE c # "UNRESOLVED"
  <2>1. with = {}
    BY <1>5
  <2> QED BY <1>1, <1>2, <1>5, <2>1, FS_EmptySet
<1> QED BY <1>4, <1>5

LEMMA OneMore ==
    ASSUME NEW n \in Nat, NEW S \in SUBSET (1 .. n), NEW T \in SUBSET {n + 1}
    PROVE  /\ IsFiniteSet(S)
           /\ Cardinality(S) \in Nat
           /\ Cardinality(S \cup T) = Cardinality(S) + (IF n + 1 \in T THEN 1 ELSE 0)
<1>0. n \in Int /\ 1 \in Int /\ n + 1 \notin 1 .. n
  OBVIOUS
<1>1. IsFiniteSet(S)
  <2>1. IsFiniteSet(1 .. n)
    BY <1>0, FS_Interval
  <2> QED BY <2>1, FS_Subset
<1>2. Cardinality(S) \in Nat
  BY <1>1, FS_CardinalityType
<1>3. n + 1 \notin S
  BY <1>0, Zenon
<1>4. CASE n + 1 \in T
  <2>1. S \cup T = S \cup {n + 1}
    BY <1>4, Zenon
  <2>2. Cardinality(S \cup {n + 1}) = Cardinality(S) + 1
    BY <1>1, <1>3, FS_AddElement
  <2> QED BY <1>1, <1>2, <1>4, <2>1, <2>2
<1>5. CASE n + 1 \notin T
  <2>1. S \cup T = S
    BY <1>5, Zenon
  <2>2. Cardinality(S) + 0 = Cardinality(S)
    BY <1>2
  <2> QED BY <1>1, <1>2, <1>5, <2>1, <2>2
<1> QED BY <1>4, <1>5

LEMMA CountsAfter ==
    ASSUME NEW s, NEW t, NEW n, After(s, t, n)
    PROVE  /\ Cardinality(Matched(t)) =
                  Cardinality(Matched(s)) + (IF MatchedAt(t, n + 1) THEN 1 ELSE 0)
           /\ Cardinality(Ambiguous(t)) =
                  Cardinality(Ambiguous(s)) + (IF AmbiguousAt(t, n + 1) THEN 1 ELSE 0)
           /\ Cardinality(Unmatched(t)) =
                  Cardinality(Unmatched(s)) +
                      (IF ~IsRequest(t, n + 1) /\ ~MatchedAt(t, n + 1) /\ ~AmbiguousAt(t, n + 1)
                       THEN 1 ELSE 0)
<1> DEFINE U == {r \in {n + 1} : ~IsRequest(t, r) /\ ~MatchedAt(t, r) /\ ~AmbiguousAt(t, r)}
           M == {r \in {n + 1} : MatchedAt(t, r)}
           A == {i \in {n + 1} : AmbiguousAt(t, i)}
<1>1. /\ Matched(t) = Matched(s) \cup M
      /\ Ambiguous(t) = Ambiguous(s) \cup A
      /\ Unmatched(t) = Unmatched(s) \cup U
  BY SetsAfter
<1>2. n \in Nat /\ DOMAIN s = 1 .. n
  BY DEF After, Agree
<1>3. /\ Matched(s) \in SUBSET (1 .. n) /\ Ambiguous(s) \in SUBSET (1 .. n)
      /\ Unmatched(s) \in SUBSET (1 .. n)
  BY <1>2, Zenon DEF Matched, Ambiguous, Unmatched
<1>4. M \in SUBSET {n + 1} /\ A \in SUBSET {n + 1} /\ U \in SUBSET {n + 1}
  OBVIOUS
<1>5. /\ n + 1 \in M <=> MatchedAt(t, n + 1)
      /\ n + 1 \in A <=> AmbiguousAt(t, n + 1)
      /\ n + 1 \in U <=> ~IsRequest(t, n + 1) /\ ~MatchedAt(t, n + 1) /\ ~AmbiguousAt(t, n + 1)
  BY Zenon
<1> HIDE DEF M, A, U
<1>6. Cardinality(Matched(s) \cup M) = Cardinality(Matched(s)) + (IF n + 1 \in M THEN 1 ELSE 0)
  BY <1>2, <1>3, <1>4, OneMore
<1>7. Cardinality(Ambiguous(s) \cup A) = Cardinality(Ambiguous(s)) + (IF n + 1 \in A THEN 1 ELSE 0)
  BY <1>2, <1>3, <1>4, OneMore
<1>8. Cardinality(Unmatched(s) \cup U) = Cardinality(Unmatched(s)) + (IF n + 1 \in U THEN 1 ELSE 0)
  BY <1>2, <1>3, <1>4, OneMore
<1> QED BY <1>1, <1>5, <1>6, <1>7, <1>8, Zenon

-----------------------------------------------------------------------------
(* Keys, for messages of a typed sequence.                                   *)
LEMMA Opposites ==
    ASSUME NEW d \in Directions, NEW e \in Directions
    PROVE  d # e <=> d = Opposite(e)
<1>1. PICK a, b \in Directions : a # b /\ Directions = {a, b}
  BY DirectionsAssumption
<1>2. Opposite(e) \in Directions /\ Opposite(e) # e
  BY <1>1 DEF Opposite
<1> QED BY <1>1, <1>2

LEMMA KeyEqual ==
    ASSUME NEW s \in Seq(Messages), NEW q \in 1 .. Len(s), IsRequest(s, q), NEW i \in 1 .. Len(s)
    PROVE  /\ Key(s[q]) = <<s[q].direction, s[q].id>>
           /\ IsRequest(s, i) => (Key(s[q]) = Key(s[i]) <=> SameKey(s, q, i))
           /\ q < i /\ ~IsRequest(s, i) => (Key(s[q]) = Key(s[i]) <=> Addresses(s, q, i))
<1>1. s[q] \in Messages /\ s[i] \in Messages
  BY ElementOfSeq
<1>2. s[q].direction \in Directions /\ s[i].direction \in Directions
  BY <1>1 DEF Messages
<1>3. Key(s[q]) = <<s[q].direction, s[q].id>>
  BY Zenon DEF Key, IsRequest
<1>4. ASSUME IsRequest(s, i) PROVE Key(s[q]) = Key(s[i]) <=> SameKey(s, q, i)
  <2>1. Key(s[i]) = <<s[i].direction, s[i].id>>
    BY <1>4, Zenon DEF Key, IsRequest
  <2>2. SameKey(s, q, i) <=> (s[q].direction = s[i].direction /\ s[q].id = s[i].id)
    BY <1>4, Zenon DEF SameKey
  <2> QED BY <1>3, <2>1, <2>2
<1>5. ASSUME q < i, ~IsRequest(s, i) PROVE Key(s[q]) = Key(s[i]) <=> Addresses(s, q, i)
  <2>1. Key(s[i]) = <<Opposite(s[i].direction), s[i].id>>
    BY <1>5, Zenon DEF Key, IsRequest
  <2>2. Addresses(s, q, i) <=> (s[q].direction # s[i].direction /\ s[q].id = s[i].id)
    BY <1>5, Zenon DEF Addresses
  <2>3. s[q].direction # s[i].direction <=> s[q].direction = Opposite(s[i].direction)
    BY <1>2, Opposites
  <2> QED BY <1>3, <2>1, <2>2, <2>3
<1> QED BY <1>3, <1>4, <1>5, Zenon

LEMMA SameKeys ==
    ASSUME NEW s, NEW a, NEW b, SameKey(s, a, b)
    PROVE  /\ SameKey(s, b, a) /\ SameKey(s, a, a)
           /\ \A c : SameKey(s, b, c) => SameKey(s, a, c)
BY Zenon DEF SameKey

LEMMA PoisonShared ==
    ASSUME NEW s, NEW a, NEW b, SameKey(s, a, b), NEW i
    PROVE  Poisoned(s, a, i) <=> Poisoned(s, b, i)
<1>1. \A c : SameKey(s, c, a) <=> SameKey(s, c, b)
  BY SameKeys, Zenon
<1> QED BY <1>1, Zenon DEF Poisoned

-----------------------------------------------------------------------------
(* A message m meets the state d: the window's messages become t, m is the   *)
(* last of them.                                                             *)
NewSeen(d, m, t, n) == t = Append(d.seen, m) /\ n = Len(d.seen)

LEMMA NewFacts ==
    ASSUME NEW d, Sound(d), NEW m \in Messages, NEW t, NEW n, NewSeen(d, m, t, n)
    PROVE  /\ n \in Nat /\ n = Len(d.seen) /\ Len(t) = n + 1
           /\ d.seen \in Seq(Messages) /\ t \in Seq(Messages)
           /\ After(d.seen, t, n) /\ Agree(d.seen, t, n)
           /\ t[n + 1] = m /\ (IsRequest(t, n + 1) <=> ~m.response)
           /\ \A q \in 1 .. n : t[q] = d.seen[q]
<1>1. d.seen \in Seq(Messages)
  BY Fields
<1>2. /\ n = Len(d.seen)
      /\ After(d.seen, t, n) /\ t[n + 1] = m
      /\ t \in Seq(Messages)
  BY <1>1, AppendAfter, AppendProperties DEF NewSeen
<1>3. /\ n \in Nat /\ Len(t) = n + 1 /\ Agree(d.seen, t, n)
      /\ \A q \in 1 .. n : t[q] = d.seen[q]
  BY <1>2 DEF After, Agree
<1>4. IsRequest(t, n + 1) <=> ~m.response
  BY <1>2, Zenon DEF IsRequest
<1> QED BY <1>1, <1>2, <1>3, <1>4, Zenon

(* Message i uses the key of the request q.                                  *)
Concerns(s, q, i) == SameKey(s, q, i) \/ Addresses(s, q, i)

LEMMA KeyConcerns ==
    ASSUME NEW s \in Seq(Messages), NEW q \in 1 .. Len(s), NEW i \in 1 .. Len(s), q < i,
           IsRequest(s, q)
    PROVE  Key(s[q]) = Key(s[i]) <=> Concerns(s, q, i)
<1>1. CASE IsRequest(s, i)
  <2>1. Key(s[q]) = Key(s[i]) <=> SameKey(s, q, i)
    BY <1>1, KeyEqual
  <2>2. ~Addresses(s, q, i)
    BY <1>1, Zenon DEF Addresses
  <2> QED BY <2>1, <2>2, Zenon DEF Concerns
<1>2. CASE ~IsRequest(s, i)
  <2>1. Key(s[q]) = Key(s[i]) <=> Addresses(s, q, i)
    BY <1>2, KeyEqual
  <2>2. ~SameKey(s, q, i)
    BY <1>2, Zenon DEF SameKey
  <2> QED BY <2>1, <2>2, Zenon DEF Concerns
<1> QED BY <1>1, <1>2

LEMMA MessageOf ==
    ASSUME NEW d, Sound(d), NEW i \in DOMAIN d.requests
    PROVE  d.requests[i].message \in 1 .. Len(d.seen)
BY Zenon DEF Sound

LEMMA HeldConcerns ==
    ASSUME NEW d, Sound(d), NEW m \in Messages, NEW t, NEW n, NewSeen(d, m, t, n),
           NEW q \in 1 .. n, IsRequest(d.seen, q)
    PROVE  /\ Key(d.seen[q]) = Key(m) <=> Concerns(t, q, n + 1)
           /\ \A i \in DOMAIN d.requests :
                  d.requests[i].message = q => (i \in Held(d, m) <=> Concerns(t, q, n + 1))
<1>1. /\ q \in 1 .. Len(t) /\ n + 1 \in 1 .. Len(t) /\ q < n + 1
      /\ t \in Seq(Messages) /\ t[q] = d.seen[q] /\ t[n + 1] = m
      /\ IsRequest(t, q) <=> IsRequest(d.seen, q)
  BY NewFacts, SamePair
<1>2. Key(t[q]) = Key(t[n + 1]) <=> Concerns(t, q, n + 1)
  BY <1>1, KeyConcerns
<1>3. Key(d.seen[q]) = Key(m) <=> Concerns(t, q, n + 1)
  BY <1>1, <1>2, Zenon
<1> QED BY <1>3, Zenon DEF Held

LEMMA HeldOnce ==
    ASSUME NEW d, Sound(d), NEW m, NEW i \in Held(d, m), NEW j \in Held(d, m)
    PROVE  i = j
<1>1. i \in DOMAIN d.requests /\ j \in DOMAIN d.requests
  BY Zenon DEF Held
<1>2. KeyOf(d.seen, d.requests[i]) = KeyOf(d.seen, d.requests[j])
  BY Zenon DEF Held, KeyOf
<1> QED BY <1>1, <1>2, Zenon DEF Sound

(* A key with an outstanding request has an entry, and every entry is one.   *)
LEMMA OutstandingHas ==
    ASSUME NEW d, Sound(d), Tabled(d), NEW q \in 1 .. Len(d.seen), IsRequest(d.seen, q),
           \/ Poisoned(d.seen, q, Len(d.seen) + 1)
           \/ \A r \in q + 1 .. Len(d.seen) : ~Answers(d.seen, q, r)
    PROVE  HasEntry(d, q)
BY Zenon DEF Tabled, Settled

LEMMA EntryOutstanding ==
    ASSUME NEW d, Sound(d), Tabled(d), NEW i \in DOMAIN d.requests
    PROVE  d.requests[i].message \in Outstanding(d.seen, Len(d.seen) + 1)
<1> DEFINE s == d.seen
           q == d.requests[i].message
<1>0. Len(s) \in Nat
  BY Fields
<1>1. /\ Entry(d.seen, d.requests[i]) /\ q \in 1 .. Len(s)
      /\ 1 .. (Len(s) + 1) - 1 = 1 .. Len(s) /\ q + 1 .. (Len(s) + 1) - 1 = q + 1 .. Len(s)
  <2>1. Entry(d.seen, d.requests[i])
    BY Zenon DEF Tabled
  <2> QED BY <1>0, <2>1, MessageOf
<1>2. Poisoned(s, q, Len(s) + 1) \/ \A r \in q + 1 .. Len(s) : ~Answers(s, q, r)
  BY <1>1, Zenon DEF Entry, Pended
<1>3. IsRequest(s, q)
  BY <1>1, Zenon DEF Entry
<1>4. q \in 1 .. (Len(s) + 1) - 1 /\ (\/ Poisoned(s, q, Len(s) + 1)
                                    \/ \A r \in q + 1 .. (Len(s) + 1) - 1 : ~Answers(s, q, r))
  BY <1>1, <1>2
<1> QED BY <1>3, <1>4, Zenon DEF Outstanding

LEMMA OutstandingEntry ==
    ASSUME NEW d, Sound(d), Tabled(d), NEW m \in Messages, NEW t, NEW n, NewSeen(d, m, t, n),
           NEW q \in 1 .. n, IsRequest(d.seen, q), Concerns(t, q, n + 1),
           \/ Poisoned(d.seen, q, n + 1)
           \/ \A r \in q + 1 .. n : ~Answers(d.seen, q, r)
    PROVE  \E i \in Held(d, m) : SameKey(d.seen, q, d.requests[i].message)
<1>0. n = Len(d.seen) /\ d.seen \in Seq(Messages)
  BY NewFacts
<1>1. PICK i \in DOMAIN d.requests : KeyOf(d.seen, d.requests[i]) = Key(d.seen[q])
  <2>1. HasEntry(d, q)
    BY <1>0, OutstandingHas
  <2> QED BY <2>1, Zenon DEF HasEntry
<1>2. Key(d.seen[q]) = Key(m)
  BY HeldConcerns
<1>3. i \in Held(d, m)
  BY <1>1, <1>2, Zenon DEF Held, KeyOf
<1>4. d.requests[i].message \in 1 .. Len(d.seen)
  BY <1>1, MessageOf
<1>5. IsRequest(d.seen, d.requests[i].message)
  BY <1>1, Zenon DEF Tabled, Entry
<1>6. SameKey(d.seen, q, d.requests[i].message)
  <2>1. Key(d.seen[q]) = Key(d.seen[d.requests[i].message])
    BY <1>1, Zenon DEF KeyOf
  <2> QED BY <1>0, <1>4, <1>5, <2>1, KeyEqual
<1> QED BY <1>3, <1>6, Zenon

(* The entry of an answer is PENDING unless its key is poisoned, and it is   *)
(* the request itself unless that was answered before.                       *)
LEMMA EntryOfRequest ==
    ASSUME NEW d, Sound(d), Tabled(d), NEW i \in DOMAIN d.requests,
           NEW q \in 1 .. Len(d.seen), SameKey(d.seen, q, d.requests[i].message)
    PROVE  /\ d.requests[i].status = "AMBIGUOUS" <=> Poisoned(d.seen, q, Len(d.seen) + 1)
           /\ d.requests[i].status = "PENDING" \/ d.requests[i].status = "AMBIGUOUS"
           /\ /\ ~Poisoned(d.seen, q, Len(d.seen) + 1)
              /\ \A r \in q + 1 .. Len(d.seen) : ~Answers(d.seen, q, r)
              => d.requests[i].message = q
<1> DEFINE s == d.seen
           o == d.requests[i]
           p == d.requests[i].message
<1>0. Entry(s, o) /\ SameKey(s, p, q) /\ p \in 1 .. Len(s) /\ Len(s) \in Nat
  BY SameKeys, MessageOf, Fields DEF Tabled
<1>1. o.status = "PENDING" \/ o.status = "AMBIGUOUS"
  BY <1>0 DEF Entry
<1>2. Poisoned(s, p, Len(s) + 1) <=> Poisoned(s, q, Len(s) + 1)
  BY <1>0, PoisonShared
<1>3. o.status = "AMBIGUOUS" => Poisoned(s, p, Len(s) + 1)
  BY <1>0, Zenon DEF Entry
<1>4. o.status = "PENDING" => Pended(s, o)
  BY <1>0, Zenon DEF Entry
<1>5. Pended(s, o) => ~Poisoned(s, p, Len(s) + 1)
  BY Zenon DEF Pended
<1>6. ASSUME Pended(s, o), \A r \in q + 1 .. Len(s) : ~Answers(s, q, r) PROVE p = q
  <2>1. q <= p
    BY <1>0, <1>6, Zenon DEF Pended
  <2>2. ASSUME q \in 1 .. p - 1 PROVE FALSE
    BY <1>6, <2>2, Zenon DEF Pended
  <2>3. q < p => q \in 1 .. p - 1
    BY <1>0
  <2> QED BY <1>0, <2>1, <2>2, <2>3
<1> QED BY <1>1, <1>2, <1>3, <1>4, <1>5, <1>6, Zenon

(* A message matches the request that is the PENDING entry it answers.       *)
LEMMA MatchesIs ==
    ASSUME NEW d, Sound(d), Known(d), Tabled(d), ~d.unavailable, NEW m \in Messages,
           NEW t, NEW n, NewSeen(d, m, t, n), NEW q \in 1 .. n
    PROVE  Matches(t, q, n + 1) <=>
               m.response /\ \E i \in Answered(d, m) : d.requests[i].message = q
<1>0. /\ n \in Nat /\ n = Len(d.seen) /\ Agree(d.seen, t, n)
      /\ t[n + 1] = m /\ (IsRequest(t, n + 1) <=> ~m.response)
      /\ t[q] = d.seen[q]
      /\ q + 1 .. (n + 1) - 1 = q + 1 .. n /\ q \in 1 .. n + 1 /\ n + 1 \in 1 .. n + 1 /\ q < n + 1
  BY NewFacts
<1>1. /\ IsRequest(t, q) <=> IsRequest(d.seen, q)
      /\ Poisoned(t, q, n + 1) <=> Poisoned(d.seen, q, n + 1)
      /\ ~GivenUp(t, n + 1)
  BY <1>0, SamePair, SamePoisoned, SameGivenUp DEF Known
<1>2. \A r \in q + 1 .. (n + 1) - 1 : Answers(t, q, r) <=> Answers(d.seen, q, r)
  <2>1. \A r \in q + 1 .. n : r \in 1 .. n
    BY <1>0
  <2> QED BY <1>0, <2>1, SamePair
<1>3. ASSUME Matches(t, q, n + 1)
      PROVE  m.response /\ \E i \in Answered(d, m) : d.requests[i].message = q
  <2>1. /\ Addresses(t, q, n + 1) /\ d.seen[q].content = m.content
        /\ IsRequest(d.seen, q) /\ m.response
    BY <1>0, <1>1, <1>3, Zenon DEF Matches, Answers, Addresses
  <2>2. ~Poisoned(d.seen, q, n + 1) /\ \A r \in q + 1 .. n : ~Answers(d.seen, q, r)
    <3>1. \A r \in q + 1 .. (n + 1) - 1 : ~Answers(t, q, r)
      BY <1>3, Zenon DEF Matches
    <3>2. ~Poisoned(t, q, n + 1)
      BY <1>3, Zenon DEF Matches
    <3>3. \A r \in q + 1 .. (n + 1) - 1 : ~Answers(d.seen, q, r)
      BY <1>2, <3>1, Zenon
    <3> QED BY <1>0, <1>1, <3>2, <3>3
  <2>3. PICK i \in Held(d, m) : SameKey(d.seen, q, d.requests[i].message)
    <3>1. Concerns(t, q, n + 1)
      BY <2>1, Zenon DEF Concerns
    <3> QED BY <2>1, <2>2, <3>1, OutstandingEntry
  <2>4. i \in DOMAIN d.requests
    BY <2>3, Zenon DEF Held
  <2>5. d.requests[i].status # "AMBIGUOUS" /\ d.requests[i].message = q
    BY <1>0, <2>2, <2>3, <2>4, EntryOfRequest
  <2>6. d.requests[i].request = q
    BY <2>4, <2>5, Zenon DEF Tabled, Entry
  <2>7. i \in Answered(d, m)
    BY <2>1, <2>3, <2>5, <2>6, Zenon DEF Answered, Answerable
  <2> QED BY <2>1, <2>5, <2>7, Zenon
<1>4. ASSUME m.response, NEW i \in Answered(d, m), d.requests[i].message = q
      PROVE  Matches(t, q, n + 1)
  <2>1. /\ i \in Held(d, m) /\ d.requests[i].status # "AMBIGUOUS"
        /\ d.seen[d.requests[i].request].content = m.content
    BY <1>4, Zenon DEF Answered, Answerable
  <2>2. i \in DOMAIN d.requests
    BY <2>1, Zenon DEF Held
  <2>3. /\ Entry(d.seen, d.requests[i])
        /\ d.requests[i].request = q /\ IsRequest(d.seen, q)
    BY <1>4, <2>2, Zenon DEF Tabled, Entry
  <2>4. Pended(d.seen, d.requests[i])
    <3>1. d.requests[i].status = "PENDING"
      BY <2>1, <2>3 DEF Entry
    <3> QED BY <2>3, <3>1, Zenon DEF Entry
  <2>5. ~Poisoned(d.seen, q, n + 1) /\ \A r \in q + 1 .. n : ~Answers(d.seen, q, r)
    BY <1>0, <1>4, <2>4, Zenon DEF Pended
  <2>6. Addresses(t, q, n + 1)
    <3>1. Concerns(t, q, n + 1)
      BY <1>4, <2>1, <2>2, <2>3, HeldConcerns
    <3> QED BY <1>0, <1>4, <3>1, Zenon DEF Concerns, SameKey
  <2>7. Answers(t, q, n + 1)
    BY <1>0, <2>1, <2>3, <2>6, Zenon DEF Answers
  <2>8. \A r \in q + 1 .. (n + 1) - 1 : ~Answers(t, q, r)
    <3>1. \A r \in q + 1 .. (n + 1) - 1 : ~Answers(d.seen, q, r)
      BY <1>0, <2>5
    <3> QED BY <1>2, <3>1, Zenon
  <2> QED BY <1>1, <2>5, <2>7, <2>8, Zenon DEF Matches
<1> QED BY <1>3, <1>4, Zenon

(* A response is ambiguous when it finds an AMBIGUOUS entry, a request when  *)
(* it finds any.                                                             *)
LEMMA AmbiguousIs ==
    ASSUME NEW d, Sound(d), Known(d), Tabled(d), ~d.unavailable, NEW m \in Messages,
           NEW t, NEW n, NewSeen(d, m, t, n)
    PROVE  AmbiguousAt(t, n + 1) <=>
               \E i \in Held(d, m) : m.response => d.requests[i].status = "AMBIGUOUS"
<1>0. /\ n \in Nat /\ n = Len(d.seen) /\ Agree(d.seen, t, n)
      /\ t[n + 1] = m /\ (IsRequest(t, n + 1) <=> ~m.response)
      /\ 1 .. (n + 1) - 1 = 1 .. n /\ n + 1 \in 1 .. n + 1
  BY NewFacts
<1>1. ~GivenUp(t, n + 1) /\ Outstanding(t, n + 1) = Outstanding(d.seen, n + 1)
  BY <1>0, SameGivenUp, SameOutstanding DEF Known
<1>2. \A q \in 1 .. n : /\ IsRequest(t, q) <=> IsRequest(d.seen, q)
                        /\ Poisoned(t, q, n + 1) <=> Poisoned(d.seen, q, n + 1)
  <2>1. \A q \in 1 .. n : q \in 1 .. n + 1
    BY <1>0
  <2> QED BY <1>0, <2>1, SamePair, SamePoisoned
<1>3. ASSUME NEW q \in 1 .. n, IsRequest(d.seen, q), Concerns(t, q, n + 1),
             \/ Poisoned(d.seen, q, n + 1)
             \/ ~m.response /\ \A r \in q + 1 .. n : ~Answers(d.seen, q, r)
      PROVE  \E i \in Held(d, m) : m.response => d.requests[i].status = "AMBIGUOUS"
  <2>1. PICK i \in Held(d, m) : SameKey(d.seen, q, d.requests[i].message)
    BY <1>3, OutstandingEntry
  <2>2. i \in DOMAIN d.requests
    BY <2>1, Zenon DEF Held
  <2>3. Poisoned(d.seen, q, n + 1) => d.requests[i].status = "AMBIGUOUS"
    BY <1>0, <2>1, <2>2, EntryOfRequest
  <2> QED BY <1>3, <2>1, <2>3, Zenon
<1>4. ASSUME AmbiguousAt(t, n + 1)
      PROVE  \E i \in Held(d, m) : m.response => d.requests[i].status = "AMBIGUOUS"
  <2>1. ASSUME NEW q \in Outstanding(d.seen, n + 1), SameKey(t, q, n + 1)
        PROVE  \E i \in Held(d, m) : m.response => d.requests[i].status = "AMBIGUOUS"
    <3>1. /\ q \in 1 .. n /\ IsRequest(d.seen, q)
          /\ \/ Poisoned(d.seen, q, n + 1)
             \/ \A r \in q + 1 .. n : ~Answers(d.seen, q, r)
      BY <1>0, <2>1 DEF Outstanding
    <3>2. ~m.response /\ Concerns(t, q, n + 1)
      BY <1>0, <2>1, Zenon DEF SameKey, Concerns
    <3> QED BY <1>3, <3>1, <3>2
  <2>2. ASSUME NEW q \in 1 .. n, Addresses(t, q, n + 1), Poisoned(t, q, n + 1)
        PROVE  \E i \in Held(d, m) : m.response => d.requests[i].status = "AMBIGUOUS"
    <3>1. Concerns(t, q, n + 1) /\ IsRequest(d.seen, q) /\ Poisoned(d.seen, q, n + 1)
      BY <1>2, <2>2, Zenon DEF Addresses, Concerns
    <3> QED BY <1>3, <3>1
  <2> QED BY <1>0, <1>1, <1>4, <2>1, <2>2, Zenon DEF AmbiguousAt
<1>5. ASSUME NEW i \in Held(d, m), m.response => d.requests[i].status = "AMBIGUOUS"
      PROVE  AmbiguousAt(t, n + 1)
  <2> DEFINE q == d.requests[i].message
  <2>1. i \in DOMAIN d.requests
    BY Zenon DEF Held
  <2>2. Entry(d.seen, d.requests[i]) /\ IsRequest(d.seen, q)
    BY <2>1, Zenon DEF Tabled, Entry
  <2>3. q \in 1 .. n /\ q \in Outstanding(d.seen, n + 1)
    BY <1>0, <2>1, MessageOf, EntryOutstanding
  <2>4. Concerns(t, q, n + 1)
    BY <2>1, <2>2, <2>3, HeldConcerns
  <2>5. CASE m.response
    <3>1. Addresses(t, q, n + 1)
      BY <1>0, <2>4, <2>5, Zenon DEF Concerns, SameKey
    <3>2. Poisoned(t, q, n + 1)
      BY <1>0, <1>2, <1>5, <2>2, <2>3, <2>5, Zenon DEF Entry
    <3> QED BY <1>0, <1>1, <2>3, <3>1, <3>2, Zenon DEF AmbiguousAt
  <2>6. CASE ~m.response
    <3>1. SameKey(t, q, n + 1)
      BY <1>0, <2>4, <2>6, Zenon DEF Concerns, Addresses
    <3> QED BY <1>1, <2>3, <3>1, Zenon DEF AmbiguousAt
  <2> QED BY <2>5, <2>6
<1> QED BY <1>4, <1>5, Zenon

(* The keys outstanding are those of the table, one for each entry.          *)
LEMMA TableSize ==
    ASSUME NEW d, Sound(d), Tabled(d)
    PROVE  Cardinality({<<d.seen[q].direction, d.seen[q].id>> :
                            q \in Outstanding(d.seen, Len(d.seen) + 1)}) = Len(d.requests)
<1> DEFINE s == d.seen
           now == Len(s) + 1
           n == Len(d.requests)
           Keys == {<<s[q].direction, s[q].id>> : q \in Outstanding(s, now)}
           f == [i \in 1 .. n |-> Key(s[d.requests[i].message])]
<1>0. /\ s \in Seq(Messages) /\ n \in Nat /\ DOMAIN d.requests = 1 .. n
      /\ Len(s) \in Nat
  BY Fields
<1>1. ASSUME NEW q \in Outstanding(s, now)
      PROVE  /\ q \in 1 .. Len(s) /\ IsRequest(s, q)
             /\ Key(s[q]) = <<s[q].direction, s[q].id>>
             /\ HasEntry(d, q)
  <2>1. /\ q \in 1 .. Len(s) /\ IsRequest(s, q)
        /\ Poisoned(s, q, now) \/ \A r \in q + 1 .. Len(s) : ~Answers(s, q, r)
    BY <1>0, <1>1 DEF Outstanding
  <2>2. Key(s[q]) = <<s[q].direction, s[q].id>>
    BY <1>0, <2>1, KeyEqual
  <2>3. HasEntry(d, q)
    BY <2>1, OutstandingHas
  <2> QED BY <2>1, <2>2, <2>3
<1>2. ASSUME NEW i \in 1 .. n
      PROVE  d.requests[i].message \in Outstanding(s, now)
  BY <1>0, <1>2, EntryOutstanding
<1>3. f \in [1 .. n -> Keys]
  <2>1. ASSUME NEW i \in 1 .. n PROVE Key(s[d.requests[i].message]) \in Keys
    BY <1>1, <1>2, Zenon
  <2> QED BY <2>1, Zenon
<1>4. \A i, j \in 1 .. n : f[i] = f[j] => i = j
  BY <1>0, Zenon DEF Sound, KeyOf
<1>5. \A k \in Keys : \E i \in 1 .. n : f[i] = k
  <2> SUFFICES ASSUME NEW q \in Outstanding(s, now)
               PROVE  \E i \in 1 .. n : f[i] = <<s[q].direction, s[q].id>>
    BY Zenon
  <2>1. PICK i \in DOMAIN d.requests : KeyOf(s, d.requests[i]) = Key(s[q])
    BY <1>1, Zenon DEF HasEntry
  <2>2. i \in 1 .. n /\ f[i] = Key(s[q])
    BY <1>0, <2>1, Zenon DEF KeyOf
  <2> QED BY <1>1, <2>2, Zenon
<1> HIDE DEF Keys, f, n
<1>6. ExistsBijection(1 .. n, Keys)
  BY <1>3, <1>4, <1>5, Zenon DEF ExistsBijection, Bijection, Injection, Surjection, IsInjective
<1>7. Cardinality(Keys) = n
  BY <1>0, <1>6, FS_CountingElements
<1> QED BY <1>7 DEF Keys, n

LEMMA OneTooManyIs ==
    ASSUME NEW d, Sound(d), Known(d), Tabled(d), ~d.unavailable, NEW m \in Messages,
           NEW t, NEW n, NewSeen(d, m, t, n)
    PROVE  OneTooMany(t, n + 1) <=>
               ~m.response /\ Held(d, m) = {} /\ Len(d.requests) = MaxPending
<1>0. /\ n \in Nat /\ n = Len(d.seen) /\ Agree(d.seen, t, n)
      /\ t[n + 1] = m /\ (IsRequest(t, n + 1) <=> ~m.response)
      /\ n + 1 \in 1 .. n + 1
      /\ \A q \in 1 .. n : t[q] = d.seen[q]
  BY NewFacts
<1>1. ~GivenUp(t, n + 1) /\ Outstanding(t, n + 1) = Outstanding(d.seen, n + 1)
  BY <1>0, SameGivenUp, SameOutstanding DEF Known
<1>2. \A q \in Outstanding(d.seen, n + 1) : t[q] = d.seen[q]
  BY <1>0 DEF Outstanding
<1>3. {<<t[q].direction, t[q].id>> : q \in Outstanding(t, n + 1)}
          = {<<d.seen[q].direction, d.seen[q].id>> : q \in Outstanding(d.seen, n + 1)}
  BY <1>1, <1>2, Zenon
<1>4. Cardinality({<<t[q].direction, t[q].id>> : q \in Outstanding(t, n + 1)}) = Len(d.requests)
  BY <1>0, <1>3, TableSize
<1>5. ASSUME ~m.response
      PROVE  (\A q \in Outstanding(t, n + 1) : ~SameKey(t, q, n + 1)) <=> Held(d, m) = {}
  <2>1. AmbiguousAt(t, n + 1) <=> Held(d, m) # {}
    BY <1>5, AmbiguousIs, Zenon
  <2>2. \A q : ~Addresses(t, q, n + 1)
    BY <1>0, <1>5, Zenon DEF Addresses
  <2> QED BY <1>1, <2>1, <2>2, Zenon DEF AmbiguousAt
<1> QED BY <1>0, <1>4, <1>5, Zenon DEF OneTooMany

-----------------------------------------------------------------------------
(* What a message leaves as it was.                                          *)
LEMMA PoisonAfter ==
    ASSUME NEW s, NEW t, NEW n, After(s, t, n), NEW q \in 1 .. n
    PROVE  /\ Poisoned(s, q, n + 1) => Poisoned(t, q, Len(t) + 1)
           /\ Poisoned(t, q, Len(t) + 1) /\ ~SameKey(t, q, n + 1) => Poisoned(s, q, n + 1)
<1>0. /\ n \in Nat /\ Agree(s, t, n) /\ Len(t) = n + 1
      /\ q \in 1 .. n + 1 /\ n + 1 \in 1 .. n + 1
      /\ 1 .. (n + 1) - 1 = 1 .. n /\ 1 .. (Len(t) + 1) - 1 = 1 .. n + 1
  BY DEF After, Agree
<1>1. Poisoned(t, q, n + 1) <=> Poisoned(s, q, n + 1)
  BY <1>0, SamePoisoned
<1>2. Poisoned(t, q, n + 1) => Poisoned(t, q, Len(t) + 1)
  <2>1. \A a \in 1 .. n : a \in 1 .. n + 1
    BY <1>0
  <2> QED BY <1>0, <2>1, Zenon DEF Poisoned
<1>3. ASSUME Poisoned(t, q, Len(t) + 1), ~SameKey(t, q, n + 1) PROVE Poisoned(t, q, n + 1)
  <2>1. PICK a \in 1 .. n + 1, b \in 1 .. n + 1 : SameKey(t, a, q) /\ Crossed(t, a, b)
    BY <1>0, <1>3, Zenon DEF Poisoned
  <2>2. a < b /\ SameKey(t, a, b)
    BY <2>1, Zenon DEF Crossed
  <2>3. b # n + 1
    <3>1. SameKey(t, q, b)
      BY <2>1, <2>2, SameKeys, Zenon
    <3> QED BY <1>3, <3>1, Zenon
  <2>4. a \in 1 .. n /\ b \in 1 .. n
    BY <1>0, <2>1, <2>2, <2>3
  <2> QED BY <1>0, <2>1, <2>4, Zenon DEF Poisoned
<1> QED BY <1>1, <1>2, <1>3

LEMMA GivenUpAfter ==
    ASSUME NEW s, NEW t, NEW n, After(s, t, n)
    PROVE  GivenUp(t, Len(t) + 1) <=> GivenUp(s, n + 1) \/ OneTooMany(t, n + 1)
<1>0. /\ n \in Nat /\ Agree(s, t, n) /\ Len(t) = n + 1 /\ n + 1 \in 1 .. n + 1
      /\ 1 .. (n + 1) - 1 = 1 .. n /\ 1 .. (Len(t) + 1) - 1 = (1 .. n) \cup {n + 1}
  BY DEF After, Agree
<1>1. GivenUp(t, n + 1) <=> GivenUp(s, n + 1)
  BY <1>0, SameGivenUp
<1> QED BY <1>0, <1>1, Zenon DEF GivenUp

LEMMA EntryKept ==
    ASSUME NEW s, NEW t, NEW n, After(s, t, n), NEW o, o.message \in 1 .. n, Entry(s, o),
           ~SameKey(t, o.message, n + 1),
           Answers(t, o.message, n + 1) => o.status = "AMBIGUOUS"
    PROVE  Entry(t, o)
<1> DEFINE q == o.message
<1>0. /\ n \in Nat /\ Agree(s, t, n) /\ Len(t) = n + 1 /\ Len(s) = n
      /\ q \in 1 .. n
      /\ 1 .. Len(t) = (1 .. n) \cup {n + 1}
      /\ q + 1 .. Len(t) = (q + 1 .. n) \cup {n + 1}
      /\ \A r \in q + 1 .. n : r \in 1 .. n
  BY DEF After, Agree
<1>1. /\ o.request = o.message /\ IsRequest(s, q)
      /\ o.status \in {"PENDING", "AMBIGUOUS"}
      /\ o.status = "PENDING" => Pended(s, o)
      /\ o.status = "AMBIGUOUS" => Poisoned(s, q, n + 1)
  BY <1>0, Zenon DEF Entry
<1>2. o.status = "AMBIGUOUS" => Poisoned(t, q, Len(t) + 1)
  BY <1>1, PoisonAfter
<1>3. ASSUME o.status = "PENDING" PROVE Pended(t, o)
  <2>1. /\ ~Poisoned(s, q, n + 1)
        /\ \A r \in q + 1 .. n : ~Answers(s, q, r)
        /\ \A p \in 1 .. n : SameKey(s, q, p) => p <= q
        /\ \A p \in 1 .. q - 1 : SameKey(s, p, q) => \E r \in p + 1 .. n : Answers(s, p, r)
    BY <1>0, <1>1, <1>3, Zenon DEF Pended
  <2>2. ~Poisoned(t, q, Len(t) + 1)
    BY <2>1, PoisonAfter
  <2>3. \A r \in q + 1 .. Len(t) : ~Answers(t, q, r)
    <3>1. ~Answers(t, q, n + 1)
      BY <1>3
    <3>2. \A r \in q + 1 .. n : ~Answers(t, q, r)
      BY <1>0, <2>1, SamePair
    <3> QED BY <1>0, <3>1, <3>2
  <2>4. \A p \in 1 .. Len(t) : SameKey(t, q, p) => p <= q
    <3>1. \A p \in 1 .. n : SameKey(t, q, p) <=> SameKey(s, q, p)
      BY <1>0, SamePair
    <3> QED BY <1>0, <2>1, <3>1
  <2>5. ASSUME NEW p \in 1 .. q - 1, SameKey(t, p, q)
        PROVE  \E r \in p + 1 .. Len(t) : Answers(t, p, r)
    <3>1. p \in 1 .. n
      BY <1>0
    <3>2. SameKey(s, p, q)
      BY <1>0, <2>5, <3>1, SamePair
    <3>3. PICK r \in p + 1 .. n : Answers(s, p, r)
      BY <2>1, <3>2, Zenon
    <3>4. r \in 1 .. n /\ r \in p + 1 .. Len(t)
      BY <1>0, <3>1, <3>3
    <3>5. Answers(t, p, r)
      BY <1>0, <3>1, <3>3, <3>4, SamePair
    <3> QED BY <3>4, <3>5
  <2> QED BY <2>2, <2>3, <2>4, <2>5, Zenon DEF Pended
<1>4. IsRequest(t, q)
  BY <1>0, <1>1, SamePair
<1> QED BY <1>1, <1>2, <1>3, <1>4, Zenon DEF Entry

LEMMA SettledKept ==
    ASSUME NEW s, NEW t, NEW n, After(s, t, n), NEW q \in 1 .. n, Settled(s, q),
           ~SameKey(t, q, n + 1)
    PROVE  Settled(t, q)
<1>0. n \in Nat /\ Agree(s, t, n) /\ Len(t) = n + 1 /\ Len(s) = n
  BY DEF After, Agree
<1>1. ~Poisoned(s, q, n + 1) /\ \E r \in q + 1 .. n : Answers(s, q, r)
  BY <1>0, Zenon DEF Settled
<1>2. ~Poisoned(t, q, Len(t) + 1)
  BY <1>1, PoisonAfter
<1>3. PICK r \in q + 1 .. n : Answers(s, q, r)
  BY <1>1
<1>4. r \in 1 .. n /\ r \in q + 1 .. Len(t)
  BY <1>0, <1>3
<1>5. Answers(t, q, r)
  BY <1>0, <1>3, <1>4, SamePair
<1> QED BY <1>2, <1>4, <1>5, Zenon DEF Settled

-----------------------------------------------------------------------------
(* The state after a message.                                                *)
Made(d, m, e, requests, obs) ==
    /\ e.requests = requests /\ e.observations = obs
    /\ e.stats = Folded(d.stats, obs) /\ e.seen = Append(d.seen, m)

LEMMA UpdateGives ==
    ASSUME NEW d, NEW m, NEW requests, NEW obs, NEW unavailable \in BOOLEAN,
           Update(d, m, requests, obs, unavailable)
    PROVE  \A e \in candidate' : /\ Made(d, m, e, requests, obs)
                                 /\ e.unavailable <=> unavailable
<1> DEFINE e == [requests |-> requests, observations |-> obs, unavailable |-> unavailable,
                 stats |-> Folded(d.stats, obs), seen |-> Append(d.seen, m)]
<1>1. candidate' = {e}
  BY DEF Update
<1>2. /\ e.requests = requests /\ e.observations = obs /\ e.unavailable = unavailable
      /\ e.stats = Folded(d.stats, obs) /\ e.seen = Append(d.seen, m)
  OBVIOUS
<1> HIDE DEF e
<1>3. Made(d, m, e, requests, obs) /\ (e.unavailable <=> unavailable)
  BY <1>2, Zenon DEF Made
<1> QED BY <1>1, <1>3, Zenon

(* The counts and the match of one observation are those of its message.     *)
LEMMA SingleKnown ==
    ASSUME NEW d, Sound(d), Known(d), NEW m \in Messages, NEW t, NEW n, NewSeen(d, m, t, n),
           NEW o \in Observations, NEW e, NEW requests,
           Made(d, m, e, requests, <<o>>),
           o.status = "MATCHED" <=> MatchedAt(t, n + 1),
           o.status = "AMBIGUOUS" <=> AmbiguousAt(t, n + 1),
           o.status = "UNMATCHED" <=>
               ~IsRequest(t, n + 1) /\ ~MatchedAt(t, n + 1) /\ ~AmbiguousAt(t, n + 1),
           o.status = "MATCHED" => Matches(t, o.request, o.message),
           e.unavailable <=> GivenUp(t, Len(t) + 1)
    PROVE  /\ Known(e) /\ e.seen = t /\ e.requests = requests
           /\ e.stats["UNRESOLVED"] =
                  d.stats["UNRESOLVED"] + (IF o.status = "UNRESOLVED" THEN 1 ELSE 0)
<1>0. /\ e.seen = t /\ e.requests = requests /\ e.observations = <<o>>
      /\ e.stats = Folded(d.stats, <<o>>)
  BY Zenon DEF Made, NewSeen
<1>1. /\ d.stats \in [Counters -> Nat] /\ After(d.seen, t, n)
  BY Fields, NewFacts
<1>2. /\ "MATCHED" \in Terminal /\ "AMBIGUOUS" \in Terminal
      /\ "UNMATCHED" \in Terminal /\ "UNRESOLVED" \in Terminal
  BY DEF Terminal
<1>3. \A c \in Terminal : e.stats[c] = d.stats[c] + (IF o.status = c THEN 1 ELSE 0)
  BY <1>0, <1>1, FoldedOne
<1>4. /\ d.stats["MATCHED"] = Cardinality(Matched(d.seen))
      /\ d.stats["AMBIGUOUS"] = Cardinality(Ambiguous(d.seen))
      /\ d.stats["UNMATCHED"] = Cardinality(Unmatched(d.seen))
  BY Zenon DEF Known
<1>5. /\ e.stats["MATCHED"] = Cardinality(Matched(t))
      /\ e.stats["AMBIGUOUS"] = Cardinality(Ambiguous(t))
      /\ e.stats["UNMATCHED"] = Cardinality(Unmatched(t))
  <2>0. /\ (IF MatchedAt(t, n + 1) THEN 1 ELSE 0) = (IF o.status = "MATCHED" THEN 1 ELSE 0)
        /\ (IF AmbiguousAt(t, n + 1) THEN 1 ELSE 0)
               = (IF o.status = "AMBIGUOUS" THEN 1 ELSE 0)
        /\ (IF ~IsRequest(t, n + 1) /\ ~MatchedAt(t, n + 1) /\ ~AmbiguousAt(t, n + 1)
             THEN 1 ELSE 0) = (IF o.status = "UNMATCHED" THEN 1 ELSE 0)
    OBVIOUS
  <2>a. /\ Cardinality(Matched(t)) =
               Cardinality(Matched(d.seen)) + (IF MatchedAt(t, n + 1) THEN 1 ELSE 0)
        /\ Cardinality(Ambiguous(t)) =
               Cardinality(Ambiguous(d.seen)) + (IF AmbiguousAt(t, n + 1) THEN 1 ELSE 0)
        /\ Cardinality(Unmatched(t)) =
               Cardinality(Unmatched(d.seen)) +
                   (IF ~IsRequest(t, n + 1) /\ ~MatchedAt(t, n + 1) /\ ~AmbiguousAt(t, n + 1)
                    THEN 1 ELSE 0)
    BY <1>1, CountsAfter
  <2>1. Cardinality(Matched(t)) = d.stats["MATCHED"] + (IF o.status = "MATCHED" THEN 1 ELSE 0)
    BY <1>4, <2>0, <2>a
  <2>2. Cardinality(Ambiguous(t)) =
            d.stats["AMBIGUOUS"] + (IF o.status = "AMBIGUOUS" THEN 1 ELSE 0)
    BY <1>4, <2>0, <2>a
  <2>3. Cardinality(Unmatched(t)) =
            d.stats["UNMATCHED"] + (IF o.status = "UNMATCHED" THEN 1 ELSE 0)
    BY <1>4, <2>0, <2>a
  <2> QED BY <1>2, <1>3, <2>1, <2>2, <2>3, Zenon
<1>6. \A i \in DOMAIN <<o>> : <<o>>[i] = o
  OBVIOUS
<1>7. \A i \in DOMAIN e.observations :
          e.observations[i].status = "MATCHED" =>
              Matches(e.seen, e.observations[i].request, e.observations[i].message)
  BY <1>0, <1>6, Zenon
<1>8. Known(e)
  BY <1>0, <1>5, <1>7, Zenon DEF Known
<1> QED BY <1>0, <1>2, <1>3, <1>8, Zenon

(* When the table was given up, nothing is matched or ambiguous any more.    *)
LEMMA GivenUpNothing ==
    ASSUME NEW d, Sound(d), Known(d), d.unavailable, NEW m \in Messages,
           NEW t, NEW n, NewSeen(d, m, t, n)
    PROVE  /\ ~MatchedAt(t, n + 1) /\ ~AmbiguousAt(t, n + 1)
           /\ \A q : ~Matches(t, q, n + 1)
           /\ GivenUp(t, Len(t) + 1)
<1>0. /\ n \in Nat /\ n = Len(d.seen) /\ Agree(d.seen, t, n) /\ After(d.seen, t, n)
      /\ n + 1 \in 1 .. n + 1
  BY NewFacts
<1>1. GivenUp(d.seen, n + 1)
  BY <1>0, Zenon DEF Known
<1>2. GivenUp(t, n + 1)
  BY <1>0, <1>1, SameGivenUp
<1>3. GivenUp(t, Len(t) + 1)
  BY <1>0, <1>1, GivenUpAfter
<1> QED BY <1>2, <1>3, Zenon DEF MatchedAt, AmbiguousAt, Matches

(* The requests without an answer, as one more or one less.                  *)
LEMMA UnansweredMore ==
    ASSUME NEW s, NEW t, NEW n, After(s, t, n), \A q \in 1 .. n : ~Matches(t, q, n + 1)
    PROVE  /\ Unanswered(s) \subseteq 1 .. n
           /\ Unanswered(t) = Unanswered(s) \cup
                  {q \in {n + 1} : IsRequest(t, q) /\ ~AmbiguousAt(t, q)}
           /\ IsFiniteSet(Unanswered(s))
           /\ Cardinality(Unanswered(t)) = Cardinality(Unanswered(s)) +
                  (IF IsRequest(t, n + 1) /\ ~AmbiguousAt(t, n + 1) THEN 1 ELSE 0)
<1> DEFINE T == {q \in {n + 1} : IsRequest(t, q) /\ ~AmbiguousAt(t, q)}
<1>0. n \in Nat /\ DOMAIN s = 1 .. n
  BY DEF After, Agree
<1>1. Unanswered(s) \subseteq 1 .. n
  BY <1>0, Zenon DEF Unanswered
<1>2. Unanswered(t) = Unanswered(s) \cup T
  <2>1. Unanswered(t) = {q \in Unanswered(s) : ~Matches(t, q, n + 1)} \cup T
    BY SetsAfter
  <2> QED BY <1>1, <2>1, Zenon
<1>3. T \subseteq {n + 1} /\ (n + 1 \in T <=> IsRequest(t, n + 1) /\ ~AmbiguousAt(t, n + 1))
  BY Zenon
<1> HIDE DEF T
<1>4. /\ IsFiniteSet(Unanswered(s))
      /\ Cardinality(Unanswered(s) \cup T)
             = Cardinality(Unanswered(s)) + (IF n + 1 \in T THEN 1 ELSE 0)
  BY <1>0, <1>1, <1>3, OneMore
<1>5. Cardinality(Unanswered(t)) = Cardinality(Unanswered(s)) +
          (IF IsRequest(t, n + 1) /\ ~AmbiguousAt(t, n + 1) THEN 1 ELSE 0)
  BY <1>2, <1>3, <1>4, Zenon
<1> QED BY <1>1, <1>2, <1>4, <1>5, Zenon DEF T

-----------------------------------------------------------------------------
(* One lemma per handler: it leaves a state the exchange explains.           *)
Explained(d) == Known(d) /\ Open(d)

LEMMA NoMatchForRequest ==
    ASSUME NEW t, NEW n \in Nat, IsRequest(t, n + 1)
    PROVE  ~MatchedAt(t, n + 1) /\ \A q : ~Matches(t, q, n + 1)
BY Zenon DEF MatchedAt, Matches, Answers, Addresses

LEMMA UnavailableExplained ==
    ASSUME NEW d, Sound(d), Explained(d), NEW m \in Messages, RequestUnavailable(d, m)
    PROVE  \A e \in candidate' : Explained(e)
<1> DEFINE o == Observation(d, "UNRESOLVED", Len(d.seen) + 1, "LIMIT_EXCEEDED")
           t == Append(d.seen, m)
           n == Len(d.seen)
<1> SUFFICES ASSUME NEW e \in candidate' PROVE Explained(e)
  OBVIOUS
<1>1. o \in Observations /\ o.status = "UNRESOLVED"
  <2>1. Len(d.seen) + 1 \in Nat BY Fields
  <2> QED BY <2>1, ObservationType DEF Terminal
<1>2. d.unavailable /\ ~m.response /\ Update(d, m, d.requests, <<o>>, TRUE)
  BY DEF RequestUnavailable
<1>3. NewSeen(d, m, t, n)
  BY DEF NewSeen
<1> HIDE DEF o, t, n
<1>4. Made(d, m, e, d.requests, <<o>>) /\ (e.unavailable <=> TRUE)
  BY <1>2, UpdateGives
<1>5. /\ n \in Nat /\ After(d.seen, t, n) /\ IsRequest(t, n + 1)
      /\ Known(d) /\ Open(d)
  BY <1>2, <1>3, NewFacts, Zenon DEF Explained
<1>6. /\ ~MatchedAt(t, n + 1) /\ ~AmbiguousAt(t, n + 1)
      /\ \A q : ~Matches(t, q, n + 1)
      /\ GivenUp(t, Len(t) + 1)
  BY <1>2, <1>3, <1>5, GivenUpNothing
<1>7. /\ Known(e) /\ e.seen = t /\ e.unavailable
      /\ e.stats["UNRESOLVED"] = d.stats["UNRESOLVED"] + 1
  <2>1. o.status # "MATCHED" /\ o.status # "AMBIGUOUS" /\ o.status # "UNMATCHED"
    BY <1>1
  <2>2. e.unavailable
    BY <1>4
  <2>3. /\ Known(e) /\ e.seen = t
        /\ e.stats["UNRESOLVED"] =
               d.stats["UNRESOLVED"] + (IF o.status = "UNRESOLVED" THEN 1 ELSE 0)
    <3>1. /\ o.status = "MATCHED" <=> MatchedAt(t, n + 1)
          /\ o.status = "AMBIGUOUS" <=> AmbiguousAt(t, n + 1)
          /\ o.status = "UNMATCHED" <=>
                 ~IsRequest(t, n + 1) /\ ~MatchedAt(t, n + 1) /\ ~AmbiguousAt(t, n + 1)
          /\ o.status = "MATCHED" => Matches(t, o.request, o.message)
          /\ e.unavailable <=> GivenUp(t, Len(t) + 1)
      BY <1>5, <1>6, <2>1, <2>2, Zenon
    <3> QED BY <1>1, <1>3, <1>4, <1>5, <3>1, SingleKnown
  <2> QED BY <1>1, <2>2, <2>3, Zenon
<1>8. Cardinality(Unanswered(t)) = Cardinality(Unanswered(d.seen)) + 1
  BY <1>5, <1>6, UnansweredMore
<1>9. d.stats["UNRESOLVED"] = Cardinality(Unanswered(d.seen))
  BY <1>2, <1>5, Zenon DEF Open
<1>10. Open(e)
  BY <1>7, <1>8, <1>9, Zenon DEF Open
<1> QED BY <1>7, <1>10 DEF Explained

LEMMA RequestedSize ==
    ASSUME NEW d, Sound(d)
    PROVE  Cardinality(Requested(d)) = Len(d.requests)
<1> DEFINE n == Len(d.requests)
           f == [i \in 1 .. n |-> d.requests[i].message]
<1>0. n \in Nat /\ DOMAIN d.requests = 1 .. n
  BY Fields
<1>1. f \in [1 .. n -> Requested(d)] /\ \A k \in Requested(d) : \E i \in 1 .. n : f[i] = k
  BY <1>0, Zenon DEF Requested
<1>2. \A i, j \in 1 .. n : f[i] = f[j] => i = j
  BY <1>0, Zenon DEF Sound, KeyOf
<1> HIDE DEF n, f
<1>3. ExistsBijection(1 .. n, Requested(d))
  BY <1>1, <1>2, Zenon DEF ExistsBijection, Bijection, Injection, Surjection, IsInjective
<1>4. Cardinality(Requested(d)) = n
  BY <1>0, <1>3, FS_CountingElements
<1> QED BY <1>4 DEF n

LEMMA OverflowsExplained ==
    ASSUME NEW d, Sound(d), Explained(d), NEW m \in Messages, RequestOverflows(d, m)
    PROVE  \A e \in candidate' : Explained(e)
<1> DEFINE o == Observation(d, "UNRESOLVED", Len(d.seen) + 1, "LIMIT_EXCEEDED")
           lost == Marked(d.requests, "UNRESOLVED", "LIMIT_EXCEEDED")
           obs == Append(lost, o)
           t == Append(d.seen, m)
           n == Len(d.seen)
<1> SUFFICES ASSUME NEW e \in candidate' PROVE Explained(e)
  OBVIOUS
<1>1. o \in Observations /\ o.status = "UNRESOLVED"
  <2>1. Len(d.seen) + 1 \in Nat BY Fields
  <2> QED BY <2>1, ObservationType DEF Terminal
<1>2. /\ ~d.unavailable /\ ~m.response /\ Held(d, m) = {} /\ Len(d.requests) = MaxPending
      /\ Update(d, m, <<>>, obs, TRUE)
  BY DEF RequestOverflows
<1>3. NewSeen(d, m, t, n)
  BY DEF NewSeen
<1>4. /\ lost \in Seq(Observations) /\ Len(lost) = Len(d.requests)
      /\ \A i \in 1 .. Len(lost) : lost[i].status = "UNRESOLVED"
  <2>1. d.requests \in Seq(Observations)
    BY Fields
  <2> QED BY <2>1, MarkedType DEF Terminal
<1> HIDE DEF o, lost, t, n
<1>5. /\ obs \in Seq(Observations) /\ Len(obs) = Len(d.requests) + 1
      /\ \A i \in DOMAIN obs : obs[i].status = "UNRESOLVED"
  <2>1. /\ obs \in Seq(Observations) /\ Len(obs) = Len(lost) + 1
        /\ \A i \in 1 .. Len(lost) : obs[i] = lost[i]
        /\ obs[Len(lost) + 1] = o
    BY <1>1, <1>4, AppendProperties
  <2>2. DOMAIN obs = 1 .. Len(lost) + 1 /\ Len(lost) \in Nat
    BY <1>4, <2>1, LenProperties
  <2>3. \A i \in 1 .. Len(lost) + 1 : i \in 1 .. Len(lost) \/ i = Len(lost) + 1
    BY <2>2
  <2> QED BY <1>1, <1>4, <2>1, <2>2, <2>3
<1> HIDE DEF obs
<1>6. Made(d, m, e, <<>>, obs) /\ (e.unavailable <=> TRUE)
  BY <1>2, UpdateGives
<1>7. /\ n \in Nat /\ n = Len(d.seen) /\ After(d.seen, t, n) /\ IsRequest(t, n + 1)
      /\ Known(d) /\ Open(d) /\ Tabled(d)
  <2>1. n \in Nat /\ n = Len(d.seen) /\ After(d.seen, t, n) /\ IsRequest(t, n + 1)
    BY <1>2, <1>3, NewFacts
  <2>2. Known(d) /\ Open(d) /\ Tabled(d)
    BY <1>2, Zenon DEF Explained, Open
  <2> QED BY <2>1, <2>2
<1>8. /\ ~MatchedAt(t, n + 1) /\ \A q : ~Matches(t, q, n + 1)
  BY <1>7, NoMatchForRequest
<1>9. ~AmbiguousAt(t, n + 1)
  <2>1. AmbiguousAt(t, n + 1) <=>
            \E i \in Held(d, m) : m.response => d.requests[i].status = "AMBIGUOUS"
    BY <1>2, <1>3, <1>7, AmbiguousIs
  <2> QED BY <1>2, <2>1, Zenon
<1>10. GivenUp(t, Len(t) + 1)
  <2>1. OneTooMany(t, n + 1)
    BY <1>2, <1>3, <1>7, OneTooManyIs
  <2> QED BY <1>7, <2>1, GivenUpAfter
<1>11. /\ e.seen = t /\ e.unavailable /\ e.observations = obs
       /\ e.stats = Folded(d.stats, obs)
  BY <1>3, <1>6, Zenon DEF Made, NewSeen
<1>12. /\ "MATCHED" \in Terminal /\ "AMBIGUOUS" \in Terminal
       /\ "UNMATCHED" \in Terminal /\ "UNRESOLVED" \in Terminal
  BY DEF Terminal
<1>13. /\ d.stats \in [Counters -> Nat]
       /\ d.stats["MATCHED"] \in Nat /\ d.stats["AMBIGUOUS"] \in Nat /\ d.stats["UNMATCHED"] \in Nat
  BY Fields DEF Counters, Terminal
<1>14. \A c \in Terminal :
          e.stats[c] = d.stats[c] + (IF c = "UNRESOLVED" THEN Len(obs) ELSE 0)
  <2>1. \A c \in Terminal : Folded(d.stats, obs)[c] =
            d.stats[c] + (IF c = "UNRESOLVED" THEN Len(obs) ELSE 0)
    BY <1>5, <1>13, FoldedLost
  <2> QED BY <1>11, <2>1, Zenon
<1>15. Known(e)
  <2>1. /\ d.stats["MATCHED"] = Cardinality(Matched(d.seen))
        /\ d.stats["AMBIGUOUS"] = Cardinality(Ambiguous(d.seen))
        /\ d.stats["UNMATCHED"] = Cardinality(Unmatched(d.seen))
    BY <1>7, Zenon DEF Known
  <2>2. /\ e.stats["MATCHED"] = d.stats["MATCHED"]
        /\ e.stats["AMBIGUOUS"] = d.stats["AMBIGUOUS"]
        /\ e.stats["UNMATCHED"] = d.stats["UNMATCHED"]
    BY <1>12, <1>13, <1>14
  <2>3. /\ Cardinality(Matched(t)) = d.stats["MATCHED"] + 0
        /\ Cardinality(Ambiguous(t)) = d.stats["AMBIGUOUS"] + 0
        /\ Cardinality(Unmatched(t)) = d.stats["UNMATCHED"] + 0
    BY <1>7, <1>8, <1>9, <2>1, CountsAfter, Zenon
  <2>4. /\ e.stats["MATCHED"] = Cardinality(Matched(t))
        /\ e.stats["AMBIGUOUS"] = Cardinality(Ambiguous(t))
        /\ e.stats["UNMATCHED"] = Cardinality(Unmatched(t))
    BY <1>13, <2>2, <2>3
  <2>5. \A i \in DOMAIN e.observations : e.observations[i].status # "MATCHED"
    BY <1>5, <1>11
  <2> QED BY <1>10, <1>11, <2>4, <2>5, Zenon DEF Known
<1>16. e.stats["UNRESOLVED"] = Cardinality(Unanswered(t))
  <2>1. d.stats["UNRESOLVED"] = 0
    BY <1>2, <1>7, Zenon DEF Open
  <2>2. Cardinality(Unanswered(d.seen)) = Len(d.requests)
    BY <1>7, RequestedSize DEF Tabled
  <2>3. Cardinality(Unanswered(t)) = Cardinality(Unanswered(d.seen)) + 1
    BY <1>7, <1>8, <1>9, UnansweredMore
  <2>4. e.stats["UNRESOLVED"] = d.stats["UNRESOLVED"] + Len(obs)
    BY <1>12, <1>14
  <2>5. Len(obs) \in Nat
    BY <1>5, LenProperties
  <2> QED BY <1>5, <2>1, <2>2, <2>3, <2>4, <2>5
<1>17. Open(e)
  BY <1>11, <1>16, Zenon DEF Open
<1> QED BY <1>15, <1>17 DEF Explained

(* What an action must show when correlation goes on.                        *)
LEMMA OpenGoesOn ==
    ASSUME NEW d, Sound(d), Explained(d), ~d.unavailable, NEW m \in Messages,
           NEW t, NEW n, NewSeen(d, m, t, n), ~OneTooMany(t, n + 1),
           NEW o \in Observations, NEW e, NEW requests,
           Made(d, m, e, requests, <<o>>), ~e.unavailable,
           o.status = "MATCHED" <=> MatchedAt(t, n + 1),
           o.status = "AMBIGUOUS" <=> AmbiguousAt(t, n + 1),
           o.status = "UNMATCHED" <=>
               ~IsRequest(t, n + 1) /\ ~MatchedAt(t, n + 1) /\ ~AmbiguousAt(t, n + 1),
           o.status = "MATCHED" => Matches(t, o.request, o.message),
           o.status # "UNRESOLVED",
           Tabled(e)
    PROVE  Explained(e)
<1>0. /\ After(d.seen, t, n) /\ n = Len(d.seen) /\ Known(d) /\ Open(d)
      /\ d.stats["UNRESOLVED"] = 0
  <2>1. After(d.seen, t, n) /\ n = Len(d.seen)
    BY NewFacts
  <2>2. Known(d) /\ Open(d)
    BY DEF Explained
  <2>3. d.stats["UNRESOLVED"] = 0
    BY <2>2, Zenon DEF Open
  <2> QED BY <2>1, <2>2, <2>3
<1>1. ~GivenUp(d.seen, n + 1)
  BY <1>0, Zenon DEF Known
<1>2. ~GivenUp(t, Len(t) + 1)
  BY <1>0, <1>1, GivenUpAfter
<1>3. /\ Known(e)
      /\ e.stats["UNRESOLVED"] =
             d.stats["UNRESOLVED"] + (IF o.status = "UNRESOLVED" THEN 1 ELSE 0)
  BY <1>0, <1>2, SingleKnown
<1>4. e.stats["UNRESOLVED"] = 0
  BY <1>0, <1>3
<1>5. Open(e)
  BY <1>4, Zenon DEF Open
<1> QED BY <1>3, <1>5 DEF Explained

(* The other entries of the table, when entry i is the one of m's key.       *)
LEMMA OtherEntries ==
    ASSUME NEW d, Sound(d), Tabled(d), NEW m \in Messages, NEW t, NEW n, NewSeen(d, m, t, n),
           NEW j \in DOMAIN d.requests, j \notin Held(d, m)
    PROVE  Entry(t, d.requests[j]) /\ ~Concerns(t, d.requests[j].message, n + 1)
<1>1. After(d.seen, t, n) /\ n = Len(d.seen)
  BY NewFacts
<1>2. d.requests[j].message \in 1 .. n
  BY <1>1, MessageOf
<1>3. Entry(d.seen, d.requests[j]) /\ IsRequest(d.seen, d.requests[j].message)
  BY Zenon DEF Tabled, Entry
<1>4. ~Concerns(t, d.requests[j].message, n + 1)
  BY <1>2, <1>3, HeldConcerns
<1>5. /\ ~SameKey(t, d.requests[j].message, n + 1)
      /\ ~Answers(t, d.requests[j].message, n + 1)
  BY <1>4, Zenon DEF Concerns, Answers
<1> QED BY <1>1, <1>2, <1>3, <1>4, <1>5, EntryKept

LEMMA RepeatedExplained ==
    ASSUME NEW d, Sound(d), Explained(d), NEW m \in Messages, RequestRepeated(d, m)
    PROVE  \A e \in candidate' : Explained(e)
<1> SUFFICES ASSUME NEW e \in candidate' PROVE Explained(e)
  OBVIOUS
<1>1. PICK i \in Held(d, m) :
          Update(d, m, [d.requests EXCEPT ![i] = WithStatus(@, "AMBIGUOUS", "none")],
                 <<Observation(d, "AMBIGUOUS", d.requests[i].request, "none")>>, FALSE)
  BY DEF RequestRepeated
<1> DEFINE o == Observation(d, "AMBIGUOUS", d.requests[i].request, "none")
           marked == WithStatus(d.requests[i], "AMBIGUOUS", "none")
           requests == [d.requests EXCEPT ![i] = WithStatus(@, "AMBIGUOUS", "none")]
           s == d.seen
           t == Append(d.seen, m)
           n == Len(d.seen)
           q == d.requests[i].message
<1>2. i \in DOMAIN d.requests /\ Update(d, m, requests, <<o>>, FALSE)
      /\ ~d.unavailable /\ ~m.response
  BY <1>1 DEF Held, RequestRepeated
<1>3. o \in Observations /\ o.status = "AMBIGUOUS"
  BY <1>2, RequestOf, ObservationType DEF Terminal
<1>4. /\ DOMAIN requests = DOMAIN d.requests /\ requests[i] = marked
      /\ \A j \in DOMAIN d.requests : j # i => requests[j] = d.requests[j]
      /\ marked.message = q /\ marked.request = d.requests[i].request
      /\ marked.status = "AMBIGUOUS"
  BY <1>2, Zenon DEF WithStatus
<1>5. NewSeen(d, m, t, n)
  BY DEF NewSeen
<1> HIDE DEF o, marked, requests, t, n
<1>6. /\ n \in Nat /\ n = Len(s) /\ After(s, t, n) /\ IsRequest(t, n + 1) /\ t[n + 1] = m
      /\ \A p \in 1 .. n : t[p] = s[p]
      /\ s \in Seq(Messages) /\ t \in Seq(Messages) /\ Len(t) = n + 1
  BY <1>2, <1>5, NewFacts
<1>7. Known(d) /\ Open(d) /\ Tabled(d)
  BY <1>2, Zenon DEF Explained, Open
<1>8. Made(d, m, e, requests, <<o>>) /\ ~e.unavailable
  BY <1>2, UpdateGives
<1>9. ~MatchedAt(t, n + 1) /\ \A p : ~Matches(t, p, n + 1)
  BY <1>6, NoMatchForRequest
<1>10. AmbiguousAt(t, n + 1)
  <2>1. \E k \in Held(d, m) : m.response => d.requests[k].status = "AMBIGUOUS"
    BY <1>1, <1>2, Zenon
  <2> QED BY <1>2, <1>5, <1>7, <2>1, AmbiguousIs
<1>11. ~OneTooMany(t, n + 1)
  <2>1. Held(d, m) # {}
    BY <1>1, Zenon
  <2> QED BY <1>2, <1>5, <1>7, <2>1, OneTooManyIs
<1>12. e.requests = requests /\ e.seen = t
  BY <1>5, <1>8, Zenon DEF Made, NewSeen
<1>13. /\ Entry(s, d.requests[i]) /\ IsRequest(s, q) /\ q \in 1 .. n
       /\ Concerns(t, q, n + 1) /\ IsRequest(t, q)
  <2>1. Entry(s, d.requests[i]) /\ IsRequest(s, q)
    BY <1>2, <1>7, Zenon DEF Tabled, Entry
  <2>2. q \in 1 .. n
    BY <1>2, <1>6, MessageOf
  <2>3. Concerns(t, q, n + 1)
    BY <1>1, <1>2, <1>5, <2>1, <2>2, HeldConcerns
  <2>4. IsRequest(t, q)
    BY <1>6, <2>1, <2>2, SamePair DEF After
  <2> QED BY <2>1, <2>2, <2>3, <2>4
<1>14. SameKey(t, q, n + 1)
  BY <1>6, <1>13, Zenon DEF Concerns, Addresses
<1>15. Poisoned(t, q, Len(t) + 1)
  <2>1. CASE Poisoned(s, q, n + 1)
    <3>1. After(s, t, n) /\ q \in 1 .. n
      BY <1>6, <1>13
    <3> HIDE DEF s, q
    <3> QED BY <2>1, <3>1, PoisonAfter
  <2>2. CASE ~Poisoned(s, q, n + 1)
    <3>1. Pended(s, d.requests[i])
      BY <1>6, <1>13, <2>2 DEF Entry
    <3>2. /\ \A r \in q + 1 .. n : ~Answers(s, q, r)
          /\ \A p \in 1 .. n : SameKey(s, q, p) => p <= q
      BY <1>6, <3>1, Zenon DEF Pended
    <3>3. \A r \in q + 1 .. (n + 1) - 1 : r \in 1 .. n /\ r \in q + 1 .. n /\ ~(r <= q)
      BY <1>6, <1>13
    <3>4. \A r \in q + 1 .. (n + 1) - 1 : ~SameKey(s, q, r) /\ ~Answers(s, q, r)
      BY <3>2, <3>3, Zenon
    <3>5. \A r \in q + 1 .. (n + 1) - 1 : ~SameKey(t, q, r) /\ ~Answers(t, q, r)
      BY <1>6, <1>13, <3>3, <3>4, SamePair DEF After
    <3>6. Crossed(t, q, n + 1)
      <4>1. q < n + 1
        BY <1>6, <1>13
      <4> QED BY <1>14, <3>5, <4>1, Zenon DEF Crossed
    <3>7. q \in 1 .. (Len(t) + 1) - 1 /\ n + 1 \in 1 .. (Len(t) + 1) - 1
      BY <1>6, <1>13
    <3>8. SameKey(t, q, q)
      BY <1>14, SameKeys
    <3> QED BY <3>6, <3>7, <3>8, Zenon DEF Poisoned
  <2> QED BY <2>1, <2>2
<1>16. \A j \in DOMAIN requests : /\ requests[j].message = d.requests[j].message
                                  /\ requests[j].message \in 1 .. n
  <2>1. \A j \in DOMAIN d.requests : d.requests[j].message \in 1 .. n
    BY <1>6, MessageOf
  <2> QED BY <1>4, <2>1, Zenon
<1>17. ASSUME NEW j \in DOMAIN e.requests PROVE Entry(e.seen, e.requests[j])
  <2>1. j \in DOMAIN d.requests
    BY <1>4, <1>12, <1>17, Zenon
  <2>2. CASE j = i
    <3>1. marked.request = marked.message
      BY <1>4, <1>13, Zenon DEF Entry
    <3>2. Entry(t, marked)
      BY <1>4, <1>13, <1>15, <3>1 DEF Entry
    <3> QED BY <1>4, <1>12, <2>2, <3>2, Zenon
  <2>3. CASE j # i
    <3>1. j \notin Held(d, m)
      BY <1>1, <2>3, HeldOnce
    <3>2. Entry(t, d.requests[j])
      BY <1>5, <1>7, <2>1, <3>1, OtherEntries
    <3> QED BY <1>4, <1>12, <2>1, <2>3, <3>2, Zenon
  <2> QED BY <2>2, <2>3
<1>18. ASSUME NEW p \in 1 .. n, HasEntry(d, p) PROVE HasEntry(e, p)
  <2>1. PICK j \in DOMAIN d.requests : KeyOf(s, d.requests[j]) = Key(s[p])
    BY <1>18, Zenon DEF HasEntry
  <2>2. KeyOf(t, requests[j]) = Key(t[p])
    BY <1>4, <1>6, <1>16, <2>1, Zenon DEF KeyOf
  <2> QED BY <1>4, <1>12, <2>1, <2>2, Zenon DEF HasEntry
<1>19. ASSUME NEW p \in 1 .. Len(e.seen), IsRequest(e.seen, p)
       PROVE  HasEntry(e, p) \/ Settled(e.seen, p)
  <2>1. CASE p = n + 1
    <3>1. Key(t[q]) = Key(t[n + 1])
      <4>1. q \in 1 .. Len(t) /\ n + 1 \in 1 .. Len(t)
        BY <1>6, <1>13
      <4> HIDE DEF q
      <4>2. IsRequest(t, n + 1) => (Key(t[q]) = Key(t[n + 1]) <=> SameKey(t, q, n + 1))
        BY <1>6, <1>13, <4>1, KeyEqual
      <4> QED BY <1>6, <1>14, <4>2
    <3>2. KeyOf(t, requests[i]) = Key(t[p])
      BY <1>4, <2>1, <3>1, Zenon DEF KeyOf
    <3> QED BY <1>2, <1>4, <1>12, <3>2, Zenon DEF HasEntry
  <2>2. CASE p # n + 1
    <3>1. p \in 1 .. n
      BY <1>6, <1>12, <2>2
    <3>2. IsRequest(s, p)
      BY <1>6, <1>12, <1>19, <3>1, SamePair DEF After
    <3>3. HasEntry(d, p) \/ Settled(s, p)
      BY <1>6, <1>7, <3>1, <3>2, Zenon DEF Tabled
    <3>4. CASE SameKey(t, p, n + 1)
      <4>1. SameKey(t, p, q)
        BY <1>14, <3>4, SameKeys
      <4>2. SameKey(s, p, q)
        BY <1>6, <1>13, <3>1, <4>1, SamePair DEF After
      <4>3. Key(s[p]) = Key(s[q])
        BY <1>6, <1>13, <3>1, <3>2, <4>2, KeyEqual
      <4>4. HasEntry(d, p)
        BY <1>2, <4>3, Zenon DEF HasEntry, KeyOf
      <4> QED BY <1>18, <3>1, <4>4
    <3>5. CASE ~SameKey(t, p, n + 1) /\ Settled(s, p)
      BY <1>6, <1>12, <3>1, <3>5, SettledKept
    <3> QED BY <1>18, <3>1, <3>3, <3>4, <3>5
  <2> QED BY <2>1, <2>2
<1>20. Unanswered(e.seen) = Requested(e)
  <2>1. Unanswered(t) = Unanswered(s)
    <3>1. Unanswered(t) = Unanswered(s) \cup
              {k \in {n + 1} : IsRequest(t, k) /\ ~AmbiguousAt(t, k)}
      BY <1>6, <1>9, UnansweredMore, Zenon
    <3> QED BY <1>10, <3>1, Zenon
  <2>2. Requested(e) = Requested(d)
    <3>1. /\ DOMAIN e.requests = DOMAIN d.requests
          /\ \A j \in DOMAIN d.requests : e.requests[j].message = d.requests[j].message
      BY <1>4, <1>12, <1>16, Zenon
    <3> QED BY <3>1, Zenon DEF Requested
  <2> QED BY <1>7, <1>12, <2>1, <2>2, Zenon DEF Tabled
<1>21. Tabled(e)
  BY <1>17, <1>19, <1>20, Zenon DEF Tabled
<1> QED
  <2>1. /\ o.status # "MATCHED" /\ o.status # "UNMATCHED" /\ o.status # "UNRESOLVED"
    BY <1>3
  <2> QED BY <1>2, <1>3, <1>5, <1>6, <1>8, <1>9, <1>10, <1>11, <1>21, <2>1, OpenGoesOn

LEMMA OutstandingExplained ==
    ASSUME NEW d, Sound(d), Explained(d), NEW m \in Messages, RequestOutstanding(d, m)
    PROVE  \A e \in candidate' : Explained(e)
<1> SUFFICES ASSUME NEW e \in candidate' PROVE Explained(e)
  OBVIOUS
<1> DEFINE own == Observation(d, "PENDING", Len(d.seen) + 1, "none")
           requests == Append(d.requests, own)
           s == d.seen
           t == Append(d.seen, m)
           n == Len(d.seen)
           k == Len(d.requests) + 1
<1>1. /\ ~d.unavailable /\ ~m.response /\ Held(d, m) = {} /\ Len(d.requests) # MaxPending
      /\ Update(d, m, requests, <<own>>, FALSE)
  BY DEF RequestOutstanding
<1>2. /\ own \in Observations /\ own.status = "PENDING"
      /\ own.message = n + 1 /\ own.request = n + 1
  <2>1. Len(d.seen) + 1 \in Nat
    BY Fields
  <2>2. own.request = n + 1
    BY DEF Observation
  <2> QED BY <2>1, <2>2, ObservationType
<1>3. NewSeen(d, m, t, n)
  BY DEF NewSeen
<1> HIDE DEF own, t, n
<1>4. /\ DOMAIN requests = (DOMAIN d.requests) \cup {k} /\ requests[k] = own
      /\ \A j \in DOMAIN d.requests : requests[j] = d.requests[j]
  <2>1. /\ d.requests \in Seq(Observations) /\ Len(d.requests) \in Nat
        /\ DOMAIN d.requests = 1 .. Len(d.requests)
    BY Fields
  <2>2. /\ requests \in Seq(Observations) /\ Len(requests) = Len(d.requests) + 1
        /\ \A j \in 1 .. Len(d.requests) : requests[j] = d.requests[j]
        /\ requests[k] = own
    BY <1>2, <2>1, AppendProperties
  <2>3. DOMAIN requests = 1 .. Len(d.requests) + 1
    BY <2>2, LenProperties
  <2>4. 1 .. Len(d.requests) + 1 = (1 .. Len(d.requests)) \cup {k}
    BY <2>1
  <2> QED BY <2>1, <2>2, <2>3, <2>4, Zenon
<1> HIDE DEF requests, k
<1>5. /\ n \in Nat /\ n = Len(s) /\ After(s, t, n) /\ IsRequest(t, n + 1) /\ t[n + 1] = m
      /\ \A p \in 1 .. n : t[p] = s[p]
      /\ s \in Seq(Messages) /\ t \in Seq(Messages) /\ Len(t) = n + 1 /\ Agree(s, t, n)
  BY <1>1, <1>3, NewFacts
<1>6. Known(d) /\ Open(d) /\ Tabled(d)
  BY <1>1, Zenon DEF Explained, Open
<1>7. Made(d, m, e, requests, <<own>>) /\ ~e.unavailable
  BY <1>1, UpdateGives
<1>8. ~MatchedAt(t, n + 1) /\ \A p : ~Matches(t, p, n + 1)
  BY <1>5, NoMatchForRequest
<1>9. ~AmbiguousAt(t, n + 1)
  <2>1. AmbiguousAt(t, n + 1) <=>
            \E i \in Held(d, m) : m.response => d.requests[i].status = "AMBIGUOUS"
    BY <1>1, <1>3, <1>6, AmbiguousIs
  <2> QED BY <1>1, <2>1, Zenon
<1>10. ~OneTooMany(t, n + 1)
  BY <1>1, <1>3, <1>6, OneTooManyIs
<1>11. e.requests = requests /\ e.seen = t
  BY <1>3, <1>7, Zenon DEF Made, NewSeen
<1>12. ASSUME NEW p \in 1 .. n, SameKey(t, p, n + 1)
       PROVE  IsRequest(s, p) /\ Settled(s, p)
  <2>1. IsRequest(s, p)
    BY <1>5, <1>12, SamePair DEF SameKey
  <2>2. Key(s[p]) = Key(m)
    <3>1. Concerns(t, p, n + 1)
      BY <1>12, Zenon DEF Concerns
    <3> QED BY <1>3, <2>1, <3>1, HeldConcerns
  <2>3. ~HasEntry(d, p)
    BY <1>1, <2>2, Zenon DEF HasEntry, KeyOf, Held
  <2> QED BY <1>5, <1>6, <2>1, <2>3, Zenon DEF Tabled
<1>13. ~Poisoned(t, n + 1, Len(t) + 1)
  <2> SUFFICES ASSUME NEW a \in 1 .. n + 1, NEW b \in 1 .. n + 1,
                      SameKey(t, a, n + 1), Crossed(t, a, b)
               PROVE  FALSE
    <3>1. 1 .. (Len(t) + 1) - 1 = 1 .. n + 1
      BY <1>5
    <3> QED BY <3>1, Zenon DEF Poisoned
  <2>1. /\ a < b /\ SameKey(t, a, b)
        /\ \A i \in a + 1 .. b - 1 : ~SameKey(t, a, i) /\ ~Answers(t, a, i)
    BY Zenon DEF Crossed
  <2>2. a \in 1 .. n
    BY <1>5, <2>1
  <2>3. /\ IsRequest(s, a) /\ ~Poisoned(s, a, n + 1)
        /\ \E r \in a + 1 .. n : Answers(s, a, r)
    BY <1>5, <1>12, <2>2, Zenon DEF Settled
  <2>4. CASE b = n + 1
    <3>1. PICK r \in a + 1 .. n : Answers(s, a, r)
      BY <2>3
    <3>2. r \in 1 .. n /\ r \in a + 1 .. b - 1
      BY <1>5, <2>2, <2>4, <3>1
    <3>3. Answers(t, a, r)
      BY <1>5, <2>2, <3>1, <3>2, SamePair
    <3> QED BY <2>1, <3>2, <3>3
  <2>5. CASE b # n + 1
    <3>1. b \in 1 .. n /\ 1 .. (n + 1) - 1 = 1 .. n
      BY <1>5, <2>5
    <3>2. Crossed(s, a, b)
      BY <1>5, <2>2, <3>1, SameCrossed
    <3>3. SameKey(s, a, a)
      <4>1. SameKey(s, a, b)
        BY <3>2, Zenon DEF Crossed
      <4> QED BY <4>1, SameKeys
    <3>4. Poisoned(s, a, n + 1)
      BY <2>2, <3>1, <3>2, <3>3, Zenon DEF Poisoned
    <3> QED BY <2>3, <3>4
  <2> QED BY <2>4, <2>5
<1>14. Entry(t, own)
  <2>1. \A r \in (n + 1) + 1 .. Len(t) : ~Answers(t, n + 1, r)
    BY <1>5
  <2>2. \A p \in 1 .. Len(t) : SameKey(t, n + 1, p) => p <= n + 1
    BY <1>5
  <2>3. ASSUME NEW p \in 1 .. (n + 1) - 1, SameKey(t, p, n + 1)
        PROVE  \E r \in p + 1 .. Len(t) : Answers(t, p, r)
    <3>1. p \in 1 .. n
      BY <1>5
    <3>2. PICK r \in p + 1 .. n : Answers(s, p, r)
      BY <1>5, <1>12, <2>3, <3>1, Zenon DEF Settled
    <3>3. r \in 1 .. n /\ r \in p + 1 .. Len(t)
      BY <1>5, <3>1, <3>2
    <3>4. Answers(t, p, r)
      BY <1>5, <3>1, <3>2, <3>3, SamePair
    <3> QED BY <3>3, <3>4
  <2>4. Pended(t, own)
    BY <1>2, <1>13, <2>1, <2>2, <2>3, Zenon DEF Pended
  <2> QED BY <1>2, <1>5, <2>4 DEF Entry
<1>15. ASSUME NEW j \in DOMAIN e.requests PROVE Entry(e.seen, e.requests[j])
  <2>1. CASE j \in DOMAIN d.requests
    <3>1. j \notin Held(d, m)
      BY <1>1
    <3>2. Entry(t, d.requests[j])
      BY <1>3, <1>6, <2>1, <3>1, OtherEntries
    <3> QED BY <1>4, <1>11, <2>1, <3>2, Zenon
  <2>2. CASE j = k
    BY <1>4, <1>11, <1>14, <2>2, Zenon
  <2> QED BY <1>4, <1>11, <1>15, <2>1, <2>2, Zenon
<1>16. ASSUME NEW p \in 1 .. n, HasEntry(d, p) PROVE HasEntry(e, p)
  <2>1. PICK j \in DOMAIN d.requests : KeyOf(s, d.requests[j]) = Key(s[p])
    BY <1>16, Zenon DEF HasEntry
  <2>2. d.requests[j].message \in 1 .. n
    BY <1>5, <2>1, MessageOf
  <2>3. KeyOf(t, requests[j]) = Key(t[p])
    BY <1>4, <1>5, <2>1, <2>2, Zenon DEF KeyOf
  <2> QED BY <1>4, <1>11, <2>1, <2>3, Zenon DEF HasEntry
<1>17. ASSUME NEW p \in 1 .. Len(e.seen), IsRequest(e.seen, p)
       PROVE  HasEntry(e, p) \/ Settled(e.seen, p)
  <2>1. ASSUME Key(t[p]) = Key(t[n + 1]) PROVE HasEntry(e, p)
    <3>1. KeyOf(t, requests[k]) = Key(t[p])
      BY <1>2, <1>4, <2>1, Zenon DEF KeyOf
    <3> QED BY <1>4, <1>11, <3>1, Zenon DEF HasEntry
  <2>2. CASE p = n + 1
    BY <2>1, <2>2
  <2>3. CASE p # n + 1
    <3>1. p \in 1 .. n
      BY <1>5, <1>11, <2>3
    <3>2. IsRequest(s, p)
      BY <1>5, <1>11, <1>17, <3>1, SamePair
    <3>3. HasEntry(d, p) \/ Settled(s, p)
      BY <1>5, <1>6, <3>1, <3>2, Zenon DEF Tabled
    <3>4. CASE SameKey(t, p, n + 1)
      <4>1. p \in 1 .. Len(t) /\ n + 1 \in 1 .. Len(t) /\ IsRequest(t, p)
        BY <1>5, <1>11, <1>17, <3>1
      <4>2. Key(t[p]) = Key(t[n + 1])
        BY <1>5, <3>4, <4>1, KeyEqual
      <4> QED BY <2>1, <4>2
    <3>5. CASE ~SameKey(t, p, n + 1) /\ Settled(s, p)
      BY <1>5, <1>11, <3>1, <3>5, SettledKept
    <3> QED BY <1>16, <3>1, <3>3, <3>4, <3>5
  <2> QED BY <2>2, <2>3
<1>18. Unanswered(e.seen) = Requested(e)
  <2>1. Unanswered(t) = Unanswered(s) \cup {n + 1}
    <3>1. Unanswered(t) = Unanswered(s) \cup
              {q \in {n + 1} : IsRequest(t, q) /\ ~AmbiguousAt(t, q)}
      BY <1>5, <1>8, UnansweredMore, Zenon
    <3> QED BY <1>5, <1>9, <3>1, Zenon
  <2>2. Requested(e) = Requested(d) \cup {n + 1}
    <3>1. /\ DOMAIN e.requests = DOMAIN d.requests \cup {k}
          /\ \A i \in DOMAIN d.requests : e.requests[i].message = d.requests[i].message
          /\ e.requests[k].message = n + 1
      BY <1>2, <1>4, <1>11, Zenon
    <3>2. ASSUME NEW x \in Requested(e) PROVE x \in Requested(d) \cup {n + 1}
      BY <3>1, <3>2, Zenon DEF Requested
    <3>3. ASSUME NEW x \in Requested(d) PROVE x \in Requested(e)
      BY <3>1, <3>3, Zenon DEF Requested
    <3>4. n + 1 \in Requested(e)
      BY <3>1, Zenon DEF Requested
    <3> QED BY <3>2, <3>3, <3>4, Zenon
  <2> QED BY <1>6, <1>11, <2>1, <2>2, Zenon DEF Tabled
<1>19. Tabled(e)
  BY <1>15, <1>17, <1>18, Zenon DEF Tabled
<1> QED
  <2>1. /\ own.status # "MATCHED" /\ own.status # "UNMATCHED"
        /\ own.status # "AMBIGUOUS" /\ own.status # "UNRESOLVED"
    BY <1>2
  <2> QED BY <1>1, <1>2, <1>3, <1>5, <1>7, <1>8, <1>9, <1>10, <1>19, <2>1, OpenGoesOn

LEMMA UnansweredSame ==
    ASSUME NEW s, NEW t, NEW n, After(s, t, n), \A q \in 1 .. n : ~Matches(t, q, n + 1),
           ~IsRequest(t, n + 1) \/ AmbiguousAt(t, n + 1)
    PROVE  Unanswered(t) = Unanswered(s)
<1>1. Unanswered(t) = Unanswered(s) \cup
          {q \in {n + 1} : IsRequest(t, q) /\ ~AmbiguousAt(t, q)}
  BY UnansweredMore, Zenon
<1> QED BY <1>1, Zenon

(* A response that leaves the table alone.                                   *)
LEMMA ResponseKeeps ==
    ASSUME NEW d, Sound(d), Tabled(d), NEW m \in Messages, m.response,
           NEW t, NEW n, NewSeen(d, m, t, n),
           NEW e, e.requests = d.requests, e.seen = t,
           \A j \in DOMAIN d.requests :
               Answers(t, d.requests[j].message, n + 1) => d.requests[j].status = "AMBIGUOUS",
           \A q \in 1 .. n : ~Matches(t, q, n + 1)
    PROVE  Tabled(e)
<1> DEFINE s == d.seen
<1>1. /\ n \in Nat /\ n = Len(s) /\ After(s, t, n) /\ Agree(s, t, n) /\ ~IsRequest(t, n + 1)
      /\ \A p \in 1 .. n : t[p] = s[p]
      /\ Len(t) = n + 1 /\ 1 .. n + 1 = (1 .. n) \cup {n + 1}
  BY NewFacts
<1>2. \A p : ~SameKey(t, p, n + 1)
  BY <1>1, Zenon DEF SameKey
<1>3. \A j \in DOMAIN d.requests : d.requests[j].message \in 1 .. n
  BY <1>1, MessageOf
<1>4. ASSUME NEW j \in DOMAIN d.requests PROVE Entry(t, d.requests[j])
  <2>1. Entry(s, d.requests[j])
    BY Zenon DEF Tabled
  <2> QED BY <1>1, <1>2, <1>3, <2>1, EntryKept
<1>5. ASSUME NEW p \in 1 .. n, IsRequest(t, p) PROVE HasEntry(e, p) \/ Settled(t, p)
  <2>1. IsRequest(s, p)
    BY <1>1, <1>5, SamePair
  <2>2. CASE HasEntry(d, p)
    <3>1. PICK j \in DOMAIN d.requests : KeyOf(s, d.requests[j]) = Key(s[p])
      BY <2>2, Zenon DEF HasEntry
    <3>2. KeyOf(t, d.requests[j]) = Key(t[p])
      BY <1>1, <1>3, <3>1, Zenon DEF KeyOf
    <3> QED BY <3>1, <3>2, Zenon DEF HasEntry
  <2>3. CASE Settled(s, p)
    BY <1>1, <1>2, <2>3, SettledKept
  <2> QED BY <1>1, <2>1, <2>2, <2>3, Zenon DEF Tabled
<1>6. Unanswered(t) = Requested(e)
  <2>1. Unanswered(t) = Unanswered(s)
    BY <1>1, UnansweredSame
  <2> QED BY <2>1, Zenon DEF Tabled, Requested
<1>7. \A i \in DOMAIN e.requests : Entry(e.seen, e.requests[i])
  BY <1>4, Zenon
<1>8. \A q \in 1 .. Len(e.seen) : IsRequest(e.seen, q) => HasEntry(e, q) \/ Settled(e.seen, q)
  BY <1>1, <1>5, Zenon
<1> QED BY <1>6, <1>7, <1>8, Zenon DEF Tabled

LEMMA AmbiguousExplained ==
    ASSUME NEW d, Sound(d), Explained(d), NEW m \in Messages, ResponseAmbiguous(d, m)
    PROVE  \A e \in candidate' : Explained(e)
<1> SUFFICES ASSUME NEW e \in candidate' PROVE Explained(e)
  OBVIOUS
<1> DEFINE o == Observation(d, "AMBIGUOUS", 0, Reason(d))
           t == Append(d.seen, m)
           n == Len(d.seen)
<1>1. PICK i \in Held(d, m) : d.requests[i].status = "AMBIGUOUS"
  BY Zenon DEF ResponseAmbiguous, Answerable
<1>2. m.response /\ ~d.unavailable
  BY Zenon DEF ResponseAmbiguous, Answerable
<1>3. Update(d, m, d.requests, <<o>>, d.unavailable)
  BY DEF ResponseAmbiguous
<1>4. o \in Observations /\ o.status = "AMBIGUOUS"
  BY ObservationType DEF Terminal, Reason
<1>5. NewSeen(d, m, t, n)
  BY DEF NewSeen
<1> HIDE DEF o, t, n
<1>6. d.unavailable \in BOOLEAN
  BY Fields
<1>7. Made(d, m, e, d.requests, <<o>>) /\ ~e.unavailable
  BY <1>2, <1>3, <1>6, UpdateGives, Zenon
<1>8. Known(d) /\ Open(d) /\ Tabled(d)
  BY <1>2, Zenon DEF Explained, Open
<1>9. n \in Nat /\ n = Len(d.seen)
  BY <1>5, NewFacts
<1>10. e.requests = d.requests /\ e.seen = t
  BY <1>5, <1>7, Zenon DEF Made, NewSeen
<1>11. AmbiguousAt(t, n + 1)
  <2>1. \E j \in Held(d, m) : m.response => d.requests[j].status = "AMBIGUOUS"
    BY <1>1
  <2> QED BY <1>2, <1>5, <1>8, <2>1, AmbiguousIs
<1>12. \A q \in 1 .. n : ~Matches(t, q, n + 1)
  <2>1. Answered(d, m) = {}
    BY <1>1, HeldOnce DEF Answered, Answerable
  <2>2. \A q \in 1 .. n : Matches(t, q, n + 1) <=>
            m.response /\ \E j \in Answered(d, m) : d.requests[j].message = q
    BY <1>2, <1>5, <1>8, MatchesIs
  <2> QED BY <2>1, <2>2, Zenon
<1>13. ~MatchedAt(t, n + 1)
  <2>1. 1 .. (n + 1) - 1 = 1 .. n
    BY <1>9
  <2> QED BY <1>12, <2>1, Zenon DEF MatchedAt
<1>14. ~OneTooMany(t, n + 1)
  BY <1>2, <1>5, <1>8, OneTooManyIs
<1>15. ASSUME NEW j \in DOMAIN d.requests, Answers(t, d.requests[j].message, n + 1)
       PROVE  d.requests[j].status = "AMBIGUOUS"
  <2>1. Concerns(t, d.requests[j].message, n + 1)
    BY <1>15, Zenon DEF Answers, Concerns
  <2>2. j \in Held(d, m)
    BY <1>5, <1>8, <2>1, OtherEntries
  <2>3. j = i
    BY <1>1, <2>2, HeldOnce
  <2> QED BY <1>1, <2>3
<1>16. Tabled(e)
  BY <1>2, <1>5, <1>8, <1>10, <1>12, <1>15, ResponseKeeps
<1> QED
  <2>1. o.status # "MATCHED" /\ o.status # "UNMATCHED" /\ o.status # "UNRESOLVED"
    BY <1>4
  <2> QED BY <1>2, <1>4, <1>5, <1>7, <1>11, <1>13, <1>14, <1>16, <2>1, OpenGoesOn

LEMMA UnmatchedExplained ==
    ASSUME NEW d, Sound(d), Explained(d), NEW m \in Messages, ResponseUnmatched(d, m)
    PROVE  \A e \in candidate' : Explained(e)
<1> SUFFICES ASSUME NEW e \in candidate' PROVE Explained(e)
  OBVIOUS
<1> DEFINE o == Observation(d, "UNMATCHED", 0, Reason(d))
           t == Append(d.seen, m)
           n == Len(d.seen)
<1>1. /\ m.response
      /\ \A i \in Answerable(d, m) : d.requests[i].status # "AMBIGUOUS"
      /\ Answered(d, m) = {}
  BY Zenon DEF ResponseUnmatched
<1>2. Update(d, m, d.requests, <<o>>, d.unavailable)
  BY DEF ResponseUnmatched
<1>3. o \in Observations /\ o.status = "UNMATCHED"
  BY ObservationType DEF Terminal, Reason
<1>4. NewSeen(d, m, t, n)
  BY DEF NewSeen
<1> HIDE DEF o, t, n
<1>5. d.unavailable \in BOOLEAN
  BY Fields
<1>6. Made(d, m, e, d.requests, <<o>>) /\ (e.unavailable <=> d.unavailable)
  BY <1>2, <1>5, UpdateGives, Zenon
<1>7. Known(d) /\ Open(d)
  BY Zenon DEF Explained
<1>8. n \in Nat /\ n = Len(d.seen) /\ ~IsRequest(t, n + 1) /\ After(d.seen, t, n)
  BY <1>1, <1>4, NewFacts
<1>9. e.requests = d.requests /\ e.seen = t
  BY <1>4, <1>6, Zenon DEF Made, NewSeen
<1>10. o.status # "MATCHED" /\ o.status # "AMBIGUOUS" /\ o.status # "UNRESOLVED"
  BY <1>3
<1>11. CASE d.unavailable
  <2>1. /\ ~MatchedAt(t, n + 1) /\ ~AmbiguousAt(t, n + 1)
        /\ \A q : ~Matches(t, q, n + 1)
        /\ GivenUp(t, Len(t) + 1)
    BY <1>4, <1>7, <1>11, GivenUpNothing
  <2>2. e.unavailable
    BY <1>6, <1>11
  <2>3. /\ Known(e)
        /\ e.stats["UNRESOLVED"] =
               d.stats["UNRESOLVED"] + (IF o.status = "UNRESOLVED" THEN 1 ELSE 0)
    BY <1>3, <1>4, <1>6, <1>7, <1>8, <1>10, <2>1, <2>2, SingleKnown
  <2>4. d.stats["UNRESOLVED"] = Cardinality(Unanswered(d.seen))
    BY <1>7, <1>11, Zenon DEF Open
  <2>5. Unanswered(t) = Unanswered(d.seen)
    <3>1. Unanswered(t) = Unanswered(d.seen) \cup
              {q \in {n + 1} : IsRequest(t, q) /\ ~AmbiguousAt(t, q)}
      BY <1>8, <2>1, UnansweredMore, Zenon
    <3> QED BY <1>8, <3>1, Zenon
  <2>6. d.stats["UNRESOLVED"] \in Nat
    BY Fields DEF Counters, Terminal
  <2>7. e.stats["UNRESOLVED"] = Cardinality(Unanswered(e.seen))
    BY <1>9, <1>10, <2>3, <2>4, <2>5, <2>6
  <2>8. Open(e)
    BY <2>2, <2>7, Zenon DEF Open
  <2> QED BY <2>3, <2>8 DEF Explained
<1>12. CASE ~d.unavailable
  <2>1. Tabled(d)
    BY <1>7, <1>12, Zenon DEF Open
  <2>2. \A i \in Held(d, m) : d.requests[i].status # "AMBIGUOUS"
    BY <1>1, <1>12, Zenon DEF Answerable
  <2>3. ~AmbiguousAt(t, n + 1)
    <3>1. AmbiguousAt(t, n + 1) <=>
              \E i \in Held(d, m) : m.response => d.requests[i].status = "AMBIGUOUS"
      BY <1>4, <1>7, <1>12, <2>1, AmbiguousIs
    <3> QED BY <1>1, <2>2, <3>1, Zenon
  <2>4. \A q \in 1 .. n : ~Matches(t, q, n + 1)
    <3>1. \A q \in 1 .. n : Matches(t, q, n + 1) <=>
              m.response /\ \E j \in Answered(d, m) : d.requests[j].message = q
      BY <1>4, <1>7, <1>12, <2>1, MatchesIs
    <3> QED BY <1>1, <3>1, Zenon
  <2>5. ~MatchedAt(t, n + 1)
    <3>1. 1 .. (n + 1) - 1 = 1 .. n
      BY <1>8
    <3> QED BY <2>4, <3>1, Zenon DEF MatchedAt
  <2>6. ~OneTooMany(t, n + 1)
    BY <1>1, <1>4, <1>7, <1>12, <2>1, OneTooManyIs
  <2>7. ASSUME NEW j \in DOMAIN d.requests, Answers(t, d.requests[j].message, n + 1)
        PROVE  d.requests[j].status = "AMBIGUOUS"
    <3>1. Concerns(t, d.requests[j].message, n + 1)
      BY <2>7, Zenon DEF Answers, Concerns
    <3>2. j \in Held(d, m)
      BY <1>4, <2>1, <3>1, OtherEntries
    <3>3. d.requests[j].message \in 1 .. n /\ d.requests[j].request = d.requests[j].message
      <4>1. d.requests[j].message \in 1 .. n
        BY <1>8, MessageOf
      <4> QED BY <2>1, <4>1, Zenon DEF Tabled, Entry
    <3>4. d.seen[d.requests[j].message].content = m.content
      <4>1. t[d.requests[j].message] = d.seen[d.requests[j].message] /\ t[n + 1] = m
        BY <1>4, <3>3, NewFacts
      <4> QED BY <2>7, <4>1, Zenon DEF Answers
    <3>5. j \in Answered(d, m)
      BY <1>12, <2>2, <3>2, <3>3, <3>4, Zenon DEF Answered, Answerable
    <3> QED BY <1>1, <3>5
  <2>8. Tabled(e)
    BY <1>1, <1>4, <1>9, <2>1, <2>4, <2>7, ResponseKeeps
  <2>9. ~e.unavailable
    BY <1>6, <1>12
  <2> QED BY <1>3, <1>4, <1>6, <1>8, <1>10, <1>12, <2>3, <2>5, <2>6, <2>8, <2>9, OpenGoesOn
<1> QED BY <1>11, <1>12

LEMMA WithoutEntries ==
    ASSUME NEW s \in Seq(Observations), NEW i \in DOMAIN s
    PROVE  /\ \A k \in DOMAIN Without(s, i) :
                  \E j \in DOMAIN s : j # i /\ Without(s, i)[k] = s[j]
           /\ \A j \in DOMAIN s :
                  j # i => \E k \in DOMAIN Without(s, i) : Without(s, i)[k] = s[j]
<1>1. DOMAIN s = 1 .. Len(s) /\ Len(s) \in Nat /\ i \in 1 .. Len(s)
  BY LenProperties
<1>2. /\ Without(s, i) \in Seq(Observations)
      /\ Len(Without(s, i)) = Len(s) - 1
      /\ \A j \in 1 .. Len(s) - 1 : Without(s, i)[j] = IF j < i THEN s[j] ELSE s[j + 1]
  BY <1>1, WithoutProperties
<1>3. DOMAIN Without(s, i) = 1 .. Len(s) - 1
  BY <1>2, LenProperties
<1>4. ASSUME NEW k \in 1 .. Len(s) - 1
      PROVE  \E j \in DOMAIN s : j # i /\ Without(s, i)[k] = s[j]
  <2>1. CASE k < i
    <3>1. k \in DOMAIN s /\ k # i BY <1>1, <2>1
    <3> QED BY <1>2, <2>1, <3>1
  <2>2. CASE ~(k < i)
    <3>1. k + 1 \in DOMAIN s /\ k + 1 # i BY <1>1, <2>2
    <3> QED BY <1>2, <2>2, <3>1
  <2> QED BY <2>1, <2>2
<1>5. ASSUME NEW j \in DOMAIN s, j # i
      PROVE  \E k \in 1 .. Len(s) - 1 : Without(s, i)[k] = s[j]
  <2>1. CASE j < i
    <3>1. j \in 1 .. Len(s) - 1 BY <1>1, <2>1
    <3> QED BY <1>2, <2>1, <3>1
  <2>2. CASE ~(j < i)
    <3>1. j - 1 \in 1 .. Len(s) - 1 /\ ~(j - 1 < i) /\ (j - 1) + 1 = j
      BY <1>1, <1>5, <2>2
    <3>2. Without(s, i)[j - 1] = s[j]
      BY <1>2, <3>1
    <3> QED BY <3>1, <3>2
  <2> QED BY <2>1, <2>2
<1> QED BY <1>3, <1>4, <1>5, Zenon

LEMMA MatchedExplained ==
    ASSUME NEW d, Sound(d), Explained(d), NEW m \in Messages, ResponseMatched(d, m)
    PROVE  \A e \in candidate' : Explained(e)
<1> SUFFICES ASSUME NEW e \in candidate' PROVE Explained(e)
  OBVIOUS
<1>1. PICK i \in Answered(d, m) :
          Update(d, m, Without(d.requests, i),
                 <<Observation(d, "MATCHED", d.requests[i].request, "none")>>, FALSE)
  BY DEF ResponseMatched
<1> DEFINE o == Observation(d, "MATCHED", d.requests[i].request, "none")
           requests == Without(d.requests, i)
           s == d.seen
           t == Append(d.seen, m)
           n == Len(d.seen)
           q == d.requests[i].message
<1>2. /\ i \in Held(d, m) /\ i \in DOMAIN d.requests
      /\ d.requests[i].status # "AMBIGUOUS"
      /\ ~d.unavailable /\ m.response
  BY <1>1, Zenon DEF Answered, Answerable, Held, ResponseMatched
<1>3. /\ o \in Observations /\ o.status = "MATCHED" /\ o.message = n + 1
      /\ o.request = d.requests[i].request
  <2>1. o.request = d.requests[i].request
    BY DEF Observation
  <2> QED BY <1>2, <2>1, RequestOf, ObservationType DEF Terminal
<1>4. Update(d, m, requests, <<o>>, FALSE)
  BY <1>1
<1>5. /\ \A k \in DOMAIN requests :
             \E j \in DOMAIN d.requests : j # i /\ requests[k] = d.requests[j]
      /\ \A j \in DOMAIN d.requests :
             j # i => \E k \in DOMAIN requests : requests[k] = d.requests[j]
  <2>1. d.requests \in Seq(Observations)
    BY Fields
  <2> QED BY <1>2, <2>1, WithoutEntries
<1>6. NewSeen(d, m, t, n)
  BY DEF NewSeen
<1> HIDE DEF o, requests, s, t, n
<1>7. /\ n \in Nat /\ n = Len(s) /\ After(s, t, n) /\ Agree(s, t, n) /\ ~IsRequest(t, n + 1)
      /\ \A p \in 1 .. n : t[p] = s[p]
      /\ s \in Seq(Messages) /\ t \in Seq(Messages) /\ Len(t) = n + 1
      /\ 1 .. n + 1 = (1 .. n) \cup {n + 1} /\ 1 .. (n + 1) - 1 = 1 .. n
  BY <1>2, <1>6, NewFacts DEF s
<1>8. Known(d) /\ Open(d) /\ Tabled(d)
  BY <1>2, Zenon DEF Explained, Open
<1>9. Made(d, m, e, requests, <<o>>) /\ ~e.unavailable
  BY <1>4, UpdateGives
<1>10. e.requests = requests /\ e.seen = t
  BY <1>6, <1>9, Zenon DEF Made, NewSeen
<1>11. /\ Entry(s, d.requests[i]) /\ IsRequest(s, q) /\ d.requests[i].request = q
       /\ q \in 1 .. n
  <2>1. Entry(s, d.requests[i]) /\ IsRequest(s, q) /\ d.requests[i].request = q
    BY <1>2, <1>8, Zenon DEF Tabled, Entry, s
  <2> QED BY <1>2, <1>7, <2>1, MessageOf DEF s
<1>12. Pended(s, d.requests[i])
  <2>1. d.requests[i].status = "PENDING"
    BY <1>2, <1>11 DEF Entry
  <2> QED BY <1>11, <2>1, Zenon DEF Entry
<1>13. /\ ~Poisoned(s, q, n + 1)
       /\ \A p \in 1 .. n : SameKey(s, q, p) => p <= q
       /\ \A p \in 1 .. q - 1 : SameKey(s, p, q) => \E r \in p + 1 .. n : Answers(s, p, r)
  BY <1>7, <1>12, Zenon DEF Pended
<1>14. Matches(t, q, n + 1) /\ Answers(t, q, n + 1)
  <2>1. Matches(t, q, n + 1) <=>
            m.response /\ \E j \in Answered(d, m) : d.requests[j].message = q
    BY <1>2, <1>6, <1>8, <1>11, MatchesIs
  <2>2. Matches(t, q, n + 1)
    BY <1>1, <1>2, <2>1, Zenon
  <2> QED BY <2>2, Zenon DEF Matches
<1>15. \A j \in Held(d, m) : j = i
  BY <1>2, HeldOnce
<1>16. ASSUME NEW p \in 1 .. n, Matches(t, p, n + 1) PROVE p = q
  <2>1. Matches(t, p, n + 1) <=>
            m.response /\ \E j \in Answered(d, m) : d.requests[j].message = p
    BY <1>2, <1>6, <1>8, MatchesIs
  <2>2. PICK j \in Answered(d, m) : d.requests[j].message = p
    BY <1>16, <2>1, Zenon
  <2>3. j \in Held(d, m)
    BY <2>2, Zenon DEF Answered, Answerable
  <2> QED BY <1>15, <2>2, <2>3, Zenon
<1>17. MatchedAt(t, n + 1)
  BY <1>7, <1>11, <1>14, Zenon DEF MatchedAt
<1>18. ~AmbiguousAt(t, n + 1)
  <2>1. AmbiguousAt(t, n + 1) <=>
            \E j \in Held(d, m) : m.response => d.requests[j].status = "AMBIGUOUS"
    BY <1>2, <1>6, <1>8, AmbiguousIs
  <2> QED BY <1>2, <1>15, <2>1, Zenon
<1>19. ~OneTooMany(t, n + 1)
  BY <1>2, <1>6, <1>8, OneTooManyIs
<1>20. \A p : ~SameKey(t, p, n + 1)
  BY <1>7, Zenon DEF SameKey
<1>21. \A j \in DOMAIN d.requests : d.requests[j].message \in 1 .. n
  BY <1>7, MessageOf DEF s
<1>22. ASSUME NEW k \in DOMAIN e.requests PROVE Entry(e.seen, e.requests[k])
  <2>1. PICK j \in DOMAIN d.requests : j # i /\ requests[k] = d.requests[j]
    BY <1>5, <1>10, <1>22, Zenon
  <2>2. j \notin Held(d, m)
    BY <1>15, <2>1
  <2>3. Entry(t, d.requests[j])
    BY <1>6, <1>8, <2>1, <2>2, OtherEntries
  <2> QED BY <1>10, <2>1, <2>3, Zenon
<1>23. ASSUME NEW p \in 1 .. n, SameKey(s, p, q) PROVE Settled(t, p)
  <2>1. ~Poisoned(t, p, Len(t) + 1)
    <3>1. ~Poisoned(s, p, n + 1)
      BY <1>13, <1>23, PoisonShared
    <3> QED BY <1>7, <1>20, <3>1, PoisonAfter
  <2>2. CASE p = q
    <3>1. n + 1 \in q + 1 .. Len(t)
      BY <1>7, <1>11
    <3> QED BY <1>14, <2>1, <2>2, <3>1, Zenon DEF Settled
  <2>3. CASE p # q
    <3>1. SameKey(s, q, p)
      BY <1>23, SameKeys
    <3>2. p \in 1 .. q - 1
      BY <1>11, <1>13, <2>3, <3>1
    <3>3. PICK r \in p + 1 .. n : Answers(s, p, r)
      BY <1>13, <1>23, <3>2, Zenon
    <3>4. r \in 1 .. n /\ r \in p + 1 .. Len(t)
      BY <1>7, <3>3
    <3>5. Answers(t, p, r)
      BY <1>7, <3>3, <3>4, SamePair
    <3> QED BY <2>1, <3>4, <3>5, Zenon DEF Settled
  <2> QED BY <2>2, <2>3
<1>24. ASSUME NEW p \in 1 .. n, IsRequest(t, p) PROVE HasEntry(e, p) \/ Settled(t, p)
  <2>1. IsRequest(s, p)
    BY <1>7, <1>24, SamePair
  <2>2. HasEntry(d, p) \/ Settled(s, p)
    BY <1>7, <1>8, <2>1, Zenon DEF Tabled, s
  <2>3. CASE Settled(s, p)
    BY <1>7, <1>20, <2>3, SettledKept
  <2>4. CASE HasEntry(d, p)
    <3>1. PICK j \in DOMAIN d.requests : KeyOf(s, d.requests[j]) = Key(s[p])
      BY <2>4, Zenon DEF HasEntry, s
    <3>2. CASE j = i
      <4>1. Key(s[q]) = Key(s[p])
        BY <3>1, <3>2, Zenon DEF KeyOf
      <4>2. SameKey(s, p, q)
        BY <1>7, <1>11, <2>1, <4>1, KeyEqual
      <4> QED BY <1>23, <4>2
    <3>3. CASE j # i
      <4>1. PICK k \in DOMAIN requests : requests[k] = d.requests[j]
        BY <1>5, <3>1, <3>3, Zenon
      <4>2. KeyOf(t, requests[k]) = Key(t[p])
        BY <1>7, <1>21, <3>1, <4>1, Zenon DEF KeyOf
      <4> QED BY <1>10, <4>1, <4>2, Zenon DEF HasEntry
    <3> QED BY <3>2, <3>3
  <2> QED BY <2>2, <2>3, <2>4
<1>25. Unanswered(t) = Requested(e)
  <2>1. Unanswered(t) = {u \in Unanswered(s) : ~Matches(t, u, n + 1)} \cup
            {u \in {n + 1} : IsRequest(t, u) /\ ~AmbiguousAt(t, u)}
    BY <1>7, SetsAfter
  <2>2. Unanswered(s) = Requested(d)
    BY <1>8, Zenon DEF Tabled, s
  <2>3. \A u \in Requested(d) : Matches(t, u, n + 1) <=> u = q
    BY <1>14, <1>16, <1>21, Zenon DEF Requested
  <2>4. Unanswered(t) = {u \in Requested(d) : u # q}
    BY <1>7, <2>1, <2>2, <2>3, Zenon
  <2>5. \A j \in DOMAIN d.requests : d.requests[j].message = q <=> j = i
    <3>1. \A j \in DOMAIN d.requests :
              d.requests[j].message = q => KeyOf(s, d.requests[j]) = KeyOf(s, d.requests[i])
      BY Zenon DEF KeyOf
    <3> QED BY <1>2, <3>1, Zenon DEF Sound, s
  <2>6. ASSUME NEW u PROVE u \in Requested(e) <=> u \in Requested(d) /\ u # q
    <3>1. ASSUME u \in Requested(e) PROVE u \in Requested(d) /\ u # q
      <4>1. PICK k \in DOMAIN requests : u = requests[k].message
        BY <1>10, <3>1, Zenon DEF Requested
      <4>2. PICK j \in DOMAIN d.requests : j # i /\ requests[k] = d.requests[j]
        BY <1>5, <4>1, Zenon
      <4> QED BY <2>5, <4>1, <4>2, Zenon DEF Requested
    <3>2. ASSUME u \in Requested(d), u # q PROVE u \in Requested(e)
      <4>1. PICK j \in DOMAIN d.requests : u = d.requests[j].message
        BY <3>2, Zenon DEF Requested
      <4>2. PICK k \in DOMAIN requests : requests[k] = d.requests[j]
        BY <1>5, <2>5, <3>2, <4>1, Zenon
      <4> QED BY <1>10, <4>1, <4>2, Zenon DEF Requested
    <3> QED BY <3>1, <3>2
  <2> QED BY <2>4, <2>6, Zenon
<1>26. Tabled(e)
  <2>1. \A p \in 1 .. Len(e.seen) : IsRequest(e.seen, p) => HasEntry(e, p) \/ Settled(e.seen, p)
    BY <1>7, <1>10, <1>24, Zenon
  <2> QED BY <1>10, <1>22, <1>25, <2>1, Zenon DEF Tabled
<1> QED
  <2>1. o.status # "AMBIGUOUS" /\ o.status # "UNMATCHED" /\ o.status # "UNRESOLVED"
    BY <1>3
  <2>2. Matches(t, o.request, o.message)
    BY <1>3, <1>11, <1>14
  <2> QED BY <1>2, <1>3, <1>6, <1>9, <1>17, <1>18, <1>19, <1>26, <2>1, <2>2, OpenGoesOn

LEMMA MessageExplained ==
    ASSUME NEW d, Sound(d), Explained(d), NEW m \in Messages, MessageStep(d, m)
    PROVE  \A e \in candidate' : Explained(e)
<1>1. CASE RequestUnavailable(d, m)
  BY <1>1, UnavailableExplained
<1>2. CASE RequestRepeated(d, m)
  BY <1>2, RepeatedExplained
<1>3. CASE RequestOverflows(d, m)
  BY <1>3, OverflowsExplained
<1>4. CASE RequestOutstanding(d, m)
  BY <1>4, OutstandingExplained
<1>5. CASE ResponseAmbiguous(d, m)
  BY <1>5, AmbiguousExplained
<1>6. CASE ResponseMatched(d, m)
  BY <1>6, MatchedExplained
<1>7. CASE ResponseUnmatched(d, m)
  BY <1>7, UnmatchedExplained
<1> QED BY <1>1, <1>2, <1>3, <1>4, <1>5, <1>6, <1>7 DEF MessageStep, Respond

-----------------------------------------------------------------------------
(* The window as a whole.                                                    *)
LEMMA InitExplained == Explained(InitState)
<1> DEFINE d == InitState
<1>1. /\ d.seen = <<>> /\ d.requests = <<>> /\ d.observations = <<>> /\ ~d.unavailable
      /\ d.stats = [c \in Counters |-> 0]
  BY DEF InitState
<1>2. /\ DOMAIN d.seen = {} /\ Len(d.seen) = 0
      /\ DOMAIN d.requests = {} /\ DOMAIN d.observations = {}
  BY <1>1
<1>3. /\ d.stats["MATCHED"] = 0 /\ d.stats["AMBIGUOUS"] = 0
      /\ d.stats["UNMATCHED"] = 0 /\ d.stats["UNRESOLVED"] = 0
  BY <1>1 DEF Counters, Terminal
<1>4. ~d.unavailable
  BY <1>1
<1> HIDE DEF d
<1>5. ~GivenUp(d.seen, Len(d.seen) + 1)
  <2>1. 1 .. (Len(d.seen) + 1) - 1 = {}
    BY <1>2
  <2> QED BY <2>1, Zenon DEF GivenUp
<1>6. /\ Matched(d.seen) = {} /\ Ambiguous(d.seen) = {} /\ Unmatched(d.seen) = {}
      /\ Unanswered(d.seen) = {} /\ Requested(d) = {}
  BY <1>2, Zenon DEF Matched, Ambiguous, Unmatched, Unanswered, Requested
<1>7. Known(d)
  BY <1>2, <1>3, <1>4, <1>5, <1>6, FS_EmptySet, Zenon DEF Known
<1>8. Tabled(d)
  <2>1. 1 .. Len(d.seen) = {}
    BY <1>2
  <2> QED BY <1>2, <1>6, <2>1, Zenon DEF Tabled
<1>9. Open(d)
  BY <1>3, <1>4, <1>8, Zenon DEF Open
<1> QED BY <1>7, <1>9 DEF Explained, d

LEMMA NotCompleteExplained ==
    ASSUME NEW d, Sound(d), Explained(d)
    PROVE  Explained([d EXCEPT !.observations = <<>>])
<1> DEFINE e == [d EXCEPT !.observations = <<>>]
<1>1. /\ e.requests = d.requests /\ e.seen = d.seen /\ e.observations = <<>>
      /\ e.unavailable = d.unavailable /\ e.stats = d.stats
  BY DEF Sound, States
<1> HIDE DEF e
<1>2. DOMAIN e.observations = {}
  BY <1>1
<1>3. Known(e)
  BY <1>1, <1>2, Zenon DEF Explained, Known
<1>4. Tabled(d) => Tabled(e)
  BY <1>1, Zenon DEF Tabled, HasEntry, Requested
<1>5. Open(e)
  BY <1>1, <1>4, Zenon DEF Explained, Open
<1> QED BY <1>3, <1>5 DEF Explained, e

(* Closing adds the outstanding requests to those without an answer.         *)
LEMMA FinalExplained ==
    ASSUME NEW d, Sound(d), Explained(d), NEW order \in RetainedOrders(d),
           NEW e, e = FinalState(d, [i \in DOMAIN order |-> d.observations[order[i]]])
    PROVE  Known(e) /\ e.stats["UNRESOLVED"] = Cardinality(Unanswered(e.seen))
<1> DEFINE retained == [i \in DOMAIN order |-> d.observations[order[i]]]
<1>1. retained \in Seq(Observations) /\ e = FinalState(d, retained)
  BY RetainedType
<1>2. \A i \in DOMAIN retained : /\ retained[i] = d.observations[order[i]]
                                 /\ order[i] \in DOMAIN d.observations
  BY DEF RetainedOrders, Counted
<1> HIDE DEF retained
<1>3. /\ e.requests = <<>> /\ e.seen = d.seen /\ e.unavailable = d.unavailable
      /\ RetainedOrLost(e, retained)
      /\ RequestsLost(d, e)
  BY <1>1, FinalizedParts, Zenon
<1>4. PICK suffix \in Seq(Observations) :
          /\ Len(suffix) = Len(d.requests)
          /\ \A i \in DOMAIN suffix : suffix[i].status = "UNRESOLVED"
          /\ e.stats = Folded(d.stats, suffix)
  BY <1>3, Zenon DEF RequestsLost
<1>5. /\ d.stats \in [Counters -> Nat] /\ Len(d.requests) \in Nat
      /\ d.stats["MATCHED"] \in Nat /\ d.stats["AMBIGUOUS"] \in Nat /\ d.stats["UNMATCHED"] \in Nat
      /\ d.stats["UNRESOLVED"] \in Nat
  BY Fields DEF Counters, Terminal
<1>6. /\ "MATCHED" \in Terminal /\ "AMBIGUOUS" \in Terminal
      /\ "UNMATCHED" \in Terminal /\ "UNRESOLVED" \in Terminal
  BY DEF Terminal
<1>7. \A c \in Terminal : Folded(d.stats, suffix)[c] =
          d.stats[c] + (IF c = "UNRESOLVED" THEN Len(suffix) ELSE 0)
  BY <1>4, <1>5, FoldedLost
<1>8. /\ e.stats["MATCHED"] = d.stats["MATCHED"]
      /\ e.stats["AMBIGUOUS"] = d.stats["AMBIGUOUS"]
      /\ e.stats["UNMATCHED"] = d.stats["UNMATCHED"]
      /\ e.stats["UNRESOLVED"] = d.stats["UNRESOLVED"] + Len(d.requests)
  BY <1>4, <1>5, <1>6, <1>7
<1>9. Known(d) /\ Open(d)
  BY DEF Explained
<1>10. ASSUME NEW i \in DOMAIN e.observations, e.observations[i].status = "MATCHED"
       PROVE  Matches(e.seen, e.observations[i].request, e.observations[i].message)
  <2>1. i \in DOMAIN retained /\ e.observations[i] = d.observations[order[i]]
    <3>1. \/ i \in DOMAIN retained /\ e.observations[i] = retained[i]
          \/ e.observations[i].status = "UNRESOLVED"
      BY <1>3, <1>10, Zenon DEF RetainedOrLost
    <3>2. e.observations[i].status # "UNRESOLVED"
      BY <1>10
    <3> QED BY <1>2, <3>1, <3>2
  <2>2. order[i] \in DOMAIN d.observations
    BY <1>2, <2>1
  <2> QED BY <1>3, <1>9, <1>10, <2>1, <2>2, Zenon DEF Known
<1>11. Known(e)
  BY <1>3, <1>8, <1>9, <1>10, Zenon DEF Known
<1>12. e.stats["UNRESOLVED"] = Cardinality(Unanswered(d.seen))
  <2>1. CASE d.unavailable
    <3>1. d.stats["UNRESOLVED"] = Cardinality(Unanswered(d.seen))
      BY <1>9, <2>1, Zenon DEF Open
    <3>2. Len(d.requests) = 0
      BY <2>1 DEF Sound
    <3> QED BY <1>5, <1>8, <3>1, <3>2
  <2>2. CASE ~d.unavailable
    <3>1. d.stats["UNRESOLVED"] = 0 /\ Unanswered(d.seen) = Requested(d)
      BY <1>9, <2>2, Zenon DEF Open, Tabled
    <3>2. Cardinality(Requested(d)) = Len(d.requests)
      BY RequestedSize
    <3> QED BY <1>5, <1>8, <3>1, <3>2
  <2> QED BY <2>1, <2>2
<1> QED BY <1>3, <1>11, <1>12, Zenon

LEMMA InitExchangeInv == DNSInit => ExchangeInv
<1> SUFFICES ASSUME DNSInit PROVE ExchangeInv
  OBVIOUS
<1>1. Live = {InitState} /\ closed = FALSE
  BY DEF DNSInit, Live
<1>2. Known(InitState) /\ Open(InitState)
  BY InitExplained DEF Explained
<1> QED BY <1>1, <1>2, InitDNSInv, Zenon DEF ExchangeInv

LEMMA NextExchangeInv == ExchangeInv /\ [DNSNext]_dnsVars => ExchangeInv'
<1> SUFFICES ASSUME ExchangeInv, [DNSNext]_dnsVars PROVE ExchangeInv'
  OBVIOUS
<1>0. /\ DNSInv /\ DNSInv'
      /\ \A d \in Live : Known(d)
      /\ ~closed => \A d \in Live : Explained(d)
      /\ closed => state.stats["UNRESOLVED"] = Cardinality(Unanswered(state.seen))
      /\ \A d \in Live : Sound(d)
      /\ closed => candidate = {}
  BY NextDNSInv, Zenon DEF ExchangeInv, Explained, DNSInv
<1>1. ASSUME closed' = FALSE, \A d \in Live' : Explained(d) PROVE ExchangeInv'
  BY <1>0, <1>1, Zenon DEF ExchangeInv, Explained
<1>2. ASSUME NEW frames \in Packets, Packet(frames) PROVE ExchangeInv'
  <2>1. candidate' = {state} /\ state' = state /\ closed' = closed /\ ~closed
    BY <1>2 DEF Packet
  <2>2. closed' = FALSE
    BY <1>0, <2>1 DEF DNSInv
  <2>3. \A d \in Live' : d \in Live
    BY <2>1 DEF Live
  <2> QED BY <1>0, <1>1, <2>1, <2>2, <2>3, Zenon
<1>3. CASE NotComplete
  <2>1. /\ candidate' = {[d EXCEPT !.observations = <<>>] : d \in candidate}
        /\ state' = state /\ closed' = closed
    BY <1>3 DEF NotComplete
  <2>2. CASE closed
    <3>1. closed' /\ Live' = Live
      BY <1>0, <2>1, <2>2 DEF Live
    <3> QED BY <1>0, <2>1, <2>2, <3>1, Zenon DEF ExchangeInv
  <2>3. CASE ~closed
    <3>1. closed' = FALSE
      BY <1>0, <2>1, <2>3 DEF DNSInv
    <3>2. \A d \in candidate' : Explained(d)
      BY <1>0, <2>1, <2>3, NotCompleteExplained DEF Live
    <3>3. \A d \in Live' : Explained(d)
      BY <1>0, <2>1, <2>3, <3>2 DEF Live
    <3> QED BY <1>1, <3>1, <3>3
  <2> QED BY <2>2, <2>3
<1>4. ASSUME NEW d \in candidate, NEW m \in Messages, MessageStep(d, m) PROVE ExchangeInv'
  <2>1. Meets(d, m)
    BY <1>4 DEF MessageStep, RequestUnavailable, RequestRepeated, RequestOverflows,
                RequestOutstanding, Respond, ResponseAmbiguous, ResponseMatched, ResponseUnmatched
  <2>2. state' = state /\ closed' = closed /\ ~closed
    BY <1>0, <2>1 DEF Meets
  <2>3. closed' = FALSE
    BY <1>0, <2>2 DEF DNSInv
  <2>4. Sound(d) /\ Explained(d) /\ Explained(state)
    BY <1>0, <2>2 DEF Live
  <2>5. \A e \in candidate' : Explained(e)
    BY <1>4, <2>4, MessageExplained
  <2>6. \A e \in Live' : Explained(e)
    BY <2>2, <2>4, <2>5 DEF Live
  <2> QED BY <1>1, <2>3, <2>6
<1>5. CASE Commit
  <2>1. /\ state' \in candidate /\ candidate' = {} /\ closed' = closed
    BY <1>5 DEF Commit
  <2>2. closed' = FALSE
    BY <1>0, <2>1 DEF DNSInv
  <2>3. \A e \in Live' : e \in Live
    BY <2>1 DEF Live
  <2> QED BY <1>0, <1>1, <2>1, <2>2, <2>3, Zenon
<1>6. CASE Abandon
  <2>1. candidate # {} /\ candidate' = {} /\ state' = state /\ closed' = closed
    BY <1>6 DEF Abandon, Idle
  <2>2. closed' = FALSE
    BY <1>0, <2>1 DEF DNSInv
  <2>3. \A e \in Live' : e \in Live
    BY <2>1 DEF Live
  <2> QED BY <1>0, <1>1, <2>1, <2>2, <2>3, Zenon
<1>7. CASE Close
  <2>1. PICK order \in RetainedOrders(state) :
            state' = FinalState(state, [i \in DOMAIN order |-> state.observations[order[i]]])
    BY <1>7, Zenon DEF Close, FinalState
  <2>2. candidate = {} /\ candidate' = {} /\ closed' /\ ~closed
    BY <1>7 DEF Close, Idle
  <2>3. Sound(state) /\ Explained(state)
    BY <1>0, <2>2 DEF Live
  <2>4. Known(state') /\ state'.stats["UNRESOLVED"] = Cardinality(Unanswered(state'.seen))
    BY <2>1, <2>3, FinalExplained
  <2>5. Live' = {state'}
    BY <2>2 DEF Live
  <2> QED BY <1>0, <2>2, <2>4, <2>5, Zenon DEF ExchangeInv
<1>8. CASE NewWindow
  <2>1. state' = InitState /\ closed' = FALSE /\ candidate' = candidate /\ closed
    BY <1>8 DEF NewWindow
  <2>2. Live' = {InitState}
    BY <1>0, <2>1 DEF Live
  <2> QED BY <1>1, <2>1, <2>2, InitExplained, Zenon
<1>9. CASE UNCHANGED dnsVars
  <2>1. state' = state /\ candidate' = candidate /\ closed' = closed
    BY <1>9 DEF dnsVars
  <2>2. Live' = Live
    BY <2>1 DEF Live
  <2> QED BY <1>0, <2>1, <2>2, Zenon DEF ExchangeInv, Explained
<1>10. CASE DNSNext
  <2> HIDE DEF MessageStep, ExchangeInv
  <2>1. \/ \E frames \in Packets : Packet(frames)
        \/ NotComplete
        \/ \E d \in candidate, m \in Messages : MessageStep(d, m)
        \/ Commit \/ Abandon \/ Close \/ NewWindow
    BY <1>10, Zenon DEF DNSNext, MessageStep
  <2> QED BY <1>2, <1>3, <1>4, <1>5, <1>6, <1>7, <1>8, <2>1
<1> QED BY <1>9, <1>10

(* The pending table is what the exchange says is outstanding, and every     *)
(* count and match so far is the one the exchange implies.                   *)
THEOREM ExchangeInvariant == DNSSpec => []ExchangeInv
BY InitExchangeInv, NextExchangeInv, PTL DEF DNSSpec

(* The outcome of every message is the one the exchange itself implies: what *)
(* the statistics of a window count as matched, ambiguous, unmatched and     *)
(* unresolved are those messages, none of them said of a table.              *)
THEOREM Statistics == DNSSpec => []StatisticsOfExchange
<1>1. ExchangeInv => StatisticsOfExchange
  <2> SUFFICES ASSUME ExchangeInv, NEW d \in Live
               PROVE  /\ d.stats["MATCHED"] = Cardinality(Matched(d.seen))
                      /\ d.stats["AMBIGUOUS"] = Cardinality(Ambiguous(d.seen))
                      /\ d.stats["UNMATCHED"] = Cardinality(Unmatched(d.seen))
                      /\ d.stats["UNRESOLVED"] = Cardinality(Unresolved(d, d.seen))
    BY Zenon DEF StatisticsOfExchange
  <2>1. Known(d)
    BY Zenon DEF ExchangeInv
  <2>2. d.stats["UNRESOLVED"] = Cardinality(Unresolved(d, d.seen))
    <3>1. CASE closed
      <4>1. d = state
        BY <3>1 DEF ExchangeInv, DNSInv, Live
      <4>2. state.stats["UNRESOLVED"] = Cardinality(Unanswered(state.seen))
        BY <3>1, Zenon DEF ExchangeInv
      <4>3. Unresolved(d, d.seen) = Unanswered(d.seen)
        BY <3>1, <4>1, Zenon DEF Unresolved
      <4> QED BY <4>1, <4>2, <4>3
    <3>2. CASE ~closed
      <4>1. Open(d)
        BY <3>2, Zenon DEF ExchangeInv
      <4>2. d.unavailable <=> GivenUp(d.seen, Len(d.seen) + 1)
        BY <2>1, Zenon DEF Known
      <4>3. CASE d.unavailable
        <5>1. d.stats["UNRESOLVED"] = Cardinality(Unanswered(d.seen))
          BY <4>1, <4>3, Zenon DEF Open
        <5>2. Unresolved(d, d.seen) = Unanswered(d.seen)
          BY <4>2, <4>3, Zenon DEF Unresolved
        <5> QED BY <5>1, <5>2
      <4>4. CASE ~d.unavailable
        <5>1. d.stats["UNRESOLVED"] = 0
          BY <4>1, <4>4, Zenon DEF Open
        <5>2. Unresolved(d, d.seen) = {}
          BY <3>2, <4>2, <4>4, Zenon DEF Unresolved
        <5> QED BY <5>1, <5>2, FS_EmptySet
      <4> QED BY <4>3, <4>4
    <3> QED BY <3>1, <3>2
  <2> QED BY <2>1, <2>2, Zenon DEF Known
<1> QED BY ExchangeInvariant, <1>1, PTL

(* A match that is published names the request the exchange gives it: the    *)
(* only one of its key, which this response is the first to answer.          *)
THEOREM MatchedRequest == DNSSpec => []MatchesNameTheirRequest
<1>1. ExchangeInv => MatchesNameTheirRequest
  BY Zenon DEF ExchangeInv, Known, MatchesNameTheirRequest
<1> QED BY ExchangeInvariant, <1>1, PTL
=============================================================================
