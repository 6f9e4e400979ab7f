---------------------------- MODULE TCPStreamProofs ----------------------------
(***************************************************************************)
(* Proofs about the observation of one direction of a TCP stream, for      *)
(* every buffer size, modulus, alphabet and stream of the sender; and in   *)
(* the second half about the framing of that stream, for every format of   *)
(* header and length.                                                      *)
(***************************************************************************)
EXTENDS FramedStream, SequenceTheorems, InductionLemmas, TLAPS

SegmentType == [seq : Sequences, syn : BOOLEAN, fin : BOOLEAN, rst : BOOLEAN,
                payload : Seq(Bytes), fragmented : BOOLEAN]

(* An observation on its own: typed, its buffer bounded, no more consumed    *)
(* than there is.                                                            *)
Sound(s) ==
    /\ s \in Observations
    /\ Len(s.payload) <= MaxBytes
    /\ s.consumed <= Len(s.payload)
    /\ (s.start = None) => (s.payload = <<>> /\ s.offset = 0)

(* The same buffer with the same bytes consumed.                             *)
SameBuffer(s, t) ==
    /\ t.payload = s.payload /\ t.offset = s.offset /\ t.consumed = s.consumed

(* Nothing is consumed, and what was not consumed is followed by more.       *)
Extends(s, t) ==
    /\ ConsumedOffset(t) = ConsumedOffset(s)
    /\ \E p \in Seq(Bytes) : Unconsumed(t) = Unconsumed(s) \o p

-----------------------------------------------------------------------------
(* Sequence numbers.                                                         *)
LEMMA ModRange ==
    ASSUME NEW n \in Int
    PROVE  n % Modulus \in Sequences
BY ModulusAssumption DEF Sequences

LEMMA FirstByteType ==
    ASSUME NEW g \in SegmentType
    PROVE  FirstByte(g) \in Sequences
<1>1. g.seq \in Int /\ g.seq + (IF g.syn THEN 1 ELSE 0) \in Int
  BY ModulusAssumption DEF SegmentType, Sequences
<1> QED BY <1>1, ModRange DEF FirstByte

-----------------------------------------------------------------------------
(* What is left of a sequence after its first c elements.                    *)
LEMMA RestOf ==
    ASSUME NEW S, NEW q \in Seq(S), NEW c \in 0 .. Len(q)
    PROVE  /\ SubSeq(q, c + 1, Len(q)) \in Seq(S)
           /\ Len(SubSeq(q, c + 1, Len(q))) = Len(q) - c
           /\ \A i \in 1 .. Len(q) - c : SubSeq(q, c + 1, Len(q))[i] = q[c + i]
<1>1. Len(q) \in Nat
  BY LenProperties
<1>2. \A i \in c + 1 .. Len(q) : q[i] \in S
  BY <1>1, ElementOfSeq
<1>3. c + 1 \in Int /\ Len(q) \in Int
  BY <1>1
<1>4. /\ SubSeq(q, c + 1, Len(q)) \in Seq(S)
      /\ Len(SubSeq(q, c + 1, Len(q))) = IF c + 1 <= Len(q) THEN Len(q) - (c + 1) + 1 ELSE 0
      /\ \A i \in 1 .. Len(q) - (c + 1) + 1 : SubSeq(q, c + 1, Len(q))[i] = q[(c + 1) + i - 1]
  BY <1>2, <1>3, SubSeqProperties
<1> QED BY <1>1, <1>4

LEMMA RestOfRest ==
    ASSUME NEW S, NEW q \in Seq(S), NEW c \in 0 .. Len(q), NEW n \in 0 .. Len(q) - c
    PROVE  SubSeq(q, c + n + 1, Len(q))
             = SubSeq(SubSeq(q, c + 1, Len(q)), n + 1, Len(q) - c)
<1> DEFINE r == SubSeq(q, c + 1, Len(q))
           a == SubSeq(q, c + n + 1, Len(q))
           b == SubSeq(r, n + 1, Len(q) - c)
<1>1. Len(q) \in Nat
  BY LenProperties
<1>2. r \in Seq(S) /\ Len(r) = Len(q) - c /\ \A i \in 1 .. Len(q) - c : r[i] = q[c + i]
  BY RestOf
<1>3. /\ a \in Seq(S) /\ Len(a) = Len(q) - (c + n)
      /\ \A i \in 1 .. Len(q) - (c + n) : a[i] = q[c + n + i]
  <2>1. c + n \in 0 .. Len(q)
    BY <1>1
  <2> QED BY <2>1, RestOf
<1>4. /\ b \in Seq(S) /\ Len(b) = Len(r) - n
      /\ \A i \in 1 .. Len(r) - n : b[i] = r[n + i]
  <2>1. n \in 0 .. Len(r)
    BY <1>2
  <2> HIDE DEF r
  <2> QED BY <1>2, <2>1, RestOf
<1>5. Len(a) = Len(b)
  BY <1>1, <1>2, <1>3, <1>4
<1>6. \A i \in 1 .. Len(a) : a[i] = b[i]
  <2> SUFFICES ASSUME NEW i \in 1 .. Len(a) PROVE a[i] = b[i]
    OBVIOUS
  <2> HIDE DEF a, b, r
  <2>1. n + i \in 1 .. Len(q) - c /\ i \in 1 .. Len(r) - n /\ i \in 1 .. Len(q) - (c + n)
    BY <1>1, <1>2, <1>3
  <2>2. b[i] = r[n + i] /\ r[n + i] = q[c + (n + i)] /\ a[i] = q[c + n + i]
    BY <1>2, <1>3, <1>4, <2>1
  <2> QED BY <2>1, <2>2, <1>1
<1> HIDE DEF a, b
<1>7. a = b
  BY <1>3, <1>4, <1>5, <1>6, SeqEqual
<1> QED BY <1>7 DEF a, b

LEMMA RestOfConcat ==
    ASSUME NEW S, NEW q \in Seq(S), NEW p \in Seq(S), NEW c \in 0 .. Len(q)
    PROVE  SubSeq(q \o p, c + 1, Len(q \o p)) = SubSeq(q, c + 1, Len(q)) \o p
<1> DEFINE w == q \o p
           r == SubSeq(q, c + 1, Len(q))
           a == SubSeq(w, c + 1, Len(w))
           b == r \o p
<1>1. Len(q) \in Nat /\ Len(p) \in Nat
  BY LenProperties
<1>2. /\ w \in Seq(S) /\ Len(w) = Len(q) + Len(p)
      /\ \A i \in 1 .. Len(q) + Len(p) : w[i] = IF i <= Len(q) THEN q[i] ELSE p[i - Len(q)]
  BY ConcatProperties
<1>3. r \in Seq(S) /\ Len(r) = Len(q) - c /\ \A i \in 1 .. Len(q) - c : r[i] = q[c + i]
  BY RestOf
<1> HIDE DEF w, r
<1>4. /\ a \in Seq(S) /\ Len(a) = Len(w) - c
      /\ \A i \in 1 .. Len(w) - c : a[i] = w[c + i]
  <2>1. c \in 0 .. Len(w)
    BY <1>1, <1>2
  <2> QED BY <1>2, <2>1, RestOf
<1>5. /\ b \in Seq(S) /\ Len(b) = Len(r) + Len(p)
      /\ \A i \in 1 .. Len(r) + Len(p) : b[i] = IF i <= Len(r) THEN r[i] ELSE p[i - Len(r)]
  BY <1>3, ConcatProperties
<1> HIDE DEF a, b
<1>6. Len(a) = Len(b)
  BY <1>1, <1>2, <1>3, <1>4, <1>5
<1>7. ASSUME NEW i \in 1 .. Len(a) PROVE a[i] = b[i]
  <2>1. /\ i \in 1 .. Len(w) - c /\ c + i \in 1 .. Len(q) + Len(p)
        /\ i \in 1 .. Len(r) + Len(p) /\ (c + i) - Len(q) = i - Len(r)
    BY <1>1, <1>2, <1>3, <1>4
  <2>2. a[i] = w[c + i]
    BY <1>4, <2>1
  <2>3. w[c + i] = IF c + i <= Len(q) THEN q[c + i] ELSE p[(c + i) - Len(q)]
    BY <1>2, <2>1
  <2>4. b[i] = IF i <= Len(r) THEN r[i] ELSE p[i - Len(r)]
    BY <1>5, <2>1
  <2>5. CASE i <= Len(r)
    <3>1. c + i <= Len(q) /\ r[i] = q[c + i]
      BY <1>1, <1>3, <2>5
    <3> QED BY <2>2, <2>3, <2>4, <2>5, <3>1
  <2>6. CASE ~(i <= Len(r))
    <3>1. ~(c + i <= Len(q))
      BY <1>1, <1>3, <2>6
    <3> QED BY <2>1, <2>2, <2>3, <2>4, <2>6, <3>1
  <2> QED BY <2>5, <2>6
<1>8. a = b
  BY <1>4, <1>5, <1>6, <1>7, SeqEqual
<1> QED BY <1>8 DEF a, b, w, r

-----------------------------------------------------------------------------
(* What the parts of an observation leave of the buffer.                     *)
LEMMA RestType ==
    ASSUME NEW s, Sound(s)
    PROVE  /\ Unconsumed(s) \in Seq(Bytes)
           /\ Len(Unconsumed(s)) = Len(s.payload) - s.consumed
           /\ ConsumedOffset(s) \in Nat
           /\ s.consumed \in 0 .. Len(s.payload) /\ Len(s.payload) \in Nat
<1>1. s.payload \in Seq(Bytes) /\ s.consumed \in Nat /\ s.offset \in Nat
  BY DEF Sound, Observations
<1>2. Len(s.payload) \in Nat /\ s.consumed \in 0 .. Len(s.payload)
  BY <1>1, LenProperties DEF Sound
<1>3. Unconsumed(s) \in Seq(Bytes) /\ Len(Unconsumed(s)) = Len(s.payload) - s.consumed
  BY <1>1, <1>2, RestOf DEF Unconsumed
<1>4. ConsumedOffset(s) \in Nat
  BY <1>1 DEF ConsumedOffset
<1> QED BY <1>2, <1>3, <1>4

LEMMA SameExtends ==
    ASSUME NEW s, Sound(s), NEW t, SameBuffer(s, t)
    PROVE  Extends(s, t)
<1>1. Unconsumed(t) = Unconsumed(s) /\ ConsumedOffset(t) = ConsumedOffset(s)
  BY DEF SameBuffer, Unconsumed, ConsumedOffset
<1>2. Unconsumed(s) \in Seq(Bytes)
  BY RestType
<1>3. <<>> \in Seq(Bytes) /\ Unconsumed(s) \o <<>> = Unconsumed(s)
  BY <1>2, EmptySeq, ConcatEmptySeq
<1> QED BY <1>1, <1>3 DEF Extends

LEMMA JudgedSound ==
    ASSUME NEW s, Sound(s), NEW status \in Statuses, NEW relation \in Relations
    PROVE  Sound(Judged(s, status, relation)) /\ SameBuffer(s, Judged(s, status, relation))
BY DEF Sound, Judged, SameBuffer, Observations

LEMMA CompactedSound ==
    ASSUME NEW s, Sound(s), s.consumed > 0
    PROVE  /\ Sound(Compacted(s))
           /\ Unconsumed(Compacted(s)) = Unconsumed(s)
           /\ ConsumedOffset(Compacted(s)) = ConsumedOffset(s)
           /\ Compacted(s).start # None
<1> DEFINE t == Compacted(s)
<1>1. s.consumed \in 0 .. Len(s.payload) /\ Len(s.payload) \in Nat
  BY RestType
<1>2. s.payload \in Seq(Bytes) /\ s.start \in Sequences /\ s.offset \in Nat
  <2>1. s.payload # <<>>
    BY <1>1, EmptySeq
  <2> QED BY <2>1 DEF Sound, Observations
<1>3. /\ t.payload = SubSeq(s.payload, s.consumed + 1, Len(s.payload))
      /\ t.start = (s.start + s.consumed) % Modulus
      /\ t.offset = s.offset + s.consumed /\ t.consumed = 0
      /\ t = [s EXCEPT !.payload = t.payload, !.start = t.start,
                       !.offset = t.offset, !.consumed = 0]
  BY DEF Compacted, Sound, Observations
<1>4. t.payload \in Seq(Bytes) /\ Len(t.payload) = Len(s.payload) - s.consumed
  BY <1>1, <1>2, <1>3, RestOf
<1>5. t.start \in Sequences
  BY <1>1, <1>2, <1>3, ModRange, ModulusAssumption DEF Sequences
<1>6. t.start # None
  BY <1>5, ModulusAssumption DEF Sequences, None
<1>7. Sound(t)
  <2>1. t.offset \in Nat /\ t.consumed \in Nat /\ Len(t.payload) <= MaxBytes
        /\ t.consumed <= Len(t.payload)
    <3>1. Len(s.payload) <= MaxBytes /\ MaxBytes \in Nat
      BY MaxBytesAssumption DEF Sound
    <3> HIDE DEF t
    <3>2. t.offset \in Nat /\ t.consumed = 0
      BY <1>1, <1>2, <1>3
    <3>3. Len(t.payload) <= MaxBytes /\ 0 <= Len(t.payload)
      BY <1>1, <1>4, <3>1
    <3> QED BY <3>2, <3>3
  <2>2. t \in Observations
    <3> HIDE DEF t
    <3> QED BY <1>3, <1>4, <1>5, <2>1 DEF Sound, Observations
  <2> QED BY <1>6, <2>1, <2>2 DEF Sound
<1>8. Unconsumed(t) = t.payload
  <2> HIDE DEF t
  <2>1. SubSeq(t.payload, 1, Len(t.payload)) = t.payload
    BY <1>4, SubSeqFull
  <2>2. t.consumed + 1 = 1
    BY <1>3
  <2> QED BY <2>1, <2>2 DEF Unconsumed
<1>9. ConsumedOffset(t) = ConsumedOffset(s)
  BY <1>1, <1>2, <1>3 DEF ConsumedOffset
<1> QED BY <1>3, <1>6, <1>7, <1>8, <1>9 DEF Unconsumed

LEMMA AppendedSound ==
    ASSUME NEW s, Sound(s), NEW sequence \in Sequences, NEW p \in Seq(Bytes), s.status = "OPEN"
    PROVE  Sound(Appended(s, sequence, p)) /\ Extends(s, Appended(s, sequence, p))
<1> DEFINE t == IF ~Fits(s, p) /\ s.consumed > 0 THEN Compacted(s) ELSE s
           relation == IF s.start = None THEN "FIRST" ELSE "CONTIGUOUS"
           start == IF t.start = None THEN sequence ELSE t.start
           u == [t EXCEPT !.payload = t.payload \o p, !.start = start,
                          !.next = (sequence + Len(p)) % Modulus, !.relation = relation]
<1>1. /\ Sound(t) /\ Unconsumed(t) = Unconsumed(s)
      /\ ConsumedOffset(t) = ConsumedOffset(s)
  <2>1. CASE ~Fits(s, p) /\ s.consumed > 0
    BY <2>1, CompactedSound
  <2>2. CASE ~(~Fits(s, p) /\ s.consumed > 0)
    BY <2>2
  <2> QED BY <2>1, <2>2
<1>2. Appended(s, sequence, p)
        = IF ~Fits(t, p) THEN Judged(t, "LIMIT_EXCEEDED", relation) ELSE u
  BY DEF Appended
<1>3. relation \in Relations
  BY DEF Relations
<1> HIDE DEF t, relation
<1>4. CASE ~Fits(t, p)
  <2>1. "LIMIT_EXCEEDED" \in Statuses
    BY DEF Statuses
  <2> DEFINE j == Judged(t, "LIMIT_EXCEEDED", relation)
  <2>2. Sound(j) /\ SameBuffer(t, j)
    BY <1>1, <1>3, <2>1, JudgedSound
  <2> HIDE DEF j
  <2>3. Extends(t, j)
    BY <1>1, <2>2, SameExtends
  <2> QED BY <1>1, <1>2, <1>4, <2>2, <2>3 DEF Extends, j
<1>5. CASE Fits(t, p)
  <2>1. /\ t \in Observations /\ t.payload \in Seq(Bytes)
        /\ t.consumed \in 0 .. Len(t.payload) /\ Len(t.payload) \in Nat /\ Len(p) \in Nat
    BY <1>1, RestType, LenProperties DEF Sound, Observations
  <2>2. t.payload \o p \in Seq(Bytes) /\ Len(t.payload \o p) = Len(t.payload) + Len(p)
    BY <2>1, ConcatProperties
  <2>3. start \in Sequences /\ start # None
    BY <1>1, ModulusAssumption DEF Sound, Observations, Sequences, None
  <2>4. (sequence + Len(p)) % Modulus \in Sequences
    <3>1. sequence + Len(p) \in Int
      BY <2>1 DEF Sequences
    <3> QED BY <3>1, ModRange
  <2> HIDE DEF start
  <2>5. /\ u.payload = t.payload \o p /\ u.start = start
        /\ u.consumed = t.consumed /\ u.offset = t.offset
    BY <2>1 DEF Observations
  <2>6. u \in Observations
    BY <1>3, <2>1, <2>2, <2>3, <2>4 DEF Observations
  <2> HIDE DEF u
  <2>7. Sound(u)
    BY <1>5, <2>1, <2>2, <2>3, <2>5, <2>6 DEF Sound, Fits
  <2>8. Unconsumed(u) = Unconsumed(t) \o p
    BY <2>1, <2>5, RestOfConcat DEF Unconsumed
  <2>9. ConsumedOffset(u) = ConsumedOffset(t)
    BY <2>5 DEF ConsumedOffset
  <2> QED BY <1>1, <1>2, <1>5, <2>7, <2>8, <2>9 DEF Extends
<1> QED BY <1>4, <1>5

LEMMA SynchronizedSound ==
    ASSUME NEW s, Sound(s), NEW g \in SegmentType
    PROVE  /\ Sound(Synchronized(s, g)) /\ SameBuffer(s, Synchronized(s, g))
           /\ Synchronized(s, g).status = s.status
<1>1. FirstByte(g) \in Sequences /\ g.seq \in Sequences
  BY FirstByteType DEF SegmentType
<1> QED BY <1>1 DEF Synchronized, Sound, SameBuffer, Observations

LEMMA OverlappedSound ==
    ASSUME NEW s, Sound(s), NEW p, NEW base
    PROVE  Sound(Overlapped(s, p, base)) /\ SameBuffer(s, Overlapped(s, p, base))
<1>1. /\ "CONFLICT" \in Statuses /\ "OVERLAP" \in Statuses /\ s.status \in Statuses
      /\ "OVERLAP" \in Relations /\ "DUPLICATE" \in Relations
  BY DEF Statuses, Relations, Sound, Observations
<1>2. \E status \in Statuses, relation \in Relations :
        Overlapped(s, p, base) = Judged(s, status, relation)
  BY <1>1 DEF Overlapped
<1> QED BY <1>2, JudgedSound

LEMMA ReceivedSound ==
    ASSUME NEW s, Sound(s), s.status = "OPEN", NEW g \in SegmentType
    PROVE  Sound(Received(s, g)) /\ Extends(s, Received(s, g))
<1> DEFINE d == IF s.next = None THEN 0 ELSE Delta(FirstByte(g), s.next)
<1>1. FirstByte(g) \in Sequences /\ g.payload \in Seq(Bytes)
  BY FirstByteType DEF SegmentType
<1>2. d \in Int
  <2>1. CASE s.next = None
    BY <2>1
  <2>2. CASE s.next # None
    <3>1. s.next \in Int /\ FirstByte(g) \in Int
      BY <1>1, <2>2 DEF Sound, Observations, Sequences
    <3>2. (FirstByte(g) - s.next) % Modulus \in Int
      BY <3>1, ModRange DEF Sequences
    <3>3. Delta(FirstByte(g), s.next) \in Int
      BY <3>2, ModulusAssumption DEF Delta
    <3> QED BY <2>2, <3>3
  <2> QED BY <2>1, <2>2
<1>3. HalfRange \in Nat /\ HalfRange > 0
  BY ModulusAssumption DEF HalfRange
<1>4. Received(s, g) =
        CASE g.payload = <<>> -> s
          [] g.payload # <<>> /\ d = HalfRange -> Judged(s, "AMBIGUOUS", "AMBIGUOUS")
          [] g.payload # <<>> /\ d > 0 /\ d # HalfRange -> Judged(s, "GAP", "GAP")
          [] g.payload # <<>> /\ d < 0 -> Overlapped(s, g.payload, Len(s.payload) + d)
          [] g.payload # <<>> /\ d = 0 -> Appended(s, FirstByte(g), g.payload)
  BY DEF Received
<1> HIDE DEF d
<1>5. /\ "AMBIGUOUS" \in Statuses /\ "GAP" \in Statuses
      /\ "AMBIGUOUS" \in Relations /\ "GAP" \in Relations
  BY DEF Statuses, Relations
<1>6. ASSUME NEW t, Sound(t), SameBuffer(s, t), Received(s, g) = t
      PROVE  Sound(Received(s, g)) /\ Extends(s, Received(s, g))
  BY <1>6, SameExtends
<1>7. CASE g.payload = <<>>
  BY <1>4, <1>6, <1>7 DEF SameBuffer
<1>8. CASE g.payload # <<>> /\ d = HalfRange
  <2>1. Received(s, g) = Judged(s, "AMBIGUOUS", "AMBIGUOUS")
    BY <1>3, <1>4, <1>8
  <2> QED BY <1>5, <1>6, <2>1, JudgedSound
<1>9. CASE g.payload # <<>> /\ d > 0 /\ d # HalfRange
  <2>1. Received(s, g) = Judged(s, "GAP", "GAP")
    BY <1>2, <1>3, <1>4, <1>9
  <2> QED BY <1>5, <1>6, <2>1, JudgedSound
<1>10. CASE g.payload # <<>> /\ d < 0
  <2>1. Received(s, g) = Overlapped(s, g.payload, Len(s.payload) + d)
    BY <1>2, <1>3, <1>4, <1>10
  <2> QED BY <1>6, <2>1, OverlappedSound
<1>11. CASE g.payload # <<>> /\ d = 0
  <2>1. Received(s, g) = Appended(s, FirstByte(g), g.payload)
    BY <1>2, <1>3, <1>4, <1>11
  <2> QED BY <1>1, <2>1, AppendedSound
<1> QED BY <1>2, <1>7, <1>8, <1>9, <1>10, <1>11

LEMMA FinishedSound ==
    ASSUME NEW s, Sound(s), NEW g \in SegmentType
    PROVE  Sound(Finished(s, g)) /\ SameBuffer(s, Finished(s, g))
<1> DEFINE end == (FirstByte(g) + Len(g.payload)) % Modulus
<1>1. Len(g.payload) \in Nat /\ FirstByte(g) \in Sequences
  BY FirstByteType, LenProperties DEF SegmentType
<1>2. end \in Sequences
  <2>1. FirstByte(g) + Len(g.payload) \in Int
    BY <1>1 DEF Sequences
  <2> QED BY <2>1, ModRange
<1> HIDE DEF end
<1>3. (end + 1) % Modulus \in Sequences
  <2>1. end + 1 \in Int
    BY <1>2 DEF Sequences
  <2> QED BY <2>1, ModRange
<1>4. \/ Finished(s, g) = s
      \/ \E status \in Statuses : Finished(s, g) = [s EXCEPT !.status = status]
      \/ Finished(s, g) = [s EXCEPT !.status = "FIN", !.next = (end + 1) % Modulus]
  <2>1. {"RESET", "AMBIGUOUS", "GAP", "OVERLAP"} \subseteq Statuses
    BY DEF Statuses
  <2> QED BY <2>1 DEF Finished, end
<1>5. "FIN" \in Statuses
  BY DEF Statuses
<1> QED BY <1>3, <1>4, <1>5 DEF Sound, SameBuffer, Observations

LEMMA ObservedSound ==
    ASSUME NEW current, Sound(current), NEW g \in SegmentType
    PROVE  LET after == Observed(current, g)
           IN /\ Sound(after) /\ Extends(current, after)
              /\ current.status # "OPEN" =>
                    SameBuffer(current, after) /\ after.status # "OPEN"
              /\ ~Contiguous(current) => after.status = current.status
<1> DEFINE s == [current EXCEPT !.relation = "EMPTY"]
           after == Observed(current, g)
<1>1. Sound(s) /\ SameBuffer(current, s) /\ s.status = current.status
  BY DEF Sound, SameBuffer, Observations, Relations
<1>2. after =
        IF Closed(s) /\ (g.payload # <<>> \/ g.syn) THEN Judged(s, "AFTER_CLOSE", "UNAVAILABLE")
        ELSE IF s.status # "OPEN"
        THEN Judged(s, s.status, IF g.payload # <<>> THEN "UNAVAILABLE" ELSE "EMPTY")
        ELSE IF g.fragmented THEN Judged(s, "FRAGMENTED", "UNAVAILABLE")
        ELSE IF Restarts(s, g) THEN Judged(s, "RESTART", "UNAVAILABLE")
        ELSE Finished(Received(Synchronized(s, g), g), g)
  BY DEF Observed
<1> HIDE DEF s, after
<1>3. ASSUME NEW status \in Statuses, NEW relation \in Relations,
             after = Judged(s, status, relation)
      PROVE  /\ Sound(after) /\ SameBuffer(current, after) /\ after.status = status
             /\ Extends(current, after)
  <2>1. Sound(after) /\ SameBuffer(s, after)
    BY <1>1, <1>3, JudgedSound
  <2>2. SameBuffer(current, after)
    BY <1>1, <2>1 DEF SameBuffer
  <2>3. after.status = status
    BY <1>1, <1>3 DEF Judged, Sound, Observations
  <2> QED BY <2>1, <2>2, <2>3, SameExtends
<1>4. /\ {"AFTER_CLOSE", "FRAGMENTED", "RESTART"} \subseteq Statuses
      /\ {"UNAVAILABLE", "EMPTY"} \subseteq Relations
      /\ s.status \in Statuses
  BY <1>1 DEF Statuses, Relations, Sound, Observations
<1>5. CASE Closed(s) /\ (g.payload # <<>> \/ g.syn)
  <2>1. after = Judged(s, "AFTER_CLOSE", "UNAVAILABLE")
    BY <1>2, <1>5
  <2>2. Contiguous(current)
    BY <1>1, <1>5 DEF Contiguous, Closed
  <2> QED BY <1>3, <1>4, <2>1, <2>2 DEF after
<1>6. CASE ~(Closed(s) /\ (g.payload # <<>> \/ g.syn)) /\ s.status # "OPEN"
  <2> DEFINE relation == IF g.payload # <<>> THEN "UNAVAILABLE" ELSE "EMPTY"
  <2>1. after = Judged(s, s.status, relation)
    BY <1>2, <1>6
  <2>2. relation \in Relations
    BY <1>4
  <2> HIDE DEF relation
  <2> QED BY <1>1, <1>3, <1>4, <1>6, <2>1, <2>2 DEF after
<1>7. CASE s.status = "OPEN"
  <2>1. Contiguous(current) /\ ~Closed(s)
    BY <1>1, <1>7 DEF Contiguous, Closed
  <2>2. CASE g.fragmented
    <3>1. after = Judged(s, "FRAGMENTED", "UNAVAILABLE")
      BY <1>2, <1>7, <2>1, <2>2
    <3> QED BY <1>1, <1>3, <1>4, <1>7, <2>1, <3>1 DEF after
  <2>3. CASE ~g.fragmented /\ Restarts(s, g)
    <3>1. after = Judged(s, "RESTART", "UNAVAILABLE")
      BY <1>2, <1>7, <2>1, <2>3
    <3> QED BY <1>1, <1>3, <1>4, <1>7, <2>1, <3>1 DEF after
  <2>4. CASE ~g.fragmented /\ ~Restarts(s, g)
    <3> DEFINE a == Synchronized(s, g)
               b == Received(a, g)
    <3>1. after = Finished(b, g)
      BY <1>2, <1>7, <2>1, <2>4
    <3>2. Sound(a) /\ SameBuffer(s, a) /\ a.status = "OPEN"
      BY <1>1, <1>7, SynchronizedSound
    <3> HIDE DEF a
    <3>3. Sound(b) /\ Extends(a, b)
      BY <3>2, ReceivedSound
    <3> HIDE DEF b
    <3>4. Sound(after) /\ SameBuffer(b, after)
      BY <3>1, <3>3, FinishedSound
    <3>5. SameBuffer(current, a)
      BY <1>1, <3>2 DEF SameBuffer
    <3>6. /\ Unconsumed(a) = Unconsumed(current) /\ ConsumedOffset(a) = ConsumedOffset(current)
          /\ Unconsumed(after) = Unconsumed(b) /\ ConsumedOffset(after) = ConsumedOffset(b)
      BY <3>4, <3>5 DEF SameBuffer, Unconsumed, ConsumedOffset
    <3>7. Extends(current, after)
      BY <3>3, <3>6 DEF Extends
    <3> QED BY <1>1, <1>7, <2>1, <3>4, <3>7 DEF after
  <2> QED BY <2>2, <2>3, <2>4
<1> QED BY <1>5, <1>6, <1>7

LEMMA ConsumedSound ==
    ASSUME NEW s, Sound(s), NEW n \in 1 .. Len(Unconsumed(s))
    PROVE  LET after == Consumed(s, n)
           IN /\ Sound(after) /\ after.status = s.status
              /\ ConsumedOffset(after) = ConsumedOffset(s) + n
              /\ Unconsumed(after) = SubSeq(Unconsumed(s), n + 1, Len(Unconsumed(s)))
              /\ Len(Unconsumed(after)) = Len(Unconsumed(s)) - n
<1> DEFINE after == Consumed(s, n)
<1>1. /\ Len(Unconsumed(s)) = Len(s.payload) - s.consumed
      /\ s.consumed \in 0 .. Len(s.payload) /\ Len(s.payload) \in Nat
  BY RestType
<1>2. s \in Observations /\ s.payload \in Seq(Bytes) /\ s.offset \in Nat
  BY DEF Sound, Observations
<1>3. /\ after.payload = s.payload /\ after.offset = s.offset
      /\ after.consumed = s.consumed + n /\ after.status = s.status /\ after.start = s.start
  BY <1>2 DEF Consumed, Observations
<1>4. Sound(after)
  <2>1. s.consumed + n \in Nat /\ s.consumed + n <= Len(s.payload)
    BY <1>1
  <2>2. after \in Observations
    BY <1>2, <2>1 DEF Consumed, Observations
  <2> QED BY <1>3, <2>1, <2>2 DEF Sound
<1> HIDE DEF after
<1>5. SubSeq(s.payload, s.consumed + n + 1, Len(s.payload))
        = SubSeq(SubSeq(s.payload, s.consumed + 1, Len(s.payload)), n + 1,
                 Len(s.payload) - s.consumed)
  <2>1. n \in 0 .. Len(s.payload) - s.consumed
    BY <1>1
  <2> QED BY <1>1, <1>2, <2>1, RestOfRest
<1>6. Unconsumed(after) = SubSeq(Unconsumed(s), n + 1, Len(Unconsumed(s)))
  BY <1>1, <1>3, <1>5 DEF Unconsumed
<1>7. Len(Unconsumed(after)) = Len(Unconsumed(s)) - n
  <2>1. Len(Unconsumed(after)) = Len(after.payload) - after.consumed
    BY <1>4, RestType
  <2>2. n \in Int /\ s.consumed \in Int /\ Len(s.payload) \in Int
    BY <1>1
  <2> QED BY <1>1, <1>3, <2>1, <2>2
<1>8. ConsumedOffset(after) = ConsumedOffset(s) + n
  BY <1>1, <1>2, <1>3 DEF ConsumedOffset
<1> QED BY <1>3, <1>4, <1>6, <1>7, <1>8 DEF after

-----------------------------------------------------------------------------
(* The segments that arrive are segments.                                    *)
SenderOK == sent \in [1 .. Length -> Bytes] /\ isn \in Origins

LEMMA SegmentsTyped ==
    ASSUME SenderOK, NEW p \in 0 .. Length, NEW n \in Nat, p + n <= Length
    PROVE  Segments(p, n) \subseteq SegmentType
<1>1. isn \in Sequences
  BY OriginsAssumption DEF SenderOK, Sequences
<1>2. SequenceOf(p) \in Sequences
  <2>1. isn + 1 + p \in Int
    BY <1>1, WindowAssumption DEF Sequences
  <2> QED BY <2>1, ModRange DEF SequenceOf
<1>3. SubSeq(sent, p + 1, p + n) \in Seq(Bytes)
  <2>1. \A i \in p + 1 .. p + n : sent[i] \in Bytes
    BY WindowAssumption DEF SenderOK
  <2>2. p + 1 \in Int /\ p + n \in Int
    BY WindowAssumption
  <2> QED BY <2>1, <2>2, SubSeqProperties
<1>4. ASSUME NEW syn \in BOOLEAN, NEW fin \in BOOLEAN, NEW rst \in BOOLEAN,
             NEW fragmented \in BOOLEAN
      PROVE  Segment(p, n, syn, fin, rst, fragmented) \in SegmentType
  <2>1. (IF syn THEN isn ELSE SequenceOf(p)) \in Sequences
    BY <1>1, <1>2
  <2> QED BY <1>3, <2>1 DEF Segment, SegmentType
<1>5. ASSUME NEW g \in Segments(p, n) PROVE g \in SegmentType
  <2>1. PICK syn \in BOOLEAN, fin \in BOOLEAN, rst \in BOOLEAN, fragmented \in BOOLEAN :
               g = Segment(p, n, syn /\ p = 0, fin /\ p + n = Length, rst, fragmented)
    BY SMT DEF Segments
  <2>2. (syn /\ p = 0) \in BOOLEAN /\ (fin /\ p + n = Length) \in BOOLEAN
    BY Zenon
  <2> QED BY <1>4, <2>1, <2>2, Zenon
<1> QED BY <1>5

LEMMA StraysTyped ==
    Strays \subseteq SegmentType
<1>1. <<>> \in Seq(Bytes)
  BY EmptySeq
<1>2. ASSUME NEW b \in Bytes PROVE <<b>> \in Seq(Bytes)
  <2>1. <<b>> = <<>> \o <<b>> /\ Append(<<>>, b) = <<>> \o <<b>>
    BY <1>1, AppendIsConcat
  <2> QED BY <1>1, <2>1, AppendProperties
<1>3. {<<>>} \cup {<<b>> : b \in Bytes} \subseteq Seq(Bytes)
  BY <1>1, <1>2, Zenon
<1>4. ASSUME NEW q \in Sequences, NEW syn \in BOOLEAN, NEW fin \in BOOLEAN, NEW p \in Seq(Bytes)
      PROVE  [seq |-> q, syn |-> syn, fin |-> fin, rst |-> FALSE,
              payload |-> p, fragmented |-> FALSE] \in SegmentType
  BY DEF SegmentType
<1>5. ASSUME NEW g \in Strays PROVE g \in SegmentType
  <2>1. PICK q \in Sequences, syn \in BOOLEAN, fin \in BOOLEAN,
             p \in {<<>>} \cup {<<b>> : b \in Bytes} :
               g = [seq |-> q, syn |-> syn, fin |-> fin, rst |-> FALSE,
                    payload |-> p, fragmented |-> FALSE]
    BY SMT DEF Strays
  <2> QED BY <1>3, <1>4, <2>1, Zenon
<1> QED BY <1>5

-----------------------------------------------------------------------------
TCPInv == Sound(stream) /\ first \in 0 .. Length /\ SenderOK

LEMMA InitInv == TCPInit => TCPInv
<1> SUFFICES ASSUME TCPInit PROVE TCPInv
  OBVIOUS
<1>1. Fresh \in Observations
  BY DEF Fresh, Observations, Statuses, Relations, None
<1>2. Sound(Fresh)
  BY <1>1, MaxBytesAssumption DEF Sound, Fresh
<1> QED BY <1>2, WindowAssumption DEF TCPInit, TCPInv, SenderOK

(* Every step observes a segment, consumes, or leaves the observation alone. *)
LEMMA Steps ==
    ASSUME TCPInv, [TCPNext]_tcpVars
    PROVE  /\ SenderOK' /\ first' \in 0 .. Length
           /\ \/ stream' = stream
              \/ \E g \in SegmentType : stream' = Observed(stream, g)
              \/ Contiguous(stream) /\ \E n \in 1 .. Len(Unconsumed(stream)) :
                                          stream' = Consumed(stream, n)
<1>1. CASE UNCHANGED tcpVars
  BY <1>1 DEF TCPInv, SenderOK, tcpVars
<1>2. ASSUME NEW p \in 0 .. Length, NEW n \in 0 .. MaxSegment, ObserveSegment(p, n)
      PROVE  /\ SenderOK' /\ first' \in 0 .. Length
             /\ \E g \in SegmentType : stream' = Observed(stream, g)
  <2>1. Segments(p, n) \subseteq SegmentType
    BY <1>2, SegmentsTyped DEF ObserveSegment, TCPInv
  <2> QED BY <1>2, <2>1 DEF ObserveSegment, Took, TCPInv, SenderOK
<1>3. CASE ObserveStray
  BY <1>3, StraysTyped DEF ObserveStray, TCPInv, SenderOK
<1>4. CASE Consume
  BY <1>4 DEF Consume, TCPInv, SenderOK
<1> QED BY <1>1, <1>2, <1>3, <1>4 DEF TCPNext

LEMMA InvPreserved == TCPInv /\ [TCPNext]_tcpVars => TCPInv'
<1> SUFFICES ASSUME TCPInv, [TCPNext]_tcpVars PROVE Sound(stream')
  BY Steps DEF TCPInv, Sound
<1>1. ASSUME NEW g \in SegmentType PROVE Sound(Observed(stream, g))
  BY ObservedSound DEF TCPInv
<1>2. ASSUME NEW n \in 1 .. Len(Unconsumed(stream)) PROVE Sound(Consumed(stream, n))
  BY ConsumedSound DEF TCPInv
<1> QED BY <1>1, <1>2, Steps DEF TCPInv

(* The buffer stays within TCP_STREAM_MAX_BYTES and no more of it is ever    *)
(* consumed than it holds, for every buffer size and modulus                 *)
(* (tcp_stream_observation.py:61-77, 144-159).                               *)
THEOREM TypeCorrect == TCPSpec => []TCPTypeOK
<1>1. TCPInv => TCPTypeOK
  BY DEF TCPInv, TCPTypeOK, Sound
<1> QED BY <1>1, InitInv, InvPreserved, PTL DEF TCPSpec

-----------------------------------------------------------------------------
(* What UnconsumedKept says of a step from s to t.                           *)
Kept(s, t) ==
    LET before == Unconsumed(s)
        after == Unconsumed(t)
        n == ConsumedOffset(t) - ConsumedOffset(s)
    IN /\ n >= 0
       /\ SubSeq(before, n + 1, Len(before)) = SubSeq(after, 1, Len(before) - n)
       /\ n > 0 => Len(after) = Len(before) - n
       /\ s.status # "OPEN" => Len(after) = Len(before) - n /\ t.status # "OPEN"
       /\ ~Contiguous(s) => t.status = s.status

LEMMA ExtendedKept ==
    ASSUME NEW s, Sound(s), NEW t, Sound(t), Extends(s, t),
           s.status # "OPEN" => SameBuffer(s, t) /\ t.status # "OPEN",
           ~Contiguous(s) => t.status = s.status
    PROVE  Kept(s, t)
<1> DEFINE before == Unconsumed(s)
           after == Unconsumed(t)
<1>1. before \in Seq(Bytes) /\ after \in Seq(Bytes)
  BY RestType
<1>2. ConsumedOffset(t) - ConsumedOffset(s) = 0
  BY RestType DEF Extends
<1>3. PICK p \in Seq(Bytes) : after = before \o p
  BY DEF Extends
<1>4. s.status # "OPEN" => Len(after) = Len(before)
  BY DEF SameBuffer, Unconsumed
<1> HIDE DEF before, after
<1>5. Len(before) \in Nat
  BY <1>1, LenProperties
<1>6. SubSeq(before, 1, Len(before)) = before
  BY <1>1, SubSeqFull
<1>7. SubSeq(after, 1, Len(before)) = before
  <2>1. CASE Len(before) = 0
    <3>1. before = <<>>
      BY <1>1, <2>1, EmptySeq
    <3>2. SubSeq(after, 1, 0) = <<>>
      BY SubSeqEmpty
    <3> QED BY <2>1, <3>1, <3>2
  <2>2. CASE Len(before) # 0
    <3>1. 1 \in 1 .. Len(before) /\ Len(before) \in 1 .. Len(before)
      BY <1>5, <2>2
    <3>2. SubSeq(before \o p, 1, Len(before)) = SubSeq(before, 1, Len(before))
      BY <1>1, <1>3, <3>1, SubSeqOfConcat1
    <3> QED BY <1>3, <1>6, <3>2
  <2> QED BY <2>1, <2>2
<1> QED BY <1>2, <1>4, <1>5, <1>6, <1>7 DEF Kept, before, after

LEMMA ConsumedKept ==
    ASSUME NEW s, Sound(s), Contiguous(s), NEW n \in 1 .. Len(Unconsumed(s))
    PROVE  Kept(s, Consumed(s, n))
<1> DEFINE t == Consumed(s, n)
           before == Unconsumed(s)
           after == Unconsumed(t)
<1>1. /\ Sound(t) /\ t.status = s.status
      /\ ConsumedOffset(t) = ConsumedOffset(s) + n
      /\ after = SubSeq(before, n + 1, Len(before))
      /\ Len(after) = Len(before) - n
  BY ConsumedSound
<1>2. /\ before \in Seq(Bytes) /\ Len(before) \in Nat /\ ConsumedOffset(s) \in Nat
      /\ after \in Seq(Bytes)
  BY <1>1, RestType, LenProperties
<1> HIDE DEF t, before, after
<1>3. ConsumedOffset(t) - ConsumedOffset(s) = n
  BY <1>1, <1>2
<1>4. SubSeq(after, 1, Len(before) - n) = after
  BY <1>1, <1>2, SubSeqFull
<1> QED BY <1>1, <1>3, <1>4 DEF Kept, before, after, t

(* No byte is lost that was not consumed, whatever makes room, and a stream  *)
(* once not open takes no more: for every size of the buffer and every       *)
(* segment that may arrive (tcp_stream_observation.py:139-181).              *)
THEOREM NothingLost == TCPSpec => UnconsumedKept
<1>1. TCPInv /\ [TCPNext]_tcpVars => [Kept(stream, stream')]_tcpVars
  <2> SUFFICES ASSUME TCPInv, [TCPNext]_tcpVars PROVE Kept(stream, stream')
    OBVIOUS
  <2>1. Sound(stream)
    BY DEF TCPInv
  <2>2. ASSUME stream' = stream PROVE Kept(stream, stream')
    <3>1. Extends(stream, stream)
      BY <2>1, SameExtends DEF SameBuffer
    <3>2. Kept(stream, stream)
      BY <2>1, <3>1, ExtendedKept DEF SameBuffer
    <3> QED BY <2>2, <3>2
  <2>3. ASSUME NEW g \in SegmentType PROVE Kept(stream, Observed(stream, g))
    BY <2>1, ObservedSound, ExtendedKept
  <2>4. ASSUME NEW n \in 1 .. Len(Unconsumed(stream)), Contiguous(stream)
        PROVE  Kept(stream, Consumed(stream, n))
    BY <2>1, <2>4, ConsumedKept
  <2> QED BY <2>2, <2>3, <2>4, Steps
<1>2. [Kept(stream, stream')]_tcpVars
        => [LET before == Unconsumed(stream)
                after == Unconsumed(stream')
                n == ConsumedOffset(stream') - ConsumedOffset(stream)
            IN /\ n >= 0
               /\ SubSeq(before, n + 1, Len(before)) = SubSeq(after, 1, Len(before) - n)
               /\ n > 0 => Len(after) = Len(before) - n
               /\ stream.status # "OPEN" => Len(after) = Len(before) - n /\ stream'.status # "OPEN"
               /\ ~Contiguous(stream) => stream'.status = stream.status]_tcpVars
  BY DEF Kept
<1> QED BY <1>1, <1>2, InitInv, InvPreserved, PTL DEF TCPSpec, UnconsumedKept
-----------------------------------------------------------------------------
(* Sequence numbers across the wrap-around: within the sender's bytes, less  *)
(* than half the modulus, the distance of two of them is that of the         *)
(* positions they stand for.                                                 *)
LEMMA ModShift ==
    ASSUME NEW n \in Int, NEW m \in Sequences, m = n \/ m = n - Modulus \/ m = n + Modulus
    PROVE  n % Modulus = m
<1>1. ASSUME 0 <= n, n < Modulus PROVE n % Modulus = n BY <1>1, ModulusAssumption
<1>2. ASSUME Modulus <= n, n < 2 * Modulus PROVE n % Modulus = n - Modulus
  BY <1>2, ModulusAssumption
<1>3. ASSUME -Modulus <= n, n < 0 PROVE n % Modulus = n + Modulus
  BY <1>3, ModulusAssumption
<1>4. m \in Int /\ 0 <= m /\ m < Modulus /\ Modulus \in Nat
  BY ModulusAssumption DEF Sequences
<1>5. CASE m = n BY <1>1, <1>4, <1>5
<1>6. CASE m = n - Modulus BY <1>2, <1>4, <1>6
<1>7. CASE m = n + Modulus BY <1>3, <1>4, <1>7
<1> QED BY <1>5, <1>6, <1>7

LEMMA SequenceOfPosition ==
    ASSUME SenderOK, NEW a \in 0 .. Length
    PROVE  /\ SequenceOf(a) \in Sequences
           /\ SequenceOf(a) = isn + 1 + a \/ SequenceOf(a) = isn + 1 + a - Modulus
<1>1. isn \in Int /\ 0 <= isn /\ isn < Modulus /\ Modulus \in Nat
  BY OriginsAssumption, ModulusAssumption DEF SenderOK
<1>2. a \in Int /\ 0 <= a /\ a + 1 < Modulus
  <2>1. Length \in Nat /\ 2 * (Length + 1) < Modulus BY WindowAssumption
  <2> QED BY <1>1, <2>1
<1>3. isn + 1 + a \in Int BY <1>1, <1>2
<1>4. SequenceOf(a) \in Sequences BY <1>3, ModRange DEF SequenceOf
<1>5. CASE isn + 1 + a < Modulus
  <2>1. isn + 1 + a \in Sequences BY <1>1, <1>2, <1>5 DEF Sequences
  <2>2. (isn + 1 + a) % Modulus = isn + 1 + a BY <1>3, <2>1, ModShift
  <2> QED BY <1>4, <2>2 DEF SequenceOf
<1>6. CASE ~(isn + 1 + a < Modulus)
  <2> DEFINE k == isn + 1 + a
             m == isn + 1 + a - Modulus
  <2>1. m \in Sequences BY <1>1, <1>2, <1>6 DEF Sequences
  <2>2. k \in Int /\ m = k - Modulus BY <1>1, <1>2, <1>3
  <2> HIDE DEF k, m
  <2>3. k % Modulus = m BY <2>1, <2>2, ModShift
  <2>4. SequenceOf(a) = m BY <2>3 DEF SequenceOf, k
  <2>5. SequenceOf(a) = isn + 1 + a - Modulus BY <2>4, Zenon DEF m
  <2> QED BY <1>4, <2>5, Zenon
<1> QED BY <1>5, <1>6

LEMMA DeltaOfPositions ==
    ASSUME SenderOK, NEW a \in 0 .. Length, NEW b \in 0 .. Length
    PROVE  Delta(SequenceOf(a), SequenceOf(b)) = a - b /\ a - b # HalfRange
<1> DEFINE x == SequenceOf(a)
           y == SequenceOf(b)
           m == IF a - b >= 0 THEN a - b ELSE a - b + Modulus
<1>1. /\ x \in Sequences /\ y \in Sequences
      /\ x = isn + 1 + a \/ x = isn + 1 + a - Modulus
      /\ y = isn + 1 + b \/ y = isn + 1 + b - Modulus
  BY SequenceOfPosition
<1>2. isn \in Int /\ Modulus \in Nat /\ Modulus % 2 = 0 /\ 2 * (Length + 1) < Modulus /\ Length \in Nat
  BY OriginsAssumption, ModulusAssumption, WindowAssumption DEF SenderOK
<1>3. HalfRange \in Nat /\ 2 * HalfRange = Modulus BY <1>2 DEF HalfRange
<1>4. a - b \in Int /\ a - b < HalfRange /\ -HalfRange < a - b BY <1>2, <1>3
<1> HIDE DEF x, y
<1>5. x - y \in Int /\ -Modulus < x - y /\ x - y < Modulus BY <1>1, <1>2 DEF Sequences
<1>6. x - y = a - b \/ x - y = a - b + Modulus \/ x - y = a - b - Modulus
  BY <1>1, <1>2
<1>7. m \in Sequences BY <1>2, <1>3, <1>4 DEF Sequences
<1>8. m = x - y \/ m = x - y - Modulus \/ m = x - y + Modulus
  BY <1>2, <1>3, <1>4, <1>5, <1>6
<1>9. (x - y) % Modulus = m BY <1>5, <1>7, <1>8, ModShift
<1>10. Delta(x, y) = a - b
  <2>1. Delta(x, y) = IF m <= HalfRange THEN m ELSE m - Modulus BY <1>9 DEF Delta
  <2> QED BY <1>2, <1>3, <1>4, <2>1
<1> QED BY <1>3, <1>4, <1>10 DEF x, y

LEMMA SequenceAfter ==
    ASSUME SenderOK, NEW a \in 0 .. Length, NEW n \in Nat, a + n <= Length
    PROVE  (SequenceOf(a) + n) % Modulus = SequenceOf(a + n)
<1> DEFINE x == SequenceOf(a)
           y == SequenceOf(a + n)
<1>1. /\ x \in Sequences /\ y \in Sequences
      /\ x = isn + 1 + a \/ x = isn + 1 + a - Modulus
      /\ y = isn + 1 + (a + n) \/ y = isn + 1 + (a + n) - Modulus
  <2>1. a + n \in 0 .. Length BY WindowAssumption
  <2> QED BY <2>1, SequenceOfPosition
<1>2. isn \in Int /\ Modulus \in Nat
  BY OriginsAssumption, ModulusAssumption DEF SenderOK
<1> HIDE DEF x, y
<1>3. x + n \in Int BY <1>1 DEF Sequences
<1>4. y = x + n \/ y = x + n - Modulus \/ y = x + n + Modulus BY <1>1, <1>2
<1> DEFINE z == x + n
<1>5. z \in Int /\ (y = z \/ y = z - Modulus \/ y = z + Modulus) BY <1>1, <1>2, <1>3, <1>4 DEF Sequences
<1> HIDE DEF z
<1>6. z % Modulus = y BY <1>1, <1>5, ModShift
<1> QED BY <1>6 DEF x, y, z
-----------------------------------------------------------------------------
(* An observation of the sender alone, its first byte taken at position f:   *)
(* the buffer is a piece of the sender's bytes, the next sequence number is  *)
(* the one after it, and its end is only believed when it is the sender's.   *)
Begin(s, f) == f + s.offset
End(s, f) == f + s.offset + Len(s.payload)

Tracks(s, f) ==
    /\ s.status \notin {"CONFLICT", "AMBIGUOUS"}
    /\ f \in Nat /\ End(s, f) <= Length
    /\ \A i \in DOMAIN s.payload : s.payload[i] = sent[Begin(s, f) + i]
    /\ s.start = None => f = 0
    /\ s.start # None =>
          s.start = SequenceOf(Begin(s, f)) /\ s.next # None /\ (s.syn # None => f = 0)
    /\ s.syn \in {None, isn}
    /\ s.syn # None => s.next # None
    /\ s.status = "FIN" /\ (s.start # None \/ s.syn # None) => End(s, f) = Length
    /\ s.next # None /\ s.status \notin {"FIN", "AFTER_CLOSE"} =>
          s.next = SequenceOf(End(s, f))

(* What the sender's segment of n bytes from position p is.                  *)
Genuine(g, p, n) ==
    /\ g \in SegmentType
    /\ p \in 0 .. Length /\ n \in Nat /\ p + n <= Length
    /\ FirstByte(g) = SequenceOf(p)
    /\ Len(g.payload) = n
    /\ \A i \in 1 .. n : g.payload[i] = sent[p + i]
    /\ g.syn => g.seq = isn /\ p = 0
    /\ g.fin => p + n = Length

LEMMA SegmentsGenuine ==
    ASSUME SenderOK, NEW p \in 0 .. Length, NEW n \in Nat, p + n <= Length,
           NEW g \in Segments(p, n)
    PROVE  Genuine(g, p, n)
<1>1. g \in SegmentType BY SegmentsTyped
<1>2. /\ g.payload = SubSeq(sent, p + 1, p + n)
      /\ g.syn => p = 0 /\ g.seq = isn
      /\ ~g.syn => g.seq = SequenceOf(p)
      /\ g.fin => p + n = Length
  <2>1. PICK syn \in BOOLEAN, fin \in BOOLEAN, rst \in BOOLEAN, fragmented \in BOOLEAN :
               g = Segment(p, n, syn /\ p = 0, fin /\ p + n = Length, rst, fragmented)
    BY SMT DEF Segments
  <2>2. /\ g.syn <=> syn /\ p = 0
        /\ g.fin <=> fin /\ p + n = Length
        /\ g.payload = SubSeq(sent, p + 1, p + n)
        /\ g.seq = IF syn /\ p = 0 THEN isn ELSE SequenceOf(p)
    BY <2>1, Zenon DEF Segment
  <2> QED BY <2>2, Zenon
<1>3. Len(g.payload) = n /\ \A i \in 1 .. n : g.payload[i] = sent[p + i]
  <2>1. \A i \in p + 1 .. p + n : sent[i] \in Bytes
    BY WindowAssumption DEF SenderOK
  <2>2. p + 1 \in Int /\ p + n \in Int /\ p \in Int
    BY WindowAssumption
  <2>3. /\ Len(g.payload) = IF p + 1 <= p + n THEN p + n - (p + 1) + 1 ELSE 0
        /\ \A i \in 1 .. p + n - (p + 1) + 1 : g.payload[i] = sent[p + 1 + i - 1]
    BY <1>2, <2>1, <2>2, SubSeqProperties
  <2> QED BY <2>2, <2>3
<1>4. FirstByte(g) = SequenceOf(p)
  <2>1. isn \in Int BY OriginsAssumption DEF SenderOK
  <2>2. CASE g.syn
    <3>1. g.seq = isn /\ p = 0 BY <1>2, <2>2
    <3> QED BY <2>1, <2>2, <3>1 DEF FirstByte, SequenceOf
  <2>3. CASE ~g.syn
    <3>1. FirstByte(g) = (g.seq + 0) % Modulus BY <2>3 DEF FirstByte
    <3>2. g.seq = SequenceOf(p) /\ g.seq \in Sequences BY <1>2, <2>3, SequenceOfPosition
    <3>3. g.seq + 0 \in Int /\ g.seq = g.seq + 0 BY <3>2 DEF Sequences
    <3>4. (g.seq + 0) % Modulus = g.seq BY <3>2, <3>3, ModShift
    <3> QED BY <3>1, <3>2, <3>4
  <2> QED BY <2>2, <2>3
<1> QED BY <1>1, <1>2, <1>3, <1>4 DEF Genuine
(* The parts of an observation keep track of the sender.                     *)
LEMMA TracksType ==
    ASSUME SenderOK, NEW s, Sound(s), NEW f, Tracks(s, f)
    PROVE  /\ f \in Nat /\ s.offset \in Nat /\ s.consumed \in Nat
           /\ s.payload \in Seq(Bytes) /\ Len(s.payload) \in Nat
           /\ DOMAIN s.payload = 1 .. Len(s.payload)
           /\ Begin(s, f) \in 0 .. Length /\ End(s, f) \in 0 .. Length
           /\ End(s, f) = Begin(s, f) + Len(s.payload)
           /\ s.consumed <= Len(s.payload)
           /\ s.start = None => f = 0 /\ s.payload = <<>> /\ End(s, f) = 0
<1>1. /\ f \in Nat /\ s.offset \in Nat /\ s.consumed \in Nat /\ s.payload \in Seq(Bytes)
      /\ End(s, f) <= Length /\ s.consumed <= Len(s.payload)
      /\ s.start = None => f = 0 /\ s.payload = <<>> /\ s.offset = 0
  BY DEF Sound, Observations, Tracks
<1>2. Len(s.payload) \in Nat /\ DOMAIN s.payload = 1 .. Len(s.payload)
  BY <1>1, LenProperties
<1>3. Length \in Nat BY WindowAssumption
<1>4. s.payload = <<>> => Len(s.payload) = 0 BY EmptySeq
<1>5. End(s, f) = Begin(s, f) + Len(s.payload) /\ Begin(s, f) \in Nat
  BY <1>1, <1>2 DEF Begin, End
<1>6. Begin(s, f) \in 0 .. Length /\ End(s, f) \in 0 .. Length
  BY <1>1, <1>2, <1>3, <1>5
<1>7. s.start = None => f = 0 /\ s.payload = <<>> /\ End(s, f) = 0
  <2>1. s.start = None => f = 0 /\ s.offset = 0 /\ Len(s.payload) = 0 BY <1>1, <1>4
  <2>2. s.start = None => End(s, f) = 0 BY <2>1 DEF End
  <2> QED BY <1>1, <2>2
<1> QED BY <1>1, <1>2, <1>5, <1>6, <1>7

LEMMA JudgedTracks ==
    ASSUME NEW s, Sound(s), NEW f, Tracks(s, f), NEW relation,
           NEW status, status \notin {"CONFLICT", "AMBIGUOUS", "FIN"},
           status = "OPEN" => s.status = "OPEN", s.status # "FIN" \/ status = "AFTER_CLOSE",
           s.status = "AFTER_CLOSE" => status = "AFTER_CLOSE"
    PROVE  Tracks(Judged(s, status, relation), f)
<1> DEFINE t == Judged(s, status, relation)
<1>1. /\ t.payload = s.payload /\ t.offset = s.offset /\ t.start = s.start
      /\ t.next = s.next /\ t.syn = s.syn /\ t.status = status
  BY DEF Judged, Sound, Observations
<1> HIDE DEF t
<1> QED BY <1>1 DEF Tracks, Begin, End, t

LEMMA CompactedTracks ==
    ASSUME SenderOK, NEW s, Sound(s), NEW f, Tracks(s, f), s.consumed > 0
    PROVE  /\ Tracks(Compacted(s), f) /\ End(Compacted(s), f) = End(s, f)
           /\ Compacted(s).next = s.next /\ Compacted(s).status = s.status
           /\ s.start # None
<1> DEFINE t == Compacted(s)
           c == s.consumed
<1>0. /\ f \in Nat /\ s.offset \in Nat /\ c \in Nat
      /\ s.payload \in Seq(Bytes) /\ Len(s.payload) \in Nat
      /\ DOMAIN s.payload = 1 .. Len(s.payload)
      /\ Begin(s, f) \in 0 .. Length /\ End(s, f) \in 0 .. Length
      /\ End(s, f) = Begin(s, f) + Len(s.payload)
      /\ c <= Len(s.payload)
      /\ s.start = None => s.payload = <<>>
  BY TracksType
<1>1. s.start # None BY <1>0, EmptySeq
<1>2. /\ t.payload = SubSeq(s.payload, c + 1, Len(s.payload))
      /\ t.start = (s.start + c) % Modulus
      /\ t.offset = s.offset + c /\ t.next = s.next /\ t.syn = s.syn /\ t.status = s.status
  BY DEF Compacted, Sound, Observations
<1>4. t.start # None BY CompactedSound
<1> HIDE DEF t, c
<1>3. /\ t.payload \in Seq(Bytes) /\ Len(t.payload) = Len(s.payload) - c
      /\ \A i \in 1 .. Len(s.payload) - c : t.payload[i] = s.payload[c + i]
  <2>1. c \in 0 .. Len(s.payload) BY <1>0
  <2> QED BY <1>0, <1>2, <2>1, RestOf
<1>5. DOMAIN t.payload = 1 .. Len(s.payload) - c BY <1>3, LenProperties
<1>6. Begin(t, f) = Begin(s, f) + c BY <1>0, <1>2 DEF Begin
<1>7. End(t, f) = End(s, f) BY <1>0, <1>2, <1>3 DEF End
<1>8. t.start = SequenceOf(Begin(t, f))
  <2>1. s.start = SequenceOf(Begin(s, f)) BY <1>1 DEF Tracks
  <2>2. Begin(s, f) + c <= Length BY <1>0, WindowAssumption
  <2> QED BY <1>0, <1>2, <1>6, <2>1, <2>2, SequenceAfter
<1>9. ASSUME NEW i \in DOMAIN t.payload PROVE t.payload[i] = sent[Begin(t, f) + i]
  <2>1. i \in 1 .. Len(s.payload) - c BY <1>5
  <2>2. c + i \in DOMAIN s.payload BY <1>0, <2>1
  <2>3. s.payload[c + i] = sent[Begin(s, f) + (c + i)] BY <2>2 DEF Tracks
  <2>4. Begin(s, f) + (c + i) = Begin(t, f) + i BY <1>0, <1>6, <2>1
  <2> QED BY <1>3, <2>1, <2>3, <2>4
<1>10. Tracks(t, f) BY <1>1, <1>2, <1>4, <1>7, <1>8, <1>9 DEF Tracks
<1> QED BY <1>1, <1>2, <1>7, <1>10 DEF t

(* The position of the first byte taken, after a segment from position p.    *)
First(s, t, p, f) == IF s.start = None /\ t.start # None THEN p ELSE f

LEMMA AppendedTracks ==
    ASSUME SenderOK, NEW s, Sound(s), s.status = "OPEN", NEW f, Tracks(s, f),
           NEW g, NEW p, NEW n, Genuine(g, p, n), s.next # None => p = End(s, f)
    PROVE  LET t == Appended(s, SequenceOf(p), g.payload)
           IN Tracks(t, First(s, t, p, f))
<1> DEFINE q == g.payload
           t == IF ~Fits(s, q) /\ s.consumed > 0 THEN Compacted(s) ELSE s
           relation == IF s.start = None THEN "FIRST" ELSE "CONTIGUOUS"
           start == IF t.start = None THEN SequenceOf(p) ELSE t.start
           u == [t EXCEPT !.payload = t.payload \o q, !.start = start,
                          !.next = (SequenceOf(p) + Len(q)) % Modulus, !.relation = relation]
           z == Appended(s, SequenceOf(p), q)
           h == First(s, z, p, f)
<1>0. /\ q \in Seq(Bytes) /\ Len(q) = n /\ \A i \in 1 .. n : q[i] = sent[p + i]
      /\ p \in 0 .. Length /\ n \in Nat /\ p + n <= Length
  BY DEF Genuine, SegmentType
<1>1. /\ Sound(t) /\ Tracks(t, f) /\ End(t, f) = End(s, f) /\ t.next = s.next /\ t.status = "OPEN"
      /\ t.start = None <=> s.start = None
  <2>1. CASE ~Fits(s, q) /\ s.consumed > 0 BY <2>1, CompactedSound, CompactedTracks
  <2>2. CASE ~(~Fits(s, q) /\ s.consumed > 0) BY <2>2
  <2> QED BY <2>1, <2>2
<1>2. z = IF ~Fits(t, q) THEN Judged(t, "LIMIT_EXCEEDED", relation) ELSE u
  BY DEF Appended
<1> HIDE DEF t, relation, z
<1>3. CASE ~Fits(t, q)
  <2> DEFINE j == Judged(t, "LIMIT_EXCEEDED", relation)
  <2>1. z = j BY <1>2, <1>3
  <2>2. j.start = t.start BY <1>1 DEF Judged, Sound, Observations
  <2>3. Tracks(j, f) BY <1>1, JudgedTracks
  <2> HIDE DEF j
  <2>4. h = f BY <1>1, <2>1, <2>2 DEF First
  <2> QED BY <2>1, <2>3, <2>4 DEF z, h
<1>4. CASE Fits(t, q)
  <2>1. /\ f \in Nat /\ t.offset \in Nat
        /\ t.payload \in Seq(Bytes) /\ Len(t.payload) \in Nat
        /\ DOMAIN t.payload = 1 .. Len(t.payload)
        /\ Begin(t, f) \in 0 .. Length /\ End(t, f) \in 0 .. Length
        /\ End(t, f) = Begin(t, f) + Len(t.payload)
        /\ t.start = None => f = 0 /\ t.payload = <<>> /\ End(t, f) = 0 /\ t.offset = 0
    BY <1>1, TracksType DEF Sound
  <2>2. /\ u.payload = t.payload \o q /\ u.start = start
        /\ u.next = (SequenceOf(p) + n) % Modulus
        /\ u.offset = t.offset /\ u.syn = t.syn /\ u.status = "OPEN"
    BY <1>0, <1>1 DEF Sound, Observations
  <2>3. SequenceOf(p) # None
    BY <1>0, SequenceOfPosition, ModulusAssumption DEF Sequences, None
  <2>4. start # None BY <2>3
  <2>5. u.next = SequenceOf(p + n) BY <1>0, <2>2, SequenceAfter
  <2>6. /\ u.payload \in Seq(Bytes) /\ Len(u.payload) = Len(t.payload) + n
        /\ \A i \in 1 .. Len(t.payload) + n :
               u.payload[i] = IF i <= Len(t.payload) THEN t.payload[i] ELSE q[i - Len(t.payload)]
    <3> HIDE DEF u, q
    <3>0. t.payload \in Seq(Bytes) /\ q \in Seq(Bytes) BY <1>0, <2>1
    <3>1. /\ t.payload \o q \in Seq(Bytes) /\ Len(t.payload \o q) = Len(t.payload) + Len(q)
          /\ \A i \in 1 .. Len(t.payload) + Len(q) :
                 (t.payload \o q)[i] = IF i <= Len(t.payload) THEN t.payload[i] ELSE q[i - Len(t.payload)]
      BY <3>0, ConcatProperties, Zenon
    <3> QED BY <1>0, <2>2, <3>1
  <2>7. DOMAIN u.payload = 1 .. Len(t.payload) + n BY <2>6, LenProperties
  <2>8. z = u BY <1>2, <1>4
  <2>9. p + n \in 0 .. Length BY <1>0, WindowAssumption
  <2>a. p + n \in 0 .. Length /\ p + n # -1 BY <2>9
  <2>b. u.next # None
    BY <2>5, <2>9, SequenceOfPosition, ModulusAssumption DEF Sequences, None
  <2>10. h = IF t.start = None THEN p ELSE f
    BY <1>1, <2>2, <2>4, <2>8 DEF First
  <2>c. h \in Nat /\ Begin(t, h) + Len(t.payload) = p
    <3>1. CASE t.start = None
      <4>1. Len(t.payload) = 0 BY <2>1, <3>1, EmptySeq
      <4> QED BY <1>0, <2>1, <2>10, <3>1, <4>1 DEF Begin
    <3>2. CASE t.start # None
      <4>1. t.next # None BY <1>1, <3>2 DEF Tracks
      <4> QED BY <1>0, <1>1, <2>1, <2>10, <3>2, <4>1
    <3> QED BY <3>1, <3>2
  <2> HIDE DEF start, h, u, q
  <2>11. Begin(u, h) = Begin(t, h) /\ Begin(t, h) \in Nat BY <2>1, <2>2, <2>c DEF Begin
  <2>12. End(u, h) = p + n
    <3>1. End(u, h) = Begin(u, h) + Len(u.payload) BY <2>1, <2>2, <2>6, <2>c DEF End, Begin
    <3>2. Begin(u, h) + (Len(t.payload) + n) = (Begin(t, h) + Len(t.payload)) + n
      BY <1>0, <2>1, <2>11
    <3> QED BY <2>6, <2>c, <3>1, <3>2
  <2>13. ASSUME NEW i \in DOMAIN u.payload PROVE u.payload[i] = sent[Begin(u, h) + i]
    <3>1. i \in 1 .. Len(t.payload) + n BY <2>7
    <3>2. CASE i <= Len(t.payload)
      <4>1. t.start # None
        <5>1. Len(<<>>) = 0 BY EmptySeq
        <5> QED BY <2>1, <3>1, <3>2, <5>1
      <4>2. h = f BY <2>10, <4>1
      <4>3. t.payload[i] = sent[Begin(t, f) + i] BY <1>1, <2>1, <3>1, <3>2 DEF Tracks
      <4> QED BY <2>6, <2>11, <3>1, <3>2, <4>2, <4>3
    <3>3. CASE ~(i <= Len(t.payload))
      <4>1. i - Len(t.payload) \in 1 .. n
        <5>1. n \in Nat BY <1>0
        <5>2. Len(t.payload) \in Nat BY <2>1
        <5> QED BY <3>1, <3>3, <5>1, <5>2
      <4>2. p + (i - Len(t.payload)) = Begin(u, h) + i
        <5>1. Begin(t, h) + Len(t.payload) = p /\ Begin(u, h) = Begin(t, h) BY <2>c, <2>11
        <5>2. Begin(t, h) \in Int /\ Len(t.payload) \in Int /\ i \in Int /\ p \in Int
          BY <1>0, <2>1, <2>11, <3>1
        <5> QED BY <5>1, <5>2
      <4> QED BY <1>0, <2>6, <3>1, <3>3, <4>1, <4>2
    <3> QED BY <3>2, <3>3
  <2>14. u.start = SequenceOf(Begin(u, h)) /\ (u.syn # None => h = 0)
    <3>1. CASE t.start = None
      <4>1. Len(t.payload) = 0 BY <2>1, <3>1, EmptySeq
      <4>2. Begin(u, h) = p BY <1>0, <2>1, <2>c, <2>11, <4>1
      <4>3. t.syn # None => p = 0 BY <1>1, <2>1, <3>1 DEF Tracks
      <4> QED BY <2>2, <2>10, <3>1, <4>2, <4>3 DEF start
    <3>2. CASE t.start # None BY <1>1, <2>2, <2>10, <2>11, <3>2 DEF start, Tracks
    <3> QED BY <3>1, <3>2
  <2>15. u.syn \in {None, isn} BY <1>1, <2>2 DEF Tracks
  <2>16. Tracks(u, h)
    BY <1>0, <2>2, <2>4, <2>5, <2>b, <2>c, <2>12, <2>13, <2>14, <2>15 DEF Tracks
  <2> QED BY <2>8, <2>16 DEF z, h, q
<1> QED BY <1>3, <1>4
(* Bytes of the sender that come again are found in the buffer unchanged.    *)
LEMMA OverlapAgrees ==
    ASSUME SenderOK, NEW s, Sound(s), NEW f, Tracks(s, f), NEW g, NEW p, NEW n, Genuine(g, p, n),
           NEW base, base = p - Begin(s, f),
           NEW i \in DOMAIN g.payload, base + i \in DOMAIN s.payload
    PROVE  s.payload[base + i] = g.payload[i]
<1>1. /\ g.payload \in Seq(Bytes) /\ Len(g.payload) = n /\ n \in Nat /\ p \in 0 .. Length
      /\ \A j \in 1 .. n : g.payload[j] = sent[p + j]
  BY DEF Genuine, SegmentType
<1>2. i \in 1 .. n BY <1>1, LenProperties
<1>3. Begin(s, f) \in 0 .. Length BY TracksType
<1>4. s.payload[base + i] = sent[Begin(s, f) + (base + i)] BY DEF Tracks
<1>5. Begin(s, f) + (base + i) = p + i BY <1>1, <1>2, <1>3
<1> QED BY <1>1, <1>2, <1>4, <1>5

LEMMA OverlappedTracks ==
    ASSUME SenderOK, NEW s, Sound(s), s.status = "OPEN", NEW f, Tracks(s, f),
           NEW g, NEW p, NEW n, Genuine(g, p, n), NEW base, base = p - Begin(s, f)
    PROVE  /\ Tracks(Overlapped(s, g.payload, base), f)
           /\ Overlapped(s, g.payload, base).start = s.start
<1>1. ~ \E i \in DOMAIN g.payload :
          base + i \in DOMAIN s.payload /\ s.payload[base + i] # g.payload[i]
  BY OverlapAgrees
<1>2. \/ Overlapped(s, g.payload, base) = Judged(s, s.status, "DUPLICATE")
      \/ Overlapped(s, g.payload, base) = Judged(s, "OVERLAP", "OVERLAP")
  BY <1>1 DEF Overlapped
<1>3. \A status, relation : Judged(s, status, relation).start = s.start
  BY DEF Judged, Sound, Observations
<1>4. Tracks(Judged(s, s.status, "DUPLICATE"), f) BY JudgedTracks
<1>5. Tracks(Judged(s, "OVERLAP", "OVERLAP"), f) BY JudgedTracks
<1> QED BY <1>2, <1>3, <1>4, <1>5

LEMMA SynchronizedTracks ==
    ASSUME SenderOK, NEW s, Sound(s), s.status = "OPEN", NEW f, Tracks(s, f),
           NEW g, NEW p, NEW n, Genuine(g, p, n), ~Restarts(s, g)
    PROVE  Tracks(Synchronized(s, g), f) /\ Synchronized(s, g).start = s.start
<1>1. CASE ~(g.syn /\ s.syn = None) BY <1>1 DEF Synchronized
<1>2. CASE g.syn /\ s.syn = None
  <2> DEFINE t == [s EXCEPT !.syn = g.seq, !.next = FirstByte(g)]
  <2>1. g.seq = isn /\ p = 0 /\ FirstByte(g) = SequenceOf(p) /\ 0 \in 0 .. Length
    BY <1>2, WindowAssumption DEF Genuine
  <2>2. isn # None BY OriginsAssumption DEF SenderOK, None
  <2>3. s.next = None BY <1>2, <2>1, <2>2 DEF Restarts
  <2>4. s.start = None BY <2>3 DEF Tracks
  <2>5. End(s, f) = 0 BY <2>4, TracksType
  <2>6. SequenceOf(0) # None
    BY <2>1, SequenceOfPosition, ModulusAssumption DEF Sequences, None
  <2>7. /\ t.payload = s.payload /\ t.offset = s.offset /\ t.start = s.start /\ t.status = s.status
        /\ t.syn = isn /\ t.next = SequenceOf(0)
    BY <2>1 DEF Sound, Observations
  <2>8. Synchronized(s, g) = t BY <1>2 DEF Synchronized
  <2> HIDE DEF t
  <2>9. End(t, f) = End(s, f) /\ Begin(t, f) = Begin(s, f) BY <2>7 DEF End, Begin
  <2>10. Tracks(t, f) BY <2>4, <2>5, <2>6, <2>7, <2>9 DEF Tracks
  <2> QED BY <2>7, <2>8, <2>10
<1> QED BY <1>1, <1>2

LEMMA ReceivedTracks ==
    ASSUME SenderOK, NEW s, Sound(s), s.status = "OPEN", NEW f, Tracks(s, f),
           NEW g, NEW p, NEW n, Genuine(g, p, n)
    PROVE  Tracks(Received(s, g), First(s, Received(s, g), p, f))
<1> DEFINE d == IF s.next = None THEN 0 ELSE Delta(FirstByte(g), s.next)
           t == Received(s, g)
<1>1. FirstByte(g) = SequenceOf(p) /\ p \in 0 .. Length /\ g \in SegmentType BY DEF Genuine
<1>2. End(s, f) \in 0 .. Length /\ Begin(s, f) \in 0 .. Length /\ Len(s.payload) \in Nat
      /\ End(s, f) = Begin(s, f) + Len(s.payload)
  BY TracksType
<1>3. s.next # None => d = p - End(s, f) /\ d # HalfRange
  <2>1. s.next # None => s.next = SequenceOf(End(s, f)) BY DEF Tracks
  <2> QED BY <1>1, <1>2, <2>1, DeltaOfPositions
<1>4. HalfRange \in Nat /\ HalfRange > 0
  BY ModulusAssumption DEF HalfRange
<1>5. d \in Int /\ d # HalfRange BY <1>1, <1>2, <1>3, <1>4
<1>6. t = CASE g.payload = <<>> -> s
            [] g.payload # <<>> /\ d = HalfRange -> Judged(s, "AMBIGUOUS", "AMBIGUOUS")
            [] g.payload # <<>> /\ d > 0 /\ d # HalfRange -> Judged(s, "GAP", "GAP")
            [] g.payload # <<>> /\ d < 0 -> Overlapped(s, g.payload, Len(s.payload) + d)
            [] g.payload # <<>> /\ d = 0 -> Appended(s, FirstByte(g), g.payload)
  BY DEF Received
<1>7. ASSUME Tracks(t, f), t.start = s.start PROVE Tracks(t, First(s, t, p, f))
  BY <1>7 DEF First
<1> HIDE DEF t
<1>8. CASE g.payload = <<>>
  <2>1. t = s BY <1>6, <1>8
  <2> QED BY <1>7, <2>1 DEF t
<1>9. CASE g.payload # <<>> /\ d > 0
  <2>1. t = Judged(s, "GAP", "GAP")
    <3> HIDE DEF d
    <3> QED BY <1>5, <1>6, <1>9
  <2>2. t.start = s.start BY <2>1 DEF Judged, Sound, Observations
  <2>3. Tracks(t, f) BY <2>1, JudgedTracks
  <2> QED BY <1>7, <2>2, <2>3 DEF t
<1>10. CASE g.payload # <<>> /\ d < 0
  <2>1. t = Overlapped(s, g.payload, Len(s.payload) + d)
    <3> HIDE DEF d
    <3> QED BY <1>4, <1>5, <1>6, <1>10
  <2>2. Len(s.payload) + d = p - Begin(s, f)
    <3>1. d = p - End(s, f) BY <1>3, <1>10
    <3> QED BY <1>1, <1>2, <3>1
  <2> HIDE DEF d
  <2>3. Tracks(t, f) /\ t.start = s.start BY <2>1, <2>2, OverlappedTracks
  <2> QED BY <1>7, <2>3 DEF t
<1>11. CASE g.payload # <<>> /\ d = 0
  <2>1. t = Appended(s, SequenceOf(p), g.payload)
    <3> HIDE DEF d
    <3> QED BY <1>1, <1>4, <1>5, <1>6, <1>11
  <2>2. s.next # None => p = End(s, f) BY <1>1, <1>2, <1>3, <1>11
  <2> QED BY <2>1, <2>2, AppendedTracks DEF t
<1> QED BY <1>5, <1>8, <1>9, <1>10, <1>11

LEMMA FinishedTracks ==
    ASSUME SenderOK, NEW s, Sound(s), NEW f, Tracks(s, f),
           NEW g, NEW p, NEW n, Genuine(g, p, n)
    PROVE  Tracks(Finished(s, g), f) /\ Finished(s, g).start = s.start
<1> DEFINE end == (FirstByte(g) + Len(g.payload)) % Modulus
           d == IF s.next = None THEN 0 ELSE Delta(end, s.next)
           t == Finished(s, g)
<1>1. /\ FirstByte(g) = SequenceOf(p) /\ Len(g.payload) = n /\ p \in 0 .. Length /\ n \in Nat
      /\ p + n <= Length /\ (g.fin => p + n = Length)
  BY DEF Genuine
<1>2. end = SequenceOf(p + n) /\ p + n \in 0 .. Length
  BY <1>1, SequenceAfter, WindowAssumption
<1>3. End(s, f) \in 0 .. Length BY TracksType
<1>4. t = IF s.status # "OPEN" \/ (~g.rst /\ ~g.fin) THEN s
          ELSE IF g.rst THEN [s EXCEPT !.status = "RESET"]
          ELSE IF d = 0 THEN [s EXCEPT !.status = "FIN", !.next = (end + 1) % Modulus]
          ELSE [s EXCEPT !.status = IF d = HalfRange THEN "AMBIGUOUS"
                                    ELSE IF d > 0 THEN "GAP" ELSE "OVERLAP"]
  BY DEF Finished
<1> HIDE DEF end, t
<1>5. CASE s.status # "OPEN" \/ (~g.rst /\ ~g.fin)
  BY <1>4, <1>5 DEF t
<1>6. CASE s.status = "OPEN" /\ (g.rst \/ g.fin)
  <2>1. s.next # None => s.next = SequenceOf(End(s, f)) BY <1>6 DEF Tracks
  <2>2. s.next # None => d = p + n - End(s, f) /\ d # HalfRange
    <3>1. PICK a \in 0 .. Length : a = p + n BY <1>2
    <3>2. PICK b \in 0 .. Length : b = End(s, f) BY <1>3
    <3>3. Delta(SequenceOf(a), SequenceOf(b)) = a - b /\ a - b # HalfRange BY DeltaOfPositions
    <3>4. s.next # None => d = a - b BY <1>2, <2>1, <3>1, <3>2, <3>3
    <3>5. a - b = p + n - End(s, f) BY <1>1, <1>2, <1>3, <3>1, <3>2
    <3>6. p + n - End(s, f) # HalfRange BY <3>3, <3>5
    <3>7. ASSUME s.next # None PROVE d = p + n - End(s, f) BY <3>4, <3>5, <3>7
    <3> HIDE DEF d
    <3> QED BY <3>6, <3>7
  <2>3. s.next = None => d = 0 /\ s.start = None /\ s.syn = None BY DEF Tracks
  <2>4. HalfRange # 0
    BY ModulusAssumption DEF HalfRange
  <2> HIDE DEF d
  <2>5. CASE g.rst \/ d # 0
    <3>1. \E status \in {"RESET", "GAP", "OVERLAP"} : t = [s EXCEPT !.status = status]
      BY <1>4, <1>6, <2>2, <2>3, <2>5
    <3>2. PICK status \in {"RESET", "GAP", "OVERLAP"} : t = [s EXCEPT !.status = status]
      BY <3>1
    <3>3. /\ t.payload = s.payload /\ t.offset = s.offset /\ t.start = s.start
          /\ t.next = s.next /\ t.syn = s.syn /\ t.status = status
      BY <3>2 DEF Sound, Observations
    <3>4. Tracks(t, f) BY <1>6, <3>3 DEF Tracks, End, Begin
    <3> QED BY <3>3, <3>4 DEF t
  <2>6. CASE ~g.rst /\ d = 0
    <3>1. t = [s EXCEPT !.status = "FIN", !.next = (end + 1) % Modulus]
      BY <1>4, <1>6, <2>6
    <3>2. /\ t.payload = s.payload /\ t.offset = s.offset /\ t.start = s.start
          /\ t.next = (end + 1) % Modulus /\ t.syn = s.syn /\ t.status = "FIN"
      BY <3>1 DEF Sound, Observations
    <3>3. t.next # None
      <4>1. end + 1 \in Int
        BY <1>2, SequenceOfPosition, ModulusAssumption DEF Sequences
      <4> QED BY <3>2, <4>1, ModRange, ModulusAssumption DEF Sequences, None
    <3>4. s.start # None \/ s.syn # None => End(s, f) = Length
      <4>1. s.start # None \/ s.syn # None => s.next # None BY <2>3
      <4> QED BY <1>1, <1>3, <1>6, <2>2, <2>6, <4>1
    <3>5. Tracks(t, f) BY <1>6, <3>2, <3>3, <3>4 DEF Tracks, End, Begin
    <3> QED BY <3>2, <3>5 DEF t
  <2> QED BY <2>5, <2>6
<1> QED BY <1>5, <1>6
LEMMA ObservedTracks ==
    ASSUME SenderOK, NEW current, Sound(current), NEW f, Tracks(current, f),
           NEW g, NEW p, NEW n, Genuine(g, p, n)
    PROVE  Tracks(Observed(current, g), First(current, Observed(current, g), p, f))
<1> DEFINE s == [current EXCEPT !.relation = "EMPTY"]
           after == Observed(current, g)
<1>1. Sound(s) /\ s.status = current.status /\ s.start = current.start
  BY DEF Sound, Observations, Relations
<1>2. Tracks(s, f)
  <2>1. /\ s.payload = current.payload /\ s.offset = current.offset /\ s.start = current.start
        /\ s.next = current.next /\ s.syn = current.syn /\ s.status = current.status
    BY DEF Sound, Observations
  <2> HIDE DEF s
  <2> QED BY <2>1 DEF Tracks, End, Begin
<1>3. after =
        IF Closed(s) /\ (g.payload # <<>> \/ g.syn) THEN Judged(s, "AFTER_CLOSE", "UNAVAILABLE")
        ELSE IF s.status # "OPEN"
        THEN Judged(s, s.status, IF g.payload # <<>> THEN "UNAVAILABLE" ELSE "EMPTY")
        ELSE IF g.fragmented THEN Judged(s, "FRAGMENTED", "UNAVAILABLE")
        ELSE IF Restarts(s, g) THEN Judged(s, "RESTART", "UNAVAILABLE")
        ELSE Finished(Received(Synchronized(s, g), g), g)
  BY DEF Observed
<1>4. g \in SegmentType BY DEF Genuine
<1> HIDE DEF s, after
<1>5. ASSUME Tracks(after, f), after.start = s.start
      PROVE  Tracks(after, First(current, after, p, f))
  BY <1>1, <1>5 DEF First
<1>6. \A status, relation : Judged(s, status, relation).start = s.start
  BY <1>1 DEF Judged, Sound, Observations
<1>7. CASE Closed(s) /\ (g.payload # <<>> \/ g.syn)
  <2>1. after = Judged(s, "AFTER_CLOSE", "UNAVAILABLE") BY <1>3, <1>7
  <2>2. Tracks(after, f) BY <1>1, <1>2, <2>1, JudgedTracks
  <2> QED BY <1>5, <1>6, <2>1, <2>2 DEF after
<1>8. CASE ~(Closed(s) /\ (g.payload # <<>> \/ g.syn)) /\ s.status # "OPEN"
  <2>1. PICK relation : after = Judged(s, s.status, relation) BY <1>3, <1>8
  <2>2. /\ after.payload = s.payload /\ after.offset = s.offset /\ after.start = s.start
        /\ after.next = s.next /\ after.syn = s.syn /\ after.status = s.status
    BY <1>1, <2>1 DEF Judged, Sound, Observations
  <2>3. Tracks(after, f) BY <1>2, <2>2 DEF Tracks, End, Begin
  <2> QED BY <1>5, <2>2, <2>3 DEF after
<1>9. CASE s.status = "OPEN"
  <2>1. ~Closed(s) BY <1>9 DEF Closed
  <2>2. CASE g.fragmented
    <3>1. after = Judged(s, "FRAGMENTED", "UNAVAILABLE") BY <1>3, <1>9, <2>1, <2>2
    <3>2. Tracks(after, f) BY <1>1, <1>2, <1>9, <3>1, JudgedTracks
    <3> QED BY <1>5, <1>6, <3>1, <3>2 DEF after
  <2>3. CASE ~g.fragmented /\ Restarts(s, g)
    <3>1. after = Judged(s, "RESTART", "UNAVAILABLE") BY <1>3, <1>9, <2>1, <2>3
    <3>2. Tracks(after, f) BY <1>1, <1>2, <1>9, <3>1, JudgedTracks
    <3> QED BY <1>5, <1>6, <3>1, <3>2 DEF after
  <2>4. CASE ~g.fragmented /\ ~Restarts(s, g)
    <3> DEFINE a == Synchronized(s, g)
               b == Received(a, g)
    <3>1. after = Finished(b, g) BY <1>3, <1>9, <2>1, <2>4
    <3>2. /\ Sound(a) /\ a.status = "OPEN" /\ a.start = s.start /\ Tracks(a, f)
      BY <1>1, <1>2, <1>4, <1>9, <2>4, SynchronizedSound, SynchronizedTracks
    <3> HIDE DEF a
    <3>3. Sound(b) /\ Tracks(b, First(a, b, p, f))
      BY <1>4, <3>2, ReceivedSound, ReceivedTracks
    <3> HIDE DEF b
    <3>4. Tracks(after, First(a, b, p, f)) /\ after.start = b.start
      BY <3>1, <3>3, FinishedTracks
    <3>5. First(a, b, p, f) = First(current, after, p, f) BY <1>1, <3>2, <3>4 DEF First
    <3> QED BY <3>4, <3>5 DEF after
  <2> QED BY <2>2, <2>3, <2>4
<1> QED BY <1>7, <1>8, <1>9

-----------------------------------------------------------------------------
Tracking == genuine => Tracks(stream, first)

LEMMA TracksPrimed ==
    ASSUME UNCHANGED <<sent, isn>>
    PROVE  Tracks(stream, first)' <=> Tracks(stream', first')
BY DEF Tracks, SequenceOf, Begin, End

LEMMA InitTracking == TCPInit => Tracking
<1> SUFFICES ASSUME TCPInit PROVE Tracks(stream, first)
  BY DEF Tracking
<1>1. /\ stream.payload = <<>> /\ stream.offset = 0 /\ stream.start = None /\ stream.next = None
      /\ stream.syn = None /\ stream.status = "OPEN" /\ first = 0
  BY DEF TCPInit, Fresh
<1>2. Len(stream.payload) = 0 /\ DOMAIN stream.payload = {} BY <1>1
<1> QED BY <1>1, <1>2, WindowAssumption DEF Tracks, End, Begin

LEMMA TrackingPreserved ==
    ASSUME TCPInv, Tracking, [TCPNext]_tcpVars
    PROVE  Tracking'
<1>0. Sound(stream) /\ SenderOK BY DEF TCPInv
<1>1. CASE UNCHANGED tcpVars
  <2>1. stream' = stream /\ first' = first /\ genuine' = genuine /\ UNCHANGED <<sent, isn>>
    BY <1>1 DEF tcpVars
  <2> QED BY <2>1, TracksPrimed DEF Tracking
<1>2. ASSUME NEW p \in 0 .. Length, NEW n \in 0 .. MaxSegment, ObserveSegment(p, n)
      PROVE  Tracking'
  <2>1. /\ p + n <= Length /\ UNCHANGED <<sent, isn>> /\ genuine' = genuine
        /\ first' = First(stream, stream', p, first)
    BY <1>2 DEF ObserveSegment, Took, First
  <2>2. PICK g \in Segments(p, n) : stream' = Observed(stream, g)
    BY <1>2 DEF ObserveSegment
  <2>3. n \in Nat BY WindowAssumption
  <2>4. Genuine(g, p, n) BY <1>0, <2>1, <2>3, SegmentsGenuine
  <2>5. Tracks(stream, first) => Tracks(stream', first')
    BY <1>0, <2>1, <2>2, <2>4, ObservedTracks
  <2> QED BY <2>1, <2>5, TracksPrimed DEF Tracking
<1>3. CASE ObserveStray
  BY <1>3 DEF ObserveStray, Tracking
<1>4. CASE Consume
  <2>1. UNCHANGED <<sent, isn, first, genuine>> /\ \E n : stream' = Consumed(stream, n)
    BY <1>4 DEF Consume
  <2>2. PICK n : stream' = Consumed(stream, n) BY <2>1
  <2>3. /\ stream'.payload = stream.payload /\ stream'.offset = stream.offset
        /\ stream'.start = stream.start /\ stream'.next = stream.next
        /\ stream'.syn = stream.syn /\ stream'.status = stream.status
    BY <1>0, <2>2 DEF Consumed, Sound, Observations
  <2>4. Tracks(stream, first) => Tracks(stream', first') BY <2>1, <2>3 DEF Tracks, End, Begin
  <2> QED BY <2>1, <2>4, TracksPrimed DEF Tracking
<1> QED BY <1>1, <1>2, <1>3, <1>4 DEF TCPNext

(* However the sender's segments are lost, repeated, reordered and cut, the  *)
(* buffer is a piece of the sender's bytes under the right sequence numbers, *)
(* for every modulus, stream and buffer size                                 *)
(* (tcp_stream_observation.py:80-288).                                       *)
THEOREM BufferOfSender == TCPSpec => []BufferIsStream
<1>1. ASSUME TCPInv, Tracking PROVE BufferIsStream
  <2> SUFFICES ASSUME genuine
               PROVE  /\ stream.status \notin {"CONFLICT", "AMBIGUOUS"}
                      /\ stream.start # None =>
                            /\ stream.payload = SubSeq(sent, first + stream.offset + 1, Reached(stream))
                            /\ stream.start = SequenceOf(first + stream.offset)
                            /\ stream.syn # None => first = 0
                      /\ stream.status = "FIN" /\ (stream.start # None \/ stream.syn # None) =>
                            Reached(stream) = Length
                      /\ stream.next # None /\ stream.status \notin {"FIN", "AFTER_CLOSE"} =>
                            stream.next = SequenceOf(Reached(stream))
    BY DEF BufferIsStream
  <2>0. Sound(stream) /\ SenderOK /\ Tracks(stream, first) BY <1>1 DEF TCPInv, Tracking
  <2>1. Reached(stream) = End(stream, first) /\ Begin(stream, first) = first + stream.offset
    BY DEF Reached, End, Begin
  <2>2. stream.payload = SubSeq(sent, first + stream.offset + 1, Reached(stream))
    <3> DEFINE b == first + stream.offset
               e == Reached(stream)
               q == stream.payload
               r == SubSeq(sent, b + 1, e)
    <3>1. /\ b \in 0 .. Length /\ e \in 0 .. Length /\ e = b + Len(q)
          /\ q \in Seq(Bytes) /\ Len(q) \in Nat /\ DOMAIN q = 1 .. Len(q)
      BY <2>0, <2>1, TracksType
    <3>2. \A i \in DOMAIN q : q[i] = sent[b + i] BY <2>0, <2>1 DEF Tracks
    <3> HIDE DEF b, e, q, r
    <3>3. b + 1 \in Int /\ e \in Int /\ \A i \in b + 1 .. e : sent[i] \in Bytes
      <4>1. \A i \in b + 1 .. e : i \in 1 .. Length BY <3>1, WindowAssumption
      <4>2. \A i \in 1 .. Length : sent[i] \in Bytes BY <2>0 DEF SenderOK
      <4> QED BY <3>1, <4>1, <4>2
    <3>4. /\ SubSeq(sent, b + 1, e) \in Seq(Bytes)
          /\ Len(SubSeq(sent, b + 1, e)) = IF b + 1 <= e THEN e - (b + 1) + 1 ELSE 0
          /\ \A i \in 1 .. e - (b + 1) + 1 : SubSeq(sent, b + 1, e)[i] = sent[b + 1 + i - 1]
      BY <3>3, SubSeqProperties
    <3>5. r \in Seq(Bytes) /\ Len(r) = Len(q) /\ \A i \in 1 .. Len(q) : r[i] = sent[b + i]
      <4>1. r \in Seq(Bytes) BY <3>4 DEF r
      <4>2. Len(r) = Len(q)
        <5>1. b \in Nat /\ e \in Nat /\ Len(q) \in Nat /\ e = b + Len(q) BY <3>1
        <5>2. (IF b + 1 <= e THEN e - (b + 1) + 1 ELSE 0) = Len(q) BY <5>1
        <5> QED BY <3>4, <5>2 DEF r
      <4>3. ASSUME NEW i \in 1 .. Len(q) PROVE r[i] = sent[b + i]
        <5>1. b \in Nat /\ e \in Nat /\ Len(q) \in Nat /\ e = b + Len(q) BY <3>1
        <5>2. i \in 1 .. e - (b + 1) + 1 /\ b + 1 + i - 1 = b + i BY <4>3, <5>1
        <5>3. SubSeq(sent, b + 1, e)[i] = sent[b + 1 + i - 1] BY <3>4, <5>2
        <5> QED BY <5>2, <5>3 DEF r
      <4> QED BY <4>1, <4>2, <4>3
    <3>6. q = r BY <3>1, <3>2, <3>5, SeqEqual
    <3> QED BY <3>6 DEF q, r, b, e
  <2> QED BY <2>0, <2>1, <2>2 DEF Tracks
<1> QED BY <1>1, InitInv, InvPreserved, InitTracking, TrackingPreserved, PTL DEF TCPSpec
(* A repetition of buffered bytes, however it is cut and wherever the        *)
(* sequence numbers wrap around, is a duplicate and changes nothing else     *)
(* (tcp_stream_observation.py:216-258).                                      *)
THEOREM Repetition == TCPSpec => []RepetitionHarmless
<1>1. ASSUME TCPInv, Tracking PROVE RepetitionHarmless
  <2> SUFFICES ASSUME genuine, stream.status = "OPEN",
                      NEW p \in first + stream.offset .. Reached(stream) - 1,
                      NEW n \in 1 .. Reached(stream) - p, NEW g \in Segments(p, n), Plain(g)
               PROVE  Observed(stream, g) = [stream EXCEPT !.relation = "DUPLICATE"]
    BY DEF RepetitionHarmless
  <2> DEFINE f == first
             s == [stream EXCEPT !.relation = "EMPTY"]
             base == p - Begin(s, f)
  <2>0. Sound(stream) /\ SenderOK /\ Tracks(stream, first) BY <1>1 DEF TCPInv, Tracking
  <2>1. /\ s.payload = stream.payload /\ s.offset = stream.offset /\ s.start = stream.start
        /\ s.next = stream.next /\ s.syn = stream.syn /\ s.status = "OPEN"
        /\ Sound(s)
    BY <2>0 DEF Sound, Observations, Relations
  <2>2. Judged(s, "OPEN", "DUPLICATE") = [stream EXCEPT !.relation = "DUPLICATE"]
    BY <2>0 DEF Judged, Sound, Observations
  <2>3. Observed(stream, g) =
          IF Closed(s) /\ (g.payload # <<>> \/ g.syn) THEN Judged(s, "AFTER_CLOSE", "UNAVAILABLE")
          ELSE IF s.status # "OPEN"
          THEN Judged(s, s.status, IF g.payload # <<>> THEN "UNAVAILABLE" ELSE "EMPTY")
          ELSE IF g.fragmented THEN Judged(s, "FRAGMENTED", "UNAVAILABLE")
          ELSE IF Restarts(s, g) THEN Judged(s, "RESTART", "UNAVAILABLE")
          ELSE Finished(Received(Synchronized(s, g), g), g)
    BY DEF Observed
  <2>4. End(s, f) = Reached(stream) /\ Begin(s, f) = first + stream.offset
    BY <2>1 DEF End, Begin, Reached
  <2> HIDE DEF s
  <2>5. Tracks(s, f) BY <2>0, <2>1 DEF Tracks, End, Begin
  <2>6. /\ Begin(s, f) \in 0 .. Length /\ End(s, f) \in 0 .. Length
        /\ End(s, f) = Begin(s, f) + Len(s.payload) /\ Len(s.payload) \in Nat
        /\ s.start = None => End(s, f) = 0
    BY <2>0, <2>1, <2>5, TracksType
  <2>7. p \in 0 .. Length /\ n \in Nat /\ n > 0 /\ p + n <= End(s, f) /\ p + n <= Length
        /\ p < End(s, f) /\ Begin(s, f) <= p
    <3>1. PICK b \in 0 .. Length : b = Begin(s, f) BY <2>6
    <3>2. PICK e \in 0 .. Length : e = End(s, f) BY <2>6
    <3>3. p \in b .. e - 1 /\ n \in 1 .. e - p BY <2>4, <3>1, <3>2
    <3>4. Length \in Nat BY WindowAssumption
    <3>5. p \in 0 .. Length /\ n \in Nat /\ n > 0 /\ p + n <= e /\ p + n <= Length /\ p < e /\ b <= p
      BY <3>3, <3>4
    <3> QED BY <3>1, <3>2, <3>5
  <2>8. Genuine(g, p, n) BY <2>0, <2>7, SegmentsGenuine
  <2>9. /\ g.payload \in Seq(Bytes) /\ Len(g.payload) = n /\ FirstByte(g) = SequenceOf(p)
        /\ g.syn => g.seq = isn
    BY <2>8 DEF Genuine, SegmentType
  <2>10. g.payload # <<>> BY <2>7, <2>9, EmptySeq
  <2>11. ~Closed(s) /\ ~g.fragmented /\ ~g.fin /\ ~g.rst /\ (g.syn => s.syn # None)
    BY <2>1 DEF Plain, Closed
  <2>12. ~Restarts(s, g) BY <2>5, <2>9, <2>11 DEF Restarts, Tracks
  <2>13. Synchronized(s, g) = s BY <2>11 DEF Synchronized
  <2>14. s.next # None /\ s.next = SequenceOf(End(s, f)) BY <2>1, <2>5, <2>6, <2>7 DEF Tracks
  <2>15. PICK d \in Int : d = p - End(s, f) /\ d < 0 /\ base = Len(s.payload) + d
    <3>1. PICK b \in 0 .. Length : b = Begin(s, f) BY <2>6
    <3>2. PICK e \in 0 .. Length : e = End(s, f) BY <2>6
    <3>3. e = b + Len(s.payload) /\ Len(s.payload) \in Nat /\ p < e /\ p \in Int
      BY <2>6, <2>7, <3>1, <3>2
    <3>4. p - e \in Int /\ p - e < 0 /\ p - b = Len(s.payload) + (p - e)
      BY <3>1, <3>2, <3>3
    <3>5. base = p - b BY <3>1
    <3> HIDE DEF base
    <3> QED BY <3>2, <3>4, <3>5
  <2>16. Delta(FirstByte(g), s.next) = d
    BY <2>0, <2>6, <2>7, <2>9, <2>14, <2>15, DeltaOfPositions
  <2>17. Received(s, g) = Overlapped(s, g.payload, Len(s.payload) + d)
    <3>1. HalfRange \in Nat BY ModulusAssumption DEF HalfRange
    <3>2. Received(s, g) =
            CASE g.payload = <<>> -> s
              [] g.payload # <<>> /\ d = HalfRange -> Judged(s, "AMBIGUOUS", "AMBIGUOUS")
              [] g.payload # <<>> /\ d > 0 /\ d # HalfRange -> Judged(s, "GAP", "GAP")
              [] g.payload # <<>> /\ d < 0 -> Overlapped(s, g.payload, Len(s.payload) + d)
              [] g.payload # <<>> /\ d = 0 -> Appended(s, FirstByte(g), g.payload)
      BY <2>14, <2>16 DEF Received
    <3> QED BY <2>10, <2>15, <3>1, <3>2
  <2>18. Overlapped(s, g.payload, base) = Judged(s, "OPEN", "DUPLICATE")
    <3>1. ~ \E i \in DOMAIN g.payload :
              base + i \in DOMAIN s.payload /\ s.payload[base + i] # g.payload[i]
      BY <2>0, <2>1, <2>5, <2>8, OverlapAgrees
    <3>2. base >= 0 /\ base + Len(g.payload) <= Len(s.payload) BY <2>6, <2>7, <2>9
    <3> QED BY <2>1, <3>1, <3>2 DEF Overlapped
  <2>19. Received(s, g) = Judged(s, "OPEN", "DUPLICATE") BY <2>15, <2>17, <2>18
  <2>20. Finished(Judged(s, "OPEN", "DUPLICATE"), g) = Judged(s, "OPEN", "DUPLICATE")
    BY <2>11 DEF Finished
  <2> QED BY <2>1, <2>2, <2>3, <2>11, <2>12, <2>13, <2>19, <2>20
<1> QED BY <1>1, InitInv, InvPreserved, InitTracking, TrackingPreserved, PTL DEF TCPSpec

-----------------------------------------------------------------------------
(* The framing of the stream.                                                *)
(* Pieces of sequences.                                                      *)
LEMMA SliceIs ==
    ASSUME NEW S, NEW q \in Seq(S), NEW a \in 1 .. Len(q) + 1, NEW b \in a - 1 .. Len(q)
    PROVE  /\ SubSeq(q, a, b) \in Seq(S) /\ Len(SubSeq(q, a, b)) = b - a + 1
           /\ \A i \in 1 .. b - a + 1 : SubSeq(q, a, b)[i] = q[a + i - 1]
<1>1. Len(q) \in Nat BY LenProperties
<1>2. \A i \in a .. b : i \in 1 .. Len(q) BY <1>1
<1>3. SubSeq(q, a, b) \in Seq(S)
  <2>1. \A i \in a .. b : q[i] \in S BY <1>2, ElementOfSeq
  <2> QED BY <1>1, <2>1, SubSeqProperties
<1> QED BY <1>1, <1>3, SubSeqProperties

(* Sequences that agree at every place are the same.                         *)
LEMMA SameSequence ==
    ASSUME NEW S, NEW p \in Seq(S), NEW q \in Seq(S), Len(p) = Len(q),
           \A i \in 1 .. Len(p) : p[i] = q[i]
    PROVE  p = q
BY SeqEqual, LenProperties

(* A piece stays the same piece when more follows.                           *)
LEMMA SliceKept ==
    ASSUME NEW S, NEW c \in Seq(S), NEW x \in Seq(S), NEW a \in 1 .. Len(c) + 1, NEW b \in a - 1 .. Len(c)
    PROVE  SubSeq(c \o x, a, b) = SubSeq(c, a, b) /\ Len(c) <= Len(c \o x)
<1> DEFINE d == c \o x
           u == SubSeq(d, a, b)
           v == SubSeq(c, a, b)
<1>1. /\ d \in Seq(S) /\ Len(d) = Len(c) + Len(x) /\ Len(c) \in Nat /\ Len(x) \in Nat
      /\ \A i \in 1 .. Len(c) : d[i] = c[i]
  BY ConcatProperties, LenProperties
<1>2. a \in 1 .. Len(d) + 1 /\ b \in a - 1 .. Len(d) BY <1>1
<1> HIDE DEF d
<1>3. u \in Seq(S) /\ Len(u) = b - a + 1 /\ \A i \in 1 .. b - a + 1 : u[i] = d[a + i - 1]
  BY <1>1, <1>2, SliceIs
<1>4. v \in Seq(S) /\ Len(v) = b - a + 1 /\ \A i \in 1 .. b - a + 1 : v[i] = c[a + i - 1]
  BY <1>1, SliceIs
<1>5. \A i \in 1 .. b - a + 1 : a + i - 1 \in 1 .. Len(c) BY <1>1
<1> HIDE DEF u, v
<1>6. \A i \in 1 .. Len(u) : u[i] = v[i] BY <1>1, <1>3, <1>4, <1>5
<1>7. u = v BY <1>3, <1>4, <1>6, SameSequence
<1>8. Len(c) <= Len(d) BY <1>1
<1> QED BY <1>7, <1>8 DEF u, v, d

(* A sequence is what is taken from it and what is left.                     *)
LEMMA SplitAt ==
    ASSUME NEW S, NEW q \in Seq(S), NEW k \in 0 .. Len(q)
    PROVE  /\ SubSeq(q, 1, k) \in Seq(S) /\ Len(SubSeq(q, 1, k)) = k
           /\ Dropped(q, k) \in Seq(S) /\ Len(Dropped(q, k)) = Len(q) - k
           /\ q = SubSeq(q, 1, k) \o Dropped(q, k)
<1> DEFINE u == SubSeq(q, 1, k)
           v == SubSeq(q, k + 1, Len(q))
           w == u \o v
<1>1. Len(q) \in Nat BY LenProperties
<1>2. u \in Seq(S) /\ Len(u) = k /\ \A i \in 1 .. k : u[i] = q[i]
  <2>1. 1 \in 1 .. Len(q) + 1 /\ k \in 1 - 1 .. Len(q) /\ k - 1 + 1 = k BY <1>1
  <2>2. u \in Seq(S) /\ Len(u) = k - 1 + 1 /\ \A i \in 1 .. k - 1 + 1 : u[i] = q[1 + i - 1]
    BY <2>1, SliceIs
  <2>3. \A i \in 1 .. k : 1 + i - 1 = i OBVIOUS
  <2> HIDE DEF u
  <2> QED BY <1>1, <2>1, <2>2, <2>3
<1>3. v \in Seq(S) /\ Len(v) = Len(q) - k /\ \A i \in 1 .. Len(q) - k : v[i] = q[k + i]
  BY <1>1, RestOf
<1> HIDE DEF u, v
<1>4. w \in Seq(S) /\ Len(w) = k + (Len(q) - k)
      /\ \A i \in 1 .. Len(q) : w[i] = IF i <= k THEN u[i] ELSE v[i - k]
  BY <1>1, <1>2, <1>3, ConcatProperties
<1> HIDE DEF w
<1>5. Len(w) = Len(q) BY <1>1, <1>4
<1>6. ASSUME NEW i \in 1 .. Len(w) PROVE w[i] = q[i]
  <2>1. CASE i <= k BY <1>2, <1>4, <1>5, <2>1
  <2>2. CASE ~ (i <= k)
    <3>1. i - k \in 1 .. Len(q) - k /\ k + (i - k) = i BY <1>1, <1>5, <2>2
    <3> QED BY <1>3, <1>4, <1>5, <2>2, <3>1
  <2> QED BY <2>1, <2>2
<1>7. w = q BY <1>4, <1>5, <1>6, SameSequence
<1> QED BY <1>2, <1>3, <1>7 DEF u, v, w, Dropped

-----------------------------------------------------------------------------
(* The length that a header declares.                                        *)
LEMMA DeclaredIs ==
    ASSUME NEW format \in Formats, NEW header \in Seq(Bytes), Len(header) = format.header
    PROVE  Declared(format, header) \in Nat
<1> DEFINE count == format.size
           Place(i) == header[format.header - format.size + i]
           step == [i \in 1 .. count |-> [v \in Nat |-> v * Base + Place(i)]]
           value[i \in 0 .. count] == IF i = 0 THEN 0 ELSE value[i - 1] * Base + Place(i)
           Follows(f) == f = [i \in 0 .. count |-> IF i = 0 THEN 0 ELSE f[i - 1] * Base + Place(i)]
<1>0. /\ format.header \in Nat /\ count \in Nat /\ 1 <= count /\ count <= format.header
      /\ Base \in Nat
  BY BaseAssumption DEF Formats
<1>1. ASSUME NEW i \in 1 .. count PROVE Place(i) \in Nat
  <2>1. format.header - format.size + i \in 1 .. Len(header) BY <1>0
  <2>2. \A b \in Bytes : b \in Nat BY BytesAssumption, BaseAssumption
  <2>3. header[format.header - format.size + i] \in Bytes BY <2>1, ElementOfSeq
  <2> QED BY <2>2, <2>3
<1> HIDE DEF Place
<1>2. step \in [1 .. count -> [Nat -> Nat]]
  <2>1. ASSUME NEW i \in 1 .. count, NEW v \in Nat PROVE v * Base + Place(i) \in Nat
    <3>1. Place(i) \in Nat BY <1>1
    <3> HIDE DEF step, value, Follows
    <3> QED BY <1>0, <3>1
  <2> HIDE DEF value, Follows
  <2> QED BY <2>1
<1> HIDE DEF count
<1>3. PICK g \in [0 .. count -> Nat] : g[0] = 0 /\ \A k \in 1 .. count : g[k] = step[k][g[k - 1]]
  <2> HIDE DEF step
  <2>1. Iterated(count, Nat, 0, step) BY <1>0, <1>2, Iteration
  <2> QED BY <2>1 DEF Iterated
<1>4. Follows(g)
  <2>1. ASSUME NEW i \in 0 .. count, i # 0 PROVE g[i] = g[i - 1] * Base + Place(i)
    <3>1. i \in 1 .. count /\ i - 1 \in 0 .. count BY <1>0, <2>1
    <3>2. step[i][g[i - 1]] = g[i - 1] * Base + Place(i) BY <3>1
    <3> QED BY <1>3, <3>1, <3>2
  <2> HIDE DEF step
  <2> QED BY <1>3, <2>1
<1>5. Follows(value)
  <2>1. value = CHOOSE f : Follows(f) OBVIOUS
  <2> HIDE DEF value, Follows
  <2> QED BY <1>4, <2>1
<1>6. \A i \in 0 .. count : value[i] \in Nat
  <2> DEFINE H == {i \in 0 .. count : value[i] \in Nat}
  <2> HIDE DEF value
  <2>1. 0 \in H BY <1>0, <1>5
  <2>2. ASSUME NEW i \in 1 .. count, i - 1 \in H PROVE i \in H
    <3>0. i \in 0 .. count /\ i # 0 BY <1>0
    <3>1. value[i] = value[i - 1] * Base + Place(i) BY <1>5, <3>0
    <3>2. value[i - 1] \in Nat /\ Place(i) \in Nat BY <1>1, <2>2
    <3>3. \A v, w \in Nat : v * Base + w \in Nat BY <1>0
    <3>4. value[i - 1] * Base + Place(i) \in Nat BY <3>2, <3>3
    <3> QED BY <3>0, <3>1, <3>4
  <2>3. \A i \in 0 .. count : i \in H
    <3> HIDE DEF H
    <3> QED BY <1>0, <2>1, <2>2, Upwards
  <2> QED BY <2>3
<1>7. Declared(format, header) = value[count] BY DEF Declared, Place, count
<1> HIDE DEF value
<1> QED BY <1>0, <1>6, <1>7

-----------------------------------------------------------------------------
(* Frames of bytes.  A frame starts at a place, where it is whole or not.    *)
FrameRecords == [header : Seq(Bytes), payload : Seq(Bytes)]

(* A header is there, and the length that it declares.                       *)
Headed(format, d, at) == at + format.header <= Len(d) + 1

HeaderAt(format, d, at) == SubSeq(d, at, (at + format.header) - 1)

LengthAt(format, d, at) == Declared(format, HeaderAt(format, d, at))

NextAt(format, d, at) == at + format.header + LengthAt(format, d, at)

FrameAt(format, d, at) ==
    [header |-> HeaderAt(format, d, at),
     payload |-> SubSeq(d, at + format.header, NextAt(format, d, at) - 1)]

WholeAt(format, d, at) ==
    /\ Headed(format, d, at)
    /\ LengthAt(format, d, at) <= format.limit
    /\ NextAt(format, d, at) <= Len(d) + 1

(* What is at a place, and that it is the same when bytes follow.            *)
LEMMA PlaceIs ==
    ASSUME NEW format \in Formats, NEW d \in Seq(Bytes), NEW at \in 1 .. Len(d) + 1, Headed(format, d, at)
    PROVE  /\ HeaderAt(format, d, at) \in Seq(Bytes) /\ Len(HeaderAt(format, d, at)) = format.header
           /\ LengthAt(format, d, at) \in Nat
           /\ NextAt(format, d, at) \in Nat /\ at < NextAt(format, d, at)
           /\ NextAt(format, d, at) <= Len(d) + 1 =>
                 /\ FrameAt(format, d, at) \in FrameRecords
                 /\ Len(FrameAt(format, d, at).payload) = LengthAt(format, d, at)
<1>0. format.header \in Nat /\ 1 <= format.header /\ Len(d) \in Nat /\ at \in Nat
  BY LenProperties DEF Formats
<1>1. HeaderAt(format, d, at) \in Seq(Bytes) /\ Len(HeaderAt(format, d, at)) = format.header
  <2> DEFINE b == (at + format.header) - 1
  <2>1. b \in at - 1 .. Len(d) /\ b - at + 1 = format.header BY <1>0 DEF Headed
  <2> HIDE DEF b
  <2>2. SubSeq(d, at, b) \in Seq(Bytes) /\ Len(SubSeq(d, at, b)) = b - at + 1 BY <2>1, SliceIs
  <2> QED BY <2>1, <2>2 DEF HeaderAt, b
<1>2. LengthAt(format, d, at) \in Nat BY <1>1, DeclaredIs DEF LengthAt
<1>3. NextAt(format, d, at) \in Nat /\ at < NextAt(format, d, at) BY <1>0, <1>2 DEF NextAt
<1>4. ASSUME NextAt(format, d, at) <= Len(d) + 1
      PROVE  /\ FrameAt(format, d, at) \in FrameRecords
             /\ Len(FrameAt(format, d, at).payload) = LengthAt(format, d, at)
  <2> DEFINE a == at + format.header
             b == NextAt(format, d, at) - 1
             l == LengthAt(format, d, at)
  <2>0. NextAt(format, d, at) = at + format.header + l BY DEF NextAt
  <2>1. a \in 1 .. Len(d) + 1 /\ b \in a - 1 .. Len(d) /\ b - a + 1 = l
    <3> HIDE DEF l
    <3> QED BY <1>0, <1>2, <1>4, <2>0 DEF Headed, l
  <2> HIDE DEF a, b
  <2>2. SubSeq(d, a, b) \in Seq(Bytes) /\ Len(SubSeq(d, a, b)) = b - a + 1 BY <2>1, SliceIs
  <2> QED BY <1>1, <2>1, <2>2 DEF FrameAt, FrameRecords, a, b
<1> QED BY <1>1, <1>2, <1>3, <1>4

(* A frame stays the same frame when more bytes follow.                      *)
LEMMA PlaceKept ==
    ASSUME NEW format \in Formats, NEW c \in Seq(Bytes), NEW x \in Seq(Bytes), NEW at \in 1 .. Len(c) + 1,
           Headed(format, c, at)
    PROVE  /\ at \in 1 .. Len(c \o x) + 1 /\ Headed(format, c \o x, at)
           /\ HeaderAt(format, c \o x, at) = HeaderAt(format, c, at)
           /\ LengthAt(format, c \o x, at) = LengthAt(format, c, at)
           /\ NextAt(format, c \o x, at) = NextAt(format, c, at)
           /\ WholeAt(format, c, at) =>
                 WholeAt(format, c \o x, at) /\ FrameAt(format, c \o x, at) = FrameAt(format, c, at)
<1> DEFINE d == c \o x
<1>0. /\ format.header \in Nat /\ 1 <= format.header /\ Len(c) \in Nat /\ at \in Nat
      /\ d \in Seq(Bytes) /\ Len(d) \in Nat /\ Len(c) <= Len(d)
  BY LenProperties, ConcatProperties DEF Formats
<1>1. HeaderAt(format, d, at) = HeaderAt(format, c, at)
  <2> DEFINE b == (at + format.header) - 1
  <2>1. b \in at - 1 .. Len(c) BY <1>0 DEF Headed
  <2> HIDE DEF b
  <2>2. SubSeq(c \o x, at, b) = SubSeq(c, at, b) BY <2>1, SliceKept
  <2> QED BY <2>2 DEF HeaderAt, b
<1> HIDE DEF d
<1>2. at \in 1 .. Len(d) + 1 /\ Headed(format, d, at) BY <1>0 DEF Headed
<1>3. /\ LengthAt(format, d, at) = LengthAt(format, c, at)
      /\ NextAt(format, d, at) = NextAt(format, c, at)
  BY <1>1 DEF LengthAt, NextAt
<1>4. ASSUME WholeAt(format, c, at)
      PROVE  WholeAt(format, d, at) /\ FrameAt(format, d, at) = FrameAt(format, c, at)
  <2> DEFINE a == at + format.header
             b == NextAt(format, c, at) - 1
  <2>1. LengthAt(format, c, at) \in Nat /\ NextAt(format, c, at) \in Nat BY PlaceIs
  <2>2. a \in 1 .. Len(c) + 1 /\ b \in a - 1 .. Len(c) BY <1>0, <1>4, <2>1 DEF NextAt, WholeAt, Headed
  <2> HIDE DEF a, b
  <2>3. SubSeq(c \o x, a, b) = SubSeq(c, a, b) BY <2>2, SliceKept
  <2>4. FrameAt(format, d, at) = FrameAt(format, c, at) BY <1>1, <1>3, <2>3 DEF FrameAt, a, b, d
  <2>5. WholeAt(format, d, at) BY <1>0, <1>2, <1>3, <1>4, <2>1 DEF WholeAt
  <2> QED BY <2>4, <2>5
<1> QED BY <1>1, <1>2, <1>3, <1>4 DEF d

-----------------------------------------------------------------------------
(* Frames from the first place up to another, one behind the other.          *)
FramesUpTo(format, d, F, at) ==
    /\ F \in Seq(FrameRecords)
    /\ \E b \in [0 .. Len(F) -> 1 .. Len(d) + 1] :
          /\ b[0] = 1 /\ b[Len(F)] = at
          /\ \A i \in 1 .. Len(F) :
                /\ WholeAt(format, d, b[i - 1])
                /\ F[i] = FrameAt(format, d, b[i - 1])
                /\ b[i] = NextAt(format, d, b[i - 1])

(* What cutting gives from each place.                                       *)
CutFrom(g, format, d) ==
    /\ g \in [1 .. Len(d) + 1 -> Seq(FrameRecords)]
    /\ \A at \in 1 .. Len(d) + 1 :
          g[at] = IF WholeAt(format, d, at) THEN <<FrameAt(format, d, at)>> \o g[NextAt(format, d, at)]
                  ELSE <<>>

(* Cut goes from each whole frame to the next.                               *)
LEMMA CutUnfolds ==
    ASSUME NEW format \in Formats, NEW d \in Seq(Bytes)
    PROVE  \E g : CutFrom(g, format, d) /\ Cut(format, d) = g[1]
<1> DEFINE D == 1 .. Len(d) + 1
           V == Seq(FrameRecords)
           W(at) == WholeAt(format, d, at)
           N(at) == NextAt(format, d, at)
           R(at) == FrameAt(format, d, at)
           Value(g, at) == IF W(at) THEN <<R(at)>> \o g[N(at)] ELSE <<>>
           next == [at \in D |-> IF W(at) THEN N(at) ELSE at]
           join == [at \in D |-> [v \in V |-> <<R(at)>> \o v]]
           last == [at \in D |-> <<>>]
           Raw(g, at) ==
            LET body == at + format.header
                length == Declared(format, SubSeq(d, at, body - 1))
            IN IF body > Len(d) + 1 THEN <<>>
               ELSE IF length > format.limit \/ body + length > Len(d) + 1 THEN <<>>
               ELSE <<[header |-> SubSeq(d, at, body - 1),
                       payload |-> SubSeq(d, body, body + length - 1)]>> \o g[body + length]
           Obeys(g) == g = [at \in D |-> Raw(g, at)]
           from == CHOOSE g : g = [at \in D |-> Raw(g, at)]
<1>0. Len(d) \in Nat /\ format.header \in Nat /\ format.limit \in Nat BY LenProperties DEF Formats
<1>1. ASSUME NEW at \in D, W(at) PROVE N(at) \in (at + 1) .. Len(d) + 1 /\ R(at) \in FrameRecords
  <2>1. Headed(format, d, at) /\ N(at) <= Len(d) + 1 BY <1>1 DEF WholeAt
  <2>2. N(at) \in Nat /\ at < N(at) /\ R(at) \in FrameRecords BY <2>1, PlaceIs
  <2> HIDE DEF N, R, W
  <2> QED BY <1>0, <2>1, <2>2
<1>2. ASSUME NEW at \in D, NEW h
      PROVE  Raw(h, at) = Value(h, at)
  <2> DEFINE l == LengthAt(format, d, at)
             n == at + format.header + l
  <2>1. l = Declared(format, SubSeq(d, at, (at + format.header) - 1)) BY DEF LengthAt, HeaderAt
  <2>2. N(at) = n BY DEF NextAt
  <2>3. R(at) = [header |-> SubSeq(d, at, (at + format.header) - 1),
                 payload |-> SubSeq(d, at + format.header, n - 1)] BY <2>2 DEF FrameAt, HeaderAt
  <2>4. Headed(format, d, at) <=> ~ (at + format.header > Len(d) + 1) BY <1>0 DEF Headed
  <2>5. Headed(format, d, at) => l \in Nat BY PlaceIs
  <2>6. W(at) <=> Headed(format, d, at) /\ l <= format.limit /\ n <= Len(d) + 1
    BY <2>2 DEF WholeAt
  <2> HIDE DEF l, N, R, W
  <2>7. ASSUME Headed(format, d, at)
        PROVE  W(at) <=> ~ (l > format.limit \/ n > Len(d) + 1)
    BY <1>0, <2>5, <2>6, <2>7
  <2>8. Raw(h, at) = IF at + format.header > Len(d) + 1 THEN <<>>
                     ELSE IF l > format.limit \/ n > Len(d) + 1 THEN <<>>
                     ELSE <<[header |-> SubSeq(d, at, (at + format.header) - 1),
                             payload |-> SubSeq(d, at + format.header, at + format.header + (l - 1))]>> \o h[n]
    <3> DEFINE k == Declared(format, SubSeq(d, at, (at + format.header) - 1))
               Shape(x) == IF at + format.header > Len(d) + 1 THEN <<>>
                           ELSE IF x > format.limit \/ at + format.header + x > Len(d) + 1 THEN <<>>
                           ELSE <<[header |-> SubSeq(d, at, (at + format.header) - 1),
                                   payload |-> SubSeq(d, at + format.header, at + format.header + (x - 1))]>>
                                \o h[at + format.header + x]
    <3>1. Raw(h, at) = Shape(k) OBVIOUS
    <3>2. Shape(k) = Shape(l)
      <4> HIDE DEF k, Shape
      <4> QED BY <2>1 DEF k
    <3> HIDE DEF Raw, k
    <3> QED BY <3>1, <3>2
  <2> HIDE DEF n, Raw
  <2>9. CASE ~ Headed(format, d, at) BY <2>4, <2>6, <2>8, <2>9
  <2>10. CASE Headed(format, d, at) /\ ~ W(at) BY <2>4, <2>7, <2>8, <2>10
  <2>11. CASE W(at)
    <3>1. at + format.header + (l - 1) = n - 1 BY <1>0, <2>5, <2>6, <2>11 DEF n
    <3> QED BY <2>2, <2>3, <2>4, <2>6, <2>7, <2>8, <2>11, <3>1
  <2> QED BY <2>9, <2>10, <2>11
<1> HIDE DEF W, N, R, Raw
<1>3. PICK g \in [D -> V] : \A at \in D : g[at] = Value(g, at)
  <2>1. \A at \in D : last[at] \in V BY EmptySeq
  <2>2. ASSUME NEW at \in D, NEW v \in V
        PROVE  LET r == IF W(at) THEN R(at) ELSE [header |-> <<>>, payload |-> <<>>]
               IN <<r>> \o v \in V
    <3> DEFINE r == IF W(at) THEN R(at) ELSE [header |-> <<>>, payload |-> <<>>]
    <3>1. r \in FrameRecords BY <1>1, EmptySeq DEF FrameRecords
    <3> HIDE DEF r
    <3>2. <<r>> \in V BY <3>1
    <3>3. <<r>> \o v \in V BY <3>2, ConcatProperties
    <3> QED BY <3>3 DEF r
  <2> DEFINE r == [at \in D |-> IF W(at) THEN R(at) ELSE [header |-> <<>>, payload |-> <<>>]]
             add == [at \in D |-> [v \in V |-> <<r[at]>> \o v]]
  <2>3. \A at \in D : \A v \in V : add[at][v] = <<r[at]>> \o v /\ add[at][v] \in V BY <2>2
  <2>4. \A at \in D : W(at) => r[at] = R(at) OBVIOUS
  <2>5. Jumping(1, Len(d) + 1, V, next, add, last)
    <3>1. 1 \in Int /\ Len(d) + 1 \in Int /\ 1 <= Len(d) + 1 BY <1>0
    <3> HIDE DEF next, add, last, V
    <3> QED BY <2>1, <2>3, <3>1, JumpRecursion
  <2>6. PICK g \in [D -> V] :
            \A at \in D : g[at] = IF next[at] \in (at + 1) .. Len(d) + 1 THEN add[at][g[next[at]]] ELSE last[at]
    <3> HIDE DEF next, add, last
    <3> QED BY <2>5 DEF Jumping
  <2>7. ASSUME NEW at \in D PROVE g[at] = Value(g, at)
    <3>1. CASE W(at)
      <4>1. next[at] = N(at) /\ N(at) \in (at + 1) .. Len(d) + 1 BY <1>1, <3>1
      <4>2. N(at) \in D BY <1>0, <4>1
      <4>3. g[at] = add[at][g[N(at)]] /\ g[N(at)] \in V
        <5> HIDE DEF add, next, last
        <5> QED BY <2>6, <4>1, <4>2
      <4> HIDE DEF add, r, next, last
      <4> QED BY <2>3, <2>4, <3>1, <4>3
    <3>2. CASE ~ W(at)
      <4>1. next[at] = at /\ at \notin (at + 1) .. Len(d) + 1 BY <1>0, <3>2
      <4>2. g[at] = last[at]
        <5> HIDE DEF add, next, last
        <5> QED BY <2>6, <4>1
      <4> QED BY <3>2, <4>2
    <3> QED BY <3>1, <3>2
  <2> HIDE DEF Value
  <2> QED BY <2>7
<1>4. Obeys(g)
  <2> HIDE DEF Value
  <2> QED BY <1>2, <1>3
<1>5. Obeys(from)
  <2>1. from = CHOOSE h : Obeys(h) OBVIOUS
  <2> HIDE DEF from, Obeys
  <2> QED BY <1>4, <2>1
<1>6. \A at \in D : from[at] = Value(from, at)
  <2> HIDE DEF from, Value
  <2> QED BY <1>2, <1>5
<1>7. \A at \in D : from[at] = g[at]
  <2> DEFINE H == {at \in D : from[at] = g[at]}
  <2>1. ASSUME NEW at \in D, \A p \in (at + 1) .. Len(d) + 1 : p \in H PROVE at \in H
    <3>1. from[at] = Value(from, at)
      <4> HIDE DEF from, Value
      <4> QED BY <1>6
    <3>2. g[at] = Value(g, at) BY <1>3
    <3>3. W(at) => from[N(at)] = g[N(at)]
      <4> HIDE DEF from
      <4> QED BY <1>1, <2>1
    <3> HIDE DEF from
    <3> QED BY <3>1, <3>2, <3>3
  <2>2. \A at \in 1 .. Len(d) + 1 : at \in H
    <3>1. 1 \in Int /\ Len(d) + 1 \in Int /\ 1 <= Len(d) + 1 BY <1>0
    <3> HIDE DEF H
    <3> QED BY <2>1, <3>1, Downwards
  <2> HIDE DEF from
  <2> QED BY <2>2
<1>8. Cut(format, d) = from[1] BY DEF Cut, Raw
<1>9. 1 \in D BY <1>0
<1> HIDE DEF from
<1>10. CutFrom(g, format, d)
  <2>1. \A at \in 1 .. Len(d) + 1 :
          g[at] = IF WholeAt(format, d, at) THEN <<FrameAt(format, d, at)>> \o g[NextAt(format, d, at)]
                  ELSE <<>>
    BY <1>3 DEF W, N, R
  <2>2. g \in [1 .. Len(d) + 1 -> Seq(FrameRecords)] BY <1>3
  <2> QED BY <2>1, <2>2 DEF CutFrom
<1>11. Cut(format, d) = g[1] BY <1>7, <1>8, <1>9
<1> QED BY <1>10, <1>11

(* Frames behind which there is no whole frame are what cutting gives.       *)
LEMMA CutIs ==
    ASSUME NEW format \in Formats, NEW d \in Seq(Bytes), NEW F, NEW at, FramesUpTo(format, d, F, at),
           ~ WholeAt(format, d, at)
    PROVE  Cut(format, d) = F
<1> DEFINE n == Len(F)
<1>1. PICK b \in [0 .. n -> 1 .. Len(d) + 1] :
          /\ b[0] = 1 /\ b[n] = at
          /\ \A i \in 1 .. n :
                /\ WholeAt(format, d, b[i - 1])
                /\ F[i] = FrameAt(format, d, b[i - 1])
                /\ b[i] = NextAt(format, d, b[i - 1])
  BY DEF FramesUpTo
<1>2. F \in Seq(FrameRecords) /\ n \in Nat BY LenProperties DEF FramesUpTo
<1>3. PICK g : CutFrom(g, format, d) /\ Cut(format, d) = g[1] BY CutUnfolds
<1> DEFINE Rest(i) == g[b[i]]
           H == {i \in 0 .. n : Len(Rest(i)) = n - i /\ \A j \in 1 .. n - i : Rest(i)[j] = F[i + j]}
<1>4. \A i \in 0 .. n : b[i] \in 1 .. Len(d) + 1 /\ Rest(i) \in Seq(FrameRecords)
  BY <1>1, <1>3 DEF CutFrom
<1>5. Rest(n) = <<>>
  <2>1. n \in 0 .. n BY <1>2
  <2> HIDE DEF n
  <2> QED BY <1>1, <1>3, <1>4, <2>1 DEF CutFrom
<1>6. ASSUME NEW i \in 1 .. n PROVE Rest(i - 1) = <<F[i]>> \o Rest(i)
  <2>1. i - 1 \in 0 .. n BY <1>2
  <2>2. b[i - 1] \in 1 .. Len(d) + 1 BY <1>4, <2>1
  <2> HIDE DEF n
  <2> QED BY <1>1, <1>3, <2>2 DEF CutFrom
<1> HIDE DEF n, Rest
<1>7. ASSUME NEW o \in 0 .. n, \A p \in (o + 1) .. n : p \in H PROVE o \in H
  <2>1. CASE o = n
    <3>1. Len(Rest(o)) = 0 /\ n - o = 0 BY <1>2, <1>5, <2>1, EmptySeq
    <3>2. \A j \in 1 .. n - o : FALSE BY <3>1
    <3> QED BY <3>1, <3>2
  <2>2. CASE o # n
    <3> DEFINE i == o + 1
               r == Rest(i)
    <3>1. i \in 1 .. n /\ i \in 0 .. n /\ i - 1 = o BY <1>2, <2>2
    <3>2. i \in H
      <4>1. i \in (o + 1) .. n BY <1>2, <2>2
      <4> HIDE DEF H, i
      <4> QED BY <1>7, <4>1
    <3>3. Rest(o) = <<F[i]>> \o r BY <1>6, <3>1
    <3>4. r \in Seq(FrameRecords) /\ F[i] \in FrameRecords
      <4>1. i \in 1 .. Len(F) BY <3>1 DEF n
      <4> QED BY <1>2, <1>4, <3>1, <4>1, ElementOfSeq
    <3>5. Len(r) = n - i /\ \A j \in 1 .. n - i : r[j] = F[i + j] BY <3>2
    <3> HIDE DEF i, r, H
    <3>6. <<F[i]>> \in Seq(FrameRecords) /\ Len(<<F[i]>>) = 1 /\ <<F[i]>>[1] = F[i] BY <3>4
    <3>7. /\ Len(Rest(o)) = 1 + Len(r)
          /\ \A j \in 1 .. 1 + Len(r) : Rest(o)[j] = IF j <= 1 THEN <<F[i]>>[j] ELSE r[j - 1]
      BY <3>3, <3>4, <3>6, ConcatProperties
    <3>8. i = o + 1 BY DEF i
    <3>9. Len(Rest(o)) = n - o BY <1>2, <3>5, <3>7, <3>8
    <3>10. ASSUME NEW j \in 1 .. n - o PROVE Rest(o)[j] = F[o + j]
      <4>1. j \in 1 .. 1 + Len(r) BY <1>2, <3>5, <3>8
      <4>2. CASE j <= 1
        <5>1. j = 1 BY <1>2, <4>2
        <5> QED BY <3>6, <3>7, <3>8, <4>1, <5>1
      <4>3. CASE ~ (j <= 1)
        <5>1. j - 1 \in 1 .. n - i /\ i + (j - 1) = o + j BY <1>2, <3>8, <4>3
        <5> QED BY <3>5, <3>7, <4>1, <4>3, <5>1
      <4> QED BY <4>2, <4>3
    <3> QED BY <3>9, <3>10 DEF H
  <2> QED BY <2>1, <2>2
<1>8. \A o \in 0 .. n : o \in H
  <2>1. 0 \in Int /\ n \in Int /\ 0 <= n BY <1>2
  <2> HIDE DEF H
  <2> QED BY <1>7, <2>1, Downwards
<1>9. 0 \in 0 .. n BY <1>2
<1>10. Len(Rest(0)) = n - 0 /\ \A j \in 1 .. n - 0 : Rest(0)[j] = F[0 + j] BY <1>8, <1>9
<1>11. Rest(0) = g[1] BY <1>1 DEF Rest
<1>12. Rest(0) = F
  <2>1. n - 0 = n /\ \A j \in 1 .. n : 0 + j = j BY <1>2
  <2>2. Len(Rest(0)) = n /\ \A j \in 1 .. n : Rest(0)[j] = F[j] BY <1>10, <2>1
  <2> QED BY <1>2, <1>4, <1>9, <2>2, SameSequence DEF n
<1> QED BY <1>3, <1>11, <1>12

(* The frames up to a place are still there when bytes follow.               *)
LEMMA FramesKept ==
    ASSUME NEW format \in Formats, NEW c \in Seq(Bytes), NEW x \in Seq(Bytes), NEW F, NEW at,
           FramesUpTo(format, c, F, at)
    PROVE  FramesUpTo(format, c \o x, F, at) /\ at \in 1 .. Len(c) + 1
<1> DEFINE n == Len(F)
<1>1. PICK b \in [0 .. n -> 1 .. Len(c) + 1] :
          /\ b[0] = 1 /\ b[n] = at
          /\ \A i \in 1 .. n :
                /\ WholeAt(format, c, b[i - 1])
                /\ F[i] = FrameAt(format, c, b[i - 1])
                /\ b[i] = NextAt(format, c, b[i - 1])
  BY DEF FramesUpTo
<1>2. F \in Seq(FrameRecords) /\ n \in Nat BY LenProperties DEF FramesUpTo
<1> HIDE DEF n
<1>3. ASSUME NEW i \in 1 .. n
      PROVE  /\ WholeAt(format, c \o x, b[i - 1])
             /\ F[i] = FrameAt(format, c \o x, b[i - 1])
             /\ b[i] = NextAt(format, c \o x, b[i - 1])
  <2> DEFINE a == b[i - 1]
  <2>1. i - 1 \in 0 .. n BY <1>2
  <2>2. a \in 1 .. Len(c) + 1 /\ WholeAt(format, c, a) BY <1>1, <2>1
  <2>3. Headed(format, c, a) BY <2>2 DEF WholeAt
  <2>4. F[i] = FrameAt(format, c, a) /\ b[i] = NextAt(format, c, a) BY <1>1
  <2> HIDE DEF a
  <2>5. /\ NextAt(format, c \o x, a) = NextAt(format, c, a)
        /\ WholeAt(format, c \o x, a) /\ FrameAt(format, c \o x, a) = FrameAt(format, c, a)
    BY <2>2, <2>3, PlaceKept
  <2> QED BY <2>4, <2>5 DEF a
<1>4. b \in [0 .. n -> 1 .. Len(c \o x) + 1]
  <2>1. 1 .. Len(c) + 1 \subseteq 1 .. Len(c \o x) + 1 BY ConcatProperties, LenProperties
  <2> QED BY <2>1
<1>5. n \in 0 .. n BY <1>2
<1>6. at \in 1 .. Len(c) + 1 BY <1>1, <1>5
<1> QED BY <1>1, <1>2, <1>3, <1>4, <1>6 DEF FramesUpTo, n

(* A whole frame behind the others is one more.                              *)
LEMMA FrameAdded ==
    ASSUME NEW format \in Formats, NEW d \in Seq(Bytes), NEW F, NEW at, FramesUpTo(format, d, F, at),
           WholeAt(format, d, at)
    PROVE  FramesUpTo(format, d, Append(F, FrameAt(format, d, at)), NextAt(format, d, at))
<1> DEFINE n == Len(F)
           r == FrameAt(format, d, at)
           G == Append(F, r)
<1>1. PICK b \in [0 .. n -> 1 .. Len(d) + 1] :
          /\ b[0] = 1 /\ b[n] = at
          /\ \A i \in 1 .. n :
                /\ WholeAt(format, d, b[i - 1])
                /\ F[i] = FrameAt(format, d, b[i - 1])
                /\ b[i] = NextAt(format, d, b[i - 1])
  BY DEF FramesUpTo
<1>2. F \in Seq(FrameRecords) /\ n \in Nat BY LenProperties DEF FramesUpTo
<1>3. n \in 0 .. n BY <1>2
<1>4. at \in 1 .. Len(d) + 1 BY <1>1, <1>3
<1>5. Headed(format, d, at) /\ NextAt(format, d, at) <= Len(d) + 1 BY DEF WholeAt
<1>6. r \in FrameRecords /\ NextAt(format, d, at) \in 1 .. Len(d) + 1
  <2>1. r \in FrameRecords /\ NextAt(format, d, at) \in Nat /\ at < NextAt(format, d, at)
    BY <1>4, <1>5, PlaceIs
  <2> HIDE DEF r
  <2> QED BY <1>4, <1>5, <2>1
<1> HIDE DEF r
<1>7. /\ G \in Seq(FrameRecords) /\ Len(G) = n + 1 /\ G[n + 1] = r
      /\ \A i \in 1 .. n : G[i] = F[i]
  BY <1>2, <1>6, AppendProperties
<1> DEFINE z == [i \in 0 .. n + 1 |-> IF i = n + 1 THEN NextAt(format, d, at) ELSE b[i]]
<1> HIDE DEF n, G
<1>8. z[n + 1] = NextAt(format, d, at) /\ \A i \in 0 .. n : z[i] = b[i] BY <1>2
<1>9. z \in [0 .. n + 1 -> 1 .. Len(d) + 1]
  <2>1. ASSUME NEW i \in 0 .. n + 1 PROVE (IF i = n + 1 THEN NextAt(format, d, at) ELSE b[i]) \in 1 .. Len(d) + 1
    <3>1. i # n + 1 => i \in 0 .. n BY <1>2
    <3> QED BY <1>1, <1>6, <3>1
  <2> QED BY <2>1
<1> HIDE DEF z
<1>10. ASSUME NEW i \in 1 .. n + 1
       PROVE  /\ WholeAt(format, d, z[i - 1])
              /\ G[i] = FrameAt(format, d, z[i - 1])
              /\ z[i] = NextAt(format, d, z[i - 1])
  <2>1. CASE i = n + 1
    <3>1. i - 1 = n BY <1>2, <2>1
    <3>2. z[i - 1] = at BY <1>1, <1>3, <1>8, <3>1
    <3> QED BY <1>7, <1>8, <2>1, <3>2 DEF r
  <2>2. CASE i # n + 1
    <3>1. i \in 1 .. n /\ i \in 0 .. n /\ i - 1 \in 0 .. n BY <1>2, <2>2
    <3> QED BY <1>1, <1>7, <1>8, <3>1
  <2> QED BY <2>1, <2>2
<1>11. z[0] = 1
  <2>1. 0 \in 0 .. n BY <1>2
  <2> QED BY <1>1, <1>8, <2>1
<1> QED BY <1>7, <1>8, <1>9, <1>10, <1>11 DEF FramesUpTo, r, G

-----------------------------------------------------------------------------
(* A framer that has read some bytes, in which there were some frames.       *)
Reasons == Statuses \cup {NoReason}

Framers == [prefix : Seq(Bytes), header : Seq(Bytes), payload : Seq(Bytes), reason : Reasons]

Passes == [framer : Framers, frames : Seq(FrameRecords), left : Seq(Bytes)]

(* It has the beginning of a header.                                         *)
Awaiting(format, c, F, f) ==
    /\ f.header = <<>> /\ f.payload = <<>> /\ f.reason = NoReason
    /\ \E at \in 1 .. Len(c) + 1 :
          /\ FramesUpTo(format, c, F, at)
          /\ f.prefix = SubSeq(c, at, Len(c)) /\ Len(f.prefix) < format.header

(* It has a header, and of the payload no more than belongs to it.           *)
Inside(format, c, F, f) ==
    /\ f.prefix = <<>> /\ f.reason = NoReason
    /\ \E at \in 1 .. Len(c) + 1 :
          /\ FramesUpTo(format, c, F, at) /\ Headed(format, c, at)
          /\ f.header = HeaderAt(format, c, at) /\ LengthAt(format, c, at) <= format.limit
          /\ f.payload = SubSeq(c, at + format.header, Len(c))
          /\ Len(f.payload) <= LengthAt(format, c, at)

Incomplete(format, f) == Len(f.payload) < Declared(format, f.header)

Reading(format, c, F, f) ==
    Awaiting(format, c, F, f) \/ (Inside(format, c, F, f) /\ Incomplete(format, f))

(* The frame behind the others is longer than the limit.                     *)
TooLong(format, c, F) ==
    \E at \in 1 .. Len(c) + 1 :
        FramesUpTo(format, c, F, at) /\ Headed(format, c, at) /\ LengthAt(format, c, at) > format.limit

(* In each case the frames are those that cutting gives.                     *)
LEMMA ReadingIsCut ==
    ASSUME NEW format \in Formats, NEW c \in Seq(Bytes), NEW F, NEW f \in Framers,
           Reading(format, c, F, f) \/ TooLong(format, c, F)
    PROVE  F = Cut(format, c)
<1>0. Len(c) \in Nat /\ format.header \in Nat /\ format.limit \in Nat BY LenProperties DEF Formats
<1>1. ASSUME NEW at \in 1 .. Len(c) + 1, FramesUpTo(format, c, F, at), ~ WholeAt(format, c, at)
      PROVE  F = Cut(format, c)
  BY <1>1, CutIs
<1>2. CASE Awaiting(format, c, F, f)
  <2>1. PICK at \in 1 .. Len(c) + 1 :
            FramesUpTo(format, c, F, at) /\ f.prefix = SubSeq(c, at, Len(c)) /\ Len(f.prefix) < format.header
    BY <1>2 DEF Awaiting
  <2>2. Len(SubSeq(c, at, Len(c))) = Len(c) - at + 1
    <3>1. Len(c) \in at - 1 .. Len(c) BY <1>0
    <3> QED BY <3>1, SliceIs
  <2>3. ~ Headed(format, c, at) BY <1>0, <2>1, <2>2 DEF Headed
  <2> QED BY <1>1, <2>1, <2>3 DEF WholeAt
<1>3. CASE Inside(format, c, F, f) /\ Incomplete(format, f)
  <2>1. PICK at \in 1 .. Len(c) + 1 :
          /\ FramesUpTo(format, c, F, at) /\ Headed(format, c, at)
          /\ f.header = HeaderAt(format, c, at) /\ LengthAt(format, c, at) <= format.limit
          /\ f.payload = SubSeq(c, at + format.header, Len(c))
    BY <1>3 DEF Inside
  <2> DEFINE a == at + format.header
  <2>2. a \in 1 .. Len(c) + 1 /\ Len(c) \in a - 1 .. Len(c) BY <1>0, <2>1 DEF Headed
  <2>3. Len(SubSeq(c, a, Len(c))) = Len(c) - a + 1
    <3> HIDE DEF a
    <3> QED BY <2>2, SliceIs
  <2>4. Len(c) - a + 1 < LengthAt(format, c, at) BY <1>3, <2>1, <2>3 DEF Incomplete, LengthAt
  <2>5. LengthAt(format, c, at) \in Nat /\ NextAt(format, c, at) = a + LengthAt(format, c, at)
    BY <2>1, PlaceIs DEF NextAt
  <2> HIDE DEF a
  <2>6. ~ (NextAt(format, c, at) <= Len(c) + 1) BY <1>0, <2>2, <2>4, <2>5
  <2> QED BY <1>1, <2>1, <2>6 DEF WholeAt
<1>4. CASE TooLong(format, c, F)
  <2>1. PICK at \in 1 .. Len(c) + 1 :
            FramesUpTo(format, c, F, at) /\ Headed(format, c, at) /\ LengthAt(format, c, at) > format.limit
    BY <1>4 DEF TooLong
  <2>2. LengthAt(format, c, at) \in Nat BY <2>1, PlaceIs
  <2>3. ~ (LengthAt(format, c, at) <= format.limit) BY <1>0, <2>1, <2>2
  <2> QED BY <1>1, <2>1, <2>3 DEF WholeAt
<1> QED BY <1>2, <1>3, <1>4 DEF Reading

(* A frame that is too long stays so when bytes follow.                      *)
LEMMA TooLongKept ==
    ASSUME NEW format \in Formats, NEW c \in Seq(Bytes), NEW x \in Seq(Bytes), NEW F, TooLong(format, c, F)
    PROVE  TooLong(format, c \o x, F)
<1>1. PICK at \in 1 .. Len(c) + 1 :
          FramesUpTo(format, c, F, at) /\ Headed(format, c, at) /\ LengthAt(format, c, at) > format.limit
  BY DEF TooLong
<1>2. FramesUpTo(format, c \o x, F, at) BY <1>1, FramesKept
<1>3. /\ at \in 1 .. Len(c \o x) + 1 /\ Headed(format, c \o x, at)
      /\ LengthAt(format, c \o x, at) = LengthAt(format, c, at)
  BY <1>1, PlaceKept
<1> QED BY <1>1, <1>2, <1>3 DEF TooLong

(* A header may be completed by the bytes that are left.                     *)
HeaderTaken(format, c, F, pass, r) ==
    /\ r \in Passes /\ r.frames = pass.frames
    /\ \E x \in Seq(Bytes) :
          /\ Len(x) > 0 /\ pass.left = x \o r.left
          /\ \/ Awaiting(format, c \o x, F, r.framer)
             \/ Inside(format, c \o x, F, r.framer) /\ r.framer.header # <<>>
             \/ /\ TooLong(format, c \o x, F) /\ r.framer.reason = "LIMIT_EXCEEDED"
                /\ r.framer.header # <<>>

(* HeaderRead takes bytes of a header, or the whole of one.                  *)
LEMMA HeaderReadIs ==
    ASSUME NEW format \in Formats, NEW c \in Seq(Bytes), NEW F, NEW pass \in Passes, pass.left # <<>>,
           Awaiting(format, c, F, pass.framer)
    PROVE  HeaderTaken(format, c, F, pass, HeaderRead(format, pass))
<1> DEFINE f == pass.framer
           left == pass.left
           count == Least(format.header - Len(f.prefix), Len(left))
           x == SubSeq(left, 1, count)
           rest == Dropped(left, count)
           prefix == f.prefix \o x
           d == c \o x
           whole == Len(prefix) = format.header
           long == Declared(format, prefix) > format.limit
           r == HeaderRead(format, pass)
<1>0. /\ Len(c) \in Nat /\ format.header \in Nat /\ format.limit \in Nat /\ 1 <= format.header
      /\ f \in Framers /\ left \in Seq(Bytes) /\ pass.frames \in Seq(FrameRecords)
      /\ f.prefix \in Seq(Bytes) /\ Len(f.prefix) \in Nat /\ Len(left) \in Nat /\ Len(left) > 0
  BY LenProperties, EmptySeq DEF Formats, Passes, Framers
<1>1. PICK at \in 1 .. Len(c) + 1 :
          /\ FramesUpTo(format, c, F, at)
          /\ f.prefix = SubSeq(c, at, Len(c)) /\ Len(f.prefix) < format.header
  BY DEF Awaiting
<1>2. f.header = <<>> /\ f.payload = <<>> /\ f.reason = NoReason BY DEF Awaiting
<1>3. count \in 1 .. Len(left) /\ count <= format.header - Len(f.prefix)
  BY <1>0, <1>1 DEF Least
<1>4. r = [pass EXCEPT !.left = rest, !.framer.prefix = IF whole THEN <<>> ELSE prefix,
                       !.framer.header = IF whole THEN prefix ELSE f.header,
                       !.framer.reason = IF whole /\ long THEN "LIMIT_EXCEEDED" ELSE f.reason]
  BY DEF HeaderRead
<1> HIDE DEF count
<1>5. x \in Seq(Bytes) /\ Len(x) = count /\ rest \in Seq(Bytes) /\ left = x \o rest
  <2>1. left \in Seq(Bytes) /\ count \in 0 .. Len(left) BY <1>0, <1>3
  <2> HIDE DEF left
  <2> QED BY <2>1, SplitAt
<1>6. prefix \in Seq(Bytes) /\ Len(prefix) = Len(f.prefix) + count /\ Len(prefix) <= format.header
      /\ Len(prefix) > 0
  <2>1. prefix \in Seq(Bytes) /\ Len(prefix) = Len(f.prefix) + count BY <1>0, <1>5, ConcatProperties
  <2>2. count \in Nat /\ 0 < count BY <1>0, <1>3
  <2> HIDE DEF prefix, f, left
  <2> QED BY <1>0, <1>3, <2>1, <2>2
<1>7. d \in Seq(Bytes) /\ Len(d) = Len(c) + count BY <1>0, <1>5, ConcatProperties
<1>8. prefix = SubSeq(d, at, Len(d))
  <2>1. at - 1 \in 0 .. Len(c) /\ (at - 1) + 1 = at BY <1>0
  <2>2. SubSeq(c \o x, (at - 1) + 1, Len(c \o x)) = SubSeq(c, (at - 1) + 1, Len(c)) \o x
    BY <1>5, <2>1, RestOfConcat
  <2> QED BY <1>1, <2>1, <2>2
<1>9. Len(prefix) = Len(d) - at + 1
  <2>1. at \in 1 .. Len(d) + 1 /\ Len(d) \in at - 1 .. Len(d) BY <1>0, <1>3, <1>7
  <2> HIDE DEF d, prefix
  <2> QED BY <1>7, <1>8, <2>1, SliceIs
<1> HIDE DEF f, left, x, rest, prefix, d, whole, long, r
<1>10. /\ r.left = rest /\ r.frames = pass.frames
       /\ r.framer.payload = f.payload
       /\ r.framer.prefix = IF whole THEN <<>> ELSE prefix
       /\ r.framer.header = IF whole THEN prefix ELSE f.header
       /\ r.framer.reason = IF whole /\ long THEN "LIMIT_EXCEEDED" ELSE f.reason
       /\ r = [framer |-> r.framer, frames |-> r.frames, left |-> r.left]
       /\ r.framer = [prefix |-> r.framer.prefix, header |-> r.framer.header,
                      payload |-> r.framer.payload, reason |-> r.framer.reason]
  BY <1>0, <1>4 DEF Passes, Framers, f
<1>11. r \in Passes
  <2>1. <<>> \in Seq(Bytes) /\ "LIMIT_EXCEEDED" \in Reasons /\ NoReason \in Reasons
    BY EmptySeq DEF Reasons, Statuses
  <2>2. /\ r.framer.prefix \in Seq(Bytes) /\ r.framer.header \in Seq(Bytes)
        /\ r.framer.payload \in Seq(Bytes) /\ r.framer.reason \in Reasons
    BY <1>2, <1>6, <1>10, <2>1
  <2>3. r.framer \in Framers BY <1>10, <2>2 DEF Framers
  <2> QED BY <1>0, <1>5, <1>10, <2>3 DEF Passes
<1>12. FramesUpTo(format, d, F, at) /\ at \in 1 .. Len(d) + 1
  <2>1. FramesUpTo(format, d, F, at) BY <1>1, <1>5, FramesKept DEF d
  <2> QED BY <1>0, <1>3, <1>7, <2>1
<1>13. CASE ~ whole
  <2>1. Len(r.framer.prefix) < format.header BY <1>0, <1>3, <1>6, <1>10, <1>13 DEF whole
  <2>2. Awaiting(format, d, F, r.framer) BY <1>2, <1>8, <1>10, <1>12, <1>13, <2>1 DEF Awaiting
  <2>3. Len(x) > 0 /\ left = x \o r.left BY <1>3, <1>5, <1>10
  <2> QED BY <1>5, <1>10, <1>11, <2>2, <2>3 DEF HeaderTaken, d, left, r
<1>14. CASE whole
  <2>1. at + format.header = Len(d) + 1 BY <1>0, <1>3, <1>7, <1>9, <1>14 DEF whole
  <2>2. Headed(format, d, at)
    <3>1. at + format.header <= Len(d) + 1 BY <1>0, <1>3, <1>7, <2>1
    <3> QED BY <3>1 DEF Headed
  <2>3. HeaderAt(format, d, at) = prefix
    <3>1. (at + format.header) - 1 = Len(d) BY <1>0, <1>3, <1>7, <2>1
    <3> QED BY <1>8, <3>1 DEF HeaderAt
  <2>4. r.framer.header = prefix /\ r.framer.header # <<>> /\ r.framer.prefix = <<>>
    BY <1>6, <1>10, <1>14, EmptySeq
  <2>5. LengthAt(format, d, at) = Declared(format, prefix) /\ LengthAt(format, d, at) \in Nat
    BY <1>7, <1>12, <2>2, <2>3, PlaceIs DEF LengthAt
  <2>6. Len(x) > 0 /\ left = x \o r.left BY <1>3, <1>5, <1>10
  <2>7. CASE long
    <3>1. TooLong(format, d, F) BY <1>12, <2>2, <2>5, <2>7 DEF TooLong, long
    <3>2. r.framer.reason = "LIMIT_EXCEEDED" BY <1>10, <1>14, <2>7
    <3> QED BY <1>5, <1>10, <1>11, <2>4, <2>6, <3>1, <3>2 DEF HeaderTaken, d, left, r
  <2>8. CASE ~ long
    <3>1. LengthAt(format, d, at) <= format.limit BY <1>0, <2>5, <2>8 DEF long
    <3>2. <<>> = SubSeq(d, at + format.header, Len(d))
      <4> DEFINE b == at + format.header
      <4>1. b \in 1 .. Len(d) + 1 /\ Len(d) \in b - 1 .. Len(d) /\ Len(d) - b + 1 = 0
        <5>1. Len(d) \in Nat BY <1>7, LenProperties
        <5> QED BY <1>0, <2>1, <5>1
      <4> HIDE DEF b
      <4>2. SubSeq(d, b, Len(d)) \in Seq(Bytes) /\ Len(SubSeq(d, b, Len(d))) = 0 BY <1>7, <4>1, SliceIs
      <4>3. SubSeq(d, b, Len(d)) = <<>> BY <4>2, EmptySeq
      <4> QED BY <4>3 DEF b
    <3>3. Len(r.framer.payload) <= LengthAt(format, d, at) BY <1>2, <1>10, <2>5, EmptySeq
    <3>4. Inside(format, d, F, r.framer)
      BY <1>2, <1>10, <1>12, <1>14, <2>2, <2>3, <2>4, <2>8, <3>1, <3>2, <3>3 DEF Inside
    <3> QED BY <1>5, <1>10, <1>11, <2>4, <2>6, <3>4 DEF HeaderTaken, d, left, r
  <2> QED BY <2>7, <2>8
<1> QED BY <1>13, <1>14

(* A payload may be completed by the bytes that are left.                    *)
PayloadTaken(format, c, F, pass, r) ==
    /\ r \in Passes
    /\ \E x \in Seq(Bytes) :
          /\ pass.left = x \o r.left
          /\ pass.left # <<>> /\ Incomplete(format, pass.framer) => Len(x) > 0
          /\ \/ r.frames = pass.frames /\ Inside(format, c \o x, F, r.framer) /\ Incomplete(format, r.framer)
             \/ \E frame \in FrameRecords :
                   r.frames = Append(pass.frames, frame) /\ Awaiting(format, c \o x, Append(F, frame), r.framer)

(* PayloadRead takes bytes of a payload, or the rest of one.                 *)
LEMMA PayloadReadIs ==
    ASSUME NEW format \in Formats, NEW c \in Seq(Bytes), NEW F, NEW pass \in Passes,
           Inside(format, c, F, pass.framer)
    PROVE  PayloadTaken(format, c, F, pass, PayloadRead(format, pass))
<1> DEFINE f == pass.framer
           left == pass.left
           l == Declared(format, f.header)
           count == Least(l - Len(f.payload), Len(left))
           x == SubSeq(left, 1, count)
           rest == Dropped(left, count)
           payload == f.payload \o x
           d == c \o x
           whole == Len(payload) = l
           frame == [header |-> f.header, payload |-> payload]
           r == PayloadRead(format, pass)
<1>0. /\ Len(c) \in Nat /\ format.header \in Nat /\ format.limit \in Nat /\ 1 <= format.header
      /\ f \in Framers /\ left \in Seq(Bytes) /\ pass.frames \in Seq(FrameRecords)
      /\ f.header \in Seq(Bytes)
      /\ f.payload \in Seq(Bytes) /\ Len(f.payload) \in Nat /\ Len(left) \in Nat
  BY LenProperties DEF Formats, Passes, Framers
<1>1. PICK at \in 1 .. Len(c) + 1 :
          /\ FramesUpTo(format, c, F, at) /\ Headed(format, c, at)
          /\ f.header = HeaderAt(format, c, at) /\ LengthAt(format, c, at) <= format.limit
          /\ f.payload = SubSeq(c, at + format.header, Len(c))
          /\ Len(f.payload) <= LengthAt(format, c, at)
  BY DEF Inside
<1>2. f.prefix = <<>> /\ f.reason = NoReason BY DEF Inside
<1>3. l = LengthAt(format, c, at) /\ l \in Nat /\ Len(f.payload) <= l
  BY <1>1, PlaceIs DEF LengthAt
<1>4. r = [pass EXCEPT !.left = rest, !.framer.header = IF whole THEN <<>> ELSE f.header,
                       !.framer.payload = IF whole THEN <<>> ELSE payload,
                       !.frames = IF whole THEN Append(pass.frames, frame) ELSE pass.frames]
  BY DEF PayloadRead
<1> HIDE DEF l
<1>5. /\ count \in 0 .. Len(left) /\ count <= l - Len(f.payload)
      /\ left # <<>> /\ Len(f.payload) < l => count > 0
  <2>1. left # <<>> => Len(left) > 0 BY <1>0, EmptySeq
  <2> HIDE DEF f, left
  <2> QED BY <1>0, <1>3, <2>1 DEF Least
<1> HIDE DEF count
<1>6. x \in Seq(Bytes) /\ Len(x) = count /\ rest \in Seq(Bytes) /\ left = x \o rest
  <2> HIDE DEF left
  <2> QED BY <1>0, <1>5, SplitAt
<1>7. payload \in Seq(Bytes) /\ Len(payload) = Len(f.payload) + count /\ Len(payload) <= l
  <2>1. payload \in Seq(Bytes) /\ Len(payload) = Len(f.payload) + count BY <1>0, <1>6, ConcatProperties
  <2>2. count \in Nat BY <1>0, <1>5
  <2> HIDE DEF payload, f, left
  <2> QED BY <1>0, <1>3, <1>5, <2>1, <2>2
<1>8. d \in Seq(Bytes) /\ Len(d) = Len(c) + count BY <1>0, <1>6, ConcatProperties
<1> DEFINE a == at + format.header
<1>9. a \in 1 .. Len(c) + 1 /\ a \in Nat BY <1>0, <1>1 DEF Headed
<1>10. payload = SubSeq(d, a, Len(d))
  <2>1. a - 1 \in 0 .. Len(c) /\ (a - 1) + 1 = a BY <1>0, <1>9
  <2> HIDE DEF a
  <2>2. SubSeq(c \o x, (a - 1) + 1, Len(c \o x)) = SubSeq(c, (a - 1) + 1, Len(c)) \o x
    BY <1>6, <2>1, RestOfConcat
  <2>3. f.payload = SubSeq(c, a, Len(c)) BY <1>1 DEF a
  <2> QED BY <2>1, <2>2, <2>3
<1>11. Len(payload) = Len(d) - a + 1
  <2>0. count \in Nat BY <1>0, <1>5
  <2>1. a \in 1 .. Len(d) + 1 /\ Len(d) \in a - 1 .. Len(d) BY <1>0, <1>8, <1>9, <2>0
  <2> HIDE DEF d, payload, a
  <2> QED BY <1>8, <1>10, <2>1, SliceIs
<1> HIDE DEF f, left, x, rest, payload, d, whole, r, frame
<1>12. /\ FramesUpTo(format, d, F, at) /\ at \in 1 .. Len(d) + 1 /\ Headed(format, d, at)
       /\ HeaderAt(format, d, at) = f.header /\ LengthAt(format, d, at) = l
       /\ NextAt(format, d, at) = a + l
  <2>1. FramesUpTo(format, d, F, at) BY <1>1, <1>6, FramesKept DEF d
  <2>2. /\ at \in 1 .. Len(d) + 1 /\ Headed(format, d, at)
        /\ HeaderAt(format, d, at) = HeaderAt(format, c, at)
        /\ LengthAt(format, d, at) = LengthAt(format, c, at)
    BY <1>1, <1>6, PlaceKept DEF d
  <2> QED BY <1>1, <1>3, <2>1, <2>2 DEF NextAt
<1>13. /\ r.left = rest
       /\ r.frames = IF whole THEN Append(pass.frames, frame) ELSE pass.frames
       /\ r.framer.payload = IF whole THEN <<>> ELSE payload
       /\ r.framer.prefix = f.prefix
       /\ r.framer.header = IF whole THEN <<>> ELSE f.header
       /\ r.framer.reason = f.reason
       /\ r = [framer |-> r.framer, frames |-> r.frames, left |-> r.left]
       /\ r.framer = [prefix |-> r.framer.prefix, header |-> r.framer.header,
                      payload |-> r.framer.payload, reason |-> r.framer.reason]
  BY <1>0, <1>4 DEF Passes, Framers, f
<1>14. frame \in FrameRecords BY <1>0, <1>7 DEF FrameRecords, frame
<1>15. r \in Passes
  <2>1. <<>> \in Seq(Bytes) /\ NoReason \in Reasons BY EmptySeq DEF Reasons
  <2>2. /\ r.framer.prefix \in Seq(Bytes) /\ r.framer.header \in Seq(Bytes)
        /\ r.framer.payload \in Seq(Bytes) /\ r.framer.reason \in Reasons
    BY <1>0, <1>2, <1>7, <1>13, <2>1
  <2>3. r.framer \in Framers BY <1>13, <2>2 DEF Framers
  <2>4. r.frames \in Seq(FrameRecords) BY <1>0, <1>13, <1>14, AppendProperties
  <2> QED BY <1>6, <1>13, <2>3, <2>4 DEF Passes
<1>16. left # <<>> /\ Incomplete(format, f) => Len(x) > 0
  <2>1. Incomplete(format, f) <=> Len(f.payload) < l BY DEF Incomplete, l
  <2> QED BY <1>5, <1>6, <2>1
<1>17. left = x \o r.left BY <1>6, <1>13
<1>18. CASE ~ whole
  <2>1. Len(r.framer.payload) <= LengthAt(format, d, at) BY <1>7, <1>12, <1>13, <1>18
  <2>2. LengthAt(format, d, at) <= format.limit BY <1>1, <1>3, <1>12
  <2>3. Inside(format, d, F, r.framer)
    <3>1. r.framer.payload = SubSeq(d, at + format.header, Len(d)) BY <1>10, <1>13, <1>18 DEF a
    <3>2. r.framer.header = HeaderAt(format, d, at) BY <1>12, <1>13, <1>18
    <3> QED BY <1>2, <1>12, <1>13, <2>1, <2>2, <3>1, <3>2 DEF Inside
  <2>4. Incomplete(format, r.framer)
    <3>1. Len(payload) < l
      <4>1. Len(payload) \in Nat BY <1>7, LenProperties
      <4> QED BY <1>3, <1>7, <1>18, <4>1 DEF whole
    <3>2. r.framer.payload = payload /\ r.framer.header = f.header BY <1>13, <1>18
    <3> QED BY <3>1, <3>2 DEF Incomplete, l
  <2>5. r.frames = pass.frames BY <1>13, <1>18
  <2> QED BY <1>6, <1>15, <1>16, <1>17, <2>3, <2>4, <2>5 DEF PayloadTaken, d, left, f, r
<1>19. CASE whole
  <2>0. count \in Nat /\ Len(d) \in Nat BY <1>0, <1>5, <1>8
  <2>1. a + l = Len(d) + 1 BY <1>3, <1>9, <1>11, <1>19, <2>0 DEF whole
  <2>2. WholeAt(format, d, at)
    <3>1. NextAt(format, d, at) <= Len(d) + 1 BY <1>12, <2>0, <2>1
    <3> QED BY <1>1, <1>3, <1>12, <3>1 DEF WholeAt
  <2>3. FrameAt(format, d, at) = frame
    <3>1. NextAt(format, d, at) - 1 = Len(d) BY <1>12, <2>0, <2>1
    <3> QED BY <1>10, <1>12, <3>1 DEF FrameAt, frame, a
  <2>4. FramesUpTo(format, d, Append(F, frame), Len(d) + 1)
    <3>1. NextAt(format, d, at) = Len(d) + 1 BY <1>12, <2>1
    <3>2. FramesUpTo(format, d, Append(F, FrameAt(format, d, at)), NextAt(format, d, at))
      BY <1>8, <1>12, <2>2, FrameAdded
    <3> QED BY <2>3, <3>1, <3>2
  <2>5. SubSeq(d, Len(d) + 1, Len(d)) = <<>>
    <3> DEFINE b == Len(d) + 1
    <3>1. b \in 1 .. Len(d) + 1 /\ Len(d) \in b - 1 .. Len(d) /\ Len(d) - b + 1 = 0 BY <2>0
    <3> HIDE DEF b
    <3>2. SubSeq(d, b, Len(d)) \in Seq(Bytes) /\ Len(SubSeq(d, b, Len(d))) = 0 BY <1>8, <3>1, SliceIs
    <3>3. SubSeq(d, b, Len(d)) = <<>> BY <3>2, EmptySeq
    <3> QED BY <3>3 DEF b
  <2>6. Awaiting(format, d, Append(F, frame), r.framer)
    <3>1. Len(<<>>) < format.header BY <1>0
    <3>2. /\ r.framer.header = <<>> /\ r.framer.payload = <<>> /\ r.framer.prefix = <<>>
          /\ r.framer.reason = NoReason
      BY <1>2, <1>13, <1>19
    <3>3. Len(d) + 1 \in 1 .. Len(d) + 1 BY <2>0
    <3> QED BY <2>4, <2>5, <3>1, <3>2, <3>3 DEF Awaiting
  <2>7. r.frames = Append(pass.frames, frame) BY <1>13, <1>19
  <2> QED BY <1>6, <1>14, <1>15, <1>16, <1>17, <2>6, <2>7 DEF PayloadTaken, d, left, f, r
<1> QED BY <1>18, <1>19

-----------------------------------------------------------------------------
(* A pass over bytes, of which it has read all but those that are left, with *)
(* the frames of earlier passes.                                             *)
Stage(format, d, F, pass) ==
    /\ pass \in Passes
    /\ \E c \in Seq(Bytes) :
          /\ d = c \o pass.left
          /\ \/ Reading(format, c, F \o pass.frames, pass.framer)
             \/ TooLong(format, c, F \o pass.frames) /\ pass.framer.reason = "LIMIT_EXCEEDED"

(* Concatenation of typed sequences.                                         *)
LEMMA Concatenated ==
    ASSUME NEW S, NEW p \in Seq(S), NEW q \in Seq(S), NEW r \in Seq(S)
    PROVE  (p \o q) \o r = p \o (q \o r) /\ p \o q \in Seq(S) /\ Len(p \o q) = Len(p) + Len(q)
BY ConcatAssociative, ConcatProperties

LEMMA AppendedTo ==
    ASSUME NEW p \in Seq(FrameRecords), NEW q \in Seq(FrameRecords), NEW e \in FrameRecords
    PROVE  Append(p \o q, e) = p \o Append(q, e)
<1>1. Append(p \o q, e) = (p \o q) \o <<e>> /\ Append(q, e) = q \o <<e>>
  BY ConcatProperties, AppendIsConcat
<1>2. (p \o q) \o <<e>> = p \o (q \o <<e>>) BY ConcatAssociative
<1> QED BY <1>1, <1>2

(* A turn after which the payload was read.                                  *)
LEMMA PayloadStage ==
    ASSUME NEW format \in Formats, NEW F \in Seq(FrameRecords), NEW c \in Seq(Bytes), NEW pass \in Passes,
           Inside(format, c, F \o pass.frames, pass.framer)
    PROVE  LET r == PayloadRead(format, pass)
           IN /\ Stage(format, c \o pass.left, F, r)
              /\ Len(r.left) <= Len(pass.left)
              /\ pass.left # <<>> /\ Incomplete(format, pass.framer) => Len(r.left) < Len(pass.left)
<1> DEFINE r == PayloadRead(format, pass)
<1>1. PayloadTaken(format, c, F \o pass.frames, pass, r) BY PayloadReadIs
<1> HIDE DEF r
<1>2. r \in Passes /\ r.left \in Seq(Bytes) /\ pass.left \in Seq(Bytes) /\ pass.frames \in Seq(FrameRecords)
  BY <1>1 DEF PayloadTaken, Passes
<1>3. PICK x \in Seq(Bytes) :
          /\ pass.left = x \o r.left
          /\ pass.left # <<>> /\ Incomplete(format, pass.framer) => Len(x) > 0
          /\ \/ /\ r.frames = pass.frames /\ Inside(format, c \o x, F \o pass.frames, r.framer)
                /\ Incomplete(format, r.framer)
             \/ \E frame \in FrameRecords :
                   /\ r.frames = Append(pass.frames, frame)
                   /\ Awaiting(format, c \o x, Append(F \o pass.frames, frame), r.framer)
  BY <1>1 DEF PayloadTaken
<1>4. /\ c \o pass.left = (c \o x) \o r.left /\ c \o x \in Seq(Bytes)
      /\ Len(pass.left) = Len(x) + Len(r.left)
  <2> DEFINE z == r.left
  <2>1. z \in Seq(Bytes) BY <1>2
  <2> HIDE DEF z
  <2>2. /\ (c \o x) \o z = c \o (x \o z) /\ Len(x \o z) = Len(x) + Len(z)
    BY <2>1, Concatenated
  <2>3. c \o x \in Seq(Bytes) BY Concatenated
  <2> QED BY <1>3, <2>2, <2>3 DEF z
<1>5. Reading(format, c \o x, F \o r.frames, r.framer)
  <2>1. ASSUME NEW frame \in FrameRecords, r.frames = Append(pass.frames, frame)
        PROVE  Append(F \o pass.frames, frame) = F \o r.frames
    <3> DEFINE q == pass.frames
    <3>1. q \in Seq(FrameRecords) BY <1>2
    <3> HIDE DEF q
    <3>2. Append(F \o q, frame) = F \o Append(q, frame) BY <3>1, AppendedTo
    <3> QED BY <2>1, <3>2 DEF q
  <2>2. CASE r.frames = pass.frames /\ Inside(format, c \o x, F \o pass.frames, r.framer)
             /\ Incomplete(format, r.framer)
    BY <2>2 DEF Reading
  <2>3. ASSUME NEW frame \in FrameRecords, r.frames = Append(pass.frames, frame),
               Awaiting(format, c \o x, Append(F \o pass.frames, frame), r.framer)
        PROVE  Awaiting(format, c \o x, F \o r.frames, r.framer)
    BY <2>1, <2>3
  <2>4. CASE \E frame \in FrameRecords :
                 /\ r.frames = Append(pass.frames, frame)
                 /\ Awaiting(format, c \o x, Append(F \o pass.frames, frame), r.framer)
    <3>1. Awaiting(format, c \o x, F \o r.frames, r.framer) BY <2>3, <2>4
    <3> QED BY <3>1 DEF Reading
  <2> QED BY <1>3, <2>2, <2>4
<1>6. Stage(format, c \o pass.left, F, r) BY <1>2, <1>4, <1>5 DEF Stage
<1>7. Len(x) \in Nat /\ Len(r.left) \in Nat BY <1>2, LenProperties
<1>8. /\ Len(r.left) <= Len(pass.left)
      /\ pass.left # <<>> /\ Incomplete(format, pass.framer) => Len(r.left) < Len(pass.left)
  BY <1>3, <1>4, <1>7
<1> QED BY <1>6, <1>8 DEF r

(* Every turn reads at least a byte.                                         *)
LEMMA TurnIs ==
    ASSUME NEW format \in Formats, NEW F \in Seq(FrameRecords), NEW d, NEW pass,
           Stage(format, d, F, pass), pass.left # <<>>, pass.framer.reason = NoReason
    PROVE  Stage(format, d, F, Turn(format, pass)) /\ Len(Turn(format, pass).left) < Len(pass.left)
<1> DEFINE G == F \o pass.frames
<1>1. pass \in Passes /\ pass.left \in Seq(Bytes) /\ pass.frames \in Seq(FrameRecords)
  BY DEF Stage, Passes
<1>2. PICK c \in Seq(Bytes) : d = c \o pass.left /\ Reading(format, c, G, pass.framer)
  <2>1. NoReason # "LIMIT_EXCEEDED" BY DEF NoReason
  <2> QED BY <2>1 DEF Stage
<1>3. Awaiting(format, c, G, pass.framer) => pass.framer.header = <<>> BY DEF Awaiting
<1>4. ASSUME NEW b, NEW f, Inside(format, b, G, f), b \in Seq(Bytes) PROVE f.header # <<>>
  <2>1. PICK at \in 1 .. Len(b) + 1 : Headed(format, b, at) /\ f.header = HeaderAt(format, b, at)
    BY <1>4 DEF Inside
  <2>2. Len(f.header) = format.header BY <1>4, <2>1, PlaceIs
  <2>3. format.header # 0 BY DEF Formats
  <2> QED BY <2>2, <2>3, EmptySeq
<1>5. CASE pass.framer.header # <<>>
  <2>1. Inside(format, c, G, pass.framer) /\ Incomplete(format, pass.framer) BY <1>2, <1>3, <1>5 DEF Reading
  <2>2. Turn(format, pass) = PayloadRead(format, pass) BY <1>5 DEF Turn
  <2> QED BY <1>1, <1>2, <2>1, <2>2, PayloadStage
<1>6. CASE pass.framer.header = <<>>
  <2> DEFINE r == HeaderRead(format, pass)
  <2>1. Awaiting(format, c, G, pass.framer) BY <1>2, <1>4, <1>6 DEF Reading
  <2>2. HeaderTaken(format, c, G, pass, r) BY <1>1, <2>1, HeaderReadIs
  <2>3. Turn(format, pass) = IF r.framer.header = <<>> \/ r.framer.reason # NoReason THEN r
                             ELSE PayloadRead(format, r)
    BY <1>6 DEF Turn
  <2> HIDE DEF r, G
  <2>4. PICK x \in Seq(Bytes) :
          /\ Len(x) > 0 /\ pass.left = x \o r.left
          /\ \/ Awaiting(format, c \o x, G, r.framer)
             \/ Inside(format, c \o x, G, r.framer) /\ r.framer.header # <<>>
             \/ /\ TooLong(format, c \o x, G) /\ r.framer.reason = "LIMIT_EXCEEDED"
                /\ r.framer.header # <<>>
    BY <2>2 DEF HeaderTaken
  <2>5. r \in Passes /\ r.left \in Seq(Bytes) /\ r.frames = pass.frames BY <2>2 DEF HeaderTaken, Passes
  <2>6. /\ d = (c \o x) \o r.left /\ c \o x \in Seq(Bytes)
        /\ Len(pass.left) = Len(x) + Len(r.left)
    <3> DEFINE z == r.left
    <3>1. z \in Seq(Bytes) BY <2>5
    <3> HIDE DEF z
    <3>2. /\ (c \o x) \o z = c \o (x \o z) /\ Len(x \o z) = Len(x) + Len(z)
      BY <3>1, Concatenated
    <3>3. c \o x \in Seq(Bytes) BY Concatenated
    <3> QED BY <1>2, <2>4, <3>2, <3>3 DEF z
  <2>7. Len(r.left) < Len(pass.left) /\ Len(r.left) \in Nat /\ Len(pass.left) \in Nat
    <3>1. Len(x) \in Nat /\ Len(r.left) \in Nat BY <2>5, LenProperties
    <3> QED BY <2>4, <2>6, <3>1
  <2>8. CASE Inside(format, c \o x, G, r.framer) /\ r.framer.header # <<>>
    <3>1. r.framer.reason = NoReason BY <2>8 DEF Inside
    <3>2. Turn(format, pass) = PayloadRead(format, r) BY <2>3, <2>8, <3>1
    <3>3. Inside(format, c \o x, F \o r.frames, r.framer) BY <2>5, <2>8 DEF G
    <3> DEFINE z == PayloadRead(format, r)
    <3>4. Stage(format, (c \o x) \o r.left, F, z) /\ Len(z.left) <= Len(r.left)
      BY <2>5, <2>6, <3>3, PayloadStage
    <3>5. Len(z.left) \in Nat
      <4>1. z.left \in Seq(Bytes) BY <3>4 DEF Stage, Passes
      <4> HIDE DEF z
      <4> QED BY <4>1, LenProperties
    <3> HIDE DEF z
    <3>6. Len(z.left) < Len(pass.left) BY <2>7, <3>4, <3>5
    <3> QED BY <2>6, <3>2, <3>4, <3>6 DEF z
  <2>9. CASE Awaiting(format, c \o x, G, r.framer)
    <3>1. Turn(format, pass) = r BY <2>3, <2>9 DEF Awaiting
    <3>2. Reading(format, c \o x, F \o r.frames, r.framer)
      <4>1. F \o r.frames = G BY <2>5 DEF G
      <4>2. Awaiting(format, c \o x, F \o r.frames, r.framer) BY <2>9, <4>1
      <4> QED BY <4>2 DEF Reading
    <3>3. Stage(format, d, F, r) BY <2>5, <2>6, <3>2 DEF Stage
    <3> QED BY <2>7, <3>1, <3>3
  <2>10. CASE TooLong(format, c \o x, G) /\ r.framer.reason = "LIMIT_EXCEEDED"
    <3>1. Turn(format, pass) = r BY <2>3, <2>10 DEF NoReason
    <3>2. TooLong(format, c \o x, F \o r.frames) BY <2>5, <2>10 DEF G
    <3>3. Stage(format, d, F, r) BY <2>5, <2>6, <2>10, <3>2 DEF Stage
    <3> QED BY <2>7, <3>1, <3>3
  <2> QED BY <2>4, <2>8, <2>9, <2>10
<1> QED BY <1>5, <1>6

(* A pass with nothing to read.                                              *)
LEMMA FramedNothing ==
    ASSUME NEW format, NEW framer
    PROVE  Framed(format, framer, <<>>) = [framer |-> framer, frames |-> <<>>, left |-> <<>>]
<1> DEFINE p == [framer |-> framer, frames |-> <<>>, left |-> <<>>]
           Value(f, n) == IF n = 0 THEN p
                          ELSE LET pass == f[n - 1]
                               IN IF pass.left = <<>> \/ pass.framer.reason # NoReason
                                  THEN pass ELSE Turn(format, pass)
           Follows(f) == f = [n \in 0 .. 0 |-> Value(f, n)]
           turns == CHOOSE f : f = [n \in 0 .. 0 |-> Value(f, n)]
<1>0. Len(<<>>) = 0 /\ \A n : n \in 0 .. 0 <=> n = 0 BY EmptySeq
<1>1. Follows([n \in 0 .. 0 |-> p])
  <2>1. \A n \in 0 .. 0 : n = 0 BY <1>0
  <2> HIDE DEF p
  <2> QED BY <2>1
<1>2. Follows(turns)
  <2>1. turns = CHOOSE f : Follows(f) OBVIOUS
  <2> HIDE DEF turns, Follows
  <2> QED BY <1>1, <2>1
<1>3. Framed(format, framer, <<>>) = turns[0]
  <2>1. Framed(format, framer, <<>>) = (CHOOSE f : f = [n \in 0 .. Len(<<>>) |-> Value(f, n)])[Len(<<>>)]
    BY DEF Framed
  <2> HIDE DEF Value
  <2> QED BY <1>0, <2>1
<1>4. 0 \in 0 .. 0 BY <1>0
<1> HIDE DEF turns
<1> QED BY <1>2, <1>3, <1>4

(* What a pass comes to.                                                     *)
LEMMA FramedIs ==
    ASSUME NEW format \in Formats, NEW F \in Seq(FrameRecords), NEW c \in Seq(Bytes), NEW framer \in Framers,
           NEW data \in Seq(Bytes), Reading(format, c, F, framer), data # <<>>
    PROVE  LET p == Framed(format, framer, data)
           IN /\ Stage(format, c \o data, F, p)
              /\ p.framer.reason = NoReason => p.left = <<>>
              /\ Len(p.left) < Len(data)
<1> DEFINE N == Len(data)
           d == c \o data
           p0 == [framer |-> framer, frames |-> <<>>, left |-> data]
           S == {p \in Passes : Stage(format, d, F, p)}
           Done(p) == p.left = <<>> \/ p.framer.reason # NoReason
           Step(p) == IF Done(p) THEN p ELSE Turn(format, p)
           step == [n \in 1 .. N |-> [p \in S |-> Step(p)]]
           Follows(f) == f = [n \in 0 .. N |-> IF n = 0 THEN p0 ELSE Step(f[n - 1])]
           turns == CHOOSE f : f = [n \in 0 .. N |->
                        IF n = 0 THEN p0
                        ELSE LET pass == f[n - 1]
                             IN IF pass.left = <<>> \/ pass.framer.reason # NoReason
                                THEN pass ELSE Turn(format, pass)]
<1>0. N \in Nat /\ N > 0 BY LenProperties, EmptySeq
<1>1. p0 \in S
  <2>1. p0 \in Passes /\ p0.left = data /\ p0.frames = <<>> /\ p0.framer = framer BY EmptySeq DEF Passes
  <2>2. F \o p0.frames = F BY <2>1, ConcatEmptySeq
  <2> HIDE DEF p0
  <2> QED BY <2>1, <2>2 DEF Stage
<1>2. \A p \in S : Step(p) \in S
  <2> SUFFICES ASSUME NEW p \in S PROVE Step(p) \in S OBVIOUS
  <2>1. ASSUME ~ Done(p) PROVE Stage(format, d, F, Turn(format, p)) BY <2>1, TurnIs
  <2>2. \A q : Stage(format, d, F, q) => q \in Passes BY DEF Stage
  <2> QED BY <2>1, <2>2
<1>3. Framed(format, framer, data) = turns[N] BY DEF Framed
<1>4. turns = CHOOSE f : Follows(f) OBVIOUS
<1> HIDE DEF p0, S, Step, N
<1>5. step \in [1 .. N -> [S -> S]] BY <1>2
<1>6. PICK g \in [0 .. N -> S] : g[0] = p0 /\ \A k \in 1 .. N : g[k] = step[k][g[k - 1]]
  <2> HIDE DEF step
  <2>1. Iterated(N, S, p0, step) BY <1>0, <1>1, <1>5, Iteration
  <2> QED BY <2>1 DEF Iterated
<1>7. Follows(g)
  <2>1. ASSUME NEW n \in 0 .. N, n # 0 PROVE g[n] = Step(g[n - 1])
    <3>1. n \in 1 .. N /\ n - 1 \in 0 .. N BY <1>0, <2>1
    <3> QED BY <1>6, <3>1
  <2> HIDE DEF step
  <2> QED BY <1>6, <2>1
<1>8. Follows(turns)
  <2> HIDE DEF turns, Follows
  <2> QED BY <1>4, <1>7
<1> HIDE DEF turns, step
<1>9. turns[0] = p0 /\ \A n \in 1 .. N : turns[n] = Step(turns[n - 1])
  <2>1. 0 \in 0 .. N /\ \A n \in 1 .. N : n \in 0 .. N /\ n # 0 BY <1>0
  <2> QED BY <1>8, <2>1
<1> DEFINE Left(n) == Len(turns[n].left)
           T == {n \in 0 .. N : /\ turns[n] \in S
                                /\ turns[n].framer.reason = NoReason => Left(n) <= N - n
                                /\ IF n = 0 THEN turns[n].framer.reason = NoReason /\ Left(n) = N ELSE Left(n) < N}
<1>10. 0 \in T
  <2>1. p0.left = data /\ p0.framer.reason = NoReason
    <3>1. framer.reason = NoReason BY DEF Reading, Awaiting, Inside
    <3> QED BY <3>1 DEF p0
  <2>2. Left(0) = N BY <1>9, <2>1 DEF N
  <2> QED BY <1>0, <1>1, <1>9, <2>1, <2>2
<1>11. ASSUME NEW n \in 1 .. N, n - 1 \in T PROVE n \in T
  <2> DEFINE p == turns[n - 1]
             q == turns[n]
  <2>1. /\ p \in S /\ (p.framer.reason = NoReason => Left(n - 1) <= N - (n - 1))
        /\ (n - 1 = 0 => p.framer.reason = NoReason /\ Left(n - 1) = N) /\ (n - 1 # 0 => Left(n - 1) < N)
        /\ n \in 0 .. N
    BY <1>0, <1>11
  <2>2. q = Step(p) BY <1>9
  <2>3. q \in S BY <1>2, <2>1, <2>2
  <2>4. \A s \in S : s.left \in Seq(Bytes) /\ Len(s.left) \in Nat /\ (Len(s.left) = 0 => s.left = <<>>)
                  /\ Stage(format, d, F, s)
    BY LenProperties, EmptySeq DEF S, Passes
  <2> DEFINE lp == Len(p.left)
             lq == Len(q.left)
  <2>5. lp \in Nat /\ lq \in Nat /\ Left(n - 1) = lp /\ Left(n) = lq BY <2>1, <2>3, <2>4
  <2>6. CASE ~ Done(p)
    <3>1. q = Turn(format, p) BY <2>2, <2>6 DEF Step
    <3>2. Len(q.left) < Len(p.left)
      <4>1. Stage(format, d, F, p) BY <2>1, <2>4
      <4> HIDE DEF p, q, d
      <4> QED BY <2>6, <3>1, <4>1, TurnIs
    <3>3. lq <= N - n /\ lq < N /\ n # 0
      <4>1. lp <= N - (n - 1) /\ lp <= N BY <2>1, <2>5, <2>6, <1>0
      <4> HIDE DEF p, q
      <4> QED BY <1>0, <2>5, <3>2, <4>1
    <3> HIDE DEF p, q
    <3> QED BY <2>1, <2>3, <2>5, <3>3 DEF q
  <2>7. CASE Done(p)
    <3>1. q = p BY <2>2, <2>7 DEF Step
    <3>2. lq = lp BY <3>1
    <3>3. n - 1 # 0
      <4>1. ASSUME n - 1 = 0 PROVE FALSE
        <5>1. turns[n - 1].framer.reason = NoReason /\ Left(n - 1) = N BY <2>1, <4>1
        <5>2. p.left # <<>> BY <1>0, <2>5, <5>1, EmptySeq
        <5> QED BY <2>7, <5>1, <5>2
      <4> QED BY <4>1
    <3>4. lq < N BY <2>1, <2>5, <3>2, <3>3
    <3>5. q.framer.reason = NoReason => lq <= N - n
      <4>1. ASSUME q.framer.reason = NoReason PROVE lq = 0
        <5>1. p.left = <<>> BY <2>7, <3>1, <4>1
        <5> QED BY <3>2, <5>1, EmptySeq
      <4>2. 0 <= N - n BY <1>0
      <4> HIDE DEF q, p
      <4> QED BY <4>1, <4>2
    <3> HIDE DEF p, q
    <3> QED BY <2>1, <2>3, <2>5, <3>4, <3>5 DEF q
  <2> QED BY <2>6, <2>7
<1>12. N \in T
  <2>1. \A n \in 0 .. N : n \in T
    <3> HIDE DEF T
    <3> QED BY <1>0, <1>10, <1>11, Upwards
  <2>2. N \in 0 .. N BY <1>0
  <2> QED BY <2>1, <2>2
<1> DEFINE p == turns[N]
<1>13. /\ p \in S /\ Len(p.left) < N
       /\ p.framer.reason = NoReason => Len(p.left) <= N - N
  BY <1>0, <1>12
<1>14. p.left \in Seq(Bytes) /\ Stage(format, d, F, p) BY <1>13 DEF S, Passes
<1> HIDE DEF p
<1>15. p.framer.reason = NoReason => p.left = <<>>
  <2>1. Len(p.left) \in Nat /\ (Len(p.left) = 0 => p.left = <<>>) BY <1>14, LenProperties, EmptySeq
  <2> QED BY <1>0, <1>13, <2>1
<1>16. Framed(format, framer, data) = p BY <1>3 DEF p
<1> QED BY <1>13, <1>14, <1>15, <1>16 DEF N

-----------------------------------------------------------------------------
(* The payloads of handshake records, joined.                                *)
WithPayload(bytes, record) ==
    IF record.header[1] = Handshake THEN bytes \o record.payload ELSE bytes

JoinedFrom(start, R) ==
    FoldLeft(LAMBDA bytes, record : IF record.header[1] = Handshake
                                    THEN bytes \o record.payload ELSE bytes,
             start, R)

Joined(R) == JoinedFrom(<<>>, R)

(* Records framed as messages, one after another.                            *)
RecordsFramed(start, R) == FoldLeft(RecordFramed, start, R)

(* A fold passes through a value for each element.                           *)
LEMMA JoinedFolds ==
    ASSUME NEW C, NEW start \in C, NEW R \in Seq(FrameRecords),
           \A v \in C : \A r \in FrameRecords : WithPayload(v, r) \in C
    PROVE  \E a : /\ Passing(a, C, start, Len(R)) /\ JoinedFrom(start, R) = a[Len(R)]
                  /\ \A k \in 1 .. Len(R) : a[k] = WithPayload(a[k - 1], R[k])
<1> DEFINE n == Len(R)
           S == 1 .. n
           iter[s \in SUBSET S] == IF s = {} THEN start ELSE WithPayload(iter[s \ {Max(s)}], R[Max(s)])
           step == [x \in S |-> [v \in C |-> WithPayload(v, R[x])]]
           Follows(g) == g = [s \in SUBSET S |-> IF s = {} THEN start
                                                ELSE WithPayload(g[s \ {Max(s)}], R[Max(s)])]
<1>1. DOMAIN R = S /\ n \in Nat /\ \A x \in S : R[x] \in FrameRecords BY LenProperties, ElementOfSeq
<1>2. JoinedFrom(start, R) = iter[S] BY <1>1 DEF FoldLeft, MapThenFoldSet, JoinedFrom, WithPayload
<1>3. \A x \in S : \A v \in C : step[x][v] = WithPayload(v, R[x]) /\ step[x][v] \in C BY <1>1
<1>4. PICK g \in [SUBSET S -> C] :
          \A s \in SUBSET S :
              /\ s # {} => Max(s) \in s
              /\ g[s] = IF s = {} THEN start ELSE step[Max(s)][g[s \ {Max(s)}]]
  <2>1. \A x \in 1 .. n : \A v \in C : step[x][v] \in C BY <1>3
  <2>2. Folding(n, C, start, step)
    <3> HIDE DEF n, step
    <3> QED BY <1>1, <2>1, FoldRecursion
  <2> HIDE DEF step
  <2> QED BY <2>2 DEF Folding
<1>5. Follows(g)
  <2>1. ASSUME NEW s \in SUBSET S, s # {}
        PROVE  step[Max(s)][g[s \ {Max(s)}]] = WithPayload(g[s \ {Max(s)}], R[Max(s)])
    <3>1. Max(s) \in S /\ g[s \ {Max(s)}] \in C BY <1>4, <2>1
    <3> HIDE DEF step, S
    <3> QED BY <1>3, <3>1
  <2> HIDE DEF step, S
  <2> QED BY <1>4, <2>1
<1>6. Follows(iter)
  <2>1. iter = CHOOSE g0 : Follows(g0) OBVIOUS
  <2> HIDE DEF iter, Follows
  <2> QED BY <1>5, <2>1
<1> DEFINE a == [k \in 0 .. n |-> iter[1 .. k]]
<1>7. a[0] = start
  <2>1. 1 .. 0 = {} /\ 1 .. 0 \in SUBSET S /\ 0 \in 0 .. n BY <1>1
  <2>2. a[0] = iter[1 .. 0] BY <2>1
  <2> HIDE DEF iter, a
  <2> QED BY <1>6, <2>1, <2>2
<1>8. ASSUME NEW k \in 1 .. n PROVE a[k] = WithPayload(a[k - 1], R[k])
  <2>1. k \in Nat \ {0} /\ k \in 0 .. n /\ k - 1 \in 0 .. n BY <1>1
  <2>2. Max(1 .. k) = k /\ (1 .. k) \ {k} = 1 .. (k - 1) /\ 1 .. k # {} BY <2>1, LastOfInterval
  <2>3. 1 .. k \in SUBSET S BY <1>1
  <2>4. a[k] = iter[1 .. k] /\ a[k - 1] = iter[1 .. k - 1]
    <3> HIDE DEF iter
    <3> QED BY <2>1
  <2> HIDE DEF iter, a, S
  <2> QED BY <1>6, <2>2, <2>3, <2>4
<1>9. \A k \in 0 .. n : a[k] \in C
  <2> DEFINE H == {k \in 0 .. n : a[k] \in C}
  <2> HIDE DEF a
  <2>1. 0 \in H BY <1>1, <1>7
  <2>2. ASSUME NEW k \in 1 .. n, k - 1 \in H PROVE k \in H
    <3>1. a[k - 1] \in C /\ R[k] \in FrameRecords /\ k \in 0 .. n BY <1>1, <2>2
    <3> QED BY <1>8, <3>1
  <2>3. \A k \in 0 .. n : k \in H
    <3> HIDE DEF H
    <3> QED BY <1>1, <2>1, <2>2, Upwards
  <2> QED BY <2>3
<1>10. a[n] = iter[S]
  <2>1. n \in 0 .. n BY <1>1
  <2> HIDE DEF iter
  <2> QED BY <2>1
<1>11. Passing(a, C, start, n)
  <2>1. a = [k \in 0 .. n |-> a[k]] OBVIOUS
  <2> HIDE DEF a
  <2> QED BY <1>7, <1>9, <2>1 DEF Passing
<1> HIDE DEF a, iter
<1> QED BY <1>2, <1>8, <1>10, <1>11

(* The same of the records framed.                                           *)
LEMMA RecordsFolds ==
    ASSUME NEW C, NEW start \in C, NEW R \in Seq(FrameRecords),
           \A v \in C : \A r \in FrameRecords : RecordFramed(v, r) \in C
    PROVE  \E a : /\ Passing(a, C, start, Len(R)) /\ RecordsFramed(start, R) = a[Len(R)]
                  /\ \A k \in 1 .. Len(R) : a[k] = RecordFramed(a[k - 1], R[k])
<1> DEFINE n == Len(R)
           S == 1 .. n
           iter[s \in SUBSET S] == IF s = {} THEN start ELSE RecordFramed(iter[s \ {Max(s)}], R[Max(s)])
           step == [x \in S |-> [v \in C |-> RecordFramed(v, R[x])]]
           Follows(g) == g = [s \in SUBSET S |-> IF s = {} THEN start
                                                ELSE RecordFramed(g[s \ {Max(s)}], R[Max(s)])]
<1>1. DOMAIN R = S /\ n \in Nat /\ \A x \in S : R[x] \in FrameRecords BY LenProperties, ElementOfSeq
<1>2. RecordsFramed(start, R) = iter[S] BY <1>1 DEF FoldLeft, MapThenFoldSet, RecordsFramed
<1>3. \A x \in S : \A v \in C : step[x][v] = RecordFramed(v, R[x]) /\ step[x][v] \in C BY <1>1
<1>4. PICK g \in [SUBSET S -> C] :
          \A s \in SUBSET S :
              /\ s # {} => Max(s) \in s
              /\ g[s] = IF s = {} THEN start ELSE step[Max(s)][g[s \ {Max(s)}]]
  <2>1. \A x \in 1 .. n : \A v \in C : step[x][v] \in C BY <1>3
  <2>2. Folding(n, C, start, step)
    <3> HIDE DEF n, step
    <3> QED BY <1>1, <2>1, FoldRecursion
  <2> HIDE DEF step
  <2> QED BY <2>2 DEF Folding
<1>5. Follows(g)
  <2>1. ASSUME NEW s \in SUBSET S, s # {}
        PROVE  step[Max(s)][g[s \ {Max(s)}]] = RecordFramed(g[s \ {Max(s)}], R[Max(s)])
    <3>1. Max(s) \in S /\ g[s \ {Max(s)}] \in C BY <1>4, <2>1
    <3> HIDE DEF step, S
    <3> QED BY <1>3, <3>1
  <2> HIDE DEF step, S
  <2> QED BY <1>4, <2>1
<1>6. Follows(iter)
  <2>1. iter = CHOOSE g0 : Follows(g0) OBVIOUS
  <2> HIDE DEF iter, Follows
  <2> QED BY <1>5, <2>1
<1> DEFINE a == [k \in 0 .. n |-> iter[1 .. k]]
<1>7. a[0] = start
  <2>1. 1 .. 0 = {} /\ 1 .. 0 \in SUBSET S /\ 0 \in 0 .. n BY <1>1
  <2>2. a[0] = iter[1 .. 0] BY <2>1
  <2> HIDE DEF iter, a
  <2> QED BY <1>6, <2>1, <2>2
<1>8. ASSUME NEW k \in 1 .. n PROVE a[k] = RecordFramed(a[k - 1], R[k])
  <2>1. k \in Nat \ {0} /\ k \in 0 .. n /\ k - 1 \in 0 .. n BY <1>1
  <2>2. Max(1 .. k) = k /\ (1 .. k) \ {k} = 1 .. (k - 1) /\ 1 .. k # {} BY <2>1, LastOfInterval
  <2>3. 1 .. k \in SUBSET S BY <1>1
  <2>4. a[k] = iter[1 .. k] /\ a[k - 1] = iter[1 .. k - 1]
    <3> HIDE DEF iter
    <3> QED BY <2>1
  <2> HIDE DEF iter, a, S
  <2> QED BY <1>6, <2>2, <2>3, <2>4
<1>9. \A k \in 0 .. n : a[k] \in C
  <2> DEFINE H == {k \in 0 .. n : a[k] \in C}
  <2> HIDE DEF a
  <2>1. 0 \in H BY <1>1, <1>7
  <2>2. ASSUME NEW k \in 1 .. n, k - 1 \in H PROVE k \in H
    <3>1. a[k - 1] \in C /\ R[k] \in FrameRecords /\ k \in 0 .. n BY <1>1, <2>2
    <3> QED BY <1>8, <3>1
  <2>3. \A k \in 0 .. n : k \in H
    <3> HIDE DEF H
    <3> QED BY <1>1, <2>1, <2>2, Upwards
  <2> QED BY <2>3
<1>10. a[n] = iter[S]
  <2>1. n \in 0 .. n BY <1>1
  <2> HIDE DEF iter
  <2> QED BY <2>1
<1>11. Passing(a, C, start, n)
  <2>1. a = [k \in 0 .. n |-> a[k]] OBVIOUS
  <2> HIDE DEF a
  <2> QED BY <1>7, <1>9, <2>1 DEF Passing
<1> HIDE DEF a, iter
<1> QED BY <1>2, <1>8, <1>10, <1>11

(* The bytes of frames and of those that follow, joined step by step.        *)
JoinedBy(j, F, R) ==
    /\ j \in [0 .. Len(R) -> Seq(Bytes)]
    /\ j[0] = Joined(F) /\ j[Len(R)] = Joined(F \o R)
    /\ \A k \in 1 .. Len(R) : j[k] = WithPayload(j[k - 1], R[k])

(* What handshake records hold are bytes.                                    *)
LEMMA WithPayloadType ==
    ASSUME NEW v \in Seq(Bytes), NEW r \in FrameRecords
    PROVE  WithPayload(v, r) \in Seq(Bytes)
<1>1. r.payload \in Seq(Bytes) BY DEF FrameRecords
<1>2. v \o r.payload \in Seq(Bytes) BY <1>1, ConcatProperties
<1> QED BY <1>2 DEF WithPayload

LEMMA JoinedNothing == Joined(<<>>) = <<>>
<1> DEFINE C == Seq(Bytes)
           none == <<>>
<1>1. none \in C /\ none \in Seq(FrameRecords) /\ Len(none) = 0 BY EmptySeq
<1>2. \A v \in C : \A r \in FrameRecords : WithPayload(v, r) \in C BY WithPayloadType
<1> HIDE DEF C, none
<1>3. PICK a : /\ Passing(a, C, none, Len(none)) /\ JoinedFrom(none, none) = a[Len(none)]
               /\ \A k \in 1 .. Len(none) : a[k] = WithPayload(a[k - 1], none[k])
  BY <1>1, <1>2, JoinedFolds
<1>4. JoinedFrom(none, none) = none BY <1>1, <1>3 DEF Passing
<1> QED BY <1>4 DEF Joined, none

(* Records that follow are joined to what there is.                          *)
LEMMA JoinedAppends ==
    ASSUME NEW F \in Seq(FrameRecords), NEW R \in Seq(FrameRecords)
    PROVE  \E j : JoinedBy(j, F, R)
<1> DEFINE C == Seq(Bytes)
           none == <<>>
           G == F \o R
           m == Len(F)
           n == Len(R)
<1>1. /\ none \in C /\ m \in Nat /\ n \in Nat /\ G \in Seq(FrameRecords) /\ Len(G) = m + n
      /\ \A i \in 1 .. m + n : G[i] = IF i <= m THEN F[i] ELSE R[i - m]
  BY EmptySeq, LenProperties, ConcatProperties
<1>2. \A v \in C : \A r \in FrameRecords : WithPayload(v, r) \in C BY WithPayloadType
<1> HIDE DEF C, none, G
<1>3. PICK a : /\ Passing(a, C, none, Len(G)) /\ JoinedFrom(none, G) = a[Len(G)]
               /\ \A k \in 1 .. Len(G) : a[k] = WithPayload(a[k - 1], G[k])
  BY <1>1, <1>2, JoinedFolds
<1>4. PICK b : /\ Passing(b, C, none, Len(F)) /\ JoinedFrom(none, F) = b[Len(F)]
               /\ \A k \in 1 .. Len(F) : b[k] = WithPayload(b[k - 1], F[k])
  BY <1>1, <1>2, JoinedFolds
<1> HIDE DEF m, n
<1>5. \A k \in 0 .. m : k \in {i \in 0 .. m : a[i] = b[i]}
  <2> DEFINE H == {i \in 0 .. m : a[i] = b[i]}
  <2>1. 0 \in H BY <1>1, <1>3, <1>4 DEF Passing
  <2>2. ASSUME NEW k \in 1 .. m, k - 1 \in H PROVE k \in H
    <3>1. k \in 1 .. m + n /\ k <= m /\ k \in 0 .. m BY <1>1
    <3>2. G[k] = F[k] BY <1>1, <3>1
    <3>3. a[k] = WithPayload(a[k - 1], G[k]) BY <1>1, <1>3, <3>1
    <3>4. b[k] = WithPayload(b[k - 1], F[k]) BY <1>4 DEF m
    <3> QED BY <2>2, <3>1, <3>2, <3>3, <3>4
  <2> HIDE DEF H
  <2>3. \A k \in 0 .. m : k \in H BY <1>1, <2>1, <2>2, Upwards
  <2> QED BY <2>3 DEF H
<1> DEFINE j == [k \in 0 .. n |-> a[m + k]]
<1>6. \A k \in 0 .. n : m + k \in 0 .. m + n /\ j[k] = a[m + k] BY <1>1
<1>7. j \in [0 .. n -> Seq(Bytes)]
  <2>1. \A k \in 0 .. m + n : a[k] \in Seq(Bytes) BY <1>1, <1>3 DEF Passing, C
  <2> QED BY <1>1, <2>1
<1>8. j[0] = Joined(F)
  <2>1. m \in 0 .. m /\ 0 \in 0 .. n /\ m + 0 = m BY <1>1
  <2>2. a[m] = b[m] BY <1>5, <2>1
  <2> HIDE DEF j
  <2> QED BY <1>4, <1>6, <2>1, <2>2 DEF Joined, m, none
<1>9. j[n] = Joined(G)
  <2>1. n \in 0 .. n BY <1>1
  <2> HIDE DEF j
  <2> QED BY <1>1, <1>3, <1>6, <2>1 DEF Joined, none
<1>10. ASSUME NEW k \in 1 .. n PROVE j[k] = WithPayload(j[k - 1], R[k])
  <2>1. /\ m + k \in 1 .. m + n /\ ~(m + k <= m) /\ m + k - m = k /\ k \in 0 .. n /\ k - 1 \in 0 .. n
        /\ (m + k) - 1 = m + (k - 1)
    BY <1>1
  <2>2. G[m + k] = R[k]
    <3>1. (m + k) - m = k BY <1>1
    <3> QED BY <1>1, <2>1, <3>1
  <2>3. a[m + k] = WithPayload(a[(m + k) - 1], G[m + k]) BY <1>1, <1>3, <2>1
  <2> HIDE DEF j
  <2> QED BY <1>6, <2>1, <2>2, <2>3
<1> HIDE DEF j
<1>11. JoinedBy(j, F, R) BY <1>7, <1>8, <1>9, <1>10 DEF JoinedBy, G, n
<1> QED BY <1>11

LEMMA JoinedType ==
    ASSUME NEW F \in Seq(FrameRecords)
    PROVE  Joined(F) \in Seq(Bytes)
<1> DEFINE none == <<>>
<1>1. none \in Seq(FrameRecords) /\ 0 \in 0 .. Len(none) BY EmptySeq
<1> HIDE DEF none
<1>2. PICK j : JoinedBy(j, F, none) BY <1>1, JoinedAppends
<1> QED BY <1>1, <1>2 DEF JoinedBy

(* Where the framing of messages stands after the handshake bytes j, beyond  *)
(* the messages M of before.                                                 *)
Messaged(j, M, p) ==
    /\ p \in Passes
    /\ \/ Reading(MessageFormat, j, M \o p.frames, p.framer)
       \/ TooLong(MessageFormat, j, M \o p.frames) /\ p.framer.reason = "LIMIT_EXCEEDED"

(* While framing reads on, there is no reason not to.                        *)
LEMMA ReadingGoesOn ==
    ASSUME NEW format, NEW c, NEW F, NEW f, Reading(format, c, F, f)
    PROVE  f.reason = NoReason
BY DEF Reading, Awaiting, Inside

(* A record framed is its payload framed, if it is a handshake's.            *)
LEMMA RecordFramedIs ==
    ASSUME NEW j \in Seq(Bytes), NEW M \in Seq(FrameRecords), NEW p, Messaged(j, M, p),
           NEW r \in FrameRecords
    PROVE  Messaged(WithPayload(j, r), M, RecordFramed(p, r))
<1> DEFINE G == M \o p.frames
           x == r.payload
<1>1. /\ p \in Passes /\ p.framer \in Framers /\ p.frames \in Seq(FrameRecords) /\ p.left \in Seq(Bytes)
      /\ x \in Seq(Bytes) /\ MessageFormat \in Formats
  BY FormatsAssumption DEF Messaged, Passes, FrameRecords
<1>2. G \in Seq(FrameRecords) BY <1>1, ConcatProperties
<1>3. CASE r.header[1] # Handshake
  <2>1. RecordFramed(p, r) = p /\ WithPayload(j, r) = j BY <1>3 DEF RecordFramed, WithPayload
  <2> QED BY <2>1
<1>4. CASE r.header[1] = Handshake /\ p.framer.reason # NoReason
  <2>1. RecordFramed(p, r) = p /\ WithPayload(j, r) = j \o x BY <1>4 DEF RecordFramed, WithPayload
  <2>2. TooLong(MessageFormat, j, G) /\ p.framer.reason = "LIMIT_EXCEEDED"
    BY <1>4, ReadingGoesOn DEF Messaged
  <2> HIDE DEF G, x
  <2>3. TooLong(MessageFormat, j \o x, G) BY <1>1, <2>2, TooLongKept
  <2> QED BY <1>1, <2>1, <2>2, <2>3 DEF Messaged, G
<1>5. CASE r.header[1] = Handshake /\ p.framer.reason = NoReason
  <2> DEFINE next == Framed(MessageFormat, p.framer, x)
             q == [next EXCEPT !.frames = p.frames \o @]
  <2>1. RecordFramed(p, r) = q /\ WithPayload(j, r) = j \o x BY <1>5 DEF RecordFramed, WithPayload
  <2>2. Reading(MessageFormat, j, G, p.framer)
    BY <1>5 DEF Messaged, NoReason
  <2>3. CASE x = <<>>
    <3>1. next = [framer |-> p.framer, frames |-> <<>>, left |-> <<>>] BY <2>3, FramedNothing
    <3>2. p.frames \o <<>> = p.frames /\ j \o <<>> = j BY <1>1, ConcatEmptySeq
    <3>3. <<>> \in Seq(Bytes) BY EmptySeq
    <3>4. q = [framer |-> p.framer, frames |-> p.frames, left |-> <<>>] BY <3>1, <3>2
    <3>5. q \in Passes BY <1>1, <3>3, <3>4 DEF Passes
    <3> QED BY <2>1, <2>2, <2>3, <3>2, <3>4, <3>5 DEF Messaged
  <2>4. CASE x # <<>>
    <3> HIDE DEF G, x, next
    <3>1. Stage(MessageFormat, j \o x, G, next) /\ (next.framer.reason = NoReason => next.left = <<>>)
      BY <1>1, <1>2, <2>2, <2>4, FramedIs DEF next
    <3>2. PICK c \in Seq(Bytes) :
              /\ j \o x = c \o next.left
              /\ \/ Reading(MessageFormat, c, G \o next.frames, next.framer)
                 \/ TooLong(MessageFormat, c, G \o next.frames) /\ next.framer.reason = "LIMIT_EXCEEDED"
      BY <3>1 DEF Stage
    <3>3. /\ next \in Passes /\ next.frames \in Seq(FrameRecords) /\ next.left \in Seq(Bytes)
          /\ next.framer \in Framers
      BY <3>1 DEF Stage, Passes
    <3>4. G \o next.frames = M \o (p.frames \o next.frames) /\ p.frames \o next.frames \in Seq(FrameRecords)
      <4> DEFINE A == p.frames
                 B == next.frames
      <4>1. A \in Seq(FrameRecords) /\ B \in Seq(FrameRecords) BY <1>1, <3>3
      <4> HIDE DEF A, B
      <4>2. (M \o A) \o B = M \o (A \o B) /\ A \o B \in Seq(FrameRecords)
        <5>1. A \o B \in Seq(FrameRecords) BY <4>1, ConcatProperties
        <5> QED BY <4>1, <5>1, Concatenated
      <4> QED BY <4>2 DEF A, B, G
    <3>5. /\ q \in Passes /\ q.frames = p.frames \o next.frames /\ q.framer = next.framer
      BY <3>3, <3>4 DEF Passes
    <3>6. CASE Reading(MessageFormat, c, G \o next.frames, next.framer)
      <4>1. next.left = <<>> BY <3>1, <3>6, ReadingGoesOn
      <4>2. j \o x = c BY <3>2, <4>1, ConcatEmptySeq
      <4> QED BY <2>1, <3>4, <3>5, <3>6, <4>2 DEF Messaged
    <3>7. CASE TooLong(MessageFormat, c, G \o next.frames) /\ next.framer.reason = "LIMIT_EXCEEDED"
      <4>1. TooLong(MessageFormat, j \o x, G \o next.frames) BY <1>1, <3>2, <3>3, <3>7, TooLongKept
      <4> QED BY <2>1, <3>4, <3>5, <3>7, <4>1 DEF Messaged
    <3> QED BY <3>2, <3>6, <3>7
  <2> QED BY <2>3, <2>4
<1> QED BY <1>3, <1>4, <1>5

(* And so are any number of records, one after another.                      *)
LEMMA RecordsFramedIs ==
    ASSUME NEW F \in Seq(FrameRecords), NEW R \in Seq(FrameRecords), NEW M \in Seq(FrameRecords),
           NEW start, Messaged(Joined(F), M, start)
    PROVE  Messaged(Joined(F \o R), M, RecordsFramed(start, R))
<1> DEFINE C == {p \in Passes : \E j \in Seq(Bytes) : Messaged(j, M, p)}
           n == Len(R)
<1>1. start \in C
  <2>1. Joined(F) \in Seq(Bytes) BY JoinedType
  <2> QED BY <2>1 DEF Messaged
<1>2. ASSUME NEW p \in C, NEW r \in FrameRecords PROVE RecordFramed(p, r) \in C
  <2>1. PICK j \in Seq(Bytes) : Messaged(j, M, p) OBVIOUS
  <2>2. Messaged(WithPayload(j, r), M, RecordFramed(p, r)) BY <2>1, RecordFramedIs
  <2>3. WithPayload(j, r) \in Seq(Bytes) BY WithPayloadType
  <2> QED BY <2>2, <2>3 DEF Messaged
<1> HIDE DEF C
<1>3. PICK a : /\ Passing(a, C, start, Len(R)) /\ RecordsFramed(start, R) = a[Len(R)]
               /\ \A k \in 1 .. Len(R) : a[k] = RecordFramed(a[k - 1], R[k])
  BY <1>1, <1>2, RecordsFolds
<1>4. PICK j : JoinedBy(j, F, R) BY JoinedAppends
<1>5. n \in Nat /\ \A k \in 1 .. n : R[k] \in FrameRecords BY LenProperties, ElementOfSeq
<1> DEFINE H == {k \in 0 .. n : Messaged(j[k], M, a[k])}
<1>6. 0 \in H BY <1>3, <1>4, <1>5 DEF Passing, JoinedBy
<1>7. ASSUME NEW k \in 1 .. n, k - 1 \in H PROVE k \in H
  <2>1. k - 1 \in 0 .. n /\ k \in 0 .. n /\ R[k] \in FrameRecords BY <1>5
  <2>2. j[k - 1] \in Seq(Bytes) /\ j[k] = WithPayload(j[k - 1], R[k]) BY <1>4, <2>1 DEF JoinedBy
  <2>3. a[k] = RecordFramed(a[k - 1], R[k]) BY <1>3
  <2>4. Messaged(j[k - 1], M, a[k - 1]) BY <1>7
  <2>5. Messaged(j[k], M, a[k]) BY <2>1, <2>2, <2>3, <2>4, RecordFramedIs
  <2> QED BY <2>1, <2>5
<1>8. \A k \in 0 .. n : k \in H
  <2> HIDE DEF H, n
  <2> QED BY <1>5, <1>6, <1>7, Upwards
<1>9. Messaged(j[n], M, a[n])
  <2>1. n \in 0 .. n BY <1>5
  <2> QED BY <1>8, <2>1
<1> QED BY <1>3, <1>4, <1>9 DEF JoinedBy

(* The same bytes are left to consume.                                       *)
SameUnconsumed(s, t) ==
    Unconsumed(t) = Unconsumed(s) /\ ConsumedOffset(t) = ConsumedOffset(s)

(* The same buffer has the same bytes left.                                  *)
LEMMA SameBufferUnconsumed ==
    ASSUME NEW s, NEW t, SameBuffer(s, t)
    PROVE  SameUnconsumed(s, t)
BY DEF SameBuffer, SameUnconsumed, Unconsumed, ConsumedOffset

(* The sequence number after a segment.                                      *)
EndOf(g) == (FirstByte(g) + Len(g.payload)) % Modulus

LEMMA EndOfType ==
    ASSUME NEW g \in SegmentType
    PROVE  EndOf(g) \in Sequences
<1>1. FirstByte(g) \in Int BY FirstByteType DEF Sequences
<1>2. Len(g.payload) \in Nat BY LenProperties DEF SegmentType
<1>3. FirstByte(g) + Len(g.payload) \in Int BY <1>1, <1>2
<1> QED BY <1>3, ModRange DEF EndOf

(* Bytes appended move the next number on, or are not taken at all.          *)
LEMMA AppendedAlike ==
    ASSUME NEW s, Sound(s), s.status = "OPEN", NEW g \in SegmentType
    PROVE  LET t == Appended(s, FirstByte(g), g.payload)
           IN SameUnconsumed(s, t) \/ (t.status = "OPEN" /\ t.next = EndOf(g))
<1> DEFINE p == g.payload
           q == FirstByte(g)
           t == IF ~Fits(s, p) /\ s.consumed > 0 THEN Compacted(s) ELSE s
           relation == IF s.start = None THEN "FIRST" ELSE "CONTIGUOUS"
           start == IF t.start = None THEN q ELSE t.start
           u == [t EXCEPT !.payload = t.payload \o p, !.start = start,
                          !.next = (q + Len(p)) % Modulus, !.relation = relation]
<1>1. Sound(t) /\ SameUnconsumed(s, t) /\ t.status = s.status
  <2>1. CASE ~Fits(s, p) /\ s.consumed > 0
    <3>1. Compacted(s).status = s.status BY DEF Compacted, Sound, Observations
    <3> QED BY <2>1, <3>1, CompactedSound DEF SameUnconsumed
  <2>2. CASE ~(~Fits(s, p) /\ s.consumed > 0) BY <2>2 DEF SameUnconsumed
  <2> QED BY <2>1, <2>2
<1>2. Appended(s, q, p) = IF ~Fits(t, p) THEN Judged(t, "LIMIT_EXCEEDED", relation) ELSE u
  BY DEF Appended
<1> HIDE DEF t, relation, start, p, q
<1>3. CASE ~Fits(t, p)
  <2> DEFINE j == Judged(t, "LIMIT_EXCEEDED", relation)
  <2>1. SameBuffer(t, j) BY <1>1 DEF Judged, SameBuffer, Sound, Observations
  <2> HIDE DEF j
  <2>2. SameUnconsumed(t, j) BY <2>1, SameBufferUnconsumed
  <2>3. SameUnconsumed(s, j) BY <1>1, <2>2 DEF SameUnconsumed
  <2> QED BY <1>2, <1>3, <2>3 DEF j, p, q
<1>4. CASE Fits(t, p)
  <2>1. u.status = "OPEN" /\ u.next = (q + Len(p)) % Modulus BY <1>1 DEF Sound, Observations
  <2> HIDE DEF u
  <2> QED BY <1>2, <1>4, <2>1 DEF EndOf, p, q
<1> QED BY <1>3, <1>4

(* So do bytes received, whatever they are.                                  *)
LEMMA ReceivedAlike ==
    ASSUME NEW s, Sound(s), s.status = "OPEN", NEW g \in SegmentType
    PROVE  LET t == Received(s, g)
           IN SameUnconsumed(s, t) \/ (t.status = "OPEN" /\ t.next = EndOf(g))
<1> DEFINE t == Received(s, g)
<1>1. \/ t = s
      \/ \E status, relation : t = Judged(s, status, relation)
      \/ \E base : t = Overlapped(s, g.payload, base)
      \/ t = Appended(s, FirstByte(g), g.payload)
  <2> DEFINE d == IF s.next = None THEN 0 ELSE Delta(FirstByte(g), s.next)
  <2>1. t = CASE g.payload = <<>> -> s
            [] g.payload # <<>> /\ d = HalfRange -> Judged(s, "AMBIGUOUS", "AMBIGUOUS")
            [] g.payload # <<>> /\ d > 0 /\ d # HalfRange -> Judged(s, "GAP", "GAP")
            [] g.payload # <<>> /\ d < 0 -> Overlapped(s, g.payload, Len(s.payload) + d)
            [] g.payload # <<>> /\ d = 0 -> Appended(s, FirstByte(g), g.payload)
    BY DEF Received
  <2>2. d \in Int
    <3>1. CASE s.next = None BY <3>1
    <3>2. CASE s.next # None
      <4>1. s.next \in Int /\ FirstByte(g) \in Int
        BY <3>2, FirstByteType DEF Sound, Observations, Sequences
      <4>2. (FirstByte(g) - s.next) % Modulus \in Int BY <4>1, ModRange DEF Sequences
      <4>3. Delta(FirstByte(g), s.next) \in Int BY <4>2, ModulusAssumption DEF Delta
      <4> QED BY <3>2, <4>3
    <3> QED BY <3>1, <3>2
  <2>3. HalfRange \in Nat /\ HalfRange > 0 BY ModulusAssumption DEF HalfRange
  <2> HIDE DEF t, d
  <2>4. CASE g.payload = <<>> BY <2>1, <2>4
  <2>5. CASE g.payload # <<>> /\ d = HalfRange BY <2>1, <2>3, <2>5
  <2>6. CASE g.payload # <<>> /\ d > 0 /\ d # HalfRange BY <2>1, <2>2, <2>3, <2>6
  <2>7. CASE g.payload # <<>> /\ d < 0 BY <2>1, <2>2, <2>3, <2>7
  <2>8. CASE g.payload # <<>> /\ d = 0 BY <2>1, <2>3, <2>8
  <2> QED BY <2>2, <2>4, <2>5, <2>6, <2>7, <2>8
<1> HIDE DEF t
<1>2. CASE t = s BY <1>2 DEF t, SameUnconsumed
<1>3. CASE \E status, relation : t = Judged(s, status, relation)
  <2>1. SameBuffer(s, t) BY <1>3 DEF Judged, SameBuffer, Sound, Observations
  <2> QED BY <2>1, SameBufferUnconsumed DEF t
<1>4. CASE \E base : t = Overlapped(s, g.payload, base)
  <2>1. SameBuffer(s, t) BY <1>4, OverlappedSound
  <2> QED BY <2>1, SameBufferUnconsumed DEF t
<1>5. CASE t = Appended(s, FirstByte(g), g.payload) BY <1>5, AppendedAlike DEF t
<1> QED BY <1>1, <1>2, <1>3, <1>4, <1>5

(* An end right after the bytes received may be believed.                    *)
LEMMA FinishedContiguous ==
    ASSUME NEW s, Sound(s), s.status = "OPEN", NEW g \in SegmentType, s.next = EndOf(g)
    PROVE  Contiguous(Finished(s, g))
<1> DEFINE end == (FirstByte(g) + Len(g.payload)) % Modulus
           d == IF s.next = None THEN 0 ELSE Delta(end, s.next)
<1>1. end = EndOf(g) /\ end \in Int BY EndOfType DEF EndOf, Sequences
<1> HIDE DEF end
<1>2. end - end = 0 /\ 0 % Modulus = 0 /\ 0 <= HalfRange BY <1>1, ModulusAssumption DEF HalfRange
<1>3. d = 0 BY <1>1, <1>2 DEF Delta
<1>4. Finished(s, g) =
        IF s.status # "OPEN" \/ (~g.rst /\ ~g.fin) THEN s
        ELSE IF g.rst THEN [s EXCEPT !.status = "RESET"]
        ELSE IF d = 0 THEN [s EXCEPT !.status = "FIN", !.next = (end + 1) % Modulus]
        ELSE [s EXCEPT !.status = IF d = HalfRange THEN "AMBIGUOUS"
                                  ELSE IF d > 0 THEN "GAP" ELSE "OVERLAP"]
  BY DEF Finished, end
<1> HIDE DEF d
<1>5. Finished(s, g).status \in {"OPEN", "RESET", "FIN"} BY <1>3, <1>4 DEF Sound, Observations
<1> QED BY <1>5 DEF Contiguous, Closed

(* Whatever ends the trust in an observation leaves the bytes to consume     *)
(* alone: no byte is taken by the segment that does.                         *)
LEMMA ObservedStops ==
    ASSUME NEW current, Sound(current), NEW g \in SegmentType, ~ Contiguous(Observed(current, g))
    PROVE  SameUnconsumed(current, Observed(current, g))
<1> DEFINE s == [current EXCEPT !.relation = "EMPTY"]
           after == Observed(current, g)
<1>1. Sound(s) /\ s.status = current.status /\ SameBuffer(current, s)
  BY DEF Sound, Observations, Relations, SameBuffer
<1>2. after =
        IF Closed(s) /\ (g.payload # <<>> \/ g.syn) THEN Judged(s, "AFTER_CLOSE", "UNAVAILABLE")
        ELSE IF s.status # "OPEN"
        THEN Judged(s, s.status, IF g.payload # <<>> THEN "UNAVAILABLE" ELSE "EMPTY")
        ELSE IF g.fragmented THEN Judged(s, "FRAGMENTED", "UNAVAILABLE")
        ELSE IF Restarts(s, g) THEN Judged(s, "RESTART", "UNAVAILABLE")
        ELSE Finished(Received(Synchronized(s, g), g), g)
  BY DEF Observed
<1>3. SameUnconsumed(current, s) BY <1>1, SameBufferUnconsumed
<1> HIDE DEF s
<1>4. CASE \E status, relation : after = Judged(s, status, relation)
  <2>1. SameBuffer(s, after)
    <3> HIDE DEF after
    <3> QED BY <1>1, <1>4 DEF Judged, SameBuffer, Sound, Observations
  <2>2. SameUnconsumed(s, after) BY <2>1, SameBufferUnconsumed
  <2> QED BY <1>3, <2>2 DEF SameUnconsumed
<1>5. CASE s.status = "OPEN" /\ after = Finished(Received(Synchronized(s, g), g), g)
  <2> DEFINE a == Synchronized(s, g)
             b == Received(a, g)
  <2>1. Sound(a) /\ a.status = "OPEN" /\ SameBuffer(s, a) BY <1>1, <1>5, SynchronizedSound
  <2>2. SameUnconsumed(s, a) BY <2>1, SameBufferUnconsumed
  <2> HIDE DEF a
  <2>3. Sound(b) /\ (SameUnconsumed(a, b) \/ (b.status = "OPEN" /\ b.next = EndOf(g)))
    BY <2>1, ReceivedSound, ReceivedAlike
  <2> HIDE DEF b
  <2>4. after = Finished(b, g) BY <1>5 DEF a, b
  <2> HIDE DEF after
  <2>5. SameUnconsumed(a, b) BY <2>3, <2>4, FinishedContiguous DEF after
  <2>6. SameBuffer(b, after) BY <2>3, <2>4, FinishedSound
  <2>7. SameUnconsumed(b, after) BY <2>6, SameBufferUnconsumed
  <2>8. SameUnconsumed(current, after) BY <1>3, <2>2, <2>5, <2>7 DEF SameUnconsumed
  <2> QED BY <2>8 DEF after
<1>6. \/ \E status, relation : after = Judged(s, status, relation)
      \/ s.status = "OPEN" /\ after = Finished(Received(Synchronized(s, g), g), g)
  <2> HIDE DEF after
  <2> QED BY <1>2
<1> QED BY <1>4, <1>5, <1>6

(* The sender's bytes an observation has accepted, consumed or not.          *)
AcceptedBy(s, f) == SubSeq(sent, f + 1, End(s, f))

(* The bytes accepted, byte by byte.                                         *)
LEMMA AcceptedIs ==
    ASSUME SenderOK, NEW s, Sound(s), NEW f, Tracks(s, f)
    PROVE  /\ AcceptedBy(s, f) \in Seq(Bytes) /\ f \in Nat /\ s.offset \in Nat
           /\ Len(AcceptedBy(s, f)) = s.offset + Len(s.payload)
           /\ \A i \in 1 .. s.offset + Len(s.payload) : AcceptedBy(s, f)[i] = sent[f + i]
<1> DEFINE e == End(s, f)
           m == s.offset + Len(s.payload)
<1>1. f \in Nat /\ s.offset \in Nat /\ Len(s.payload) \in Nat /\ e \in 0 .. Length /\ Length \in Nat
  BY TracksType, WindowAssumption
<1>2. e = f + m /\ m \in Nat BY <1>1 DEF End
<1> HIDE DEF e, m
<1>3. f + 1 \in Int /\ e \in Int /\ \A i \in f + 1 .. e : sent[i] \in Bytes
  <2>1. \A i \in f + 1 .. e : i \in 1 .. Length BY <1>1
  <2>2. \A i \in 1 .. Length : sent[i] \in Bytes BY DEF SenderOK
  <2> QED BY <1>1, <2>1, <2>2
<1>4. /\ SubSeq(sent, f + 1, e) \in Seq(Bytes)
      /\ Len(SubSeq(sent, f + 1, e)) = IF f + 1 <= e THEN e - (f + 1) + 1 ELSE 0
      /\ \A i \in 1 .. e - (f + 1) + 1 : SubSeq(sent, f + 1, e)[i] = sent[f + 1 + i - 1]
  BY <1>3, SubSeqProperties
<1>5. (IF f + 1 <= e THEN e - (f + 1) + 1 ELSE 0) = m BY <1>1, <1>2
<1>6. ASSUME NEW i \in 1 .. m PROVE SubSeq(sent, f + 1, e)[i] = sent[f + i]
  <2>1. i \in 1 .. e - (f + 1) + 1 /\ f + 1 + i - 1 = f + i BY <1>1, <1>2
  <2> QED BY <1>4, <2>1
<1> QED BY <1>1, <1>4, <1>5, <1>6 DEF AcceptedBy, e, m

(* What comes to be left to consume is accepted in the same order.           *)
LEMMA AcceptedGrows ==
    ASSUME SenderOK, NEW s, Sound(s), NEW t, Sound(t), NEW f, NEW h, Tracks(s, f), Tracks(t, h),
           h = f \/ s.start = None, ConsumedOffset(t) = ConsumedOffset(s),
           NEW q \in Seq(Bytes), Unconsumed(t) = Unconsumed(s) \o q
    PROVE  AcceptedBy(t, h) = AcceptedBy(s, f) \o q
<1> DEFINE a == AcceptedBy(s, f)
           b == AcceptedBy(t, h)
           m == s.offset + Len(s.payload)
           n == t.offset + Len(t.payload)
           u == Unconsumed(s)
           w == Unconsumed(t)
           o == t.offset
           k == t.consumed
<1>1. /\ a \in Seq(Bytes) /\ Len(a) = m /\ f \in Nat /\ \A i \in 1 .. m : a[i] = sent[f + i]
      /\ b \in Seq(Bytes) /\ Len(b) = n /\ h \in Nat /\ \A i \in 1 .. n : b[i] = sent[h + i]
  BY AcceptedIs
<1>2. /\ u \in Seq(Bytes) /\ w \in Seq(Bytes)
      /\ Len(u) = Len(s.payload) - s.consumed /\ Len(w) = Len(t.payload) - t.consumed
  BY RestType
<1>3. /\ s.offset \in Nat /\ s.consumed \in Nat /\ Len(s.payload) \in Nat
      /\ o \in Nat /\ k \in 0 .. Len(t.payload) /\ Len(t.payload) \in Nat
      /\ t.payload \in Seq(Bytes) /\ Len(q) \in Nat
  BY RestType, LenProperties DEF Sound, Observations
<1>4. t.offset + t.consumed = s.offset + s.consumed BY DEF ConsumedOffset
<1>5. /\ Len(w) = Len(u) + Len(q)
      /\ \A i \in 1 .. Len(u) + Len(q) : w[i] = IF i <= Len(u) THEN u[i] ELSE q[i - Len(u)]
  <2>1. Len(u \o q) = Len(u) + Len(q)
    BY <1>2, ConcatProperties
  <2>2. \A i \in 1 .. Len(u) + Len(q) : (u \o q)[i] = IF i <= Len(u) THEN u[i] ELSE q[i - Len(u)]
    BY <1>2, ConcatProperties
  <2> QED BY <2>1, <2>2
<1>6. \A i \in 1 .. Len(w) : w[i] = t.payload[k + i]
  <2>1. \A i \in 1 .. Len(t.payload) - k : SubSeq(t.payload, k + 1, Len(t.payload))[i] = t.payload[k + i]
    BY <1>3, RestOf
  <2> QED BY <1>2, <2>1 DEF Unconsumed
<1>7. \A i \in 1 .. Len(t.payload) : t.payload[i] = sent[(h + o) + i]
  <2>1. DOMAIN t.payload = 1 .. Len(t.payload) BY <1>3, LenProperties
  <2> QED BY <2>1 DEF Tracks, Begin
<1>8. m = (o + k) + Len(u) /\ n = m + Len(q) /\ m \in Nat
  <2>1. Len(w) = Len(u) + Len(q) BY <1>5
  <2> DEFINE lu == Len(u)
             lw == Len(w)
             ls == Len(s.payload)
             lt == Len(t.payload)
             lq == Len(q)
             sc == s.consumed
             so == s.offset
  <2>2. /\ lu = ls - sc /\ lw = lt - k /\ lw = lu + lq /\ ls \in Nat /\ lt \in Nat /\ lq \in Nat
        /\ so \in Nat /\ sc \in Nat /\ o \in Nat /\ k \in Nat
        /\ o + k = so + sc /\ m = so + ls /\ n = o + lt
    BY <1>2, <1>3, <1>4, <2>1
  <2> HIDE DEF lu, lw, ls, lt, lq, o, k, m, n, so, sc
  <2>3. lu \in Int /\ lw \in Int BY <2>2
  <2>4. m \in Nat BY <2>2
  <2>5. m = (o + k) + lu BY <2>2, <2>3
  <2>6. n = m + lq BY <2>2, <2>3, <2>5
  <2> QED BY <2>4, <2>5, <2>6 DEF lu, lq
<1>9. h = f \/ m = 0
  <2>1. s.start = None => Len(s.payload) = 0 /\ s.offset = 0 BY EmptySeq DEF Sound
  <2> QED BY <2>1
<1>10. /\ a \o q \in Seq(Bytes) /\ Len(a \o q) = m + Len(q)
       /\ \A i \in 1 .. m + Len(q) : (a \o q)[i] = IF i <= m THEN a[i] ELSE q[i - m]
  <2> HIDE DEF a, m
  <2>1. a \o q \in Seq(Bytes) /\ Len(a \o q) = Len(a) + Len(q)
    BY <1>1, ConcatProperties
  <2>2. \A i \in 1 .. Len(a) + Len(q) : (a \o q)[i] = IF i <= Len(a) THEN a[i] ELSE q[i - Len(a)]
    BY <1>1, ConcatProperties
  <2> QED BY <1>1, <2>1, <2>2
<1> HIDE DEF a, b, m, n, u, w, o, k
<1>11. ASSUME NEW i \in 1 .. n PROVE b[i] = (a \o q)[i]
  <2>1. CASE i <= m
    <3>1. h = f /\ i \in 1 .. m /\ i \in 1 .. m + Len(q) BY <1>3, <1>8, <1>9, <2>1
    <3> QED BY <1>1, <1>10, <2>1, <3>1
  <2>2. CASE ~(i <= m)
    <3> DEFINE l == Len(u) + (i - m)
    <3>0. Len(u) \in Nat BY <1>2, LenProperties
    <3>1. /\ i - m \in 1 .. Len(q) /\ i \in 1 .. m + Len(q) /\ ~(l <= Len(u)) /\ l - Len(u) = i - m
          /\ l \in 1 .. Len(w)
      BY <1>3, <1>5, <1>8, <2>2, <3>0
    <3>2. w[l] = q[i - m] BY <1>5, <3>1
    <3>3. w[l] = t.payload[k + l] BY <1>6, <3>1
    <3>4. k + l \in 1 .. Len(t.payload)
      <4>1. Len(w) = Len(t.payload) - k BY <1>2 DEF k
      <4>2. k \in Nat BY <1>3 DEF k
      <4> HIDE DEF l
      <4> QED BY <1>3, <3>1, <4>1, <4>2
    <3>5. t.payload[k + l] = sent[(h + o) + (k + l)] BY <1>7, <3>4
    <3>6. (h + o) + (k + l) = h + i
      BY <1>1, <1>3, <1>8, <3>0
    <3> QED BY <1>1, <1>10, <2>2, <3>1, <3>2, <3>3, <3>5, <3>6
  <2> QED BY <2>1, <2>2
<1>12. b = a \o q
  <2> DEFINE c == a \o q
  <2>1. c \in Seq(Bytes) /\ Len(c) = Len(b) /\ \A i \in 1 .. Len(b) : b[i] = c[i]
    BY <1>1, <1>8, <1>10, <1>11
  <2> HIDE DEF c
  <2>2. b = c BY <1>1, <2>1, SameSequence
  <2> QED BY <2>2 DEF c
<1> QED BY <1>12 DEF a, b

(* Consuming takes nothing from what was accepted.                           *)
LEMMA ConsumedTracks ==
    ASSUME NEW s, Sound(s), NEW n \in 0 .. Len(Unconsumed(s))
    PROVE  LET t == Consumed(s, n)
           IN /\ Sound(t) /\ t.status = s.status /\ t.start = s.start
              /\ ConsumedOffset(t) = ConsumedOffset(s) + n
              /\ n = Len(Unconsumed(s)) => Unconsumed(t) = <<>>
              /\ \A f : /\ AcceptedBy(t, f) = AcceptedBy(s, f)
                        /\ Tracks(s, f) => Tracks(t, f)
<1> DEFINE t == Consumed(s, n)
<1>1. /\ t.payload = s.payload /\ t.offset = s.offset /\ t.start = s.start /\ t.next = s.next
      /\ t.syn = s.syn /\ t.status = s.status /\ t.consumed = s.consumed + n
  BY DEF Consumed, Sound, Observations
<1>2. /\ s.consumed \in 0 .. Len(s.payload) /\ Len(s.payload) \in Nat /\ s.payload \in Seq(Bytes)
      /\ Len(Unconsumed(s)) = Len(s.payload) - s.consumed /\ s.offset \in Nat
  BY RestType DEF Sound, Observations
<1>3. t.consumed \in 0 .. Len(s.payload) /\ n \in Nat
  <2> HIDE DEF t
  <2> QED BY <1>1, <1>2
<1>4. t \in Observations
  <2>1. s.consumed + n \in Nat BY <1>2, <1>3
  <2> QED BY <2>1 DEF Consumed, Sound, Observations
<1> HIDE DEF t
<1>5. Sound(t) BY <1>1, <1>2, <1>3, <1>4 DEF Sound
<1>6. ConsumedOffset(t) = ConsumedOffset(s) + n BY <1>1, <1>2, <1>3 DEF ConsumedOffset
<1>7. ASSUME n = Len(Unconsumed(s)) PROVE Unconsumed(t) = <<>>
  <2>1. Unconsumed(t) \in Seq(Bytes) /\ Len(Unconsumed(t)) = Len(t.payload) - t.consumed BY <1>5, RestType
  <2>2. Len(Unconsumed(t)) = 0 BY <1>1, <1>2, <1>7, <2>1
  <2> QED BY <2>1, <2>2, EmptySeq
<1>8. \A f : AcceptedBy(t, f) = AcceptedBy(s, f) /\ (Tracks(s, f) => Tracks(t, f))
  BY <1>1 DEF AcceptedBy, Tracks, End, Begin
<1> QED BY <1>1, <1>5, <1>6, <1>7, <1>8 DEF t

(* Where the framing of a stream stands after the accepted bytes c: it reads *)
(* on and every byte is consumed; or a length was too great; or the          *)
(* observation may no longer be trusted.                                     *)
OuterAt(s, c, F, o) ==
    \/ Contiguous(s) /\ Unconsumed(s) = <<>> /\ Reading(OuterFormat, c, F, o)
    \/ TooLong(OuterFormat, c, F) /\ o.reason = "LIMIT_EXCEEDED"
    \/ ~Contiguous(s) /\ o.reason = s.status /\ F = Cut(OuterFormat, c)

(* What framing keeps, typed.                                                *)
FramedTypes ==
    /\ protocol \in {"DNS", "TLS"}
    /\ outer \in Framers /\ inner \in Framers
    /\ frames \in Seq(FrameRecords) /\ messages \in Seq(FrameRecords)

(* The stream, and where its framing stands.                                 *)
StreamInv ==
    /\ SenderOK /\ Sound(stream) /\ Tracks(stream, first)
    /\ FramedTypes
    /\ OuterAt(stream, AcceptedBy(stream, first), frames, outer)

(* What a segment of n bytes from position p makes of the framing.           *)
FramedAfter(seen, h) ==
    LET pass == OuterFramed(seen)
        t == OuterConsumed(seen, pass)
    IN /\ Sound(t) /\ Tracks(t, h) /\ t.start = seen.start
       /\ pass.framer \in Framers /\ pass.frames \in Seq(FrameRecords)
       /\ OuterAt(t, AcceptedBy(t, h), frames \o pass.frames, pass.framer)
       /\ pass.frames # <<>> => ConsumedOffset(t) > ConsumedOffset(stream)
       /\ outer.reason # NoReason => pass.frames = <<>> /\ pass.framer.reason # NoReason

LEMMA OuterFormatType ==
    OuterFormat \in Formats
BY FormatsAssumption DEF OuterFormat

LEMMA StatusIsReason ==
    ASSUME NEW s, Sound(s)
    PROVE  s.status \in Reasons /\ s.status # NoReason
BY DEF Sound, Observations, Statuses, Reasons, NoReason

(* A pass over nothing: framing stopped, or there was nothing to read.       *)
LEMMA PassedOver ==
    ASSUME NEW seen, Sound(seen), NEW h, Tracks(seen, h), FramedTypes, Available(seen) = <<>>,
           FramingReason(seen) \in Reasons
    PROVE  LET pass == OuterFramed(seen)
               t == OuterConsumed(seen, pass)
           IN /\ pass.framer = [outer EXCEPT !.reason = FramingReason(seen)]
              /\ pass.framer \in Framers /\ pass.framer.reason = FramingReason(seen)
              /\ pass.frames = <<>> /\ pass.frames \in Seq(FrameRecords)
              /\ frames \o pass.frames = frames
              /\ Sound(t) /\ Tracks(t, h) /\ t.start = seen.start /\ t.status = seen.status
              /\ Unconsumed(t) = Unconsumed(seen) /\ AcceptedBy(t, h) = AcceptedBy(seen, h)
<1> DEFINE framer == [outer EXCEPT !.reason = FramingReason(seen)]
           none == [framer |-> framer, frames |-> <<>>, left |-> <<>>]
           t == OuterConsumed(seen, none)
<1>1. OuterFramed(seen) = none BY FramedNothing DEF OuterFramed
<1>2. framer \in Framers /\ framer.reason = FramingReason(seen) BY DEF FramedTypes, Framers
<1>3. <<>> \in Seq(FrameRecords) /\ frames \o <<>> = frames BY EmptySeq, ConcatEmptySeq DEF FramedTypes
<1>4. t = Consumed(seen, 0) BY EmptySeq DEF OuterConsumed
<1>5. 0 \in 0 .. Len(Unconsumed(seen))
  <2>1. Len(Unconsumed(seen)) \in Nat BY RestType, LenProperties
  <2> QED BY <2>1
<1>6. /\ Sound(t) /\ Tracks(t, h) /\ t.start = seen.start /\ t.status = seen.status
      /\ AcceptedBy(t, h) = AcceptedBy(seen, h)
  <2> HIDE DEF t
  <2> QED BY <1>4, <1>5, ConsumedTracks
<1>7. t = seen
  <2>1. seen.consumed + 0 = seen.consumed BY DEF Sound, Observations
  <2>2. [seen EXCEPT !.consumed = @ + 0] = seen BY <2>1 DEF Sound, Observations
  <2> HIDE DEF t
  <2> QED BY <1>4, <2>2 DEF Consumed
<1> DEFINE pass == OuterFramed(seen)
           u == OuterConsumed(seen, pass)
<1>8. u = t BY <1>1
<1>9. pass.framer = framer /\ pass.frames = <<>> BY <1>1
<1> HIDE DEF t, u, pass
<1>10. /\ pass.framer = framer /\ pass.framer \in Framers /\ pass.framer.reason = FramingReason(seen)
       /\ pass.frames = <<>> /\ pass.frames \in Seq(FrameRecords)
       /\ frames \o pass.frames = frames
  BY <1>2, <1>3, <1>9
<1>11. /\ Sound(u) /\ Tracks(u, h) /\ u.start = seen.start /\ u.status = seen.status
       /\ Unconsumed(u) = Unconsumed(seen) /\ AcceptedBy(u, h) = AcceptedBy(seen, h)
  BY <1>6, <1>7, <1>8
<1> QED BY <1>10, <1>11 DEF pass, u

(* A segment of the sender keeps the framing of the stream in step.          *)
LEMMA SegmentFramed ==
    ASSUME StreamInv, NEW g, NEW p, NEW n, Genuine(g, p, n)
    PROVE  FramedAfter(Observed(stream, g), First(stream, Observed(stream, g), p, first))
<1> DEFINE seen == Observed(stream, g)
           h == First(stream, seen, p, first)
           A == AcceptedBy(stream, first)
           pass == OuterFramed(seen)
           t == OuterConsumed(seen, pass)
<1>0. /\ SenderOK /\ Sound(stream) /\ Tracks(stream, first) /\ FramedTypes /\ g \in SegmentType
      /\ OuterAt(stream, A, frames, outer) /\ outer \in Framers /\ frames \in Seq(FrameRecords)
      /\ OuterFormat \in Formats
  BY OuterFormatType DEF StreamInv, FramedTypes, Genuine
<1>1. /\ Sound(seen) /\ Extends(stream, seen)
      /\ stream.status # "OPEN" => SameBuffer(stream, seen) /\ seen.status # "OPEN"
      /\ ~Contiguous(stream) => seen.status = stream.status
  BY <1>0, ObservedSound
<1>2. Tracks(seen, h) BY <1>0, ObservedTracks
<1>3. h = first \/ stream.start = None BY DEF First
<1>4. A \in Seq(Bytes) BY <1>0, AcceptedIs
<1>5. Unconsumed(stream) \in Seq(Bytes) /\ Unconsumed(seen) \in Seq(Bytes) BY <1>0, <1>1, RestType
<1> HIDE DEF seen, h, A
<1>6. ASSUME NEW q \in Seq(Bytes), Unconsumed(seen) = Unconsumed(stream) \o q
      PROVE  AcceptedBy(seen, h) = A \o q
  <2>1. ConsumedOffset(seen) = ConsumedOffset(stream) BY <1>1 DEF Extends
  <2>2. PICK s : s = stream OBVIOUS
  <2>3. PICK f : f = first OBVIOUS
  <2>4. Sound(s) /\ Tracks(s, f) /\ (h = f \/ s.start = None) BY <1>0, <1>3, <2>2, <2>3
  <2>5. ConsumedOffset(seen) = ConsumedOffset(s) /\ Unconsumed(seen) = Unconsumed(s) \o q
    BY <1>6, <2>1, <2>2
  <2>6. AcceptedBy(seen, h) = AcceptedBy(s, f) \o q
    <3> HIDE DEF pass, t
    <3>1. PICK z : z = seen OBVIOUS
    <3>2. PICK e : e = h OBVIOUS
    <3>3. /\ Sound(z) /\ Tracks(z, e) /\ (e = f \/ s.start = None)
          /\ ConsumedOffset(z) = ConsumedOffset(s) /\ Unconsumed(z) = Unconsumed(s) \o q
      BY <1>1, <1>2, <2>4, <2>5, <3>1, <3>2
    <3>4. SenderOK /\ Sound(s) /\ Tracks(s, f) BY <1>0, <2>4
    <3>5. AcceptedBy(z, e) = AcceptedBy(s, f) \o q
      BY <3>3, <3>4, AcceptedGrows
    <3> QED BY <3>1, <3>2, <3>5
  <2> QED BY <2>2, <2>3, <2>6 DEF A
<1>7. ASSUME SameUnconsumed(stream, seen) PROVE AcceptedBy(seen, h) = A
  <2>1. <<>> \in Seq(Bytes) /\ Unconsumed(seen) = Unconsumed(stream) \o <<>> /\ A \o <<>> = A
    BY <1>4, <1>5, <1>7, EmptySeq, ConcatEmptySeq DEF SameUnconsumed
  <2> QED BY <1>6, <2>1
<1>8. outer.reason \in Reasons /\ seen.status \in Reasons /\ seen.status # NoReason
  BY <1>0, <1>1, StatusIsReason DEF Framers
<1>9. FramingReason(seen) \in Reasons BY <1>8 DEF FramingReason
<1>10. ASSUME Available(seen) = <<>>
       PROVE  /\ pass.framer = [outer EXCEPT !.reason = FramingReason(seen)]
              /\ pass.framer \in Framers /\ pass.framer.reason = FramingReason(seen)
              /\ pass.frames = <<>> /\ pass.frames \in Seq(FrameRecords)
              /\ frames \o pass.frames = frames
              /\ Sound(t) /\ Tracks(t, h) /\ t.start = seen.start /\ t.status = seen.status
              /\ Unconsumed(t) = Unconsumed(seen) /\ AcceptedBy(t, h) = AcceptedBy(seen, h)
  BY <1>0, <1>1, <1>2, <1>9, <1>10, PassedOver
<1> SUFFICES FramedAfter(seen, h) BY DEF seen, h
<1>11. ASSUME Available(seen) = <<>>, OuterAt(t, AcceptedBy(t, h), frames, pass.framer),
              outer.reason # NoReason => FramingReason(seen) # NoReason
       PROVE  FramedAfter(seen, h)
  <2> HIDE DEF pass, t
  <2> QED BY <1>10, <1>11 DEF FramedAfter, pass, t
<1>12. CASE Contiguous(stream) /\ Unconsumed(stream) = <<>> /\ Reading(OuterFormat, A, frames, outer)
  <2>1. outer.reason = NoReason BY <1>12, ReadingGoesOn
  <2> DEFINE q == Unconsumed(seen)
  <2>2. q \in Seq(Bytes) /\ Unconsumed(seen) = Unconsumed(stream) \o q
    BY <1>5, <1>12, ConcatEmptySeq
  <2>3. AcceptedBy(seen, h) = A \o q BY <1>6, <2>2
  <2>4. CASE ~Contiguous(seen)
    <3>1. SameUnconsumed(stream, seen) BY <1>0, <2>4, ObservedStops DEF seen
    <3>2. FramingReason(seen) = seen.status /\ Available(seen) = <<>>
      BY <1>8, <2>1, <2>4 DEF FramingReason, Available
    <3>3. AcceptedBy(seen, h) = A BY <1>7, <3>1
    <3>4. frames = Cut(OuterFormat, A)
      <4> HIDE DEF pass, t
      <4> QED BY <1>0, <1>4, <1>12, ReadingIsCut
    <3>5. OuterAt(t, AcceptedBy(t, h), frames, pass.framer)
      <4>1. /\ t.status = seen.status /\ AcceptedBy(t, h) = A
            /\ pass.framer.reason = seen.status
        BY <1>10, <3>2, <3>3
      <4> HIDE DEF pass, t
      <4> QED BY <2>4, <3>4, <4>1 DEF OuterAt, Contiguous, Closed
    <3> QED BY <1>11, <2>1, <3>2, <3>5
  <2>5. CASE Contiguous(seen)
    <3>1. FramingReason(seen) = NoReason /\ Available(seen) = q
      BY <2>1, <2>5 DEF FramingReason, Available
    <3>2. [outer EXCEPT !.reason = NoReason] = outer BY <1>0, <2>1 DEF Framers
    <3>3. CASE q = <<>>
      <4>1. A \o q = A BY <1>4, <3>3, ConcatEmptySeq
      <4>2. OuterAt(t, AcceptedBy(t, h), frames, pass.framer)
        <5>1. /\ t.status = seen.status /\ AcceptedBy(t, h) = A /\ Unconsumed(t) = <<>>
              /\ pass.framer = outer
          BY <1>10, <2>3, <3>1, <3>2, <3>3, <4>1
        <5> HIDE DEF pass, t
        <5> QED BY <1>12, <2>5, <5>1 DEF OuterAt, Contiguous, Closed
      <4> QED BY <1>11, <2>1, <3>1, <3>3, <4>2
    <3>4. CASE q # <<>>
      <4>1. pass = Framed(OuterFormat, outer, q) BY <3>1, <3>2 DEF OuterFramed
      <4> DEFINE l == pass.left
      <4>2. /\ Stage(OuterFormat, A \o q, frames, pass)
            /\ pass.framer.reason = NoReason => l = <<>>
            /\ Len(l) < Len(q)
        <5> HIDE DEF pass, q
        <5> QED BY <1>0, <1>4, <1>12, <2>2, <3>4, <4>1, FramedIs
      <4>3. /\ pass.framer \in Framers /\ pass.frames \in Seq(FrameRecords) /\ l \in Seq(Bytes)
        <5> HIDE DEF pass
        <5> QED BY <4>2 DEF Stage, Passes
      <4>4. t = Consumed(seen, Len(q) - Len(l)) BY <3>1 DEF OuterConsumed
      <4>5. PICK k \in 1 .. Len(q) : k = Len(q) - Len(l) /\ (l = <<>> => k = Len(q))
        <5>1. Len(q) \in Nat /\ Len(l) \in Nat BY <2>2, <4>3, LenProperties
        <5>2. l = <<>> => Len(l) = 0 BY EmptySeq
        <5> HIDE DEF q, l
        <5> QED BY <4>2, <5>1, <5>2
      <4>6. /\ Sound(t) /\ t.status = seen.status /\ t.start = seen.start
            /\ ConsumedOffset(t) = ConsumedOffset(seen) + k
            /\ k = Len(q) => Unconsumed(t) = <<>>
            /\ AcceptedBy(t, h) = AcceptedBy(seen, h)
            /\ Tracks(t, h)
        <5>1. k \in 0 .. Len(Unconsumed(seen)) /\ t = Consumed(seen, k) BY <4>4, <4>5
        <5> HIDE DEF t, pass, l
        <5> QED BY <1>1, <1>2, <5>1, ConsumedTracks
      <4>7. ConsumedOffset(t) > ConsumedOffset(stream)
        <5>1. ConsumedOffset(seen) = ConsumedOffset(stream) /\ ConsumedOffset(stream) \in Nat
          BY <1>0, <1>1, RestType DEF Extends
        <5> HIDE DEF t, pass, l, q
        <5> QED BY <4>5, <4>6, <5>1
      <4>8. OuterAt(t, AcceptedBy(t, h), frames \o pass.frames, pass.framer)
        <5> HIDE DEF pass, q, t
        <5>1. PICK c \in Seq(Bytes) :
                  /\ A \o q = c \o l
                  /\ \/ Reading(OuterFormat, c, frames \o pass.frames, pass.framer)
                     \/ /\ TooLong(OuterFormat, c, frames \o pass.frames)
                        /\ pass.framer.reason = "LIMIT_EXCEEDED"
          BY <4>2 DEF Stage
        <5>2. CASE Reading(OuterFormat, c, frames \o pass.frames, pass.framer)
          <6>1. l = <<>> BY <4>2, <5>2, ReadingGoesOn
          <6>2. A \o q = c BY <5>1, <6>1, ConcatEmptySeq
          <6>3. Contiguous(t) /\ Unconsumed(t) = <<>>
            BY <2>5, <4>5, <4>6, <6>1 DEF Contiguous, Closed
          <6> QED BY <2>3, <4>6, <5>2, <6>2, <6>3 DEF OuterAt
        <5>3. CASE /\ TooLong(OuterFormat, c, frames \o pass.frames)
                   /\ pass.framer.reason = "LIMIT_EXCEEDED"
          <6>1. TooLong(OuterFormat, A \o q, frames \o pass.frames)
            <7> HIDE DEF l
            <7> QED BY <1>0, <4>3, <5>1, <5>3, TooLongKept
          <6> QED BY <2>3, <4>6, <5>3, <6>1 DEF OuterAt
        <5> QED BY <5>1, <5>2, <5>3
      <4> HIDE DEF pass, t
      <4> QED BY <2>1, <4>3, <4>6, <4>7, <4>8 DEF FramedAfter, pass, t
    <3> QED BY <3>3, <3>4
  <2> QED BY <2>4, <2>5
<1>13. CASE TooLong(OuterFormat, A, frames) /\ outer.reason = "LIMIT_EXCEEDED"
  <2>1. FramingReason(seen) = "LIMIT_EXCEEDED" /\ Available(seen) = <<>>
    BY <1>13 DEF FramingReason, Available, NoReason
  <2>2. PICK q \in Seq(Bytes) : Unconsumed(seen) = Unconsumed(stream) \o q BY <1>1 DEF Extends
  <2>3. AcceptedBy(seen, h) = A \o q BY <1>6, <2>2
  <2>4. TooLong(OuterFormat, A \o q, frames) BY <1>0, <1>4, <1>13, TooLongKept
  <2>5. OuterAt(t, AcceptedBy(t, h), frames, pass.framer)
    <3>1. AcceptedBy(t, h) = A \o q /\ pass.framer.reason = "LIMIT_EXCEEDED" BY <1>10, <2>1, <2>3
    <3> HIDE DEF pass, t
    <3> QED BY <2>4, <3>1 DEF OuterAt
  <2> QED BY <1>11, <2>1, <2>5 DEF NoReason
<1>14. CASE ~Contiguous(stream) /\ outer.reason = stream.status /\ frames = Cut(OuterFormat, A)
  <2>1. seen.status = stream.status /\ SameBuffer(stream, seen) /\ ~Contiguous(seen)
    BY <1>1, <1>14 DEF Contiguous, Closed
  <2>2. AcceptedBy(seen, h) = A BY <1>7, <2>1, SameBufferUnconsumed
  <2>3. FramingReason(seen) = seen.status /\ Available(seen) = <<>>
    BY <1>8, <1>14, <2>1 DEF FramingReason, Available
  <2>4. OuterAt(t, AcceptedBy(t, h), frames, pass.framer)
    <3>1. AcceptedBy(t, h) = A /\ pass.framer.reason = seen.status /\ t.status = seen.status
      BY <1>10, <2>2, <2>3
    <3> HIDE DEF pass, t
    <3> QED BY <1>14, <2>1, <3>1 DEF OuterAt, Contiguous, Closed
  <2> QED BY <1>8, <1>11, <2>3, <2>4
<1> QED BY <1>0, <1>12, <1>13, <1>14 DEF OuterAt

(* Where the framing of the handshake messages stands after the records.     *)
Unread(framer) == [framer |-> framer, frames |-> <<>>, left |-> <<>>]

(* The messages are framed up to the records so far, or are final.           *)
MessagesAt(F, M, framer, reason) ==
    \/ Messaged(Joined(F), M, Unread(framer)) /\ (reason # NoReason => framer.reason # NoReason)
    \/ /\ reason # NoReason /\ framer.reason # NoReason
       /\ M = Cut(MessageFormat, Joined(F))

MessagesInv ==
    IF protocol = "TLS" THEN MessagesAt(frames, messages, inner, outer.reason) ELSE messages = <<>>

(* A pass that is done becomes the state the next one starts from.           *)
LEMMA MessagesStand ==
    ASSUME NEW j, NEW M \in Seq(FrameRecords), NEW z, Messaged(j, M, z)
    PROVE  Messaged(j, M \o z.frames, Unread(z.framer)) /\ M \o z.frames \in Seq(FrameRecords)
<1>1. z \in Passes /\ z.framer \in Framers /\ z.frames \in Seq(FrameRecords) BY DEF Messaged, Passes
<1>2. M \o z.frames \in Seq(FrameRecords) BY <1>1, ConcatProperties
<1> DEFINE G == M \o z.frames
<1>3. G \o <<>> = G BY <1>2, ConcatEmptySeq
<1>4. Unread(z.framer) \in Passes
  <2>1. <<>> \in Seq(FrameRecords) /\ <<>> \in Seq(Bytes) BY EmptySeq
  <2> QED BY <1>1, <2>1 DEF Unread, Passes
<1>5. Unread(z.framer).framer = z.framer /\ Unread(z.framer).frames = <<>> BY DEF Unread
<1> HIDE DEF G
<1>6. Messaged(j, G, Unread(z.framer)) BY <1>3, <1>4, <1>5 DEF Messaged, G
<1> QED BY <1>2, <1>6 DEF G

(* The records of a segment keep the framing of messages in step.            *)
LEMMA HandshakesFramed ==
    ASSUME FramedTypes, NEW t, NEW pass, pass.frames \in Seq(FrameRecords), pass.framer \in Framers,
           protocol = "TLS", MessagesAt(frames, messages, inner, outer.reason),
           pass.frames # <<>> => ConsumedOffset(t) > ConsumedOffset(stream),
           outer.reason # NoReason => pass.frames = <<>> /\ pass.framer.reason # NoReason
    PROVE  LET inside == Handshaken(t, pass)
           IN /\ inside.framer \in Framers
              /\ messages \o inside.frames \in Seq(FrameRecords)
              /\ MessagesAt(frames \o pass.frames, messages \o inside.frames,
                            inside.framer, pass.framer.reason)
<1> DEFINE R == pass.frames
           G == frames \o R
           start == Unread(inner)
           reason == pass.framer.reason
           z == RecordsFramed(start, R)
           w == [z EXCEPT !.framer.reason = reason]
           inside == Handshaken(t, pass)
<1>0. frames \in Seq(FrameRecords) /\ messages \in Seq(FrameRecords) /\ R \in Seq(FrameRecords)
      /\ inner \in Framers
  BY DEF FramedTypes
<1>1. inside = IF z.framer.reason = NoReason THEN w ELSE z
  <2> DEFINE unread == IF ConsumedOffset(t) > ConsumedOffset(stream) THEN R ELSE <<>>
  <2>1. unread = R OBVIOUS
  <2>2. inside = IF RecordsFramed(start, unread).framer.reason = NoReason
                 THEN [RecordsFramed(start, unread) EXCEPT !.framer.reason = reason]
                 ELSE RecordsFramed(start, unread)
    BY DEF Handshaken, InnerFramed, RecordsFramed, Unread
  <2> HIDE DEF unread, inside
  <2> QED BY <2>1, <2>2
<1>2. reason \in Reasons BY DEF Framers
<1>3. CASE Messaged(Joined(frames), messages, start) /\ (outer.reason # NoReason => inner.reason # NoReason)
  <2>1. Messaged(Joined(G), messages, z)
    <3> HIDE DEF start, R
    <3> QED BY <1>0, <1>3, RecordsFramedIs DEF R
  <2> HIDE DEF z, inside, start, G
  <2>2. /\ Messaged(Joined(G), messages \o z.frames, Unread(z.framer))
        /\ messages \o z.frames \in Seq(FrameRecords)
    BY <1>0, <2>1, MessagesStand
  <2>3. z \in Passes /\ z.framer \in Framers /\ z.frames \in Seq(FrameRecords) BY <2>1 DEF Messaged, Passes
  <2>4. CASE z.framer.reason # NoReason
    <3>1. inside = z BY <1>1, <2>4
    <3> QED BY <2>2, <2>3, <2>4, <3>1 DEF MessagesAt, inside, G
  <2>5. CASE z.framer.reason = NoReason
    <3>1. /\ inside = w /\ w.frames = z.frames /\ w.framer = [z.framer EXCEPT !.reason = reason]
      BY <1>1, <2>3, <2>5 DEF Passes
    <3>2. w.framer \in Framers /\ w.framer.reason = reason BY <1>2, <2>3, <3>1 DEF Framers
    <3>3. CASE reason = NoReason
      <4>1. w.framer = z.framer BY <2>3, <2>5, <3>1, <3>3 DEF Framers
      <4> QED BY <2>2, <2>3, <3>1, <3>3, <4>1 DEF MessagesAt, inside, G
    <3>4. CASE reason # NoReason
      <4>1. Reading(MessageFormat, Joined(G), messages \o z.frames, z.framer)
        BY <2>1, <2>5 DEF Messaged, NoReason
      <4>2. Joined(G) \in Seq(Bytes)
        <5>1. G \in Seq(FrameRecords) BY <1>0, ConcatProperties DEF G
        <5> QED BY <5>1, JoinedType
      <4>3. MessageFormat \in Formats BY FormatsAssumption
      <4>4. messages \o z.frames = Cut(MessageFormat, Joined(G)) BY <2>3, <4>1, <4>2, <4>3, ReadingIsCut
      <4> HIDE DEF w
      <4> QED BY <2>2, <3>1, <3>2, <3>4, <4>4 DEF MessagesAt, inside, G
    <3> QED BY <3>3, <3>4
  <2> QED BY <2>4, <2>5
<1>4. CASE outer.reason # NoReason /\ inner.reason # NoReason /\ messages = Cut(MessageFormat, Joined(frames))
  <2>1. R = <<>> /\ reason # NoReason BY <1>4
  <2>2. G = frames BY <1>0, <2>1, ConcatEmptySeq
  <2>3. z = start
    <3> DEFINE C == {start}
    <3>1. \A v \in C : \A r \in FrameRecords : RecordFramed(v, r) \in C
      <4>1. start.framer.reason # NoReason BY <1>4 DEF Unread
      <4> QED BY <4>1 DEF RecordFramed
    <3>2. start \in C OBVIOUS
    <3> HIDE DEF C, start, R
    <3>3. PICK a : /\ Passing(a, C, start, Len(R)) /\ RecordsFramed(start, R) = a[Len(R)]
                   /\ \A k \in 1 .. Len(R) : a[k] = RecordFramed(a[k - 1], R[k])
      BY <1>0, <3>1, <3>2, RecordsFolds
    <3>4. Len(R) = 0 BY <2>1, EmptySeq
    <3> QED BY <3>3, <3>4 DEF Passing
  <2>4. start.framer = inner /\ start.frames = <<>> BY DEF Unread
  <2>5. start.framer.reason # NoReason BY <1>4, <2>4
  <2> HIDE DEF z, w, start
  <2>6. inside = start BY <1>1, <2>3, <2>5
  <2> HIDE DEF inside
  <2>7. messages \o inside.frames = messages
    <3>1. messages \o <<>> = messages BY <1>0, ConcatEmptySeq
    <3> QED BY <2>4, <2>6, <3>1
  <2>8. MessagesAt(G, messages, inner, reason)
    <3> HIDE DEF G
    <3> QED BY <1>4, <2>1, <2>2 DEF MessagesAt
  <2> HIDE DEF G
  <2> QED BY <1>0, <2>4, <2>6, <2>7, <2>8 DEF inside, G
<1> QED BY <1>3, <1>4 DEF MessagesAt

(* The inductive invariant.                                                  *)
FramedInv == StreamInv /\ MessagesInv

LEMMA InitFramed == FramedInit => FramedInv
<1> SUFFICES ASSUME FramedInit PROVE FramedInv OBVIOUS
<1> DEFINE none == <<>>
<1>1. TCPInit /\ protocol \in {"DNS", "TLS"} /\ outer = Idle /\ inner = Idle /\ frames = none /\ messages = none
  BY DEF FramedInit
<1>2. SenderOK /\ Sound(stream) BY <1>1, InitInv DEF TCPInv
<1>3. Tracks(stream, first) BY <1>1, InitTracking DEF TCPInit, Tracking
<1>4. none \in Seq(FrameRecords) /\ none \in Seq(Bytes) /\ Len(none) = 0 BY EmptySeq
<1>5. Idle \in Framers
  <2>1. NoReason \in Reasons BY DEF Reasons
  <2> QED BY <1>4, <2>1 DEF Idle, Framers
<1>6. FramedTypes BY <1>1, <1>4, <1>5 DEF FramedTypes
<1>7. ASSUME NEW format \in Formats PROVE Reading(format, none, none, Idle)
  <2>1. FramesUpTo(format, none, none, 1)
    <3> DEFINE b == [i \in 0 .. 0 |-> 1]
    <3>1. 1 \in 1 .. Len(none) + 1 /\ 0 .. Len(none) = 0 .. 0 /\ 1 .. Len(none) = {} BY <1>4
    <3>2. b \in [0 .. Len(none) -> 1 .. Len(none) + 1] /\ b[0] = 1 /\ b[Len(none)] = 1 BY <1>4, <3>1
    <3> HIDE DEF b, none
    <3> QED BY <1>4, <3>1, <3>2 DEF FramesUpTo
  <2>2. SubSeq(none, 1, Len(none)) = none
    <3> HIDE DEF none
    <3> QED BY <1>4, SubSeqFull
  <2>3. Len(none) < format.header BY <1>4 DEF Formats
  <2>4. /\ Idle.header = <<>> /\ Idle.payload = <<>> /\ Idle.reason = NoReason /\ Idle.prefix = none
    BY DEF Idle
  <2>5. 1 \in 1 .. Len(none) + 1 BY <1>4
  <2>6. Awaiting(format, none, none, Idle)
    <3> HIDE DEF none
    <3> QED BY <2>1, <2>2, <2>3, <2>4, <2>5 DEF Awaiting
  <2> QED BY <2>6 DEF Reading
<1>8. /\ stream.payload = none /\ stream.consumed = 0 /\ stream.offset = 0 /\ stream.status = "OPEN"
      /\ first = 0
  BY <1>1 DEF TCPInit, Fresh
<1>9. Unconsumed(stream) = none /\ Contiguous(stream)
  <2>1. Unconsumed(stream) \in Seq(Bytes) /\ Len(Unconsumed(stream)) = Len(stream.payload) - stream.consumed
    BY <1>2, RestType
  <2>2. Len(Unconsumed(stream)) = 0 BY <1>4, <1>8, <2>1
  <2> QED BY <1>8, <2>1, <2>2, EmptySeq DEF Contiguous
<1>10. AcceptedBy(stream, first) = none
  <2>1. /\ AcceptedBy(stream, first) \in Seq(Bytes)
        /\ Len(AcceptedBy(stream, first)) = stream.offset + Len(stream.payload)
    BY <1>2, <1>3, AcceptedIs
  <2>2. Len(AcceptedBy(stream, first)) = 0 BY <1>4, <1>8, <2>1
  <2> QED BY <2>1, <2>2, EmptySeq
<1>11. OuterAt(stream, AcceptedBy(stream, first), frames, outer)
  <2>1. Reading(OuterFormat, none, none, Idle) BY <1>7, OuterFormatType
  <2> HIDE DEF none
  <2> QED BY <1>1, <1>9, <1>10, <2>1 DEF OuterAt, none
<1>12. MessagesInv
  <2>1. CASE protocol = "TLS"
    <3>1. Messaged(none, none \o none, Unread(Idle))
      <4>1. Reading(MessageFormat, none, none, Idle) BY <1>7, FormatsAssumption
      <4>2. Unread(Idle) \in Passes BY <1>4, <1>5 DEF Unread, Passes
      <4>3. Unread(Idle).framer = Idle /\ Unread(Idle).frames = none BY DEF Unread
      <4>4. (none \o none) \o none = none /\ none \o none = none
        <5> HIDE DEF none
        <5> QED BY <1>4, ConcatEmptySeq DEF none
      <4> HIDE DEF none
      <4> QED BY <4>1, <4>2, <4>3, <4>4 DEF Messaged
    <3>2. none \o none = none
      <4> HIDE DEF none
      <4> QED BY <1>4, ConcatEmptySeq DEF none
    <3>3. outer.reason = NoReason BY <1>1 DEF Idle
    <3>4. Joined(frames) = none BY <1>1, JoinedNothing
    <3> HIDE DEF none
    <3> QED BY <1>1, <2>1, <3>1, <3>2, <3>3, <3>4 DEF MessagesInv, MessagesAt
  <2>2. CASE protocol # "TLS" BY <1>1, <2>2 DEF MessagesInv
  <2> QED BY <2>1, <2>2
<1> QED BY <1>2, <1>3, <1>6, <1>11, <1>12 DEF FramedInv, StreamInv

(* The segments of FrameSegment are the sender's.                            *)
LEMMA SegmentArrives ==
    ASSUME SenderOK, NEW p \in 0 .. Length, NEW n \in Nat, p + n <= Length,
           NEW syn \in {FALSE, p = 0}, NEW fin \in {FALSE, p + n = Length}
    PROVE  Genuine(Segment(p, n, syn, fin, FALSE, FALSE), p, n)
<1>1. PICK a \in BOOLEAN : syn = (a /\ p = 0) BY Zenon
<1>2. PICK b \in BOOLEAN : fin = (b /\ p + n = Length) BY Zenon
<1>3. Segment(p, n, syn, fin, FALSE, FALSE) \in Segments(p, n)
  <2>1. Segment(p, n, a /\ p = 0, b /\ p + n = Length, FALSE, FALSE) \in Segments(p, n)
    <3> DEFINE x == Segment(p, n, a /\ p = 0, b /\ p + n = Length, FALSE, FALSE)
    <3>1. \E u, v, r, q \in BOOLEAN : x = Segment(p, n, u /\ p = 0, v /\ p + n = Length, r, q)
      BY Zenon
    <3> HIDE DEF x
    <3>2. x \in Segments(p, n) BY <3>1, SMT DEF Segments
    <3> QED BY <3>2 DEF x
  <2> QED BY <1>1, <1>2, <2>1, Zenon
<1> QED BY <1>3, SegmentsGenuine

(* A step keeps the invariant.                                               *)
LEMMA FramedPreserved ==
    ASSUME FramedInv, NEW p \in 0 .. Length, NEW n \in 1 .. MaxSegment, FrameSegment(p, n)
    PROVE  FramedInv'
<1>1. PICK syn \in {FALSE, p = 0}, fin \in {FALSE, p + n = Length} :
          \E seen \in {Observed(stream, Segment(p, n, syn, fin, FALSE, FALSE))} :
          \E pass \in {OuterFramed(seen)} :
          \E inside \in {Handshaken(OuterConsumed(seen, pass), pass)} :
             /\ stream' = OuterConsumed(seen, pass)
             /\ outer' = pass.framer
             /\ frames' = frames \o pass.frames
             /\ inner' = inside.framer
             /\ messages' = messages \o inside.frames
  BY Zenon DEF FrameSegment
<1> DEFINE g == Segment(p, n, syn, fin, FALSE, FALSE)
           seen == Observed(stream, g)
           pass == OuterFramed(seen)
           t == OuterConsumed(seen, pass)
           inside == Handshaken(t, pass)
           h == First(stream, seen, p, first)
<1>2. /\ stream' = t /\ outer' = pass.framer /\ frames' = frames \o pass.frames
      /\ inner' = inside.framer /\ messages' = messages \o inside.frames
  BY <1>1, Zenon
<1>3. p + n <= Length /\ Took(p) /\ UNCHANGED <<sent, isn, protocol>> BY DEF FrameSegment
<1>4. StreamInv /\ MessagesInv /\ SenderOK /\ FramedTypes BY DEF FramedInv, StreamInv
<1>5. Genuine(g, p, n)
  <2>1. n \in Nat BY WindowAssumption
  <2>2. p + n <= Length /\ SenderOK BY <1>3, <1>4
  <2> QED BY <2>1, <2>2, SegmentArrives, Zenon
<1> HIDE DEF g
<1>6. FramedAfter(seen, h) BY <1>4, <1>5, SegmentFramed
<1> HIDE DEF seen, h
<1>7. /\ Sound(t) /\ Tracks(t, h) /\ t.start = seen.start
      /\ pass.framer \in Framers /\ pass.frames \in Seq(FrameRecords)
      /\ OuterAt(t, AcceptedBy(t, h), frames \o pass.frames, pass.framer)
      /\ pass.frames # <<>> => ConsumedOffset(t) > ConsumedOffset(stream)
      /\ outer.reason # NoReason => pass.frames = <<>> /\ pass.framer.reason # NoReason
  BY <1>6 DEF FramedAfter
<1> HIDE DEF t, pass, inside
<1>8. first' = h BY <1>2, <1>3, <1>7 DEF Took, First, h
<1>9. frames \o pass.frames \in Seq(FrameRecords) BY <1>4, <1>7, ConcatProperties DEF FramedTypes
<1>10. /\ inner' \in Framers /\ messages' \in Seq(FrameRecords) /\ MessagesInv'
  <2>1. CASE protocol = "TLS"
    <3>1. MessagesAt(frames, messages, inner, outer.reason) BY <1>4, <2>1 DEF MessagesInv
    <3>2. /\ inside.framer \in Framers
          /\ messages \o inside.frames \in Seq(FrameRecords)
          /\ MessagesAt(frames \o pass.frames, messages \o inside.frames, inside.framer, pass.framer.reason)
      BY <1>4, <1>7, <2>1, <3>1, HandshakesFramed DEF inside
    <3>3. MessagesAt(frames', messages', inner', outer'.reason) BY <1>2, <3>2
    <3>4. MessagesInv' BY <1>3, <2>1, <3>3 DEF MessagesInv
    <3> QED BY <1>2, <3>2, <3>4
  <2>2. CASE protocol # "TLS"
    <3>1. inside = [framer |-> inner, frames |-> <<>>, left |-> <<>>] BY <2>2 DEF Handshaken, inside
    <3>2. messages = <<>> BY <1>4, <2>2 DEF MessagesInv
    <3>3. <<>> \o <<>> = <<>> /\ <<>> \in Seq(FrameRecords) BY EmptySeq, ConcatEmptySeq
    <3>4. messages' = <<>> /\ inner' = inner BY <1>2, <3>1, <3>2, <3>3
    <3> QED BY <1>3, <1>4, <2>2, <3>3, <3>4 DEF MessagesInv, FramedTypes
  <2> QED BY <2>1, <2>2
<1>11. FramedTypes' BY <1>2, <1>3, <1>4, <1>7, <1>9, <1>10 DEF FramedTypes
<1>12. SenderOK' /\ Sound(stream') /\ Tracks(stream, first)'
  <2>1. Tracks(stream', first') BY <1>2, <1>7, <1>8
  <2>2. Tracks(stream, first)' BY <1>3, <2>1, TracksPrimed
  <2> QED BY <1>2, <1>3, <1>4, <1>7, <2>2 DEF SenderOK
<1>13. OuterAt(stream, AcceptedBy(stream, first), frames, outer)'
  <2>1. OuterFormat' = OuterFormat BY <1>3 DEF OuterFormat
  <2>2. (AcceptedBy(stream, first))' = AcceptedBy(t, h) BY <1>2, <1>3, <1>8 DEF AcceptedBy, End
  <2> QED BY <1>2, <1>7, <2>1, <2>2 DEF OuterAt
<1>14. Sound(stream)' BY <1>12 DEF Sound
<1> QED BY <1>10, <1>11, <1>12, <1>13, <1>14 DEF FramedInv, StreamInv

LEMMA FramedUnchanged ==
    ASSUME FramedInv, UNCHANGED framedVars
    PROVE  FramedInv'
BY DEF FramedInv, StreamInv, MessagesInv, FramedTypes, framedVars, SenderOK, Tracks, OuterAt, OuterFormat, Sound,
       AcceptedBy, End, Begin, SequenceOf, MessagesAt

LEMMA FramedAlways == FramedSpec => []FramedInv
<1>1. ASSUME FramedInv, [FramedNext]_framedVars PROVE FramedInv'
  BY <1>1, FramedPreserved, FramedUnchanged DEF FramedNext
<1> QED BY <1>1, InitFramed, PTL DEF FramedSpec

(* The DNS frames, or the TLS records, are those of the bytes accepted from  *)
(* the sender, however these were cut into segments and whatever was lost or *)
(* repeated; while framing goes on every byte is consumed as it comes, for   *)
(* every format, buffer size and stream                                      *)
(* (dns_stream_framing.py:73-114, tls_record_framing.py:89-135).             *)
THEOREM FramesAreOfStream == FramedSpec => []FramesOfStream
<1>1. ASSUME FramedInv PROVE FramesOfStream
  <2> DEFINE A == AcceptedBy(stream, first)
  <2>1. /\ SenderOK /\ Sound(stream) /\ Tracks(stream, first) /\ outer \in Framers
        /\ OuterAt(stream, A, frames, outer) /\ OuterFormat \in Formats
    BY <1>1, OuterFormatType DEF FramedInv, StreamInv, FramedTypes
  <2>2. A \in Seq(Bytes) BY <2>1, AcceptedIs
  <2>3. A = Accepted BY DEF AcceptedBy, Accepted, End, Reached
  <2> HIDE DEF A
  <2>4. CASE Contiguous(stream) /\ Unconsumed(stream) = <<>> /\ Reading(OuterFormat, A, frames, outer)
    <3>1. frames = Cut(OuterFormat, A) BY <2>1, <2>2, <2>4, ReadingIsCut
    <3>2. stream.status # "LIMIT_EXCEEDED" BY <2>4 DEF Contiguous, Closed
    <3> QED BY <2>3, <2>4, <3>1, <3>2 DEF FramesOfStream
  <2>5. CASE TooLong(OuterFormat, A, frames) /\ outer.reason = "LIMIT_EXCEEDED"
    <3>1. frames = Cut(OuterFormat, A) BY <2>1, <2>2, <2>5, ReadingIsCut
    <3>2. outer.reason # NoReason BY <2>5 DEF NoReason
    <3> QED BY <2>3, <2>5, <3>1, <3>2 DEF FramesOfStream
  <2>6. CASE ~Contiguous(stream) /\ outer.reason = stream.status /\ frames = Cut(OuterFormat, A)
    <3>1. outer.reason # NoReason BY <2>1, <2>6, StatusIsReason
    <3> QED BY <2>3, <2>6, <3>1 DEF FramesOfStream
  <2> QED BY <2>1, <2>4, <2>5, <2>6 DEF OuterAt
<1> QED BY <1>1, FramedAlways, PTL

(* The TLS handshake messages are those of the handshake records joined,     *)
(* however the messages are shared out among the records                     *)
(* (tls_handshake_framing.py:89-138, flow_state_coordinator.py:350-371).     *)
THEOREM MessagesAreOfRecords == FramedSpec => []MessagesOfRecords
<1>1. ASSUME FramedInv PROVE MessagesOfRecords
  <2>1. Fragments = Joined(frames) BY DEF Fragments, Joined, JoinedFrom
  <2>2. FramedTypes /\ MessagesInv BY <1>1 DEF FramedInv, StreamInv
  <2>3. Joined(frames) \in Seq(Bytes) BY <2>2, JoinedType DEF FramedTypes
  <2>4. CASE protocol = "TLS"
    <3>1. MessagesAt(frames, messages, inner, outer.reason) BY <2>2, <2>4 DEF MessagesInv
    <3>2. CASE /\ Messaged(Joined(frames), messages, Unread(inner))
               /\ outer.reason # NoReason => inner.reason # NoReason
      <4>1. messages \o <<>> = messages BY <2>2, ConcatEmptySeq DEF FramedTypes
      <4>2. \/ Reading(MessageFormat, Joined(frames), messages, inner)
            \/ TooLong(MessageFormat, Joined(frames), messages)
        BY <3>2, <4>1 DEF Messaged, Unread
      <4>3. messages = Cut(MessageFormat, Joined(frames))
        BY <2>2, <2>3, <4>2, FormatsAssumption, ReadingIsCut DEF FramedTypes
      <4> QED BY <2>1, <2>4, <3>2, <4>3 DEF MessagesOfRecords
    <3>3. CASE /\ outer.reason # NoReason /\ inner.reason # NoReason
               /\ messages = Cut(MessageFormat, Joined(frames))
      BY <2>1, <2>4, <3>3 DEF MessagesOfRecords
    <3> QED BY <3>1, <3>2, <3>3 DEF MessagesAt
  <2>5. CASE protocol # "TLS" BY <2>2, <2>5 DEF MessagesInv, MessagesOfRecords
  <2> QED BY <2>4, <2>5
<1> QED BY <1>1, FramedAlways, PTL
=============================================================================
