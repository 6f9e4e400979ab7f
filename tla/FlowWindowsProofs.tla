------------------------- MODULE FlowWindowsProofs --------------------------
(***************************************************************************)
(* Proofs about the observation windows, for every set of flows and        *)
(* timestamps, every timeout and every capacity.  First the window         *)
(* manager, and that it implements WindowLedger; then the stream that      *)
(* delivers what is detected in the windows, for every choice of flows by  *)
(* protocol and every point at which the source, a detector, the manager   *)
(* or a consumer may raise: every step of the stream is one of the         *)
(* manager, or leaves it alone, so that the invariants of the manager hold *)
(* in the stream.                                                          *)
(***************************************************************************)
EXTENDS DetectionDelivery, FlowWindowsRefinement, FiniteSetTheorems,
        SequenceTheorems, TLAPS

(* What record() has computed still fits the state it was computed from.     *)
Fits(c) ==
    /\ ~ended
    /\ latest <= c.time
    /\ c.stats.last = c.time
    /\ c.fresh =>
          /\ c.seq = nextSeq
          /\ c.stats = StartStatistics(c.time)
          /\ \/ c.closed = <<>> /\ c.flow \notin DOMAIN active
                                /\ Cardinality(DOMAIN active) # MaxActive
             \/ /\ c.flow \in DOMAIN active
                /\ Expired(c.flow, c.time)
                /\ c.closed = <<ClosedWindow(c.flow, "INACTIVITY")>>
             \/ /\ c.flow \notin DOMAIN active
                /\ Cardinality(DOMAIN active) = MaxActive
                /\ \E v \in CapacityVictims : c.closed = <<ClosedWindow(v, "CAPACITY")>>
    /\ ~c.fresh =>
          /\ c.closed = <<>>
          /\ c.flow \in DOMAIN active
          /\ ~Expired(c.flow, c.time)
          /\ c.seq = active[c.flow].seq
          /\ c.stats = UpdateStatistics(active[c.flow].stats, c.time)

InFlightFits == \A c \in inFlight : Fits(c)

(* The statistics of a window are those of a window. *)
LEMMA StatisticsType ==
    /\ \A t \in Times : StartStatistics(t) \in Statistics
    /\ \A s \in Statistics, t \in Times : UpdateStatistics(s, t) \in Statistics
<1>1. \A t \in Times : StartStatistics(t) \in Statistics
  BY DEF StartStatistics, Statistics
<1>2. ASSUME NEW s \in Statistics, NEW t \in Times
      PROVE  UpdateStatistics(s, t) \in Statistics
  <2>a. s.count \in Nat \ {0} /\ s.last \in Times /\ s.maxGap \in Nat
    BY DEF Statistics
  <2>b. s.count + 1 \in Nat \ {0}
    BY <2>a
  <2>1. s.last \in Nat /\ t \in Nat
    BY <2>a, TimesAssumption
  <2>2. (IF t - s.last > s.maxGap THEN t - s.last ELSE s.maxGap) \in Nat
    BY <2>a, <2>1
  <2> QED BY <2>a, <2>b, <2>2 DEF UpdateStatistics, Statistics
<1> QED BY <1>1, <1>2

LEMMA ClosedWindowType ==
    ASSUME TypeOK, NEW f \in DOMAIN active, NEW r \in Reasons
    PROVE  ClosedWindow(f, r) \in Windows
BY DEF TypeOK, ClosedWindow, Windows, Entries

(* Whatever branch record() takes, it leaves a well-typed candidate that fits *)
(* the state, and nothing else.                                               *)
Prepares(c) ==
    /\ Fits(c)
    /\ inFlight' = {c}
    /\ result' = "none"
    /\ UNCHANGED <<managerVars, historyVars>>

LEMMA RecordPrepares ==
    ASSUME TypeOK, NEW f \in Flows, NEW t \in Times, Record(f, t)
    PROVE  \E c \in Candidates : Prepares(c)
<1>0. latest <= t /\ ~ended
  <2>1. CanRecord(t)
    BY DEF Record, PrepareContinue, PrepareAfterInactivity, PrepareUnseen, PrepareAtCapacity
  <2>2. t \in Int /\ latest \in Int
    BY TimesAssumption DEF TypeOK, NoTime
  <2> QED BY <2>1, <2>2 DEF CanRecord, Refused
<1> DEFINE new(closed) == [flow |-> f, time |-> t, fresh |-> TRUE, seq |-> nextSeq,
                           stats |-> StartStatistics(t), closed |-> closed]
<1>a. ASSUME NEW closed \in Seq(Windows) PROVE new(closed) \in Candidates
  BY StatisticsType DEF TypeOK, Candidates
<1>b. StartStatistics(t).last = t
  BY DEF StartStatistics
<1>1. CASE PrepareContinue(f, t)
  <2> DEFINE c == [flow |-> f, time |-> t, fresh |-> FALSE, seq |-> active[f].seq,
                   stats |-> UpdateStatistics(active[f].stats, t), closed |-> <<>>]
  <2>1. f \in DOMAIN active /\ active[f] \in Entries BY <1>1 DEF TypeOK, PrepareContinue
  <2>2. UpdateStatistics(active[f].stats, t) \in Statistics BY <2>1, StatisticsType DEF Entries
  <2>3. c \in Candidates BY <2>1, <2>2 DEF Candidates, Entries
  <2>4. c.stats.last = t BY <2>1 DEF UpdateStatistics, Entries, Statistics
  <2>5. Fits(c) BY <1>0, <1>1, <2>1, <2>4 DEF Fits, PrepareContinue
  <2>6. inFlight' = {c} /\ result' = "none" /\ UNCHANGED <<managerVars, historyVars>>
    BY <1>1 DEF PrepareContinue, Prepare
  <2> QED BY <2>3, <2>5, <2>6 DEF Prepares
<1>2. CASE PrepareAfterInactivity(f, t)
  <2> DEFINE w == ClosedWindow(f, "INACTIVITY")
  <2>1. w \in Windows BY <1>2, ClosedWindowType DEF PrepareAfterInactivity, Reasons
  <2>2. inFlight' = {new(<<w>>)} /\ result' = "none" /\ UNCHANGED <<managerVars, historyVars>>
    BY <1>2 DEF PrepareAfterInactivity, PrepareNewWindow, Prepare
  <2>3. Fits(new(<<w>>)) BY <1>0, <1>b, <1>2 DEF Fits, PrepareAfterInactivity
  <2> HIDE DEF w
  <2>4. <<w>> \in Seq(Windows) BY <2>1
  <2> QED BY <1>a, <2>2, <2>3, <2>4 DEF Prepares
<1>3. CASE PrepareUnseen(f, t)
  <2>1. <<>> \in Seq(Windows) OBVIOUS
  <2>2. inFlight' = {new(<<>>)} /\ result' = "none" /\ UNCHANGED <<managerVars, historyVars>>
    BY <1>3 DEF PrepareUnseen, PrepareNewWindow, Prepare
  <2>3. Fits(new(<<>>)) BY <1>0, <1>b, <1>3 DEF Fits, PrepareUnseen
  <2> QED BY <1>a, <2>1, <2>2, <2>3 DEF Prepares
<1>4. CASE PrepareAtCapacity(f, t)
  <2>1. PICK v \in CapacityVictims : PrepareNewWindow(f, t, <<ClosedWindow(v, "CAPACITY")>>)
    BY <1>4 DEF PrepareAtCapacity
  <2> DEFINE w == ClosedWindow(v, "CAPACITY")
  <2>2. w \in Windows BY ClosedWindowType DEF Reasons, CapacityVictims
  <2>3. inFlight' = {new(<<w>>)} /\ result' = "none" /\ UNCHANGED <<managerVars, historyVars>>
    BY <2>1 DEF PrepareNewWindow, Prepare
  <2>4. Fits(new(<<w>>)) BY <1>0, <1>b, <1>4 DEF Fits, PrepareAtCapacity
  <2> HIDE DEF w
  <2>5. <<w>> \in Seq(Windows) BY <2>2
  <2> QED BY <1>a, <2>3, <2>4, <2>5 DEF Prepares
<1> QED BY <1>1, <1>2, <1>3, <1>4 DEF Record

LEMMA InitType == Init => TypeOK
<1> SUFFICES ASSUME Init PROVE TypeOK
  OBVIOUS
<1>1. DOMAIN active = {}
  BY DEF Init
<1>2. active \in [DOMAIN active -> Entries]
  BY <1>1 DEF Init
<1>3. emitted \in Seq(Windows) /\ log \in Seq(Admissions)
  BY DEF Init
<1> QED BY <1>1, <1>2, <1>3 DEF Init, TypeOK

LEMMA TypeStep == TypeOK /\ InFlightFits /\ IsFiniteSet(DOMAIN active) /\ [Next]_vars => TypeOK'
<1> SUFFICES ASSUME TypeOK, InFlightFits, IsFiniteSet(DOMAIN active), [Next]_vars
             PROVE  TypeOK'
  OBVIOUS
<1>1. ASSUME NEW f \in Flows, NEW t \in Times, Record(f, t)
      PROVE  TypeOK'
  <2>1. PICK c \in Candidates : Prepares(c) BY <1>1, RecordPrepares
  <2> QED BY <2>1 DEF TypeOK, Prepares, managerVars, historyVars
<1>5. CASE \E t \in Times : RefuseRecord(t)
  BY <1>5 DEF RefuseRecord, TypeOK, managerVars, historyVars
<1>6. CASE FailRecord
  BY <1>6 DEF FailRecord, TypeOK, managerVars, historyVars
<1>7. CASE PublishContinue
  <2>1. PICK c \in inFlight : ~c.fresh /\ active' = [active EXCEPT ![c.flow].stats = c.stats] /\ UNCHANGED nextSeq /\ Return(c)
    BY <1>7 DEF PublishContinue
  <2>2. c \in Candidates BY DEF TypeOK
  <2>3. c.flow \in DOMAIN active BY <2>1 DEF InFlightFits, Fits
  <2>4. DOMAIN active' \subseteq Flows /\ active' \in [DOMAIN active' -> Entries]
    BY <2>1, <2>2, <2>3 DEF TypeOK, Candidates, Entries
  <2>5. emitted' \in Seq(Windows) /\ log' \in Seq(Admissions)
    BY <2>1, <2>2 DEF TypeOK, Return, Candidates, Admissions
  <2> QED BY <2>1, <2>2, <2>4, <2>5 DEF TypeOK, Return, Candidates
<1>8. CASE PublishNew
  <2>1. PICK c \in inFlight : c.fresh /\ active' = Published(c) /\ nextSeq' = nextSeq + 1 /\ Return(c)
    BY <1>8 DEF PublishNew
  <2>2. c \in Candidates BY DEF TypeOK
  <2>4. DOMAIN active' \subseteq Flows /\ active' \in [DOMAIN active' -> Entries]
    BY <2>1, <2>2 DEF TypeOK, Candidates, Entries, Published
  <2>5. emitted' \in Seq(Windows) /\ log' \in Seq(Admissions)
    BY <2>1, <2>2 DEF TypeOK, Return, Candidates, Admissions
  <2> QED BY <2>1, <2>2, <2>4, <2>5 DEF TypeOK, Return, Candidates
<1>9. ASSUME NEW f \in Flows, Close(f)
      PROVE  TypeOK'
  <2>1. ClosedWindow(f, "EXPLICIT_SEGMENTATION") \in Windows
    BY <1>9, ClosedWindowType DEF Close, Reasons
  <2>2. DOMAIN active' \subseteq Flows /\ active' \in [DOMAIN active' -> Entries]
    BY <1>9 DEF TypeOK, Close, WithoutFlow
  <2> QED BY <1>9, <2>1, <2>2 DEF Close, TypeOK
<1>10. CASE \E f \in Flows : RefuseClose(f)
  BY <1>10 DEF RefuseClose, TypeOK, managerVars, historyVars
<1>11. CASE EndSession
  <2>1. PICK order \in ClosingOrders :
           emitted' = emitted \o [i \in DOMAIN order |-> ClosedWindow(order[i], "CAPTURE_SESSION_END")]
    BY <1>11 DEF EndSession
  <2> DEFINE n == Cardinality(DOMAIN active)
             tail == [i \in DOMAIN order |-> ClosedWindow(order[i], "CAPTURE_SESSION_END")]
  <2>2. n \in Nat BY FS_CardinalityType
  <2>3. DOMAIN order = 1 .. n /\ \A i \in 1 .. n : order[i] \in DOMAIN active
    BY DEF ClosingOrders
  <2>4. \A i \in 1 .. n : ClosedWindow(order[i], "CAPTURE_SESSION_END") \in Windows
    BY <2>3, ClosedWindowType DEF Reasons
  <2>5. tail \in [1 .. n -> Windows] BY <2>3, <2>4
  <2>6. tail \in Seq(Windows) BY <2>2, <2>5
  <2>7. emitted' \in Seq(Windows) BY <2>1, <2>6 DEF TypeOK
  <2>8. DOMAIN active' \subseteq Flows /\ active' \in [DOMAIN active' -> Entries]
    BY <1>11 DEF EndSession
  <2> QED BY <1>11, <2>7, <2>8 DEF EndSession, TypeOK
<1>12. CASE EndAgain
  BY <1>12 DEF EndAgain, TypeOK, managerVars, historyVars
<1>13. CASE UNCHANGED vars
  BY <1>13 DEF vars, TypeOK, managerVars, historyVars
<1> QED
  BY <1>1, <1>5, <1>6, <1>7, <1>8, <1>9, <1>10, <1>11, <1>12, <1>13 DEF Next

-----------------------------------------------------------------------------
(***************************************************************************)
(* The shapes of a step.  Seen from the windows, a step of the manager     *)
(* does one of four things: nothing, file a packet in the open window of   *)
(* its flow, open a window and file the packet there (letting a set R of   *)
(* at most one window go), or let the windows of a set R of flows go.      *)
(***************************************************************************)
(* The windows of the flows R are handed out, each once, after all others.   *)
HandsOut(R) ==
    /\ Len(emitted') >= Len(emitted)
    /\ \A i \in 1 .. Len(emitted) : emitted'[i] = emitted[i]
    /\ \A i \in Len(emitted) + 1 .. Len(emitted') : \E g \in R :
          /\ emitted'[i].flow = g
          /\ emitted'[i].seq = active[g].seq
          /\ emitted'[i].stats = active[g].stats
    /\ \A g \in R : \E i \in Len(emitted) + 1 .. Len(emitted') :
          /\ emitted'[i].flow = g
          /\ emitted'[i].seq = active[g].seq
          /\ emitted'[i].stats = active[g].stats
    /\ \A i, j \in Len(emitted) + 1 .. Len(emitted') :
          emitted'[i].flow = emitted'[j].flow => i = j

Quiet ==
    /\ UNCHANGED <<managerVars, historyVars>>
    /\ \A c \in inFlight' : c \in inFlight \/ Fits(c)

FilesInOpen(f, t) ==
    /\ ~ended /\ latest <= t /\ ~Expired(f, t)
    /\ active' = [active EXCEPT ![f].stats = UpdateStatistics(active[f].stats, t)]
    /\ log' = Append(log, [flow |-> f, time |-> t, seq |-> active[f].seq])
    /\ latest' = t
    /\ inFlight' = {}
    /\ UNCHANGED <<nextSeq, ended, emitted>>

FilesInNew(f, t, R) ==
    /\ ~ended /\ latest <= t
    /\ f \notin DOMAIN active \ R
    /\ f \in R => Expired(f, t)
    /\ active' = [g \in (DOMAIN active \ R) \cup {f} |->
                    IF g = f THEN [seq |-> nextSeq, stats |-> StartStatistics(t)]
                             ELSE active[g]]
    /\ \/ R = {} /\ Cardinality(DOMAIN active) # MaxActive
       \/ R = {f}
       \/ Cardinality(DOMAIN active) = MaxActive /\ \E v \in CapacityVictims : R = {v}
    /\ HandsOut(R)
    /\ log' = Append(log, [flow |-> f, time |-> t, seq |-> nextSeq])
    /\ latest' = t
    /\ nextSeq' = nextSeq + 1
    /\ inFlight' = {}
    /\ UNCHANGED ended

LetsGo(R) ==
    /\ active' = [g \in DOMAIN active \ R |-> active[g]]
    /\ HandsOut(R)
    /\ ended' = ended \/ R = DOMAIN active
    /\ inFlight' = {}
    /\ UNCHANGED <<nextSeq, latest, log>>

LEMMA HandsOutNothing ==
    ASSUME TypeOK, emitted' = emitted
    PROVE  HandsOut({})
BY DEF HandsOut, TypeOK

LEMMA HandsOutOne ==
    ASSUME TypeOK, NEW f \in DOMAIN active, NEW r \in Reasons,
           emitted' = Append(emitted, ClosedWindow(f, r))
    PROVE  HandsOut({f})
<1>1. ClosedWindow(f, r) \in Windows BY ClosedWindowType
<1>2. /\ Len(emitted) \in Nat
      /\ Len(emitted') = Len(emitted) + 1
      /\ emitted'[Len(emitted) + 1] = ClosedWindow(f, r)
      /\ \A i \in 1 .. Len(emitted) : emitted'[i] = emitted[i]
  BY <1>1 DEF TypeOK
<1>3. /\ ClosedWindow(f, r).flow = f
      /\ ClosedWindow(f, r).seq = active[f].seq
      /\ ClosedWindow(f, r).stats = active[f].stats
  BY DEF ClosedWindow
<1>4. Len(emitted) + 1 .. Len(emitted') = {Len(emitted) + 1}
  BY <1>2
<1> QED BY <1>2, <1>3, <1>4 DEF HandsOut

LEMMA EndSessionHandsOut ==
    ASSUME TypeOK, IsFiniteSet(DOMAIN active), EndSession
    PROVE  HandsOut(DOMAIN active)
<1>1. PICK order \in ClosingOrders :
         emitted' = emitted \o [i \in DOMAIN order |-> ClosedWindow(order[i], "CAPTURE_SESSION_END")]
  BY DEF EndSession
<1> DEFINE n == Cardinality(DOMAIN active)
           tail == [i \in DOMAIN order |-> ClosedWindow(order[i], "CAPTURE_SESSION_END")]
<1>2. n \in Nat BY FS_CardinalityType
<1>3. DOMAIN order = 1 .. n /\ \A i \in 1 .. n : order[i] \in DOMAIN active
  BY DEF ClosingOrders
<1>4. /\ \A f \in DOMAIN active : \E i \in 1 .. n : order[i] = f
      /\ \A i, j \in 1 .. n : i < j => active[order[i]].seq < active[order[j]].seq
  BY <1>3 DEF ClosingOrders
<1>5. \A i \in 1 .. n : ClosedWindow(order[i], "CAPTURE_SESSION_END") \in Windows
  BY <1>3, ClosedWindowType DEF Reasons
<1>6. tail \in [1 .. n -> Windows] BY <1>3, <1>5
<1>7. tail \in Seq(Windows) /\ Len(tail) = n BY <1>2, <1>6
<1>8. \A i \in 1 .. n : /\ tail[i].flow = order[i]
                        /\ tail[i].seq = active[order[i]].seq
                        /\ tail[i].stats = active[order[i]].stats
  BY <1>3 DEF ClosedWindow
<1> HIDE DEF tail
<1>9. emitted \in Seq(Windows) /\ emitted' = emitted \o tail BY <1>1 DEF tail, TypeOK
<1>10. /\ Len(emitted) \in Nat
       /\ Len(emitted') = Len(emitted) + n
       /\ \A i \in 1 .. Len(emitted) : emitted'[i] = emitted[i]
       /\ \A i \in 1 .. n : emitted'[Len(emitted) + i] = tail[i]
  BY <1>2, <1>7, <1>9
<1>11. \A i, j \in 1 .. n : order[i] = order[j] => i = j
  <2> SUFFICES ASSUME NEW i \in 1 .. n, NEW j \in 1 .. n, order[i] = order[j], i < j
               PROVE  FALSE
    BY <1>2
  <2>1. active[order[i]].seq \in Nat BY <1>3 DEF TypeOK, Entries
  <2> QED BY <1>4, <2>1
<1>12. ASSUME NEW i \in Len(emitted) + 1 .. Len(emitted')
       PROVE  /\ i - Len(emitted) \in 1 .. n
              /\ emitted'[i] = tail[i - Len(emitted)]
  <2>1. i - Len(emitted) \in 1 .. n BY <1>2, <1>10
  <2>2. Len(emitted) + (i - Len(emitted)) = i BY <1>10
  <2> QED BY <1>10, <2>1, <2>2
<1>13. \A i \in Len(emitted) + 1 .. Len(emitted') : \E g \in DOMAIN active :
          /\ emitted'[i].flow = g
          /\ emitted'[i].seq = active[g].seq
          /\ emitted'[i].stats = active[g].stats
  BY <1>3, <1>8, <1>12
<1>14. \A g \in DOMAIN active : \E i \in Len(emitted) + 1 .. Len(emitted') :
          /\ emitted'[i].flow = g
          /\ emitted'[i].seq = active[g].seq
          /\ emitted'[i].stats = active[g].stats
  <2> SUFFICES ASSUME NEW g \in DOMAIN active
               PROVE  \E i \in Len(emitted) + 1 .. Len(emitted') :
                         /\ emitted'[i].flow = g
                         /\ emitted'[i].seq = active[g].seq
                         /\ emitted'[i].stats = active[g].stats
    OBVIOUS
  <2>1. PICK k \in 1 .. n : order[k] = g BY <1>4
  <2>2. Len(emitted) + k \in Len(emitted) + 1 .. Len(emitted') BY <1>2, <1>10
  <2>3. emitted'[Len(emitted) + k] = tail[k] BY <1>10
  <2> QED BY <1>8, <2>1, <2>2, <2>3
<1>15. \A i, j \in Len(emitted) + 1 .. Len(emitted') :
          emitted'[i].flow = emitted'[j].flow => i = j
  <2> SUFFICES ASSUME NEW i \in Len(emitted) + 1 .. Len(emitted'),
                      NEW j \in Len(emitted) + 1 .. Len(emitted'),
                      emitted'[i].flow = emitted'[j].flow
               PROVE  i = j
    OBVIOUS
  <2>1. order[i - Len(emitted)] = order[j - Len(emitted)] BY <1>8, <1>12
  <2>2. i - Len(emitted) = j - Len(emitted) BY <1>11, <1>12, <2>1
  <2> QED BY <1>10, <2>2
<1>16. Len(emitted') >= Len(emitted) BY <1>2, <1>10
<1> QED BY <1>10, <1>13, <1>14, <1>15, <1>16 DEF HandsOut

LEMMA PublishContinueShape ==
    ASSUME TypeOK, InFlightFits, PublishContinue
    PROVE  \E f \in DOMAIN active, t \in Times : FilesInOpen(f, t)
<1>1. PICK c \in inFlight : ~c.fresh /\ active' = [active EXCEPT ![c.flow].stats = c.stats]
                            /\ UNCHANGED nextSeq /\ Return(c)
  BY DEF PublishContinue
<1>2. c \in Candidates /\ c.flow \in Flows /\ c.time \in Times BY DEF TypeOK, Candidates
<1>3. /\ ~ended /\ latest <= c.time /\ c.closed = <<>> /\ c.flow \in DOMAIN active
      /\ ~Expired(c.flow, c.time) /\ c.seq = active[c.flow].seq
      /\ c.stats = UpdateStatistics(active[c.flow].stats, c.time)
  BY <1>1 DEF InFlightFits, Fits
<1>4. emitted' = emitted BY <1>1, <1>3 DEF Return, TypeOK
<1>5. FilesInOpen(c.flow, c.time) BY <1>1, <1>3, <1>4 DEF FilesInOpen, Return
<1> QED BY <1>2, <1>3, <1>5

LEMMA PublishNewShape ==
    ASSUME TypeOK, InFlightFits, PublishNew
    PROVE  \E f \in Flows, t \in Times, R \in SUBSET DOMAIN active : FilesInNew(f, t, R)
<1>1. PICK c \in inFlight : c.fresh /\ active' = Published(c) /\ nextSeq' = nextSeq + 1 /\ Return(c)
  BY DEF PublishNew
<1> DEFINE f == c.flow
           t == c.time
<1>2. c \in Candidates /\ f \in Flows /\ t \in Times BY DEF TypeOK, Candidates
<1>3. /\ ~ended /\ latest <= t /\ c.seq = nextSeq /\ c.stats = StartStatistics(t)
  BY <1>1 DEF InFlightFits, Fits
<1>4. /\ log' = Append(log, [flow |-> f, time |-> t, seq |-> nextSeq])
      /\ latest' = t /\ inFlight' = {} /\ UNCHANGED ended
      /\ emitted' = emitted \o c.closed
  BY <1>1, <1>3 DEF Return
<1>5. CASE c.closed = <<>> /\ f \notin DOMAIN active /\ Cardinality(DOMAIN active) # MaxActive
  <2>1. emitted' = emitted BY <1>4, <1>5 DEF TypeOK
  <2>2. active' = [g \in (DOMAIN active \ {}) \cup {f} |->
                    IF g = f THEN [seq |-> nextSeq, stats |-> StartStatistics(t)] ELSE active[g]]
    BY <1>1, <1>3, <1>5 DEF Published
  <2>3. FilesInNew(f, t, {})
    BY <1>1, <1>3, <1>4, <1>5, <2>1, <2>2, HandsOutNothing DEF FilesInNew
  <2> QED BY <1>2, <2>3
<1>6. ASSUME NEW v \in DOMAIN active, NEW r \in Reasons, c.closed = <<ClosedWindow(v, r)>>,
             f \notin DOMAIN active \ {v},
             v = f \/ (Cardinality(DOMAIN active) = MaxActive /\ v \in CapacityVictims),
             v = f => Expired(f, t)
      PROVE  FilesInNew(f, t, {v})
  <2>1. ClosedWindow(v, r) \in Windows BY ClosedWindowType
  <2>2. emitted' = Append(emitted, ClosedWindow(v, r)) BY <1>4, <1>6, <2>1 DEF TypeOK
  <2>3. {c.closed[i].flow : i \in DOMAIN c.closed} = {v}
    <3>1. DOMAIN c.closed = {1} /\ c.closed[1] = ClosedWindow(v, r) BY <1>6
    <3> QED BY <3>1 DEF ClosedWindow
  <2>4. active' = [g \in (DOMAIN active \ {v}) \cup {f} |->
                    IF g = f THEN [seq |-> nextSeq, stats |-> StartStatistics(t)] ELSE active[g]]
    BY <1>1, <1>3, <2>3 DEF Published
  <2>5. HandsOut({v}) BY <2>2, HandsOutOne
  <2>6. {v} = {f} \/ (Cardinality(DOMAIN active) = MaxActive /\ \E u \in CapacityVictims : {v} = {u})
    BY <1>6
  <2> QED BY <1>1, <1>3, <1>4, <1>6, <2>4, <2>5, <2>6 DEF FilesInNew
<1>7. CASE f \in DOMAIN active /\ Expired(f, t) /\ c.closed = <<ClosedWindow(f, "INACTIVITY")>>
  <2>1. PICK v \in DOMAIN active : v = f BY <1>7
  <2>2. c.closed = <<ClosedWindow(v, "INACTIVITY")>> BY <1>7, <2>1
  <2>3. f \notin DOMAIN active \ {v} BY <2>1
  <2>4. FilesInNew(f, t, {v}) BY <1>6, <1>7, <2>1, <2>2, <2>3 DEF Reasons
  <2> QED BY <1>2, <2>1, <2>4
<1>8. CASE /\ f \notin DOMAIN active
           /\ Cardinality(DOMAIN active) = MaxActive
           /\ \E v \in CapacityVictims : c.closed = <<ClosedWindow(v, "CAPACITY")>>
  <2>1. PICK v \in CapacityVictims : c.closed = <<ClosedWindow(v, "CAPACITY")>> BY <1>8
  <2>2. v \in DOMAIN active BY DEF CapacityVictims
  <2>3. FilesInNew(f, t, {v}) BY <1>6, <1>8, <2>1, <2>2 DEF Reasons
  <2> QED BY <1>2, <2>2, <2>3
<1> QED BY <1>1, <1>5, <1>7, <1>8 DEF InFlightFits, Fits

LEMMA CloseShape ==
    ASSUME TypeOK, NEW f \in Flows, Close(f)
    PROVE  f \in DOMAIN active /\ LetsGo({f})
<1>1. f \in DOMAIN active /\ ~ended /\ inFlight' = {}
  BY DEF Close, Idle
<1>2. HandsOut({f}) BY <1>1, HandsOutOne DEF Close, Reasons
<1> QED BY <1>1, <1>2 DEF Close, WithoutFlow, LetsGo

LEMMA EndSessionShape ==
    ASSUME TypeOK, IsFiniteSet(DOMAIN active), EndSession
    PROVE  LetsGo(DOMAIN active)
<1>1. HandsOut(DOMAIN active) BY EndSessionHandsOut
<1>2. active' = [g \in DOMAIN active \ DOMAIN active |-> active[g]] BY DEF EndSession
<1> QED BY <1>1, <1>2 DEF EndSession, LetsGo, Idle

LEMMA StepShape ==
    ASSUME TypeOK, InFlightFits, IsFiniteSet(DOMAIN active), [Next]_vars
    PROVE  \/ Quiet
           \/ \E f \in DOMAIN active, t \in Times : FilesInOpen(f, t)
           \/ \E f \in Flows, t \in Times, R \in SUBSET DOMAIN active : FilesInNew(f, t, R)
           \/ \E R \in SUBSET DOMAIN active : LetsGo(R)
<1>1. ASSUME NEW f \in Flows, NEW t \in Times, Record(f, t) PROVE Quiet
  BY <1>1, RecordPrepares DEF Prepares, Quiet
<1>2. CASE \/ \E t \in Times : RefuseRecord(t)
           \/ FailRecord
           \/ \E f \in Flows : RefuseClose(f)
           \/ EndAgain
           \/ UNCHANGED vars
  <2>1. UNCHANGED <<managerVars, historyVars>> /\ (inFlight' = inFlight \/ inFlight' = {})
    BY <1>2 DEF RefuseRecord, FailRecord, RefuseClose, EndAgain, vars
  <2> QED BY <2>1 DEF Quiet
<1>3. CASE PublishContinue BY <1>3, PublishContinueShape
<1>4. CASE PublishNew BY <1>4, PublishNewShape
<1>5. ASSUME NEW f \in Flows, Close(f) PROVE f \in DOMAIN active /\ LetsGo({f})
  BY <1>5, CloseShape
<1>6. CASE EndSession BY <1>6, EndSessionShape
<1> QED BY <1>1, <1>2, <1>3, <1>4, <1>5, <1>6 DEF Next

-----------------------------------------------------------------------------
(***************************************************************************)
(* The inductive invariant.  Each part is preserved by the three shapes    *)
(* that change a window, under the parts listed before it.                 *)
(***************************************************************************)
Bounded == IsFiniteSet(DOMAIN active) /\ WithinCapacity

NoLongGap ==
    /\ \A f \in DOMAIN active : active[f].stats.maxGap < Timeout
    /\ \A i \in DOMAIN emitted : emitted[i].stats.maxGap < Timeout

BehindFrontier ==
    /\ latest = IF log = <<>> THEN NoTime ELSE log[Len(log)].time
    /\ \A f \in DOMAIN active : active[f].stats.last <= latest
    /\ \A i \in DOMAIN emitted : emitted[i].stats.last <= latest
    /\ \A i \in DOMAIN log : log[i].time <= latest
    /\ \A i, j \in DOMAIN log : i < j => log[i].time <= log[j].time

IInv ==
    /\ TypeOK
    /\ InFlightFits
    /\ Bounded
    /\ KeysAreWindows
    /\ NoLongGap
    /\ BehindFrontier

LEMMA InFlightFitsStep ==
    ASSUME TypeOK, InFlightFits, IsFiniteSet(DOMAIN active), [Next]_vars
    PROVE  InFlightFits'
<1>1. CASE Quiet
  <2> SUFFICES ASSUME NEW c \in inFlight' PROVE Fits(c)'
    BY DEF InFlightFits
  <2>1. Fits(c) BY <1>1 DEF Quiet, InFlightFits
  <2> QED BY <1>1, <2>1 DEF Quiet, Fits, managerVars, Expired, ClosedWindow, CapacityVictims, NotYounger
<1>2. CASE inFlight' = {} BY <1>2 DEF InFlightFits
<1> QED BY <1>1, <1>2, StepShape DEF FilesInOpen, FilesInNew, LetsGo

LEMMA BoundedStep ==
    ASSUME TypeOK, InFlightFits, Bounded, [Next]_vars
    PROVE  Bounded'
<1>0. /\ IsFiniteSet(DOMAIN active) /\ WithinCapacity
      /\ Cardinality(DOMAIN active) \in Nat /\ MaxActive \in Nat \ {0}
  BY FS_CardinalityType, MaxActiveAssumption DEF Bounded
<1>1. CASE Quiet
  BY <1>1 DEF Quiet, managerVars, Bounded, WithinCapacity
<1>2. ASSUME NEW f \in DOMAIN active, NEW t \in Times, FilesInOpen(f, t) PROVE Bounded'
  <2>1. DOMAIN active' = DOMAIN active BY <1>2 DEF FilesInOpen
  <2> QED BY <2>1 DEF Bounded, WithinCapacity
<1>3. ASSUME NEW f \in Flows, NEW t \in Times, NEW R \in SUBSET DOMAIN active, FilesInNew(f, t, R)
      PROVE  Bounded'
  <2> DEFINE kept == DOMAIN active \ R
  <2>1. DOMAIN active' = kept \cup {f} /\ f \notin kept BY <1>3 DEF FilesInNew
  <2>2. IsFiniteSet(kept) /\ Cardinality(kept) \in Nat BY <1>0, FS_Subset, FS_CardinalityType
  <2>3. IsFiniteSet(kept \cup {f}) /\ Cardinality(kept \cup {f}) = Cardinality(kept) + 1
    BY <2>1, <2>2, FS_AddElement
  <2>4. Cardinality(kept) < MaxActive
    <3>1. CASE R = {} /\ Cardinality(DOMAIN active) # MaxActive
      <4>1. kept = DOMAIN active BY <3>1
      <4> QED BY <1>0, <3>1, <4>1 DEF WithinCapacity
    <3>2. ASSUME NEW v \in DOMAIN active, R = {v} PROVE Cardinality(kept) < MaxActive
      <4>1. Cardinality(kept) = Cardinality(DOMAIN active) - 1 BY <1>0, <3>2, FS_RemoveElement
      <4> QED BY <1>0, <4>1 DEF WithinCapacity
    <3>3. R # {} => \E v \in DOMAIN active : R = {v} BY <1>3 DEF FilesInNew, CapacityVictims
    <3>4. R = {} => Cardinality(DOMAIN active) # MaxActive BY <1>3 DEF FilesInNew, CapacityVictims
    <3> QED BY <3>1, <3>2, <3>3, <3>4
  <2> QED BY <1>0, <2>1, <2>2, <2>3, <2>4 DEF Bounded, WithinCapacity
<1>4. ASSUME NEW R \in SUBSET DOMAIN active, LetsGo(R) PROVE Bounded'
  <2>1. DOMAIN active' = DOMAIN active \ R BY <1>4 DEF LetsGo
  <2>2. IsFiniteSet(DOMAIN active') /\ Cardinality(DOMAIN active') <= Cardinality(DOMAIN active)
    BY <1>0, <2>1, FS_Subset
  <2>3. Cardinality(DOMAIN active') \in Nat BY <2>2, FS_CardinalityType
  <2> QED BY <1>0, <2>2, <2>3 DEF Bounded, WithinCapacity
<1> QED BY <1>0, <1>1, <1>2, <1>3, <1>4, StepShape

(* After HandsOut(R) the table without R and the windows handed out hold     *)
(* exactly the numbers that were in use before, each once.                   *)
LEMMA HandsOutKeys ==
    ASSUME TypeOK, KeysAreWindows, NEW R \in SUBSET DOMAIN active, HandsOut(R), TypeOK'
    PROVE  /\ \A i \in DOMAIN emitted' : emitted'[i].seq < nextSeq
           /\ \A i, j \in DOMAIN emitted' : emitted'[i].seq = emitted'[j].seq => i = j
           /\ \A f \in DOMAIN active \ R, i \in DOMAIN emitted' : active[f].seq # emitted'[i].seq
           /\ \A s \in 0 .. nextSeq - 1 :
                 \/ \E f \in DOMAIN active \ R : active[f].seq = s
                 \/ \E i \in DOMAIN emitted' : emitted'[i].seq = s
<1> DEFINE old == 1 .. Len(emitted)
           new == Len(emitted) + 1 .. Len(emitted')
<1>a. /\ Len(emitted) \in Nat /\ DOMAIN emitted = 1 .. Len(emitted)
      /\ Len(emitted') \in Nat /\ DOMAIN emitted' = 1 .. Len(emitted')
  BY DEF TypeOK
<1>b. Len(emitted') >= Len(emitted) BY DEF HandsOut
<1>1. /\ DOMAIN emitted = old /\ DOMAIN emitted' = old \cup new
      /\ old \cap new = {}
  BY <1>a, <1>b
<1>2. \A i \in old : emitted'[i] = emitted[i] BY DEF HandsOut
<1>3. \A i \in new : \E g \in R : emitted'[i].flow = g /\ emitted'[i].seq = active[g].seq
  BY DEF HandsOut
<1>4. \A g \in R : \E i \in new : emitted'[i].seq = active[g].seq BY DEF HandsOut
<1>5. \A i, j \in new : emitted'[i].flow = emitted'[j].flow => i = j BY DEF HandsOut
<1> HIDE DEF old, new
<1>6. \A i \in DOMAIN emitted' : emitted'[i].seq < nextSeq
  BY <1>1, <1>2, <1>3 DEF KeysAreWindows
<1>7. ASSUME NEW i \in DOMAIN emitted', NEW j \in DOMAIN emitted', emitted'[i].seq = emitted'[j].seq
      PROVE  i = j
  <2>1. CASE i \in old /\ j \in old BY <1>1, <1>2, <1>7, <2>1 DEF KeysAreWindows
  <2>2. CASE i \in old /\ j \in new BY <1>1, <1>2, <1>3, <1>7, <2>2 DEF KeysAreWindows
  <2>3. CASE i \in new /\ j \in old BY <1>1, <1>2, <1>3, <1>7, <2>3 DEF KeysAreWindows
  <2>4. CASE i \in new /\ j \in new BY <1>3, <1>5, <1>7, <2>4 DEF KeysAreWindows
  <2> QED BY <1>1, <2>1, <2>2, <2>3, <2>4
<1>8. \A f \in DOMAIN active \ R, i \in DOMAIN emitted' : active[f].seq # emitted'[i].seq
  BY <1>1, <1>2, <1>3 DEF KeysAreWindows
<1>9. ASSUME NEW s \in 0 .. nextSeq - 1
      PROVE  \/ \E f \in DOMAIN active \ R : active[f].seq = s
             \/ \E i \in DOMAIN emitted' : emitted'[i].seq = s
  BY <1>1, <1>2, <1>4 DEF KeysAreWindows
<1> QED BY <1>6, <1>7, <1>8, <1>9

LEMMA KeysStep ==
    ASSUME TypeOK, InFlightFits, Bounded, KeysAreWindows, [Next]_vars
    PROVE  KeysAreWindows'
<1>0. TypeOK' /\ nextSeq \in Nat BY TypeStep DEF Bounded, TypeOK
<1>1. CASE Quiet
  BY <1>1 DEF Quiet, managerVars, historyVars, KeysAreWindows
<1>2. ASSUME NEW f \in DOMAIN active, NEW t \in Times, FilesInOpen(f, t) PROVE KeysAreWindows'
  <2>1. /\ DOMAIN active' = DOMAIN active /\ \A g \in DOMAIN active : active'[g].seq = active[g].seq
        /\ UNCHANGED <<nextSeq, emitted>>
    BY <1>2 DEF FilesInOpen, TypeOK, Entries
  <2> QED BY <2>1 DEF KeysAreWindows
<1>3. ASSUME NEW f \in Flows, NEW t \in Times, NEW R \in SUBSET DOMAIN active, FilesInNew(f, t, R)
      PROVE  KeysAreWindows'
  <2> DEFINE kept == DOMAIN active \ R
  <2>1. /\ DOMAIN active' = kept \cup {f} /\ f \notin kept
        /\ \A g \in kept : active'[g] = active[g]
        /\ active'[f].seq = nextSeq
        /\ HandsOut(R) /\ nextSeq' = nextSeq + 1
    BY <1>3 DEF FilesInNew
  <2>2. /\ \A i \in DOMAIN emitted' : emitted'[i].seq < nextSeq
        /\ \A i, j \in DOMAIN emitted' : emitted'[i].seq = emitted'[j].seq => i = j
        /\ \A g \in kept, i \in DOMAIN emitted' : active[g].seq # emitted'[i].seq
        /\ \A s \in 0 .. nextSeq - 1 :
                 \/ \E g \in kept : active[g].seq = s
                 \/ \E i \in DOMAIN emitted' : emitted'[i].seq = s
    BY <1>0, <2>1, HandsOutKeys
  <2>3. \A i \in DOMAIN emitted' : emitted'[i].seq \in Nat
    <3>1. emitted' \in Seq(Windows) BY <1>0 DEF TypeOK
    <3>2. \A i \in DOMAIN emitted' : emitted'[i] \in Windows BY <3>1
    <3> QED BY <3>2 DEF Windows
  <2>4. \A g \in kept : active[g].seq \in Nat /\ active[g].seq < nextSeq
    BY DEF TypeOK, Entries, KeysAreWindows
  <2>5. \A g, h \in kept : active[g].seq = active[h].seq => g = h BY DEF KeysAreWindows
  <2>6. \A g \in DOMAIN active' : active'[g].seq < nextSeq' BY <1>0, <2>1, <2>4
  <2>7. \A i \in DOMAIN emitted' : emitted'[i].seq < nextSeq' BY <1>0, <2>1, <2>2, <2>3
  <2>8. \A g, h \in DOMAIN active' : active'[g].seq = active'[h].seq => g = h
    BY <1>0, <2>1, <2>4, <2>5
  <2>9. \A g \in DOMAIN active', i \in DOMAIN emitted' : active'[g].seq # emitted'[i].seq
    BY <1>0, <2>1, <2>2, <2>3
  <2>10. ASSUME NEW s \in 0 .. nextSeq' - 1
         PROVE  \/ \E g \in DOMAIN active' : active'[g].seq = s
                \/ \E i \in DOMAIN emitted' : emitted'[i].seq = s
    <3>1. CASE s = nextSeq BY <2>1, <3>1
    <3>2. CASE s \in 0 .. nextSeq - 1
      <4>1. CASE \E g \in kept : active[g].seq = s
        <5>1. PICK g \in kept : active[g].seq = s BY <4>1
        <5>2. g \in DOMAIN active' /\ active'[g].seq = s BY <2>1, <5>1
        <5> QED BY <5>2
      <4>2. CASE \E i \in DOMAIN emitted' : emitted'[i].seq = s BY <4>2
      <4> QED BY <2>2, <3>2, <4>1, <4>2
    <3> QED BY <1>0, <2>1, <3>1, <3>2
  <2> QED BY <2>2, <2>6, <2>7, <2>8, <2>9, <2>10 DEF KeysAreWindows
<1>4. ASSUME NEW R \in SUBSET DOMAIN active, LetsGo(R) PROVE KeysAreWindows'
  <2>1. /\ DOMAIN active' = DOMAIN active \ R
        /\ \A g \in DOMAIN active \ R : active'[g] = active[g]
        /\ HandsOut(R) /\ UNCHANGED nextSeq
    BY <1>4 DEF LetsGo
  <2>2. /\ \A i \in DOMAIN emitted' : emitted'[i].seq < nextSeq
        /\ \A i, j \in DOMAIN emitted' : emitted'[i].seq = emitted'[j].seq => i = j
        /\ \A g \in DOMAIN active \ R, i \in DOMAIN emitted' : active[g].seq # emitted'[i].seq
        /\ \A s \in 0 .. nextSeq - 1 :
                 \/ \E g \in DOMAIN active \ R : active[g].seq = s
                 \/ \E i \in DOMAIN emitted' : emitted'[i].seq = s
    BY <1>0, <2>1, HandsOutKeys
  <2>3. \A s \in 0 .. nextSeq' - 1 :
                 \/ \E g \in DOMAIN active' : active'[g].seq = s
                 \/ \E i \in DOMAIN emitted' : emitted'[i].seq = s
    BY <2>1, <2>2
  <2>4. /\ \A g \in DOMAIN active' : active'[g].seq < nextSeq'
        /\ \A g, h \in DOMAIN active' : active'[g].seq = active'[h].seq => g = h
    BY <2>1 DEF KeysAreWindows
  <2> QED BY <2>1, <2>2, <2>3, <2>4 DEF KeysAreWindows
<1> QED BY <1>1, <1>2, <1>3, <1>4, StepShape DEF Bounded

(* Appending a closed window, or several, keeps what every window satisfied. *)
LEMMA HandsOutWhere ==
    ASSUME TypeOK, TypeOK', NEW R \in SUBSET DOMAIN active, HandsOut(R)
    PROVE  \A i \in DOMAIN emitted' :
              \/ i \in DOMAIN emitted /\ emitted'[i] = emitted[i]
              \/ \E g \in R : /\ emitted'[i].flow = g
                              /\ emitted'[i].seq = active[g].seq
                              /\ emitted'[i].stats = active[g].stats
<1>1. /\ Len(emitted) \in Nat /\ DOMAIN emitted = 1 .. Len(emitted)
      /\ Len(emitted') \in Nat /\ DOMAIN emitted' = 1 .. Len(emitted')
  BY DEF TypeOK
<1>2. \A i \in DOMAIN emitted' : i \in DOMAIN emitted \/ i \in Len(emitted) + 1 .. Len(emitted')
  BY <1>1
<1> QED BY <1>1, <1>2 DEF HandsOut

LEMMA NoLongGapStep ==
    ASSUME TypeOK, InFlightFits, Bounded, NoLongGap, [Next]_vars
    PROVE  NoLongGap'
<1>0. TypeOK' BY TypeStep DEF Bounded
<1>1. CASE Quiet
  BY <1>1 DEF Quiet, managerVars, historyVars, NoLongGap
<1>2. ASSUME NEW f \in DOMAIN active, NEW t \in Times, FilesInOpen(f, t) PROVE NoLongGap'
  <2>1. /\ active[f].stats.last \in Nat /\ active[f].stats.maxGap \in Nat /\ t \in Nat
        /\ active[f].stats \in Statistics
    BY TimesAssumption DEF TypeOK, Entries, Statistics
  <2>2. active[f].stats.maxGap < Timeout /\ t - active[f].stats.last < Timeout
    BY <1>2, <2>1, TimeoutAssumption DEF FilesInOpen, Expired, NoLongGap
  <2>3. UpdateStatistics(active[f].stats, t).maxGap < Timeout
    BY <2>1, <2>2 DEF UpdateStatistics, Statistics
  <2>4. /\ DOMAIN active' = DOMAIN active
        /\ active'[f].stats = UpdateStatistics(active[f].stats, t)
        /\ \A g \in DOMAIN active : g # f => active'[g] = active[g]
        /\ emitted' = emitted
    BY <1>2 DEF FilesInOpen, TypeOK, Entries
  <2> QED BY <2>3, <2>4 DEF NoLongGap
<1>3. ASSUME NEW f \in Flows, NEW t \in Times, NEW R \in SUBSET DOMAIN active, FilesInNew(f, t, R)
      PROVE  NoLongGap'
  <2>1. StartStatistics(t).maxGap < Timeout BY TimeoutAssumption DEF StartStatistics
  <2>2. /\ DOMAIN active' = (DOMAIN active \ R) \cup {f}
        /\ active'[f].stats = StartStatistics(t)
        /\ \A g \in DOMAIN active \ R : g # f => active'[g] = active[g]
        /\ HandsOut(R)
    BY <1>3 DEF FilesInNew
  <2> QED BY <1>0, <2>1, <2>2, HandsOutWhere DEF NoLongGap
<1>4. ASSUME NEW R \in SUBSET DOMAIN active, LetsGo(R) PROVE NoLongGap'
  <2>1. /\ DOMAIN active' = DOMAIN active \ R
        /\ \A g \in DOMAIN active \ R : active'[g] = active[g]
        /\ HandsOut(R)
    BY <1>4 DEF LetsGo
  <2> QED BY <1>0, <2>1, HandsOutWhere DEF NoLongGap
<1> QED BY <1>1, <1>2, <1>3, <1>4, StepShape DEF Bounded

(* A packet at or after the frontier appended to the log keeps it sorted.    *)
LEMMA LogStep ==
    ASSUME TypeOK, BehindFrontier, NEW f, NEW t \in Times, NEW s, latest <= t,
           log' = Append(log, [flow |-> f, time |-> t, seq |-> s])
    PROVE  /\ \A i \in DOMAIN log' : log'[i].time <= t
           /\ \A i, j \in DOMAIN log' : i < j => log'[i].time <= log'[j].time
           /\ t = IF log' = <<>> THEN NoTime ELSE log'[Len(log')].time
<1>1. /\ Len(log) \in Nat /\ Len(log') = Len(log) + 1 /\ log' # <<>>
      /\ DOMAIN log = 1 .. Len(log) /\ DOMAIN log' = 1 .. Len(log) + 1
      /\ \A i \in DOMAIN log : log'[i] = log[i]
      /\ log'[Len(log) + 1].time = t
  BY DEF TypeOK
<1>2. t \in Int /\ latest \in Int BY TimesAssumption DEF TypeOK, NoTime
<1>3. \A i \in DOMAIN log : log[i].time \in Int /\ log[i].time <= t
  <2>1. \A i \in DOMAIN log : log[i] \in Admissions BY DEF TypeOK
  <2>a. \A i \in DOMAIN log : log[i].time \in Times BY <2>1 DEF Admissions
  <2>b. Times \subseteq Int BY TimesAssumption
  <2>2. \A i \in DOMAIN log : log[i].time \in Int BY <2>a, <2>b
  <2> QED BY <1>2, <2>2 DEF BehindFrontier
<1>4. \A i \in DOMAIN log' : i \in DOMAIN log \/ i = Len(log) + 1 BY <1>1
<1>5. \A i \in DOMAIN log' : log'[i].time <= t BY <1>1, <1>2, <1>3, <1>4
<1>6. ASSUME NEW i \in DOMAIN log', NEW j \in DOMAIN log', i < j
      PROVE  log'[i].time <= log'[j].time
  <2>1. i \in DOMAIN log BY <1>1, <1>6
  <2>2. CASE j \in DOMAIN log BY <1>1, <1>6, <2>1, <2>2 DEF BehindFrontier
  <2>3. CASE j = Len(log) + 1 BY <1>1, <1>3, <2>1, <2>3
  <2> QED BY <1>4, <2>2, <2>3
<1>7. t = IF log' = <<>> THEN NoTime ELSE log'[Len(log')].time BY <1>1
<1> QED BY <1>5, <1>6, <1>7

LEMMA BehindFrontierStep ==
    ASSUME TypeOK, InFlightFits, Bounded, BehindFrontier, [Next]_vars
    PROVE  BehindFrontier'
<1>0. TypeOK' BY TypeStep DEF Bounded
<1>a. \A f \in DOMAIN active : active[f].stats.last \in Int
  BY TimesAssumption DEF TypeOK, Entries, Statistics
<1>b. \A i \in DOMAIN emitted : emitted[i].stats.last \in Int
  <2>1. \A i \in DOMAIN emitted : emitted[i] \in Windows BY DEF TypeOK
  <2>2. \A i \in DOMAIN emitted : emitted[i].stats \in Statistics BY <2>1 DEF Windows
  <2>3. \A i \in DOMAIN emitted : emitted[i].stats.last \in Times BY <2>2 DEF Statistics
  <2>4. Times \subseteq Int BY TimesAssumption
  <2> QED BY <2>3, <2>4
<1>c. latest \in Int /\ Times \subseteq Int BY TimesAssumption DEF TypeOK, NoTime
<1>1. CASE Quiet
  BY <1>1 DEF Quiet, managerVars, historyVars, BehindFrontier
<1>2. ASSUME NEW f \in DOMAIN active, NEW t \in Times, FilesInOpen(f, t) PROVE BehindFrontier'
  <2>1. UpdateStatistics(active[f].stats, t).last = t
    BY DEF UpdateStatistics, Statistics, TypeOK, Entries
  <2>2. /\ DOMAIN active' = DOMAIN active
        /\ active'[f].stats = UpdateStatistics(active[f].stats, t)
        /\ \A g \in DOMAIN active : g # f => active'[g] = active[g]
        /\ emitted' = emitted /\ latest' = t /\ latest <= t
    BY <1>2 DEF FilesInOpen, TypeOK, Entries
  <2>3. /\ \A i \in DOMAIN log' : log'[i].time <= t
        /\ \A i, j \in DOMAIN log' : i < j => log'[i].time <= log'[j].time
        /\ t = IF log' = <<>> THEN NoTime ELSE log'[Len(log')].time
    BY <1>2, LogStep DEF FilesInOpen
  <2>4. \A g \in DOMAIN active' : active'[g].stats.last <= latest'
    BY <1>a, <1>c, <2>1, <2>2 DEF BehindFrontier
  <2>5. \A i \in DOMAIN emitted' : emitted'[i].stats.last <= latest'
    BY <1>b, <1>c, <2>2 DEF BehindFrontier
  <2> QED BY <2>2, <2>3, <2>4, <2>5 DEF BehindFrontier
<1>3. ASSUME NEW f \in Flows, NEW t \in Times, NEW R \in SUBSET DOMAIN active, FilesInNew(f, t, R)
      PROVE  BehindFrontier'
  <2>1. StartStatistics(t).last = t BY DEF StartStatistics
  <2>2. /\ DOMAIN active' = (DOMAIN active \ R) \cup {f}
        /\ active'[f].stats = StartStatistics(t)
        /\ \A g \in DOMAIN active \ R : g # f => active'[g] = active[g]
        /\ HandsOut(R) /\ latest' = t /\ latest <= t
    BY <1>3 DEF FilesInNew
  <2>3. /\ \A i \in DOMAIN log' : log'[i].time <= t
        /\ \A i, j \in DOMAIN log' : i < j => log'[i].time <= log'[j].time
        /\ t = IF log' = <<>> THEN NoTime ELSE log'[Len(log')].time
    BY <1>3, LogStep DEF FilesInNew
  <2>4. \A g \in DOMAIN active' : active'[g].stats.last <= latest'
    BY <1>a, <1>c, <2>1, <2>2 DEF BehindFrontier
  <2>5. \A i \in DOMAIN emitted' : emitted'[i].stats.last <= latest'
    BY <1>0, <1>a, <1>b, <1>c, <2>2, HandsOutWhere DEF BehindFrontier
  <2> QED BY <2>2, <2>3, <2>4, <2>5 DEF BehindFrontier
<1>4. ASSUME NEW R \in SUBSET DOMAIN active, LetsGo(R) PROVE BehindFrontier'
  <2>1. /\ DOMAIN active' = DOMAIN active \ R
        /\ \A g \in DOMAIN active \ R : active'[g] = active[g]
        /\ HandsOut(R) /\ UNCHANGED <<latest, log>>
    BY <1>4 DEF LetsGo
  <2>2. \A i \in DOMAIN emitted' : emitted'[i].stats.last <= latest'
    BY <1>0, <2>1, HandsOutWhere DEF BehindFrontier
  <2> QED BY <2>1, <2>2 DEF BehindFrontier
<1> QED BY <1>1, <1>2, <1>3, <1>4, StepShape DEF Bounded

-----------------------------------------------------------------------------
LEMMA InitIInv == Init => IInv
<1> SUFFICES ASSUME Init PROVE IInv
  OBVIOUS
<1>1. TypeOK BY InitType
<1>2. DOMAIN active = {} /\ DOMAIN emitted = {} /\ DOMAIN log = {} /\ inFlight = {} /\ nextSeq = 0
  BY DEF Init
<1>3. InFlightFits BY <1>2 DEF InFlightFits
<1>4. Bounded BY <1>2, FS_EmptySet, MaxActiveAssumption DEF Bounded, WithinCapacity
<1>5. KeysAreWindows BY <1>2 DEF KeysAreWindows
<1>6. NoLongGap BY <1>2 DEF NoLongGap
<1>7. BehindFrontier BY <1>2 DEF Init, BehindFrontier
<1> QED BY <1>1, <1>3, <1>4, <1>5, <1>6, <1>7 DEF IInv

LEMMA NextIInv == IInv /\ [Next]_vars => IInv'
BY TypeStep, InFlightFitsStep, BoundedStep, KeysStep, NoLongGapStep, BehindFrontierStep
   DEF IInv, Bounded

(* The inductive invariant of the window manager holds in every state.       *)
THEOREM Inductive == Spec => []IInv
BY InitIInv, NextIInv, PTL DEF Spec

(* Every variable of the manager keeps its type.                             *)
THEOREM TypeCorrect == Spec => []TypeOK
<1>1. IInv => TypeOK BY DEF IInv
<1> QED BY Inductive, <1>1, PTL

(* The table of open windows is never larger than max_active_windows.        *)
THEOREM Capacity == Spec => []WithinCapacity
<1>1. IInv => WithinCapacity BY DEF IInv, Bounded
<1> QED BY Inductive, <1>1, PTL

(* Every number consumed names exactly one window, open or handed out once.  *)
THEOREM Keys == Spec => []KeysAreWindows
<1>1. IInv => KeysAreWindows BY DEF IInv
<1> QED BY Inductive, <1>1, PTL

(* No window ever spans an inactivity gap.                                   *)
THEOREM Gapless == Spec => []GapsBelowTimeout
<1>1. IInv => GapsBelowTimeout
  BY DEF IInv, NoLongGap, GapsBelowTimeout, AllWindows, ActiveWindows, EmittedWindows
<1> QED BY Inductive, <1>1, PTL

(* The frontier is the time of the last accepted packet, and no window knows *)
(* of a packet past it; accepted packets are in capture-time order.          *)
THEOREM Frontier == Spec => []FrontierDominates
<1>1. IInv => FrontierDominates
  BY DEF IInv, BehindFrontier, FrontierDominates, AllWindows, ActiveWindows, EmittedWindows
<1> QED BY Inductive, <1>1, PTL

-----------------------------------------------------------------------------
(* A window handed out for capacity was the least recently updated of a full *)
(* table; only publishing a new window hands one out for that reason.        *)
EvictsNow ==
    \A i \in DOMAIN emitted' :
        i > Len(emitted) /\ emitted'[i].reason = "CAPACITY" =>
            /\ Cardinality(DOMAIN active) = MaxActive
            /\ \A f \in DOMAIN active :
                  \/ emitted'[i].stats.last < active[f].stats.last
                  \/ /\ emitted'[i].stats.last = active[f].stats.last
                     /\ emitted'[i].seq <= active[f].seq

LEMMA EvictsNothing ==
    ASSUME TypeOK, emitted' = emitted
    PROVE  EvictsNow
<1>1. Len(emitted) \in Nat /\ DOMAIN emitted' = 1 .. Len(emitted)
  BY DEF TypeOK
<1> QED BY <1>1 DEF EvictsNow

LEMMA EvictsOne ==
    ASSUME TypeOK, NEW v \in DOMAIN active, NEW r \in Reasons,
           emitted' = Append(emitted, ClosedWindow(v, r)),
           r = "CAPACITY" => v \in CapacityVictims /\ Cardinality(DOMAIN active) = MaxActive
    PROVE  EvictsNow
<1>1. ClosedWindow(v, r) \in Windows BY ClosedWindowType
<1>2. /\ Len(emitted) \in Nat
      /\ DOMAIN emitted' = 1 .. Len(emitted) + 1
      /\ emitted'[Len(emitted) + 1] = ClosedWindow(v, r)
  BY <1>1 DEF TypeOK
<1>3. \A i \in DOMAIN emitted' : i > Len(emitted) => i = Len(emitted) + 1
  BY <1>2
<1>4. /\ ClosedWindow(v, r).reason = r
      /\ ClosedWindow(v, r).seq = active[v].seq
      /\ ClosedWindow(v, r).stats = active[v].stats
  BY DEF ClosedWindow
<1>5. ASSUME r = "CAPACITY", NEW f \in DOMAIN active PROVE NotYounger(v, f)
  BY <1>5 DEF CapacityVictims
<1> QED BY <1>2, <1>3, <1>4, <1>5 DEF EvictsNow, NotYounger

LEMMA EvictsStep ==
    ASSUME TypeOK, InFlightFits, IsFiniteSet(DOMAIN active), Next
    PROVE  EvictsNow
<1>1. ASSUME NEW f \in Flows, NEW t \in Times, Record(f, t) PROVE emitted' = emitted
  BY <1>1 DEF Record, PrepareContinue, PrepareAfterInactivity, PrepareUnseen,
              PrepareAtCapacity, PrepareNewWindow, Prepare, historyVars
<1>2. CASE \/ \E t \in Times : RefuseRecord(t)
           \/ FailRecord
           \/ \E f \in Flows : RefuseClose(f)
           \/ EndAgain
  BY <1>2, EvictsNothing DEF RefuseRecord, FailRecord, RefuseClose, EndAgain, historyVars
<1>3. CASE PublishContinue
  <2>1. PICK f \in DOMAIN active, t \in Times : FilesInOpen(f, t)
    BY <1>3, PublishContinueShape
  <2> QED BY <2>1, EvictsNothing DEF FilesInOpen
<1>4. CASE PublishNew
  <2>1. PICK c \in inFlight : c.fresh /\ Return(c)
    BY <1>4 DEF PublishNew
  <2>2. emitted' = emitted \o c.closed /\ Fits(c)
    BY <2>1 DEF Return, InFlightFits
  <2>3. CASE c.closed = <<>>
    BY <2>2, <2>3, EvictsNothing DEF TypeOK
  <2>4. ASSUME NEW v \in DOMAIN active, NEW r \in Reasons, c.closed = <<ClosedWindow(v, r)>>,
               r = "CAPACITY" => v \in CapacityVictims /\ Cardinality(DOMAIN active) = MaxActive
        PROVE  EvictsNow
    <3>1. ClosedWindow(v, r) \in Windows BY ClosedWindowType
    <3>2. emitted' = Append(emitted, ClosedWindow(v, r))
      BY <2>2, <2>4, <3>1 DEF TypeOK
    <3> QED BY <2>4, <3>2, EvictsOne
  <2>5. CASE c.flow \in DOMAIN active /\ c.closed = <<ClosedWindow(c.flow, "INACTIVITY")>>
    BY <2>4, <2>5 DEF Reasons
  <2>6. CASE /\ Cardinality(DOMAIN active) = MaxActive
             /\ \E v \in CapacityVictims : c.closed = <<ClosedWindow(v, "CAPACITY")>>
    <3>1. PICK v \in CapacityVictims : c.closed = <<ClosedWindow(v, "CAPACITY")>> BY <2>6
    <3>2. v \in DOMAIN active BY DEF CapacityVictims
    <3> QED BY <2>4, <2>6, <3>1, <3>2 DEF Reasons
  <2> QED BY <2>1, <2>2, <2>3, <2>5, <2>6 DEF Fits
<1>5. ASSUME NEW f \in Flows, Close(f) PROVE EvictsNow
  BY <1>5, EvictsOne DEF Close, Reasons
<1>6. CASE EndSession
  <2>1. PICK order \in ClosingOrders :
           emitted' = emitted \o [i \in DOMAIN order |-> ClosedWindow(order[i], "CAPTURE_SESSION_END")]
    BY <1>6 DEF EndSession
  <2> DEFINE n == Cardinality(DOMAIN active)
             tail == [i \in DOMAIN order |-> ClosedWindow(order[i], "CAPTURE_SESSION_END")]
  <2>2. n \in Nat BY FS_CardinalityType
  <2>3. DOMAIN order = 1 .. n /\ \A i \in 1 .. n : order[i] \in DOMAIN active
    BY DEF ClosingOrders
  <2>4. \A i \in 1 .. n : ClosedWindow(order[i], "CAPTURE_SESSION_END") \in Windows
    BY <2>3, ClosedWindowType DEF Reasons
  <2>5. tail \in [1 .. n -> Windows] /\ \A i \in 1 .. n : tail[i].reason = "CAPTURE_SESSION_END"
    BY <2>3, <2>4 DEF ClosedWindow
  <2>6. tail \in Seq(Windows) /\ Len(tail) = n BY <2>2, <2>5
  <2> HIDE DEF tail
  <2>7. emitted \in Seq(Windows) /\ emitted' = emitted \o tail BY <2>1 DEF tail, TypeOK
  <2>8. ASSUME NEW i \in DOMAIN emitted', i > Len(emitted)
        PROVE  emitted'[i].reason = "CAPTURE_SESSION_END"
    <3>1. Len(emitted) \in Nat /\ i \in 1 .. Len(emitted) + n
      BY <2>2, <2>6, <2>7
    <3>2. i - Len(emitted) \in 1 .. n BY <2>2, <2>8, <3>1
    <3>3. emitted'[i] = tail[i - Len(emitted)] BY <2>6, <2>7, <2>8, <3>1, <3>2
    <3> QED BY <2>5, <3>2, <3>3
  <2> QED BY <2>8 DEF EvictsNow
<1> QED BY <1>1, <1>2, <1>3, <1>4, <1>5, <1>6, EvictsNothing DEF Next

(* record() of a full table gives up its least recently updated window, and  *)
(* no window is given up for capacity while there is room.                   *)
THEOREM Eviction == Spec => EvictsLeastRecent
<1>1. IInv /\ [Next]_vars => [EvictsNow]_vars
  BY EvictsStep DEF IInv, Bounded
<1>2. Spec => [][EvictsNow]_vars BY Inductive, <1>1, PTL DEF Spec
<1> QED BY <1>2, PTL DEF EvictsNow, EvictsLeastRecent

-----------------------------------------------------------------------------
(* What the windows of a session say of its packets: the statistics of a     *)
(* window against the log of accepted packets, the order of the windows of a *)
(* flow, and the windows the end of the session hands out.                   *)

(* The definitions of WindowAccounting over any log L, so that they can be   *)
(* compared before and after a packet is appended.                           *)
FiledIn(L, s) == {i \in DOMAIN L : L[i].seq = s}

Adjacent(L, s, i, j) ==
    /\ i \in FiledIn(L, s) /\ j \in FiledIn(L, s) /\ i < j
    /\ \A k \in FiledIn(L, s) : k <= i \/ k >= j

(* Accounts(w), with the first and the last packet of the window named: they *)
(* carry its first and its last capture time.                                *)
AccountsFor(L, f, s, x) ==
    /\ x.count = Cardinality(FiledIn(L, s))
    /\ \A i \in FiledIn(L, s) :
           L[i].flow = f /\ x.first <= L[i].time /\ L[i].time <= x.last
    /\ \E i \in FiledIn(L, s) : L[i].time = x.first
    /\ \E j \in FiledIn(L, s) : L[j].time = x.last /\ \A k \in FiledIn(L, s) : k <= j
    /\ \A i, j \in DOMAIN L : Adjacent(L, s, i, j) => L[j].time - L[i].time <= x.maxGap
    /\ \/ x.maxGap = 0
       \/ \E i, j \in DOMAIN L : Adjacent(L, s, i, j) /\ x.maxGap = L[j].time - L[i].time

LEMMA AdmissionOf ==
    ASSUME NEW L \in Seq(Admissions)
    PROVE  /\ Len(L) \in Nat /\ DOMAIN L = 1 .. Len(L)
           /\ \A i \in DOMAIN L : L[i].seq \in Nat /\ L[i].time \in Nat /\ L[i].flow \in Flows
<1>1. \A i \in DOMAIN L : L[i] \in Admissions OBVIOUS
<1>2. \A i \in DOMAIN L : L[i].seq \in Nat /\ L[i].time \in Times /\ L[i].flow \in Flows
  BY <1>1 DEF Admissions
<1>3. \A i \in DOMAIN L : L[i].time \in Nat BY <1>2, TimesAssumption
<1>4. Len(L) \in Nat /\ DOMAIN L = 1 .. Len(L) OBVIOUS
<1> QED BY <1>2, <1>3, <1>4

(* What a packet appended to the log changes about one window number.        *)
LEMMA FiledInAppend ==
    ASSUME NEW L \in Seq(Admissions), NEW a \in Admissions, NEW s
    PROVE  LET n == Len(L) + 1 IN
           /\ n \in Nat /\ Len(Append(L, a)) = n /\ DOMAIN Append(L, a) = 1 .. n
           /\ n \notin DOMAIN L /\ DOMAIN L = 1 .. Len(L)
           /\ DOMAIN L \subseteq DOMAIN Append(L, a)
           /\ \A i \in DOMAIN L : Append(L, a)[i] = L[i] /\ i < n /\ i \in Nat
           /\ Append(L, a)[n] = a
           /\ a.seq # s => FiledIn(Append(L, a), s) = FiledIn(L, s)
           /\ a.seq = s => FiledIn(Append(L, a), s) = FiledIn(L, s) \cup {n}
<1> DEFINE n == Len(L) + 1
           M == Append(L, a)
<1>1. /\ n \in Nat /\ Len(L) \in Nat /\ DOMAIN L = 1 .. Len(L)
      /\ Len(M) = n /\ DOMAIN M = 1 .. n
      /\ M[n] = a /\ \A i \in DOMAIN L : M[i] = L[i]
  OBVIOUS
<1> HIDE DEF M
<1>2. DOMAIN M = DOMAIN L \cup {n} /\ n \notin DOMAIN L BY <1>1
<1>3. a.seq # s => FiledIn(M, s) = FiledIn(L, s) BY <1>1, <1>2 DEF FiledIn
<1>4. a.seq = s => FiledIn(M, s) = FiledIn(L, s) \cup {n} BY <1>1, <1>2 DEF FiledIn
<1>5. \A i \in DOMAIN L : i < n /\ i \in Nat BY <1>1
<1> QED BY <1>1, <1>2, <1>3, <1>4, <1>5 DEF M

(* A packet filed under another number leaves a window's account as it is.   *)
LEMMA AccountsKept ==
    ASSUME NEW L \in Seq(Admissions), NEW a \in Admissions, NEW f, NEW s, NEW x,
           a.seq # s, AccountsFor(L, f, s, x)
    PROVE  AccountsFor(Append(L, a), f, s, x)
<1> DEFINE M == Append(L, a)
           P == FiledIn(L, s)
<1>1. /\ FiledIn(M, s) = P /\ P \subseteq DOMAIN L /\ DOMAIN L \subseteq DOMAIN M
      /\ \A i \in P : M[i] = L[i]
  BY FiledInAppend DEF FiledIn
<1>2. \A i, j : Adjacent(M, s, i, j) <=> Adjacent(L, s, i, j)
  BY <1>1 DEF Adjacent
<1>3. \A i, j : Adjacent(L, s, i, j) => i \in P /\ j \in P
  BY DEF Adjacent
<1> HIDE DEF M, P
<1>4. /\ x.count = Cardinality(P)
      /\ \A i \in P : L[i].flow = f /\ x.first <= L[i].time /\ L[i].time <= x.last
      /\ \E i \in P : L[i].time = x.first
      /\ \E j \in P : L[j].time = x.last /\ \A k \in P : k <= j
      /\ \A i, j \in DOMAIN L : Adjacent(L, s, i, j) => L[j].time - L[i].time <= x.maxGap
      /\ \/ x.maxGap = 0
         \/ \E i, j \in DOMAIN L : Adjacent(L, s, i, j) /\ x.maxGap = L[j].time - L[i].time
  BY DEF AccountsFor, P
<1>5. \A i, j \in DOMAIN M : Adjacent(M, s, i, j) => M[j].time - M[i].time <= x.maxGap
  BY <1>1, <1>2, <1>3, <1>4
<1>6. \/ x.maxGap = 0
      \/ \E i, j \in DOMAIN M : Adjacent(M, s, i, j) /\ x.maxGap = M[j].time - M[i].time
  <2> SUFFICES ASSUME x.maxGap # 0
               PROVE  \E i, j \in DOMAIN M : Adjacent(M, s, i, j) /\ x.maxGap = M[j].time - M[i].time
    OBVIOUS
  <2>1. PICK i, j \in DOMAIN L : Adjacent(L, s, i, j) /\ x.maxGap = L[j].time - L[i].time
    BY <1>4
  <2> QED BY <1>1, <1>2, <1>3, <2>1
<1> QED BY <1>1, <1>4, <1>5, <1>6 DEF AccountsFor, M

(* The first packet of a window, under a number no packet had before.        *)
LEMMA AccountsStarted ==
    ASSUME NEW L \in Seq(Admissions), NEW a \in Admissions,
           \A i \in DOMAIN L : L[i].seq # a.seq
    PROVE  AccountsFor(Append(L, a), a.flow, a.seq, StartStatistics(a.time))
<1> DEFINE M == Append(L, a)
           n == Len(L) + 1
<1>1. FiledIn(M, a.seq) = {n} /\ M[n] = a /\ n \in Nat
  BY FiledInAppend DEF FiledIn
<1>2. a.time \in Nat BY TimesAssumption DEF Admissions
<1>3. \A i, j : ~Adjacent(M, a.seq, i, j) BY <1>1 DEF Adjacent
<1>4. Cardinality({n}) = 1 BY FS_Singleton
<1> HIDE DEF M
<1> QED BY <1>1, <1>2, <1>3, <1>4 DEF AccountsFor, StartStatistics, M

(* One more packet of a window, not older than its last one.                 *)
LEMMA AccountsFiled ==
    ASSUME NEW L \in Seq(Admissions), NEW a \in Admissions, NEW x \in Statistics,
           x.last <= a.time, AccountsFor(L, a.flow, a.seq, x)
    PROVE  AccountsFor(Append(L, a), a.flow, a.seq, UpdateStatistics(x, a.time))
<1> DEFINE M == Append(L, a)
           n == Len(L) + 1
           s == a.seq
           P == FiledIn(L, s)
           y == UpdateStatistics(x, a.time)
<1>1. /\ FiledIn(M, s) = P \cup {n} /\ M[n] = a /\ n \in Nat /\ n \notin P
      /\ P \subseteq DOMAIN L /\ DOMAIN L = 1 .. Len(L) /\ DOMAIN M = 1 .. n
      /\ \A i \in P : M[i] = L[i] /\ i < n /\ i \in Nat
  BY FiledInAppend DEF FiledIn
<1>2. /\ a.time \in Nat /\ x.count \in Nat /\ x.first \in Nat /\ x.last \in Nat /\ x.maxGap \in Nat
      /\ \A i \in P : L[i].time \in Nat
  BY AdmissionOf, TimesAssumption DEF Admissions, Statistics, FiledIn
<1>3. /\ y.count = x.count + 1 /\ y.first = x.first /\ y.last = a.time
      /\ y.maxGap = IF a.time - x.last > x.maxGap THEN a.time - x.last ELSE x.maxGap
  BY DEF UpdateStatistics, Statistics
<1>4. /\ x.count = Cardinality(P)
      /\ \A i \in P : L[i].flow = a.flow /\ x.first <= L[i].time /\ L[i].time <= x.last
      /\ \E i \in P : L[i].time = x.first
      /\ \E j \in P : L[j].time = x.last /\ \A k \in P : k <= j
      /\ \A i, j \in DOMAIN L : Adjacent(L, s, i, j) => L[j].time - L[i].time <= x.maxGap
      /\ \/ x.maxGap = 0
         \/ \E i, j \in DOMAIN L : Adjacent(L, s, i, j) /\ x.maxGap = L[j].time - L[i].time
  BY DEF AccountsFor
<1>5. IsFiniteSet(P)
  <2>1. IsFiniteSet(1 .. Len(L)) BY FS_Interval
  <2> QED BY <1>1, <2>1, FS_Subset
<1>6. y.count = Cardinality(P \cup {n})
  <2>1. Cardinality(P \cup {n}) = Cardinality(P) + 1 BY <1>1, <1>5, FS_AddElement
  <2> QED BY <1>3, <1>4, <2>1
<1>7. PICK m \in P : L[m].time = x.last /\ \A k \in P : k <= m BY <1>4
<1>8. \A i, j : Adjacent(M, s, i, j) <=> Adjacent(L, s, i, j) \/ (i = m /\ j = n)
  <2> SUFFICES ASSUME NEW i, NEW j
               PROVE  Adjacent(M, s, i, j) <=> Adjacent(L, s, i, j) \/ (i = m /\ j = n)
    OBVIOUS
  <2>1. Adjacent(L, s, i, j) => Adjacent(M, s, i, j)
    BY <1>1 DEF Adjacent
  <2>2. Adjacent(M, s, m, n)
    BY <1>1, <1>7 DEF Adjacent
  <2>3. ASSUME Adjacent(M, s, i, j), j # n PROVE Adjacent(L, s, i, j)
    BY <1>1, <2>3 DEF Adjacent
  <2>4. ASSUME Adjacent(M, s, i, j), j = n PROVE i = m
    <3>1. i \in FiledIn(M, s) /\ i < n /\ \A k \in FiledIn(M, s) : k <= i \/ k >= n
      BY <2>4 DEF Adjacent
    <3>2. i \in P /\ m \in P /\ m < n /\ m \in FiledIn(M, s) BY <1>1, <1>7, <3>1
    <3>3. i <= m /\ m <= i BY <1>1, <1>7, <3>1, <3>2
    <3> QED BY <1>1, <3>2, <3>3
  <2> QED BY <2>1, <2>2, <2>3, <2>4
<1>9. \A i, j : Adjacent(L, s, i, j) => i \in P /\ j \in P
  BY DEF Adjacent
<1> HIDE DEF M, P, y
<1>10. \A i \in P \cup {n} : M[i].flow = a.flow /\ y.first <= M[i].time /\ M[i].time <= y.last
  <2>1. \A i \in P : L[i].time <= a.time BY <1>2, <1>4
  <2>2. x.first <= a.time BY <1>2, <1>7, <1>4, <2>1
  <2> QED BY <1>1, <1>2, <1>3, <1>4, <2>1, <2>2
<1>11. \E i \in P \cup {n} : M[i].time = y.first BY <1>1, <1>3, <1>4
<1>12. \E j \in P \cup {n} : M[j].time = y.last /\ \A k \in P \cup {n} : k <= j
  BY <1>1, <1>3
<1>13. \A i, j \in DOMAIN M : Adjacent(M, s, i, j) => M[j].time - M[i].time <= y.maxGap
  <2> SUFFICES ASSUME NEW i \in DOMAIN M, NEW j \in DOMAIN M, Adjacent(M, s, i, j)
               PROVE  M[j].time - M[i].time <= y.maxGap
    OBVIOUS
  <2>1. CASE Adjacent(L, s, i, j)
    <3>1. i \in P /\ j \in P /\ M[i] = L[i] /\ M[j] = L[j] BY <1>1, <1>9, <2>1
    <3>2. L[j].time - L[i].time <= x.maxGap BY <1>1, <1>4, <2>1, <3>1
    <3>3. M[j].time - M[i].time <= x.maxGap BY <3>1, <3>2
    <3>4. M[i].time \in Nat /\ M[j].time \in Nat BY <1>2, <3>1
    <3> QED BY <1>2, <1>3, <3>3, <3>4
  <2>2. CASE i = m /\ j = n
    BY <1>1, <1>2, <1>3, <1>7, <2>2
  <2> QED BY <1>8, <2>1, <2>2
<1>14. \/ y.maxGap = 0
       \/ \E i, j \in DOMAIN M : Adjacent(M, s, i, j) /\ y.maxGap = M[j].time - M[i].time
  <2>1. CASE y.maxGap = a.time - x.last
    <3>1. Adjacent(M, s, m, n) /\ m \in DOMAIN M /\ n \in DOMAIN M BY <1>1, <1>8
    <3>2. y.maxGap = M[n].time - M[m].time BY <1>1, <1>7, <2>1
    <3> QED BY <3>1, <3>2
  <2>2. CASE y.maxGap = x.maxGap /\ x.maxGap # 0
    <3>1. PICK i, j \in DOMAIN L : Adjacent(L, s, i, j) /\ x.maxGap = L[j].time - L[i].time
      BY <1>4, <2>2
    <3>2. i \in P /\ j \in P /\ M[i] = L[i] /\ M[j] = L[j] BY <1>1, <1>9, <3>1
    <3>3. i \in DOMAIN M /\ j \in DOMAIN M BY <1>1
    <3> QED BY <1>8, <2>2, <3>1, <3>2, <3>3
  <2> QED BY <1>3, <2>1, <2>2
<1> QED BY <1>1, <1>6, <1>10, <1>11, <1>12, <1>13, <1>14 DEF AccountsFor, M, y

-----------------------------------------------------------------------------
(* WindowAccounting as an invariant a step can be compared by.               *)
Accounted ==
    /\ \A g \in DOMAIN active : AccountsFor(log, g, active[g].seq, active[g].stats)
    /\ \A k \in DOMAIN emitted :
           AccountsFor(log, emitted[k].flow, emitted[k].seq, emitted[k].stats)
    /\ \A i \in DOMAIN log :
           \/ \E g \in DOMAIN active : active[g].seq = log[i].seq
           \/ \E k \in DOMAIN emitted : emitted[k].seq = log[i].seq

LEMMA EmittedOf ==
    ASSUME TypeOK
    PROVE  \A k \in DOMAIN emitted : /\ emitted[k].flow \in Flows
                                     /\ emitted[k].seq \in Nat
                                     /\ emitted[k].stats \in Statistics
                                     /\ emitted[k].reason \in Reasons
<1>1. \A k \in DOMAIN emitted : emitted[k] \in Windows BY DEF TypeOK
<1> QED BY <1>1 DEF Windows

(* A window let go keeps the account it had while it was open.               *)
LEMMA AccountedHandedOut ==
    ASSUME TypeOK, TypeOK', Accounted, NEW R \in SUBSET DOMAIN active, HandsOut(R)
    PROVE  /\ \A k \in DOMAIN emitted' :
                  AccountsFor(log, emitted'[k].flow, emitted'[k].seq, emitted'[k].stats)
           /\ \A i \in DOMAIN log :
                  \/ \E g \in DOMAIN active \ R : active[g].seq = log[i].seq
                  \/ \E k \in DOMAIN emitted' : emitted'[k].seq = log[i].seq
<1>1. \A k \in DOMAIN emitted' :
         \/ k \in DOMAIN emitted /\ emitted'[k] = emitted[k]
         \/ \E g \in R : /\ emitted'[k].flow = g
                         /\ emitted'[k].seq = active[g].seq
                         /\ emitted'[k].stats = active[g].stats
  BY HandsOutWhere
<1>2. \A k \in DOMAIN emitted' :
         AccountsFor(log, emitted'[k].flow, emitted'[k].seq, emitted'[k].stats)
  <2> SUFFICES ASSUME NEW k \in DOMAIN emitted'
               PROVE  AccountsFor(log, emitted'[k].flow, emitted'[k].seq, emitted'[k].stats)
    OBVIOUS
  <2>1. CASE k \in DOMAIN emitted /\ emitted'[k] = emitted[k]
    BY <2>1 DEF Accounted
  <2>2. ASSUME NEW g \in R, emitted'[k].flow = g, emitted'[k].seq = active[g].seq,
               emitted'[k].stats = active[g].stats
        PROVE  AccountsFor(log, emitted'[k].flow, emitted'[k].seq, emitted'[k].stats)
    <3>1. AccountsFor(log, g, active[g].seq, active[g].stats) BY DEF Accounted
    <3> QED BY <2>2, <3>1
  <2> QED BY <1>1, <2>1, <2>2
<1>3. /\ DOMAIN emitted = 1 .. Len(emitted) /\ DOMAIN emitted' = 1 .. Len(emitted')
      /\ Len(emitted) \in Nat /\ Len(emitted') \in Nat
  BY DEF TypeOK
<1>a. \A k \in DOMAIN emitted : k \in DOMAIN emitted' /\ emitted'[k] = emitted[k]
  BY <1>3 DEF HandsOut
<1>b. ASSUME NEW g \in R PROVE \E k \in DOMAIN emitted' : emitted'[k].seq = active[g].seq
  <2>1. PICK k \in Len(emitted) + 1 .. Len(emitted') : emitted'[k].seq = active[g].seq
    BY DEF HandsOut
  <2>2. k \in DOMAIN emitted' BY <1>3
  <2> QED BY <2>1, <2>2
<1>5. ASSUME NEW i \in DOMAIN log
      PROVE  \/ \E g \in DOMAIN active \ R : active[g].seq = log[i].seq
             \/ \E k \in DOMAIN emitted' : emitted'[k].seq = log[i].seq
  <2>1. CASE \E g \in DOMAIN active : active[g].seq = log[i].seq
    BY <1>b, <2>1
  <2>2. CASE \E k \in DOMAIN emitted : emitted[k].seq = log[i].seq
    BY <1>a, <2>2
  <2> QED BY <2>1, <2>2 DEF Accounted
<1> QED BY <1>2, <1>5

LEMMA AccountedStep ==
    ASSUME IInv, TypeOK', Accounted, [Next]_vars
    PROVE  Accounted'
<1>0. /\ TypeOK /\ InFlightFits /\ IsFiniteSet(DOMAIN active) /\ KeysAreWindows /\ BehindFrontier
      /\ log \in Seq(Admissions) /\ nextSeq \in Nat
  BY DEF IInv, Bounded, TypeOK
<1>a. /\ \A g \in DOMAIN active : /\ active[g].seq \in Nat /\ active[g].stats \in Statistics
                                  /\ active[g].seq < nextSeq /\ active[g].seq # nextSeq
                                  /\ g \in Flows
      /\ \A k \in DOMAIN emitted : emitted[k].seq \in Nat /\ emitted[k].seq < nextSeq
  BY <1>0, EmittedOf DEF TypeOK, Entries, KeysAreWindows
<1>1. CASE Quiet
  BY <1>1 DEF Quiet, managerVars, historyVars, Accounted
<1>2. ASSUME NEW f \in DOMAIN active, NEW t \in Times, FilesInOpen(f, t) PROVE Accounted'
  <2> DEFINE a == [flow |-> f, time |-> t, seq |-> active[f].seq]
  <2>1. a \in Admissions BY <1>a DEF Admissions
  <2>2. /\ log' = Append(log, a) /\ emitted' = emitted
        /\ DOMAIN active' = DOMAIN active
        /\ active'[f].seq = active[f].seq
        /\ active'[f].stats = UpdateStatistics(active[f].stats, t)
        /\ \A g \in DOMAIN active : g # f => active'[g] = active[g]
        /\ \A g \in DOMAIN active : active'[g].seq = active[g].seq
    BY <1>0, <1>2 DEF FilesInOpen, TypeOK, Entries
  <2>3. a.flow = f /\ a.seq = active[f].seq /\ a.time = t OBVIOUS
  <2> HIDE DEF a
  <2>4. active[f].stats.last <= t
    <3>1. active[f].stats.last <= latest BY <1>0 DEF BehindFrontier
    <3>2. latest <= t BY <1>2 DEF FilesInOpen
    <3>3. active[f].stats.last \in Times BY <1>a DEF Statistics
    <3>a. Times \subseteq Int BY TimesAssumption
    <3>4. active[f].stats.last \in Int /\ t \in Int BY <3>3, <3>a
    <3>5. latest \in Int BY <1>0, TimesAssumption DEF TypeOK, NoTime
    <3> QED BY <3>1, <3>2, <3>4, <3>5
  <2>5. AccountsFor(log', f, active'[f].seq, active'[f].stats)
    <3>1. AccountsFor(log, f, active[f].seq, active[f].stats) BY DEF Accounted
    <3> QED BY <1>0, <1>a, <2>1, <2>2, <2>3, <2>4, <3>1, AccountsFiled
  <2>6. ASSUME NEW g \in DOMAIN active, g # f
        PROVE  AccountsFor(log', g, active'[g].seq, active'[g].stats)
    <3>1. active[g].seq # active[f].seq BY <1>0, <2>6 DEF KeysAreWindows
    <3>2. AccountsFor(log, g, active[g].seq, active[g].stats) BY DEF Accounted
    <3> QED BY <1>0, <2>1, <2>2, <2>3, <2>6, <3>1, <3>2, AccountsKept
  <2>7. ASSUME NEW k \in DOMAIN emitted
        PROVE  AccountsFor(log', emitted[k].flow, emitted[k].seq, emitted[k].stats)
    <3>1. emitted[k].seq # active[f].seq BY <1>0 DEF KeysAreWindows
    <3>2. AccountsFor(log, emitted[k].flow, emitted[k].seq, emitted[k].stats) BY DEF Accounted
    <3> QED BY <1>0, <2>1, <2>2, <2>3, <3>1, <3>2, AccountsKept
  <2>8. ASSUME NEW i \in DOMAIN log'
        PROVE  \/ \E g \in DOMAIN active' : active'[g].seq = log'[i].seq
               \/ \E k \in DOMAIN emitted' : emitted'[k].seq = log'[i].seq
    <3>1. \/ i \in DOMAIN log /\ log'[i] = log[i]
          \/ log'[i] = a
      BY <1>0, <2>1, <2>2
    <3> QED BY <2>2, <2>3, <3>1 DEF Accounted
  <2> QED BY <2>2, <2>5, <2>6, <2>7, <2>8 DEF Accounted
<1>3. ASSUME NEW f \in Flows, NEW t \in Times, NEW R \in SUBSET DOMAIN active, FilesInNew(f, t, R)
      PROVE  Accounted'
  <2> DEFINE a == [flow |-> f, time |-> t, seq |-> nextSeq]
             kept == DOMAIN active \ R
  <2>1. a \in Admissions BY <1>0 DEF Admissions
  <2>2. /\ log' = Append(log, a) /\ HandsOut(R)
        /\ DOMAIN active' = kept \cup {f} /\ f \notin kept
        /\ active'[f].seq = nextSeq /\ active'[f].stats = StartStatistics(t)
        /\ \A g \in kept : active'[g] = active[g]
    BY <1>3 DEF FilesInNew
  <2>3. a.flow = f /\ a.seq = nextSeq /\ a.time = t OBVIOUS
  <2> HIDE DEF a
  <2>4. /\ \A k \in DOMAIN emitted' :
               AccountsFor(log, emitted'[k].flow, emitted'[k].seq, emitted'[k].stats)
        /\ \A i \in DOMAIN log :
               \/ \E g \in kept : active[g].seq = log[i].seq
               \/ \E k \in DOMAIN emitted' : emitted'[k].seq = log[i].seq
    BY <1>0, <2>2, AccountedHandedOut
  <2>5. \A k \in DOMAIN emitted' : emitted'[k].seq # nextSeq
    <3>1. \A k \in DOMAIN emitted' : emitted'[k].seq < nextSeq BY <1>0, <2>2, HandsOutKeys
    <3> QED BY <1>0, <3>1
  <2>6. \A i \in DOMAIN log : log[i].seq # a.seq BY <1>a, <2>3, <2>4, <2>5
  <2>7. AccountsFor(log', f, active'[f].seq, active'[f].stats)
    BY <1>0, <2>1, <2>2, <2>3, <2>6, AccountsStarted
  <2>8. ASSUME NEW g \in kept PROVE AccountsFor(log', g, active'[g].seq, active'[g].stats)
    <3>1. AccountsFor(log, g, active[g].seq, active[g].stats) BY DEF Accounted
    <3> QED BY <1>0, <1>a, <2>1, <2>2, <2>3, <3>1, AccountsKept
  <2>9. ASSUME NEW k \in DOMAIN emitted'
        PROVE  AccountsFor(log', emitted'[k].flow, emitted'[k].seq, emitted'[k].stats)
    BY <1>0, <2>1, <2>2, <2>3, <2>4, <2>5, AccountsKept
  <2>10. ASSUME NEW i \in DOMAIN log'
         PROVE  \/ \E g \in DOMAIN active' : active'[g].seq = log'[i].seq
                \/ \E k \in DOMAIN emitted' : emitted'[k].seq = log'[i].seq
    <3>1. \/ i \in DOMAIN log /\ log'[i] = log[i]
          \/ log'[i] = a
      BY <1>0, <2>1, <2>2
    <3> QED BY <2>2, <2>3, <2>4, <3>1
  <2> QED BY <2>2, <2>7, <2>8, <2>9, <2>10 DEF Accounted
<1>4. ASSUME NEW R \in SUBSET DOMAIN active, LetsGo(R) PROVE Accounted'
  <2>1. /\ DOMAIN active' = DOMAIN active \ R
        /\ \A g \in DOMAIN active \ R : active'[g] = active[g]
        /\ HandsOut(R) /\ log' = log
    BY <1>4 DEF LetsGo
  <2> QED BY <1>0, <2>1, AccountedHandedOut DEF Accounted
<1> QED BY <1>0, <1>1, <1>2, <1>3, <1>4, StepShape

(* The account of a window is what WindowAccounting says of it.              *)
LEMMA AccountsOf ==
    ASSUME NEW w, AccountsFor(log, w.flow, w.seq, w.stats)
    PROVE  Accounts(w)
<1>1. FiledIn(log, w.seq) = PacketsOf(w.seq) BY DEF FiledIn, PacketsOf
<1>2. PacketsOf(w.seq) \subseteq DOMAIN log BY DEF PacketsOf
<1>3. \A i, j : Adjacent(log, w.seq, i, j) <=> <<i, j>> \in Neighbours(w.seq)
  BY <1>1 DEF Adjacent, Neighbours
<1>4. \A d \in Gaps(w.seq) : \E i, j \in DOMAIN log :
         Adjacent(log, w.seq, i, j) /\ d = log[j].time - log[i].time
  <2> SUFFICES ASSUME NEW p \in Neighbours(w.seq)
               PROVE  \E i, j \in DOMAIN log : /\ Adjacent(log, w.seq, i, j)
                                              /\ log[p[2]].time - log[p[1]].time = log[j].time - log[i].time
    BY DEF Gaps
  <2>1. PICK i, j \in PacketsOf(w.seq) : p = <<i, j>> BY DEF Neighbours
  <2> QED BY <1>2, <1>3, <2>1
<1>5. \A i, j : Adjacent(log, w.seq, i, j) => log[j].time - log[i].time \in Gaps(w.seq)
  <2> SUFFICES ASSUME NEW i, NEW j, Adjacent(log, w.seq, i, j)
               PROVE  log[j].time - log[i].time \in Gaps(w.seq)
    OBVIOUS
  <2>1. <<i, j>> \in Neighbours(w.seq) /\ <<i, j>>[1] = i /\ <<i, j>>[2] = j BY <1>3
  <2> QED BY <2>1 DEF Gaps
<1> QED BY <1>1, <1>4, <1>5 DEF AccountsFor, Accounts

(* The statistics of every window are those of exactly the accepted packets  *)
(* filed under its number, and every accepted packet is filed in a window.   *)
THEOREM Accounting == Spec => []WindowAccounting
<1>1. Init => Accounted BY DEF Init, Accounted
<1>2. IInv /\ IInv' /\ Accounted /\ [Next]_vars => Accounted'
  BY AccountedStep DEF IInv
<1>3. Accounted => WindowAccounting
  <2> SUFFICES ASSUME Accounted PROVE WindowAccounting
    OBVIOUS
  <2>1. ASSUME NEW g \in DOMAIN active
        PROVE  Accounts([flow |-> g, seq |-> active[g].seq, stats |-> active[g].stats,
                         reason |-> "none"])
    BY AccountsOf DEF Accounted
  <2>2. ASSUME NEW k \in DOMAIN emitted PROVE Accounts(emitted[k])
    BY AccountsOf DEF Accounted
  <2>3. ASSUME NEW i \in DOMAIN log PROVE \E w \in AllWindows : w.seq = log[i].seq
    <3>1. CASE \E g \in DOMAIN active : active[g].seq = log[i].seq
      <4>1. PICK g \in DOMAIN active : active[g].seq = log[i].seq BY <3>1
      <4> DEFINE w == [flow |-> g, seq |-> active[g].seq, stats |-> active[g].stats,
                       reason |-> "none"]
      <4>2. w \in AllWindows /\ w.seq = active[g].seq BY DEF AllWindows, ActiveWindows
      <4> QED BY <4>1, <4>2
    <3>2. CASE \E k \in DOMAIN emitted : emitted[k].seq = log[i].seq
      BY <3>2 DEF AllWindows, EmittedWindows
    <3> QED BY <3>1, <3>2 DEF Accounted
  <2> QED BY <2>1, <2>2, <2>3 DEF WindowAccounting, AllWindows, ActiveWindows, EmittedWindows
<1> QED BY Inductive, <1>1, <1>2, <1>3, PTL DEF Spec

-----------------------------------------------------------------------------
(***************************************************************************)
(* Where a packet is filed.  Of an open window, the log holds the last     *)
(* packet of the flow, filed under its number at its last time.            *)
(***************************************************************************)
LastFiled(f, i) ==
    /\ log[i].flow = f /\ log[i].seq = active[f].seq /\ log[i].time = active[f].stats.last
    /\ \A j \in DOMAIN log : log[j].flow = f => j <= i

TableOfLog == \A f \in DOMAIN active : \E i \in DOMAIN log : LastFiled(f, i)

(* After a packet, its flow has it as its last; other flows keep theirs.     *)
LEMMA TableAppend ==
    ASSUME TypeOK, NEW p \in Admissions, log' = Append(log, p),
           NEW kept \in SUBSET DOMAIN active, p.flow \notin kept,
           \A g \in kept : active'[g] = active[g],
           \A g \in kept : \E i \in DOMAIN log : LastFiled(g, i),
           DOMAIN active' = kept \cup {p.flow},
           active'[p.flow].seq = p.seq, active'[p.flow].stats.last = p.time
    PROVE  TableOfLog'
<1>1. PICK n : n = Len(log) + 1 OBVIOUS
<1>2. /\ DOMAIN log' = DOMAIN log \cup {n} /\ log'[n] = p
      /\ \A i \in DOMAIN log : log'[i] = log[i] /\ i \in Int /\ i <= n
      /\ n \in Int
  BY <1>1 DEF TypeOK
<1>3. ASSUME NEW g \in kept PROVE \E i \in DOMAIN log' : LastFiled(g, i)'
  <2>1. PICK i \in DOMAIN log : LastFiled(g, i) OBVIOUS
  <2>2. g # p.flow /\ active'[g] = active[g] OBVIOUS
  <2>3. i \in DOMAIN log' BY <1>2
  <2>4. log'[i].flow = g /\ log'[i].seq = active'[g].seq /\ log'[i].time = active'[g].stats.last
    BY <1>2, <2>1, <2>2 DEF LastFiled
  <2>5. \A j \in DOMAIN log' : log'[j].flow = g => j <= i BY <1>2, <2>1, <2>2 DEF LastFiled
  <2> QED BY <2>3, <2>4, <2>5 DEF LastFiled
<1>4. LastFiled(p.flow, n)' BY <1>1, <1>2 DEF LastFiled
<1> QED BY <1>2, <1>3, <1>4 DEF TableOfLog

LEMMA TableStep ==
    ASSUME IInv, TableOfLog, [Next]_vars
    PROVE  TableOfLog'
<1>0. TypeOK /\ InFlightFits /\ IsFiniteSet(DOMAIN active) /\ nextSeq \in Nat
  BY DEF IInv, Bounded, TypeOK
<1>1. CASE Quiet
  BY <1>1 DEF Quiet, managerVars, historyVars, TableOfLog, LastFiled
<1>2. ASSUME NEW f \in DOMAIN active, NEW t \in Times, FilesInOpen(f, t) PROVE TableOfLog'
  <2>1. PICK p : p = [flow |-> f, time |-> t, seq |-> active[f].seq] OBVIOUS
  <2>2. PICK kept : kept = DOMAIN active \ {f} OBVIOUS
  <2>3. p \in Admissions /\ p.flow = f /\ p.time = t /\ p.seq = active[f].seq
    BY <1>0, <2>1 DEF Admissions, TypeOK, Entries
  <2>4. UpdateStatistics(active[f].stats, t).last = t
    BY <1>0 DEF UpdateStatistics, Statistics, TypeOK, Entries
  <2>5. /\ log' = Append(log, p)
        /\ DOMAIN active' = DOMAIN active
        /\ active'[f].seq = active[f].seq /\ active'[f].stats.last = t
        /\ \A g \in DOMAIN active : g # f => active'[g] = active[g]
    BY <1>0, <1>2, <2>1, <2>4 DEF FilesInOpen, TypeOK, Entries
  <2> QED BY <1>0, <2>2, <2>3, <2>5, TableAppend DEF TableOfLog
<1>3. ASSUME NEW f \in Flows, NEW t \in Times, NEW R \in SUBSET DOMAIN active, FilesInNew(f, t, R)
      PROVE  TableOfLog'
  <2>1. PICK p : p = [flow |-> f, time |-> t, seq |-> nextSeq] OBVIOUS
  <2>2. PICK kept : kept = DOMAIN active \ R OBVIOUS
  <2>3. p \in Admissions /\ p.flow = f /\ p.time = t /\ p.seq = nextSeq
    BY <1>0, <2>1 DEF Admissions
  <2>4. /\ log' = Append(log, p) /\ f \notin kept
        /\ DOMAIN active' = kept \cup {f}
        /\ active'[f].seq = nextSeq /\ active'[f].stats.last = t
        /\ \A g \in kept : active'[g] = active[g]
    BY <1>3, <2>1, <2>2 DEF FilesInNew, StartStatistics
  <2> QED BY <1>0, <2>2, <2>3, <2>4, TableAppend DEF TableOfLog
<1>4. ASSUME NEW R \in SUBSET DOMAIN active, LetsGo(R) PROVE TableOfLog'
  <2>1. /\ DOMAIN active' = DOMAIN active \ R
        /\ \A g \in DOMAIN active \ R : active'[g] = active[g]
        /\ log' = log
    BY <1>4 DEF LetsGo
  <2> QED BY <2>1 DEF TableOfLog, LastFiled
<1> QED BY <1>0, <1>1, <1>2, <1>3, <1>4, StepShape

(* The numbers under which packets are filed are all those issued.           *)
LEMMA NumbersIssued ==
    ASSUME IInv, Accounted
    PROVE  Cardinality({log[i].seq : i \in DOMAIN log}) = nextSeq
<1>0. nextSeq \in Nat /\ KeysAreWindows BY DEF IInv, TypeOK
<1>1. ASSUME NEW i \in DOMAIN log PROVE log[i].seq \in 0 .. nextSeq - 1
  <2>1. log[i] \in Admissions BY DEF IInv, TypeOK
  <2>2. log[i].seq \in Nat BY <2>1 DEF Admissions
  <2>3. log[i].seq < nextSeq BY <1>0 DEF Accounted, KeysAreWindows
  <2> QED BY <1>0, <2>2, <2>3
<1>2. ASSUME NEW s \in 0 .. nextSeq - 1 PROVE \E i \in DOMAIN log : log[i].seq = s
  <2>1. \E f, x : AccountsFor(log, f, s, x) BY <1>0 DEF KeysAreWindows, Accounted
  <2>2. \E i \in FiledIn(log, s) : TRUE BY <2>1 DEF AccountsFor
  <2> QED BY <2>2 DEF FiledIn
<1>3. {log[i].seq : i \in DOMAIN log} = 0 .. nextSeq - 1 BY <1>1, <1>2
<1>4. Cardinality(0 .. nextSeq - 1) = nextSeq
  <2>1. 0 \in Int /\ nextSeq - 1 \in Int BY <1>0
  <2>2. Cardinality(0 .. nextSeq - 1) =
            IF 0 > nextSeq - 1 THEN 0 ELSE (nextSeq - 1) - 0 + 1
    BY <2>1, FS_Interval
  <2> QED BY <1>0, <2>2
<1> QED BY <1>3, <1>4

(* A window is open as long as it is not handed out: the last packet of a    *)
(* flow tells whether the flow has one, and which.                           *)
LEMMA OpenOrHandedOut ==
    ASSUME IInv, Accounted, TableOfLog, NEW f, NEW i \in LastAccepted(f)
    PROVE  /\ f \in DOMAIN active <=> ~HandedOut(log[i].seq)
           /\ f \in DOMAIN active =>
                  log[i].seq = active[f].seq /\ log[i].time = active[f].stats.last
<1>0. i \in DOMAIN log /\ log[i].flow = f /\ \A j \in DOMAIN log : log[j].flow = f => j <= i
  BY DEF LastAccepted
<1>1. DOMAIN log \subseteq Int BY DEF IInv, TypeOK
<1>2. ASSUME f \in DOMAIN active
      PROVE  log[i].seq = active[f].seq /\ log[i].time = active[f].stats.last
  <2>1. PICK k \in DOMAIN log : LastFiled(f, k) BY <1>2 DEF TableOfLog
  <2>2. k <= i /\ i <= k BY <1>0, <2>1 DEF LastFiled
  <2>3. k = i BY <1>0, <1>1, <2>2
  <2> QED BY <2>1, <2>3 DEF LastFiled
<1>3. f \in DOMAIN active => ~HandedOut(log[i].seq)
  BY <1>2 DEF IInv, KeysAreWindows, HandedOut
<1>4. ASSUME ~HandedOut(log[i].seq) PROVE f \in DOMAIN active
  <2>1. PICK g \in DOMAIN active : active[g].seq = log[i].seq
    BY <1>0, <1>4 DEF Accounted, HandedOut
  <2>2. AccountsFor(log, g, log[i].seq, active[g].stats) BY <2>1 DEF Accounted
  <2>3. i \in FiledIn(log, log[i].seq) BY <1>0 DEF FiledIn
  <2>4. log[i].flow = g BY <2>2, <2>3 DEF AccountsFor
  <2> QED BY <1>0, <2>1, <2>4
<1> QED BY <1>2, <1>3, <1>4

(* Where an accepted packet is filed follows from the packets accepted and   *)
(* the windows handed out before it; a record() that raised has no say       *)
(* (flow_observation_window.py:292-331, 376-396).                            *)
LEMMA FilesByHistory ==
    ASSUME IInv, Accounted, TableOfLog, [Next]_vars
    PROVE  FiledNow
<1>0. /\ TypeOK /\ InFlightFits /\ IsFiniteSet(DOMAIN active) /\ nextSeq \in Nat
      /\ log \in Seq(Admissions) /\ emitted \in Seq(Windows)
  BY DEF IInv, Bounded, TypeOK
<1>a. ASSUME NEW p \in Admissions, log' = Append(log, p)
      PROVE  DOMAIN log' \ DOMAIN log = {Len(log) + 1} /\ log'[Len(log) + 1] = p
  <2>1. DOMAIN log = 1 .. Len(log) /\ DOMAIN log' = 1 .. Len(log) + 1 /\ Len(log) \in Nat
    BY <1>0, <1>a
  <2> QED BY <1>0, <1>a, <2>1
<1>b. \A f \in DOMAIN active : active[f].stats.last \in Int
  BY <1>0, TimesAssumption DEF TypeOK, Entries, Statistics
<1>c. Times \subseteq Int /\ Timeout \in Int BY TimesAssumption, TimeoutAssumption
<1>1. CASE log' = log BY <1>1 DEF FiledNow
<1>2. ASSUME NEW f \in DOMAIN active, NEW t \in Times, FilesInOpen(f, t) PROVE FiledNow
  <2>1. PICK p : p = [flow |-> f, time |-> t, seq |-> active[f].seq] OBVIOUS
  <2>2. p \in Admissions /\ p.flow = f /\ p.time = t /\ p.seq = active[f].seq
    BY <1>0, <2>1 DEF Admissions, TypeOK, Entries
  <2>3. log' = Append(log, p) /\ t - active[f].stats.last < Timeout
    BY <1>2, <1>b, <1>c, <2>1 DEF FilesInOpen, Expired
  <2>4. PICK i \in DOMAIN log : LastFiled(f, i) BY DEF TableOfLog
  <2>5. i \in LastAccepted(f) BY <2>4 DEF LastFiled, LastAccepted
  <2>6. \A k \in LastAccepted(f) :
            /\ log[k].seq = active[f].seq /\ log[k].time = active[f].stats.last
            /\ ~HandedOut(log[k].seq)
    BY OpenOrHandedOut
  <2>7. Joins(p) = LastAccepted(f) BY <2>2, <2>3, <2>6 DEF Joins
  <2>8. \A k \in Joins(p) : p.seq = log[k].seq BY <2>2, <2>6, <2>7
  <2>9. Joins(p) # {} /\ LastAccepted(p.flow) \ Joins(p) = {} BY <2>2, <2>5, <2>7
  <2> QED BY <1>a, <2>2, <2>3, <2>8, <2>9 DEF FiledNow
<1>3. ASSUME NEW f \in Flows, NEW t \in Times, NEW R \in SUBSET DOMAIN active, FilesInNew(f, t, R)
      PROVE  FiledNow
  <2>1. PICK p : p = [flow |-> f, time |-> t, seq |-> nextSeq] OBVIOUS
  <2>2. p \in Admissions /\ p.flow = f /\ p.time = t /\ p.seq = nextSeq
    BY <1>0, <2>1 DEF Admissions
  <2>3. /\ log' = Append(log, p) /\ HandsOut(R)
        /\ f \notin DOMAIN active \ R /\ (f \in R => Expired(f, t))
    BY <1>3, <2>1 DEF FilesInNew
  <2>4. TypeOK' BY <1>0, TypeStep
  <2>5. ASSUME NEW i \in LastAccepted(f)
        PROVE  i \notin Joins(p) /\ \E k \in DOMAIN emitted' : emitted'[k].seq = log[i].seq
    <3>1. CASE f \in DOMAIN active
      <4>1. log[i].seq = active[f].seq /\ log[i].time = active[f].stats.last
        BY <3>1, OpenOrHandedOut
      <4>2. f \in R /\ t - log[i].time >= Timeout BY <2>3, <3>1, <4>1 DEF Expired
      <4>3. ~(t - log[i].time < Timeout) BY <1>b, <1>c, <3>1, <4>1, <4>2
      <4>4. i \notin Joins(p) BY <2>2, <4>3 DEF Joins
      <4>5. \E k \in Len(emitted) + 1 .. Len(emitted') : emitted'[k].seq = active[f].seq
        BY <2>3, <4>2 DEF HandsOut
      <4>6. Len(emitted) + 1 .. Len(emitted') \subseteq DOMAIN emitted'
        BY <1>0, <2>4 DEF TypeOK
      <4> QED BY <4>1, <4>4, <4>5, <4>6
    <3>2. CASE f \notin DOMAIN active
      <4>1. HandedOut(log[i].seq) BY <3>2, OpenOrHandedOut
      <4>2. i \notin Joins(p) BY <4>1 DEF Joins
      <4>3. PICK k \in DOMAIN emitted : emitted[k].seq = log[i].seq BY <4>1 DEF HandedOut
      <4>4. k \in DOMAIN emitted' /\ emitted'[k] = emitted[k]
        BY <1>0, <2>3, <2>4 DEF HandsOut, TypeOK
      <4> QED BY <4>2, <4>3, <4>4
    <3> QED BY <3>1, <3>2
  <2>6. Joins(p) = {} BY <2>2, <2>5 DEF Joins
  <2>7. p.seq = Cardinality({log[i].seq : i \in DOMAIN log}) BY <2>2, NumbersIssued
  <2> QED BY <1>a, <2>2, <2>3, <2>5, <2>6, <2>7 DEF FiledNow
<1>4. ASSUME NEW R \in SUBSET DOMAIN active, LetsGo(R) PROVE FiledNow
  BY <1>1, <1>4 DEF LetsGo
<1>5. CASE Quiet BY <1>1, <1>5 DEF Quiet, historyVars
<1> QED BY <1>0, <1>2, <1>3, <1>4, <1>5, StepShape

(* A packet is filed by what was accepted and handed out before it.          *)
THEOREM Filing == Spec => FiledByHistory
<1>1. Init => Accounted /\ TableOfLog BY DEF Init, Accounted, TableOfLog
<1>2. IInv /\ IInv' /\ Accounted /\ [Next]_vars => Accounted'
  BY AccountedStep DEF IInv
<1>3. IInv /\ TableOfLog /\ [Next]_vars => TableOfLog' BY TableStep
<1>4. IInv /\ Accounted /\ TableOfLog /\ [Next]_vars => [FiledNow]_vars BY FilesByHistory
<1> QED BY <1>1, <1>2, <1>3, <1>4, Inductive, PTL DEF Spec, FiledByHistory

-----------------------------------------------------------------------------
(* Why a step hands a window out.                                            *)
ExpiresNow(i) ==
    \E f \in DOMAIN active, t \in Times :
        /\ FilesInNew(f, t, {f})
        /\ Expired(f, t)
        /\ emitted'[i] = ClosedWindow(f, "INACTIVITY")

HandedOutFor(i) ==
    \/ emitted'[i].reason \in {"EXPLICIT_SEGMENTATION", "CAPACITY"}
    \/ emitted'[i].reason = "INACTIVITY" /\ ExpiresNow(i)
    \/ emitted'[i].reason = "CAPTURE_SESSION_END" /\ EndSession

LEMMA AppendedOnce ==
    ASSUME NEW S, NEW s \in Seq(S), NEW a \in S, NEW b \in S, Append(s, a) = Append(s, b)
    PROVE  a = b
<1>1. Append(s, a)[Len(s) + 1] = a OBVIOUS
<1>2. Append(s, b)[Len(s) + 1] = b OBVIOUS
<1> QED BY <1>1, <1>2

LEMMA AppendedWindow ==
    ASSUME TypeOK, NEW v \in DOMAIN active, NEW r \in Reasons,
           emitted' = Append(emitted, ClosedWindow(v, r))
    PROVE  \A i \in DOMAIN emitted' : i > Len(emitted) => emitted'[i] = ClosedWindow(v, r)
<1>1. ClosedWindow(v, r) \in Windows BY ClosedWindowType
<1>2. /\ Len(emitted) \in Nat
      /\ DOMAIN emitted' = 1 .. Len(emitted) + 1
      /\ emitted'[Len(emitted) + 1] = ClosedWindow(v, r)
  BY <1>1 DEF TypeOK
<1> QED BY <1>2

(* The windows of an ending session come out in the order of their creation. *)
LEMMA EndSessionOrder ==
    ASSUME TypeOK, IsFiniteSet(DOMAIN active), EndSession
    PROVE  /\ \A i \in DOMAIN emitted' : i > Len(emitted) =>
                  emitted'[i].reason = "CAPTURE_SESSION_END"
           /\ \A i, j \in DOMAIN emitted' : Len(emitted) < i /\ i < j =>
                  emitted'[i].seq < emitted'[j].seq
<1>1. PICK order \in ClosingOrders :
         emitted' = emitted \o [i \in DOMAIN order |-> ClosedWindow(order[i], "CAPTURE_SESSION_END")]
  BY DEF EndSession
<1> DEFINE n == Cardinality(DOMAIN active)
           tail == [i \in DOMAIN order |-> ClosedWindow(order[i], "CAPTURE_SESSION_END")]
<1>2. n \in Nat BY FS_CardinalityType
<1>3. /\ DOMAIN order = 1 .. n /\ \A i \in 1 .. n : order[i] \in DOMAIN active
      /\ \A i, j \in 1 .. n : i < j => active[order[i]].seq < active[order[j]].seq
  BY DEF ClosingOrders
<1>4. \A i \in 1 .. n : ClosedWindow(order[i], "CAPTURE_SESSION_END") \in Windows
  BY <1>3, ClosedWindowType DEF Reasons
<1>5. tail \in [1 .. n -> Windows] BY <1>3, <1>4
<1>6. tail \in Seq(Windows) /\ Len(tail) = n BY <1>2, <1>5
<1>7. \A i \in 1 .. n : /\ tail[i].seq = active[order[i]].seq
                        /\ tail[i].reason = "CAPTURE_SESSION_END"
  BY <1>3 DEF ClosedWindow
<1> HIDE DEF tail, n
<1>8. emitted \in Seq(Windows) /\ emitted' = emitted \o tail BY <1>1 DEF tail, TypeOK
<1>9. Len(emitted) \in Nat /\ DOMAIN emitted' = 1 .. Len(emitted) + n BY <1>2, <1>6, <1>8
<1>10. ASSUME NEW i \in DOMAIN emitted', i > Len(emitted)
       PROVE  i - Len(emitted) \in 1 .. n /\ emitted'[i] = tail[i - Len(emitted)]
  <2>1. i - Len(emitted) \in 1 .. n BY <1>2, <1>9, <1>10
  <2> QED BY <1>6, <1>8, <1>9, <1>10, <2>1
<1>11. ASSUME NEW i \in DOMAIN emitted', NEW j \in DOMAIN emitted', Len(emitted) < i, i < j
       PROVE  emitted'[i].seq < emitted'[j].seq
  <2> DEFINE a == i - Len(emitted)
             b == j - Len(emitted)
  <2>1. i \in Nat /\ j \in Nat BY <1>2, <1>9
  <2>2. i > Len(emitted) /\ j > Len(emitted) BY <1>9, <1>11, <2>1
  <2>3. a \in 1 .. n /\ b \in 1 .. n /\ emitted'[i] = tail[a] /\ emitted'[j] = tail[b]
    BY <1>10, <2>2
  <2>4. a < b BY <1>9, <1>11, <2>1
  <2> QED BY <1>3, <1>7, <2>3, <2>4
<1> QED BY <1>7, <1>9, <1>10, <1>11

LEMMA HandedOutWhy ==
    ASSUME TypeOK, InFlightFits, IsFiniteSet(DOMAIN active), [Next]_vars,
           NEW i \in DOMAIN emitted', i > Len(emitted)
    PROVE  HandedOutFor(i)
<1>0. Len(emitted) \in Nat /\ DOMAIN emitted = 1 .. Len(emitted) BY DEF TypeOK
<1>1. emitted' # emitted BY <1>0
<1>2. ASSUME NEW f \in Flows, NEW t \in Times, Record(f, t) PROVE FALSE
  BY <1>1, <1>2 DEF Record, PrepareContinue, PrepareAfterInactivity, PrepareUnseen,
              PrepareAtCapacity, PrepareNewWindow, Prepare, historyVars
<1>3. CASE \/ \E t \in Times : RefuseRecord(t)
           \/ FailRecord
           \/ \E f \in Flows : RefuseClose(f)
           \/ EndAgain
           \/ UNCHANGED vars
  BY <1>1, <1>3 DEF RefuseRecord, FailRecord, RefuseClose, EndAgain, historyVars, vars
<1>4. CASE PublishContinue
  <2>1. PICK f \in DOMAIN active, t \in Times : FilesInOpen(f, t)
    BY <1>4, PublishContinueShape
  <2> QED BY <1>1, <2>1 DEF FilesInOpen
<1>5. CASE PublishNew
  <2>1. PICK c \in inFlight : c.fresh /\ Return(c)
    BY <1>5 DEF PublishNew
  <2>2. emitted' = emitted \o c.closed /\ Fits(c) /\ c \in Candidates
        /\ log' = Append(log, [flow |-> c.flow, time |-> c.time, seq |-> c.seq])
    BY <2>1 DEF Return, InFlightFits, TypeOK
  <2>3. CASE c.closed = <<>>
    BY <1>1, <2>2, <2>3 DEF TypeOK
  <2>4. ASSUME NEW v \in DOMAIN active, NEW r \in Reasons, c.closed = <<ClosedWindow(v, r)>>
        PROVE  emitted'[i] = ClosedWindow(v, r)
    <3>1. ClosedWindow(v, r) \in Windows BY ClosedWindowType
    <3>2. emitted' = Append(emitted, ClosedWindow(v, r))
      BY <2>2, <2>4, <3>1 DEF TypeOK
    <3> QED BY <1>5, <3>2, AppendedWindow
  <2>5. CASE /\ c.flow \in DOMAIN active /\ Expired(c.flow, c.time)
             /\ c.closed = <<ClosedWindow(c.flow, "INACTIVITY")>>
    <3>1. emitted'[i] = ClosedWindow(c.flow, "INACTIVITY") BY <2>4, <2>5 DEF Reasons
    <3>2. emitted'[i].reason = "INACTIVITY" /\ emitted'[i].flow = c.flow
      BY <3>1 DEF ClosedWindow
    <3>3. PICK f \in Flows, t \in Times, R \in SUBSET DOMAIN active : FilesInNew(f, t, R)
      BY <1>5, PublishNewShape
    <3>4. f = c.flow /\ t = c.time
      <4> DEFINE a == [flow |-> f, time |-> t, seq |-> nextSeq]
                 b == [flow |-> c.flow, time |-> c.time, seq |-> c.seq]
      <4>1. log' = Append(log, a) /\ log' = Append(log, b) /\ log \in Seq(Admissions)
        BY <2>2, <3>3 DEF FilesInNew, TypeOK
      <4>2. a \in Admissions /\ b \in Admissions
        BY <2>2 DEF TypeOK, Admissions, Candidates
      <4>3. a = b BY <4>1, <4>2, AppendedOnce
      <4> QED BY <4>3
    <3>5. c.flow \in R
      <4>1. i \in Len(emitted) + 1 .. Len(emitted')
        <5>1. HandsOut(R) /\ emitted' \in Seq(Windows)
          BY <2>2, <3>3 DEF FilesInNew, TypeOK, Candidates
        <5> QED BY <1>0, <5>1, <1>5
      <4>2. PICK g \in R : emitted'[i].flow = g BY <3>3, <4>1 DEF FilesInNew, HandsOut
      <4> QED BY <3>2, <4>2
    <3>6. R = {c.flow} BY <3>3, <3>5 DEF FilesInNew
    <3> QED BY <2>5, <3>1, <3>2, <3>3, <3>4, <3>6 DEF HandedOutFor, ExpiresNow
  <2>6. CASE \E v \in CapacityVictims : c.closed = <<ClosedWindow(v, "CAPACITY")>>
    <3>1. PICK v \in CapacityVictims : c.closed = <<ClosedWindow(v, "CAPACITY")>> BY <2>6
    <3>2. v \in DOMAIN active BY DEF CapacityVictims
    <3>3. emitted'[i] = ClosedWindow(v, "CAPACITY") BY <2>4, <3>1, <3>2 DEF Reasons
    <3> QED BY <3>3 DEF HandedOutFor, ClosedWindow
  <2> QED BY <2>1, <2>2, <2>3, <2>5, <2>6 DEF Fits
<1>6. ASSUME NEW f \in Flows, Close(f) PROVE HandedOutFor(i)
  <2>1. emitted'[i] = ClosedWindow(f, "EXPLICIT_SEGMENTATION")
    BY <1>6, AppendedWindow DEF Close, Reasons
  <2> QED BY <2>1 DEF HandedOutFor, ClosedWindow
<1>7. CASE EndSession
  BY <1>7, EndSessionOrder DEF HandedOutFor
<1> QED BY <1>2, <1>3, <1>4, <1>5, <1>6, <1>7 DEF Next

-----------------------------------------------------------------------------
(* The session's end: what EndOfSession needs to be inductive is itself.     *)
LEMMA EndOfSessionStep ==
    ASSUME IInv, TypeOK', EndOfSession, [Next]_vars
    PROVE  EndOfSession'
<1>0. /\ TypeOK /\ InFlightFits /\ IsFiniteSet(DOMAIN active)
      /\ Len(emitted) \in Nat /\ DOMAIN emitted = 1 .. Len(emitted)
      /\ DOMAIN emitted' \subseteq Nat
  BY DEF IInv, Bounded, TypeOK
<1>a. /\ ended => DOMAIN active = {}
      /\ EndClosings # {} => ended
      /\ \A i \in EndClosings, j \in DOMAIN emitted :
             i < j => j \in EndClosings /\ emitted[i].seq < emitted[j].seq
  BY DEF EndOfSession
<1>1. CASE EndSession
  <2>1. ended' /\ ~ended /\ DOMAIN active' = {} BY <1>1 DEF EndSession
  <2>2. EndClosings = {} BY <1>a, <2>1
  <2>3. HandsOut(DOMAIN active) BY <1>0, <1>1, EndSessionHandsOut
  <2>4. \A i \in DOMAIN emitted : i \in DOMAIN emitted' /\ emitted'[i] = emitted[i]
    <3>1. DOMAIN emitted' = 1 .. Len(emitted') /\ Len(emitted') \in Nat
      BY DEF TypeOK
    <3> QED BY <1>0, <2>3, <3>1 DEF HandsOut
  <2>5. \A i \in EndClosings' : i > Len(emitted)
    BY <1>0, <2>2, <2>4 DEF EndClosings
  <2>6. ASSUME NEW i \in EndClosings', NEW j \in DOMAIN emitted', i < j
        PROVE  j \in EndClosings' /\ emitted'[i].seq < emitted'[j].seq
    <3>1. i \in DOMAIN emitted' /\ Len(emitted) < i BY <1>0, <2>5 DEF EndClosings
    <3>2. j > Len(emitted) BY <1>0, <2>6, <3>1
    <3> QED BY <1>0, <1>1, <2>6, <3>1, <3>2, EndSessionOrder DEF EndClosings
  <2> QED BY <2>1, <2>6 DEF EndOfSession
<1>2. CASE ~EndSession
  <2>1. UNCHANGED <<active, ended, emitted>> \/ (~ended /\ ended' = ended)
    <3>1. ASSUME NEW f \in Flows, NEW t \in Times, Record(f, t)
          PROVE  UNCHANGED <<active, ended, emitted>>
      BY <3>1 DEF Record, PrepareContinue, PrepareAfterInactivity, PrepareUnseen,
                  PrepareAtCapacity, PrepareNewWindow, Prepare, managerVars, historyVars
    <3>2. CASE \/ \E t \in Times : RefuseRecord(t)
               \/ FailRecord
               \/ \E f \in Flows : RefuseClose(f)
               \/ EndAgain
               \/ UNCHANGED vars
      BY <3>2 DEF RefuseRecord, FailRecord, RefuseClose, EndAgain, managerVars,
                  historyVars, vars
    <3>3. CASE PublishContinue \/ PublishNew
      BY <1>0, <3>3 DEF PublishContinue, PublishNew, Return, InFlightFits, Fits
    <3>4. ASSUME NEW f \in Flows, Close(f) PROVE ~ended /\ ended' = ended
      BY <3>4 DEF Close
    <3> QED BY <1>2, <3>1, <3>2, <3>3, <3>4 DEF Next
  <2>2. CASE ended
    BY <1>a, <2>1, <2>2 DEF EndOfSession, EndClosings
  <2>3. CASE ~ended
    <3>1. ASSUME NEW i \in EndClosings' PROVE FALSE
      <4>1. i \in DOMAIN emitted' /\ emitted'[i].reason = "CAPTURE_SESSION_END"
        BY DEF EndClosings
      <4>2. CASE i > Len(emitted)
        BY <1>0, <1>2, <4>1, <4>2, HandedOutWhy DEF HandedOutFor
      <4>3. CASE i <= Len(emitted)
        <5>1. i \in DOMAIN emitted BY <1>0, <4>1, <4>3 DEF TypeOK
        <5>2. emitted'[i] = emitted[i]
          <6>1. \E R \in SUBSET DOMAIN active : HandsOut(R) \/ emitted' = emitted
            BY <1>0, StepShape DEF Quiet, FilesInOpen, FilesInNew, LetsGo, historyVars
          <6> QED BY <1>0, <5>1, <6>1 DEF HandsOut
        <5>3. i \in EndClosings BY <4>1, <5>1, <5>2 DEF EndClosings
        <5> QED BY <1>a, <2>3, <5>3
      <4> QED BY <1>0, <4>1, <4>2, <4>3
    <3> QED BY <2>1, <2>3, <3>1 DEF EndOfSession
  <2> QED BY <2>2, <2>3
<1> QED BY <1>1, <1>2

(* An ended session holds no window, and the windows its end closed are the  *)
(* last ones handed out, in the order they were created in.                  *)
THEOREM SessionEnd == Spec => []EndOfSession
<1>1. Init => EndOfSession BY DEF Init, EndOfSession, EndClosings
<1>2. IInv /\ IInv' /\ EndOfSession /\ [Next]_vars => EndOfSession'
  BY EndOfSessionStep DEF IInv
<1> QED BY Inductive, <1>1, <1>2, PTL DEF Spec

-----------------------------------------------------------------------------
(* The windows of a flow, over any table A and any windows E handed out: the *)
(* open one comes after all others, and each starts no earlier than the ones *)
(* before it end.                                                            *)
OrderedIn(A, E) ==
    /\ \A g \in DOMAIN A, k \in DOMAIN E : E[k].flow = g =>
           E[k].seq < A[g].seq /\ E[k].stats.last <= A[g].stats.first
    /\ \A j, k \in DOMAIN E : E[j].flow = E[k].flow /\ E[j].seq < E[k].seq =>
           E[j].stats.last <= E[k].stats.first

(* A window numbered s that starts at t is the next one of v's flow, at      *)
(* least a timeout later.                                                    *)
FollowsIdle(E, v, s, t) ==
    /\ s > v.seq /\ t - v.stats.last >= Timeout
    /\ \A k \in DOMAIN E : E[k].flow = v.flow => E[k].seq <= v.seq \/ E[k].seq >= s

SucceededIn(A, E, v) ==
    \/ v.flow \in DOMAIN A /\ FollowsIdle(E, v, A[v.flow].seq, A[v.flow].stats.first)
    \/ \E k \in DOMAIN E : E[k].flow = v.flow /\ FollowsIdle(E, v, E[k].seq, E[k].stats.first)

Following ==
    /\ OrderedIn(active, emitted)
    /\ \A k \in DOMAIN emitted :
           emitted[k].reason = "INACTIVITY" => SucceededIn(active, emitted, emitted[k])

(* Every number and time involved is one.                                    *)
LEMMA NumbersOf ==
    ASSUME TypeOK
    PROVE  /\ \A g \in DOMAIN active : /\ active[g].seq \in Nat
                                       /\ active[g].stats \in Statistics
                                       /\ active[g].stats.first \in Int
                                       /\ active[g].stats.last \in Int
           /\ \A k \in DOMAIN emitted : /\ emitted[k].seq \in Nat
                                        /\ emitted[k].stats \in Statistics
                                        /\ emitted[k].stats.first \in Int
                                        /\ emitted[k].stats.last \in Int
<1>1. \A x \in Statistics : x.first \in Times /\ x.last \in Times BY DEF Statistics
<1>2. Times \subseteq Int BY TimesAssumption
<1>3. \A x \in Statistics : x.first \in Int /\ x.last \in Int BY <1>1, <1>2
<1>4. \A g \in DOMAIN active : active[g].seq \in Nat /\ active[g].stats \in Statistics
  BY DEF TypeOK, Entries
<1>5. \A k \in DOMAIN emitted : emitted[k].seq \in Nat /\ emitted[k].stats \in Statistics
  BY EmittedOf
<1> QED BY <1>3, <1>4, <1>5

(* Handing windows out changes neither the order nor any successor.          *)
LEMMA FollowingHandedOut ==
    ASSUME TypeOK, TypeOK', Following, NEW R \in SUBSET DOMAIN active, HandsOut(R),
           NEW A, DOMAIN A = DOMAIN active \ R, \A g \in DOMAIN A : A[g] = active[g]
    PROVE  /\ OrderedIn(A, emitted')
           /\ \A g \in R, k \in DOMAIN emitted' : emitted'[k].flow = g =>
                  emitted'[k].seq <= active[g].seq
           /\ \A k \in DOMAIN emitted : emitted[k].reason = "INACTIVITY" =>
                  SucceededIn(A, emitted', emitted[k])
<1>0. /\ DOMAIN emitted = 1 .. Len(emitted) /\ DOMAIN emitted' = 1 .. Len(emitted')
      /\ Len(emitted) \in Nat /\ Len(emitted') \in Nat
  BY DEF TypeOK
<1>1. /\ \A k \in DOMAIN emitted : k \in DOMAIN emitted' /\ emitted'[k] = emitted[k]
      /\ \A k \in DOMAIN emitted' :
            \/ k \in DOMAIN emitted /\ emitted'[k] = emitted[k]
            \/ \E g \in R : /\ emitted'[k].flow = g
                            /\ emitted'[k].seq = active[g].seq
                            /\ emitted'[k].stats = active[g].stats
  BY <1>0, HandsOutWhere DEF HandsOut
<1>2. ASSUME NEW j \in DOMAIN emitted', NEW k \in DOMAIN emitted', j \notin DOMAIN emitted,
             k \notin DOMAIN emitted, emitted'[j].flow = emitted'[k].flow
      PROVE  j = k
  <2>1. j \in Len(emitted) + 1 .. Len(emitted') /\ k \in Len(emitted) + 1 .. Len(emitted')
    BY <1>0, <1>2
  <2> QED BY <1>2, <2>1 DEF HandsOut
<1>a. ASSUME NEW g \in R
      PROVE  \E k \in DOMAIN emitted' : /\ emitted'[k].flow = g
                                        /\ emitted'[k].seq = active[g].seq
                                        /\ emitted'[k].stats = active[g].stats
  <2>1. PICK k \in Len(emitted) + 1 .. Len(emitted') :
           /\ emitted'[k].flow = g
           /\ emitted'[k].seq = active[g].seq
           /\ emitted'[k].stats = active[g].stats
    BY DEF HandsOut
  <2>2. k \in DOMAIN emitted' BY <1>0
  <2> QED BY <2>1, <2>2
<1>3. /\ \A g \in DOMAIN active, k \in DOMAIN emitted : emitted[k].flow = g =>
             emitted[k].seq < active[g].seq /\ emitted[k].stats.last <= active[g].stats.first
      /\ \A j, k \in DOMAIN emitted :
             emitted[j].flow = emitted[k].flow /\ emitted[j].seq < emitted[k].seq =>
                emitted[j].stats.last <= emitted[k].stats.first
  BY DEF Following, OrderedIn
<1>4. ASSUME NEW g \in DOMAIN A, NEW k \in DOMAIN emitted', emitted'[k].flow = g
      PROVE  emitted'[k].seq < A[g].seq /\ emitted'[k].stats.last <= A[g].stats.first
  BY <1>1, <1>3, <1>4
<1>5. ASSUME NEW j \in DOMAIN emitted', NEW k \in DOMAIN emitted',
             emitted'[j].flow = emitted'[k].flow, emitted'[j].seq < emitted'[k].seq
      PROVE  emitted'[j].stats.last <= emitted'[k].stats.first
  <2>1. CASE j \in DOMAIN emitted /\ k \in DOMAIN emitted BY <1>1, <1>3, <1>5, <2>1
  <2>2. CASE j \in DOMAIN emitted /\ k \notin DOMAIN emitted BY <1>1, <1>3, <1>5, <2>2
  <2>3. CASE j \notin DOMAIN emitted /\ k \in DOMAIN emitted
    <3>1. emitted'[k].seq < emitted'[j].seq BY <1>1, <1>3, <1>5, <2>3
    <3>2. emitted'[j].seq \in Nat /\ emitted'[k].seq \in Nat BY <1>1, <2>3, NumbersOf
    <3> QED BY <1>5, <3>1, <3>2
  <2>4. CASE j \notin DOMAIN emitted /\ k \notin DOMAIN emitted
    <3>1. j = k BY <1>2, <1>5, <2>4
    <3>2. emitted'[j].seq \in Nat BY <1>1, <2>4, NumbersOf
    <3> QED BY <1>5, <3>1, <3>2
  <2> QED BY <2>1, <2>2, <2>3, <2>4
<1>6. ASSUME NEW g \in R, NEW k \in DOMAIN emitted', emitted'[k].flow = g
      PROVE  emitted'[k].seq <= active[g].seq
  <2>1. active[g].seq \in Nat /\ \A i \in DOMAIN emitted : emitted[i].seq \in Nat BY NumbersOf
  <2>2. CASE k \in DOMAIN emitted /\ emitted'[k] = emitted[k]
    <3>1. emitted[k].seq < active[g].seq BY <1>3, <1>6, <2>2
    <3> QED BY <2>1, <2>2, <3>1
  <2>3. CASE k \notin DOMAIN emitted BY <1>1, <1>6, <2>1, <2>3
  <2> QED BY <1>1, <2>2, <2>3
<1>7. ASSUME NEW m \in DOMAIN emitted, emitted[m].reason = "INACTIVITY"
      PROVE  SucceededIn(A, emitted', emitted[m])
  <2> DEFINE v == emitted[m]
  <2>1. SucceededIn(active, emitted, v) BY <1>7 DEF Following
  <2>2. ASSUME NEW s \in Nat, NEW t, FollowsIdle(emitted, v, s, t),
               v.flow \in R => s <= active[v.flow].seq
        PROVE  FollowsIdle(emitted', v, s, t)
    <3>1. ASSUME NEW k \in DOMAIN emitted', emitted'[k].flow = v.flow
          PROVE  emitted'[k].seq <= v.seq \/ emitted'[k].seq >= s
      BY <1>1, <2>2, <3>1 DEF FollowsIdle
    <3> QED BY <2>2, <3>1 DEF FollowsIdle
  <2>3. CASE v.flow \in DOMAIN active
             /\ FollowsIdle(emitted, v, active[v.flow].seq, active[v.flow].stats.first)
    <3>1. active[v.flow].seq \in Nat BY <2>3, NumbersOf
    <3>2. FollowsIdle(emitted', v, active[v.flow].seq, active[v.flow].stats.first)
      BY <2>2, <2>3, <3>1
    <3>3. CASE v.flow \in R
      <4>1. PICK k \in DOMAIN emitted' : /\ emitted'[k].flow = v.flow
                                         /\ emitted'[k].seq = active[v.flow].seq
                                         /\ emitted'[k].stats = active[v.flow].stats
        BY <1>a, <3>3
      <4> QED BY <3>2, <4>1 DEF SucceededIn
    <3>4. CASE v.flow \notin R BY <2>3, <3>2, <3>4 DEF SucceededIn
    <3> QED BY <3>3, <3>4
  <2>4. CASE \E k \in DOMAIN emitted :
                emitted[k].flow = v.flow /\ FollowsIdle(emitted, v, emitted[k].seq, emitted[k].stats.first)
    <3>1. PICK k \in DOMAIN emitted :
             emitted[k].flow = v.flow /\ FollowsIdle(emitted, v, emitted[k].seq, emitted[k].stats.first)
      BY <2>4
    <3>2. emitted[k].seq \in Nat BY NumbersOf
    <3>3. v.flow \in R => emitted[k].seq <= active[v.flow].seq
      BY <1>3, <3>1, <3>2, NumbersOf
    <3>4. FollowsIdle(emitted', v, emitted[k].seq, emitted[k].stats.first)
      BY <2>2, <3>1, <3>2, <3>3
    <3> QED BY <1>1, <3>1, <3>4 DEF SucceededIn
  <2> QED BY <2>1, <2>3, <2>4 DEF SucceededIn
<1> QED BY <1>4, <1>5, <1>6, <1>7 DEF OrderedIn

LEMMA FollowingStep ==
    ASSUME IInv, TypeOK', Following, [Next]_vars
    PROVE  Following'
<1>0. /\ TypeOK /\ InFlightFits /\ IsFiniteSet(DOMAIN active) /\ KeysAreWindows /\ BehindFrontier
      /\ nextSeq \in Nat /\ latest \in Int /\ Times \subseteq Int
  BY TimesAssumption DEF IInv, Bounded, TypeOK, NoTime
<1>1. CASE Quiet
  BY <1>1 DEF Quiet, managerVars, historyVars, Following
<1>2. ASSUME NEW f \in DOMAIN active, NEW t \in Times, FilesInOpen(f, t) PROVE Following'
  <2>1. UpdateStatistics(active[f].stats, t).first = active[f].stats.first
    BY <1>0, NumbersOf DEF UpdateStatistics, Statistics
  <2>2. /\ emitted' = emitted /\ DOMAIN active' = DOMAIN active
        /\ \A g \in DOMAIN active : /\ active'[g].seq = active[g].seq
                                    /\ active'[g].stats.first = active[g].stats.first
    BY <1>0, <1>2, <2>1 DEF FilesInOpen, TypeOK, Entries
  <2>3. OrderedIn(active', emitted') BY <2>2 DEF Following, OrderedIn
  <2>4. \A v : SucceededIn(active, emitted, v) => SucceededIn(active', emitted', v)
    BY <2>2 DEF SucceededIn
  <2> QED BY <2>2, <2>3, <2>4 DEF Following
<1>3. ASSUME NEW f \in Flows, NEW t \in Times, NEW R \in SUBSET DOMAIN active, FilesInNew(f, t, R)
      PROVE  Following'
  <2> DEFINE A == [g \in DOMAIN active \ R |-> active[g]]
  <2>1. /\ HandsOut(R) /\ latest <= t
        /\ DOMAIN active' = (DOMAIN active \ R) \cup {f} /\ f \notin DOMAIN active \ R
        /\ active'[f].seq = nextSeq /\ active'[f].stats.first = t
        /\ \A g \in DOMAIN active \ R : active'[g] = active[g]
    BY <1>3 DEF FilesInNew, StartStatistics
  <2>2. /\ OrderedIn(A, emitted')
        /\ \A g \in R, k \in DOMAIN emitted' : emitted'[k].flow = g =>
               emitted'[k].seq <= active[g].seq
        /\ \A k \in DOMAIN emitted : emitted[k].reason = "INACTIVITY" =>
               SucceededIn(A, emitted', emitted[k])
    BY <1>0, <2>1, FollowingHandedOut
  <2>3. \A k \in DOMAIN emitted' : emitted'[k].seq < nextSeq /\ emitted'[k].stats.last <= t
    <3>1. \A k \in DOMAIN emitted' : emitted'[k].seq < nextSeq BY <1>0, <2>1, HandsOutKeys
    <3>2. ASSUME NEW k \in DOMAIN emitted' PROVE emitted'[k].stats.last <= t
      <4>1. /\ emitted'[k].stats.last <= latest /\ emitted'[k].stats.last \in Int
        BY <1>0, <2>1, HandsOutWhere, NumbersOf DEF BehindFrontier
      <4>2. t \in Int BY <1>0
      <4> QED BY <1>0, <2>1, <4>1, <4>2
    <3> QED BY <3>1, <3>2
  <2>4. OrderedIn(active', emitted')
    BY <2>1, <2>2, <2>3 DEF OrderedIn
  <2>5. ASSUME NEW v, v.flow # f \/ v.seq < nextSeq, SucceededIn(A, emitted', v)
        PROVE  SucceededIn(active', emitted', v)
    BY <2>1, <2>5 DEF SucceededIn
  <2>6. ASSUME NEW i \in DOMAIN emitted', emitted'[i].reason = "INACTIVITY"
        PROVE  SucceededIn(active', emitted', emitted'[i])
    <3>0. /\ DOMAIN emitted = 1 .. Len(emitted) /\ DOMAIN emitted' = 1 .. Len(emitted')
          /\ Len(emitted) \in Nat /\ Len(emitted') \in Nat
      BY <1>0 DEF TypeOK
    <3>1. CASE i <= Len(emitted)
      <4>1. i \in DOMAIN emitted /\ emitted'[i] = emitted[i] BY <2>1, <3>0, <3>1 DEF HandsOut
      <4> QED BY <2>2, <2>3, <2>5, <2>6, <4>1
    <3>2. CASE i > Len(emitted)
      <4>1. HandedOutFor(i) BY <1>0, <3>2, HandedOutWhy
      <4>2. PICK g \in DOMAIN active, u \in Times :
               /\ FilesInNew(g, u, {g}) /\ Expired(g, u)
               /\ emitted'[i] = ClosedWindow(g, "INACTIVITY")
        BY <2>6, <4>1 DEF HandedOutFor, ExpiresNow
      <4>3. /\ emitted'[i].flow = g /\ emitted'[i].seq = active[g].seq
            /\ emitted'[i].stats = active[g].stats
        BY <4>2 DEF ClosedWindow
      <4>4. /\ g \in DOMAIN active' /\ active'[g].seq = nextSeq /\ active'[g].stats.first = u
            /\ HandsOut({g})
        BY <4>2 DEF FilesInNew, StartStatistics
      <4>5. active[g].seq < nextSeq BY <1>0 DEF KeysAreWindows
      <4>6. u - active[g].stats.last >= Timeout BY <4>2 DEF Expired
      <4>7. \A k \in DOMAIN emitted' : emitted'[k].flow = g => emitted'[k].seq <= active[g].seq
        <5>1. \A h \in {g}, k \in DOMAIN emitted' : emitted'[k].flow = h =>
                 emitted'[k].seq <= active[h].seq
          <6> DEFINE B == [h \in DOMAIN active \ {g} |-> active[h]]
          <6>1. DOMAIN B = DOMAIN active \ {g} /\ \A h \in DOMAIN B : B[h] = active[h] OBVIOUS
          <6> HIDE DEF B
          <6> QED BY <1>0, <4>4, <6>1, FollowingHandedOut
        <5> QED BY <5>1
      <4>8. FollowsIdle(emitted', emitted'[i], active'[g].seq, active'[g].stats.first)
        BY <4>3, <4>4, <4>5, <4>6, <4>7 DEF FollowsIdle
      <4> QED BY <4>3, <4>4, <4>8 DEF SucceededIn
    <3> QED BY <3>0, <3>1, <3>2
  <2> QED BY <2>4, <2>6 DEF Following
<1>4. ASSUME NEW R \in SUBSET DOMAIN active, LetsGo(R) PROVE Following'
  <2>1. /\ DOMAIN active' = DOMAIN active \ R
        /\ \A g \in DOMAIN active' : active'[g] = active[g]
        /\ HandsOut(R) /\ nextSeq' = nextSeq
    BY <1>4 DEF LetsGo
  <2>2. /\ OrderedIn(active', emitted')
        /\ \A k \in DOMAIN emitted : emitted[k].reason = "INACTIVITY" =>
               SucceededIn(active', emitted', emitted[k])
    BY <1>0, <2>1, FollowingHandedOut
  <2>3. ASSUME NEW i \in DOMAIN emitted', emitted'[i].reason = "INACTIVITY"
        PROVE  i \in DOMAIN emitted /\ emitted'[i] = emitted[i]
    <3>0. /\ DOMAIN emitted = 1 .. Len(emitted) /\ DOMAIN emitted' = 1 .. Len(emitted')
          /\ Len(emitted) \in Nat /\ Len(emitted') \in Nat
      BY <1>0 DEF TypeOK
    <3>1. ASSUME i > Len(emitted) PROVE FALSE
      <4>1. HandedOutFor(i) BY <1>0, <3>1, HandedOutWhy
      <4>2. PICK g \in DOMAIN active, u \in Times : FilesInNew(g, u, {g})
        BY <2>3, <4>1 DEF HandedOutFor, ExpiresNow
      <4> QED BY <1>0, <2>1, <4>2 DEF FilesInNew
    <3> QED BY <2>1, <3>0, <3>1 DEF HandsOut
  <2> QED BY <2>2, <2>3 DEF Following
<1> QED BY <1>0, <1>1, <1>2, <1>3, <1>4, StepShape

LEMMA FollowingFollows ==
    ASSUME TypeOK, Following
    PROVE  WindowsOfFlowFollow
<1> DEFINE open(g) == [flow |-> g, seq |-> active[g].seq, stats |-> active[g].stats,
                       reason |-> "none"]
<1>1. \A w \in AllWindows : \/ \E g \in DOMAIN active : w = open(g)
                            \/ \E k \in DOMAIN emitted : w = emitted[k]
  BY DEF AllWindows, ActiveWindows, EmittedWindows
<1>2. /\ \A g \in DOMAIN active : /\ open(g) \in AllWindows /\ open(g).flow = g
                                  /\ open(g).seq = active[g].seq
                                  /\ open(g).stats = active[g].stats
      /\ \A k \in DOMAIN emitted : emitted[k] \in AllWindows
  BY DEF AllWindows, ActiveWindows, EmittedWindows
<1> HIDE DEF open
<1>3. /\ \A g \in DOMAIN active, k \in DOMAIN emitted : emitted[k].flow = g =>
             emitted[k].seq < active[g].seq /\ emitted[k].stats.last <= active[g].stats.first
      /\ \A j, k \in DOMAIN emitted :
             emitted[j].flow = emitted[k].flow /\ emitted[j].seq < emitted[k].seq =>
                emitted[j].stats.last <= emitted[k].stats.first
  BY DEF Following, OrderedIn
<1>4. ASSUME NEW v \in AllWindows, NEW w \in AllWindows, v.flow = w.flow, v.seq < w.seq
      PROVE  v.stats.last <= w.stats.first
  <2>1. CASE \E g \in DOMAIN active : v = open(g)
    <3>1. PICK g \in DOMAIN active : v = open(g) BY <2>1
    <3>2. active[g].seq \in Nat BY NumbersOf
    <3>3. ASSUME NEW h \in DOMAIN active, w = open(h) PROVE FALSE
      BY <1>2, <1>4, <3>1, <3>2, <3>3
    <3>4. ASSUME NEW k \in DOMAIN emitted, w = emitted[k] PROVE FALSE
      <4>1. emitted[k].seq < active[g].seq BY <1>2, <1>3, <1>4, <3>1, <3>4
      <4>2. active[g].seq < emitted[k].seq BY <1>2, <1>4, <3>1, <3>4
      <4>3. emitted[k].seq \in Nat BY NumbersOf
      <4> QED BY <3>2, <4>1, <4>2, <4>3
    <3> QED BY <1>1, <3>3, <3>4
  <2>2. CASE \E k \in DOMAIN emitted : v = emitted[k]
    <3>1. PICK k \in DOMAIN emitted : v = emitted[k] BY <2>2
    <3>2. CASE \E g \in DOMAIN active : w = open(g) BY <1>2, <1>3, <1>4, <3>1, <3>2
    <3>3. CASE \E j \in DOMAIN emitted : w = emitted[j] BY <1>3, <1>4, <3>1, <3>3
    <3> QED BY <1>1, <3>2, <3>3
  <2> QED BY <1>1, <2>1, <2>2
<1>5. ASSUME NEW v \in EmittedWindows, v.reason = "INACTIVITY"
      PROVE  \E w \in AllWindows : Successor(v, w) /\ w.stats.first - v.stats.last >= Timeout
  <2>1. PICK m \in DOMAIN emitted : v = emitted[m] BY DEF EmittedWindows
  <2>2. SucceededIn(active, emitted, v) BY <1>5, <2>1 DEF Following
  <2>3. ASSUME NEW w \in AllWindows, w.flow = v.flow, FollowsIdle(emitted, v, w.seq, w.stats.first),
               v.flow \in DOMAIN active => active[v.flow].seq >= w.seq
        PROVE  Successor(v, w) /\ w.stats.first - v.stats.last >= Timeout
    <3>1. ASSUME NEW u \in AllWindows, u.flow = v.flow PROVE u.seq <= v.seq \/ u.seq >= w.seq
      <4>1. CASE \E g \in DOMAIN active : u = open(g) BY <1>2, <2>3, <3>1, <4>1
      <4>2. CASE \E k \in DOMAIN emitted : u = emitted[k] BY <2>3, <3>1, <4>2 DEF FollowsIdle
      <4> QED BY <1>1, <4>1, <4>2
    <3> QED BY <2>3, <3>1 DEF Successor, FollowsIdle
  <2>4. CASE v.flow \in DOMAIN active
             /\ FollowsIdle(emitted, v, active[v.flow].seq, active[v.flow].stats.first)
    <3>1. active[v.flow].seq >= active[v.flow].seq BY <2>4, NumbersOf
    <3> QED BY <1>2, <2>3, <2>4, <3>1
  <2>5. ASSUME NEW k \in DOMAIN emitted, emitted[k].flow = v.flow,
               FollowsIdle(emitted, v, emitted[k].seq, emitted[k].stats.first)
        PROVE  \E w \in AllWindows : Successor(v, w) /\ w.stats.first - v.stats.last >= Timeout
    <3>1. v.flow \in DOMAIN active => active[v.flow].seq >= emitted[k].seq
      BY <1>3, <2>5, NumbersOf
    <3> QED BY <1>2, <2>3, <2>5, <3>1
  <2> QED BY <2>2, <2>4, <2>5 DEF SucceededIn
<1> QED BY <1>4, <1>5 DEF WindowsOfFlowFollow

(* A later window of a flow starts no earlier than an earlier one ends, and  *)
(* a window closed for inactivity has its next one a whole timeout later.    *)
THEOREM Succession == Spec => []WindowsOfFlowFollow
<1>1. Init => Following BY DEF Init, Following, OrderedIn
<1>2. IInv /\ IInv' /\ Following /\ [Next]_vars => Following'
  BY FollowingStep DEF IInv
<1>3. IInv /\ Following => WindowsOfFlowFollow BY FollowingFollows DEF IInv
<1> QED BY Inductive, <1>1, <1>2, <1>3, PTL DEF Spec

-----------------------------------------------------------------------------
(* The window manager implements the window ledger: Init maps to the         *)
(* ledger's Init, and each shape of a step to a step of the ledger or to a   *)
(* stutter.  KeysOf(R) names the windows of the flows in R.                  *)
KeysOf(R) == {<<g, active[g].seq>> : g \in R}

LEMMA LedgerInit == Init => Ledger!Init
<1> SUFFICES ASSUME Init PROVE Ledger!Init
  OBVIOUS
<1>1. nextSeq = 0 /\ LiveKeys = {} /\ RetiredKeys = {} BY DEF Init, LiveKeys, RetiredKeys
<1>2. FiledKeys = <<>> BY DEF Init, FiledKeys
<1> QED BY <1>1, <1>2 DEF Ledger!Init

(* What is handed out joins the retired windows.                             *)
LEMMA RetiredStep ==
    ASSUME TypeOK, TypeOK', NEW R \in SUBSET DOMAIN active, HandsOut(R)
    PROVE  RetiredKeys' = RetiredKeys \cup KeysOf(R)
<1>1. /\ Len(emitted) \in Nat /\ DOMAIN emitted = 1 .. Len(emitted)
      /\ Len(emitted') \in Nat /\ DOMAIN emitted' = 1 .. Len(emitted')
  BY DEF TypeOK
<1>2. Len(emitted') >= Len(emitted) BY DEF HandsOut
<1>3. RetiredKeys' \subseteq RetiredKeys \cup KeysOf(R)
  BY HandsOutWhere DEF RetiredKeys, KeysOf
<1>4. RetiredKeys \subseteq RetiredKeys'
  <2>1. \A i \in DOMAIN emitted : i \in DOMAIN emitted' /\ emitted'[i] = emitted[i]
    BY <1>1, <1>2 DEF HandsOut
  <2> QED BY <2>1 DEF RetiredKeys
<1>5. KeysOf(R) \subseteq RetiredKeys'
  <2> SUFFICES ASSUME NEW g \in R PROVE <<g, active[g].seq>> \in RetiredKeys'
    BY DEF KeysOf
  <2>1. PICK i \in Len(emitted) + 1 .. Len(emitted') :
           emitted'[i].flow = g /\ emitted'[i].seq = active[g].seq
    BY DEF HandsOut
  <2>2. i \in DOMAIN emitted' BY <1>1
  <2> QED BY <2>1, <2>2 DEF RetiredKeys
<1> QED BY <1>3, <1>4, <1>5

LEMMA FiledStep ==
    ASSUME TypeOK, NEW f \in Flows, NEW t \in Times, NEW s \in Nat,
           log' = Append(log, [flow |-> f, time |-> t, seq |-> s])
    PROVE  FiledKeys' = Append(FiledKeys, <<f, s>>)
<1>1. /\ Len(log) \in Nat /\ DOMAIN log = 1 .. Len(log)
      /\ DOMAIN log' = 1 .. Len(log) + 1
      /\ \A i \in 1 .. Len(log) : log'[i] = log[i]
      /\ log'[Len(log) + 1] = [flow |-> f, time |-> t, seq |-> s]
  BY DEF TypeOK
<1>2. \A i \in 1 .. Len(log) : log[i].flow \in Flows /\ log[i].seq \in Nat
  <2>1. \A i \in 1 .. Len(log) : log[i] \in Admissions BY <1>1 DEF TypeOK
  <2> QED BY <2>1 DEF Admissions
<1>3. FiledKeys \in Seq(Flows \X Nat) /\ Len(FiledKeys) = Len(log)
  <2>1. FiledKeys = [i \in 1 .. Len(log) |-> <<log[i].flow, log[i].seq>>] BY <1>1 DEF FiledKeys
  <2>2. \A i \in 1 .. Len(log) : <<log[i].flow, log[i].seq>> \in Flows \X Nat BY <1>2
  <2>3. FiledKeys \in [1 .. Len(log) -> Flows \X Nat] BY <2>1, <2>2
  <2> QED BY <1>1, <2>3
<1>4. FiledKeys' = [i \in 1 .. Len(log) + 1 |->
                       IF i <= Len(log) THEN <<log[i].flow, log[i].seq>> ELSE <<f, s>>]
  <2>1. FiledKeys' = [i \in 1 .. Len(log) + 1 |-> <<log'[i].flow, log'[i].seq>>]
    BY <1>1 DEF FiledKeys
  <2>2. \A i \in 1 .. Len(log) + 1 :
           <<log'[i].flow, log'[i].seq>>
             = IF i <= Len(log) THEN <<log[i].flow, log[i].seq>> ELSE <<f, s>>
    <3> SUFFICES ASSUME NEW i \in 1 .. Len(log) + 1
                 PROVE  <<log'[i].flow, log'[i].seq>>
                          = IF i <= Len(log) THEN <<log[i].flow, log[i].seq>> ELSE <<f, s>>
      OBVIOUS
    <3>1. CASE i <= Len(log)
      <4>1. i \in 1 .. Len(log) BY <1>1, <3>1
      <4> QED BY <1>1, <3>1, <4>1
    <3>2. CASE ~(i <= Len(log))
      <4>1. i = Len(log) + 1 BY <1>1, <3>2
      <4> QED BY <1>1, <3>2, <4>1
    <3> QED BY <3>1, <3>2
  <2> QED BY <2>1, <2>2
<1>5. Append(FiledKeys, <<f, s>>) \in [1 .. Len(log) + 1 -> Flows \X Nat]
  <2>1. <<f, s>> \in Flows \X Nat OBVIOUS
  <2>2. /\ Append(FiledKeys, <<f, s>>) \in Seq(Flows \X Nat)
        /\ Len(Append(FiledKeys, <<f, s>>)) = Len(log) + 1
    BY <1>3, <2>1, AppendProperties
  <2> QED BY <2>2, LenProperties
<1>a. /\ \A k \in 1 .. Len(log) : Append(FiledKeys, <<f, s>>)[k] = FiledKeys[k]
      /\ Append(FiledKeys, <<f, s>>)[Len(log) + 1] = <<f, s>>
  <2>1. <<f, s>> \in Flows \X Nat OBVIOUS
  <2> QED BY <1>3, <2>1, AppendProperties
<1> DEFINE filed(k) == IF k <= Len(log) THEN <<log[k].flow, log[k].seq>> ELSE <<f, s>>
<1>6. ASSUME NEW k \in 1 .. Len(log) + 1 PROVE Append(FiledKeys, <<f, s>>)[k] = filed(k)
  <2>0. \A j \in 1 .. Len(log) : FiledKeys[j] = <<log[j].flow, log[j].seq>> BY <1>1 DEF FiledKeys
  <2>1. CASE k <= Len(log)
    <3>1. k \in 1 .. Len(log) BY <1>1, <2>1
    <3> QED BY <1>a, <2>0, <2>1, <3>1
  <2>2. CASE ~(k <= Len(log))
    <3>1. k = Len(log) + 1 BY <1>1, <2>2
    <3> QED BY <1>a, <2>2, <3>1
  <2> QED BY <2>1, <2>2
<1>7. Append(FiledKeys, <<f, s>>) = [k \in 1 .. Len(log) + 1 |-> filed(k)]
  BY <1>5, <1>6
<1> QED BY <1>4, <1>7

LEMMA LedgerStep ==
    ASSUME IInv, IInv', [Next]_vars
    PROVE  [Ledger!Next]_(Ledger!ledgerVars)
<1>0. TypeOK /\ TypeOK' /\ InFlightFits /\ IsFiniteSet(DOMAIN active) BY DEF IInv, Bounded
<1>1. CASE Quiet
  BY <1>1 DEF Quiet, managerVars, historyVars, Ledger!ledgerVars, LiveKeys, RetiredKeys, FiledKeys
<1>2. ASSUME NEW f \in DOMAIN active, NEW t \in Times, FilesInOpen(f, t)
      PROVE  Ledger!FileInLive
  <2>1. f \in Flows /\ active[f].seq \in Nat BY <1>0 DEF TypeOK, Entries
  <2>2. /\ DOMAIN active' = DOMAIN active /\ \A g \in DOMAIN active : active'[g].seq = active[g].seq
        /\ UNCHANGED <<nextSeq, emitted>>
    BY <1>0, <1>2 DEF FilesInOpen, TypeOK, Entries
  <2>3. FiledKeys' = Append(FiledKeys, <<f, active[f].seq>>)
    BY <1>0, <1>2, <2>1, FiledStep DEF FilesInOpen
  <2>4. LiveKeys' = LiveKeys /\ RetiredKeys' = RetiredKeys BY <2>2 DEF LiveKeys, RetiredKeys
  <2>5. <<f, active[f].seq>> \in LiveKeys BY DEF LiveKeys
  <2> QED BY <2>2, <2>3, <2>4, <2>5 DEF Ledger!FileInLive
<1>3. ASSUME NEW f \in Flows, NEW t \in Times, NEW R \in SUBSET DOMAIN active, FilesInNew(f, t, R)
      PROVE  Ledger!OpenAndFile(f)
  <2>1. /\ DOMAIN active' = (DOMAIN active \ R) \cup {f} /\ f \notin DOMAIN active \ R
        /\ \A g \in DOMAIN active \ R : active'[g] = active[g]
        /\ active'[f].seq = nextSeq
        /\ HandsOut(R) /\ nextSeq' = nextSeq + 1
        /\ log' = Append(log, [flow |-> f, time |-> t, seq |-> nextSeq])
    BY <1>3 DEF FilesInNew
  <2>2. R = {} \/ \E v \in DOMAIN active : R = {v}
    BY <1>3 DEF FilesInNew, CapacityVictims
  <2>3. KeysOf(R) \in {{}} \cup {{w} : w \in LiveKeys}
    BY <2>2 DEF KeysOf, LiveKeys
  <2>4. LiveKeys \ KeysOf(R) = KeysOf(DOMAIN active \ R) BY DEF LiveKeys, KeysOf
  <2>5. \A w \in LiveKeys \ KeysOf(R) : w[1] # f BY <2>1, <2>4 DEF KeysOf
  <2>6. LiveKeys' = (LiveKeys \ KeysOf(R)) \cup {<<f, nextSeq>>}
    <3>1. LiveKeys' = {<<g, active'[g].seq>> : g \in (DOMAIN active \ R) \cup {f}} BY <2>1 DEF LiveKeys
    <3>2. \A g \in DOMAIN active \ R : <<g, active'[g].seq>> = <<g, active[g].seq>> BY <2>1
    <3>3. <<f, active'[f].seq>> = <<f, nextSeq>> BY <2>1
    <3> QED BY <2>4, <3>1, <3>2, <3>3 DEF KeysOf
  <2>7. RetiredKeys' = RetiredKeys \cup KeysOf(R) BY <1>0, <2>1, RetiredStep
  <2>8. FiledKeys' = Append(FiledKeys, <<f, nextSeq>>) BY <1>0, <2>1, FiledStep DEF TypeOK
  <2> HIDE DEF KeysOf
  <2> QED BY <2>1, <2>3, <2>5, <2>6, <2>7, <2>8 DEF Ledger!OpenAndFile
<1>4. ASSUME NEW R \in SUBSET DOMAIN active, LetsGo(R)
      PROVE  Ledger!Retire
  <2>1. /\ DOMAIN active' = DOMAIN active \ R
        /\ \A g \in DOMAIN active \ R : active'[g] = active[g]
        /\ HandsOut(R) /\ UNCHANGED <<nextSeq, log>>
    BY <1>4 DEF LetsGo
  <2>2. KeysOf(R) \in SUBSET LiveKeys BY DEF KeysOf, LiveKeys
  <2>3. LiveKeys' = LiveKeys \ KeysOf(R)
    <3>1. LiveKeys \ KeysOf(R) = KeysOf(DOMAIN active \ R) BY DEF LiveKeys, KeysOf
    <3> QED BY <2>1, <3>1 DEF LiveKeys, KeysOf
  <2>4. RetiredKeys' = RetiredKeys \cup KeysOf(R) BY <1>0, <2>1, RetiredStep
  <2>5. FiledKeys' = FiledKeys BY <2>1 DEF FiledKeys
  <2> QED BY <2>1, <2>2, <2>3, <2>4, <2>5 DEF Ledger!Retire
<1> QED BY <1>0, <1>1, <1>2, <1>3, <1>4, StepShape DEF Ledger!Next

(* Every behaviour of the manager, for every value of its constants, is a    *)
(* behaviour of the window ledger.                                           *)
THEOREM ImplementsLedger == Spec => LedgerSpec
<1>1. Init => Ledger!Init BY LedgerInit
<1>2. IInv /\ IInv' /\ [Next]_vars => [Ledger!Next]_(Ledger!ledgerVars) BY LedgerStep
<1> QED BY Inductive, <1>1, <1>2, PTL DEF Spec, LedgerSpec, Ledger!Spec

-----------------------------------------------------------------------------
(* The ledger's promise is an invariant of the ledger, hence of the manager. *)
LEMMA KeysType ==
    ASSUME TypeOK
    PROVE  /\ nextSeq \in Nat
           /\ LiveKeys \subseteq Flows \X Nat
           /\ RetiredKeys \subseteq Flows \X Nat
           /\ FiledKeys \in Seq(Flows \X Nat)
<1>1. LiveKeys \subseteq Flows \X Nat
  BY DEF TypeOK, Entries, LiveKeys
<1>2. log \in Seq(Admissions) /\ Len(log) \in Nat /\ DOMAIN log = 1 .. Len(log)
  BY DEF TypeOK
<1>3. ASSUME NEW i \in 1 .. Len(log) PROVE <<log[i].flow, log[i].seq>> \in Flows \X Nat
  <2>1. log[i] \in Admissions BY <1>2, ElementOfSeq
  <2> QED BY <2>1 DEF Admissions
<1>4. FiledKeys \in [1 .. Len(log) -> Flows \X Nat]
  BY <1>2, <1>3 DEF FiledKeys
<1>5. FiledKeys \in Seq(Flows \X Nat)
  BY <1>2, <1>4, SeqDef
<1>6. RetiredKeys \subseteq Flows \X Nat
  <2>1. emitted \in Seq(Windows) /\ DOMAIN emitted = 1 .. Len(emitted)
    BY DEF TypeOK
  <2>2. ASSUME NEW i \in DOMAIN emitted PROVE <<emitted[i].flow, emitted[i].seq>> \in Flows \X Nat
    <3>1. emitted[i] \in Windows BY <2>1, ElementOfSeq
    <3> QED BY <3>1 DEF Windows
  <2> QED BY <2>2 DEF RetiredKeys
<1>7. nextSeq \in Nat
  BY DEF TypeOK
<1> QED BY <1>1, <1>5, <1>6, <1>7

LEMMA PromiseKept ==
    ASSUME TypeOK, LedgerConsistent, [Ledger!Next]_(Ledger!ledgerVars)
    PROVE  LedgerConsistent'
<1>0. /\ nextSeq \in Nat
      /\ LiveKeys \subseteq Flows \X Nat
      /\ RetiredKeys \subseteq Flows \X Nat
      /\ FiledKeys \in Seq(Flows \X Nat)
  BY KeysType
<1>a. /\ LiveKeys \cap RetiredKeys = {}
      /\ \A i \in DOMAIN FiledKeys : FiledKeys[i] \in LiveKeys \cup RetiredKeys
      /\ \A v, w \in LiveKeys : v[1] = w[1] => v = w
      /\ \A v, w \in LiveKeys \cup RetiredKeys : v[2] = w[2] => v = w
      /\ \A w \in LiveKeys \cup RetiredKeys : w[2] < nextSeq
  BY DEF LedgerConsistent, Ledger!Consistent
<1>b. ASSUME NEW w \in Flows \X Nat, FiledKeys' = Append(FiledKeys, w),
             w \in LiveKeys' \cup RetiredKeys',
             LiveKeys \cup RetiredKeys \subseteq LiveKeys' \cup RetiredKeys'
      PROVE  \A i \in DOMAIN FiledKeys' : FiledKeys'[i] \in LiveKeys' \cup RetiredKeys'
  <2>1. /\ Append(FiledKeys, w) \in Seq(Flows \X Nat)
        /\ Len(Append(FiledKeys, w)) = Len(FiledKeys) + 1
        /\ \A i \in 1 .. Len(FiledKeys) : Append(FiledKeys, w)[i] = FiledKeys[i]
        /\ Append(FiledKeys, w)[Len(FiledKeys) + 1] = w
    BY <1>0, AppendProperties
  <2>2. /\ DOMAIN FiledKeys = 1 .. Len(FiledKeys) /\ Len(FiledKeys) \in Nat
        /\ DOMAIN Append(FiledKeys, w) = 1 .. Len(FiledKeys) + 1
    BY <1>0, <2>1, LenProperties
  <2>3. ASSUME NEW i \in 1 .. Len(FiledKeys) + 1
        PROVE  Append(FiledKeys, w)[i] \in LiveKeys' \cup RetiredKeys'
    <3>1. CASE i \in 1 .. Len(FiledKeys)
      BY <1>a, <1>b, <2>1, <2>2, <3>1
    <3>2. CASE i = Len(FiledKeys) + 1
      BY <1>b, <2>1, <3>2
    <3> QED BY <2>2, <3>1, <3>2
  <2> QED BY <1>b, <2>2, <2>3
<1>1. CASE Ledger!FileInLive
  <2>1. PICK w \in LiveKeys : /\ FiledKeys' = Append(FiledKeys, w)
                              /\ nextSeq' = nextSeq /\ LiveKeys' = LiveKeys /\ RetiredKeys' = RetiredKeys
    BY <1>1 DEF Ledger!FileInLive
  <2>2. \A i \in DOMAIN FiledKeys' : FiledKeys'[i] \in LiveKeys' \cup RetiredKeys'
    BY <1>0, <1>b, <2>1
  <2> QED BY <1>a, <2>1, <2>2 DEF LedgerConsistent, Ledger!Consistent
<1>2. ASSUME NEW f \in Flows, Ledger!OpenAndFile(f) PROVE LedgerConsistent'
  <2> DEFINE new == <<f, nextSeq>>
  <2>1. PICK r \in {{}} \cup {{w} : w \in LiveKeys} :
            /\ \A w \in LiveKeys \ r : w[1] # f
            /\ LiveKeys' = (LiveKeys \ r) \cup {new}
            /\ RetiredKeys' = RetiredKeys \cup r
            /\ FiledKeys' = Append(FiledKeys, new)
            /\ nextSeq' = nextSeq + 1
    BY <1>2 DEF Ledger!OpenAndFile
  <2>2. r \subseteq LiveKeys /\ new \in Flows \X Nat /\ new[1] = f /\ new[2] = nextSeq
    BY <1>0, <2>1
  <2> HIDE DEF new
  <2>3. \A w \in LiveKeys \cup RetiredKeys : w[2] \in Int /\ w # new
    BY <1>0, <1>a, <2>2
  <2>4. LiveKeys' \cup RetiredKeys' = LiveKeys \cup RetiredKeys \cup {new}
    BY <2>1, <2>2
  <2>5. \A i \in DOMAIN FiledKeys' : FiledKeys'[i] \in LiveKeys' \cup RetiredKeys'
    BY <1>b, <2>1, <2>2, <2>4
  <2>6. LiveKeys' \cap RetiredKeys' = {}
    BY <1>a, <2>1, <2>2, <2>3
  <2>7. \A v, w \in LiveKeys' : v[1] = w[1] => v = w
    BY <1>a, <2>1, <2>2
  <2>8. \A v, w \in LiveKeys' \cup RetiredKeys' : v[2] = w[2] => v = w
    BY <1>0, <1>a, <2>2, <2>4
  <2>9. \A w \in LiveKeys' \cup RetiredKeys' : w[2] < nextSeq'
    BY <1>0, <1>a, <2>1, <2>2, <2>3, <2>4
  <2> QED BY <2>5, <2>6, <2>7, <2>8, <2>9 DEF LedgerConsistent, Ledger!Consistent
<1>3. CASE Ledger!Retire
  <2>1. PICK r \in SUBSET LiveKeys : /\ LiveKeys' = LiveKeys \ r
                                     /\ RetiredKeys' = RetiredKeys \cup r
                                     /\ nextSeq' = nextSeq /\ FiledKeys' = FiledKeys
    BY <1>3 DEF Ledger!Retire
  <2>2. LiveKeys' \cup RetiredKeys' = LiveKeys \cup RetiredKeys
    BY <2>1
  <2> QED BY <1>a, <2>1, <2>2 DEF LedgerConsistent, Ledger!Consistent
<1>4. CASE UNCHANGED Ledger!ledgerVars
  BY <1>a, <1>4 DEF LedgerConsistent, Ledger!Consistent, Ledger!ledgerVars
<1> QED BY <1>1, <1>2, <1>3, <1>4 DEF Ledger!Next

(* Every accepted packet lies in exactly one window, open or handed out, a   *)
(* flow has at most one open window, and no window is both.                  *)
THEOREM LedgerPromise == Spec => []LedgerConsistent
<1>1. Init => LedgerConsistent
  <2> SUFFICES ASSUME Init PROVE LedgerConsistent
    OBVIOUS
  <2>1. LiveKeys = {} /\ RetiredKeys = {} /\ DOMAIN FiledKeys = {}
    BY DEF Init, LiveKeys, RetiredKeys, FiledKeys
  <2> QED BY <2>1 DEF LedgerConsistent, Ledger!Consistent
<1>2. IInv /\ IInv' /\ LedgerConsistent /\ [Next]_vars => LedgerConsistent'
  BY LedgerStep, PromiseKept DEF IInv
<1> QED BY Inductive, <1>1, <1>2, PTL DEF Spec

-----------------------------------------------------------------------------
(* The detection stream.                                                     *)

Findings == {"volume", "control"}
CallRecords == [consumer : {"packet", "flow"}, subject : Nat,
                finding : Findings \cup {"integrity"}, returned : BOOLEAN]

StreamTypeOK ==
    /\ pc \in {"start", "next", "detect", "packetCall", "admit", "recording",
               "closing", "flowCall", "stop", "finalize", "done"}
    /\ tcpConfigured \in BOOLEAN
    /\ pc \in {"detect", "packetCall", "admit"} => packet \in Packets
    /\ taken \in Nat
    /\ packetDeliveryFailed \in BOOLEAN
    /\ downstreamFailed \in BOOLEAN
    /\ queue \in Seq(Windows)
    /\ batch \in Seq(Findings)
    /\ error \in {"none", "capture", "admission", "detection", "delivery", "stop"}
    /\ calls \in Seq(CallRecords)
    /\ stops \in Nat

(* Where the stream is, and what is true there of the failures so far, the   *)
(* session and the windows still to be delivered.                            *)
Failing == packetDeliveryFailed \/ downstreamFailed

Placed ==
    /\ pc # "recording" => inFlight = {}
    /\ ended => pc \in {"closing", "flowCall", "done"}
    /\ pc = "done" => ended
    /\ stops = IF ended \/ pc = "finalize" THEN 1 ELSE 0
    /\ ~ended /\ pc \notin {"stop", "finalize"} => error = "none"
    /\ Failing => error # "none"
    /\ error \in {"detection", "delivery"} => Failing \/ pc = "done"
    /\ pc \notin {"closing", "flowCall"} => queue = <<>>
    /\ pc # "flowCall" => batch = <<>>
    /\ pc = "flowCall" => queue # <<>> /\ ~packetDeliveryFailed
    /\ downstreamFailed => queue = <<>>

Manager == IInv /\ EndOfSession

-----------------------------------------------------------------------------
(* Every step of the stream is a step of the manager, or none.               *)
LEMMA ManagerSteps ==
    ASSUME StreamTypeOK, [StreamNext]_allVars
    PROVE  [Next]_vars
<1>1. CASE Admit
  <2>1. packet.flow \in Flows /\ packet.time \in Times
    BY <1>1 DEF Admit, StreamTypeOK, Packets
  <2> QED BY <1>1, <2>1 DEF Admit, Next
<1>2. CASE AdmitRefused
  <2>1. packet.time \in Times
    BY <1>2 DEF AdmitRefused, StreamTypeOK, Packets
  <2> QED BY <1>2, <2>1 DEF AdmitRefused, Next
<1>3. CASE AdmitRaises \/ Admitted \/ Finalize
  BY <1>3 DEF AdmitRaises, Admitted, Finalize, Next
<1>4. CASE StartSource \/ StartRaises \/ (\E p \in Packets : TakePacket(p)) \/ TakeRaises
           \/ Exhausted \/ DetectPacket \/ DetectPacketRaises \/ PacketCallReturns
           \/ PacketCallRaises \/ SkipUnanalysed
  BY <1>4 DEF StartSource, StartRaises, TakePacket, TakeRaises, Exhausted, DetectPacket,
              DetectPacketRaises, PacketCallReturns, PacketCallRaises, SkipUnanalysed
<1>5. CASE SuppressWindow \/ DetectWindow \/ DetectWindowRaises \/ FlowCallReturns
           \/ FlowCallRaises \/ WindowDelivered \/ QueueDelivered \/ StopSource \/ Returned
           \/ UNCHANGED allVars
  BY <1>5 DEF SuppressWindow, DetectWindow, DetectWindowRaises, FlowCallReturns,
              FlowCallRaises, WindowDelivered, QueueDelivered, StopSource, Returned, allVars
<1> QED BY <1>1, <1>2, <1>3, <1>4, <1>5 DEF StreamNext

LEMMA ManagerStep ==
    ASSUME Manager, StreamTypeOK, [StreamNext]_allVars
    PROVE  Manager'
<1>1. [Next]_vars BY ManagerSteps
<1>2. IInv' BY <1>1, NextIInv DEF Manager
<1>3. TypeOK' BY <1>2 DEF IInv
<1> QED BY <1>1, <1>2, <1>3, EndOfSessionStep DEF Manager

(* Windows are only ever appended to the ones handed out.                    *)
LEMMA EmittedGrows ==
    ASSUME Manager, Manager', [Next]_vars
    PROVE  /\ Len(emitted) \in Nat /\ Len(emitted') \in Nat /\ Len(emitted) <= Len(emitted')
           /\ DOMAIN emitted = 1 .. Len(emitted) /\ DOMAIN emitted' = 1 .. Len(emitted')
           /\ \A k \in DOMAIN emitted : k \in DOMAIN emitted' /\ emitted'[k] = emitted[k]
<1>1. TypeOK /\ TypeOK' /\ InFlightFits /\ IsFiniteSet(DOMAIN active)
  BY DEF Manager, IInv, Bounded
<1>2. /\ Len(emitted) \in Nat /\ Len(emitted') \in Nat
      /\ DOMAIN emitted = 1 .. Len(emitted) /\ DOMAIN emitted' = 1 .. Len(emitted')
  BY <1>1 DEF TypeOK
<1>3. \E R \in SUBSET DOMAIN active : HandsOut(R) \/ emitted' = emitted
  BY <1>1, StepShape DEF Quiet, FilesInOpen, FilesInNew, LetsGo, historyVars
<1> QED BY <1>2, <1>3 DEF HandsOut

(* The windows a step hands out are the rest of the sequence.                *)
LEMMA NewlyEmittedRest ==
    ASSUME Manager, Manager', [Next]_vars
    PROVE  /\ NewlyEmitted \in Seq(Windows)
           /\ Len(NewlyEmitted) = Len(emitted') - Len(emitted)
           /\ \A i \in 1 .. Len(NewlyEmitted) : NewlyEmitted[i] = emitted'[Len(emitted) + i]
<1>1. Len(emitted) \in Nat /\ Len(emitted') \in Nat /\ Len(emitted) <= Len(emitted')
  BY EmittedGrows
<1>2. emitted' \in Seq(Windows) BY DEF Manager, IInv, TypeOK
<1> QED BY <1>1, <1>2 DEF NewlyEmitted

(* FindingsOf names findings, each once.                                     *)
LEMMA FindingsType ==
    ASSUME NEW w
    PROVE  /\ FindingsOf(w) \in Seq(Findings)
           /\ \A i, j \in DOMAIN FindingsOf(w) : FindingsOf(w)[i] = FindingsOf(w)[j] => i = j
<1> DEFINE F == FindingsOf(w)
<1>1. F = <<>> \/ F = <<"volume">> \/ F = <<"volume", "control">>
  BY DEF FindingsOf
<1> HIDE DEF F
<1>2. F \in Seq(Findings)
  <2>1. <<>> \in Seq(Findings) OBVIOUS
  <2>2. <<"volume">> \in Seq(Findings) BY DEF Findings
  <2>3. <<"volume", "control">> \in Seq(Findings) BY DEF Findings
  <2> QED BY <1>1, <2>1, <2>2, <2>3
<1>3. \A i, j \in DOMAIN F : F[i] = F[j] => i = j
  <2>1. CASE F = <<>> BY <2>1
  <2>2. CASE F = <<"volume">> BY <2>2
  <2>3. CASE F = <<"volume", "control">> BY <2>3
  <2> QED BY <1>1, <2>1, <2>2, <2>3
<1> QED BY <1>2, <1>3 DEF F

-----------------------------------------------------------------------------
(* The steps of the stream by what they do to the history of calls: none     *)
(* but the consumer calls touch it, and those touch nothing of the manager.  *)
Silent == UNCHANGED calls

PacketCall ==
    /\ pc = "packetCall"
    /\ \E returned \in BOOLEAN : LogCall("packet", taken, "integrity", returned)
    /\ UNCHANGED <<vars, taken, queue, batch>>

FlowCall ==
    /\ pc = "flowCall"
    /\ batch # <<>>
    /\ \E returned \in BOOLEAN : LogCall("flow", Head(queue).seq, Head(batch), returned)
    /\ UNCHANGED <<vars, taken, packetDeliveryFailed>>

LEMMA OtherSteps ==
    ASSUME [StreamNext]_allVars,
           ~(PacketCallReturns \/ PacketCallRaises \/ FlowCallReturns \/ FlowCallRaises)
    PROVE  Silent
<1>1. CASE StartSource \/ StartRaises \/ (\E p \in Packets : TakePacket(p)) \/ TakeRaises
           \/ Exhausted \/ DetectPacket \/ DetectPacketRaises \/ SkipUnanalysed
           \/ Admit \/ AdmitRefused \/ AdmitRaises \/ Admitted
  BY <1>1 DEF StartSource, StartRaises, TakePacket, TakeRaises, Exhausted, DetectPacket,
              DetectPacketRaises, SkipUnanalysed, Admit, AdmitRefused, AdmitRaises, Admitted,
              Silent
<1>2. CASE SuppressWindow \/ DetectWindow \/ DetectWindowRaises \/ WindowDelivered
           \/ QueueDelivered \/ StopSource \/ Finalize \/ Returned \/ UNCHANGED allVars
  BY <1>2 DEF SuppressWindow, DetectWindow, DetectWindowRaises, WindowDelivered,
              QueueDelivered, StopSource, Finalize, Returned, allVars, streamVars, Silent
<1> QED BY <1>1, <1>2 DEF StreamNext

LEMMA CallSteps ==
    ASSUME [StreamNext]_allVars
    PROVE  Silent \/ PacketCall \/ FlowCall
<1>1. CASE PacketCallReturns \/ PacketCallRaises
  BY <1>1 DEF PacketCallReturns, PacketCallRaises, PacketCall, inputVars
<1>2. CASE FlowCallReturns \/ FlowCallRaises
  BY <1>2 DEF FlowCallReturns, FlowCallRaises, FlowCall, inputVars
<1> QED BY <1>1, <1>2, OtherSteps

LEMMA CallsType ==
    ASSUME StreamTypeOK, Placed, [StreamNext]_allVars
    PROVE  calls' \in Seq(CallRecords)
<1>1. CASE Silent BY <1>1 DEF Silent, StreamTypeOK
<1>2. CASE PacketCall
  <2>1. PICK returned \in BOOLEAN : LogCall("packet", taken, "integrity", returned)
    BY <1>2 DEF PacketCall
  <2> DEFINE c == [consumer |-> "packet", subject |-> taken,
                   finding |-> "integrity", returned |-> returned]
  <2>2. c \in CallRecords BY DEF CallRecords, StreamTypeOK
  <2>3. calls' = Append(calls, c) BY <2>1 DEF LogCall
  <2> HIDE DEF c
  <2> QED BY <2>2, <2>3 DEF StreamTypeOK
<1>3. CASE FlowCall
  <2>1. PICK returned \in BOOLEAN : LogCall("flow", Head(queue).seq, Head(batch), returned)
    BY <1>3 DEF FlowCall
  <2> DEFINE c == [consumer |-> "flow", subject |-> Head(queue).seq,
                   finding |-> Head(batch), returned |-> returned]
  <2>a. queue # <<>> /\ batch # <<>> BY <1>3 DEF FlowCall, Placed
  <2>b. Head(queue) \in Windows /\ Head(batch) \in Findings BY <2>a DEF StreamTypeOK
  <2>2. c \in CallRecords BY <2>b DEF CallRecords, Windows
  <2>3. calls' = Append(calls, c) BY <2>1 DEF LogCall
  <2> HIDE DEF c
  <2> QED BY <2>2, <2>3 DEF StreamTypeOK
<1> QED BY <1>1, <1>2, <1>3, CallSteps

LEMMA StreamTypeStep ==
    ASSUME Manager, Manager', StreamTypeOK, Placed, [StreamNext]_allVars
    PROVE  StreamTypeOK'
<1>0. calls' \in Seq(CallRecords) BY CallsType
<1>a. NewlyEmitted \in Seq(Windows) BY ManagerSteps, NewlyEmittedRest
<1>b. Tail(queue) \in Seq(Windows) \/ queue = <<>> BY DEF StreamTypeOK
<1>c. Tail(batch) \in Seq(Findings) \/ batch = <<>> BY DEF StreamTypeOK
<1>d. \A w : FindingsOf(w) \in Seq(Findings) BY FindingsType
<1>e. <<>> \in Seq(Windows) /\ <<>> \in Seq(Findings) OBVIOUS
<1>1. CASE StartSource \/ StartRaises \/ TakeRaises \/ Exhausted
  BY <1>0, <1>1 DEF StartSource, StartRaises, TakeRaises, Exhausted, Raise, StreamTypeOK, inputVars
<1>2. CASE \E p \in Packets : TakePacket(p)
  BY <1>0, <1>2 DEF TakePacket, StreamTypeOK
<1>3. CASE DetectPacket \/ DetectPacketRaises \/ PacketCallReturns \/ PacketCallRaises
           \/ SkipUnanalysed
  BY <1>0, <1>3 DEF DetectPacket, DetectPacketRaises, PacketCallReturns, PacketCallRaises,
                    SkipUnanalysed, Raise, StreamTypeOK, inputVars
<1>4. CASE Admit \/ AdmitRefused \/ AdmitRaises
  BY <1>0, <1>4 DEF Admit, AdmitRefused, AdmitRaises, Raise, StreamTypeOK, inputVars
<1>5. CASE Admitted BY <1>0, <1>a, <1>5 DEF Admitted, StreamTypeOK, inputVars
<1>6. CASE SuppressWindow \/ WindowDelivered \/ QueueDelivered
  BY <1>0, <1>b, <1>6 DEF SuppressWindow, WindowDelivered, QueueDelivered, StreamTypeOK,
                          inputVars, Placed
<1>7. CASE DetectWindow BY <1>0, <1>d, <1>7 DEF DetectWindow, StreamTypeOK, inputVars
<1>8. CASE DetectWindowRaises \/ FlowCallRaises
  BY <1>0, <1>e, <1>8 DEF DetectWindowRaises, FlowCallRaises, DeliveryRaises, StreamTypeOK,
                          inputVars, Manager, IInv, TypeOK
<1>9. CASE FlowCallReturns
  BY <1>0, <1>c, <1>9 DEF FlowCallReturns, StreamTypeOK, inputVars
<1>10. CASE StopSource BY <1>0, <1>10 DEF StopSource, StreamTypeOK, inputVars
<1>11. CASE Finalize BY <1>0, <1>a, <1>e, <1>11 DEF Finalize, StreamTypeOK, inputVars
<1>12. CASE Returned \/ UNCHANGED allVars
  BY <1>12 DEF Returned, allVars, streamVars, StreamTypeOK, inputVars
<1> QED
  BY <1>1, <1>2, <1>3, <1>4, <1>5, <1>6, <1>7, <1>8, <1>9, <1>10, <1>11, <1>12 DEF StreamNext

(* What the manager's part of a step does to the session and to the call in  *)
(* progress.                                                                 *)
LEMMA SessionEffects ==
    /\ Admit => ended' = ended
    /\ AdmitRefused => UNCHANGED <<ended, inFlight>>
    /\ AdmitRaises \/ Admitted => ended' = ended /\ inFlight' = {}
    /\ Finalize => ended' /\ inFlight' = inFlight
<1>1. Admit => ended' = ended
  BY DEF Admit, Record, PrepareContinue, PrepareAfterInactivity, PrepareUnseen,
         PrepareAtCapacity, PrepareNewWindow, Prepare, managerVars
<1>2. AdmitRefused => UNCHANGED <<ended, inFlight>>
  BY DEF AdmitRefused, RefuseRecord, managerVars
<1>3. AdmitRaises \/ Admitted => ended' = ended /\ inFlight' = {}
  BY DEF AdmitRaises, Admitted, FailRecord, PublishContinue, PublishNew, Return, managerVars
<1>4. Finalize => ended' /\ inFlight' = inFlight
  BY DEF Finalize, EndSession
<1> QED BY <1>1, <1>2, <1>3, <1>4

LEMMA PlacedStep ==
    ASSUME Manager, StreamTypeOK, Placed, [StreamNext]_allVars
    PROVE  Placed'
<1> USE DEF Placed, Failing
<1>0. ended \in BOOLEAN /\ packetDeliveryFailed \in BOOLEAN /\ downstreamFailed \in BOOLEAN
  BY DEF Manager, IInv, TypeOK, StreamTypeOK
<1>1. CASE StartSource \/ StartRaises \/ TakeRaises \/ Exhausted
  BY <1>1 DEF StartSource, StartRaises, TakeRaises, Exhausted, Raise, inputVars, vars, managerVars
<1>2. CASE \E p \in Packets : TakePacket(p)
  BY <1>2 DEF TakePacket, vars, managerVars
<1>3. CASE DetectPacket \/ PacketCallReturns \/ SkipUnanalysed
  <2>1. /\ pc \in {"detect", "packetCall", "admit"}
        /\ pc' \in {"packetCall", "admit", "next"}
        /\ UNCHANGED <<vars, packetDeliveryFailed, downstreamFailed, queue, batch, error, stops>>
    BY <1>3 DEF DetectPacket, PacketCallReturns, SkipUnanalysed
  <2> QED BY <1>0, <2>1 DEF vars, managerVars
<1>16. CASE DetectPacketRaises \/ PacketCallRaises
  <2>1. /\ pc \in {"detect", "packetCall"} /\ pc' = "stop"
        /\ packetDeliveryFailed' /\ error' \in {"detection", "delivery"}
        /\ UNCHANGED <<vars, downstreamFailed, queue, batch, stops>>
    BY <1>16 DEF DetectPacketRaises, PacketCallRaises, Raise
  <2> QED BY <1>0, <2>1 DEF vars, managerVars
<1>4. CASE Admit BY <1>4, SessionEffects DEF Admit, inputVars
<1>5. CASE AdmitRefused BY <1>5, SessionEffects DEF AdmitRefused, Raise, inputVars
<1>6. CASE AdmitRaises BY <1>6, SessionEffects DEF AdmitRaises, Raise, inputVars
<1>7. CASE Admitted BY <1>7, SessionEffects DEF Admitted, inputVars
<1>8. CASE WindowDelivered \/ QueueDelivered \/ DetectWindow
  BY <1>8 DEF WindowDelivered, QueueDelivered, DetectWindow, inputVars, vars, managerVars
<1>15. CASE SuppressWindow
  BY <1>15 DEF SuppressWindow, inputVars, vars, managerVars
<1>9. CASE DetectWindowRaises
  BY <1>0, <1>9 DEF DetectWindowRaises, DeliveryRaises, inputVars, vars, managerVars
<1>10. CASE FlowCallRaises
  BY <1>0, <1>10 DEF FlowCallRaises, DeliveryRaises, inputVars, vars, managerVars
<1>11. CASE FlowCallReturns BY <1>11 DEF FlowCallReturns, inputVars, vars, managerVars
<1>12. CASE StopSource BY <1>12 DEF StopSource, StreamTypeOK, inputVars, vars, managerVars
<1>13. CASE Finalize BY <1>13, SessionEffects DEF Finalize, inputVars
<1>14. CASE Returned \/ UNCHANGED allVars
  BY <1>14 DEF Returned, allVars, streamVars, inputVars, vars, managerVars
<1> QED
  BY <1>1, <1>2, <1>3, <1>4, <1>5, <1>6, <1>7, <1>8, <1>9, <1>10, <1>11, <1>12, <1>13, <1>14,
     <1>15, <1>16 DEF StreamNext

-----------------------------------------------------------------------------
(* The steps of the stream by what they do to the windows to be delivered:   *)
(* keep them, give them up for good, take the ones just handed out, leave    *)
(* the first one behind undelivered or delivered, start on it, or hand over  *)
(* one of its findings.                                                      *)
Keeps ==
    /\ UNCHANGED <<queue, batch, emitted>>
    /\ pc = "flowCall" <=> pc' = "flowCall"
    /\ Silent \/ PacketCall

GivesUp ==
    /\ queue' = <<>> /\ pc' # "flowCall" /\ DeliveryFailed'
    /\ \/ Silent /\ [Next]_vars
       \/ FlowCall

Collects ==
    /\ queue = <<>> /\ queue' = NewlyEmitted
    /\ pc # "flowCall" /\ pc' = "closing"
    /\ Silent

Suppresses ==
    /\ queue # <<>> /\ queue' = Tail(queue)
    /\ pc # "flowCall" /\ pc' # "flowCall" /\ DeliveryFailed'
    /\ UNCHANGED emitted
    /\ Silent

Finishes ==
    /\ queue # <<>> /\ queue' = Tail(queue)
    /\ pc = "flowCall" /\ pc' = "closing" /\ batch = <<>>
    /\ UNCHANGED emitted
    /\ Silent

Starts ==
    /\ queue # <<>> /\ UNCHANGED <<queue, emitted>>
    /\ pc = "closing" /\ pc' = "flowCall" /\ batch' = FindingsOf(Head(queue))
    /\ Silent

Hands ==
    /\ queue # <<>> /\ UNCHANGED <<queue, emitted>>
    /\ pc' = "flowCall" /\ batch' = Tail(batch)
    /\ FlowCall

LEMMA StreamShapes ==
    ASSUME Manager, StreamTypeOK, Placed, [StreamNext]_allVars
    PROVE  Keeps \/ GivesUp \/ Collects \/ Suppresses \/ Finishes \/ Starts \/ Hands
<1>0. ended \in BOOLEAN /\ packetDeliveryFailed \in BOOLEAN /\ downstreamFailed \in BOOLEAN
  BY DEF Manager, IInv, TypeOK, StreamTypeOK
<1>1. CASE StartSource \/ StartRaises \/ TakeRaises \/ Exhausted
  BY <1>1 DEF StartSource, StartRaises, TakeRaises, Exhausted, Raise, vars, historyVars,
              Keeps, Silent
<1>2. CASE \E p \in Packets : TakePacket(p)
  BY <1>2 DEF TakePacket, vars, historyVars, Keeps, Silent
<1>3. CASE DetectPacket \/ DetectPacketRaises \/ SkipUnanalysed
  BY <1>3 DEF DetectPacket, DetectPacketRaises, SkipUnanalysed, Raise, vars, historyVars,
              Keeps, Silent
<1>4. CASE PacketCallReturns \/ PacketCallRaises
  <2>1. PacketCall BY <1>4 DEF PacketCallReturns, PacketCallRaises, PacketCall, inputVars
  <2>2. pc = "packetCall" /\ pc' # "flowCall"
    BY <1>4 DEF PacketCallReturns, PacketCallRaises, Raise
  <2> QED BY <2>1, <2>2 DEF PacketCall, Keeps, vars, historyVars
<1>5. CASE Admit \/ AdmitRefused \/ AdmitRaises
  <2>1. emitted' = emitted
    BY <1>5 DEF Admit, AdmitRefused, AdmitRaises, Record, PrepareContinue,
                PrepareAfterInactivity, PrepareUnseen, PrepareAtCapacity, PrepareNewWindow,
                Prepare, RefuseRecord, FailRecord, historyVars
  <2> QED BY <1>5, <2>1 DEF Admit, AdmitRefused, AdmitRaises, Raise, Keeps, Silent
<1>6. CASE Admitted BY <1>6 DEF Admitted, Placed, Collects, Silent
<1>7. CASE SuppressWindow
  BY <1>7 DEF SuppressWindow, Suppresses, DeliveryFailed, Silent, vars, historyVars
<1>8. CASE WindowDelivered
  BY <1>8 DEF WindowDelivered, Placed, Finishes, Silent, vars, historyVars
<1>9. CASE QueueDelivered
  <2>1. pc = "closing" /\ pc' # "flowCall" /\ UNCHANGED <<vars, queue, batch, calls>>
    BY <1>9 DEF QueueDelivered
  <2> QED BY <2>1 DEF Keeps, Silent, vars, historyVars
<1>10. CASE DetectWindow
  BY <1>10 DEF DetectWindow, Starts, Silent, vars, historyVars
<1>11. CASE DetectWindowRaises
  <2>1. /\ queue' = <<>> /\ pc' # "flowCall" /\ error' = "detection"
        /\ UNCHANGED <<vars, calls>>
    BY <1>11 DEF DetectWindowRaises, DeliveryRaises
  <2> QED BY <2>1 DEF GivesUp, DeliveryFailed, Silent
<1>12. CASE FlowCallReturns
  <2>1. FlowCall BY <1>12 DEF FlowCallReturns, FlowCall, inputVars
  <2>2. pc = "flowCall" /\ pc' = "flowCall" /\ UNCHANGED <<vars, queue>> /\ batch' = Tail(batch)
    BY <1>12 DEF FlowCallReturns
  <2> QED BY <2>1, <2>2 DEF Hands, Placed, vars, historyVars
<1>13. CASE FlowCallRaises
  <2>1. FlowCall BY <1>13 DEF FlowCallRaises, FlowCall, inputVars
  <2>2. queue' = <<>> /\ pc' # "flowCall" /\ error' = "delivery"
    BY <1>13 DEF FlowCallRaises, DeliveryRaises
  <2> QED BY <2>1, <2>2 DEF GivesUp, DeliveryFailed
<1>14. CASE StopSource
  BY <1>14 DEF StopSource, Keeps, Silent, vars, historyVars
<1>15. CASE Finalize
  <2>1. CASE downstreamFailed
    <3>1. queue' = <<>> /\ pc' = "closing" /\ UNCHANGED <<downstreamFailed, calls>>
      BY <1>15, <2>1 DEF Finalize
    <3>2. [Next]_vars BY ManagerSteps
    <3> QED BY <2>1, <3>1, <3>2 DEF GivesUp, DeliveryFailed, Silent
  <2>2. CASE ~downstreamFailed
    BY <1>15, <2>2 DEF Finalize, Placed, Collects, Silent
  <2> QED BY <2>1, <2>2
<1>16. CASE Returned \/ UNCHANGED allVars
  BY <1>16 DEF Returned, allVars, streamVars, vars, historyVars, Keeps, Silent
<1> QED
  BY <1>1, <1>2, <1>3, <1>4, <1>5, <1>6, <1>7, <1>8, <1>9, <1>10, <1>11, <1>12, <1>13, <1>14,
     <1>15, <1>16 DEF StreamNext

(* What is still to be delivered is the end of what was handed out.          *)
Handled == Len(emitted) - Len(queue)

QueueIsRest ==
    /\ Len(queue) <= Len(emitted)
    /\ \A i \in DOMAIN queue : queue[i] = emitted[Handled + i]

Settled == Len(FindingsOf(queue[1])) - Len(batch)

BatchIsRest ==
    pc = "flowCall" =>
        /\ Len(batch) <= Len(FindingsOf(queue[1]))
        /\ \A i \in DOMAIN batch : batch[i] = FindingsOf(queue[1])[Settled + i]

LEMMA RestStep ==
    ASSUME Manager, Manager', StreamTypeOK, StreamTypeOK', Placed, QueueIsRest, BatchIsRest,
           [StreamNext]_allVars
    PROVE  QueueIsRest' /\ BatchIsRest'
<1>0. /\ Len(queue) \in Nat /\ Len(emitted) \in Nat /\ Len(batch) \in Nat
      /\ Len(queue') \in Nat /\ Len(emitted') \in Nat /\ Len(batch') \in Nat
      /\ DOMAIN queue = 1 .. Len(queue) /\ DOMAIN batch = 1 .. Len(batch)
      /\ queue \in Seq(Windows) /\ batch \in Seq(Findings)
  <2>1. /\ emitted \in Seq(Windows) /\ emitted' \in Seq(Windows)
        /\ queue \in Seq(Windows) /\ queue' \in Seq(Windows)
        /\ batch \in Seq(Findings) /\ batch' \in Seq(Findings)
    BY DEF StreamTypeOK, Manager, IInv, TypeOK
  <2> QED BY <2>1
<1>1. CASE Keeps
  BY <1>1 DEF Keeps, QueueIsRest, BatchIsRest, Handled, Settled
<1>2. CASE GivesUp
  BY <1>0, <1>2 DEF GivesUp, QueueIsRest, BatchIsRest
<1>3. CASE Collects
  <2>1. /\ Len(NewlyEmitted) = Len(emitted') - Len(emitted)
        /\ \A i \in 1 .. Len(NewlyEmitted) : NewlyEmitted[i] = emitted'[Len(emitted) + i]
        /\ NewlyEmitted \in Seq(Windows) /\ Len(emitted) <= Len(emitted')
    BY ManagerSteps, NewlyEmittedRest, EmittedGrows
  <2>2. /\ Len(queue') = Len(emitted') - Len(emitted)
        /\ \A i \in DOMAIN queue' : queue'[i] = emitted'[Len(emitted) + i]
    BY <1>3, <2>1 DEF Collects
  <2>3. Len(emitted') - Len(queue') = Len(emitted) BY <1>0, <2>2
  <2> QED BY <1>0, <1>3, <2>1, <2>2, <2>3 DEF Collects, QueueIsRest, BatchIsRest, Handled
<1>4. CASE Suppresses \/ Finishes
  <2>1. queue # <<>> /\ queue' = Tail(queue) /\ emitted' = emitted /\ pc' # "flowCall"
    BY <1>4 DEF Suppresses, Finishes
  <2>2. /\ Len(queue') = Len(queue) - 1
        /\ \A i \in 1 .. Len(queue) - 1 : queue'[i] = queue[i + 1]
    BY <1>0, <2>1
  <2>3. Handled \in Int /\ Handled' = Handled + 1 BY <1>0, <2>1, <2>2 DEF Handled
  <2>4. DOMAIN queue' = 1 .. Len(queue) - 1 BY <1>0, <2>1, <2>2
  <2>5. ASSUME NEW i \in DOMAIN queue' PROVE queue'[i] = emitted'[Handled' + i]
    <3>1. i + 1 \in DOMAIN queue /\ i \in Int BY <1>0, <2>4
    <3>2. queue[i + 1] = emitted[Handled + (i + 1)] BY <3>1 DEF QueueIsRest
    <3>3. Handled + (i + 1) = Handled' + i BY <2>3, <3>1
    <3> QED BY <2>1, <2>2, <2>4, <3>2, <3>3
  <2>6. Len(queue') <= Len(emitted') BY <1>0, <2>1, <2>2 DEF QueueIsRest
  <2> QED BY <2>1, <2>5, <2>6 DEF QueueIsRest, BatchIsRest
<1>5. CASE Starts
  <2>1. queue' = queue /\ emitted' = emitted /\ batch' = FindingsOf(queue'[1])
    BY <1>0, <1>5 DEF Starts
  <2>2. batch' \in Seq(Findings) BY <2>1, FindingsType
  <2> QED BY <1>0, <2>1, <2>2 DEF QueueIsRest, BatchIsRest, Handled, Settled
<1>6. CASE Hands
  <2>1. /\ queue' = queue /\ emitted' = emitted /\ pc = "flowCall" /\ batch # <<>>
        /\ batch' = Tail(batch)
    BY <1>6 DEF Hands, FlowCall
  <2>2. /\ Len(batch') = Len(batch) - 1
        /\ \A i \in 1 .. Len(batch) - 1 : batch'[i] = batch[i + 1]
    BY <1>0, <2>1
  <2>3. Len(FindingsOf(queue[1])) \in Nat BY FindingsType
  <2>4. Settled \in Int /\ Settled' = Settled + 1 BY <1>0, <2>1, <2>2, <2>3 DEF Settled
  <2>5. DOMAIN batch' = 1 .. Len(batch) - 1 BY <1>0, <2>1, <2>2
  <2>6. ASSUME NEW i \in DOMAIN batch' PROVE batch'[i] = FindingsOf(queue'[1])[Settled' + i]
    <3>1. i + 1 \in DOMAIN batch /\ i \in Int BY <1>0, <2>5
    <3>2. batch[i + 1] = FindingsOf(queue[1])[Settled + (i + 1)]
      BY <2>1, <3>1 DEF BatchIsRest
    <3>3. Settled + (i + 1) = Settled' + i BY <2>4, <3>1
    <3> QED BY <2>1, <2>2, <2>5, <3>2, <3>3
  <2>7. Len(batch') <= Len(FindingsOf(queue'[1])) BY <1>0, <2>1, <2>2, <2>3 DEF BatchIsRest
  <2>8. QueueIsRest' BY <2>1 DEF QueueIsRest, Handled
  <2> QED BY <2>6, <2>7, <2>8 DEF BatchIsRest
<1> QED BY <1>1, <1>2, <1>3, <1>4, <1>5, <1>6, StreamShapes

-----------------------------------------------------------------------------
(* As long as nothing failed, what the flow consumer has been given is what  *)
(* was owed for the windows no longer in the queue, and for the first one in *)
(* it what is no longer in the batch.                                        *)
PastGiven(k, n) == k <= Handled \/ (pc = "flowCall" /\ k = Handled + 1 /\ n <= Settled)

GivenSoFar ==
    ~DeliveryFailed =>
        \A k \in DOMAIN emitted : \A n \in DOMAIN FindingsOf(emitted[k]) :
            (\E i \in FlowCalls : Gives(i, k, n)) <=> PastGiven(k, n)

LEMMA FailureStays ==
    ASSUME StreamTypeOK, Placed, [StreamNext]_allVars, DeliveryFailed
    PROVE  DeliveryFailed'
<1>1. CASE StartSource \/ StartRaises \/ TakeRaises \/ Exhausted \/ (\E p \in Packets : TakePacket(p))
  BY <1>1 DEF StartSource, StartRaises, TakeRaises, Exhausted, TakePacket, Raise, inputVars,
              Placed, Failing, DeliveryFailed
<1>2. CASE DetectPacket \/ DetectPacketRaises \/ PacketCallReturns \/ PacketCallRaises
           \/ SkipUnanalysed
  BY <1>2 DEF DetectPacket, DetectPacketRaises, PacketCallReturns, PacketCallRaises,
              SkipUnanalysed, Raise, inputVars, DeliveryFailed
<1>3. CASE Admit \/ AdmitRefused \/ AdmitRaises \/ Admitted
  BY <1>3 DEF Admit, AdmitRefused, AdmitRaises, Admitted, Raise, Placed, Failing, DeliveryFailed
<1>4. CASE SuppressWindow \/ WindowDelivered \/ QueueDelivered \/ DetectWindow \/ FlowCallReturns
  BY <1>4 DEF SuppressWindow, WindowDelivered, QueueDelivered, DetectWindow, FlowCallReturns,
              DeliveryFailed
<1>5. CASE DetectWindowRaises \/ FlowCallRaises
  BY <1>5 DEF DetectWindowRaises, FlowCallRaises, DeliveryRaises, DeliveryFailed
<1>6. CASE StopSource
  BY <1>6 DEF StopSource, Placed, Failing, DeliveryFailed
<1>7. CASE Finalize \/ Returned \/ UNCHANGED allVars
  BY <1>7 DEF Finalize, Returned, allVars, streamVars, DeliveryFailed
<1> QED BY <1>1, <1>2, <1>3, <1>4, <1>5, <1>6, <1>7 DEF StreamNext

(* The number of a window and the name of a finding tell which one a call    *)
(* was for.                                                                  *)
LEMMA GivesOne ==
    ASSUME Manager, NEW i, NEW j \in DOMAIN emitted, NEW k \in DOMAIN emitted,
           NEW m \in DOMAIN FindingsOf(emitted[j]), NEW n \in DOMAIN FindingsOf(emitted[k]),
           Gives(i, j, m), Gives(i, k, n)
    PROVE  j = k /\ m = n
<1>1. emitted[j].seq = emitted[k].seq BY DEF Gives
<1>2. j = k BY <1>1 DEF Manager, IInv, KeysAreWindows
<1>3. FindingsOf(emitted[k])[m] = FindingsOf(emitted[k])[n] BY <1>2 DEF Gives
<1> QED BY <1>2, <1>3, FindingsType

(* A call appended to the history, and what it leaves as it was.             *)
LEMMA AppendedCall ==
    ASSUME StreamTypeOK, StreamTypeOK', NEW consumer, NEW subject, NEW finding,
           NEW returned \in BOOLEAN, LogCall(consumer, subject, finding, returned)
    PROVE  LET e == Len(calls) + 1 IN
           /\ e \in Nat /\ DOMAIN calls = 1 .. Len(calls) /\ DOMAIN calls' = 1 .. e
           /\ Len(calls') = e
           /\ \A i \in DOMAIN calls : calls'[i] = calls[i]
           /\ calls'[e].consumer = consumer /\ calls'[e].subject = subject
           /\ calls'[e].finding = finding
           /\ consumer = "flow" =>
                 FlowCalls' = FlowCalls \cup {e} /\ PacketCalls' = PacketCalls
           /\ consumer = "packet" =>
                 PacketCalls' = PacketCalls \cup {e} /\ FlowCalls' = FlowCalls
<1> DEFINE c == [consumer |-> consumer, subject |-> subject,
                 finding |-> finding, returned |-> returned]
           e == Len(calls) + 1
<1>1. calls' = Append(calls, c) BY DEF LogCall
<1>2. c.consumer = consumer /\ c.subject = subject /\ c.finding = finding OBVIOUS
<1> HIDE DEF c
<1>3. /\ Len(calls) \in Nat /\ DOMAIN calls = 1 .. Len(calls) /\ DOMAIN calls' = 1 .. e
      /\ Len(calls') = e /\ calls'[e] = c /\ \A i \in DOMAIN calls : calls'[i] = calls[i]
  BY <1>1 DEF StreamTypeOK
<1>4. DOMAIN calls' = DOMAIN calls \cup {e} /\ e \notin DOMAIN calls BY <1>3
<1>5. consumer = "flow" => FlowCalls' = FlowCalls \cup {e} /\ PacketCalls' = PacketCalls
  BY <1>2, <1>3, <1>4 DEF FlowCalls, PacketCalls
<1>6. consumer = "packet" => PacketCalls' = PacketCalls \cup {e} /\ FlowCalls' = FlowCalls
  BY <1>2, <1>3, <1>4 DEF FlowCalls, PacketCalls
<1> QED BY <1>2, <1>3, <1>5, <1>6

(* The finding a flow call hands over is the first one not yet given.        *)
LEMMA NextFinding ==
    ASSUME Manager, StreamTypeOK, Placed, QueueIsRest, BatchIsRest, FlowCall
    PROVE  LET k == Handled + 1
               n == Settled + 1
           IN  /\ Handled \in Nat /\ Settled \in Nat
               /\ k \in DOMAIN emitted /\ n \in DOMAIN FindingsOf(emitted[k])
               /\ Head(queue).seq = emitted[k].seq
               /\ Head(batch) = FindingsOf(emitted[k])[n]
               /\ ~DeliveryFailed
<1>0. /\ Len(queue) \in Nat /\ Len(emitted) \in Nat /\ Len(batch) \in Nat
      /\ queue \in Seq(Windows) /\ batch \in Seq(Findings)
      /\ DOMAIN emitted = 1 .. Len(emitted)
  BY DEF StreamTypeOK, Manager, IInv, TypeOK
<1>1. /\ queue # <<>> /\ batch # <<>> /\ ~packetDeliveryFailed /\ ~downstreamFailed
      /\ pc = "flowCall"
  BY DEF FlowCall, Placed
<1>2. ~DeliveryFailed BY <1>1 DEF Placed, Failing, DeliveryFailed
<1>3. /\ 1 \in DOMAIN queue /\ 1 \in DOMAIN batch /\ Head(queue) = queue[1]
      /\ Head(batch) = batch[1] /\ Len(queue) >= 1 /\ Len(batch) >= 1
  BY <1>0, <1>1
<1>4. Handled \in Nat /\ Handled + 1 \in DOMAIN emitted /\ queue[1] = emitted[Handled + 1]
  BY <1>0, <1>3 DEF QueueIsRest, Handled
<1>5. Len(FindingsOf(queue[1])) \in Nat /\ DOMAIN FindingsOf(queue[1]) = 1 .. Len(FindingsOf(queue[1]))
  BY FindingsType
<1>6. /\ Len(batch) <= Len(FindingsOf(queue[1]))
      /\ batch[1] = FindingsOf(queue[1])[Settled + 1]
  BY <1>1, <1>3 DEF BatchIsRest
<1>7. Settled \in Nat /\ Settled + 1 \in DOMAIN FindingsOf(queue[1])
  BY <1>0, <1>3, <1>5, <1>6 DEF Settled
<1> QED BY <1>2, <1>3, <1>4, <1>6, <1>7

LEMMA FlowOrderStep ==
    ASSUME Manager, Manager', StreamTypeOK, StreamTypeOK', Placed, QueueIsRest, BatchIsRest,
           GivenSoFar, FlowCallsInOrder, [StreamNext]_allVars
    PROVE  FlowCallsInOrder'
<1>0. /\ Len(emitted) \in Nat /\ DOMAIN emitted = 1 .. Len(emitted)
      /\ DOMAIN emitted' = 1 .. Len(emitted') /\ Len(emitted') \in Nat
      /\ \A k \in DOMAIN emitted : k \in DOMAIN emitted' /\ emitted'[k] = emitted[k]
  BY ManagerSteps, EmittedGrows
<1>a. \A i, k, n : Gives(i, k, n) <=> /\ calls[i].subject = emitted[k].seq
                                      /\ calls[i].finding = FindingsOf(emitted[k])[n]
  BY DEF Gives
<1>b. \A i, k, n : Gives(i, k, n)' <=> /\ calls'[i].subject = emitted'[k].seq
                                       /\ calls'[i].finding = FindingsOf(emitted'[k])[n]
  BY DEF Gives
<1>c. \A j, k \in DOMAIN emitted' : emitted'[j].seq = emitted'[k].seq => j = k
  BY DEF Manager, IInv, KeysAreWindows
<1>1. CASE Silent
  <2>1. calls' = calls /\ FlowCalls' = FlowCalls BY <1>1 DEF Silent, FlowCalls
  <2>2. \A i, n : \A k \in DOMAIN emitted : Gives(i, k, n)' <=> Gives(i, k, n)
    BY <1>0, <1>a, <1>b, <2>1
  <2>3. ASSUME NEW i \in FlowCalls
        PROVE  \E k \in DOMAIN emitted' : \E n \in DOMAIN FindingsOf(emitted'[k]) :
                  /\ Gives(i, k, n)'
                  /\ \A j \in DOMAIN emitted' : \A m \in DOMAIN FindingsOf(emitted'[j]) :
                         GivenBefore(i, j, m)' <=> OwedBefore(j, m, k, n)
    <3>1. PICK k \in DOMAIN emitted : \E n \in DOMAIN FindingsOf(emitted[k]) :
                  /\ Gives(i, k, n)
                  /\ \A j \in DOMAIN emitted : \A m \in DOMAIN FindingsOf(emitted[j]) :
                         GivenBefore(i, j, m) <=> OwedBefore(j, m, k, n)
      BY DEF FlowCallsInOrder
    <3>2. PICK n \in DOMAIN FindingsOf(emitted[k]) :
                  /\ Gives(i, k, n)
                  /\ \A j \in DOMAIN emitted : \A m \in DOMAIN FindingsOf(emitted[j]) :
                         GivenBefore(i, j, m) <=> OwedBefore(j, m, k, n)
      BY <3>1
    <3>3. ASSUME NEW j \in DOMAIN emitted', NEW m \in DOMAIN FindingsOf(emitted'[j])
          PROVE  GivenBefore(i, j, m)' <=> OwedBefore(j, m, k, n)
      <4>1. CASE j \in DOMAIN emitted
        BY <1>0, <2>1, <2>2, <3>2, <4>1 DEF GivenBefore
      <4>2. CASE j \notin DOMAIN emitted
        <5>1. ~OwedBefore(j, m, k, n) BY <1>0, <4>2 DEF OwedBefore
        <5>2. ASSUME NEW h \in FlowCalls, Gives(h, j, m)' PROVE FALSE
          <6>1. PICK l \in DOMAIN emitted : \E o \in DOMAIN FindingsOf(emitted[l]) : Gives(h, l, o)
            BY DEF FlowCallsInOrder
          <6>2. emitted'[j].seq = emitted'[l].seq BY <1>0, <1>a, <1>b, <2>1, <5>2, <6>1
          <6> QED BY <1>0, <1>c, <4>2, <6>1, <6>2
        <5> QED BY <2>1, <5>1, <5>2 DEF GivenBefore
      <4> QED BY <4>1, <4>2
    <3>4. k \in DOMAIN emitted' /\ n \in DOMAIN FindingsOf(emitted'[k]) /\ Gives(i, k, n)'
      BY <1>0, <2>2, <3>2
    <3> QED BY <3>3, <3>4
  <2> QED BY <2>1, <2>3 DEF FlowCallsInOrder
<1>2. ASSUME emitted' = emitted, \A i \in DOMAIN calls : calls'[i] = calls[i],
             NEW e, FlowCalls' \in {FlowCalls, FlowCalls \cup {e}},
             \A i \in FlowCalls : i < e /\ i \in DOMAIN calls /\ i \in Nat, e \in Nat,
             NEW i \in FlowCalls
      PROVE  \E k \in DOMAIN emitted' : \E n \in DOMAIN FindingsOf(emitted'[k]) :
                  /\ Gives(i, k, n)'
                  /\ \A j \in DOMAIN emitted' : \A m \in DOMAIN FindingsOf(emitted'[j]) :
                         GivenBefore(i, j, m)' <=> OwedBefore(j, m, k, n)
  <2>1. \A h \in FlowCalls : \A k, n : Gives(h, k, n)' <=> Gives(h, k, n)
    BY <1>a, <1>b, <1>2
  <2>2. \A k, n : GivenBefore(i, k, n)' <=> GivenBefore(i, k, n)
    <3>1. \A h \in FlowCalls' : h < i => h \in FlowCalls BY <1>2
    <3>2. \A h \in FlowCalls : h \in FlowCalls' BY <1>2
    <3> QED BY <2>1, <3>1, <3>2 DEF GivenBefore
  <2> QED BY <1>2, <2>1, <2>2 DEF FlowCallsInOrder
<1>3. CASE PacketCall
  <2>1. PICK returned \in BOOLEAN : LogCall("packet", taken, "integrity", returned)
    BY <1>3 DEF PacketCall
  <2>2. /\ \A i \in DOMAIN calls : calls'[i] = calls[i] /\ FlowCalls' = FlowCalls
        /\ Len(calls) + 1 \in Nat /\ DOMAIN calls = 1 .. Len(calls) /\ Len(calls) \in Nat
    BY <2>1, AppendedCall DEF StreamTypeOK
  <2>3. emitted' = emitted BY <1>3 DEF PacketCall, vars, historyVars
  <2>4. \A i \in FlowCalls : i < Len(calls) + 1 /\ i \in DOMAIN calls /\ i \in Nat
    BY <2>2 DEF FlowCalls
  <2>5. FlowCalls' = FlowCalls BY <2>1, AppendedCall
  <2> QED BY <1>2, <2>2, <2>3, <2>4, <2>5 DEF FlowCallsInOrder
<1>4. CASE FlowCall
  <2>1. PICK returned \in BOOLEAN : LogCall("flow", Head(queue).seq, Head(batch), returned)
    BY <1>4 DEF FlowCall
  <2>a. Len(calls) \in Nat /\ Handled \in Nat /\ Settled \in Nat
    BY <1>4, NextFinding DEF StreamTypeOK
  <2>b. PICK e \in Nat : e = Len(calls) + 1 BY <2>a
  <2>c. PICK k \in Nat : k = Handled + 1 BY <2>a
  <2>d. PICK n \in Nat : n = Settled + 1 BY <2>a
  <2>2. /\ \A i \in DOMAIN calls : calls'[i] = calls[i]
        /\ FlowCalls' = FlowCalls \cup {e}
        /\ calls'[e].subject = Head(queue).seq /\ calls'[e].finding = Head(batch)
        /\ DOMAIN calls = 1 .. Len(calls)
    BY <2>1, <2>b, AppendedCall
  <2>3. emitted' = emitted BY <1>4 DEF FlowCall, vars, historyVars
  <2>4. \A i \in FlowCalls : i < e /\ i \in DOMAIN calls /\ i \in Nat
    BY <2>2, <2>a, <2>b DEF FlowCalls
  <2>5. /\ k \in DOMAIN emitted /\ n \in DOMAIN FindingsOf(emitted[k])
        /\ Head(queue).seq = emitted[k].seq
        /\ Head(batch) = FindingsOf(emitted[k])[n]
        /\ ~DeliveryFailed
    BY <1>4, <2>c, <2>d, NextFinding
  <2>6. Gives(e, k, n)' BY <1>b, <2>2, <2>3, <2>5
  <2>7. ASSUME NEW j \in DOMAIN emitted, NEW m \in DOMAIN FindingsOf(emitted[j])
        PROVE  GivenBefore(e, j, m)' <=> OwedBefore(j, m, k, n)
    <3>1. \A h \in FlowCalls : Gives(h, j, m)' <=> Gives(h, j, m)
      BY <1>a, <1>b, <2>2, <2>3, <2>4
    <3>2. GivenBefore(e, j, m)' <=> \E h \in FlowCalls : Gives(h, j, m)
      <4>1. GivenBefore(e, j, m)' <=> \E h \in FlowCalls' : h < e /\ Gives(h, j, m)'
        BY DEF GivenBefore
      <4>2. ~(e < e) BY <2>b
      <4> QED BY <2>2, <2>4, <3>1, <4>1, <4>2
    <3>3. (\E h \in FlowCalls : Gives(h, j, m)) <=> PastGiven(j, m) BY <2>5 DEF GivenSoFar
    <3>4. PastGiven(j, m) <=> OwedBefore(j, m, k, n)
      <4>1. pc = "flowCall" BY <1>4 DEF FlowCall
      <4>2. j \in Nat /\ m \in Nat
        <5>1. FindingsOf(emitted[j]) \in Seq(Findings) BY FindingsType
        <5> QED BY <1>0, <5>1
      <4> QED BY <2>a, <2>c, <2>d, <4>1, <4>2 DEF PastGiven, OwedBefore
    <3> QED BY <3>2, <3>3, <3>4
  <2>8. ASSUME NEW i \in FlowCalls'
        PROVE  \E l \in DOMAIN emitted' : \E o \in DOMAIN FindingsOf(emitted'[l]) :
                  /\ Gives(i, l, o)'
                  /\ \A j \in DOMAIN emitted' : \A m \in DOMAIN FindingsOf(emitted'[j]) :
                         GivenBefore(i, j, m)' <=> OwedBefore(j, m, l, o)
    <3>1. CASE i = e
      <4>1. Gives(i, k, n)' BY <2>6, <3>1 DEF Gives
      <4>2. ASSUME NEW j \in DOMAIN emitted', NEW m \in DOMAIN FindingsOf(emitted'[j])
            PROVE  GivenBefore(i, j, m)' <=> OwedBefore(j, m, k, n)
        BY <2>3, <2>7, <3>1, <4>2 DEF GivenBefore
      <4>3. k \in DOMAIN emitted' /\ n \in DOMAIN FindingsOf(emitted'[k]) BY <2>3, <2>5
      <4> QED BY <4>1, <4>2, <4>3
    <3>2. CASE i \in FlowCalls
      <4>1. FlowCalls' \in {FlowCalls, FlowCalls \cup {e}} BY <2>2
      <4>2. \A h \in DOMAIN calls : calls'[h] = calls[h] BY <2>2
      <4> HIDE <2>2, <2>5, <2>6, <2>7
      <4> QED BY <1>2, <2>3, <2>4, <3>2, <4>1, <4>2
    <3> QED BY <2>2, <3>1, <3>2
  <2> QED BY <2>8 DEF FlowCallsInOrder
<1> QED BY <1>1, <1>3, <1>4, CallSteps
(* A step that calls no flow consumer leaves the flow calls and what they    *)
(* gave alone.                                                               *)
LEMMA FlowCallsKept ==
    ASSUME Manager, Manager', StreamTypeOK, StreamTypeOK', [Next]_vars, Silent \/ PacketCall
    PROVE  /\ FlowCalls' = FlowCalls
           /\ \A i \in FlowCalls : \A k \in DOMAIN emitted : \A n :
                 Gives(i, k, n)' <=> Gives(i, k, n)
<1>1. FlowCalls' = FlowCalls /\ \A i \in FlowCalls : calls'[i] = calls[i]
  <2>1. CASE Silent BY <2>1 DEF Silent, FlowCalls
  <2>2. CASE PacketCall
    <3>1. PICK returned \in BOOLEAN : LogCall("packet", taken, "integrity", returned)
      BY <2>2 DEF PacketCall
    <3>2. FlowCalls' = FlowCalls /\ \A i \in DOMAIN calls : calls'[i] = calls[i]
      BY <3>1, AppendedCall
    <3> QED BY <3>2 DEF FlowCalls
  <2> QED BY <2>1, <2>2
<1>2. \A k \in DOMAIN emitted : emitted'[k] = emitted[k] BY EmittedGrows
<1>3. ASSUME NEW i \in FlowCalls, NEW k \in DOMAIN emitted, NEW n
      PROVE  Gives(i, k, n)' <=> Gives(i, k, n)
  BY <1>1, <1>2 DEF Gives
<1> QED BY <1>1, <1>3

LEMMA GivenSoFarStep ==
    ASSUME Manager, Manager', StreamTypeOK, StreamTypeOK', Placed, QueueIsRest, BatchIsRest,
           QueueIsRest', BatchIsRest', GivenSoFar, FlowCallsInOrder, [StreamNext]_allVars
    PROVE  GivenSoFar'
<1> SUFFICES ASSUME ~DeliveryFailed',
                    NEW k \in DOMAIN emitted', NEW n \in DOMAIN FindingsOf(emitted'[k])
             PROVE  (\E i \in FlowCalls' : Gives(i, k, n)') <=> PastGiven(k, n)'
  BY DEF GivenSoFar
<1>0. /\ Len(emitted) \in Nat /\ DOMAIN emitted = 1 .. Len(emitted)
      /\ DOMAIN emitted' = 1 .. Len(emitted') /\ Len(emitted') \in Nat
      /\ \A l \in DOMAIN emitted : l \in DOMAIN emitted' /\ emitted'[l] = emitted[l]
  BY ManagerSteps, EmittedGrows
<1>a. ~DeliveryFailed BY FailureStays
<1>b. /\ Len(queue) \in Nat /\ Len(queue') \in Nat /\ Len(batch) \in Nat /\ Len(batch') \in Nat
      /\ queue \in Seq(Windows) /\ batch \in Seq(Findings)
      /\ DOMAIN queue = 1 .. Len(queue)
  BY DEF StreamTypeOK
<1>c. /\ \A w : Len(FindingsOf(w)) \in Nat /\ DOMAIN FindingsOf(w) = 1 .. Len(FindingsOf(w))
      /\ k \in Nat /\ n \in Nat
  <2>1. \A w : Len(FindingsOf(w)) \in Nat /\ DOMAIN FindingsOf(w) = 1 .. Len(FindingsOf(w))
    BY FindingsType
  <2> QED BY <1>0, <2>1
<1>d. k \in DOMAIN emitted =>
         /\ n \in DOMAIN FindingsOf(emitted[k])
         /\ (\E i \in FlowCalls : Gives(i, k, n)) <=> PastGiven(k, n)
  BY <1>0, <1>a DEF GivenSoFar
<1>e. ASSUME Silent \/ PacketCall, k \in DOMAIN emitted
      PROVE  (\E i \in FlowCalls' : Gives(i, k, n)') <=> PastGiven(k, n)
  BY <1>d, <1>e, ManagerSteps, FlowCallsKept
<1>1. CASE Keeps
  <2>1. UNCHANGED <<emitted, queue, batch>> /\ (pc = "flowCall" <=> pc' = "flowCall")
    BY <1>1 DEF Keeps
  <2>2. PastGiven(k, n)' <=> PastGiven(k, n) BY <2>1 DEF PastGiven, Handled, Settled
  <2> QED BY <1>1, <1>e, <2>1, <2>2 DEF Keeps
<1>2. CASE GivesUp \/ Suppresses BY <1>2 DEF GivesUp, Suppresses
<1>3. CASE Collects
  <2>1. queue = <<>> /\ pc # "flowCall" /\ pc' # "flowCall" /\ Silent
        /\ queue' = NewlyEmitted
    BY <1>3 DEF Collects
  <2>2. Handled = Len(emitted) /\ Handled' = Len(emitted)
    <3>1. Len(queue') = Len(emitted') - Len(emitted)
      BY <2>1, ManagerSteps, NewlyEmittedRest
    <3>2. Len(queue) = 0 BY <2>1
    <3> QED BY <1>0, <3>1, <3>2 DEF Handled
  <2>3. PastGiven(k, n)' <=> k <= Len(emitted) BY <2>1, <2>2 DEF PastGiven
  <2>4. CASE k \in DOMAIN emitted
    <3>1. PastGiven(k, n) BY <1>0, <2>2, <2>4 DEF PastGiven
    <3> QED BY <1>0, <1>e, <2>1, <2>3, <2>4, <3>1
  <2>5. CASE k \notin DOMAIN emitted
    <3>1. ~PastGiven(k, n)' BY <1>0, <1>c, <2>3, <2>5
    <3>2. ASSUME NEW i \in FlowCalls', Gives(i, k, n)' PROVE FALSE
      <4>1. calls' = calls /\ FlowCalls' = FlowCalls BY <2>1 DEF Silent, FlowCalls
      <4>2. PICK l \in DOMAIN emitted : \E o \in DOMAIN FindingsOf(emitted[l]) : Gives(i, l, o)
        BY <4>1 DEF FlowCallsInOrder
      <4>3. emitted'[k].seq = emitted'[l].seq BY <1>0, <3>2, <4>1, <4>2 DEF Gives
      <4>4. k = l BY <1>0, <4>3 DEF Manager, IInv, KeysAreWindows
      <4> QED BY <2>5, <4>4
    <3> QED BY <3>1, <3>2
  <2> QED BY <2>4, <2>5
<1>4. CASE Finishes
  <2>1. /\ queue # <<>> /\ queue' = Tail(queue) /\ pc = "flowCall" /\ pc' # "flowCall"
        /\ batch = <<>> /\ emitted' = emitted /\ Silent
    BY <1>4 DEF Finishes
  <2>2. Len(queue') = Len(queue) - 1 /\ 1 \in DOMAIN queue BY <1>b, <2>1
  <2>3. Handled' = Handled + 1 /\ Handled \in Int BY <1>0, <1>b, <2>1, <2>2 DEF Handled
  <2>4. queue[1] = emitted[Handled + 1] BY <2>2 DEF QueueIsRest
  <2>5. Settled = Len(FindingsOf(emitted[Handled + 1]))
    BY <1>c, <2>1, <2>4 DEF Settled
  <2>6. k = Handled + 1 => n <= Settled BY <1>c, <2>1, <2>5
  <2>7. PastGiven(k, n) <=> PastGiven(k, n)' BY <1>c, <2>1, <2>3, <2>6 DEF PastGiven
  <2> QED BY <1>e, <2>1, <2>7
<1>5. CASE Starts
  <2>1. /\ queue # <<>> /\ UNCHANGED <<queue, emitted>> /\ pc # "flowCall" /\ Silent
        /\ batch' = FindingsOf(Head(queue))
    BY <1>5 DEF Starts
  <2>2. Handled' = Handled BY <2>1 DEF Handled
  <2>3. Settled' = 0
    <3>1. Head(queue) = queue[1] BY <1>b, <2>1
    <3>2. batch' = FindingsOf(queue'[1]) BY <2>1, <3>1
    <3> QED BY <1>c, <3>2 DEF Settled
  <2>4. PastGiven(k, n) <=> PastGiven(k, n)' BY <1>c, <2>1, <2>2, <2>3 DEF PastGiven
  <2> QED BY <1>e, <2>1, <2>4
<1>6. CASE Hands
  <2>1. /\ UNCHANGED <<queue, emitted>> /\ pc' = "flowCall" /\ batch' = Tail(batch) /\ FlowCall
        /\ pc = "flowCall" /\ batch # <<>>
    BY <1>6 DEF Hands, FlowCall
  <2>2. PICK returned \in BOOLEAN : LogCall("flow", Head(queue).seq, Head(batch), returned)
    BY <2>1 DEF FlowCall
  <2>a. Len(calls) \in Nat /\ Handled \in Nat /\ Settled \in Nat
    BY <2>1, NextFinding DEF StreamTypeOK
  <2>b. PICK e \in Nat : e = Len(calls) + 1 BY <2>a
  <2>c. PICK l \in Nat : l = Handled + 1 BY <2>a
  <2>d. PICK o \in Nat : o = Settled + 1 BY <2>a
  <2>3. /\ \A i \in DOMAIN calls : calls'[i] = calls[i]
        /\ FlowCalls' = FlowCalls \cup {e}
        /\ calls'[e].subject = Head(queue).seq /\ calls'[e].finding = Head(batch)
    BY <2>2, <2>b, AppendedCall
  <2>4. /\ l \in DOMAIN emitted /\ o \in DOMAIN FindingsOf(emitted[l])
        /\ Head(queue).seq = emitted[l].seq
        /\ Head(batch) = FindingsOf(emitted[l])[o]
    BY <2>1, <2>c, <2>d, NextFinding
  <2>5. Handled' = Handled /\ Settled' = Settled + 1
    <3>1. Len(batch') = Len(batch) - 1 BY <1>b, <2>1
    <3>2. Len(FindingsOf(queue[1])) \in Nat BY <1>c
    <3> QED BY <1>b, <2>1, <3>1, <3>2 DEF Handled, Settled
  <2>6. \A i \in FlowCalls : Gives(i, k, n)' <=> Gives(i, k, n) BY <2>1, <2>3 DEF Gives, FlowCalls
  <2>7. Gives(e, l, o)' BY <2>1, <2>3, <2>4 DEF Gives
  <2>8. Gives(e, k, n)' <=> k = l /\ n = o
    <3>1. l \in DOMAIN emitted' /\ o \in DOMAIN FindingsOf(emitted'[l]) BY <2>1, <2>4
    <3>2. ASSUME Gives(e, k, n)' PROVE k = l /\ n = o
      <4>1. emitted'[k].seq = emitted'[l].seq BY <2>7, <3>2 DEF Gives
      <4>2. k = l BY <3>1, <4>1 DEF Manager, IInv, KeysAreWindows
      <4>3. FindingsOf(emitted'[k])[n] = FindingsOf(emitted'[l])[o] BY <2>7, <3>2 DEF Gives
      <4> QED BY <3>1, <4>2, <4>3, FindingsType
    <3>3. ASSUME k = l, n = o PROVE Gives(e, k, n)' BY <2>7, <3>3 DEF Gives
    <3> QED BY <3>2, <3>3
  <2>9. PastGiven(k, n)' <=> PastGiven(k, n) \/ (k = l /\ n = o)
    BY <1>c, <2>1, <2>a, <2>c, <2>d, <2>5 DEF PastGiven
  <2>10. (\E i \in FlowCalls : Gives(i, k, n)) <=> PastGiven(k, n) BY <1>d, <2>1
  <2> QED BY <2>3, <2>6, <2>8, <2>9, <2>10
<1> QED BY <1>1, <1>2, <1>3, <1>4, <1>5, <1>6, StreamShapes
-----------------------------------------------------------------------------
(* The packets: every one but the last is reported, and the last one is      *)
(* unless its turn has not come or its delivery failed.                      *)
Unsaid == {"detect", "packetCall"}

Called(p) == \E i \in PacketCalls : calls[i].subject = p

ReportedSoFar ==
    /\ \A p \in 1 .. taken : p < taken => Called(p)
    /\ pc \in Unsaid => taken > 0 /\ \A p \in 1 .. taken : Called(p) => p # taken
    /\ ~packetDeliveryFailed /\ pc \notin Unsaid => \A p \in 1 .. taken : Called(p)

(* A call that raised is known as a failure.                                 *)
FailureKnown == \A i \in DOMAIN calls : ~calls[i].returned => DeliveryFailed

(* The steps of the stream by what they do to the packets: take the next     *)
(* one, report it, or neither.                                               *)
Takes ==
    /\ pc = "next" /\ pc' = "detect"
    /\ taken' = taken + 1
    /\ UNCHANGED packetDeliveryFailed
    /\ Silent

Reports == PacketCall /\ pc' \notin Unsaid

Passes ==
    /\ UNCHANGED taken
    /\ pc' \in Unsaid => pc \in Unsaid
    /\ pc \in Unsaid => pc' \in Unsaid \/ packetDeliveryFailed'
    /\ packetDeliveryFailed => packetDeliveryFailed'
    /\ Silent \/ FlowCall

LEMMA PacketShapes ==
    ASSUME [StreamNext]_allVars
    PROVE  Takes \/ Reports \/ Passes
<1> USE DEF Unsaid, Silent
<1>1. CASE \E p \in Packets : TakePacket(p) BY <1>1 DEF TakePacket, Takes
<1>2. CASE PacketCallReturns \/ PacketCallRaises
  <2>1. PacketCall BY <1>2 DEF PacketCallReturns, PacketCallRaises, PacketCall, inputVars
  <2>2. pc' \in {"admit", "stop"} BY <1>2 DEF PacketCallReturns, PacketCallRaises, Raise
  <2> QED BY <2>1, <2>2 DEF Reports
<1>3. CASE StartSource \/ StartRaises \/ TakeRaises \/ Exhausted
  BY <1>3 DEF StartSource, StartRaises, TakeRaises, Exhausted, Raise, inputVars, Passes
<1>4. CASE DetectPacket \/ DetectPacketRaises \/ SkipUnanalysed
  BY <1>4 DEF DetectPacket, DetectPacketRaises, SkipUnanalysed, Raise, inputVars, Passes
<1>5. CASE Admit \/ AdmitRefused \/ AdmitRaises \/ Admitted
  BY <1>5 DEF Admit, AdmitRefused, AdmitRaises, Admitted, Raise, inputVars, Passes
<1>6. CASE SuppressWindow \/ DetectWindow \/ WindowDelivered \/ QueueDelivered
  BY <1>6 DEF SuppressWindow, DetectWindow, WindowDelivered, QueueDelivered, inputVars, Passes
<1>7. CASE DetectWindowRaises
  BY <1>7 DEF DetectWindowRaises, DeliveryRaises, inputVars, Passes
<1>8. CASE FlowCallReturns \/ FlowCallRaises
  <2>1. FlowCall BY <1>8 DEF FlowCallReturns, FlowCallRaises, FlowCall, inputVars
  <2>2. pc = "flowCall" /\ pc' \in {"flowCall", "done", "stop"}
    BY <1>8 DEF FlowCallReturns, FlowCallRaises, DeliveryRaises
  <2> QED BY <2>1, <2>2 DEF FlowCall, Passes
<1>9. CASE StopSource \/ Finalize \/ Returned \/ UNCHANGED allVars
  BY <1>9 DEF StopSource, Finalize, Returned, allVars, streamVars, inputVars, Passes
<1> QED BY <1>1, <1>2, <1>3, <1>4, <1>5, <1>6, <1>7, <1>8, <1>9 DEF StreamNext

(* A step that calls no packet consumer leaves the packet calls alone.       *)
LEMMA PacketCallsKept ==
    ASSUME StreamTypeOK, StreamTypeOK', Silent \/ FlowCall
    PROVE  /\ PacketCalls' = PacketCalls
           /\ \A i \in PacketCalls : calls'[i] = calls[i]
           /\ \A p : Called(p)' <=> Called(p)
<1>1. PacketCalls' = PacketCalls /\ \A i \in PacketCalls : calls'[i] = calls[i]
  <2>1. CASE Silent BY <2>1 DEF Silent, PacketCalls
  <2>2. CASE FlowCall
    <3>1. PICK returned \in BOOLEAN : LogCall("flow", Head(queue).seq, Head(batch), returned)
      BY <2>2 DEF FlowCall
    <3>2. PacketCalls' = PacketCalls /\ \A i \in DOMAIN calls : calls'[i] = calls[i]
      BY <3>1, AppendedCall
    <3> QED BY <3>2 DEF PacketCalls
  <2> QED BY <2>1, <2>2
<1>2. ASSUME NEW p PROVE Called(p)' <=> Called(p) BY <1>1 DEF Called
<1> QED BY <1>1, <1>2

(* A packet call is the first one of the last packet.                        *)
LEMMA PacketCallMade ==
    ASSUME StreamTypeOK, StreamTypeOK', PacketCall, ReportedSoFar,
           NEW e \in Nat, e = Len(calls) + 1
    PROVE  /\ PacketCalls' = PacketCalls \cup {e}
           /\ calls'[e].subject = taken /\ taken' = taken /\ taken \in 1 .. taken
           /\ \A i \in PacketCalls : calls'[i] = calls[i] /\ i < e /\ i \in Nat
           /\ \A p \in 1 .. taken : Called(p) <=> p < taken
<1>1. PICK returned \in BOOLEAN : LogCall("packet", taken, "integrity", returned)
  BY DEF PacketCall
<1>2. /\ PacketCalls' = PacketCalls \cup {e} /\ calls'[e].subject = taken
      /\ DOMAIN calls = 1 .. Len(calls) /\ Len(calls) \in Nat
      /\ \A i \in DOMAIN calls : calls'[i] = calls[i]
  BY <1>1, AppendedCall DEF StreamTypeOK
<1>3. taken' = taken /\ pc = "packetCall" BY DEF PacketCall
<1>4. /\ taken \in Nat /\ taken > 0 /\ \A p \in 1 .. taken : Called(p) => p # taken
      /\ \A p \in 1 .. taken : p < taken => Called(p)
  BY <1>3 DEF ReportedSoFar, Unsaid, StreamTypeOK
<1>5. \A i \in PacketCalls : i \in DOMAIN calls BY DEF PacketCalls
<1>6. \A i \in PacketCalls : calls'[i] = calls[i] /\ i < e /\ i \in Nat BY <1>2, <1>5
<1>7. \A p \in 1 .. taken : Called(p) <=> p < taken
  <2>1. \A p \in 1 .. taken : p < taken \/ p = taken BY <1>4
  <2> QED BY <1>4, <2>1
<1>8. taken \in 1 .. taken BY <1>4
<1> QED BY <1>2, <1>3, <1>6, <1>7, <1>8

LEMMA PacketOrderStep ==
    ASSUME StreamTypeOK, StreamTypeOK', ReportedSoFar, PacketCallsInOrder, [StreamNext]_allVars
    PROVE  PacketCallsInOrder'
<1>0. taken \in Nat BY DEF StreamTypeOK
<1>1. ASSUME Silent \/ FlowCall, taken' \in {taken, taken + 1} PROVE PacketCallsInOrder'
  <2>1. PacketCalls' = PacketCalls /\ \A i \in PacketCalls : calls'[i] = calls[i]
    BY <1>1, PacketCallsKept
  <2>2. ASSUME NEW i \in PacketCalls, NEW p \in 1 .. taken'
        PROVE  /\ calls[i].subject \in 1 .. taken'
               /\ (\E j \in PacketCalls : j < i /\ calls[j].subject = p) <=> p < calls[i].subject
    <3>1. \A j \in PacketCalls : calls[j].subject \in 1 .. taken BY DEF PacketCallsInOrder
    <3>2. p \in 1 .. taken \/ p = taken + 1 BY <1>0, <1>1
    <3>3. CASE p \in 1 .. taken BY <1>0, <1>1, <3>1, <3>3 DEF PacketCallsInOrder
    <3>4. CASE p = taken + 1 BY <1>0, <1>1, <3>1, <3>4
    <3> QED BY <3>2, <3>3, <3>4
  <2>3. \A i \in PacketCalls : calls[i].subject \in 1 .. taken'
    BY <1>0, <1>1 DEF PacketCallsInOrder
  <2> QED BY <2>1, <2>2, <2>3 DEF PacketCallsInOrder
<1>2. CASE Takes BY <1>1, <1>2 DEF Takes
<1>3. CASE Passes BY <1>1, <1>3 DEF Passes
<1>4. CASE Reports
  <2>a. PICK e \in Nat : e = Len(calls) + 1 BY DEF StreamTypeOK
  <2>1. /\ PacketCalls' = PacketCalls \cup {e}
        /\ calls'[e].subject = taken /\ taken' = taken /\ taken \in 1 .. taken
        /\ \A i \in PacketCalls : calls'[i] = calls[i] /\ i < e /\ i \in Nat
        /\ \A p \in 1 .. taken : Called(p) <=> p < taken
    BY <1>4, <2>a, PacketCallMade DEF Reports
  <2>2. ASSUME NEW i \in PacketCalls, NEW p \in 1 .. taken
        PROVE  /\ calls'[i].subject \in 1 .. taken
               /\ (\E j \in PacketCalls' : j < i /\ calls'[j].subject = p) <=> p < calls'[i].subject
    <3>1. /\ calls[i].subject \in 1 .. taken
          /\ (\E j \in PacketCalls : j < i /\ calls[j].subject = p) <=> p < calls[i].subject
      BY DEF PacketCallsInOrder
    <3>2. ~(e < i) BY <2>1
    <3> QED BY <2>1, <3>1, <3>2
  <2>3. ASSUME NEW p \in 1 .. taken
        PROVE  (\E j \in PacketCalls' : j < e /\ calls'[j].subject = p) <=> p < calls'[e].subject
    <3>1. ~(e < e) BY <2>a
    <3>2. (\E j \in PacketCalls' : j < e /\ calls'[j].subject = p) <=> Called(p)
      BY <2>1, <3>1 DEF Called
    <3> QED BY <2>1, <3>2
  <2> QED BY <2>1, <2>2, <2>3 DEF PacketCallsInOrder
<1> QED BY <1>2, <1>3, <1>4, PacketShapes

LEMMA ReportedStep ==
    ASSUME Manager, StreamTypeOK, StreamTypeOK', Placed, ReportedSoFar, PacketCallsInOrder,
           [StreamNext]_allVars
    PROVE  ReportedSoFar'
<1>0. taken \in Nat BY DEF StreamTypeOK
<1>1. CASE Takes
  <2>1. \A p : Called(p)' <=> Called(p) BY <1>1, PacketCallsKept DEF Takes
  <2>2. /\ pc = "next" /\ pc' = "detect" /\ taken' = taken + 1
        /\ packetDeliveryFailed' = packetDeliveryFailed
    BY <1>1 DEF Takes
  <2>3. ~packetDeliveryFailed BY <2>2 DEF Placed, Failing
  <2>4. \A p \in 1 .. taken : Called(p) BY <2>2, <2>3 DEF ReportedSoFar, Unsaid
  <2>5. ~Called(taken + 1) BY <1>0 DEF Called, PacketCallsInOrder
  <2>6. \A p \in 1 .. taken' : p < taken' => p \in 1 .. taken BY <1>0, <2>2
  <2>7. /\ \A p \in 1 .. taken' : p < taken' => Called(p)'
        /\ \A p \in 1 .. taken' : Called(p)' => p # taken'
        /\ taken' > 0
    <3>1. \A p \in 1 .. taken' : p < taken' => Called(p)' BY <2>1, <2>4, <2>6
    <3>2. \A p : Called(p)' => p # taken' BY <2>1, <2>2, <2>5
    <3>3. taken' > 0 BY <1>0, <2>2
    <3> QED BY <3>1, <3>2, <3>3
  <2> QED BY <2>2, <2>7 DEF ReportedSoFar, Unsaid
<1>2. CASE Passes
  <2>1. \A p : Called(p)' <=> Called(p) BY <1>2, PacketCallsKept DEF Passes
  <2>2. taken' = taken BY <1>2 DEF Passes
  <2> QED BY <1>2, <2>1, <2>2 DEF Passes, ReportedSoFar
<1>3. CASE Reports
  <2>a. PICK e \in Nat : e = Len(calls) + 1 BY DEF StreamTypeOK
  <2>1. /\ PacketCalls' = PacketCalls \cup {e}
        /\ calls'[e].subject = taken /\ taken' = taken /\ taken \in 1 .. taken
        /\ \A i \in PacketCalls : calls'[i] = calls[i]
        /\ \A p \in 1 .. taken : Called(p) <=> p < taken
    BY <1>3, <2>a, PacketCallMade DEF Reports
  <2>2. ASSUME NEW p \in 1 .. taken PROVE Called(p)'
    <3>1. CASE p = taken BY <2>1, <3>1 DEF Called
    <3>2. CASE p < taken BY <2>1, <3>2 DEF Called
    <3> QED BY <1>0, <3>1, <3>2
  <2>3. pc' \notin Unsaid BY <1>3 DEF Reports
  <2> QED BY <2>1, <2>2, <2>3 DEF ReportedSoFar
<1> QED BY <1>1, <1>2, <1>3, PacketShapes
-----------------------------------------------------------------------------
(* A consumer is called only while nothing has failed, and a call that       *)
(* raises is noted as a failure in the same step.                            *)
LEMMA CallOutcome ==
    ASSUME Manager, StreamTypeOK, StreamTypeOK', Placed, QueueIsRest, BatchIsRest,
           [StreamNext]_allVars
    PROVE  \/ Silent
           \/ /\ ~DeliveryFailed
              /\ DOMAIN calls' = DOMAIN calls \cup {Len(calls')}
              /\ \A i \in DOMAIN calls : calls'[i] = calls[i]
              /\ ~calls'[Len(calls')].returned => DeliveryFailed'
<1>1. ASSUME NEW consumer, NEW subject, NEW finding, NEW returned \in BOOLEAN,
             LogCall(consumer, subject, finding, returned)
      PROVE  /\ DOMAIN calls' = DOMAIN calls \cup {Len(calls')}
             /\ \A i \in DOMAIN calls : calls'[i] = calls[i]
             /\ calls'[Len(calls')].returned <=> returned
  <2> DEFINE c == [consumer |-> consumer, subject |-> subject,
                   finding |-> finding, returned |-> returned]
  <2>1. calls' = Append(calls, c) BY <1>1 DEF LogCall
  <2>2. c.returned <=> returned BY Zenon
  <2> HIDE DEF c
  <2>3. /\ DOMAIN calls' = DOMAIN calls \cup {Len(calls')}
        /\ \A i \in DOMAIN calls : calls'[i] = calls[i]
        /\ calls'[Len(calls')] = c
    BY <2>1 DEF StreamTypeOK
  <2> QED BY <2>2, <2>3, Zenon
<1>2. CASE PacketCallReturns \/ PacketCallRaises
  <2>1. PICK returned \in BOOLEAN :
           LogCall("packet", taken, "integrity", returned) /\ (~returned => packetDeliveryFailed')
    BY <1>2, Zenon DEF PacketCallReturns, PacketCallRaises
  <2>2. pc = "packetCall" BY <1>2 DEF PacketCallReturns, PacketCallRaises
  <2>3. ~DeliveryFailed BY <2>2 DEF Placed, Failing, DeliveryFailed
  <2>4. ~returned => DeliveryFailed' BY <2>1 DEF DeliveryFailed
  <2> QED BY <1>1, <2>1, <2>3, <2>4
<1>3. CASE FlowCallReturns \/ FlowCallRaises
  <2>1. PICK returned \in BOOLEAN :
           LogCall("flow", Head(queue).seq, Head(batch), returned) /\ (~returned => error' = "delivery")
    BY <1>3, Zenon DEF FlowCallReturns, FlowCallRaises, DeliveryRaises
  <2>2. FlowCall BY <1>3 DEF FlowCallReturns, FlowCallRaises, FlowCall, inputVars
  <2>3. ~DeliveryFailed BY <2>2, NextFinding
  <2>4. ~returned => DeliveryFailed' BY <2>1 DEF DeliveryFailed
  <2> QED BY <1>1, <2>1, <2>3, <2>4
<1>4. CASE ~(PacketCallReturns \/ PacketCallRaises \/ FlowCallReturns \/ FlowCallRaises)
  BY <1>4, OtherSteps
<1> QED BY <1>2, <1>3, <1>4

LEMMA FailureKnownStep ==
    ASSUME Manager, StreamTypeOK, StreamTypeOK', Placed, QueueIsRest, BatchIsRest,
           FailureKnown, FailedCallIsLast, [StreamNext]_allVars
    PROVE  FailureKnown' /\ FailedCallIsLast'
<1>1. CASE Silent
  <2>1. calls' = calls /\ (DeliveryFailed => DeliveryFailed') BY <1>1, FailureStays DEF Silent
  <2> QED BY <2>1 DEF FailureKnown, FailedCallIsLast
<1>2. CASE ~Silent
  <2>1. /\ ~DeliveryFailed
        /\ DOMAIN calls' = DOMAIN calls \cup {Len(calls')}
        /\ \A i \in DOMAIN calls : calls'[i] = calls[i]
        /\ ~calls'[Len(calls')].returned => DeliveryFailed'
    BY <1>2, CallOutcome
  <2>2. \A i \in DOMAIN calls : calls'[i].returned BY <2>1, Zenon DEF FailureKnown
  <2> QED BY <2>1, <2>2, Zenon DEF FailureKnown, FailedCallIsLast
<1> QED BY <1>1, <1>2

-----------------------------------------------------------------------------
(* The invariant all the theorems below rest on.                             *)
StreamInv ==
    /\ Manager
    /\ StreamTypeOK
    /\ Placed
    /\ QueueIsRest
    /\ BatchIsRest
    /\ GivenSoFar
    /\ FlowCallsInOrder
    /\ ReportedSoFar
    /\ PacketCallsInOrder
    /\ FailureKnown
    /\ FailedCallIsLast

LEMMA StreamInitInv == StreamInit => StreamInv
<1> SUFFICES ASSUME StreamInit PROVE StreamInv OBVIOUS
<1> USE DEF StreamInit
<1>1. Init BY Zenon
<1>2. Manager
  <2>1. EndOfSession BY <1>1 DEF Init, EndOfSession, EndClosings
  <2> QED BY <1>1, <2>1, InitIInv DEF Manager
<1>3. emitted = <<>> /\ ~ended /\ inFlight = {} BY <1>1 DEF Init
<1>a. <<>> \in Seq(Windows) /\ <<>> \in Seq(Findings) /\ <<>> \in Seq(CallRecords) OBVIOUS
<1>4. StreamTypeOK BY <1>a DEF StreamTypeOK
<1>5. Placed BY <1>3 DEF Placed, Failing
<1>6. QueueIsRest /\ BatchIsRest BY <1>3 DEF QueueIsRest, BatchIsRest
<1>7. FlowCalls = {} /\ PacketCalls = {} BY DEF FlowCalls, PacketCalls
<1>8. GivenSoFar BY <1>3 DEF GivenSoFar
<1>9. FlowCallsInOrder /\ PacketCallsInOrder BY <1>7 DEF FlowCallsInOrder, PacketCallsInOrder
<1>10. ReportedSoFar BY DEF ReportedSoFar, Unsaid
<1>11. DOMAIN calls = {} BY DEF StreamTypeOK
<1>12. FailureKnown /\ FailedCallIsLast BY <1>11, Zenon DEF FailureKnown, FailedCallIsLast
<1> QED BY <1>2, <1>4, <1>5, <1>6, <1>8, <1>9, <1>10, <1>12 DEF StreamInv

LEMMA StreamNextInv ==
    ASSUME StreamInv, [StreamNext]_allVars
    PROVE  StreamInv'
<1> USE DEF StreamInv
<1>1. Manager' BY ManagerStep
<1>2. StreamTypeOK' BY <1>1, StreamTypeStep
<1>3. Placed' BY PlacedStep
<1>4. QueueIsRest' /\ BatchIsRest' BY <1>1, <1>2, RestStep
<1>5. GivenSoFar' BY <1>1, <1>2, <1>4, GivenSoFarStep
<1>6. FlowCallsInOrder' BY <1>1, <1>2, FlowOrderStep
<1>7. ReportedSoFar' BY <1>2, ReportedStep
<1>8. PacketCallsInOrder' BY <1>2, PacketOrderStep
<1>9. FailureKnown' /\ FailedCallIsLast' BY <1>2, FailureKnownStep
<1> QED BY <1>1, <1>2, <1>3, <1>4, <1>5, <1>6, <1>7, <1>8, <1>9

(* Whatever raises, the stream keeps its invariant.                          *)
THEOREM StreamInvariant == StreamSpec => []StreamInv
<1>1. StreamInv /\ [StreamNext]_allVars => StreamInv' BY StreamNextInv
<1> QED BY <1>1, StreamInitInv, PTL DEF StreamSpec

(* Without a failure all windows not in the queue are given in full, and so  *)
(* are all packets once the stream asks for the next one.                    *)
LEMMA NothingOwed ==
    ASSUME StreamInv, ~DeliveryFailed, pc \in {"next", "done"}
    PROVE  AllGiven /\ AllReported
<1> USE DEF StreamInv
<1>1. queue = <<>> BY DEF Placed
<1>2. Len(emitted) \in Nat /\ DOMAIN emitted = 1 .. Len(emitted)
  BY DEF Manager, IInv, TypeOK
<1>3. Len(queue) = 0 BY <1>1
<1>4. Handled = Len(emitted) BY <1>2, <1>3 DEF Handled
<1>5. \A k \in DOMAIN emitted : \A n : PastGiven(k, n) BY <1>2, <1>4 DEF PastGiven
<1>6. AllGiven BY <1>5 DEF GivenSoFar, AllGiven
<1>7. ~packetDeliveryFailed /\ pc \notin Unsaid BY DEF DeliveryFailed, Unsaid
<1>8. AllReported BY <1>7 DEF ReportedSoFar, AllReported, Called
<1> QED BY <1>6, <1>8

(* Findings are delivered in order, at most once, without a gap, and never   *)
(* after a consumer raised.                                                  *)
THEOREM Delivery == StreamSpec => []DeliveredInOrder
<1>1. StreamInv => DeliveredInOrder BY DEF StreamInv, DeliveredInOrder
<1> QED BY <1>1, StreamInvariant, PTL

(* Nothing is undelivered when the source is asked for a packet.             *)
THEOREM NothingPending == StreamSpec => []Backpressure
<1>1. ASSUME StreamInv PROVE Backpressure
  <2> SUFFICES ASSUME pc = "next" PROVE AllGiven /\ AllReported /\ error = "none"
    BY DEF Backpressure
  <2>1. error = "none" /\ ~DeliveryFailed BY <1>1 DEF StreamInv, Placed, Failing, DeliveryFailed
  <2> QED BY <1>1, <2>1, NothingOwed
<1> QED BY <1>1, StreamInvariant, PTL

(* The end of the stream, whatever raised on the way: one stop, an ended     *)
(* session, no open window, and everything delivered unless a delivery       *)
(* failed.                                                                   *)
THEOREM EndOfStream == StreamSpec => []EverythingDelivered
<1>1. ASSUME StreamInv PROVE EverythingDelivered
  <2> SUFFICES ASSUME pc = "done"
               PROVE  /\ stops = 1 /\ ended /\ DOMAIN active = {}
                      /\ ~DeliveryFailed => AllGiven /\ AllReported
                      /\ error = "none" => \A i \in DOMAIN calls : calls[i].returned
    BY DEF EverythingDelivered
  <2> USE <1>1
  <2>1. ended /\ stops = 1 BY DEF StreamInv, Placed
  <2>2. DOMAIN active = {} BY <2>1 DEF StreamInv, Manager, EndOfSession
  <2>3. ~DeliveryFailed => AllGiven /\ AllReported BY NothingOwed
  <2>4. error = "none" => ~DeliveryFailed BY DEF StreamInv, Placed, Failing, DeliveryFailed
  <2>5. error = "none" => \A i \in DOMAIN calls : calls[i].returned
    BY <2>4, Zenon DEF StreamInv, FailureKnown
  <2> QED BY <2>1, <2>2, <2>3, <2>5
<1> QED BY <1>1, StreamInvariant, PTL

(* While a packet is unreported no flow consumer is called.                  *)
THEOREM PacketsFirst == StreamSpec => NoFlowBeforePacket
<1>1. ASSUME StreamInv, StreamInv', [StreamNext]_allVars, Unreported, calls' # calls
      PROVE  calls'[Len(calls')].consumer = "packet"
  <2> USE <1>1
  <2>0. Manager /\ StreamTypeOK /\ StreamTypeOK' /\ Placed /\ QueueIsRest /\ BatchIsRest
        /\ FailureKnown /\ ReportedSoFar
    BY DEF StreamInv
  <2>1. CASE Silent BY <2>1 DEF Silent
  <2>2. CASE PacketCall
    <3>1. PICK returned \in BOOLEAN : LogCall("packet", taken, "integrity", returned)
      BY <2>2 DEF PacketCall
    <3>2. Len(calls') = Len(calls) + 1 /\ calls'[Len(calls) + 1].consumer = "packet"
      BY <2>0, <3>1, AppendedCall
    <3> QED BY <3>2
  <2>3. CASE FlowCall
    <3>1. ~DeliveryFailed /\ pc = "flowCall" BY <2>0, <2>3, NextFinding DEF FlowCall
    <3>2. \A p \in 1 .. taken : Called(p)
      BY <2>0, <3>1 DEF ReportedSoFar, Unsaid, DeliveryFailed
    <3>3. \A i \in DOMAIN calls : calls[i].returned BY <2>0, <3>1, Zenon DEF FailureKnown
    <3>4. PacketCalls \subseteq DOMAIN calls BY DEF PacketCalls
    <3>5. PICK p \in 1 .. taken : \A i \in PacketCalls : calls[i].subject = p => ~calls[i].returned
      BY Zenon DEF Unreported
    <3>6. PICK i \in PacketCalls : calls[i].subject = p BY <3>2 DEF Called
    <3> QED BY <3>3, <3>4, <3>5, <3>6, Zenon
  <2> QED BY <2>1, <2>2, <2>3, CallSteps
<1>2. StreamInv /\ StreamInv' /\ [StreamNext]_allVars
        => [Unreported /\ calls' # calls => calls'[Len(calls')].consumer = "packet"]_allVars
  BY <1>1
<1> QED BY <1>2, StreamInvariant, PTL DEF StreamSpec, NoFlowBeforePacket
=============================================================================
