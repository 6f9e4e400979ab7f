----------------------------- MODULE FlowWindows -----------------------------
(***************************************************************************)
(* FlowObservationWindowManager of analysis/flow_observation_window.py: it *)
(* groups the packets of a flow into observation windows, closes a window  *)
(* after inactivity, on demand, when the table is full and at the end of   *)
(* the capture session, and numbers the windows of the session.            *)
(*                                                                         *)
(* A call of record() is two steps here: a Prepare action that runs the    *)
(* part of the call that can raise (the coordinator's accumulators, the    *)
(* window and update constructors), and a Publish action that runs the     *)
(* assignments after it.  FailRecord is the exception between the two.     *)
(*                                                                         *)
(* What a window accumulates is reduced to the packet count, the first and *)
(* the last capture time and the longest gap between consecutive packets.  *)
(***************************************************************************)
EXTENDS Integers, Sequences, FiniteSets

CONSTANTS Flows,          \* the FlowIdentity values
          Times,          \* capture timestamps
          Timeout,        \* inactivity_timeout
          MaxActive,      \* max_active_windows
          MaxAdmissions   \* bound: packets one session accepts

ASSUME TimesAssumption == Times \subseteq Nat
ASSUME TimeoutAssumption == Timeout \in Nat \ {0}
ASSUME MaxActiveAssumption == MaxActive \in Nat \ {0}
ASSUME MaxAdmissionsAssumption == MaxAdmissions \in Nat

NoTime == -1              \* _latest_accepted_capture_time is None

VARIABLES active,    \* _active: flow -> key number and coordinator state
          nextSeq,   \* _next_sequence_number
          latest,    \* _latest_accepted_capture_time
          ended,     \* _ended
          inFlight,  \* what the record() call in progress is about to publish
          result,    \* how the last call of the manager ended
          emitted,   \* history: every closed window handed out, in order
          log        \* history: every accepted packet and its window

managerVars == <<active, nextSeq, latest, ended>>
historyVars == <<emitted, log>>
vars == <<managerVars, inFlight, result, historyVars>>

Reasons == {"INACTIVITY", "CAPTURE_SESSION_END", "EXPLICIT_SEGMENTATION", "CAPACITY"}

Statistics == [count : Nat \ {0}, first : Times, last : Times, maxGap : Nat]
Entries == [seq : Nat, stats : Statistics]
Windows == [flow : Flows, seq : Nat, stats : Statistics, reason : Reasons]
Candidates == [flow : Flows, time : Times, fresh : BOOLEAN, seq : Nat,
               stats : Statistics, closed : Seq(Windows)]
Admissions == [flow : Flows, time : Times, seq : Nat]

TypeOK ==
    /\ DOMAIN active \subseteq Flows
    /\ active \in [DOMAIN active -> Entries]
    /\ nextSeq \in Nat
    /\ latest \in Times \cup {NoTime}
    /\ ended \in BOOLEAN
    /\ inFlight \subseteq Candidates
    /\ result \in {"none", "returned", "raised"}
    /\ emitted \in Seq(Windows)
    /\ log \in Seq(Admissions)

-----------------------------------------------------------------------------
(* Definitions named after a slip (StartUncounted and the like) are never     *)
(* used by the model: they stand for what the definition after them might     *)
(* have been, so that each property can be seen to fail on one of them.       *)
StartUncounted(t) == [count |-> 0, first |-> t, last |-> t, maxGap |-> 0]

(* The coordinator's accumulators, for the first packet and for a later one. *)
StartStatistics(t) == [count |-> 1, first |-> t, last |-> t, maxGap |-> 0]

UpdateFromFirst(s, t) ==
    [s EXCEPT !.count = @ + 1,
              !.last = t,
              !.maxGap = IF t - s.first > @ THEN t - s.first ELSE @]

UpdateStatistics(s, t) ==
    [s EXCEPT !.count = @ + 1,
              !.last = t,
              !.maxGap = IF t - s.last > @ THEN t - s.last ELSE @]

ClosedWindow(f, r) == [flow |-> f, seq |-> active[f].seq,
                       stats |-> active[f].stats, reason |-> r]

NotCreatedAfter(f, g) == active[f].seq <= active[g].seq

(* The key min() compares: last capture time, then sequence number. *)
NotYounger(f, g) ==
    \/ active[f].stats.last < active[g].stats.last
    \/ /\ active[f].stats.last = active[g].stats.last
       /\ active[f].seq <= active[g].seq

CapacityVictims == {f \in DOMAIN active : \A g \in DOMAIN active : NotYounger(f, g)}

Idle == inFlight = {}

RefusedOnlyWhenEnded(t) == ended

(* The checks of record() before it looks the flow up. *)
Refused(t) == ended \/ t < latest
CanRecord(t) == Idle /\ ~Refused(t) /\ Len(log) < MaxAdmissions

ExpiredStrictly(f, t) == t - active[f].stats.last > Timeout
ExpiredEarly(f, t) == t - active[f].stats.last >= Timeout - 1

Expired(f, t) == t - active[f].stats.last >= Timeout

-----------------------------------------------------------------------------
Init ==
    /\ active = [f \in {} |-> [seq |-> 0, stats |-> StartStatistics(0)]]
    /\ nextSeq = 0
    /\ latest = NoTime
    /\ ended = FALSE
    /\ inFlight = {}
    /\ result = "none"
    /\ emitted = <<>>
    /\ log = <<>>

Prepare(c) ==
    /\ inFlight' = {c}
    /\ result' = "none"
    /\ UNCHANGED <<managerVars, historyVars>>

(* _record_new up to its first assignment: a fresh coordinator and key. *)
PrepareNewWindow(f, t, closed) ==
    Prepare([flow |-> f, time |-> t, fresh |-> TRUE, seq |-> nextSeq,
             stats |-> StartStatistics(t), closed |-> closed])

PrepareContinue(f, t) ==
    /\ CanRecord(t)
    /\ f \in DOMAIN active
    /\ ~Expired(f, t)
    /\ Prepare([flow |-> f, time |-> t, fresh |-> FALSE, seq |-> active[f].seq,
                stats |-> UpdateStatistics(active[f].stats, t), closed |-> <<>>])

PrepareAfterInactivity(f, t) ==
    /\ CanRecord(t)
    /\ f \in DOMAIN active
    /\ Expired(f, t)
    /\ PrepareNewWindow(f, t, <<ClosedWindow(f, "INACTIVITY")>>)

PrepareUnseenOneMore(f, t) ==
    /\ CanRecord(t)
    /\ f \notin DOMAIN active
    /\ Cardinality(DOMAIN active) # MaxActive + 1
    /\ PrepareNewWindow(f, t, <<>>)

PrepareUnseen(f, t) ==
    /\ CanRecord(t)
    /\ f \notin DOMAIN active
    /\ Cardinality(DOMAIN active) # MaxActive
    /\ PrepareNewWindow(f, t, <<>>)

PrepareAtCapacity(f, t) ==
    /\ CanRecord(t)
    /\ f \notin DOMAIN active
    /\ Cardinality(DOMAIN active) = MaxActive
    /\ \E v \in CapacityVictims :
           PrepareNewWindow(f, t, <<ClosedWindow(v, "CAPACITY")>>)

FailRecordWithoutVictim ==
    /\ ~Idle
    /\ \E c \in inFlight :
           active' = [g \in DOMAIN active \ {c.closed[i].flow : i \in DOMAIN c.closed} |-> active[g]]
    /\ inFlight' = {}
    /\ result' = "raised"
    /\ UNCHANGED <<nextSeq, latest, ended, historyVars>>

(* An accumulator or a constructor raised: nothing was assigned yet. *)
FailRecord ==
    /\ ~Idle
    /\ inFlight' = {}
    /\ result' = "raised"
    /\ UNCHANGED <<managerVars, historyVars>>

(* record() of an ended session, or of a packet older than the frontier. *)
RefuseRecord(t) ==
    /\ Idle
    /\ Refused(t)
    /\ result' = "raised"
    /\ UNCHANGED <<managerVars, inFlight, historyVars>>

ReturnWithoutClosed(c) ==
    /\ latest' = c.time
    /\ emitted' = emitted
    /\ log' = Append(log, [flow |-> c.flow, time |-> c.time, seq |-> c.seq])
    /\ inFlight' = {}
    /\ result' = "returned"
    /\ UNCHANGED ended

Return(c) ==
    /\ latest' = c.time
    /\ emitted' = emitted \o c.closed
    /\ log' = Append(log, [flow |-> c.flow, time |-> c.time, seq |-> c.seq])
    /\ inFlight' = {}
    /\ result' = "returned"
    /\ UNCHANGED ended

PublishedBesideVictim(c) ==
    [g \in DOMAIN active \cup {c.flow} |->
        IF g = c.flow THEN [seq |-> c.seq, stats |-> c.stats] ELSE active[g]]

(* The active table once the windows of c are out and that of its flow is in. *)
Published(c) ==
    [g \in (DOMAIN active \ {c.closed[i].flow : i \in DOMAIN c.closed}) \cup {c.flow} |->
        IF g = c.flow THEN [seq |-> c.seq, stats |-> c.stats] ELSE active[g]]

PublishContinue ==
    \E c \in inFlight :
        /\ ~c.fresh
        /\ active' = [active EXCEPT ![c.flow].stats = c.stats]
        /\ UNCHANGED nextSeq
        /\ Return(c)

PublishNew ==
    \E c \in inFlight :
        /\ c.fresh
        /\ active' = Published(c)
        /\ nextSeq' = nextSeq + 1
        /\ Return(c)

-----------------------------------------------------------------------------
WithoutFlow(f) == [g \in DOMAIN active \ {f} |-> active[g]]

Close(f) ==
    /\ Idle
    /\ ~ended
    /\ f \in DOMAIN active
    /\ emitted' = Append(emitted, ClosedWindow(f, "EXPLICIT_SEGMENTATION"))
    /\ active' = WithoutFlow(f)
    /\ result' = "returned"
    /\ UNCHANGED <<nextSeq, latest, ended, inFlight, log>>

RefuseClose(f) ==
    /\ Idle
    /\ ended \/ f \notin DOMAIN active
    /\ result' = "raised"
    /\ UNCHANGED <<managerVars, inFlight, historyVars>>

(* sorted(self._active.values(), key=sequence_number) as closed windows. *)
ClosingOrders ==
    {order \in [1 .. Cardinality(DOMAIN active) -> DOMAIN active] :
        /\ \A f \in DOMAIN active : \E i \in DOMAIN order : order[i] = f
        /\ \A i, j \in DOMAIN order : i < j => active[order[i]].seq < active[order[j]].seq}

EndSessionKeepingTable ==
    /\ Idle
    /\ ~ended
    /\ \E order \in ClosingOrders :
           emitted' = emitted \o [i \in DOMAIN order |->
                                     ClosedWindow(order[i], "CAPTURE_SESSION_END")]
    /\ ended' = TRUE
    /\ result' = "returned"
    /\ UNCHANGED <<active, nextSeq, latest, inFlight, log>>

EndSession ==
    /\ Idle
    /\ ~ended
    /\ \E order \in ClosingOrders :
           emitted' = emitted \o [i \in DOMAIN order |->
                                     ClosedWindow(order[i], "CAPTURE_SESSION_END")]
    /\ active' = [f \in {} |-> active[f]]
    /\ ended' = TRUE
    /\ result' = "returned"
    /\ UNCHANGED <<nextSeq, latest, inFlight, log>>

(* Every later end_capture_session() returns the empty tuple. *)
EndAgain ==
    /\ Idle
    /\ ended
    /\ result' = "returned"
    /\ UNCHANGED <<managerVars, inFlight, historyVars>>

Record(f, t) ==
    \/ PrepareContinue(f, t)
    \/ PrepareAfterInactivity(f, t)
    \/ PrepareUnseen(f, t)
    \/ PrepareAtCapacity(f, t)

Next ==
    \/ \E f \in Flows, t \in Times : Record(f, t)
    \/ \E t \in Times : RefuseRecord(t)
    \/ FailRecord
    \/ PublishContinue
    \/ PublishNew
    \/ \E f \in Flows : Close(f) \/ RefuseClose(f)
    \/ EndSession
    \/ EndAgain

Spec == Init /\ [][Next]_vars

-----------------------------------------------------------------------------
(* A view of every window of the session, open or handed out. *)
ActiveWindows == {[flow |-> f, seq |-> active[f].seq, stats |-> active[f].stats,
                   reason |-> "none"] : f \in DOMAIN active}
EmittedWindows == {emitted[i] : i \in DOMAIN emitted}
AllWindows == ActiveWindows \cup EmittedWindows

(* The table never holds more windows than max_active_windows: the eviction  *)
(* of record() makes room before the new window goes in.                     *)
WithinCapacity == Cardinality(DOMAIN active) <= MaxActive

(* Every number the session consumed names one window, open or handed out    *)
(* once: a refused or failed record() consumes none, a closed window is      *)
(* neither lost nor returned a second time.                                  *)
KeysAreWindows ==
    /\ \A f \in DOMAIN active : active[f].seq < nextSeq
    /\ \A i \in DOMAIN emitted : emitted[i].seq < nextSeq
    /\ \A f, g \in DOMAIN active : active[f].seq = active[g].seq => f = g
    /\ \A i, j \in DOMAIN emitted : emitted[i].seq = emitted[j].seq => i = j
    /\ \A f \in DOMAIN active, i \in DOMAIN emitted : active[f].seq # emitted[i].seq
    /\ \A s \in 0 .. nextSeq - 1 :
           \/ \E f \in DOMAIN active : active[f].seq = s
           \/ \E i \in DOMAIN emitted : emitted[i].seq = s

(* The statistics a window carries are those of exactly the accepted packets *)
(* filed under its number, all of its flow: no packet is lost, counted twice *)
(* or counted in a neighbouring window.                                      *)
PacketsOf(s) == {i \in DOMAIN log : log[i].seq = s}

Neighbours(s) == {p \in PacketsOf(s) \X PacketsOf(s) :
                     /\ p[1] < p[2]
                     /\ \A k \in PacketsOf(s) : k <= p[1] \/ k >= p[2]}

Gaps(s) == {log[p[2]].time - log[p[1]].time : p \in Neighbours(s)}

Accounts(w) ==
    /\ w.stats.count = Cardinality(PacketsOf(w.seq))
    /\ \A i \in PacketsOf(w.seq) :
           /\ log[i].flow = w.flow
           /\ w.stats.first <= log[i].time
           /\ log[i].time <= w.stats.last
    /\ \E i, j \in PacketsOf(w.seq) :
           log[i].time = w.stats.first /\ log[j].time = w.stats.last
    /\ \A d \in Gaps(w.seq) : d <= w.stats.maxGap
    /\ w.stats.maxGap = 0 \/ w.stats.maxGap \in Gaps(w.seq)

WindowAccounting ==
    /\ \A w \in AllWindows : Accounts(w)
    /\ \A i \in DOMAIN log : \E w \in AllWindows : w.seq = log[i].seq

(* A gap as long as the timeout separates windows and never lies inside one. *)
GapsBelowTimeout == \A w \in AllWindows : w.stats.maxGap < Timeout

(* The windows of a flow follow one another: a later window starts after all *)
(* packets of an earlier one, and a window closed for inactivity is followed *)
(* by one that starts a whole timeout later.                                 *)
Successor(v, w) ==
    /\ w.flow = v.flow
    /\ w.seq > v.seq
    /\ \A u \in AllWindows : u.flow = v.flow => u.seq <= v.seq \/ u.seq >= w.seq

WindowsOfFlowFollow ==
    /\ \A v, w \in AllWindows :
           v.flow = w.flow /\ v.seq < w.seq => v.stats.last <= w.stats.first
    /\ \A v \in EmittedWindows : v.reason = "INACTIVITY" =>
           \E w \in AllWindows : Successor(v, w) /\ w.stats.first - v.stats.last >= Timeout

(* The frontier is the time of the last accepted packet, so that no packet   *)
(* whose record() raised has others refused, and no window, open or closed,  *)
(* knows of a packet past it, so that the check against it is enough to keep *)
(* the accumulators' time from running backwards.                            *)
FrontierDominates ==
    /\ latest = IF log = <<>> THEN NoTime ELSE log[Len(log)].time
    /\ \A w \in AllWindows : w.stats.last <= latest
    /\ \A i, j \in DOMAIN log : i < j => log[i].time <= log[j].time

(* An ended session has no window left, and the windows it closed at its end *)
(* are the last ones handed out, in the order of their creation.             *)
EndClosings == {i \in DOMAIN emitted : emitted[i].reason = "CAPTURE_SESSION_END"}

EndOfSession ==
    /\ ended => DOMAIN active = {}
    /\ EndClosings # {} => ended
    /\ \A i \in EndClosings, j \in DOMAIN emitted :
           i < j => j \in EndClosings /\ emitted[i].seq < emitted[j].seq

(* Where an accepted packet is filed follows from the packets accepted and   *)
(* the windows handed out before it, and from nothing else: it joins the     *)
(* window of the last accepted packet of its flow, if that window was not    *)
(* handed out and the timeout has not run out, and starts the window with    *)
(* the next number if not, the earlier window being handed out by then.  So  *)
(* a record() that raised has no say, whether it had chosen a victim and     *)
(* built its closed window, or run the accumulators of an open one           *)
(* (flow_observation_window.py:292-331, 376-396).                            *)
LastAccepted(f) ==
    {i \in DOMAIN log : log[i].flow = f /\ \A j \in DOMAIN log : log[j].flow = f => j <= i}

HandedOut(s) == \E k \in DOMAIN emitted : emitted[k].seq = s

Joins(p) ==
    {i \in LastAccepted(p.flow) : ~HandedOut(log[i].seq) /\ p.time - log[i].time < Timeout}

FiledNow ==
    \A n \in DOMAIN log' \ DOMAIN log :
        LET p == log'[n]
        IN /\ \A i \in Joins(p) : p.seq = log[i].seq
           /\ Joins(p) = {} => p.seq = Cardinality({log[i].seq : i \in DOMAIN log})
           /\ \A i \in LastAccepted(p.flow) \ Joins(p) :
                  \E k \in DOMAIN emitted' : emitted'[k].seq = log[i].seq

FiledByHistory == [][FiledNow]_vars

(* The window given up for capacity is, among those still open when the new  *)
(* one is published, the least recently updated (the older one if tied), and *)
(* the table was full.                                                       *)
EvictsLeastRecent ==
    [][\A i \in DOMAIN emitted' :
          i > Len(emitted) /\ emitted'[i].reason = "CAPACITY" =>
              /\ Cardinality(DOMAIN active) = MaxActive
              /\ \A f \in DOMAIN active :
                    \/ emitted'[i].stats.last < active[f].stats.last
                    \/ /\ emitted'[i].stats.last = active[f].stats.last
                       /\ emitted'[i].seq <= active[f].seq]_vars
=============================================================================
