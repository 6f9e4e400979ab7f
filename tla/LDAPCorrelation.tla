---------------------------- MODULE LDAPCorrelation ----------------------------
(***************************************************************************)
(* An LDAP flow, from the segments of its two directions to requests with  *)
(* their responses: what flow_state_coordinator.py does with a packet of   *)
(* such a flow (update_ldap_stream_state, then                             *)
(* update_ldap_correlation_state of ldap_correlation.py), and the end of   *)
(* correlation when the window closes.                                     *)
(*                                                                         *)
(* The TCP stream is what TCPStream comes to: segments arrive in order, or *)
(* the stream is lost for good.  A message is known by its direction and   *)
(* its offset in it.                                                       *)
(***************************************************************************)
EXTENDS LDAPFraming, SequencesExt

CONSTANTS Conversations,    \* the bytes that each direction sends, as a set of choices
          Cuts,             \* the sizes of segments
          MaxPending        \* LDAP_MAX_PENDING_REQUESTS

Directions == {"forward", "reverse"}

Opposite(d) == IF d = "forward" THEN "reverse" ELSE "forward"

ASSUME PendingAssumption == MaxPending \in Nat \ {0}
ASSUME CutsAssumption == Cuts \subseteq Nat
ASSUME ConversationsAssumption == Conversations \subseteq [Directions -> Seq(Bytes)]

VARIABLES sent,          \* the bytes of each direction, chosen at the start
          streams,       \* the TCP stream of each direction
          framing,       \* LDAPStreamState: the framing of each direction, or None
          correlation,   \* LDAPCorrelationState, or None
          closed,        \* whether the window is closed
          log            \* history: every observation there was

vars == <<sent, streams, framing, correlation, closed, log>>

-----------------------------------------------------------------------------
(* Requests and observations.  An observation of a message has a status,   *)
(* the request it is about and that request's summary, where it has them.  *)

Observation(d, m, status, request, summary) ==
  [direction |-> d, message |-> m, status |-> status, request |-> request,
   summary |-> summary]

StartSummary(status) == [status |-> status, responses |-> 0]

Responded(summary, terminal) ==
  [status |-> IF terminal THEN "completed" ELSE "pending", responses |-> summary.responses + 1]

Summaries ==
  [status : {"pending", "completed", "ambiguous", "unresolved"}, responses : Nat]

Outcomes == {"pending", "matched", "unmatched", "ambiguous", "unresolved", "non_correlatable"}

Observations ==
  [direction : Directions, message : Messages, status : Outcomes,
   request : Messages \cup {None}, summary : Summaries \cup {None}]

Requests == {r \in Observations : r.summary \in Summaries}

Correlations ==
  [requests : SUBSET Requests, observations : Seq(Observations), matched : Nat, unmatched : Nat,
   ambiguous : Nat, non_correlatable : Nat,
   reason : {None, "limit exceeded", "stream unavailable"}, finalized : BOOLEAN]

ASSUME NoCorrelationAssumption ==
  None \notin {"limit exceeded", "stream unavailable"} /\ None \notin Correlations

Fresh == [requests |-> {}, observations |-> <<>>, matched |-> 0, unmatched |-> 0,
          ambiguous |-> 0, non_correlatable |-> 0, reason |-> None, finalized |-> FALSE]

\* The pending requests of a key: one at most.
Pending(c, d, id) == {r \in c.requests : r.direction = d /\ r.message.id = id}

MarkAmbiguous(r) == [r EXCEPT !.status = "ambiguous", !.summary.status = "ambiguous"]

Unresolved(r) ==
  IF r.status # "pending" THEN r
  ELSE [r EXCEPT !.status = "unresolved", !.summary.status = "unresolved"]

Observed(c, observation) == [c EXCEPT !.observations = Append(@, observation)]

\* A slip for a property to be seen to fail on; nothing uses it.
NonCorrelatableUnmarked(c, d, m) ==
  Observed([c EXCEPT !.non_correlatable = @ + 1], Observation(d, m, "non_correlatable", None, None))

\* A message that is not understood may still have repeated an identifier.
NonCorrelatable(c, d, m) ==
  LET repeated == IF c.reason = None /\ m.status = "unsupported" THEN Pending(c, d, m.id) ELSE {}
  IN Observed([c EXCEPT !.non_correlatable = @ + 1,
                        !.requests = (@ \ repeated) \cup {MarkAmbiguous(r) : r \in repeated}],
              Observation(d, m, "non_correlatable", None, None))

RequestUnavailable(c, d, m) ==
  Observed(c, Observation(d, m, "unresolved", m, StartSummary("unresolved")))

RequestRepeated(c, d, m) ==
  LET previous == CHOOSE r \in Pending(c, d, m.id) : TRUE
      marked == MarkAmbiguous(previous)
  IN Observed([c EXCEPT !.ambiguous = @ + 1,
                        !.requests = (@ \ {previous}) \cup {marked}],
              Observation(d, m, "ambiguous", previous.message, marked.summary))

RequestOverflows(c, d, m) ==
  Observed([c EXCEPT !.reason = "limit exceeded"],
           Observation(d, m, "unresolved", m, StartSummary("unresolved")))

RequestOutstanding(c, d, m) ==
  LET r == Observation(d, m, "pending", m, StartSummary("pending"))
  IN Observed([c EXCEPT !.requests = @ \cup {r}], r)

RequestObserved(c, d, m) ==
  IF c.reason # None THEN RequestUnavailable(c, d, m)
  ELSE IF Pending(c, d, m.id) # {} THEN RequestRepeated(c, d, m)
  ELSE IF Cardinality(c.requests) = MaxPending THEN RequestOverflows(c, d, m)
  ELSE RequestOutstanding(c, d, m)

ResponseUnmatched(c, d, m) ==
  Observed([c EXCEPT !.unmatched = @ + 1], Observation(d, m, "unmatched", None, None))

ResponseAmbiguous(c, d, m) ==
  Observed([c EXCEPT !.ambiguous = @ + 1], Observation(d, m, "ambiguous", None, None))

\* Only the last response to a request takes it out, and has its summary.
ResponseMatched(c, d, m, r) ==
  LET terminal == m.operation \notin SearchContinuations
      summary == Responded(r.summary, terminal)
  IN Observed([c EXCEPT !.matched = @ + 1,
                        !.requests = (@ \ {r}) \cup
                           (IF terminal THEN {} ELSE {[r EXCEPT !.summary = summary]})],
              Observation(d, m, "matched", r.message, IF terminal THEN summary ELSE None))

ResponseObserved(c, d, m) ==
  LET addressed == IF c.reason = None THEN Pending(c, Opposite(d), m.id) ELSE {}
      r == CHOOSE r \in addressed : TRUE
  IN IF addressed = {} THEN ResponseUnmatched(c, d, m)
     ELSE IF r.status = "ambiguous" THEN ResponseAmbiguous(c, d, m)
     ELSE IF r.message.operation # ResponseRequests[m.operation] THEN ResponseUnmatched(c, d, m)
     ELSE ResponseMatched(c, d, m, r)

Correlatable(m) ==
  /\ m.status = "complete" /\ m.id # 0
  /\ m.operation \in RequestOperations \cup DOMAIN ResponseRequests

Correlated(c, d, m) ==
  IF ~Correlatable(m) THEN NonCorrelatable(c, d, m)
  ELSE IF m.operation \in RequestOperations THEN RequestObserved(c, d, m)
  ELSE ResponseObserved(c, d, m)

-----------------------------------------------------------------------------
(* update_ldap_correlation_state                                           *)

Lost(s) == \E d \in Directions : ~s[d].contiguous

Framed(f) == {d \in Directions : f[d] # None}

\* Only the direction of the packet has messages (the code refuses others).
NewMessages(f) ==
  {<<d, f[d].messages>> : d \in {e \in Framed(f) : f[e].messages # <<>>}}

Unavailable(c, condition) ==
  IF c.reason = None /\ condition THEN [c EXCEPT !.reason = "stream unavailable"] ELSE c

Updated(current, f, s) ==
  LET c == IF current = None THEN Fresh ELSE [current EXCEPT !.observations = <<>>]
      start == Unavailable(c, Lost(s))
      counted == IF NewMessages(f) = {} THEN start
                 ELSE LET new == CHOOSE new \in NewMessages(f) : TRUE
                      IN FoldLeft(LAMBDA a, m : Correlated(a, new[1], m), start, new[2])
      ended == Unavailable(counted, \E d \in Framed(f) : f[d].status \in Failed)
  IN IF ended.reason = None THEN ended
     ELSE [ended EXCEPT !.requests = {Unresolved(r) : r \in @}]

\* finalize_ldap_correlation_state
Finalized(c) ==
  [c EXCEPT !.finalized = TRUE, !.requests = {Unresolved(r) : r \in @},
            !.observations = [i \in DOMAIN @ |-> Unresolved(@[i])]]

-----------------------------------------------------------------------------
Init ==
  /\ sent \in Conversations
  /\ streams = [d \in Directions |-> [payload |-> <<>>, consumed |-> 0, contiguous |-> TRUE]]
  /\ framing = [d \in Directions |-> None]
  /\ correlation = None
  /\ closed = FALSE
  /\ log = <<>>

\* The next bytes of a direction: the buffer takes MaxMessage unconsumed bytes.
Received(s, d, n) ==
  LET length == Len(s.payload)
  IN IF length - s.consumed + n > MaxMessage THEN [s EXCEPT !.contiguous = FALSE]
     ELSE [s EXCEPT !.payload = SubSeq(sent[d], 1, length + n)]

\* The coordinator's part of a packet that left the TCP streams as s.
Update(s) ==
  LET usable == /\ ~Lost(s)
                /\ \A d \in Framed(framing) : framing[d].status \notin Failed
  IN \E f \in {[d \in Directions |-> FrameDirection(framing[d], s[d])]} :
     \E c \in {IF Framed(f) = {} THEN None ELSE Updated(correlation, f, s)} :
       /\ framing' = f
       /\ streams' = [d \in Directions |-> IF f[d] = None THEN s[d] ELSE f[d].stream]
       /\ correlation' = c
       /\ log' = IF c = None THEN log
                 ELSE log \o [i \in DOMAIN c.observations |->
                                [observed |-> c.observations[i], usable |-> usable]]

Segment(d, n) ==
  /\ ~closed
  /\ streams[d].contiguous
  /\ Len(streams[d].payload) + n <= Len(sent[d])
  /\ Update([streams EXCEPT ![d] = Received(@, d, n)])
  /\ UNCHANGED <<sent, closed>>

\* A segment is missing, or overlaps what was received.
LoseStream(d) ==
  /\ ~closed
  /\ streams[d].contiguous
  /\ Update([streams EXCEPT ![d].contiguous = FALSE])
  /\ UNCHANGED <<sent, closed>>

\* The window closes: its correlation is seen as finalized.
Close ==
  /\ ~closed /\ correlation # None
  /\ correlation' = Finalized(correlation)
  /\ closed' = TRUE
  /\ UNCHANGED <<sent, streams, framing, log>>

Next ==
  \/ \E d \in Directions, n \in Cuts : Segment(d, n)
  \/ \E d \in Directions : LoseStream(d)
  \/ Close

Spec == Init /\ [][Next]_vars

-----------------------------------------------------------------------------
(* What is observed, said of the bytes alone.                              *)

MessagesOf(d) ==
  FoldLeft(LAMBDA messages, entry :
             IF entry.observed.direction = d THEN Append(messages, entry.observed.message)
             ELSE messages,
           <<>>, log)

\* Direction d is framed as the parsing of all its bytes at once would do it.
FramedAs(d, whole) ==
  /\ MessagesOf(d) = whole.messages
  /\ streams[d].consumed = whole.consumed
  /\ framing[d].complete = CountOf(whole.messages, "complete")
  /\ framing[d].status = IF streams[d].contiguous THEN PendingStatus(whole.pending)
                         ELSE "unavailable"

\* The messages and the status of a direction are those of its bytes, however
\* they were cut into segments: framing that waits, that reads a message again
\* or that ignores a direction without new bytes leaves no message out and
\* makes none twice, and one packet brings messages of one direction only,
\* which the correlation would otherwise refuse (ldap_stream_framing.py:60-120).
FramingOfBytes ==
  /\ \A d \in Directions :
       LET payload == streams[d].payload
       IN IF framing[d] = None
          THEN MessagesOf(d) = <<>> /\ (payload = <<>> \/ payload[1] # 48)
          ELSE FramedAs(d, Parsed(payload, 0))
  /\ Cardinality(NewMessages(framing)) <= 1

-----------------------------------------------------------------------------
(* What correlation comes to, said of the log of messages alone, without a *)
(* table of requests.                                                      *)

M(i) == log[i].observed.message
D(i) == log[i].observed.direction
Status(i) == log[i].observed.status

IsRequest(i) == Correlatable(M(i)) /\ M(i).operation \in RequestOperations
IsResponse(i) == Correlatable(M(i)) /\ ~IsRequest(i)

\* Message k is from the sender of request j and has its identifier.
Repeats(k, j) ==
  /\ D(k) = D(j) /\ M(k).id = M(j).id
  /\ IsRequest(k) \/ M(k).status = "unsupported"

Addresses(k, j) == IsResponse(k) /\ D(k) # D(j) /\ M(k).id = M(j).id

Fits(k, j) == Addresses(k, j) /\ ResponseRequests[M(k).operation] = M(j).operation

Names(k, j) == Status(k) = "matched" /\ D(k) # D(j) /\ log[k].observed.request = M(j)

\* Before message i the streams were whole and no request was one too many.
Usable(i) ==
  /\ i \in DOMAIN log => log[i].usable
  /\ \A k \in 1..(i - 1) : IsRequest(k) /\ log[k].usable => Status(k) # "unresolved"

\* The requests that wait for a response when message i comes.
Open(i) ==
  {j \in 1..(i - 1) :
     /\ Status(j) = "pending"
     /\ \A k \in (j + 1)..(i - 1) : Names(k, j) => M(k).operation \in SearchContinuations}

\* Nobody can tell any more which request a response to j would be about.
Tainted(j, i) == \E k \in (j + 1)..(i - 1) : Usable(k) /\ Repeats(k, j)

RequestOutcome(i) ==
  LET same == {j \in Open(i) : Repeats(i, j)}
  IN CASE ~Usable(i) -> "unresolved"
       [] Usable(i) /\ same # {} -> "ambiguous"
       [] Usable(i) /\ same = {} /\ Cardinality(Open(i)) < MaxPending -> "pending"
       [] OTHER -> "unresolved"

ResponseOutcome(i) ==
  CASE Usable(i) /\ \E j \in Open(i) : Addresses(i, j) /\ Tainted(j, i) -> "ambiguous"
    [] Usable(i) /\ \E j \in Open(i) : Fits(i, j) /\ ~Tainted(j, i) -> "matched"
    [] OTHER -> "unmatched"

\* Every message has the outcome that the exchange implies: a response is
\* matched if and only if one request of the other side with its identifier
\* is open, asks for this kind of response and was never repeated; and a match
\* names that request.
OutcomesOfExchange ==
  \A i \in DOMAIN log :
    /\ Status(i) = CASE IsRequest(i) -> RequestOutcome(i)
                     [] IsResponse(i) -> ResponseOutcome(i)
                     [] OTHER -> "non_correlatable"
    /\ Status(i) = "matched" =>
         \E j \in Open(i) : Fits(i, j) /\ log[i].observed.request = M(j)

\* The counters are those of the log, and the table holds the requests still
\* open, each with the responses that it has had: none of them is pending once
\* correlation was given up or the window is closed.
AccountsOfExchange ==
  correlation # None =>
    LET Counted(status) == Cardinality({i \in DOMAIN log : Status(i) = status})
        end == Len(log) + 1
        Left(j) == IF Tainted(j, end) THEN "ambiguous"
                   ELSE IF correlation.reason # None \/ closed THEN "unresolved" ELSE "pending"
    IN /\ correlation.matched = Counted("matched")
       /\ correlation.unmatched = Counted("unmatched")
       /\ correlation.ambiguous = Counted("ambiguous")
       /\ correlation.non_correlatable = Counted("non_correlatable")
       /\ {<<r.direction, r.message, r.status, r.summary>> : r \in correlation.requests}
            = {<<D(j), M(j), Left(j),
                 [status |-> Left(j), responses |-> Cardinality({k \in DOMAIN log : Names(k, j)})]>>
               : j \in Open(end)}
       /\ (correlation.reason # None)
            <=> (~Usable(end) \/ Lost(streams)
                   \/ \E d \in Framed(framing) : framing[d].status \in Failed)

\* The correlation of an LDAP flow is that of its exchange of messages
\* (ldap_correlation.py:112-217).
CorrelationOfExchange == OutcomesOfExchange /\ AccountsOfExchange
=============================================================================
