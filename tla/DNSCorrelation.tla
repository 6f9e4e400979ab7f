--------------------------- MODULE DNSCorrelation ---------------------------
(***************************************************************************)
(* The DNS transactions of one observation window: dns_correlation.py, the *)
(* fold of its observations into DNSTransactionStatistics by the           *)
(* coordinator, and the finalization in FlowObservationWindow.             *)
(*                                                                         *)
(* A packet carries the DNS messages its payload completed, all of its own *)
(* direction.  The coordinator works on a candidate, message by message,   *)
(* and commits it after the last one; an exception drops the candidate.    *)
(*                                                                         *)
(* A message is its identifier, its role and its content (operation code   *)
(* and questions, all that must agree between request and response).  No   *)
(* state (None) is the state without requests and observations.            *)
(***************************************************************************)
EXTENDS Integers, Sequences, FiniteSets

CONSTANTS Directions,      \* FORWARD and REVERSE
          TransactionIds,  \* transaction identifiers
          Contents,        \* what a response must repeat of its request
          MaxPending,      \* DNS_MAX_PENDING_REQUESTS
          MaxFrames,       \* bound: messages one packet completes (1 for UDP)
          MaxMessages      \* bound: complete messages of a window

ASSUME DirectionsAssumption == \E a, b \in Directions : a # b /\ Directions = {a, b}
ASSUME MaxPendingAssumption == MaxPending \in Nat \ {0}
ASSUME BoundsAssumption == MaxFrames \in Nat /\ MaxMessages \in Nat

VARIABLES state,      \* dns_correlation_state and dns_transaction_statistics
          candidate,  \* the state a packet is being folded into, if any
          arriving,   \* messages of that packet still to be folded
          closed      \* the window is closed, its correlation finalized

dnsVars == <<state, candidate, arriving, closed>>

Messages == [direction : Directions, id : TransactionIds, response : BOOLEAN,
             content : Contents]
Terminal == {"MATCHED", "UNMATCHED", "AMBIGUOUS", "UNRESOLVED"}
Observations == [message : Nat \ {0}, request : Nat,
                 status : Terminal \cup {"PENDING"},
                 reason : {"none", "LIMIT_EXCEEDED", "FLOW_CLOSED"}]
Counters == Terminal \cup {"messages"}
States == [requests : Seq(Observations), observations : Seq(Observations),
           unavailable : BOOLEAN, stats : [Counters -> Nat],
           seen : Seq(Messages)]     \* history: the complete messages, in order

TypeOK ==
    /\ state \in States
    /\ candidate \subseteq States
    /\ arriving \in Seq(SUBSET Messages)
    /\ closed \in BOOLEAN

-----------------------------------------------------------------------------
Opposite(d) == CHOOSE e \in Directions : e # d

(* KeyOfSender and the other definitions named after a slip are never used   *)
(* by the model: they stand for what the definition after them might have    *)
(* been, so that each property can be seen to fail on one of them.           *)
KeyOfSender(m) == <<m.direction, m.id>>

(* The pending key of a request, and the one a response looks up.            *)
Key(m) == <<IF m.response THEN Opposite(m.direction) ELSE m.direction, m.id>>

(* The position of the pending entry for the key of m, if there is one.      *)
Held(d, m) == {i \in DOMAIN d.requests : Key(d.seen[d.requests[i].message]) = Key(m)}

Without(s, i) == [j \in 1 .. Len(s) - 1 |-> IF j < i THEN s[j] ELSE s[j + 1]]

(* _status(observation, status, reason).                                     *)
WithStatus(o, status, reason) ==
    [message |-> o.message, request |-> o.request, status |-> status, reason |-> reason]

Marked(s, status, reason) == [i \in DOMAIN s |-> WithStatus(s[i], status, reason)]

Counted(observations) == {i \in DOMAIN observations : observations[i].status # "PENDING"}

(* update_dns_transaction_statistics over a batch: a match stands for its    *)
(* request and its response, any other observation for its own message.      *)
Folded(stats, observations) ==
    [c \in Counters |->
        IF c = "messages"
        THEN stats[c] + Cardinality(Counted(observations))
                      + Cardinality({i \in DOMAIN observations :
                                         observations[i].status = "MATCHED"})
        ELSE stats[c] + Cardinality({i \in DOMAIN observations : observations[i].status = c})]

Observation(d, status, request, reason) ==
    [message |-> Len(d.seen) + 1, request |-> request, status |-> status, reason |-> reason]

Reason(d) == IF d.unavailable THEN "LIMIT_EXCEEDED" ELSE "none"

(* The candidate after the complete message m.                               *)
Update(d, m, requests, observations, unavailable) ==
    candidate' = {[requests |-> requests, observations |-> observations,
                   unavailable |-> unavailable,
                   stats |-> Folded(d.stats, observations), seen |-> Append(d.seen, m)]}

-----------------------------------------------------------------------------
InitState == [requests |-> <<>>, observations |-> <<>>, unavailable |-> FALSE,
              stats |-> [c \in Counters |-> 0], seen |-> <<>>]

DNSInit ==
    /\ state = InitState
    /\ candidate = {}
    /\ arriving = <<>>
    /\ closed = FALSE

Idle == candidate = {}

Frames(d) == {{}} \cup {{m} : m \in {n \in Messages : n.direction = d}}

(* The coordinator starts on a packet; {} stands for a message that is not   *)
(* complete and for a DNS packet without one.                                *)
Packet(frames) ==
    /\ Idle
    /\ ~closed
    /\ Len(state.seen) + Len(frames) <= MaxMessages
    /\ candidate' = {state}
    /\ arriving' = frames
    /\ UNCHANGED <<state, closed>>

(* The next message of the packet, m, meets the candidate d.                 *)
Meets(d, m) ==
    /\ arriving # <<>>
    /\ d \in candidate
    /\ m \in Head(arriving)
    /\ arriving' = Tail(arriving)
    /\ UNCHANGED <<state, closed>>

NotComplete ==
    /\ arriving # <<>>
    /\ Head(arriving) = {}
    /\ arriving' = Tail(arriving)
    /\ candidate' = {[d EXCEPT !.observations = <<>>] : d \in candidate}
    /\ UNCHANGED <<state, closed>>

RequestUnavailable(d, m) ==
    /\ Meets(d, m)
    /\ ~m.response
    /\ d.unavailable
    /\ Update(d, m, d.requests,
              <<Observation(d, "UNRESOLVED", Len(d.seen) + 1, "LIMIT_EXCEEDED")>>, TRUE)

(* The entry stays, as a mark that its identifier cannot be told apart.      *)
RequestRepeated(d, m) ==
    /\ Meets(d, m)
    /\ ~m.response
    /\ ~d.unavailable
    /\ \E i \in Held(d, m) :
           Update(d, m, [d.requests EXCEPT ![i] = WithStatus(@, "AMBIGUOUS", "none")],
                  <<Observation(d, "AMBIGUOUS", d.requests[i].request, "none")>>, FALSE)

RequestOverflowsKeeping(d, m) ==
    /\ Meets(d, m)
    /\ ~m.response
    /\ ~d.unavailable
    /\ Held(d, m) = {}
    /\ Len(d.requests) = MaxPending
    /\ Update(d, m, d.requests,
              Append(Marked(d.requests, "UNRESOLVED", "LIMIT_EXCEEDED"),
                     Observation(d, "UNRESOLVED", Len(d.seen) + 1, "LIMIT_EXCEEDED")), TRUE)

(* One request too many: correlation is given up for the rest of the window. *)
RequestOverflows(d, m) ==
    /\ Meets(d, m)
    /\ ~m.response
    /\ ~d.unavailable
    /\ Held(d, m) = {}
    /\ Len(d.requests) = MaxPending
    /\ Update(d, m, <<>>,
              Append(Marked(d.requests, "UNRESOLVED", "LIMIT_EXCEEDED"),
                     Observation(d, "UNRESOLVED", Len(d.seen) + 1, "LIMIT_EXCEEDED")), TRUE)

RequestOutstanding(d, m) ==
    /\ Meets(d, m)
    /\ ~m.response
    /\ ~d.unavailable
    /\ Held(d, m) = {}
    /\ Len(d.requests) # MaxPending
    /\ LET own == Observation(d, "PENDING", Len(d.seen) + 1, "none")
       IN Update(d, m, Append(d.requests, own), <<own>>, FALSE)

(* Responses: the pending entries they could answer are those of Held.       *)
Answerable(d, m) == {i \in Held(d, m) : ~d.unavailable}

ResponseAmbiguous(d, m) ==
    /\ Meets(d, m)
    /\ m.response
    /\ \E i \in Answerable(d, m) : d.requests[i].status = "AMBIGUOUS"
    /\ Update(d, m, d.requests, <<Observation(d, "AMBIGUOUS", 0, Reason(d))>>, d.unavailable)

AnsweredByIdentifier(d, m) ==
    {i \in Answerable(d, m) : d.requests[i].status # "AMBIGUOUS"}

(* Operation code and questions agree with those of the request.             *)
Answered(d, m) ==
    {i \in Answerable(d, m) :
        /\ d.requests[i].status # "AMBIGUOUS"
        /\ d.seen[d.requests[i].request].content = m.content}

ResponseMatched(d, m) ==
    /\ Meets(d, m)
    /\ m.response
    /\ \E i \in Answered(d, m) :
           Update(d, m, Without(d.requests, i),
                  <<Observation(d, "MATCHED", d.requests[i].request, "none")>>, FALSE)

ResponseUnmatchedRestoring(d, m) ==
    /\ Meets(d, m)
    /\ m.response
    /\ \A i \in Answerable(d, m) : d.requests[i].status # "AMBIGUOUS"
    /\ Answered(d, m) = {}
    /\ Update(d, m, d.requests, <<Observation(d, "UNMATCHED", 0, Reason(d))>>,
              d.unavailable /\ d.requests # <<>>)

ResponseUnmatched(d, m) ==
    /\ Meets(d, m)
    /\ m.response
    /\ \A i \in Answerable(d, m) : d.requests[i].status # "AMBIGUOUS"
    /\ Answered(d, m) = {}
    /\ Update(d, m, d.requests, <<Observation(d, "UNMATCHED", 0, Reason(d))>>, d.unavailable)

Commit ==
    /\ ~Idle
    /\ arriving = <<>>
    /\ state' \in candidate
    /\ candidate' = {}
    /\ UNCHANGED <<arriving, closed>>

(* A reducer or the construction of the coordinated state raised.            *)
Abandon ==
    /\ ~Idle
    /\ candidate' = {}
    /\ arriving' = <<>>
    /\ UNCHANGED <<state, closed>>

-----------------------------------------------------------------------------
(* The positions of the observations of d that are not PENDING, in order.    *)
RetainedOrders(d) ==
    LET kept == Counted(d.observations)
    IN {order \in [1 .. Cardinality(kept) -> kept] :
           \A i, j \in DOMAIN order : i < j => order[i] < order[j]}

(* finalize_dns_correlation_state: what is retained of the last batch, then  *)
(* the requests that nobody answered.                                        *)
Finalized(d, retained) ==
    [d EXCEPT !.requests = <<>>,
              !.observations = retained \o Marked(d.requests, "UNRESOLVED", "FLOW_CLOSED")]

CloseFoldingAll ==
    /\ Idle
    /\ ~closed
    /\ \E order \in RetainedOrders(state) :
           LET retained == [i \in DOMAIN order |-> state.observations[order[i]]]
               final == Finalized(state, retained)
           IN state' = [final EXCEPT !.stats = Folded(state.stats, final.observations)]
    /\ closed' = TRUE
    /\ UNCHANGED <<candidate, arriving>>

(* The closed window is constructed: correlation is finalized, and what      *)
(* follows the retained observations, counted with their packet, is counted. *)
Close ==
    /\ Idle
    /\ ~closed
    /\ \E order \in RetainedOrders(state) :
           LET retained == [i \in DOMAIN order |-> state.observations[order[i]]]
               final == Finalized(state, retained)
               suffix == SubSeq(final.observations, Len(retained) + 1, Len(final.observations))
           IN state' = [final EXCEPT !.stats = Folded(state.stats, suffix)]
    /\ closed' = TRUE
    /\ UNCHANGED <<candidate, arriving>>

(* The flow's next packet goes to a new coordinator, with nothing retained.  *)
NewWindow ==
    /\ closed
    /\ state' = InitState
    /\ closed' = FALSE
    /\ UNCHANGED <<candidate, arriving>>

Packets == UNION {[1 .. n -> Frames(d)] : n \in 0 .. MaxFrames, d \in Directions}

Respond(d, m) ==
    \/ ResponseAmbiguous(d, m)
    \/ ResponseMatched(d, m)
    \/ ResponseUnmatched(d, m)

DNSNext ==
    \/ \E frames \in Packets : Packet(frames)
    \/ NotComplete
    \/ \E d \in candidate, m \in Messages :
           \/ RequestUnavailable(d, m)
           \/ RequestRepeated(d, m)
           \/ RequestOverflows(d, m)
           \/ RequestOutstanding(d, m)
           \/ Respond(d, m)
    \/ Commit
    \/ Abandon
    \/ Close
    \/ NewWindow

DNSSpec == DNSInit /\ [][DNSNext]_dnsVars

-----------------------------------------------------------------------------
Live == {state} \cup candidate

(* Every complete message of the window is in the statistics once, on its    *)
(* own or as half of a match, or else it is a request still outstanding; in  *)
(* a closed window none is outstanding.                                      *)
MessagesConserved ==
    /\ \A d \in Live : d.stats["messages"] + Len(d.requests) = Len(d.seen)
    /\ closed => state.stats["messages"] = Len(state.seen)

(* The pending table is bounded, has one entry per key, and is empty for     *)
(* good once correlation was given up.                                       *)
PendingTable ==
    \A d \in Live :
        /\ Len(d.requests) <= MaxPending
        /\ d.unavailable => d.requests = <<>>
        /\ \A i, j \in DOMAIN d.requests :
               Key(d.seen[d.requests[i].message]) = Key(d.seen[d.requests[j].message]) => i = j

(* Within a window the loss of correlation is final: nothing is pending or   *)
(* matched any more.                                                         *)
LossIsFinal ==
    [][~closed => \A d \in candidate, e \in candidate' : d.unavailable =>
          /\ e.unavailable
          /\ e.stats["MATCHED"] = d.stats["MATCHED"]
          /\ e.stats["AMBIGUOUS"] = d.stats["AMBIGUOUS"]]_dnsVars
=============================================================================
