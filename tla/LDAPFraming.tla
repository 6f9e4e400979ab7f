------------------------------ MODULE LDAPFraming ------------------------------
(***************************************************************************)
(* The LDAP messages of one direction of a TCP stream: the envelope of a   *)
(* message in BER (ldap.py) and the framing of the bytes received so far   *)
(* (ldap_stream_framing.py).                                               *)
(*                                                                         *)
(* Positions count from 0, as in the code.  Integers of BER have up to     *)
(* four octets; only values below 2^31 are given to TLC.                   *)
(***************************************************************************)
EXTENDS Integers, Sequences, FiniteSets

CONSTANTS None,
          MaxMessage    \* LDAP_MAX_PAYLOAD_BYTES, also the bytes that TCP buffers

\* Operations by their tags; which request a response answers.
ResponseRequests ==
  [response \in {97, 100, 115, 101, 103, 105, 107, 109, 111, 120} |->
     CASE response = 97 -> 96 [] response \in {100, 115, 101} -> 99
       [] response = 103 -> 102 [] response = 105 -> 104 [] response = 107 -> 74
       [] response = 109 -> 108 [] response = 111 -> 110 [] response = 120 -> 119]

RequestOperations == {ResponseRequests[response] : response \in DOMAIN ResponseRequests}

SearchContinuations == {100, 115}

\* The others: unbind and abandon requests, and the intermediate response.
Operations == RequestOperations \cup DOMAIN ResponseRequests \cup {66, 80, 121}

Bytes == 0..255

Failures == {"incomplete", "malformed", "unsupported"}

\* The envelope of a message, as far as it could be decoded.
Messages ==
  [offset : Nat, status : {"complete"} \cup Failures, length : Nat \cup {None}, whole : BOOLEAN,
   id : Nat \cup {None}, operation : Operations \cup {None}, last : BOOLEAN]

\* What is received of a direction, and how it is framed.
TCPStreams == [payload : Seq(Bytes), consumed : Nat, contiguous : BOOLEAN]

Failed == {"malformed", "unsupported", "unavailable"}

Framings ==
  [stream : TCPStreams, messages : Seq(Messages), pending : Messages \cup {None},
   status : {"ready", "incomplete"} \cup Failed, complete : Nat, unsupported : Nat, malformed : Nat]

ASSUME MaxMessageAssumption == MaxMessage \in Nat
ASSUME NoneAssumption ==
  None \notin Nat /\ None \notin Failures /\ None \notin Messages /\ None \notin Framings

-----------------------------------------------------------------------------
(* BER.  A check is the status that its failure gives, or None.            *)

Byte(data, p) == IF p + 1 \in DOMAIN data THEN data[p + 1] ELSE 0

Number(data, p, count) ==
  LET value[i \in 0..count] == IF i = 0 THEN 0 ELSE value[i - 1] * 256 + Byte(data, p + i - 1)
  IN value[count]

If(condition, status) == IF condition THEN status ELSE None

\* _require_bytes
Need(p, count, available, boundary) ==
  IF boundary # None /\ p + count > boundary THEN "malformed"
  ELSE If(p + count > available, "incomplete")

\* How many checks are passed.
Passed(checks) ==
  CHOOSE n \in 0..Len(checks) : /\ \A i \in 1..n : checks[i] = None
                                /\ n < Len(checks) => checks[n + 1] # None

Failure(checks) == IF Passed(checks) = Len(checks) THEN None ELSE checks[Passed(checks) + 1]

\* _envelope
Envelope(data, p, available, boundary) ==
  LET first == Byte(data, p + 1)
      count == IF first \in 129..132 THEN first - 128 ELSE 0
      start == p + 2 + count
      end == start + (IF first < 128 THEN first ELSE Number(data, p + 2, count))
  IN [tag |-> Byte(data, p), start |-> start, end |-> end,
      failure |-> Failure(<<
        Need(p, 1, available, boundary),
        If(Byte(data, p) % 32 = 31, "unsupported"),
        Need(p + 1, 1, available, boundary),
        If(first = 255, "malformed"),
        If(first = 128, "unsupported"),
        If(first > 132, "unsupported"),
        Need(p + 2, count, available, boundary),
        If(boundary # None /\ end > boundary, "malformed")>>)]

\* The envelopes of a message and, inside it, of its identifier, its operation
\* and its controls, one behind the other.
Envelopes(data, offset, available) ==
  LET outer == Envelope(data, offset, available, None)
      inner[i \in 1..3] ==
        Envelope(data, IF i = 1 THEN outer.start ELSE inner[i - 1].end, available, outer.end)
  IN [outer |-> outer, id |-> inner[1], op |-> inner[2], controls |-> inner[3]]

Checks(data, offset, available, e) ==
  LET size == e.id.end - e.id.start
      trailing == e.op.end < e.outer.end
  IN <<Need(offset, 1, available, None),
       If(Byte(data, offset) # 48, "malformed"),
       e.outer.failure,
       If(e.outer.end - offset > MaxMessage, "unsupported"),
       e.id.failure,
       If(e.id.tag # 2, "malformed"),
       If(size \notin 1..4, "malformed"),
       Need(e.id.start, size, available, e.outer.end),
       If(\/ Byte(data, e.id.start) >= 128
          \/ size > 1 /\ Byte(data, e.id.start) = 0 /\ Byte(data, e.id.start + 1) < 128,
          "malformed"),
       Need(e.id.end, 1, available, e.outer.end),
       e.op.failure,
       Need(e.op.start, e.op.end - e.op.start, available, e.outer.end),
       If(trailing, Need(e.op.end, 1, available, e.outer.end)),
       If(trailing /\ Byte(data, e.op.end) # 160, "unsupported"),
       If(trailing, e.controls.failure),
       If(trailing, Need(e.controls.start, e.controls.end - e.controls.start, available,
                         e.outer.end)),
       If(trailing /\ e.controls.end # e.outer.end, "unsupported"),
       If(Byte(data, e.id.end) \notin Operations, "unsupported")>>

Decoded(data, offset, available, e, failure, passed) ==
  [offset |-> offset,
   status |-> IF failure = None THEN "complete" ELSE failure,
   length |-> If(passed >= 3, e.outer.end - offset),
   whole |-> passed >= 3 /\ e.outer.end <= available,
   id |-> If(passed >= 9, Number(data, e.id.start, e.id.end - e.id.start)),
   operation |-> If(passed >= 10 /\ Byte(data, e.id.end) \in Operations, Byte(data, e.id.end)),
   \* the operation's length is known, and it is the message's last part
   last |-> passed >= 11 /\ e.op.end >= e.outer.end]

\* _message: the envelope of the message that starts at an offset.
Message(data, offset, available) ==
  LET e == Envelopes(data, offset, available)
      checks == Checks(data, offset, available, e)
  IN Decoded(data, offset, available, e, Failure(checks), Passed(checks))

-----------------------------------------------------------------------------
(* The framing of a direction.  A TCP stream is [payload, consumed,        *)
(* contiguous]: the bytes received, how many are consumed, and whether     *)
(* none is missing.                                                        *)

\* The while loop: the messages from an offset on, up to one that is not whole
\* or is malformed, which is then pending.
Parsed(data, from) ==
  LET available == Len(data)
      at[offset \in from..available] ==
        IF offset = available THEN [messages |-> <<>>, pending |-> None, consumed |-> offset]
        ELSE LET m == Message(data, offset, available)
             IN IF m.status = "malformed" \/ ~m.whole
                THEN [messages |-> <<>>, pending |-> m, consumed |-> offset]
                ELSE LET rest == at[offset + m.length]
                     IN [rest EXCEPT !.messages = <<m>> \o @]
  IN at[from]

CountOf(messages, status) == Cardinality({i \in DOMAIN messages : messages[i].status = status})

\* The status that a pending message leaves the direction in.
Awaited(m) ==
  \/ m.status = "incomplete"
  \/ m.status = "unsupported" /\ m.length # None /\ m.length <= MaxMessage

PendingStatus(m) ==
  IF m = None THEN "ready"
  ELSE IF Awaited(m) THEN "incomplete" ELSE m.status

Unframed == [stream |-> None, messages |-> <<>>, pending |-> None, status |-> "ready",
             complete |-> 0, unsupported |-> 0, malformed |-> 0]

Reframed(f, s, parsed) ==
  LET status == PendingStatus(parsed.pending)
  IN [stream |-> [s EXCEPT !.consumed = parsed.consumed],
      messages |-> parsed.messages, pending |-> parsed.pending, status |-> status,
      complete |-> f.complete + CountOf(parsed.messages, "complete"),
      unsupported |-> f.unsupported + CountOf(parsed.messages, "unsupported")
                        + (IF status = "unsupported" THEN 1 ELSE 0),
      malformed |-> f.malformed + (IF status = "malformed" THEN 1 ELSE 0)]

\* A slip for a property to be seen to fail on; nothing uses it.
WaitingForLength(f, s) ==
  /\ f.pending # None /\ f.pending.length # None
  /\ Len(s.payload) - s.consumed < f.pending.length

\* The rest of a pending message is all that is missing: nothing to decode yet.
Waiting(f, s) ==
  /\ f.pending # None /\ f.pending.length # None
  /\ f.pending.status = "unsupported" \/ f.pending.last
  /\ Len(s.payload) - s.consumed < f.pending.length

\* _frame_direction: None until the direction begins with an LDAP message.
FrameDirection(current, s) ==
  LET f == IF current = None THEN Unframed ELSE current
      unchanged == current # None /\ Len(s.payload) = Len(current.stream.payload)
      next == [f EXCEPT !.stream = s, !.messages = <<>>]
  IN IF current = None /\ (s.payload = <<>> \/ Byte(s.payload, 0) # 48) THEN None
     ELSE IF ~s.contiguous THEN [next EXCEPT !.status = "unavailable"]
     ELSE IF f.status \in Failed \/ unchanged \/ Waiting(f, s) THEN next
     ELSE Reframed(f, s, Parsed(s.payload, s.consumed))
=============================================================================
